------------------------ MODULE CaptureSessionProofs ------------------------
(***************************************************************************)
(* Safety of CaptureSession for every value of its constants: the guards   *)
(* exclude, a bundle holds what its pipeline run took in, and a complete   *)
(* bundle is permanent.                                                    *)
(*                                                                         *)
(* SealedIsWhatInferenceRead is not inductive.  EvidenceInv strengthens it *)
(* along the way the evidence takes: a run's number is used once, a        *)
(* committed run's record never changes, a snapshot pins the digests of    *)
(* its run, and a seal in flight has read only what its snapshot pins.     *)
(***************************************************************************)
EXTENDS CaptureSessionTypes

-----------------------------------------------------------------------------
(* The re-entrancy guards.                                                 *)

LEMMA InitGuards == Init => GuardsAreExclusive
  BY DEF Init, GuardsAreExclusive, IdleInference, IdleSeal

\* A call in flight stays in flight until it returns, and no step of a call
\* touches another one or a guard it does not own.
LEMMA InferenceInFlight ==
  ASSUME Typed, NEW c \in InferCalls, InferenceStep(c), ~ReturnInference(c)
  PROVE  /\ UNCHANGED <<seal, runningInference, runningSeal>>
         /\ infer[c].pc # "idle"
         /\ infer'[c].pc # "idle"
         /\ \A d \in InferCalls : d # c => infer'[d] = infer[d]
  <1> USE DEF Typed, TypeOK, CallsTypeOK, InferenceCall
  <1>1. CASE HashAudio(c) \/ HearAudio(c)
    BY <1>1 DEF HashAudio, HearAudio, state
  <1>2. CASE StructureIncident(c) \/ WriteTrace(c)
    BY <1>2 DEF StructureIncident, WriteTrace, state
  <1>3. CASE AnalyzeImage(c)
    <2>1. PICK seen, models :
            infer' = [infer EXCEPT ![c].seen = seen, ![c].models = models]
      BY <1>3 DEF AnalyzeImage
    <2>2. infer[c].pc = "images" /\ UNCHANGED <<seal, state>>
      BY <1>3 DEF AnalyzeImage
    <2> QED
      BY <2>1, <2>2 DEF state
  <1>4. CASE CheckConsistency(c)
    BY <1>4 DEF CheckConsistency, state
  <1>5. CASE CommitPipeline(c) \/ InferenceFails(c) \/ TraceCutShort(c)
    <2>1. /\ infer' = [infer EXCEPT ![c] =
                         [IdleInference EXCEPT !.pc = "return"]]
          /\ infer[c].pc # "idle"
          /\ UNCHANGED <<seal, runningInference, runningSeal>>
      BY <1>5 DEF CommitPipeline, InferenceFails, TraceCutShort, state
    <2> QED
      BY <2>1 DEF IdleInference
  <1> QED
    BY <1>1, <1>2, <1>3, <1>4, <1>5 DEF InferenceStep

LEMMA SealInFlight ==
  ASSUME Typed, NEW c \in SealCalls, SealStep(c), ~ReturnSeal(c)
  PROVE  /\ UNCHANGED <<infer, runningInference, runningSeal>>
         /\ seal[c].pc # "idle"
         /\ seal'[c].pc # "idle"
         /\ \A d \in SealCalls : d # c => seal'[d] = seal[d]
  <1> USE DEF Typed, TypeOK, CallsTypeOK, SealCall
  <1>1. CASE ResolveFingerprint(c)
    BY <1>1 DEF ResolveFingerprint, state
  <1>2. CASE ReservePath(c)
    BY <1>2 DEF ReservePath, state
  <1>3. CASE ReadAudio(c)
    BY <1>3 DEF ReadAudio, state
  <1>4. CASE ReadImage(c)
    <2>1. PICK blobs : seal' = [seal EXCEPT ![c].blobs = blobs]
      BY <1>4 DEF ReadImage
    <2>2. seal[c].pc = "images" /\ UNCHANGED <<infer, state>>
      BY <1>4 DEF ReadImage
    <2> QED
      BY <2>1, <2>2 DEF state
  <1>5. CASE CreateArchive(c)
    BY <1>5 DEF CreateArchive, state
  <1>6. CASE FinishArchive(c) \/ SealFails(c)
    <2>1. /\ seal' = [seal EXCEPT ![c] = [IdleSeal EXCEPT !.pc = "return"]]
          /\ seal[c].pc # "idle"
          /\ UNCHANGED <<infer, state>>
      BY <1>6 DEF FinishArchive, SealFails
    <2> QED
      BY <2>1 DEF IdleSeal, state
  <1> QED
    BY <1>1, <1>2, <1>3, <1>4, <1>5, <1>6 DEF SealStep

LEMMA GuardsStay ==
  ASSUME GuardsAreExclusive, UNCHANGED <<runningInference, runningSeal>>,
         \A d \in InferCalls : infer'[d].pc # "idle" <=> infer[d].pc # "idle",
         \A d \in SealCalls : seal'[d].pc # "idle" <=> seal[d].pc # "idle"
  PROVE  GuardsAreExclusive'
  <1>1. (runningInference <=> \E c \in InferCalls : infer[c].pc # "idle")'
    BY DEF GuardsAreExclusive
  <1>2. (runningSeal <=> \E c \in SealCalls : seal[c].pc # "idle")'
    BY DEF GuardsAreExclusive
  <1>3. (\A c, d \in InferCalls :
           infer[c].pc # "idle" /\ infer[d].pc # "idle" => c = d)'
    BY DEF GuardsAreExclusive
  <1>4. (\A c, d \in SealCalls :
           seal[c].pc # "idle" /\ seal[d].pc # "idle" => c = d)'
    BY DEF GuardsAreExclusive
  <1> QED
    BY <1>1, <1>2, <1>3, <1>4 DEF GuardsAreExclusive

LEMMA StepGuards ==
  Typed /\ GuardsAreExclusive /\ [Next]_vars => GuardsAreExclusive'
  <1> SUFFICES ASSUME Typed, GuardsAreExclusive, [Next]_vars
               PROVE  GuardsAreExclusive'
    OBVIOUS
  <1> USE DEF Typed, TypeOK, CallsTypeOK, InferenceCall, SealCall
  <1>1. CASE UNCHANGED <<infer, seal, runningInference, runningSeal>>
    BY <1>1 DEF GuardsAreExclusive
  <1>2. ASSUME NEW c \in InferCalls, BeginInference(c)
        PROVE  GuardsAreExclusive'
    BY <1>2 DEF BeginInference, MayInfer, GuardsAreExclusive, IdleInference
  <1>3. ASSUME NEW c \in InferCalls, InferenceStep(c)
        PROVE  GuardsAreExclusive'
    <2>1. CASE ReturnInference(c)
      BY <2>1 DEF ReturnInference, GuardsAreExclusive, IdleInference
    <2>2. CASE ~ ReturnInference(c)
      <3>1. /\ UNCHANGED <<seal, runningInference, runningSeal>>
            /\ infer[c].pc # "idle"
            /\ infer'[c].pc # "idle"
            /\ \A d \in InferCalls : d # c => infer'[d] = infer[d]
        BY <1>3, <2>2, InferenceInFlight
      <3>2. \A d \in InferCalls : infer'[d].pc # "idle" <=> infer[d].pc # "idle"
        BY <3>1
      <3> QED
        BY <3>1, <3>2, GuardsStay
    <2> QED
      BY <2>1, <2>2
  <1>4. ASSUME NEW c \in SealCalls, BeginSeal(c)
        PROVE  GuardsAreExclusive'
    BY <1>4 DEF BeginSeal, GuardsAreExclusive, IdleSeal
  <1>5. ASSUME NEW c \in SealCalls, SealStep(c)
        PROVE  GuardsAreExclusive'
    <2>1. CASE ReturnSeal(c)
      BY <2>1 DEF ReturnSeal, GuardsAreExclusive, IdleSeal
    <2>2. CASE ~ ReturnSeal(c)
      <3>1. /\ UNCHANGED <<infer, runningInference, runningSeal>>
            /\ seal[c].pc # "idle"
            /\ seal'[c].pc # "idle"
            /\ \A d \in SealCalls : d # c => seal'[d] = seal[d]
        BY <1>5, <2>2, SealInFlight
      <3>2. \A d \in SealCalls : seal'[d].pc # "idle" <=> seal[d].pc # "idle"
        BY <3>1
      <3> QED
        BY <3>1, <3>2, GuardsStay
    <2> QED
      BY <2>1, <2>2
  <1>6. CASE Crash
    BY <1>6 DEF Crash, GuardsAreExclusive, IdleInference, IdleSeal
  <1>7. CASE \/ Record \/ Pick \/ Discard \/ ClockMoves \/ SidecarSwaps
             \/ ExternalWrite \/ UNCHANGED vars
    <2>1. UNCHANGED <<infer, seal, runningInference, runningSeal>>
      BY <1>7 DEF Record, StartRecording, CaptureSamples, StopRecording, Pick,
                  OpenDialog, CreateStagingDir, StageImage, CommitPick,
                  LeavePick, Discard, BeginDiscard, RemoveRecordings,
                  RemoveReasoning, RemoveStaged, DiscardFails, ClockMoves,
                  SidecarSwaps, ExternalWrite, vars, calls, state
    <2> QED
      BY <1>1, <2>1
  <1> QED
    BY <1>2, <1>3, <1>4, <1>5, <1>6, <1>7 DEF Next

\* However commands interleave and fail, at most one pipeline run and one
\* seal are in flight, and each guard is up exactly while its command is
\* (inference_commands.rs and seal_commands.rs, audit T-9).
THEOREM GuardsExclusive == Spec => []GuardsAreExclusive
  <1>1. Init => Typed /\ GuardsAreExclusive
    BY InitTyped, InitGuards
  <1>2. Typed /\ GuardsAreExclusive /\ [Next]_vars
          => (Typed /\ GuardsAreExclusive)'
    BY StepTyped, StepGuards
  <1> QED
    BY <1>1, <1>2, PTL DEF Spec

-----------------------------------------------------------------------------
(* Evidence.                                                               *)

LEMMA InitEvidence == Init => EvidenceInv
  BY DEF Init, EvidenceInv, PipelineIsFaithful, RunsAreFresh, HasRun,
         SealsMatchTheirPins, SealOpen, HasModel, HasAudio, SealedIsCommitted,
         SealedIsWhatInferenceRead, IsSealed, NoBundle, IdleInference, IdleSeal

\* Only a commit writes the record of a run, and the record of its own run.
LEMMA OnlyCommitsRecord ==
  ASSUME [Next]_vars
  PROVE  UNCHANGED runs \/ \E c \in InferCalls : CommitPipeline(c)
  BY DEF Next, Record, StartRecording, CaptureSamples,
         StopRecording, Pick, OpenDialog, CreateStagingDir, StageImage,
         CommitPick, LeavePick, BeginInference, InferenceStep, HashAudio,
         HearAudio, StructureIncident, AnalyzeImage, CheckConsistency,
         WriteTrace, InferenceFails, TraceCutShort, ReturnInference,
         BeginSeal, SealStep, ResolveFingerprint, ReservePath, ReadAudio,
         ReadImage, CreateArchive, FinishArchive, SealFails, ReturnSeal,
         Discard, BeginDiscard, RemoveRecordings, RemoveReasoning,
         RemoveStaged, DiscardFails, ClockMoves, SidecarSwaps,
         ExternalWrite, Crash, vars

\* What a committed run took in is never revised.
LEMMA RunsStay ==
  ASSUME Typed, RunsAreFresh, [Next]_vars, NEW n \in 1..MaxRuns,
         runs[n] # NoRun
  PROVE  runs'[n] = runs[n]
  <1>1. CASE UNCHANGED runs
    BY <1>1
  <1>2. ASSUME NEW c \in InferCalls, CommitPipeline(c)
        PROVE  runs'[n] = runs[n]
    BY <1>2 DEF CommitPipeline, RunsAreFresh, HasRun, Typed, TypeOK
  <1> QED
    BY <1>1, <1>2, OnlyCommitsRecord

LEMMA FaithfulStays ==
  ASSUME Typed, RunsAreFresh, [Next]_vars, NEW snap, Faithful(snap)
  PROVE  Faithful(snap)'
  <1>1. snap.trace \in 1..MaxRuns /\ runs[snap.trace] # NoRun
    BY DEF Faithful, Committed
  <1>2. runs'[snap.trace] = runs[snap.trace]
    BY <1>1, RunsStay
  <1> QED
    BY <1>1, <1>2 DEF Faithful, Committed

LEMMA StepRuns ==
  Typed /\ GuardsAreExclusive /\ RunsAreFresh /\ [Next]_vars => RunsAreFresh'
  <1> SUFFICES ASSUME Typed, GuardsAreExclusive, RunsAreFresh, [Next]_vars
               PROVE  RunsAreFresh'
    OBVIOUS
  <1> USE DEF Typed, TypeOK, CallsTypeOK, FreshTypeOK
  <1>1. nextRun' >= nextRun /\ nextRun' \in Nat /\ nextRun \in Nat
    BY FreshTyped, BoundsAssumption
  <1>2. ASSUME NEW c \in InferCalls, CheckConsistency(c)
        PROVE  RunsAreFresh'
    <2>1. /\ infer' = [infer EXCEPT ![c].pc = "trace",
                                    ![c].models = @ \cup {liveModel},
                                    ![c].run = nextRun]
          /\ nextRun' = nextRun + 1
          /\ nextRun <= MaxRuns
          /\ UNCHANGED runs
      BY <1>2 DEF CheckConsistency
    <2>2. \A d \in InferCalls : HasRun(d)' =>
            \/ infer'[d].run = nextRun
            \/ HasRun(d) /\ infer'[d].run = infer[d].run
      BY <2>1 DEF HasRun, InferenceCall
    <2>3. runs[nextRun] = NoRun
      BY <1>1, <2>1, BoundsAssumption DEF RunsAreFresh
    <2>4. \A n \in nextRun'..MaxRuns : runs'[n] = NoRun
      BY <1>1, <2>1, BoundsAssumption DEF RunsAreFresh
    <2>5. ASSUME NEW d \in InferCalls, HasRun(d)'
          PROVE  infer'[d].run < nextRun' /\ runs'[infer'[d].run] = NoRun
      <3>1. CASE infer'[d].run = nextRun
        BY <1>1, <2>1, <2>3, <3>1
      <3>2. CASE HasRun(d) /\ infer'[d].run = infer[d].run
        <4>1. infer[d].run < nextRun /\ runs[infer[d].run] = NoRun
          BY <3>2 DEF RunsAreFresh
        <4>2. infer[d].run \in Nat
          BY BoundsAssumption DEF InferenceCall
        <4> QED
          BY <1>1, <2>1, <3>2, <4>1, <4>2
      <3> QED
        BY <2>2, <2>5, <3>1, <3>2
    <2> QED
      BY <2>4, <2>5 DEF RunsAreFresh
  <1>3. ASSUME NEW c \in InferCalls, CommitPipeline(c)
        PROVE  RunsAreFresh'
    <2>1. HasRun(c) /\ infer[c].pc # "idle"
      BY <1>3 DEF CommitPipeline, HasRun
    <2>2. infer[c].run < nextRun /\ UNCHANGED nextRun
      BY <1>3, <2>1 DEF CommitPipeline, RunsAreFresh, fresh
    <2>3. \A d \in InferCalls : ~ HasRun(d)'
      <3> SUFFICES ASSUME NEW d \in InferCalls, HasRun(d)' PROVE FALSE
        OBVIOUS
      <3>1. d # c
        BY <1>3 DEF CommitPipeline, HasRun, IdleInference
      <3>2. infer'[d] = infer[d]
        BY <1>3, <3>1 DEF CommitPipeline
      <3>3. infer[d].pc # "idle"
        BY <3>2 DEF HasRun
      <3> QED
        BY <2>1, <3>1, <3>3 DEF GuardsAreExclusive
    <2>4. infer[c].run \in 1..MaxRuns
      BY <2>1 DEF CallsHoldValues
    <2>5. \A n \in nextRun'..MaxRuns : runs'[n] = NoRun
      BY <1>1, <1>3, <2>2, <2>4, BoundsAssumption
      DEF CommitPipeline, RunsAreFresh
    <2> QED
      BY <2>3, <2>5 DEF RunsAreFresh
  <1>4. ASSUME UNCHANGED runs,
               \A d \in InferCalls :
                 HasRun(d)' => HasRun(d) /\ infer'[d].run = infer[d].run
        PROVE  RunsAreFresh'
    <2>1. \A n \in nextRun'..MaxRuns : runs'[n] = NoRun
      BY <1>1, <1>4, BoundsAssumption DEF RunsAreFresh
    <2>2. ASSUME NEW d \in InferCalls, HasRun(d)'
          PROVE  infer'[d].run < nextRun' /\ runs'[infer'[d].run] = NoRun
      <3>1. infer[d].run < nextRun /\ runs[infer[d].run] = NoRun
        BY <1>4, <2>2 DEF RunsAreFresh
      <3>2. infer[d].run \in Nat
        BY BoundsAssumption DEF InferenceCall
      <3> QED
        BY <1>1, <1>4, <2>2, <3>1, <3>2
    <2> QED
      BY <2>1, <2>2 DEF RunsAreFresh
  <1>5. ASSUME NEW c \in InferCalls, BeginInference(c) \/ InferenceStep(c),
               ~ CheckConsistency(c), ~ CommitPipeline(c)
        PROVE  RunsAreFresh'
    <2>1. UNCHANGED runs
      BY <1>5 DEF BeginInference, InferenceStep, HashAudio, HearAudio,
                  StructureIncident, AnalyzeImage, WriteTrace,
                  InferenceFails, TraceCutShort, ReturnInference
    <2>2. /\ \A d \in InferCalls : d # c => infer'[d] = infer[d]
          /\ HasRun(c)' => HasRun(c) /\ infer'[c].run = infer[c].run
      <3>1. CASE WriteTrace(c)
        BY <3>1 DEF WriteTrace, HasRun, InferenceCall
      <3>2. CASE AnalyzeImage(c)
        <4>1. PICK seen, models :
                infer' = [infer EXCEPT ![c].seen = seen, ![c].models = models]
          BY <3>2 DEF AnalyzeImage
        <4> QED
          BY <4>1 DEF HasRun, InferenceCall
      <3>3. CASE HashAudio(c) \/ HearAudio(c) \/ StructureIncident(c)
        <4>1. /\ \A d \in InferCalls : d # c => infer'[d] = infer[d]
              /\ infer'[c].pc \in {"hear", "structure", "images"}
          BY <3>3 DEF HashAudio, HearAudio, StructureIncident, InferenceCall
        <4> QED
          BY <4>1 DEF HasRun
      <3>4. CASE \/ BeginInference(c) \/ InferenceFails(c)
                 \/ TraceCutShort(c) \/ ReturnInference(c)
        BY <3>4, CallReset DEF HasRun
      <3> QED
        BY <1>5, <3>1, <3>2, <3>3, <3>4 DEF InferenceStep
    <2> QED
      BY <1>4, <2>1, <2>2 DEF HasRun
  <1>6. ASSUME NEW c \in SealCalls, BeginSeal(c) \/ SealStep(c)
        PROVE  RunsAreFresh'
    <2>1. UNCHANGED <<infer, runs>>
      BY <1>6 DEF BeginSeal, SealStep, ResolveFingerprint, ReservePath,
                  ReadAudio, ReadImage, CreateArchive, FinishArchive,
                  SealFails, ReturnSeal
    <2> QED
      BY <1>4, <2>1 DEF HasRun
  <1>7. CASE Crash
    <2>1. UNCHANGED runs /\ \A d \in InferCalls : ~ HasRun(d)'
      BY <1>7 DEF Crash, HasRun, IdleInference
    <2> QED
      BY <1>4, <2>1
  <1>8. CASE \/ Record \/ Pick \/ Discard \/ ClockMoves \/ SidecarSwaps
             \/ ExternalWrite \/ UNCHANGED vars
    <2>1. UNCHANGED <<infer, runs>>
      BY <1>8 DEF Record, StartRecording, CaptureSamples, StopRecording, Pick,
                  OpenDialog, CreateStagingDir, StageImage, CommitPick,
                  LeavePick, Discard, BeginDiscard, RemoveRecordings,
                  RemoveReasoning, RemoveStaged, DiscardFails, ClockMoves,
                  SidecarSwaps, ExternalWrite, vars, calls
    <2> QED
      BY <1>4, <2>1 DEF HasRun
  <1> QED
    BY <1>2, <1>3, <1>5, <1>6, <1>7, <1>8 DEF Next

\* A commit pins the digests of what its own run took in.
LEMMA CommitIsFaithful ==
  ASSUME Typed, NEW c \in InferCalls, CommitPipeline(c)
  PROVE  Faithful(lastPipeline)'
  <1> DEFINE call == infer[c]
  <1>1. /\ call \in InferenceCall
        /\ call.run \in 1..MaxRuns
        /\ call.read \in Versions
    BY DEF CommitPipeline, Typed, TypeOK, CallsTypeOK, CallsHoldValues,
           HasRun, HasRead
  <1>2. runs'[call.run] = [audio  |-> call.read, heard |-> call.heard,
                           images |-> call.seen, models |-> call.models]
    BY <1>1 DEF CommitPipeline, Typed, TypeOK
  <1>3. runs'[call.run] # NoRun
    BY <1>1, <1>2 DEF NoRun, Versions
  <1>4. call.seen \in Seq(ImageData)
    BY <1>1 DEF InferenceCall
  <1>5. /\ lastPipeline'.trace = call.run
        /\ lastPipeline'.audio = Sha256(call.read)
        /\ lastPipeline'.images = [i \in 1..Len(call.seen) |->
                                     Sha256(call.seen[i])]
    BY DEF CommitPipeline, SnapshotOf
  <1> HIDE DEF call
  <1>6. /\ Len(lastPipeline'.images) = Len(call.seen)
        /\ \A i \in 1..Len(lastPipeline'.images) :
             lastPipeline'.images[i] = Sha256(call.seen[i])
    BY <1>4, <1>5
  <1>7. /\ runs'[lastPipeline'.trace].audio = call.read
        /\ runs'[lastPipeline'.trace].images = call.seen
    BY <1>2, <1>5
  <1> QED
    BY <1>1, <1>3, <1>5, <1>6, <1>7 DEF Faithful, Committed

LEMMA StepPipeline ==
  Typed /\ RunsAreFresh /\ PipelineIsFaithful /\ [Next]_vars
    => PipelineIsFaithful'
  <1> SUFFICES ASSUME Typed, RunsAreFresh, PipelineIsFaithful, [Next]_vars,
                      lastPipeline' # None
               PROVE  Faithful(lastPipeline)'
    BY DEF PipelineIsFaithful
  <1>1. CASE UNCHANGED lastPipeline
    BY <1>1, FaithfulStays DEF PipelineIsFaithful
  <1>2. ASSUME NEW c \in InferCalls, CommitPipeline(c)
        PROVE  Faithful(lastPipeline)'
    BY <1>2, CommitIsFaithful
  <1>3. \/ UNCHANGED lastPipeline
        \/ lastPipeline' = None
        \/ \E c \in InferCalls : CommitPipeline(c)
    <2>1. ASSUME NEW c \in InferCalls, BeginInference(c) \/ InferenceStep(c),
                 ~CommitPipeline(c)
          PROVE  UNCHANGED lastPipeline
      BY <2>1 DEF BeginInference, InferenceStep, HashAudio, HearAudio,
                  StructureIncident, AnalyzeImage, CheckConsistency,
                  WriteTrace, InferenceFails, TraceCutShort, ReturnInference,
                  state
    <2>2. ASSUME NEW c \in SealCalls, BeginSeal(c) \/ SealStep(c)
          PROVE  UNCHANGED lastPipeline
      BY <2>2 DEF BeginSeal, SealStep, ResolveFingerprint, ReservePath,
                  ReadAudio, ReadImage, CreateArchive, FinishArchive,
                  SealFails, ReturnSeal, state
    <2>3. CASE \/ Record \/ Pick \/ Discard \/ ClockMoves \/ SidecarSwaps
               \/ ExternalWrite \/ Crash \/ UNCHANGED vars
      BY <2>3 DEF Record, StartRecording, CaptureSamples, StopRecording, Pick,
                  OpenDialog, CreateStagingDir, StageImage, CommitPick,
                  LeavePick, Discard, BeginDiscard, RemoveRecordings,
                  RemoveReasoning, RemoveStaged, DiscardFails, ClockMoves,
                  SidecarSwaps, ExternalWrite, Crash, vars, state
    <2> QED
      BY <2>1, <2>2, <2>3 DEF Next
  <1> QED
    BY <1>1, <1>2, <1>3

\* One more digest that matches its pin.
LEMMA AppendMatches ==
  ASSUME NEW S, NEW blobs \in Seq(S), NEW bytes, NEW pins,
         \A j \in 1..Len(blobs) : Sha256(blobs[j]) = pins[j],
         Sha256(bytes) = pins[Len(blobs) + 1]
  PROVE  /\ Len(Append(blobs, bytes)) = Len(blobs) + 1
         /\ \A j \in 1..(Len(blobs) + 1) :
              Sha256(Append(blobs, bytes)[j]) = pins[j]
  <1>1. /\ Len(Append(blobs, bytes)) = Len(blobs) + 1
        /\ Append(blobs, bytes)[Len(blobs) + 1] = bytes
        /\ \A j \in 1..Len(blobs) : Append(blobs, bytes)[j] = blobs[j]
    OBVIOUS
  <1>2. ASSUME NEW j \in 1..(Len(blobs) + 1)
        PROVE  Sha256(Append(blobs, bytes)[j]) = pins[j]
    <2>1. j \in 1..Len(blobs) \/ j = Len(blobs) + 1
      OBVIOUS
    <2> QED
      BY <1>1, <2>1
  <1> QED
    BY <1>1, <1>2

\* The five facts SealsMatchTheirPins says of one seal.
LEMMA StepSeals ==
  ASSUME Typed, RunsAreFresh, PipelineIsFaithful, SealsMatchTheirPins,
         [Next]_vars
  PROVE  SealsMatchTheirPins'
  <1> USE DEF Typed, TypeOK, CallsTypeOK
  <1> DEFINE Matches(r) ==
        /\ r.pc \in {"fingerprint", "reserve", "audio", "images", "write"}
             => Faithful(r.snap)
        /\ r.pc = "fingerprint" => r.blobs = <<>>
        /\ r.pc \in {"reserve", "audio", "images", "write"} =>
             /\ r.images.count = Len(r.snap.images)
             /\ Len(r.blobs) <= r.images.count
             /\ \A i \in 1..Len(r.blobs) : Sha256(r.blobs[i]) = r.snap.images[i]
        /\ r.pc \in {"images", "write"} => Sha256(r.blob) = r.snap.audio
        /\ r.pc = "write" => Len(r.blobs) = r.images.count
  <1>1. \A d \in SealCalls : Matches(seal[d])
    BY DEF SealsMatchTheirPins, SealOpen, HasModel, HasAudio
  <1>2. ASSUME \A d \in SealCalls : Matches(seal'[d])
        PROVE  SealsMatchTheirPins'
    <2>1. \A d \in SealCalls : SealOpen(d)' => Faithful(seal[d].snap)'
      <3> SUFFICES ASSUME NEW d \in SealCalls, SealOpen(d)'
                   PROVE  Faithful(seal[d].snap)'
        OBVIOUS
      <3>1. Faithful(seal'[d].snap)
        BY <1>2 DEF SealOpen
      <3> QED
        BY <3>1, FaithfulStays
    <2> QED
      BY <1>2, <2>1 DEF SealsMatchTheirPins, SealOpen, HasModel, HasAudio
  <1>3. CASE UNCHANGED seal
    BY <1>1, <1>2, <1>3
  <1>4. ASSUME NEW c \in SealCalls, NEW r, seal' = [seal EXCEPT ![c] = r],
               Matches(r)
        PROVE  SealsMatchTheirPins'
    <2>1. \A d \in SealCalls : Matches(seal'[d])
      BY <1>1, <1>4
    <2> QED
      BY <1>2, <2>1
  <1>5. ASSUME NEW c \in SealCalls, BeginSeal(c)
        PROVE  SealsMatchTheirPins'
    <2> DEFINE r == [IdleSeal EXCEPT !.pc = "fingerprint",
                                     !.audio = capturedAudio,
                                     !.images = pickedImages,
                                     !.snap = lastPipeline]
    <2>1. seal' = [seal EXCEPT ![c] = r] /\ Faithful(lastPipeline)
      BY <1>5 DEF BeginSeal, PipelineIsFaithful
    <2>2. Matches(r)
      BY <2>1 DEF IdleSeal
    <2> QED
      BY <1>4, <2>1, <2>2
  <1>6. ASSUME NEW c \in SealCalls, SealStep(c)
        PROVE  SealsMatchTheirPins'
    <2> DEFINE s == seal[c]
    <2>1. s \in SealCall /\ Matches(s)
      BY <1>1
    <2>2. CASE ResolveFingerprint(c)
      <3> DEFINE r == [s EXCEPT !.pc = "reserve", !.model = liveModel]
      <3>1. /\ seal' = [seal EXCEPT ![c] = r]
            /\ s.pc = "fingerprint"
            /\ Len(s.snap.images) = s.images.count
        BY <2>2 DEF ResolveFingerprint
      <3>2. s.images.count \in Nat
        BY <2>1, BoundsAssumption DEF SealCall, Selection
      <3>3. Matches(r)
        BY <2>1, <3>1, <3>2 DEF SealCall
      <3> QED
        BY <1>4, <3>1, <3>3
    <2>3. CASE ReservePath(c)
      <3> DEFINE r == [s EXCEPT !.pc = "audio", !.out = FreePath]
      <3>1. seal' = [seal EXCEPT ![c] = r] /\ s.pc = "reserve"
        BY <2>3 DEF ReservePath
      <3>2. Matches(r)
        BY <2>1, <3>1 DEF SealCall
      <3> QED
        BY <1>4, <3>1, <3>2
    <2>4. CASE ReadAudio(c)
      <3> DEFINE r == [s EXCEPT !.pc = "images", !.blob = wav[s.audio]]
      <3>1. /\ seal' = [seal EXCEPT ![c] = r]
            /\ s.pc = "audio"
            /\ Sha256(wav[s.audio]) = s.snap.audio
        BY <2>4 DEF ReadAudio, MatchesPin
      <3>2. Matches(r)
        BY <2>1, <3>1 DEF SealCall
      <3> QED
        BY <1>4, <3>1, <3>2
    <2>5. CASE ReadImage(c)
      <3> DEFINE i == Len(s.blobs) + 1
                 bytes == staged[s.images.dir][i]
                 r == [s EXCEPT !.blobs = Append(@, bytes)]
      <3>1. /\ seal' = [seal EXCEPT ![c] = r]
            /\ s.pc = "images"
            /\ i <= s.images.count
            /\ Sha256(bytes) = s.snap.images[i]
        BY <2>5 DEF ReadImage, MatchesPin
      <3>2. s.blobs \in Seq(ImageData)
        BY <2>1 DEF SealCall
      <3>3. /\ Len(Append(s.blobs, bytes)) = i
            /\ \A j \in 1..i :
                 Sha256(Append(s.blobs, bytes)[j]) = s.snap.images[j]
        <4>1. \A j \in 1..Len(s.blobs) : Sha256(s.blobs[j]) = s.snap.images[j]
          BY <2>1, <3>1
        <4> HIDE DEF s
        <4> QED
          BY <3>1, <3>2, <4>1, AppendMatches
      <3>4. /\ r.pc = s.pc /\ r.snap = s.snap /\ r.images = s.images
            /\ r.blob = s.blob /\ r.blobs = Append(s.blobs, bytes)
        BY <2>1 DEF SealCall
      <3>5. Matches(r)
        BY <2>1, <3>1, <3>3, <3>4
      <3> QED
        BY <1>4, <3>1, <3>5
    <2>6. CASE CreateArchive(c)
      <3> DEFINE r == [s EXCEPT !.pc = "write"]
      <3>1. /\ seal' = [seal EXCEPT ![c] = r]
            /\ s.pc = "images"
            /\ Len(s.blobs) = s.images.count
        BY <2>6 DEF CreateArchive
      <3>2. Matches(r)
        BY <2>1, <3>1 DEF SealCall
      <3> QED
        BY <1>4, <3>1, <3>2
    <2>7. CASE FinishArchive(c) \/ SealFails(c) \/ ReturnSeal(c)
      <3>1. PICK r \in {IdleSeal, [IdleSeal EXCEPT !.pc = "return"]} :
              seal' = [seal EXCEPT ![c] = r]
        BY <2>7 DEF FinishArchive, SealFails, ReturnSeal
      <3>2. r.pc \in {"idle", "return"}
        BY <3>1 DEF IdleSeal
      <3>3. Matches(r)
        BY <3>2
      <3> QED
        BY <1>4, <3>1, <3>3
    <2> QED
      BY <1>6, <2>2, <2>3, <2>4, <2>5, <2>6, <2>7 DEF SealStep
  <1>7. CASE Crash
    <2>1. \A d \in SealCalls : Matches(seal'[d])
      BY <1>7 DEF Crash, IdleSeal
    <2> QED
      BY <1>2, <2>1
  <1>8. ASSUME NEW c \in InferCalls, BeginInference(c) \/ InferenceStep(c)
        PROVE  UNCHANGED seal
    BY <1>8 DEF BeginInference, InferenceStep, HashAudio, HearAudio,
                StructureIncident, AnalyzeImage, CheckConsistency,
                WriteTrace, CommitPipeline, InferenceFails, TraceCutShort,
                ReturnInference
  <1>9. CASE \/ Record \/ Pick \/ Discard \/ ClockMoves \/ SidecarSwaps
             \/ ExternalWrite \/ UNCHANGED vars
    <2>1. UNCHANGED seal
      BY <1>9 DEF Record, StartRecording, CaptureSamples, StopRecording, Pick,
                  OpenDialog, CreateStagingDir, StageImage, CommitPick,
                  LeavePick, Discard, BeginDiscard, RemoveRecordings,
                  RemoveReasoning, RemoveStaged, DiscardFails, ClockMoves,
                  SidecarSwaps, ExternalWrite, vars, calls
    <2> QED
      BY <1>3, <2>1
  <1> QED
    BY <1>3, <1>5, <1>6, <1>7, <1>8, <1>9 DEF Next

\* A bundle is complete after a step only if it was before, or the step
\* finished its archive.
LEMMA SealedBefore ==
  ASSUME Typed, [Next]_vars, NEW p \in BundlePath, IsSealed(p)'
  PROVE  \/ IsSealed(p) /\ bundles'[p] = bundles[p]
         \/ \E c \in SealCalls : FinishArchive(c) /\ p = seal[c].out
  <1> USE DEF Typed, TypeOK, DiskTypeOK
  <1>1. CASE UNCHANGED bundles
    BY <1>1 DEF IsSealed
  <1>2. ASSUME NEW c \in SealCalls, ReservePath(c)
        PROVE  IsSealed(p) /\ bundles'[p] = bundles[p]
    <2>1. \/ UNCHANGED bundles
          \/ bundles' = [bundles EXCEPT ![FreePath] = Incomplete]
      BY <1>2 DEF ReservePath
    <2> QED
      BY <2>1 DEF IsSealed, Incomplete
  <1>3. ASSUME NEW c \in SealCalls, CreateArchive(c)
        PROVE  IsSealed(p) /\ bundles'[p] = bundles[p]
    BY <1>3 DEF CreateArchive, IsSealed, Incomplete
  <1>4. ASSUME NEW c \in SealCalls, FinishArchive(c), p # seal[c].out
        PROVE  IsSealed(p) /\ bundles'[p] = bundles[p]
    BY <1>4 DEF FinishArchive, IsSealed
  <1>5. \/ UNCHANGED bundles
        \/ \E c \in SealCalls :
             ReservePath(c) \/ CreateArchive(c) \/ FinishArchive(c)
    BY DEF Next, Record, StartRecording, CaptureSamples,
           StopRecording, Pick, OpenDialog, CreateStagingDir, StageImage,
           CommitPick, LeavePick, BeginInference, InferenceStep, HashAudio,
           HearAudio, StructureIncident, AnalyzeImage, CheckConsistency,
           WriteTrace, CommitPipeline, InferenceFails, TraceCutShort,
           ReturnInference,
           BeginSeal, SealStep, ResolveFingerprint, ReadAudio,
           ReadImage, SealFails, ReturnSeal,
           Discard, BeginDiscard, RemoveRecordings, RemoveReasoning,
           RemoveStaged, DiscardFails, ClockMoves, SidecarSwaps,
           ExternalWrite, Crash, vars, disk
  <1> QED
    BY <1>1, <1>2, <1>3, <1>4, <1>5

LEMMA DigestsDiffer ==
  ASSUME NEW a, NEW b, Sha256(a) = Sha256(b)
  PROVE  a = b
  BY DEF Sha256

\* An archive is finished with what its snapshot pins, which is what the
\* run took in.
LEMMA FinishedIsCommitted ==
  ASSUME Typed, SealsMatchTheirPins, NEW c \in SealCalls, FinishArchive(c)
  PROVE  LET b == bundles'[seal[c].out]
         IN  /\ Committed(b.trace)
             /\ b.audio = runs[b.trace].audio
             /\ b.images = runs[b.trace].images
  <1> DEFINE s == seal[c]
             n == s.snap.trace
  <1>1. /\ s.pc = "write" /\ s \in SealCall /\ s.out \in BundlePath
        /\ SealOpen(c) /\ HasModel(c) /\ HasAudio(c)
    BY DEF FinishArchive, Typed, TypeOK, CallsTypeOK, CallsHoldValues,
           SealOpen, HasModel, HasPath, HasAudio
  <1>2. /\ Faithful(s.snap)
        /\ s.images.count = Len(s.snap.images)
        /\ \A i \in 1..Len(s.blobs) : Sha256(s.blobs[i]) = s.snap.images[i]
        /\ Sha256(s.blob) = s.snap.audio
        /\ Len(s.blobs) = s.images.count
    BY <1>1 DEF SealsMatchTheirPins
  <1>3. /\ bundles'[s.out].trace = n
        /\ bundles'[s.out].audio = s.blob
        /\ bundles'[s.out].images = s.blobs
    BY <1>1 DEF FinishArchive, Typed, TypeOK, DiskTypeOK
  <1>4. /\ Committed(n)
        /\ s.snap.audio = Sha256(runs[n].audio)
        /\ Len(s.snap.images) = Len(runs[n].images)
        /\ \A i \in 1..Len(s.snap.images) :
             s.snap.images[i] = Sha256(runs[n].images[i])
    BY <1>2 DEF Faithful
  <1>5. s.blob = runs[n].audio
    <2>1. Sha256(s.blob) = Sha256(runs[n].audio)
      BY <1>2, <1>4
    <2> QED
      BY <2>1, DigestsDiffer
  <1>6. s.blobs = runs[n].images
    <2>1. s.blobs \in Seq(ImageData) /\ runs[n].images \in Seq(ImageData)
      BY <1>1, <1>4 DEF SealCall, Committed, Typed, TypeOK, RunInput
    <2>2. Len(s.blobs) = Len(runs[n].images)
      BY <1>2, <1>4
    <2>3. \A i \in 1..Len(s.blobs) : s.blobs[i] = runs[n].images[i]
      <3> SUFFICES ASSUME NEW i \in 1..Len(s.blobs)
                   PROVE  Sha256(s.blobs[i]) = Sha256(runs[n].images[i])
        BY DigestsDiffer
      <3>1. i \in 1..Len(s.snap.images)
        BY <1>2
      <3> QED
        BY <1>2, <1>4, <3>1
    <2> QED
      BY <2>1, <2>2, <2>3
  <1> QED
    BY <1>3, <1>4, <1>5, <1>6

LEMMA StepSealed ==
  ASSUME Typed, RunsAreFresh, SealsMatchTheirPins, SealedIsCommitted,
         SealedIsWhatInferenceRead, [Next]_vars
  PROVE  SealedIsCommitted' /\ SealedIsWhatInferenceRead'
  <1> SUFFICES ASSUME NEW p \in BundlePath, IsSealed(p)'
               PROVE  /\ Committed(bundles[p].trace)'
                      /\ bundles'[p].audio = runs'[bundles'[p].trace].audio
                      /\ bundles'[p].images = runs'[bundles'[p].trace].images
    BY DEF SealedIsCommitted, SealedIsWhatInferenceRead
  <1>1. /\ Committed(bundles'[p].trace)
        /\ bundles'[p].audio = runs[bundles'[p].trace].audio
        /\ bundles'[p].images = runs[bundles'[p].trace].images
    <2>1. CASE IsSealed(p) /\ bundles'[p] = bundles[p]
      BY <2>1 DEF SealedIsCommitted, SealedIsWhatInferenceRead
    <2>2. ASSUME NEW c \in SealCalls, FinishArchive(c), p = seal[c].out
          PROVE  /\ Committed(bundles'[p].trace)
                 /\ bundles'[p].audio = runs[bundles'[p].trace].audio
                 /\ bundles'[p].images = runs[bundles'[p].trace].images
      BY <2>2, FinishedIsCommitted
    <2> QED
      BY <2>1, <2>2, SealedBefore
  <1>2. runs'[bundles'[p].trace] = runs[bundles'[p].trace]
    BY <1>1, RunsStay DEF Committed
  <1> QED
    BY <1>1, <1>2 DEF Committed

LEMMA StepEvidence ==
  Typed /\ GuardsAreExclusive /\ EvidenceInv /\ [Next]_vars => EvidenceInv'
  BY StepRuns, StepPipeline, StepSeals, StepSealed DEF EvidenceInv

\* Whatever records, picks, discards, restarts or other programs do to the
\* working files, and whichever step of a command fails, every complete
\* bundle holds exactly the audio and the images that the pipeline run named
\* by its trace hashed when it read them (bundle_builder.rs, T-1 and V-3).
THEOREM SealedEvidenceIntegrity == Spec => []SealedIsWhatInferenceRead
  <1> DEFINE Inv == Typed /\ GuardsAreExclusive /\ EvidenceInv
  <1>1. Init => Inv
    BY InitTyped, InitGuards, InitEvidence
  <1>2. Inv /\ [Next]_vars => Inv'
    BY StepTyped, StepGuards, StepEvidence
  <1>3. Inv => SealedIsWhatInferenceRead
    BY DEF EvidenceInv
  <1> QED
    BY <1>1, <1>2, <1>3, PTL DEF Spec

-----------------------------------------------------------------------------
(* Bundles on disk.                                                        *)

LEMMA InitPaths == Init => PathsAreFree
  <1> SUFFICES ASSUME Init PROVE PathsAreFree
    OBVIOUS
  <1>1. \A s \in Seconds, k \in nextSeal..MaxSeals :
          bundles[<<s, k>>] = NoBundle
    BY BoundsAssumption DEF Init, BundlePath
  <1>2. \A c \in SealCalls : ~ HasPath(c)
    BY DEF Init, HasPath, IdleSeal
  <1> QED
    BY <1>1, <1>2 DEF PathsAreFree

\* A step writes to no bundle but an absent one it reserves or the one a
\* seal in flight holds the path of.
LEMMA BundleWrites ==
  ASSUME [Next]_vars
  PROVE  \/ UNCHANGED <<bundles, nextSeal>>
         \/ \E c \in SealCalls :
              ReservePath(c) \/ CreateArchive(c) \/ FinishArchive(c)
  <1>1. CASE Record
    BY <1>1 DEF Record, StartRecording, CaptureSamples, StopRecording
  <1>2. CASE Pick
    BY <1>2 DEF Pick, OpenDialog, CreateStagingDir, StageImage, CommitPick,
                LeavePick, disk, fresh
  <1>3. ASSUME NEW c \in InferCalls, BeginInference(c) \/ InferenceStep(c)
        PROVE  UNCHANGED <<bundles, nextSeal>>
    BY <1>3, InferenceLeaves
  <1>4. ASSUME NEW c \in SealCalls, BeginSeal(c) \/ SealStep(c)
        PROVE  \/ UNCHANGED <<bundles, nextSeal>>
               \/ ReservePath(c) \/ CreateArchive(c) \/ FinishArchive(c)
    BY <1>4, SealLeaves
  <1>5. CASE Discard \/ ClockMoves \/ SidecarSwaps \/ ExternalWrite \/ Crash
             \/ UNCHANGED vars
    BY <1>5 DEF Discard, BeginDiscard, RemoveRecordings, RemoveReasoning,
                RemoveStaged, DiscardFails, ClockMoves, SidecarSwaps,
                ExternalWrite, Crash, vars, disk, fresh
  <1> QED
    BY <1>1, <1>2, <1>3, <1>4, <1>5 DEF Next

\* A seal that holds a path after a step held it before, or reserved it.
LEMMA PathBefore ==
  ASSUME Typed, [Next]_vars, NEW d \in SealCalls, HasPath(d)'
  PROVE  \/ HasPath(d) /\ seal'[d].out = seal[d].out
         \/ ReservePath(d)
  <1> USE DEF Typed, TypeOK, CallsTypeOK, SealCall, HasPath
  <1>1. CASE UNCHANGED seal
    BY <1>1
  <1>2. ASSUME NEW c \in SealCalls, c # d, BeginSeal(c) \/ SealStep(c)
        PROVE  seal'[d] = seal[d]
    BY <1>2 DEF BeginSeal, SealStep, ResolveFingerprint, ReservePath,
                ReadAudio, ReadImage, CreateArchive, FinishArchive,
                SealFails, ReturnSeal
  <1>3. ASSUME BeginSeal(d) \/ SealStep(d), ~ ReservePath(d)
        PROVE  HasPath(d) /\ seal'[d].out = seal[d].out
    <2>1. CASE BeginSeal(d) \/ FinishArchive(d) \/ SealFails(d) \/ ReturnSeal(d)
      BY <2>1, SealReset
    <2>2. CASE ReadImage(d)
      <3>1. PICK blobs : seal' = [seal EXCEPT ![d].blobs = blobs]
        BY <2>2 DEF ReadImage
      <3>2. seal[d].pc = "images"
        BY <2>2 DEF ReadImage
      <3> QED
        BY <3>1, <3>2
    <2>3. CASE ResolveFingerprint(d)
      BY <2>3 DEF ResolveFingerprint
    <2>4. CASE ReadAudio(d)
      BY <2>4 DEF ReadAudio
    <2>5. CASE CreateArchive(d)
      <3>1. /\ seal[d].pc = "images"
            /\ seal' = [seal EXCEPT ![d].pc = "write"]
        BY <2>5 DEF CreateArchive
      <3> QED
        BY <3>1
    <2> QED
      BY <1>3, <2>1, <2>2, <2>3, <2>4, <2>5 DEF SealStep
  <1>4. CASE Crash
    BY <1>4 DEF Crash, IdleSeal
  <1>5. \/ UNCHANGED seal
        \/ Crash
        \/ \E c \in SealCalls : BeginSeal(c) \/ SealStep(c)
    BY DEF Next, Record, StartRecording, CaptureSamples,
           StopRecording, Pick, OpenDialog, CreateStagingDir, StageImage,
           CommitPick, LeavePick, BeginInference, InferenceStep, HashAudio,
           HearAudio, StructureIncident, AnalyzeImage, CheckConsistency,
           WriteTrace, CommitPipeline, InferenceFails, TraceCutShort,
           ReturnInference,
           Discard, BeginDiscard, RemoveRecordings, RemoveReasoning,
           RemoveStaged, DiscardFails, ClockMoves, SidecarSwaps,
           ExternalWrite, vars, calls
  <1> QED
    BY <1>1, <1>2, <1>3, <1>4, <1>5

\* The path ReservePath chooses names no complete bundle.
LEMMA ReservedIsFree ==
  ASSUME Typed, PathsAreFree, NEW c \in SealCalls, ReservePath(c)
  PROVE  /\ ~ IsSealed(seal'[c].out)
         /\ ~ IsSealed(seal[c].out)'
         /\ seal'[c].out[2] < nextSeal'
         /\ \A p \in BundlePath : IsSealed(p) => bundles'[p] = bundles[p]
         /\ \A s \in Seconds, k \in nextSeal'..MaxSeals :
              bundles'[<<s, k>>] = NoBundle
  <1> USE BoundsAssumption
      DEF Typed, TypeOK, CallsTypeOK, DiskTypeOK, FreshTypeOK
  <1>1. /\ seal'[c].out = FreePath
        /\ nextSeal <= MaxSeals
        /\ nextSeal' = nextSeal + 1
    BY DEF ReservePath
  <1>2. /\ <<now, 0>> \in BundlePath
        /\ <<now, nextSeal>> \in BundlePath
    BY <1>1 DEF BundlePath
  <1>3. \A s \in Seconds, k \in nextSeal..MaxSeals :
          bundles[<<s, k>>] = NoBundle
    BY DEF PathsAreFree
  <1>4. bundles[<<now, nextSeal>>] = NoBundle
    <2>1. nextSeal \in nextSeal..MaxSeals
      BY <1>1
    <2> QED
      BY <1>3, <2>1
  <1>5. CASE bundles[<<now, 0>>] = NoBundle
    <2>1. FreePath = <<now, 0>>
      BY <1>5 DEF FreePath
    <2>2. bundles' = [bundles EXCEPT ![<<now, 0>>] = Incomplete]
      BY <1>5, <2>1 DEF ReservePath
    <2>3. ASSUME NEW s \in Seconds, NEW k \in nextSeal'..MaxSeals
          PROVE  bundles'[<<s, k>>] = NoBundle
      <3>1. bundles[<<s, k>>] = NoBundle /\ <<s, k>> # <<now, 0>>
        BY <1>1 DEF PathsAreFree
      <3>2. <<s, k>> \in BundlePath
        BY <1>1 DEF BundlePath
      <3> QED
        BY <2>2, <3>1, <3>2
    <2>4. bundles[<<now, 0>>].kind # "sealed"
      BY <1>5 DEF NoBundle
    <2>5. bundles'[<<now, 0>>].kind # "sealed"
      BY <1>2, <2>2 DEF Incomplete
    <2>6. ASSUME NEW p \in BundlePath, IsSealed(p)
          PROVE  bundles'[p] = bundles[p]
      BY <2>2, <2>4, <2>6 DEF IsSealed
    <2>7. ~ IsSealed(seal'[c].out) /\ ~ IsSealed(seal[c].out)'
      BY <1>1, <2>1, <2>4, <2>5 DEF IsSealed
    <2>8. seal'[c].out[2] < nextSeal'
      BY <1>1, <2>1
    <2> QED
      BY <2>3, <2>6, <2>7, <2>8
  <1>6. CASE bundles[<<now, 0>>] # NoBundle
    <2>1. FreePath = <<now, nextSeal>>
      BY <1>6 DEF FreePath
    <2>2. UNCHANGED bundles
      BY <1>6 DEF ReservePath
    <2>3. ASSUME NEW s \in Seconds, NEW k \in nextSeal'..MaxSeals
          PROVE  bundles'[<<s, k>>] = NoBundle
      <3>1. k \in nextSeal..MaxSeals
        BY <1>1
      <3> QED
        BY <1>3, <2>2, <3>1
    <2>4. ~ IsSealed(seal'[c].out) /\ ~ IsSealed(seal[c].out)'
      BY <1>1, <1>4, <2>1, <2>2 DEF IsSealed, NoBundle
    <2>5. seal'[c].out[2] < nextSeal'
      BY <1>1, <2>1
    <2> QED
      BY <2>2, <2>3, <2>4, <2>5
  <1> QED
    BY <1>5, <1>6

\* A seal in flight writes the path it holds: only that path, and with it
\* the names not yet used stay free.
LEMMA HeldIsWritten ==
  ASSUME Typed, PathsAreFree, NEW c \in SealCalls,
         CreateArchive(c) \/ FinishArchive(c)
  PROVE  /\ HasPath(c)
         /\ \A p \in BundlePath : p # seal[c].out => bundles'[p] = bundles[p]
         /\ \A s \in Seconds, k \in nextSeal'..MaxSeals :
              bundles'[<<s, k>>] = NoBundle
  <1> USE BoundsAssumption
      DEF Typed, TypeOK, CallsTypeOK, DiskTypeOK, FreshTypeOK
  <1>1. HasPath(c) /\ UNCHANGED nextSeal
    BY DEF CreateArchive, FinishArchive, HasPath, fresh
  <1>2. \A p \in BundlePath : p # seal[c].out => bundles'[p] = bundles[p]
    BY DEF CreateArchive, FinishArchive
  <1>3. ASSUME NEW s \in Seconds, NEW k \in nextSeal'..MaxSeals
        PROVE  bundles'[<<s, k>>] = NoBundle
    <2>1. <<s, k>> \in BundlePath /\ bundles[<<s, k>>] = NoBundle
      <3>1. nextSeal \in 1..(MaxSeals + 1) /\ k \in nextSeal..MaxSeals
        BY <1>1
      <3> HIDE DEF Typed, TypeOK, CallsTypeOK, DiskTypeOK, FreshTypeOK
      <3>2. k \in 0..MaxSeals
        BY <3>1
      <3> QED
        BY <3>1, <3>2 DEF BundlePath, PathsAreFree
    <2>2. seal[c].out \in BundlePath /\ seal[c].out[2] < nextSeal
      BY <1>1 DEF PathsAreFree, CallsHoldValues
    <2>3. k # seal[c].out[2]
      BY <1>1, <2>2
    <2>4. <<s, k>> # seal[c].out
      BY <2>3
    <2> QED
      BY <1>2, <2>1, <2>4
  <1> QED
    BY <1>1, <1>2, <1>3

LEMMA StepPaths ==
  ASSUME Typed, GuardsAreExclusive, PathsAreFree, [Next]_vars
  PROVE  PathsAreFree'
  <1>1. \A s \in Seconds, k \in nextSeal'..MaxSeals :
          bundles'[<<s, k>>] = NoBundle
    <2>1. CASE UNCHANGED <<bundles, nextSeal>>
      BY <2>1 DEF PathsAreFree
    <2> QED
      BY <2>1, BundleWrites, ReservedIsFree, HeldIsWritten
  <1>2. ASSUME NEW d \in SealCalls, HasPath(d)'
        PROVE  ~ IsSealed(seal[d].out)' /\ seal'[d].out[2] < nextSeal'
    <2>1. CASE ReservePath(d)
      BY <2>1, ReservedIsFree
    <2>2. CASE HasPath(d) /\ seal'[d].out = seal[d].out
      <3> DEFINE p == seal[d].out
      <3>1. /\ p \in BundlePath /\ p[2] \in Nat
            /\ ~ IsSealed(p) /\ p[2] < nextSeal
        BY <2>2 DEF PathsAreFree, Typed, CallsHoldValues, BundlePath
      <3>2. nextSeal' >= nextSeal /\ nextSeal' \in Nat /\ nextSeal \in Nat
        BY FreshTyped DEF Typed, TypeOK, FreshTypeOK
      <3>3. p[2] < nextSeal'
        BY <3>1, <3>2
      <3>4. bundles'[p].kind # "sealed"
        <4> SUFFICES ASSUME bundles'[p].kind = "sealed" PROVE FALSE
          OBVIOUS
        <4>1. \A q \in BundlePath : bundles'[q].kind = "sealed" =>
                \/ IsSealed(q)
                \/ \E c \in SealCalls : FinishArchive(c) /\ q = seal[c].out
          BY SealedBefore DEF IsSealed
        <4>2. PICK c \in SealCalls : FinishArchive(c) /\ p = seal[c].out
          BY <3>1, <4>1
        <4>3. seal[c].pc # "idle" /\ seal[d].pc # "idle"
          BY <2>2, <4>2 DEF FinishArchive, HasPath
        <4>4. c = d
          BY <4>3 DEF GuardsAreExclusive
        <4>5. ~ HasPath(d)'
          BY <4>2, <4>4 DEF FinishArchive, HasPath, IdleSeal, Typed, TypeOK,
                            CallsTypeOK
        <4> QED
          BY <1>2, <4>5
      <3> QED
        BY <2>2, <3>3, <3>4 DEF IsSealed
    <2> QED
      BY <1>2, <2>1, <2>2, PathBefore
  <1> QED
    BY <1>1, <1>2 DEF PathsAreFree

\* No step truncates, rewrites or removes a complete bundle: a seal writes
\* only the name it holds, which names no complete bundle from the moment it
\* was chosen (seal_commands.rs, T-11).
THEOREM Permanence == Spec => SealedBundlesPermanent
  <1> DEFINE Inv == Typed /\ GuardsAreExclusive /\ PathsAreFree
  <1>1. Init => Inv
    BY InitTyped, InitGuards, InitPaths
  <1>2. Inv /\ [Next]_vars => Inv'
    BY StepTyped, StepGuards, StepPaths
  <1>3. Inv /\ [Next]_vars =>
          [\A p \in BundlePath : IsSealed(p) => bundles'[p] = bundles[p]]_vars
    <2> SUFFICES ASSUME Typed, PathsAreFree, [Next]_vars,
                        NEW p \in BundlePath, IsSealed(p)
                 PROVE  bundles'[p] = bundles[p]
      OBVIOUS
    <2>1. \A c \in SealCalls : HasPath(c) => p # seal[c].out
      BY DEF PathsAreFree
    <2> QED
      BY <2>1, BundleWrites, ReservedIsFree, HeldIsWritten
  <1> QED
    BY <1>1, <1>2, <1>3, PTL DEF Spec, SealedBundlesPermanent
=============================================================================
