----------------------- MODULE CaptureSessionRefinement -----------------------
(***************************************************************************)
(* The backend's files against its promises, for every value of the        *)
(* constants: the trace file is that of the result the state holds; while  *)
(* no other program writes, sealed audio is audio the sidecar heard; the   *)
(* backend as a whole implements SealedEvidence; a command that began has  *)
(* a bounded number of steps to its return; and a bundle names a model of  *)
(* its run while the sidecar serves one model.                             *)
(***************************************************************************)
EXTENDS CaptureSessionProofs

-----------------------------------------------------------------------------
(* The trace file.  Between the write of a trace and the commit of its     *)
(* run, the file belongs to the run in flight; otherwise to the result,    *)
(* or to what is left of a later run.                                      *)

Committing(c) == infer[c].pc = "commit"

\* Runs commit in the order of their numbers.
RunsInOrder ==
  lastPipeline # None =>
    /\ lastPipeline.trace < nextRun
    /\ \A c \in InferCalls :
         infer[c].pc = "trace" => lastPipeline.trace < infer[c].run

TraceKept ==
  /\ \A c \in InferCalls : Committing(c) =>
       reasoning[infer[c].file] \in {NoTrace, Whole(infer[c].run)}
  /\ lastPipeline # None /\ (\A c \in InferCalls : ~Committing(c)) =>
       /\ reasoningPath \in Seconds
       /\ LET file == reasoning[reasoningPath]
          IN \/ file \in {NoTrace, Whole(lastPipeline.trace)}
             \/ ~file.whole /\ file.run > lastPipeline.trace

LEMMA InitTrace == Init => TraceKept
  BY DEF Init, TraceKept, Committing, IdleInference

\* A step of a call that neither writes a trace nor commits leaves what
\* TraceKept speaks of alone, and so does every step of other commands but
\* a discard.
LEMMA TraceUntouched ==
  ASSUME TraceKept, UNCHANGED <<lastPipeline, reasoningPath, reasoning>>,
         \A c \in InferCalls : infer'[c] = infer[c]
                               \/ (~Committing(c) /\ ~Committing(c)')
  PROVE  TraceKept'
  BY DEF TraceKept, Committing

LEMMA InitOrder == Init => RunsInOrder
  BY DEF Init, RunsInOrder

\* The number of a run is above that of every result it may replace.
LEMMA StepOrder ==
  ASSUME Typed, GuardsAreExclusive, RunsAreFresh, RunsInOrder, [Next]_vars
  PROVE  RunsInOrder'
  <1> USE DEF Typed, TypeOK, CallsTypeOK, StateTypeOK, FreshTypeOK
  <1>1. /\ nextRun \in Nat /\ nextRun' \in Nat /\ nextRun' >= nextRun
        /\ lastPipeline # None => lastPipeline.trace \in Nat
        /\ \A c \in InferCalls : infer[c].run \in Nat
    <2>1. nextRun \in Nat /\ nextRun' \in Nat /\ nextRun' >= nextRun
      BY FreshTyped, BoundsAssumption
    <2>2. lastPipeline # None => lastPipeline.trace \in Nat
      BY BoundsAssumption DEF Snapshot
    <2>3. \A c \in InferCalls : infer[c].run \in Nat
      BY BoundsAssumption DEF InferenceCall
    <2> QED
      BY <2>1, <2>2, <2>3
  <1>2. CASE UNCHANGED <<lastPipeline, infer>>
    BY <1>1, <1>2 DEF RunsInOrder
  <1>3. CASE BeginDiscard \/ Crash
    BY <1>3 DEF BeginDiscard, Crash, RunsInOrder
  <1>4. ASSUME NEW c \in InferCalls, BeginInference(c) \/ InferenceStep(c)
        PROVE  RunsInOrder'
    <2>1. CASE CommitPipeline(c)
      <3>1. /\ lastPipeline'.trace = infer[c].run
            /\ infer[c].run < nextRun
            /\ infer'[c].pc = "return"
            /\ \A d \in InferCalls \ {c} : infer'[d] = infer[d]
        BY <2>1 DEF CommitPipeline, SnapshotOf, IdleInference, RunsAreFresh,
                    HasRun
      <3>2. \A d \in InferCalls \ {c} : infer[d].pc # "trace"
        BY <2>1 DEF GuardsAreExclusive, CommitPipeline
      <3> QED
        BY <1>1, <3>1, <3>2 DEF RunsInOrder
    <2>2. CASE CheckConsistency(c)
      <3>1. /\ infer'[c].run = nextRun
            /\ \A d \in InferCalls \ {c} : infer'[d] = infer[d]
            /\ UNCHANGED lastPipeline
        BY <2>2 DEF CheckConsistency, InferenceCall, state
      <3> QED
        BY <1>1, <3>1 DEF RunsInOrder
    <2>3. CASE ~CommitPipeline(c) /\ ~CheckConsistency(c)
      <3>1. UNCHANGED lastPipeline
        BY <1>4, <2>3
        DEF BeginInference, InferenceStep, HashAudio, HearAudio,
            StructureIncident, AnalyzeImage, WriteTrace, InferenceFails,
            TraceCutShort, ReturnInference, state
      <3>2. /\ infer'[c].pc # "trace"
            /\ \A d \in InferCalls \ {c} : infer'[d] = infer[d]
        <4>1. CASE \/ BeginInference(c) \/ InferenceFails(c)
                   \/ TraceCutShort(c) \/ ReturnInference(c)
          BY <4>1, CallReset
        <4>2. CASE HashAudio(c) \/ HearAudio(c) \/ StructureIncident(c)
          BY <4>2 DEF HashAudio, HearAudio, StructureIncident, InferenceCall
        <4>3. CASE AnalyzeImage(c)
          BY <4>3 DEF AnalyzeImage, InferenceCall
        <4>4. CASE WriteTrace(c)
          BY <4>4 DEF WriteTrace, InferenceCall
        <4> QED
          BY <1>4, <2>3, <4>1, <4>2, <4>3, <4>4 DEF InferenceStep
      <3> QED
        BY <1>1, <3>1, <3>2 DEF RunsInOrder
    <2> QED
      BY <2>1, <2>2, <2>3
  <1>5. ASSUME NEW c \in SealCalls, BeginSeal(c) \/ SealStep(c)
        PROVE  UNCHANGED <<lastPipeline, infer>>
    BY <1>5 DEF BeginSeal, SealStep, ResolveFingerprint, ReservePath,
                ReadAudio, ReadImage, CreateArchive, FinishArchive,
                SealFails, ReturnSeal, state
  <1>6. CASE \/ Record \/ Pick \/ ClockMoves \/ SidecarSwaps \/ ExternalWrite
             \/ RemoveRecordings \/ RemoveReasoning \/ RemoveStaged
             \/ DiscardFails \/ UNCHANGED vars
    <2>1. UNCHANGED <<lastPipeline, infer>>
      BY <1>6 DEF Record, StartRecording, CaptureSamples, StopRecording, Pick,
                  OpenDialog, CreateStagingDir, StageImage, CommitPick,
                  LeavePick, RemoveRecordings, RemoveReasoning, RemoveStaged,
                  DiscardFails, ClockMoves, SidecarSwaps, ExternalWrite, vars,
                  calls, state
    <2> QED
      BY <1>2, <2>1
  <1> QED
    BY <1>2, <1>3, <1>4, <1>5, <1>6 DEF Next, Discard

LEMMA StepTrace ==
  ASSUME Typed, GuardsAreExclusive, RunsInOrder, TraceKept, [Next]_vars
  PROVE  TraceKept'
  <1> USE DEF Typed, TypeOK, CallsTypeOK
  <1>1. CASE \/ Record \/ Pick \/ ClockMoves \/ SidecarSwaps \/ ExternalWrite
             \/ RemoveRecordings \/ RemoveStaged \/ DiscardFails
             \/ UNCHANGED vars
    <2>1. UNCHANGED <<lastPipeline, reasoningPath, reasoning, infer>>
      BY <1>1 DEF Record, StartRecording, CaptureSamples, StopRecording, Pick,
                  OpenDialog, CreateStagingDir, StageImage, CommitPick,
                  LeavePick, RemoveRecordings, RemoveStaged, DiscardFails,
                  ClockMoves, SidecarSwaps, ExternalWrite, vars, calls, state,
                  disk
    <2> QED
      BY <2>1, TraceUntouched
  <1>2. ASSUME NEW c \in SealCalls, BeginSeal(c) \/ SealStep(c)
        PROVE  TraceKept'
    <2>1. UNCHANGED <<lastPipeline, reasoningPath, reasoning, infer>>
      BY <1>2 DEF BeginSeal, SealStep, ResolveFingerprint, ReservePath,
                  ReadAudio, ReadImage, CreateArchive, FinishArchive,
                  SealFails, ReturnSeal, state, disk
    <2> QED
      BY <2>1, TraceUntouched
  <1>3. ASSUME NEW c \in InferCalls, BeginInference(c) \/ InferenceStep(c)
        PROVE  TraceKept'
    <2>1. infer[c].pc # "idle" =>
            \A d \in InferCalls \ {c} : ~Committing(d)
      BY DEF GuardsAreExclusive, Committing
    <2>2. CASE WriteTrace(c)
      <3>1. /\ infer'[c].pc = "commit" /\ infer'[c].file = now
            /\ infer'[c].run = infer[c].run
            /\ infer[c].pc # "idle"
            /\ \A d \in InferCalls \ {c} : infer'[d] = infer[d]
        BY <2>2 DEF WriteTrace, InferenceCall
      <3>2. reasoning'[now] = Whole(infer[c].run)
        BY <2>2 DEF WriteTrace, DiskTypeOK
      <3> QED
        BY <2>1, <3>1, <3>2 DEF TraceKept, Committing
    <2>3. CASE CommitPipeline(c)
      <3>1. /\ infer[c].pc = "commit" /\ infer[c].file \in Seconds
            /\ reasoning[infer[c].file] \in {NoTrace, Whole(infer[c].run)}
        BY <2>3 DEF CommitPipeline, TraceKept, Committing, CallsHoldValues
      <3>2. /\ infer'[c].pc = "return"
            /\ \A d \in InferCalls \ {c} : infer'[d] = infer[d]
        BY <2>3 DEF CommitPipeline, IdleInference
      <3>3. /\ lastPipeline'.trace = infer[c].run
            /\ reasoningPath' = infer[c].file
            /\ UNCHANGED reasoning
        BY <2>3 DEF CommitPipeline, SnapshotOf, TraceFile, disk
      <3> QED
        BY <2>1, <3>1, <3>2, <3>3 DEF TraceKept, Committing
    <2>4. CASE TraceCutShort(c)
      <3>1. /\ infer[c].pc = "trace" /\ infer'[c].pc = "return"
            /\ \A d \in InferCalls \ {c} : infer'[d] = infer[d]
            /\ UNCHANGED <<lastPipeline, reasoningPath>>
        BY <2>4 DEF TraceCutShort, IdleInference, state
      <3>2. /\ reasoning'[now] = Torn(infer[c].run)
            /\ \A s \in Seconds \ {now} : reasoning'[s] = reasoning[s]
        BY <2>4 DEF TraceCutShort, DiskTypeOK
      <3>3. \A d \in InferCalls : ~Committing(d) /\ ~Committing(d)'
        BY <2>1, <3>1 DEF Committing
      <3>4. lastPipeline # None => lastPipeline.trace < infer[c].run
        BY <3>1 DEF RunsInOrder
      <3> QED
        BY <3>1, <3>2, <3>3, <3>4 DEF TraceKept, Torn
    <2>5. CASE ~WriteTrace(c) /\ ~CommitPipeline(c) /\ ~TraceCutShort(c)
      <3>1. UNCHANGED <<lastPipeline, reasoningPath, reasoning>>
        BY <1>3, <2>5
        DEF BeginInference, InferenceStep, HashAudio, HearAudio,
            StructureIncident, AnalyzeImage, CheckConsistency, InferenceFails,
            ReturnInference, state, disk
      <3>2. /\ ~Committing(c) /\ ~Committing(c)'
            /\ \A d \in InferCalls \ {c} : infer'[d] = infer[d]
        <4>1. CASE BeginInference(c) \/ InferenceFails(c) \/ ReturnInference(c)
          <5>1. infer[c].pc # "commit"
            BY <4>1 DEF BeginInference, InferenceFails, ReturnInference
          <5>2. /\ infer'[c].pc \in {"idle", "transcribe", "return"}
                /\ \A d \in InferCalls \ {c} : infer'[d] = infer[d]
            BY <4>1, CallReset
          <5> QED
            BY <5>1, <5>2 DEF Committing
        <4>2. CASE HashAudio(c) \/ HearAudio(c) \/ StructureIncident(c)
          BY <4>2 DEF HashAudio, HearAudio, StructureIncident, Committing,
                      InferenceCall
        <4>3. CASE AnalyzeImage(c) \/ CheckConsistency(c)
          BY <4>3 DEF AnalyzeImage, CheckConsistency, Committing, InferenceCall
        <4> QED
          BY <1>3, <2>5, <4>1, <4>2, <4>3 DEF InferenceStep
      <3> QED
        BY <3>1, <3>2, TraceUntouched
    <2> QED
      BY <2>2, <2>3, <2>4, <2>5
  <1>4. CASE BeginDiscard \/ Crash
    <2>1. /\ lastPipeline' = None /\ UNCHANGED reasoning
          /\ \A c \in InferCalls : infer'[c] = infer[c] \/ ~Committing(c)'
      BY <1>4 DEF BeginDiscard, Crash, disk, Committing, IdleInference
    <2> QED
      BY <2>1 DEF TraceKept, Committing
  <1>5. CASE RemoveReasoning
    <2>1. /\ \A s \in Seconds : reasoning'[s] = NoTrace
          /\ UNCHANGED <<infer, lastPipeline, reasoningPath>>
      BY <1>5 DEF RemoveReasoning, state
    <2>2. \A c \in InferCalls : Committing(c) => infer[c].file \in Seconds
      BY DEF Committing, CallsHoldValues
    <2> QED
      BY <2>1, <2>2 DEF TraceKept, Committing
  <1> QED
    BY <1>1, <1>2, <1>3, <1>4, <1>5 DEF Next, Discard

\* Between runs, the reasoning file the state points to is the trace of the
\* result the state holds, was discarded, or is what a later run of the same
\* second left of it when its own write failed (inference_commands.rs).
THEOREM TraceFileMatches == Spec => []TraceFileMatchesPipeline
  <1> DEFINE Inv == /\ Typed /\ GuardsAreExclusive /\ RunsAreFresh
                    /\ RunsInOrder /\ TraceKept
  <1>1. Init => Inv
    BY InitTyped, InitGuards, InitEvidence, InitOrder, InitTrace DEF EvidenceInv
  <1>2. Inv /\ [Next]_vars => Inv'
    BY StepTyped, StepGuards, StepRuns, StepOrder, StepTrace
  <1>3. Inv => TraceFileMatchesPipeline
    <2> SUFFICES ASSUME Inv, lastPipeline # None, ~runningInference
                 PROVE  /\ reasoningPath # None
                        /\ LET file == reasoning[reasoningPath]
                           IN \/ file \in {NoTrace, Whole(lastPipeline.trace)}
                              \/ /\ ~file.whole
                                 /\ file.run > lastPipeline.trace
      BY DEF TraceFileMatchesPipeline
    <2>1. \A c \in InferCalls : ~Committing(c)
      BY Zenon DEF GuardsAreExclusive, Committing
    <2> QED
      BY <2>1, NoneAssumption DEF TraceKept
  <1> QED
    BY <1>1, <1>2, <1>3, PTL DEF Spec

-----------------------------------------------------------------------------
(* The audio the sidecar heard.  The application's own writers never bring *)
(* bytes back: what a file holds is found in no other file, and what a     *)
(* write or a discard removed is gone for good.  A run that hashed one     *)
(* version and had another transcribed therefore pins a version no file    *)
(* holds any more, and its seal fails.                                     *)

BytesAreNew ==
  /\ \A s \in Seconds : wav[s] < nextBytes
  /\ \A s, t \in Seconds : wav[s] = wav[t] /\ wav[s] # 0 => s = t

HeardOrGone(hashed, heard) ==
  heard = hashed \/ \A s \in Seconds : wav[s] # hashed

\* Between the read and the request only the call's own file can hold what
\* was read; after it, the sidecar heard that or the bytes are gone.
CallsHear ==
  \A c \in InferCalls :
    /\ HasRead(c) => infer[c].read < nextBytes
    /\ infer[c].pc = "hear" =>
         \A s \in Seconds : wav[s] = infer[c].read => s = infer[c].audio
    /\ HasHeard(c) => HeardOrGone(infer[c].read, infer[c].heard)

RunsHeard ==
  \A n \in 1..MaxRuns : runs[n] # NoRun =>
    runs[n].audio < nextBytes /\ HeardOrGone(runs[n].audio, runs[n].heard)

\* Once a seal has found the pinned audio on disk, its run heard it.
SealsHeard ==
  \A c \in SealCalls : HasAudio(c) =>
    runs[seal[c].snap.trace].audio = runs[seal[c].snap.trace].heard

HeardInv == /\ BytesAreNew /\ CallsHear /\ RunsHeard /\ SealsHeard
            /\ SealedAudioWasHeard

LEMMA InitHeard == Init => HeardInv
  BY DEF Init, HeardInv, BytesAreNew, CallsHear, RunsHeard, SealsHeard,
         SealedAudioWasHeard, HasRead, HasHeard, HasAudio, IsSealed,
         NoBundle, IdleInference, IdleSeal

LEMMA WavMoves ==
  ASSUME Typed, ~ExternalWrites, [Next]_vars
  PROVE  \/ UNCHANGED <<wav, nextBytes>>
         \/ wav' = [s \in Seconds |-> 0] /\ UNCHANGED nextBytes
         \/ \E s \in Seconds : WriteWav(s)
  <1>1. CASE Record
    <2>1. now \in Seconds /\ recording \in Seconds \cup {None}
      BY DEF Typed, TypeOK, StateTypeOK, SecondOrNone
    <2> QED
      BY <1>1, <2>1 DEF Record, StartRecording, CaptureSamples, StopRecording
  <1>2. CASE RemoveRecordings
    BY <1>2 DEF RemoveRecordings, fresh
  <1>3. ASSUME NEW c \in InferCalls, BeginInference(c) \/ InferenceStep(c)
        PROVE  UNCHANGED <<wav, nextBytes>>
    BY <1>3, InferenceLeaves
  <1>4. ASSUME NEW c \in SealCalls, BeginSeal(c) \/ SealStep(c)
        PROVE  UNCHANGED <<wav, nextBytes>>
    BY <1>4, SealLeaves
  <1>5. CASE \/ Pick \/ ClockMoves \/ SidecarSwaps \/ ExternalWrite \/ Crash
             \/ BeginDiscard \/ RemoveReasoning \/ RemoveStaged
             \/ DiscardFails \/ UNCHANGED vars
    <2>1. UNCHANGED <<wav, nextBytes>>
      BY <1>5 DEF Pick, OpenDialog, CreateStagingDir, StageImage, CommitPick,
                  LeavePick, BeginDiscard, RemoveReasoning, RemoveStaged,
                  DiscardFails, ClockMoves, SidecarSwaps, ExternalWrite,
                  Crash, vars, disk, fresh
    <2> QED
      BY <2>1
  <1> QED
    BY <1>1, <1>2, <1>3, <1>4, <1>5 DEF Next, Discard

\* A version that was written before a step is where it was, or nowhere.
LEMMA OldBytes ==
  ASSUME Typed, ~ExternalWrites, [Next]_vars,
         NEW b \in Versions, b < nextBytes,
         NEW s \in Seconds, wav'[s] = b
  PROVE  wav[s] = b
  BY WavMoves, BoundsAssumption
  DEF WriteWav, Versions, Typed, TypeOK, DiskTypeOK, FreshTypeOK

LEMMA StepBytes ==
  ASSUME Typed, ~ExternalWrites, BytesAreNew, [Next]_vars
  PROVE  BytesAreNew'
  <1> USE BoundsAssumption DEF Typed, TypeOK, DiskTypeOK, FreshTypeOK
  <1>1. CASE UNCHANGED <<wav, nextBytes>>
    BY <1>1 DEF BytesAreNew
  <1>2. CASE wav' = [s \in Seconds |-> 0] /\ UNCHANGED nextBytes
    BY <1>2 DEF BytesAreNew
  <1>3. ASSUME NEW s \in Seconds, WriteWav(s)
        PROVE  BytesAreNew'
    <2>1. /\ wav'[s] = nextBytes /\ nextBytes' = nextBytes + 1
          /\ \A t \in Seconds \ {s} : wav'[t] = wav[t]
      BY <1>3 DEF WriteWav
    <2>2. \A t \in Seconds : wav[t] \in Nat /\ wav[t] < nextBytes
      BY DEF BytesAreNew
    <2>3. \A t \in Seconds : wav'[t] < nextBytes'
      BY <2>1, <2>2
    <2>4. \A t, u \in Seconds : wav'[t] = wav'[u] /\ wav'[t] # 0 => t = u
      BY <2>1, <2>2 DEF BytesAreNew
    <2> QED
      BY <2>3, <2>4 DEF BytesAreNew
  <1> QED
    BY <1>1, <1>2, <1>3, WavMoves

LEMMA StepCallsHear ==
  ASSUME Typed, ~ExternalWrites, BytesAreNew, CallsHear, [Next]_vars
  PROVE  CallsHear'
  <1> USE DEF Typed, TypeOK, CallsTypeOK
  <1> DEFINE After(r) ==
        /\ r.pc \in {"hear", "structure", "images", "trace", "commit"} =>
             r.read < nextBytes'
        /\ r.pc = "hear" =>
             \A s \in Seconds : wav'[s] = r.read => s = r.audio
        /\ r.pc \in {"structure", "images", "trace", "commit"} =>
             r.heard = r.read \/ \A s \in Seconds : wav'[s] # r.read
  <1>1. ASSUME NEW d \in InferCalls
        PROVE  After(infer[d])
    <2> DEFINE r == infer[d]
    <2>1. CASE HasRead(d)
      <3>1. r.read \in Versions /\ r.read < nextBytes
        BY <2>1 DEF CallsHoldValues, CallsHear
      <3>2. \A s \in Seconds : wav'[s] = r.read => wav[s] = r.read
        BY <3>1, OldBytes
      <3>3. r.read < nextBytes'
        <4>1. nextBytes' >= nextBytes /\ nextBytes' \in Nat /\ nextBytes \in Nat
          BY FreshTyped, BoundsAssumption DEF FreshTypeOK
        <4>2. r.read \in Nat
          BY <3>1, BoundsAssumption DEF Versions
        <4> QED
          BY <3>1, <4>1, <4>2
      <3> QED
        BY <3>2, <3>3 DEF CallsHear, HasHeard, HeardOrGone
    <2>2. CASE ~HasRead(d)
      BY <2>2 DEF HasRead
    <2> QED
      BY <2>1, <2>2
  <1>2. ASSUME \A d \in InferCalls : After(infer'[d])
        PROVE  CallsHear'
    BY <1>2 DEF CallsHear, HasRead, HasHeard, HeardOrGone
  <1>3. CASE UNCHANGED infer
    BY <1>1, <1>2, <1>3
  <1>4. ASSUME NEW c \in InferCalls, NEW r, infer' = [infer EXCEPT ![c] = r],
               After(r)
        PROVE  CallsHear'
    BY <1>1, <1>2, <1>4
  <1>5. ASSUME NEW c \in InferCalls, BeginInference(c) \/ InferenceStep(c)
        PROVE  CallsHear'
    <2> DEFINE o == infer[c]
    <2>1. o \in InferenceCall /\ UNCHANGED <<wav, nextBytes>>
      BY <1>5
      DEF BeginInference, InferenceStep, HashAudio,
          HearAudio, StructureIncident, AnalyzeImage, CheckConsistency,
          WriteTrace, CommitPipeline, InferenceFails, TraceCutShort,
          ReturnInference,
          disk, fresh
    <2>2. CASE HashAudio(c)
      <3> DEFINE r == [o EXCEPT !.pc = "hear", !.read = wav[o.audio]]
      <3>1. /\ infer' = [infer EXCEPT ![c] = r]
            /\ wav[o.audio] # 0 /\ o.pc = "transcribe"
        BY <2>2 DEF HashAudio
      <3>2. o.audio \in Seconds
        BY <3>1 DEF CallsHoldValues, InferenceOpen
      <3>3. r.pc = "hear" /\ r.read = wav[o.audio] /\ r.audio = o.audio
        BY <2>1 DEF InferenceCall
      <3>4. After(r)
        BY <2>1, <3>1, <3>2, <3>3 DEF BytesAreNew
      <3> QED
        BY <1>4, <3>1, <3>4
    <2>3. CASE HearAudio(c)
      <3> DEFINE r == [o EXCEPT !.pc = "structure", !.heard = wav[o.audio],
                                !.models = @ \cup {liveModel}]
      <3>1. infer' = [infer EXCEPT ![c] = r] /\ o.pc = "hear"
        BY <2>3 DEF HearAudio
      <3>2. /\ r.pc = "structure" /\ r.read = o.read
            /\ r.heard = wav[o.audio]
        BY <2>1 DEF InferenceCall
      <3>3. o.read < nextBytes
        BY <3>1 DEF CallsHear, HasRead
      <3>4. \A s \in Seconds : wav[s] = o.read => s = o.audio
        BY <3>1 DEF CallsHear
      <3>5. After(r)
        BY <2>1, <3>2, <3>3, <3>4
      <3> QED
        BY <1>4, <3>1, <3>5
    <2>4. CASE AnalyzeImage(c)
      <3>1. PICK seen, models :
              /\ o.pc = "images"
              /\ infer' = [infer EXCEPT ![c].seen = seen, ![c].models = models]
        BY <2>4 DEF AnalyzeImage
      <3> DEFINE r == [o EXCEPT !.seen = seen, !.models = models]
      <3>2. infer' = [infer EXCEPT ![c] = r]
        BY <3>1
      <3>3. r.pc = o.pc /\ r.read = o.read /\ r.heard = o.heard
        BY <2>1 DEF InferenceCall
      <3>4. After(r)
        BY <1>1, <3>1, <3>3
      <3> QED
        BY <1>4, <3>2, <3>4
    <2>5. CASE StructureIncident(c) \/ CheckConsistency(c) \/ WriteTrace(c)
      <3>1. /\ o.pc \in {"structure", "images", "trace"}
            /\ infer'[c].pc \in {"images", "trace", "commit"}
            /\ infer'[c].read = o.read /\ infer'[c].heard = o.heard
            /\ \A d \in InferCalls \ {c} : infer'[d] = infer[d]
        BY <2>1, <2>5 DEF StructureIncident, CheckConsistency, WriteTrace,
                          InferenceCall
      <3>2. After(infer'[c])
        BY <1>1, <3>1
      <3> QED
        BY <1>1, <1>2, <3>1, <3>2
    <2>6. CASE \/ BeginInference(c) \/ CommitPipeline(c)
               \/ InferenceFails(c) \/ TraceCutShort(c) \/ ReturnInference(c)
      <3>1. /\ infer'[c].pc \in {"idle", "transcribe", "return"}
            /\ \A d \in InferCalls \ {c} : infer'[d] = infer[d]
        BY <2>6, CallReset
      <3>2. After(infer'[c])
        BY <3>1
      <3> QED
        BY <1>1, <1>2, <3>1, <3>2
    <2> QED
      BY <1>5, <2>2, <2>3, <2>4, <2>5, <2>6 DEF InferenceStep
  <1>6. CASE Crash
    BY <1>2, <1>6 DEF Crash, IdleInference
  <1>7. ASSUME NEW c \in SealCalls, BeginSeal(c) \/ SealStep(c)
        PROVE  UNCHANGED infer
    BY <1>7 DEF BeginSeal, SealStep, ResolveFingerprint, ReservePath,
                ReadAudio, ReadImage, CreateArchive, FinishArchive,
                SealFails, ReturnSeal
  <1>8. CASE \/ Record \/ Pick \/ Discard \/ ClockMoves \/ SidecarSwaps
             \/ ExternalWrite \/ UNCHANGED vars
    <2>1. UNCHANGED infer
      BY <1>8 DEF Record, StartRecording, CaptureSamples, StopRecording, Pick,
                  OpenDialog, CreateStagingDir, StageImage, CommitPick,
                  LeavePick, Discard, BeginDiscard, RemoveRecordings,
                  RemoveReasoning, RemoveStaged, DiscardFails, ClockMoves,
                  SidecarSwaps, ExternalWrite, vars, calls
    <2> QED
      BY <1>3, <2>1
  <1> QED
    BY <1>3, <1>5, <1>6, <1>7, <1>8 DEF Next

LEMMA StepRunsHeard ==
  ASSUME Typed, ~ExternalWrites, CallsHear, RunsHeard, [Next]_vars
  PROVE  RunsHeard'
  <1> DEFINE After(audio, heard) ==
        /\ audio < nextBytes'
        /\ heard = audio \/ \A s \in Seconds : wav'[s] # audio
  <1>1. ASSUME NEW audio \in Versions, NEW heard,
               audio < nextBytes, HeardOrGone(audio, heard)
        PROVE  After(audio, heard)
    <2>1. audio < nextBytes'
      BY <1>1, FreshTyped, BoundsAssumption
      DEF Typed, TypeOK, FreshTypeOK, Versions
    <2>2. \A s \in Seconds : wav'[s] = audio => wav[s] = audio
      BY <1>1, OldBytes
    <2> QED
      BY <1>1, <2>1, <2>2 DEF HeardOrGone
  <1>2. ASSUME NEW n \in 1..MaxRuns, runs[n] # NoRun
        PROVE  After(runs[n].audio, runs[n].heard)
    <2>1. runs[n].audio \in Versions
      BY <1>2 DEF Typed, TypeOK, RunInput
    <2> QED
      BY <1>1, <1>2, <2>1 DEF RunsHeard
  <1>3. CASE UNCHANGED runs
    BY <1>2, <1>3 DEF RunsHeard, HeardOrGone
  <1>4. ASSUME NEW c \in InferCalls, CommitPipeline(c)
        PROVE  RunsHeard'
    <2> DEFINE m == infer[c].run
    <2>1. /\ m \in 1..MaxRuns /\ infer[c].read \in Versions
          /\ infer[c].read < nextBytes
          /\ HeardOrGone(infer[c].read, infer[c].heard)
      BY <1>4 DEF CommitPipeline, Typed, CallsHoldValues, HasRun, HasRead,
                  HasHeard, CallsHear
    <2>2. /\ runs'[m].audio = infer[c].read
          /\ runs'[m].heard = infer[c].heard
          /\ \A n \in 1..MaxRuns \ {m} : runs'[n] = runs[n]
      BY <1>4, <2>1 DEF CommitPipeline, Typed, TypeOK
    <2>3. After(runs'[m].audio, runs'[m].heard)
      BY <1>1, <2>1, <2>2
    <2> QED
      BY <1>2, <2>2, <2>3 DEF RunsHeard, HeardOrGone
  <1> QED
    BY <1>3, <1>4, OnlyCommitsRecord

\* A seal that holds audio after a step held it before, or has just found
\* the bytes its snapshot pins in the file.
LEMMA AudioBefore ==
  ASSUME Typed, [Next]_vars, NEW d \in SealCalls, HasAudio(d)'
  PROVE  /\ seal'[d].snap = seal[d].snap
         /\ HasAudio(d) \/ ReadAudio(d)
  <1> USE DEF Typed, TypeOK, CallsTypeOK, SealCall, HasAudio
  <1>1. CASE UNCHANGED seal
    BY <1>1
  <1>2. ASSUME NEW c \in SealCalls, c # d, BeginSeal(c) \/ SealStep(c)
        PROVE  seal'[d] = seal[d]
    BY <1>2 DEF BeginSeal, SealStep, ResolveFingerprint, ReservePath,
                ReadAudio, ReadImage, CreateArchive, FinishArchive,
                SealFails, ReturnSeal
  <1>3. CASE BeginSeal(d) \/ SealStep(d)
    <2>1. CASE BeginSeal(d) \/ FinishArchive(d) \/ SealFails(d) \/ ReturnSeal(d)
      BY <2>1, SealReset
    <2>2. CASE ReadImage(d)
      <3>1. PICK blobs : seal' = [seal EXCEPT ![d].blobs = blobs]
        BY <2>2 DEF ReadImage
      <3>2. seal[d].pc = "images"
        BY <2>2 DEF ReadImage
      <3> QED
        BY <3>1, <3>2
    <2>3. CASE ResolveFingerprint(d) \/ ReservePath(d)
      BY <2>3 DEF ResolveFingerprint, ReservePath
    <2>4. CASE ReadAudio(d)
      BY <2>4 DEF ReadAudio
    <2>5. CASE CreateArchive(d)
      <3>1. seal[d].pc = "images" /\ seal' = [seal EXCEPT ![d].pc = "write"]
        BY <2>5 DEF CreateArchive
      <3> QED
        BY <3>1
    <2> QED
      BY <1>3, <2>1, <2>2, <2>3, <2>4, <2>5 DEF SealStep
  <1>4. CASE Crash
    BY <1>4 DEF Crash, IdleSeal
  <1>5. \/ UNCHANGED seal
        \/ Crash
        \/ \E c \in SealCalls : BeginSeal(c) \/ SealStep(c)
    BY DEF Next, Record, StartRecording, CaptureSamples,
           StopRecording, Pick, OpenDialog, CreateStagingDir, StageImage,
           CommitPick, LeavePick, BeginInference, InferenceStep, HashAudio,
           HearAudio, StructureIncident, AnalyzeImage, CheckConsistency,
           WriteTrace, CommitPipeline, InferenceFails, TraceCutShort,
           ReturnInference,
           Discard, BeginDiscard, RemoveRecordings, RemoveReasoning,
           RemoveStaged, DiscardFails, ClockMoves, SidecarSwaps,
           ExternalWrite, vars, calls
  <1> QED
    BY <1>1, <1>2, <1>3, <1>4, <1>5

LEMMA StepSealsHeard ==
  ASSUME Typed, EvidenceInv, RunsHeard, SealsHeard, [Next]_vars
  PROVE  SealsHeard'
  <1> SUFFICES ASSUME NEW c \in SealCalls, HasAudio(c)'
               PROVE  runs'[seal'[c].snap.trace].audio
                        = runs'[seal'[c].snap.trace].heard
    BY DEF SealsHeard
  <1> DEFINE n == seal[c].snap.trace
  <1>1. seal'[c].snap = seal[c].snap /\ (HasAudio(c) \/ ReadAudio(c))
    BY AudioBefore
  <1>2. Faithful(seal[c].snap)
    BY <1>1 DEF ReadAudio, HasAudio, SealOpen, EvidenceInv,
                SealsMatchTheirPins
  <1>3. n \in 1..MaxRuns /\ runs[n] # NoRun /\ runs'[n] = runs[n]
    BY <1>2, RunsStay DEF Faithful, Committed, EvidenceInv
  <1>4. CASE HasAudio(c)
    BY <1>1, <1>3, <1>4 DEF SealsHeard
  <1>5. CASE ReadAudio(c)
    <2>1. seal[c].audio \in Seconds
      BY <1>5 DEF ReadAudio, Typed, CallsHoldValues, SealOpen
    <2>2. Sha256(wav[seal[c].audio]) = Sha256(runs[n].audio)
      BY <1>2, <1>5 DEF ReadAudio, MatchesPin, Faithful
    <2>3. wav[seal[c].audio] = runs[n].audio
      BY <2>2 DEF Sha256
    <2>4. runs[n].heard = runs[n].audio
      BY <1>3, <2>1, <2>3 DEF RunsHeard, HeardOrGone
    <2> QED
      BY <1>1, <1>3, <2>4
  <1> QED
    BY <1>1, <1>4, <1>5

LEMMA StepSealedHeard ==
  ASSUME Typed, EvidenceInv, SealsHeard, SealedAudioWasHeard, [Next]_vars
  PROVE  SealedAudioWasHeard'
  <1> SUFFICES ASSUME NEW p \in BundlePath, IsSealed(p)'
               PROVE  bundles'[p].audio = runs'[bundles'[p].trace].heard
    BY DEF SealedAudioWasHeard
  <1>1. CASE IsSealed(p) /\ bundles'[p] = bundles[p]
    <2>1. runs'[bundles[p].trace] = runs[bundles[p].trace]
      BY <1>1, RunsStay DEF EvidenceInv, SealedIsCommitted, Committed
    <2> QED
      BY <1>1, <2>1 DEF SealedAudioWasHeard
  <1>2. ASSUME NEW c \in SealCalls, FinishArchive(c), p = seal[c].out
        PROVE  bundles'[p].audio = runs'[bundles'[p].trace].heard
    <2>1. /\ Committed(bundles'[p].trace)
          /\ bundles'[p].audio = runs[bundles'[p].trace].audio
      BY <1>2, FinishedIsCommitted DEF EvidenceInv
    <2>2. bundles'[p].trace = seal[c].snap.trace
      BY <1>2 DEF FinishArchive, Typed, TypeOK, DiskTypeOK
    <2>3. HasAudio(c)
      BY <1>2 DEF FinishArchive, HasAudio
    <2>4. runs'[bundles'[p].trace] = runs[bundles'[p].trace]
      BY <2>1, RunsStay DEF Committed, EvidenceInv
    <2> QED
      BY <2>1, <2>2, <2>3, <2>4 DEF SealsHeard
  <1> QED
    BY <1>1, <1>2, SealedBefore

\* While the application's own commands are the only writers of its files,
\* every complete bundle holds the audio the sidecar transcribed, although
\* the sidecar opens the file by path after the bytes were hashed: a version
\* that was recorded over in between can never be sealed (transcribe.rs).
THEOREM AudioWasHeard ==
  ASSUME ~ExternalWrites
  PROVE  Spec => []SealedAudioWasHeard
  <1> DEFINE Inv == Typed /\ GuardsAreExclusive /\ EvidenceInv /\ HeardInv
  <1>1. Init => Inv
    BY InitTyped, InitGuards, InitEvidence, InitHeard
  <1>2. Inv /\ [Next]_vars => Inv'
    BY StepTyped, StepGuards, StepEvidence, StepBytes, StepCallsHear,
       StepRunsHeard, StepSealsHeard, StepSealedHeard DEF HeardInv
  <1>3. Inv => SealedAudioWasHeard
    BY DEF HeardInv
  <1> QED
    BY <1>1, <1>2, <1>3, PTL DEF Spec

-----------------------------------------------------------------------------
(* The abstract runs and bundles.  A commit of a run carries it out, the   *)
(* end of an archive files a bundle, and every other step of the backend   *)
(* stutters.                                                               *)

DoneRuns ==
  {<<n, [audio |-> runs[n].audio, images |-> runs[n].images]>> :
     n \in {m \in 1..MaxRuns : runs[m] # NoRun}}
Filed ==
  {<<p, bundles[p].trace,
     [audio |-> bundles[p].audio, images |-> bundles[p].images]>> :
     p \in {q \in BundlePath : IsSealed(q)}}

\* A run describes no more images than it was started with.
SeenBounded ==
  \A c \in InferCalls : Len(infer[c].seen) <= infer[c].images.count

LEMMA InitSeen == Init => SeenBounded
  BY BoundsAssumption DEF Init, SeenBounded, IdleInference, NoImages

LEMMA StepSeen == Typed /\ SeenBounded /\ [Next]_vars => SeenBounded'
  <1> SUFFICES ASSUME Typed, SeenBounded, [Next]_vars
               PROVE  SeenBounded'
    OBVIOUS
  <1> USE DEF Typed, TypeOK, CallsTypeOK
  <1>1. CASE UNCHANGED infer
    BY <1>1 DEF SeenBounded
  <1>2. ASSUME NEW c \in InferCalls, NEW r, infer' = [infer EXCEPT ![c] = r],
               Len(r.seen) <= r.images.count
        PROVE  SeenBounded'
    BY <1>2 DEF SeenBounded
  <1>3. ASSUME NEW c \in InferCalls, BeginInference(c)
        PROVE  SeenBounded'
    <2> DEFINE r == [IdleInference EXCEPT !.pc = "transcribe",
                                          !.audio = capturedAudio,
                                          !.images = pickedImages]
    <2>1. infer' = [infer EXCEPT ![c] = r]
      BY <1>3 DEF BeginInference
    <2>2. pickedImages.count \in Nat
      BY BoundsAssumption DEF StateTypeOK, Selection
    <2>3. r.seen = <<>> /\ r.images = pickedImages
      BY DEF IdleInference
    <2>4. Len(r.seen) <= r.images.count
      BY <2>2, <2>3
    <2> QED
      BY <1>2, <2>1, <2>4
  <1>4. ASSUME NEW c \in InferCalls, InferenceStep(c)
        PROVE  SeenBounded'
    <2>1. /\ infer[c] \in InferenceCall
          /\ Len(infer[c].seen) <= infer[c].images.count
          /\ infer[c].seen \in Seq(ImageData)
      BY DEF SeenBounded, InferenceCall
    <2>2. CASE AnalyzeImage(c)
      <3> DEFINE i == Len(infer[c].seen) + 1
      <3>1. PICK bytes, models :
              /\ i <= infer[c].images.count
              /\ infer' = [infer EXCEPT ![c].seen = Append(@, bytes),
                                        ![c].models = models]
        BY <2>2 DEF AnalyzeImage
      <3>2. /\ infer'[c].seen = Append(infer[c].seen, bytes)
            /\ infer'[c].images = infer[c].images
            /\ \A d \in InferCalls \ {c} : infer'[d] = infer[d]
        BY <2>1, <3>1 DEF InferenceCall
      <3>3. Len(infer'[c].seen) = i
        BY <2>1, <3>2
      <3> QED
        BY <3>1, <3>2, <3>3 DEF SeenBounded
    <2>3. CASE \/ CommitPipeline(c) \/ InferenceFails(c) \/ TraceCutShort(c)
               \/ ReturnInference(c)
      <3>1. PICK r \in {IdleInference,
      [IdleInference EXCEPT !.pc = "return"]} :
              infer' = [infer EXCEPT ![c] = r]
        BY <2>3 DEF CommitPipeline, InferenceFails, TraceCutShort,
                    ReturnInference
      <3>2. Len(r.seen) <= r.images.count
        BY <3>1 DEF IdleInference, NoImages
      <3> QED
        BY <1>2, <3>1, <3>2
    <2>4. CASE \/ HashAudio(c) \/ HearAudio(c) \/ StructureIncident(c)
               \/ CheckConsistency(c) \/ WriteTrace(c)
      <3>1. /\ infer'[c].seen = infer[c].seen
            /\ infer'[c].images = infer[c].images
            /\ \A d \in InferCalls \ {c} : infer'[d] = infer[d]
        BY <2>1, <2>4 DEF HashAudio, HearAudio, StructureIncident,
                          CheckConsistency, WriteTrace, InferenceCall
      <3> QED
        BY <3>1 DEF SeenBounded
    <2> QED
      BY <1>4, <2>2, <2>3, <2>4 DEF InferenceStep
  <1>5. CASE Crash
    BY <1>5 DEF Crash, SeenBounded, IdleInference, NoImages
  <1>6. ASSUME NEW c \in SealCalls, BeginSeal(c) \/ SealStep(c)
        PROVE  UNCHANGED infer
    BY <1>6 DEF BeginSeal, SealStep, ResolveFingerprint, ReservePath,
                ReadAudio, ReadImage, CreateArchive, FinishArchive,
                SealFails, ReturnSeal
  <1>7. CASE \/ Record \/ Pick \/ Discard \/ ClockMoves \/ SidecarSwaps
             \/ ExternalWrite \/ UNCHANGED vars
    <2>1. UNCHANGED infer
      BY <1>7 DEF Record, StartRecording, CaptureSamples, StopRecording, Pick,
                  OpenDialog, CreateStagingDir, StageImage, CommitPick,
                  LeavePick, Discard, BeginDiscard, RemoveRecordings,
                  RemoveReasoning, RemoveStaged, DiscardFails, ClockMoves,
                  SidecarSwaps, ExternalWrite, vars, calls
    <2> QED
      BY <1>1, <2>1
  <1> QED
    BY <1>1, <1>3, <1>4, <1>5, <1>6, <1>7 DEF Next

\* A commit carries out one run, on inputs the abstract specification has.
LEMMA CommitCarriesOut ==
  ASSUME Typed, RunsAreFresh, SeenBounded, [Next]_vars,
         NEW c \in InferCalls, CommitPipeline(c)
  PROVE  \E n \in 1..MaxRuns : Evidence!CarryOut(n)
  <1> DEFINE call == infer[c]
             n == call.run
             in == [audio |-> call.read, images |-> call.seen]
  <1>1. /\ call \in InferenceCall
        /\ n \in 1..MaxRuns
        /\ call.read \in Versions
        /\ runs[n] = NoRun
    BY DEF CommitPipeline, Typed, TypeOK, CallsTypeOK, CallsHoldValues,
           HasRun, HasRead, RunsAreFresh
  <1>2. /\ runs'[n] = [audio  |-> call.read, heard |-> call.heard,
                       images |-> call.seen, models |-> call.models]
        /\ \A m \in 1..MaxRuns \ {n} : runs'[m] = runs[m]
    BY <1>1 DEF CommitPipeline, Typed, TypeOK
  <1>3. runs'[n] # NoRun
    BY <1>1, <1>2 DEF NoRun, Versions
  <1>4. in \in [audio : Versions,
                images : UNION {[1..k -> ImageData] : k \in 0..MaxFiles}]
    <2> DEFINE k == Len(call.seen)
    <2>1. /\ call.seen \in Seq(ImageData)
          /\ call.images.count \in 0..MaxFiles
          /\ k <= call.images.count
      BY <1>1 DEF InferenceCall, Selection, SeenBounded
    <2>2. k \in 0..MaxFiles
      <3>1. k \in Nat
        BY <2>1
      <3> QED
        BY <2>1, <3>1, BoundsAssumption
    <2>3. call.seen \in [1..k -> ImageData]
      BY <2>1
    <2> QED
      BY <1>1, <2>2, <2>3
  <1>5. DoneRuns' = DoneRuns \cup {<<n, in>>}
    <2> DEFINE Entry(m) == <<m, [audio |-> runs[m].audio,
                                 images |-> runs[m].images]>>
               After(m) == <<m, [audio |-> runs'[m].audio,
                                 images |-> runs'[m].images]>>
    <2>1. After(n) = <<n, in>>
      BY <1>2
    <2>2. \A m \in 1..MaxRuns \ {n} : After(m) = Entry(m)
      BY <1>2
    <2>3. {m \in 1..MaxRuns : runs'[m] # NoRun}
            = {m \in 1..MaxRuns : runs[m] # NoRun} \cup {n}
      BY <1>1, <1>2, <1>3
    <2>4. \A m \in {l \in 1..MaxRuns : runs[l] # NoRun} :
            m \in 1..MaxRuns \ {n}
      BY <1>1
    <2> HIDE DEF Entry, After, n, in
    <2>5. {After(m) : m \in {l \in 1..MaxRuns : runs'[l] # NoRun}}
            = {Entry(m) : m \in {l \in 1..MaxRuns : runs[l] # NoRun}}
                \cup {<<n, in>>}
      BY <2>1, <2>2, <2>3, <2>4
    <2> QED
      BY <2>5 DEF DoneRuns, Entry, After
  <1>6. \A r \in DoneRuns : r[1] # n
    BY <1>1 DEF DoneRuns
  <1>7. Filed' = Filed
    BY DEF CommitPipeline, disk, Filed, IsSealed
  <1> HIDE DEF n, in
  <1> QED
    BY <1>1, <1>4, <1>5, <1>6, <1>7 DEF Evidence!CarryOut, DoneRuns, Filed

\* The end of an archive files one bundle of a run that was carried out,
\* under the name the seal holds.
LEMMA FinishFiles ==
  ASSUME Typed, EvidenceInv, PathsAreFree, [Next]_vars,
         NEW c \in SealCalls, FinishArchive(c)
  PROVE  \E p \in BundlePath : Evidence!File(p)
  <1> DEFINE p == seal[c].out
             b == bundles'[p]
             in == [audio |-> b.audio, images |-> b.images]
  <1>1. /\ HasPath(c)
        /\ p \in BundlePath
        /\ ~IsSealed(p)
        /\ \A q \in BundlePath : q # p => bundles'[q] = bundles[q]
    BY HeldIsWritten DEF Typed, CallsHoldValues, PathsAreFree
  <1>2. b.kind = "sealed"
    BY <1>1 DEF FinishArchive, Typed, TypeOK, DiskTypeOK
  <1>3. /\ Committed(b.trace)
        /\ b.audio = runs[b.trace].audio
        /\ b.images = runs[b.trace].images
    BY FinishedIsCommitted DEF EvidenceInv
  <1>4. <<b.trace, in>> \in DoneRuns
    BY <1>3 DEF DoneRuns, Committed
  <1>5. \A l \in Filed : l[1] # p
    BY <1>1 DEF Filed
  <1>6. Filed' = Filed \cup {<<p, b.trace, in>>}
    <2> DEFINE Entry(q) == <<q, bundles[q].trace,
                             [audio |-> bundles[q].audio,
                              images |-> bundles[q].images]>>
               After(q) == <<q, bundles'[q].trace,
                             [audio |-> bundles'[q].audio,
                              images |-> bundles'[q].images]>>
    <2>1. After(p) = <<p, b.trace, in>>
      OBVIOUS
    <2>2. \A q \in BundlePath \ {p} : After(q) = Entry(q)
      BY <1>1
    <2>3. {q \in BundlePath : IsSealed(q)'}
            = {q \in BundlePath : IsSealed(q)} \cup {p}
      BY <1>1, <1>2 DEF IsSealed
    <2>4. \A q \in {l \in BundlePath : IsSealed(l)} : q \in BundlePath \ {p}
      BY <1>1
    <2>5. Filed' = {After(q) : q \in {l \in BundlePath : IsSealed(l)'}}
      BY DEF Filed
    <2>6. Filed = {Entry(q) : q \in {l \in BundlePath : IsSealed(l)}}
      BY DEF Filed
    <2> HIDE DEF Entry, After, p, b, in
    <2> QED
      BY <2>1, <2>2, <2>3, <2>4, <2>5, <2>6
  <1>7. DoneRuns' = DoneRuns
    BY DEF FinishArchive, DoneRuns
  <1> HIDE DEF p, b, in
  <1> QED
    BY <1>1, <1>4, <1>5, <1>6, <1>7 DEF Evidence!File, DoneRuns, Filed

\* A step that commits no run and finishes no archive changes neither.
LEMMA OthersStutter ==
  ASSUME Typed, PathsAreFree, [Next]_vars,
         \A c \in InferCalls : ~CommitPipeline(c),
         \A c \in SealCalls : ~FinishArchive(c)
  PROVE  DoneRuns' = DoneRuns /\ Filed' = Filed
  <1>1. UNCHANGED runs
    BY OnlyCommitsRecord
  <1>2. \A p \in BundlePath : IsSealed(p)' => IsSealed(p)
    BY SealedBefore
  <1>3. \A p \in BundlePath : IsSealed(p) => bundles'[p] = bundles[p]
    <2>1. \A c \in SealCalls : HasPath(c) => ~IsSealed(seal[c].out)
      BY DEF PathsAreFree
    <2> QED
      BY <2>1, BundleWrites, ReservedIsFree, HeldIsWritten
  <1>4. {q \in BundlePath : IsSealed(q)'} = {q \in BundlePath : IsSealed(q)}
    BY <1>2, <1>3 DEF IsSealed
  <1>5. Filed' = Filed
    BY <1>3, <1>4 DEF Filed
  <1> QED
    BY <1>1, <1>5 DEF DoneRuns

LEMMA InitEvidenceMaps == Init => Evidence!Init
  BY DEF Init, Evidence!Init, IsSealed, NoBundle

\* Whatever records, picks, runs, seals, discards, crashes and other
\* programs do, seen through its files the capture backend only ever carries
\* out a run or files a bundle of one under a name of its own
\* (inference_commands.rs, seal_commands.rs, bundle_builder.rs).
THEOREM Implements == Spec => ImplementsSealedEvidence
  <1> DEFINE Inv == /\ Typed /\ GuardsAreExclusive /\ EvidenceInv
                    /\ PathsAreFree /\ SeenBounded
  <1>1. Init => Inv
    BY InitTyped, InitGuards, InitEvidence, InitPaths, InitSeen
  <1>2. Inv /\ [Next]_vars => Inv'
    BY StepTyped, StepGuards, StepEvidence, StepPaths, StepSeen
  <1>3. Inv /\ [Next]_vars => [Evidence!Next]_<<DoneRuns, Filed>>
    <2> SUFFICES ASSUME Inv, [Next]_vars
                 PROVE  [Evidence!Next]_<<DoneRuns, Filed>>
      OBVIOUS
    <2>1. ASSUME NEW c \in InferCalls, CommitPipeline(c)
          PROVE  Evidence!Next
      BY <2>1, CommitCarriesOut DEF EvidenceInv, Evidence!Next
    <2>2. ASSUME NEW c \in SealCalls, FinishArchive(c)
          PROVE  Evidence!Next
      BY <2>2, FinishFiles DEF Evidence!Next
    <2> QED
      BY <2>1, <2>2, OthersStutter
  <1> QED
    BY <1>1, <1>2, <1>3, InitEvidenceMaps, PTL
    DEF Spec, ImplementsSealedEvidence, Evidence!Spec, DoneRuns, Filed

-----------------------------------------------------------------------------
(* How long a call can take.  The steps of a command are counted down: one *)
(* for each stage it has still to pass and one for each image it has still *)
(* to read.                                                                *)

InferenceLeft(c) ==
  LET unread == infer[c].images.count - Len(infer[c].seen)
  IN CASE infer[c].pc = "transcribe" -> unread + 7
       [] infer[c].pc = "hear"       -> unread + 6
       [] infer[c].pc = "structure"  -> unread + 5
       [] infer[c].pc = "images"     -> unread + 4
       [] infer[c].pc = "trace"      -> 3
       [] infer[c].pc = "commit"     -> 2
       [] infer[c].pc = "return"     -> 1
       [] OTHER                      -> 0

SealLeft(c) ==
  LET unread == seal[c].images.count - Len(seal[c].blobs)
  IN CASE seal[c].pc = "fingerprint" -> unread + 6
       [] seal[c].pc = "reserve"     -> unread + 5
       [] seal[c].pc = "audio"       -> unread + 4
       [] seal[c].pc = "images"      -> unread + 3
       [] seal[c].pc = "write"       -> 2
       [] seal[c].pc = "return"      -> 1
       [] OTHER                      -> 0

CountsDown(left, next, bound) ==
  left \in 1..bound /\ next \in 0..left - 1

\* A step leaves a call alone, begins it, or takes it closer to its return.
CallsOnlyAdvance ==
  /\ \A c \in InferCalls :
       \/ infer'[c] = infer[c]
       \/ infer[c].pc = "idle"
       \/ CountsDown(InferenceLeft(c), InferenceLeft(c)', MaxFiles + 7)
  /\ \A c \in SealCalls :
       \/ seal'[c] = seal[c]
       \/ seal[c].pc = "idle"
       \/ CountsDown(SealLeft(c), SealLeft(c)', MaxFiles + 6)

\* A call of run_inference_cmd in flight has a bounded number of steps left.
LEMMA InferenceBounded ==
  ASSUME Typed, SeenBounded, NEW c \in InferCalls
  PROVE  /\ InferenceLeft(c) \in 0..MaxFiles + 7
         /\ InferenceLeft(c) = 0 <=> infer[c].pc = "idle"
  <1>1. /\ infer[c].pc \in InferencePc
        /\ infer[c].images.count \in 0..MaxFiles
        /\ infer[c].seen \in Seq(ImageData)
        /\ Len(infer[c].seen) <= infer[c].images.count
    BY DEF Typed, TypeOK, CallsTypeOK, InferenceCall, Selection, SeenBounded
  <1>2. Len(infer[c].seen) \in Nat
    BY <1>1
  <1> DEFINE unread == infer[c].images.count - Len(infer[c].seen)
  <1>3. unread \in 0..MaxFiles
    BY <1>1, <1>2, BoundsAssumption
  <1>4. InferenceLeft(c) =
          CASE infer[c].pc = "transcribe" -> unread + 7
            [] infer[c].pc = "hear"       -> unread + 6
            [] infer[c].pc = "structure"  -> unread + 5
            [] infer[c].pc = "images"     -> unread + 4
            [] infer[c].pc = "trace"      -> 3
            [] infer[c].pc = "commit"     -> 2
            [] infer[c].pc = "return"     -> 1
            [] OTHER                      -> 0
    BY DEF InferenceLeft
  <1> HIDE DEF unread
  <1>5. CASE infer[c].pc \in {"transcribe", "hear", "structure", "images"}
    <2>1. InferenceLeft(c) \in {unread + 4, unread + 5, unread + 6, unread + 7}
      BY <1>4, <1>5
    <2>2. infer[c].pc # "idle"
      BY <1>5
    <2> QED
      BY <1>3, <2>1, <2>2, BoundsAssumption
  <1>6. CASE infer[c].pc \in {"trace", "commit", "return", "idle"}
    <2>1. /\ InferenceLeft(c) \in {0, 1, 2, 3}
          /\ InferenceLeft(c) = 0 <=> infer[c].pc = "idle"
      BY <1>4, <1>6
    <2> QED
      BY <2>1, BoundsAssumption
  <1> QED
    BY <1>1, <1>5, <1>6 DEF InferencePc

\* Each of its steps uses one up.
LEMMA InferenceCountsDown ==
  ASSUME Typed, SeenBounded, NEW c \in InferCalls, InferenceStep(c)
  PROVE  InferenceLeft(c)' < InferenceLeft(c)
  <1> DEFINE Left(pc, unread) ==
        CASE pc = "transcribe" -> unread + 7
          [] pc = "hear"       -> unread + 6
          [] pc = "structure"  -> unread + 5
          [] pc = "images"     -> unread + 4
          [] pc = "trace"      -> 3
          [] pc = "commit"     -> 2
          [] pc = "return"     -> 1
          [] OTHER             -> 0
      Unread(r) == r.images.count - Len(r.seen)
  <1>1. /\ InferenceLeft(c) = Left(infer[c].pc, Unread(infer[c]))
        /\ InferenceLeft(c)' = Left(infer'[c].pc, Unread(infer'[c]))
    BY DEF InferenceLeft
  <1>2. /\ infer \in [InferCalls -> InferenceCall]
        /\ infer[c] \in InferenceCall
        /\ infer[c].images.count \in Nat
        /\ infer[c].seen \in Seq(ImageData)
        /\ Len(infer[c].seen) \in Nat
        /\ Len(infer[c].seen) <= infer[c].images.count
    BY BoundsAssumption
    DEF Typed, TypeOK, CallsTypeOK, InferenceCall, Selection, SeenBounded
  <1>3. Unread(infer[c]) \in Nat
    BY <1>2
  <1>4. CASE CommitPipeline(c) \/ InferenceFails(c) \/ TraceCutShort(c)
    <2>1. /\ infer' = [infer EXCEPT ![c] =
                         [IdleInference EXCEPT !.pc = "return"]]
          /\ infer[c].pc \in {"transcribe", "hear", "structure", "images",
                              "trace", "commit"}
      BY <1>4 DEF CommitPipeline, InferenceFails, TraceCutShort
    <2>2. infer'[c].pc = "return"
      BY <1>2, <2>1 DEF IdleInference
    <2> HIDE DEF Unread
    <2>3. /\ Left(infer[c].pc, Unread(infer[c])) \in Nat
          /\ Left(infer[c].pc, Unread(infer[c])) >= 2
      BY <1>3, <2>1
    <2>4. Left(infer'[c].pc, Unread(infer'[c])) = 1
      BY <2>2
    <2>5. ASSUME NEW m \in Nat, m >= 2 PROVE 1 < m
      BY <2>5
    <2> HIDE DEF Left
    <2> QED
      BY <1>1, <2>3, <2>4, <2>5
  <1>5. CASE ReturnInference(c)
    <2>1. infer[c].pc = "return" /\ infer'[c].pc = "idle"
      BY <1>2, <1>5 DEF ReturnInference, IdleInference
    <2> QED
      BY <1>1, <2>1
  <1>6. CASE AnalyzeImage(c)
    <2> DEFINE i == Len(infer[c].seen) + 1
    <2>1. PICK bytes, models :
            /\ i <= infer[c].images.count
            /\ infer[c].pc = "images"
            /\ infer' = [infer EXCEPT ![c].seen = Append(@, bytes),
                                      ![c].models = models]
      BY <1>6 DEF AnalyzeImage
    <2>2. /\ infer'[c].seen = Append(infer[c].seen, bytes)
          /\ infer'[c].images = infer[c].images
          /\ infer'[c].pc = "images"
      BY <1>2, <2>1 DEF InferenceCall
    <2>3. Len(infer'[c].seen) = i
      BY <1>2, <2>2
    <2>4. Unread(infer'[c]) = Unread(infer[c]) - 1
      BY <1>2, <2>2, <2>3
    <2> HIDE DEF Unread
    <2>5. /\ InferenceLeft(c) = Unread(infer[c]) + 4
          /\ InferenceLeft(c)' = Unread(infer'[c]) + 4
      <3>1. infer[c].pc = "images" /\ infer'[c].pc = "images"
        BY <2>1, <2>2
      <3> QED
        BY <1>1, <3>1
    <2> QED
      BY <1>3, <2>4, <2>5
  <1>7. CASE \/ HashAudio(c) \/ HearAudio(c) \/ StructureIncident(c)
             \/ CheckConsistency(c) \/ WriteTrace(c)
    <2>1. /\ infer'[c].seen = infer[c].seen
          /\ infer'[c].images = infer[c].images
          /\ <<infer[c].pc, infer'[c].pc>> \in
               {<<"transcribe", "hear">>, <<"hear", "structure">>,
                <<"structure", "images">>, <<"images", "trace">>,
                <<"trace", "commit">>}
      BY <1>2, <1>7 DEF HashAudio, HearAudio, StructureIncident,
                        CheckConsistency, WriteTrace, InferenceCall
    <2>2. Unread(infer'[c]) = Unread(infer[c])
      BY <2>1
    <2> HIDE DEF Unread
    <2> QED
      BY <1>1, <1>3, <2>1, <2>2
  <1> QED
    BY <1>4, <1>5, <1>6, <1>7 DEF InferenceStep

\* The same of a call of seal_bundle_cmd.
LEMMA SealBounded ==
  ASSUME Typed, SealsMatchTheirPins, NEW c \in SealCalls
  PROVE  /\ SealLeft(c) \in 0..MaxFiles + 6
         /\ SealLeft(c) = 0 <=> seal[c].pc = "idle"
  <1>1. /\ seal[c].pc \in SealPc
        /\ seal[c].images.count \in 0..MaxFiles
        /\ seal[c].blobs \in Seq(ImageData)
    BY DEF Typed, TypeOK, CallsTypeOK, SealCall, Selection
  <1>2. Len(seal[c].blobs) \in Nat
    BY <1>1
  <1>3. SealOpen(c) => Len(seal[c].blobs) <= seal[c].images.count
    <2>1. CASE HasModel(c)
      BY <2>1 DEF SealsMatchTheirPins
    <2>2. CASE seal[c].pc = "fingerprint"
      <3>1. seal[c].blobs = <<>>
        BY <2>2 DEF SealsMatchTheirPins
      <3> QED
        BY <1>1, <3>1, BoundsAssumption
    <2> QED
      BY <2>1, <2>2 DEF SealOpen, HasModel
  <1> DEFINE unread == seal[c].images.count - Len(seal[c].blobs)
  <1>4. SealOpen(c) => unread \in 0..MaxFiles
    BY <1>1, <1>2, <1>3, BoundsAssumption
  <1>5. SealLeft(c) =
          CASE seal[c].pc = "fingerprint" -> unread + 6
            [] seal[c].pc = "reserve"     -> unread + 5
            [] seal[c].pc = "audio"       -> unread + 4
            [] seal[c].pc = "images"      -> unread + 3
            [] seal[c].pc = "write"       -> 2
            [] seal[c].pc = "return"      -> 1
            [] OTHER                      -> 0
    BY DEF SealLeft
  <1> HIDE DEF unread
  <1>6. CASE seal[c].pc \in {"fingerprint", "reserve", "audio", "images"}
    <2>1. SealLeft(c) \in {unread + 3, unread + 4, unread + 5, unread + 6}
      BY <1>5, <1>6
    <2>2. seal[c].pc # "idle" /\ unread \in 0..MaxFiles
      BY <1>4, <1>6 DEF SealOpen
    <2> QED
      BY <2>1, <2>2, BoundsAssumption
  <1>7. CASE seal[c].pc \in {"write", "return", "idle"}
    <2>1. /\ SealLeft(c) \in {0, 1, 2}
          /\ SealLeft(c) = 0 <=> seal[c].pc = "idle"
      BY <1>5, <1>7
    <2> QED
      BY <2>1, BoundsAssumption
  <1> QED
    BY <1>1, <1>6, <1>7 DEF SealPc

\* Each step of a call of seal_bundle_cmd takes one of its steps away.
LEMMA SealCountsDown ==
  ASSUME Typed, SealsMatchTheirPins, NEW c \in SealCalls, SealStep(c)
  PROVE  SealLeft(c)' < SealLeft(c)
  <1> DEFINE Left(pc, unread) ==
        CASE pc = "fingerprint" -> unread + 6
          [] pc = "reserve"     -> unread + 5
          [] pc = "audio"       -> unread + 4
          [] pc = "images"      -> unread + 3
          [] pc = "write"       -> 2
          [] pc = "return"      -> 1
          [] OTHER              -> 0
      Unread(r) == r.images.count - Len(r.blobs)
  <1>1. /\ SealLeft(c) = Left(seal[c].pc, Unread(seal[c]))
        /\ SealLeft(c)' = Left(seal'[c].pc, Unread(seal'[c]))
    BY DEF SealLeft
  <1>2. /\ seal \in [SealCalls -> SealCall]
        /\ seal[c] \in SealCall
        /\ seal[c].images.count \in Nat
        /\ seal[c].blobs \in Seq(ImageData)
        /\ Len(seal[c].blobs) \in Nat
    <2>1. seal \in [SealCalls -> SealCall]
      BY DEF Typed, TypeOK, CallsTypeOK
    <2>2. seal[c] \in SealCall
      BY <2>1
    <2>3. seal[c].images \in Selection /\ seal[c].blobs \in Seq(ImageData)
      BY <2>2 DEF SealCall
    <2>4. seal[c].images.count \in Nat
      BY <2>3, BoundsAssumption DEF Selection
    <2> QED
      BY <2>1, <2>2, <2>3, <2>4
  <1>3. SealOpen(c) => Unread(seal[c]) \in Nat
    <2>1. CASE HasModel(c)
      BY <1>2, <2>1 DEF SealsMatchTheirPins
    <2>2. CASE seal[c].pc = "fingerprint"
      <3>1. seal[c].blobs = <<>>
        BY <2>2 DEF SealsMatchTheirPins
      <3> QED
        BY <1>2, <3>1
    <2> QED
      BY <2>1, <2>2 DEF SealOpen, HasModel
  <1>4. CASE FinishArchive(c) \/ SealFails(c)
    <2>1. /\ seal' = [seal EXCEPT ![c] = [IdleSeal EXCEPT !.pc = "return"]]
          /\ SealOpen(c)
      BY <1>4 DEF FinishArchive, SealFails, SealOpen
    <2>2. seal'[c].pc = "return"
      BY <1>2, <2>1 DEF IdleSeal
    <2> HIDE DEF Unread
    <2>3. /\ Left(seal[c].pc, Unread(seal[c])) \in Nat
          /\ Left(seal[c].pc, Unread(seal[c])) >= 2
      BY <1>3, <2>1 DEF SealOpen
    <2>4. Left(seal'[c].pc, Unread(seal'[c])) = 1
      BY <2>2
    <2>5. ASSUME NEW m \in Nat, m >= 2 PROVE 1 < m
      BY <2>5
    <2> HIDE DEF Left
    <2> QED
      BY <1>1, <2>3, <2>4, <2>5
  <1>5. CASE ReturnSeal(c)
    <2>1. seal[c].pc = "return" /\ seal'[c].pc = "idle"
      BY <1>2, <1>5 DEF ReturnSeal, IdleSeal
    <2> QED
      BY <1>1, <2>1
  <1>6. CASE ReadImage(c)
    <2> DEFINE i == Len(seal[c].blobs) + 1
    <2>1. PICK bytes :
            /\ i <= seal[c].images.count
            /\ seal[c].pc = "images"
            /\ seal' = [seal EXCEPT ![c].blobs = Append(@, bytes)]
      BY <1>6 DEF ReadImage
    <2>2. /\ seal'[c].blobs = Append(seal[c].blobs, bytes)
          /\ seal'[c].images = seal[c].images
          /\ seal'[c].pc = "images"
      BY <1>2, <2>1 DEF SealCall
    <2>3. Len(seal'[c].blobs) = i
      BY <1>2, <2>2
    <2>4. Unread(seal'[c]) = Unread(seal[c]) - 1
      BY <1>2, <2>2, <2>3
    <2>5. Unread(seal[c]) \in Nat
      BY <1>3, <2>1 DEF SealOpen
    <2> HIDE DEF Unread
    <2>6. /\ SealLeft(c) = Unread(seal[c]) + 3
          /\ SealLeft(c)' = Unread(seal'[c]) + 3
      <3>1. seal[c].pc = "images" /\ seal'[c].pc = "images"
        BY <2>1, <2>2
      <3> QED
        BY <1>1, <3>1
    <2> QED
      BY <2>4, <2>5, <2>6
  <1>7. CASE \/ ResolveFingerprint(c) \/ ReservePath(c) \/ ReadAudio(c)
             \/ CreateArchive(c)
    <2>1. /\ seal'[c].blobs = seal[c].blobs
          /\ seal'[c].images = seal[c].images
          /\ <<seal[c].pc, seal'[c].pc>> \in
               {<<"fingerprint", "reserve">>, <<"reserve", "audio">>,
                <<"audio", "images">>, <<"images", "write">>}
      BY <1>2, <1>7 DEF ResolveFingerprint, ReservePath, ReadAudio,
                        CreateArchive, SealCall
    <2>2. Unread(seal'[c]) = Unread(seal[c])
      BY <2>1
    <2>3. Unread(seal[c]) \in Nat
      BY <1>3, <2>1 DEF SealOpen
    <2> HIDE DEF Unread
    <2> QED
      BY <1>1, <2>1, <2>2, <2>3
  <1> QED
    BY <1>4, <1>5, <1>6, <1>7 DEF SealStep

\* A step that is none of a call's own leaves it alone, begins it, or is the
\* end of the process.
LEMMA OthersLeaveCalls ==
  ASSUME Typed, [Next]_vars, ~Crash
  PROVE  /\ \A c \in InferCalls :
              \/ infer'[c] = infer[c]
              \/ BeginInference(c)
              \/ InferenceStep(c)
         /\ \A c \in SealCalls :
              \/ seal'[c] = seal[c]
              \/ BeginSeal(c)
              \/ SealStep(c)
  <1> USE DEF Typed, TypeOK, CallsTypeOK
  <1>1. ASSUME NEW c \in InferCalls, BeginInference(c) \/ InferenceStep(c)
        PROVE  /\ UNCHANGED seal
               /\ \A d \in InferCalls : d # c => infer'[d] = infer[d]
    <2>1. CASE BeginInference(c)
      BY <2>1 DEF BeginInference
    <2>2. CASE ReturnInference(c)
      BY <2>2 DEF ReturnInference
    <2>3. CASE InferenceStep(c) /\ ~ReturnInference(c)
      BY <2>3, InferenceInFlight
    <2> QED
      BY <1>1, <2>1, <2>2, <2>3
  <1>2. ASSUME NEW c \in SealCalls, BeginSeal(c) \/ SealStep(c)
        PROVE  /\ UNCHANGED infer
               /\ \A d \in SealCalls : d # c => seal'[d] = seal[d]
    <2>1. CASE BeginSeal(c)
      BY <2>1 DEF BeginSeal
    <2>2. CASE ReturnSeal(c)
      BY <2>2 DEF ReturnSeal
    <2>3. CASE SealStep(c) /\ ~ReturnSeal(c)
      BY <2>3, SealInFlight
    <2> QED
      BY <1>2, <2>1, <2>2, <2>3
  <1>3. CASE \/ Record \/ Pick \/ Discard \/ ClockMoves \/ SidecarSwaps
             \/ ExternalWrite \/ UNCHANGED vars
    <2>1. UNCHANGED <<infer, seal>>
      BY <1>3 DEF Record, StartRecording, CaptureSamples, StopRecording, Pick,
                  OpenDialog, CreateStagingDir, StageImage, CommitPick,
                  LeavePick, Discard, BeginDiscard, RemoveRecordings,
                  RemoveReasoning, RemoveStaged, DiscardFails, ClockMoves,
                  SidecarSwaps, ExternalWrite, vars, calls
    <2> QED
      BY <2>1
  <1> QED
    BY <1>1, <1>2, <1>3, Zenon DEF Next

\* Short of the end of the process, a command that began only gets closer to
\* its return: no step of any command, of the recorder or of another program
\* sets it back, and every step of its own is one of at most MAX_FILES + 7.
\* With calls that keep being scheduled, and guards that are up only while
\* their command is in flight (GuardsExclusive), GuardsComeDown follows
\* (inference_commands.rs, seal_commands.rs).
THEOREM CallsAreFinite == Spec => [][~Crash => CallsOnlyAdvance]_vars
  <1> DEFINE Inv == Typed /\ GuardsAreExclusive /\ EvidenceInv /\ SeenBounded
  <1>1. Init => Inv
    BY InitTyped, InitGuards, InitEvidence, InitSeen
  <1>2. Inv /\ [Next]_vars => Inv'
    BY StepTyped, StepGuards, StepEvidence, StepSeen
  <1>3. Inv /\ Inv' /\ [Next]_vars => [~Crash => CallsOnlyAdvance]_vars
    <2> SUFFICES ASSUME Inv, Inv', [Next]_vars, ~Crash
                 PROVE  CallsOnlyAdvance
      OBVIOUS
    <2>1. ASSUME NEW c \in InferCalls, InferenceStep(c)
          PROVE  CountsDown(InferenceLeft(c), InferenceLeft(c)', MaxFiles + 7)
      <3>1. InferenceLeft(c) \in 0..MaxFiles + 7
        BY InferenceBounded
      <3>2. InferenceLeft(c)' \in 0..MaxFiles + 7
        <4>1. (InferenceLeft(c) \in 0..MaxFiles + 7)'
          BY InferenceBounded, PTL
        <4> QED
          BY <4>1
      <3>3. InferenceLeft(c)' < InferenceLeft(c)
        BY <2>1, InferenceCountsDown
      <3> QED
        BY <3>1, <3>2, <3>3, BoundsAssumption DEF CountsDown
    <2>2. ASSUME NEW c \in SealCalls, SealStep(c)
          PROVE  CountsDown(SealLeft(c), SealLeft(c)', MaxFiles + 6)
      <3>1. SealsMatchTheirPins /\ SealsMatchTheirPins'
        BY DEF EvidenceInv
      <3>2. SealLeft(c) \in 0..MaxFiles + 6
        BY <3>1, SealBounded
      <3>3. SealLeft(c)' \in 0..MaxFiles + 6
        <4>1. (SealLeft(c) \in 0..MaxFiles + 6)'
          BY <3>1, SealBounded, PTL
        <4> QED
          BY <4>1
      <3>4. SealLeft(c)' < SealLeft(c)
        BY <2>2, <3>1, SealCountsDown
      <3> QED
        BY <3>2, <3>3, <3>4, BoundsAssumption DEF CountsDown
    <2> QED
      BY <2>1, <2>2, OthersLeaveCalls
      DEF CallsOnlyAdvance, BeginInference, BeginSeal
  <1> QED
    BY <1>1, <1>2, <1>3, PTL DEF Spec

-----------------------------------------------------------------------------
(* The model a bundle names, while the sidecar keeps serving one model.    *)

OneModelAnswers ==
  /\ \A c \in InferCalls : HasHeard(c) => liveModel \in infer[c].models
  /\ \A n \in 1..MaxRuns : runs[n] # NoRun => liveModel \in runs[n].models
  /\ \A c \in SealCalls : HasModel(c) => seal[c].model = liveModel
  /\ \A p \in BundlePath : IsSealed(p) => bundles[p].model = liveModel

LEMMA InitAnswers == Init => OneModelAnswers
  BY DEF Init, OneModelAnswers, HasHeard, HasModel, IsSealed, IdleInference,
         IdleSeal, NoBundle

\* From its first answer on, a run has one of the model being served.
LEMMA StepRunAnswers ==
  ASSUME Typed, OneModelAnswers, UNCHANGED liveModel,
         NEW c \in InferCalls, InferenceStep(c), HasHeard(c)'
  PROVE  liveModel \in infer'[c].models
  <1> USE DEF Typed, TypeOK, CallsTypeOK, InferenceCall, HasHeard
  <1>1. CASE \/ CommitPipeline(c) \/ InferenceFails(c)
             \/ TraceCutShort(c) \/ ReturnInference(c)
    BY <1>1, CallReset
  <1>2. CASE HashAudio(c)
    BY <1>2 DEF HashAudio
  <1>3. CASE HearAudio(c) \/ StructureIncident(c)
    BY <1>3 DEF HearAudio, StructureIncident
  <1>4. CASE AnalyzeImage(c)
    <2>1. PICK seen : infer' = [infer EXCEPT ![c].seen = seen,
                                             ![c].models = @ \cup {liveModel}]
      BY <1>4 DEF AnalyzeImage
    <2> QED
      BY <2>1
  <1>5. CASE CheckConsistency(c)
    BY <1>5 DEF CheckConsistency
  <1>6. CASE WriteTrace(c)
    BY <1>6 DEF WriteTrace, OneModelAnswers
  <1> QED
    BY <1>1, <1>2, <1>3, <1>4, <1>5, <1>6 DEF InferenceStep

\* A seal asks for the model once and keeps the answer.
LEMMA StepSealAnswers ==
  ASSUME Typed, OneModelAnswers, UNCHANGED liveModel,
         NEW c \in SealCalls, SealStep(c), HasModel(c)'
  PROVE  seal'[c].model = liveModel
  <1> USE DEF Typed, TypeOK, CallsTypeOK, SealCall, HasModel
  <1>1. CASE FinishArchive(c) \/ SealFails(c) \/ ReturnSeal(c)
    BY <1>1, SealReset
  <1>2. CASE ResolveFingerprint(c)
    BY <1>2 DEF ResolveFingerprint
  <1>3. CASE ReservePath(c)
    BY <1>3 DEF ReservePath, OneModelAnswers
  <1>4. CASE ReadAudio(c)
    BY <1>4 DEF ReadAudio, OneModelAnswers
  <1>5. CASE ReadImage(c)
    <2>1. PICK blobs : seal' = [seal EXCEPT ![c].blobs = blobs]
      BY <1>5 DEF ReadImage
    <2>2. HasModel(c)
      BY <1>5 DEF ReadImage
    <2> QED
      BY <2>1, <2>2 DEF OneModelAnswers
  <1>6. CASE CreateArchive(c)
    BY <1>6 DEF CreateArchive, OneModelAnswers
  <1> QED
    BY <1>1, <1>2, <1>3, <1>4, <1>5, <1>6 DEF SealStep

LEMMA StepAnswers ==
  ASSUME Typed, OneModelAnswers, [Next]_vars, UNCHANGED liveModel
  PROVE  OneModelAnswers'
  <1> USE DEF Typed, TypeOK
  <1>1. ASSUME NEW c \in InferCalls, HasHeard(c)'
        PROVE  liveModel \in infer'[c].models
    <2>1. CASE Crash
      BY <1>1, <2>1 DEF Crash, HasHeard, IdleInference
    <2>2. CASE infer'[c] = infer[c]
      BY <1>1, <2>2 DEF HasHeard, OneModelAnswers
    <2>3. CASE BeginInference(c)
      BY <1>1, <2>3, CallReset DEF CallsTypeOK, HasHeard
    <2> QED
      BY <1>1, <2>1, <2>2, <2>3, StepRunAnswers, OthersLeaveCalls
  <1>2. ASSUME NEW n \in 1..MaxRuns, runs'[n] # NoRun
        PROVE  liveModel \in runs'[n].models
    <2>1. CASE runs'[n] = runs[n]
      BY <1>2, <2>1 DEF OneModelAnswers
    <2>2. ASSUME NEW c \in InferCalls, CommitPipeline(c), runs'[n] # runs[n]
          PROVE  liveModel \in runs'[n].models
      <3>1. HasHeard(c) /\ runs'[n].models = infer[c].models
        BY <2>2 DEF CommitPipeline, HasHeard
      <3> QED
        BY <3>1 DEF OneModelAnswers
    <2> QED
      BY <2>1, <2>2, OnlyCommitsRecord
  <1>3. ASSUME NEW c \in SealCalls, HasModel(c)'
        PROVE  seal'[c].model = liveModel
    <2>1. CASE Crash
      BY <1>3, <2>1 DEF Crash, HasModel, IdleSeal
    <2>2. CASE seal'[c] = seal[c]
      BY <1>3, <2>2 DEF HasModel, OneModelAnswers
    <2>3. CASE BeginSeal(c)
      BY <1>3, <2>3, SealReset DEF CallsTypeOK, HasModel
    <2> QED
      BY <1>3, <2>1, <2>2, <2>3, StepSealAnswers, OthersLeaveCalls
  <1>4. ASSUME NEW p \in BundlePath, IsSealed(p)'
        PROVE  bundles'[p].model = liveModel
    <2>1. CASE IsSealed(p) /\ bundles'[p] = bundles[p]
      BY <2>1 DEF OneModelAnswers
    <2>2. ASSUME NEW c \in SealCalls, FinishArchive(c), p = seal[c].out
          PROVE  bundles'[p].model = liveModel
      <3>1. HasModel(c) /\ bundles'[p].model = seal[c].model
        BY <2>2 DEF FinishArchive, HasModel, DiskTypeOK
      <3> QED
        BY <3>1 DEF OneModelAnswers
    <2> QED
      BY <1>4, <2>1, <2>2, SealedBefore
  <1> QED
    BY <1>1, <1>2, <1>3, <1>4 DEF OneModelAnswers

\* As long as the sidecar serves one model, every complete bundle names a
\* model that answered the run that produced its report, whatever overlaps,
\* fails or is restarted: the counterexample of session_model needs a sidecar
\* that is restarted with another model, and nothing else brings one about
\* (manifest.rs; seal_commands.rs, seal_inner).
THEOREM OneModelIsNamed ==
  Spec /\ [][UNCHANGED liveModel]_vars => []SealedModelProducedReport
  <1> DEFINE Inv == /\ Typed /\ GuardsAreExclusive /\ EvidenceInv
                    /\ OneModelAnswers
  <1>1. Init => Inv
    BY InitTyped, InitGuards, InitEvidence, InitAnswers
  <1>2. Inv /\ [Next]_vars /\ [UNCHANGED liveModel]_vars => Inv'
    <2>1. ASSUME UNCHANGED vars
          PROVE  UNCHANGED liveModel
      BY <2>1 DEF vars, world
    <2> QED
      BY <2>1, StepTyped, StepGuards, StepEvidence, StepAnswers
  <1>3. Inv => SealedModelProducedReport
    BY DEF EvidenceInv, SealedIsCommitted, Committed, OneModelAnswers,
           SealedModelProducedReport
  <1> QED
    BY <1>1, <1>2, <1>3, PTL DEF Spec
=============================================================================
