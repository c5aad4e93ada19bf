------------------------ MODULE CaptureSessionTypes ------------------------
(***************************************************************************)
(* Type correctness of CaptureSession for every value of its constants.    *)
(* TypeOK alone is not inductive: that a write at infer[c].audio stays in  *)
(* the type of wav needs the call to hold a second by then, which is       *)
(* CallsHoldValues.  Typed, the two together, is.                          *)
(***************************************************************************)
EXTENDS CaptureSessionInvariant, TLAPS

-----------------------------------------------------------------------------
(* Values.                                                                 *)

LEMMA IdleRecords ==
  /\ IdleInference \in InferenceCall
  /\ [IdleInference EXCEPT !.pc = "return"] \in InferenceCall
  /\ IdleSeal \in SealCall
  /\ [IdleSeal EXCEPT !.pc = "return"] \in SealCall
  <1>1. NoImages \in Selection
    BY BoundsAssumption DEF Selection, NoImages
  <1>2. IdleInference \in InferenceCall
    BY <1>1, BoundsAssumption
    DEF IdleInference, InferenceCall, InferencePc, SecondOrNone
  <1>3. [IdleInference EXCEPT !.pc = "return"] \in InferenceCall
    BY <1>2 DEF InferenceCall, InferencePc
  <1>4. IdleSeal \in SealCall
    BY <1>1, BoundsAssumption DEF IdleSeal, SealCall, SealPc, SecondOrNone
  <1>5. [IdleSeal EXCEPT !.pc = "return"] \in SealCall
    BY <1>4 DEF SealCall, SealPc
  <1> QED
    BY <1>2, <1>3, <1>4, <1>5

\* What a reasoning file can hold.
LEMMA TraceType ==
  /\ NoTrace \in Trace
  /\ \A n \in 0..MaxRuns : Whole(n) \in Trace /\ Torn(n) \in Trace
  BY BoundsAssumption DEF Trace, NoTrace, Whole, Torn

\* A call that ended in a commit has a snapshot to commit.
LEMMA SnapshotType ==
  ASSUME NEW call \in InferenceCall,
         call.read \in Versions, call.run \in 1..MaxRuns
  PROVE  SnapshotOf(call) \in Snapshot
  <1>1. call.seen \in Seq(ImageData)
    BY DEF InferenceCall
  <1>2. [i \in 1..Len(call.seen) |-> Sha256(call.seen[i])]
          \in Seq(Digest(ImageData))
    BY <1>1 DEF Digest
  <1>3. Sha256(call.read) \in Digest(Versions)
    BY DEF Digest
  <1> QED
    BY <1>2, <1>3 DEF SnapshotOf, Snapshot

\* The recorder's write keeps wav and its supply of versions in their types.
LEMMA WriteWavType ==
  ASSUME NEW s \in Seconds, WriteWav(s),
         wav \in [Seconds -> 0..MaxBytes], nextBytes \in 1..(MaxBytes + 1)
  PROVE  /\ wav' \in [Seconds -> 0..MaxBytes]
         /\ nextBytes' \in 1..(MaxBytes + 1)
         /\ nextBytes' >= nextBytes
  BY BoundsAssumption DEF WriteWav

\* A staged file that exists holds the bytes of an image.
LEMMA StagedImage ==
  ASSUME DiskTypeOK, NEW d, NEW i, HasImage(d, i)
  PROVE  staged[d][i] \in ImageData
  <1>1. staged[d] \in Seq(ImageData) \cup {None} /\ staged[d] # None
    BY DEF DiskTypeOK, HasImage
  <1>2. staged[d] \in Seq(ImageData) /\ i \in 1..Len(staged[d])
    BY <1>1 DEF HasImage
  <1> QED
    BY <1>2

\* What a step of run_inference_cmd leaves alone.
LEMMA InferenceLeaves ==
  ASSUME NEW c \in InferCalls, BeginInference(c) \/ InferenceStep(c)
  PROVE  /\ UNCHANGED <<seal, pick, discard, wav, staged, bundles, world,
                         nextBytes, nextPick, nextSeal>>
         /\ UNCHANGED nextRun \/ CheckConsistency(c)
  <1>1. CASE BeginInference(c)
    BY <1>1 DEF BeginInference, disk, fresh
  <1>2. CASE HashAudio(c) \/ HearAudio(c) \/ StructureIncident(c)
    BY <1>2 DEF HashAudio, HearAudio, StructureIncident, disk, fresh
  <1>3. CASE AnalyzeImage(c)
    BY <1>3 DEF AnalyzeImage, disk, fresh
  <1>4. CASE CheckConsistency(c)
    BY <1>4 DEF CheckConsistency, disk
  <1>5. CASE WriteTrace(c) \/ CommitPipeline(c)
    BY <1>5 DEF WriteTrace, CommitPipeline, disk, fresh
  <1>6. CASE InferenceFails(c) \/ TraceCutShort(c) \/ ReturnInference(c)
    BY <1>6 DEF InferenceFails, TraceCutShort, ReturnInference, disk, fresh
  <1> QED
    BY <1>1, <1>2, <1>3, <1>4, <1>5, <1>6 DEF InferenceStep

\* What a step of seal_bundle_cmd leaves alone.
LEMMA SealLeaves ==
  ASSUME NEW c \in SealCalls, BeginSeal(c) \/ SealStep(c)
  PROVE  /\ UNCHANGED <<infer, pick, discard, wav, staged, reasoning, world,
                         nextBytes, nextPick, nextRun, runs>>
         /\ UNCHANGED nextSeal \/ ReservePath(c)
         /\ \/ UNCHANGED bundles
            \/ ReservePath(c) \/ CreateArchive(c) \/ FinishArchive(c)
  <1>1. CASE BeginSeal(c) \/ ResolveFingerprint(c)
    BY <1>1 DEF BeginSeal, ResolveFingerprint, disk, fresh
  <1>2. CASE ReservePath(c)
    BY <1>2 DEF ReservePath
  <1>3. CASE ReadAudio(c) \/ ReadImage(c)
    BY <1>3 DEF ReadAudio, ReadImage, disk, fresh
  <1>4. CASE CreateArchive(c) \/ FinishArchive(c)
    BY <1>4 DEF CreateArchive, FinishArchive, fresh
  <1>5. CASE SealFails(c) \/ ReturnSeal(c)
    BY <1>5 DEF SealFails, ReturnSeal, disk, fresh
  <1> QED
    BY <1>1, <1>2, <1>3, <1>4, <1>5 DEF SealStep

\* A call that begins or ends starts its record over.
LEMMA CallReset ==
  ASSUME infer \in [InferCalls -> InferenceCall], NEW c \in InferCalls,
         \/ BeginInference(c) \/ CommitPipeline(c)
         \/ InferenceFails(c) \/ TraceCutShort(c) \/ ReturnInference(c)
  PROVE  /\ infer'[c].pc \in {"idle", "transcribe", "return"}
         /\ \A d \in InferCalls \ {c} : infer'[d] = infer[d]
  <1>1. CASE BeginInference(c)
    BY <1>1 DEF BeginInference, IdleInference
  <1>2. CASE CommitPipeline(c) \/ InferenceFails(c) \/ TraceCutShort(c)
    <2>1. infer' = [infer EXCEPT ![c] = [IdleInference EXCEPT !.pc = "return"]]
      BY <1>2 DEF CommitPipeline, InferenceFails, TraceCutShort
    <2> QED
      BY <2>1 DEF IdleInference
  <1>3. CASE ReturnInference(c)
    BY <1>3 DEF ReturnInference, IdleInference
  <1> QED
    BY <1>1, <1>2, <1>3

LEMMA SealReset ==
  ASSUME seal \in [SealCalls -> SealCall], NEW c \in SealCalls,
         BeginSeal(c) \/ FinishArchive(c) \/ SealFails(c) \/ ReturnSeal(c)
  PROVE  /\ seal'[c].pc \in {"idle", "fingerprint", "return"}
         /\ \A d \in SealCalls \ {c} : seal'[d] = seal[d]
  <1>1. CASE BeginSeal(c)
    BY <1>1 DEF BeginSeal, IdleSeal
  <1>2. CASE FinishArchive(c) \/ SealFails(c)
    <2>1. seal' = [seal EXCEPT ![c] = [IdleSeal EXCEPT !.pc = "return"]]
      BY <1>2 DEF FinishArchive, SealFails
    <2> QED
      BY <2>1 DEF IdleSeal
  <1>3. CASE ReturnSeal(c)
    BY <1>3 DEF ReturnSeal, IdleSeal
  <1> QED
    BY <1>1, <1>2, <1>3

LEMMA FreePathType ==
  ASSUME now \in Seconds, nextSeal \in 1..MaxSeals
  PROVE  FreePath \in BundlePath
  BY BoundsAssumption DEF FreePath, BundlePath

LEMMA InitTyped == Init => Typed
  <1> SUFFICES ASSUME Init PROVE Typed
    OBVIOUS
  <1>1. StateTypeOK
    <2>1. runningInference \in BOOLEAN /\ runningSeal \in BOOLEAN
      BY DEF Init
    <2> QED
      BY <2>1, BoundsAssumption
      DEF Init, StateTypeOK, SecondOrNone, Selection, NoImages
  <1>2. CallsTypeOK
    BY BoundsAssumption, IdleRecords DEF Init, CallsTypeOK, IdlePick
  <1>3. DiskTypeOK
    BY BoundsAssumption, TraceType DEF Init, DiskTypeOK
  <1>4. FreshTypeOK
    BY BoundsAssumption DEF Init, FreshTypeOK
  <1>5. CallsHoldValues
    BY DEF Init, CallsHoldValues, IdleInference, IdleSeal, InferenceOpen,
           HasRead, HasHeard, HasRun, SealOpen, HasModel, HasPath, HasAudio
  <1> QED
    BY <1>1, <1>2, <1>3, <1>4, <1>5, BoundsAssumption DEF Init, TypeOK, Typed

-----------------------------------------------------------------------------
(* Type correctness, one part of Typed at a time.                          *)

LEMMA StateTyped == Typed /\ [Next]_vars => StateTypeOK'
  <1> SUFFICES ASSUME Typed, [Next]_vars PROVE StateTypeOK'
    OBVIOUS
  <1> USE BoundsAssumption DEF Typed, TypeOK, StateTypeOK, SecondOrNone
  <1>1. CASE Record
    BY <1>1 DEF Record, StartRecording, CaptureSamples, StopRecording, state
  <1>2. CASE Pick
    <2>1. CASE CommitPick
      BY <2>1 DEF CommitPick, CallsTypeOK, Selection
    <2> QED
      BY <1>2, <2>1 DEF Pick, OpenDialog, CreateStagingDir, StageImage,
                        LeavePick, state
  <1>3. ASSUME NEW c \in InferCalls, BeginInference(c) \/ InferenceStep(c)
        PROVE  StateTypeOK'
    <2>1. CASE BeginInference(c)
      BY <2>1 DEF BeginInference
    <2>2. CASE CommitPipeline(c)
      <3>1. infer[c] \in InferenceCall
        BY DEF CallsTypeOK
      <3>2. lastPipeline' \in Snapshot /\ reasoningPath' \in SecondOrNone
        BY <2>2, <3>1, SnapshotType
        DEF CommitPipeline, CallsHoldValues, HasRead, HasRun, TraceFile
      <3> QED
        BY <2>2, <3>2 DEF CommitPipeline
    <2>3. CASE ReturnInference(c)
      BY <2>3 DEF ReturnInference
    <2> QED
      BY <1>3, <2>1, <2>2, <2>3
      DEF InferenceStep, HashAudio, HearAudio, StructureIncident,
          AnalyzeImage, CheckConsistency, WriteTrace, InferenceFails,
          TraceCutShort, state
  <1>4. ASSUME NEW c \in SealCalls, BeginSeal(c) \/ SealStep(c)
        PROVE  StateTypeOK'
    BY <1>4 DEF BeginSeal, SealStep, ResolveFingerprint, ReservePath,
                ReadAudio, ReadImage, CreateArchive, FinishArchive,
                SealFails, ReturnSeal, state
  <1>5. CASE Discard
    BY <1>5 DEF Discard, BeginDiscard, RemoveRecordings, RemoveReasoning,
                RemoveStaged, DiscardFails, state, Selection, NoImages
  <1>6. CASE Crash
    <2>1. runningInference' \in BOOLEAN /\ runningSeal' \in BOOLEAN
      BY <1>6 DEF Crash
    <2> QED
      BY <1>6, <2>1 DEF Crash, Selection, NoImages
  <1>7. CASE ClockMoves \/ SidecarSwaps \/ ExternalWrite \/ UNCHANGED vars
    BY <1>7 DEF ClockMoves, SidecarSwaps, ExternalWrite, vars, state
  <1> QED
    BY <1>1, <1>2, <1>3, <1>4, <1>5, <1>6, <1>7 DEF Next

\* A supply moves on by one value at a time and stops at its bound.
LEMMA SuppliesMove ==
  ASSUME Typed, [Next]_vars
  PROVE  /\ \/ UNCHANGED nextBytes
            \/ nextBytes <= MaxBytes /\ nextBytes' = nextBytes + 1
         /\ \/ UNCHANGED nextPick
            \/ nextPick <= MaxPicks /\ nextPick' = nextPick + 1
         /\ \/ UNCHANGED nextRun
            \/ nextRun <= MaxRuns /\ nextRun' = nextRun + 1
         /\ \/ UNCHANGED nextSeal
            \/ nextSeal <= MaxSeals /\ nextSeal' = nextSeal + 1
  <1>1. CASE Record
    BY <1>1 DEF Record, StartRecording, CaptureSamples, StopRecording, WriteWav
  <1>2. CASE Pick
    <2>1. CASE CreateStagingDir
      BY <2>1 DEF CreateStagingDir, Typed, TypeOK, CallsTypeOK
    <2>2. CASE ~CreateStagingDir
      <3>1. UNCHANGED fresh
        BY <1>2, <2>2 DEF Pick, OpenDialog, StageImage, CommitPick, LeavePick
      <3> QED
        BY <3>1 DEF fresh
    <2> QED
      BY <2>1, <2>2
  <1>3. ASSUME NEW c \in InferCalls, BeginInference(c) \/ InferenceStep(c)
        PROVE  /\ UNCHANGED <<nextBytes, nextPick, nextSeal>>
               /\ \/ UNCHANGED nextRun
                  \/ nextRun <= MaxRuns /\ nextRun' = nextRun + 1
    BY <1>3, InferenceLeaves DEF CheckConsistency
  <1>4. ASSUME NEW c \in SealCalls, BeginSeal(c) \/ SealStep(c)
        PROVE  /\ UNCHANGED <<nextBytes, nextPick, nextRun>>
               /\ \/ UNCHANGED nextSeal
                  \/ nextSeal <= MaxSeals /\ nextSeal' = nextSeal + 1
    BY <1>4, SealLeaves DEF ReservePath
  <1>5. CASE Discard \/ ClockMoves \/ SidecarSwaps \/ ExternalWrite \/ Crash
             \/ UNCHANGED vars
    <2>1. UNCHANGED fresh
      BY <1>5 DEF Discard, BeginDiscard, RemoveRecordings, RemoveReasoning,
                  RemoveStaged, DiscardFails, ClockMoves, SidecarSwaps,
                  ExternalWrite, Crash, vars
    <2> QED
      BY <2>1 DEF fresh
  <1> QED
    BY <1>1, <1>2, <1>3, <1>4, <1>5 DEF Next

LEMMA FreshTyped ==
  Typed /\ [Next]_vars => /\ FreshTypeOK'
                          /\ nextBytes' >= nextBytes
                          /\ nextSeal' >= nextSeal
                          /\ nextRun' >= nextRun
  <1> SUFFICES ASSUME Typed, [Next]_vars
               PROVE  /\ FreshTypeOK'
                      /\ nextBytes' >= nextBytes
                      /\ nextSeal' >= nextSeal
                      /\ nextRun' >= nextRun
    OBVIOUS
  <1>1. FreshTypeOK
    BY DEF Typed, TypeOK
  <1>2. /\ nextBytes' \in 1..(MaxBytes + 1) /\ nextBytes' >= nextBytes
        /\ nextPick' \in 1..(MaxPicks + 1)
    BY <1>1, SuppliesMove, BoundsAssumption DEF FreshTypeOK
  <1>3. /\ nextRun' \in 1..(MaxRuns + 1) /\ nextRun' >= nextRun
        /\ nextSeal' \in 1..(MaxSeals + 1) /\ nextSeal' >= nextSeal
    BY <1>1, SuppliesMove, BoundsAssumption DEF FreshTypeOK
  <1> QED
    BY <1>2, <1>3 DEF FreshTypeOK

LEMMA DiskTyped == Typed /\ [Next]_vars => DiskTypeOK'
  <1> SUFFICES ASSUME Typed, [Next]_vars PROVE DiskTypeOK'
    OBVIOUS
  <1> USE BoundsAssumption DEF Typed, TypeOK, DiskTypeOK
  <1>1. CASE Record
    <2>1. \A s \in Seconds : WriteWav(s) => wav' \in [Seconds -> 0..MaxBytes]
      BY WriteWavType DEF FreshTypeOK
    <2>2. recording # None => recording \in Seconds
      BY DEF StateTypeOK, SecondOrNone
    <2> QED
      BY <1>1, <2>1, <2>2
      DEF Record, StartRecording, CaptureSamples, StopRecording
  <1>2. CASE Pick
    <2>1. CASE CreateStagingDir
      BY <2>1 DEF CreateStagingDir, CallsTypeOK, FreshTypeOK
    <2>2. CASE StageImage
      <3>1. staged[pick.dir] \in Seq(ImageData)
        BY <2>2 DEF StageImage, CallsTypeOK
      <3> QED
        BY <2>2, <3>1 DEF StageImage, CallsTypeOK
    <2> QED
      BY <1>2, <2>1, <2>2 DEF Pick, OpenDialog, CommitPick, LeavePick, disk
  <1>3. ASSUME NEW c \in InferCalls, BeginInference(c) \/ InferenceStep(c)
        PROVE  DiskTypeOK'
    <2>1. CASE WriteTrace(c) \/ TraceCutShort(c)
      <3>1. infer[c].run \in 0..MaxRuns
        BY <2>1 DEF CallsTypeOK, InferenceCall
      <3>2. /\ reasoning' \in [Seconds -> Trace]
            /\ UNCHANGED <<wav, staged, bundles>>
        BY <2>1, <3>1, TraceType DEF WriteTrace, TraceCutShort
      <3> QED
        BY <3>2
    <2> QED
      BY <1>3, <2>1
      DEF BeginInference, InferenceStep, HashAudio, HearAudio,
          StructureIncident, AnalyzeImage, CheckConsistency,
          CommitPipeline, InferenceFails, ReturnInference, disk
  <1>4. ASSUME NEW c \in SealCalls, BeginSeal(c) \/ SealStep(c)
        PROVE  DiskTypeOK'
    <2>1. CASE FinishArchive(c)
      <3>1. [kind   |-> "sealed",
             audio  |-> seal[c].blob,
             images |-> seal[c].blobs,
             trace  |-> seal[c].snap.trace,
             model  |-> seal[c].model] \in Sealed
        BY <2>1 DEF FinishArchive, CallsHoldValues, SealOpen, HasModel,
                    HasAudio, Sealed, Snapshot, CallsTypeOK, SealCall
      <3> QED
        BY <2>1, <3>1 DEF FinishArchive
    <2> QED
      BY <1>4, <2>1
      DEF BeginSeal, SealStep, ResolveFingerprint, ReservePath, ReadAudio,
          ReadImage, CreateArchive, SealFails, ReturnSeal, disk
  <1>5. CASE Discard
    BY <1>5, TraceType
    DEF Discard, BeginDiscard, RemoveRecordings, RemoveReasoning,
        RemoveStaged, DiscardFails, disk
  <1>6. CASE ExternalWrite
    <2>1. ASSUME NEW d \in 1..MaxPicks, NEW bytes \in ImageData,
                 NEW i \in 1..MaxFiles, HasImage(d, i)
          PROVE  [staged EXCEPT ![d] = [@ EXCEPT ![i] = bytes]]
                   \in [1..MaxPicks -> Seq(ImageData) \cup {None}]
      <3>1. staged[d] \in Seq(ImageData) /\ i \in 1..Len(staged[d])
        BY <2>1 DEF HasImage
      <3>2. [staged[d] EXCEPT ![i] = bytes] \in Seq(ImageData)
        BY <3>1
      <3> QED
        BY <3>2
    <2>2. wav' \in [Seconds -> 0..MaxBytes]
      <3>1. wav \in [Seconds -> 0..MaxBytes]
        OBVIOUS
      <3>2. \/ UNCHANGED wav
            \/ \E s \in Seconds, bytes \in 1..(nextBytes - 1) :
                 /\ bytes <= MaxBytes
                 /\ wav' = [wav EXCEPT ![s] = bytes]
        BY <1>6 DEF ExternalWrite
      <3> HIDE DEF Typed, TypeOK, DiskTypeOK
      <3>3. nextBytes \in Nat
        BY DEF Typed, TypeOK, FreshTypeOK
      <3> QED
        BY <3>1, <3>2, <3>3
    <2>3. staged' \in [1..MaxPicks -> Seq(ImageData) \cup {None}]
      <3>1. CASE UNCHANGED staged
        BY <3>1
      <3>2. CASE ~ UNCHANGED staged
        <4>1. PICK d \in 1..MaxPicks, bytes \in ImageData,
                   i \in 1..MaxFiles :
                /\ HasImage(d, i)
                /\ staged' = [staged EXCEPT ![d] = [@ EXCEPT ![i] = bytes]]
          BY <1>6, <3>2 DEF ExternalWrite
        <4> QED
          BY <2>1, <4>1
      <3> QED
        BY <3>1, <3>2
    <2> QED
      BY <1>6, <2>2, <2>3 DEF ExternalWrite
  <1>7. CASE ClockMoves \/ SidecarSwaps \/ Crash \/ UNCHANGED vars
    BY <1>7 DEF ClockMoves, SidecarSwaps, Crash, vars, disk
  <1> QED
    BY <1>1, <1>2, <1>3, <1>4, <1>5, <1>6, <1>7 DEF Next

LEMMA CallsTyped == Typed /\ [Next]_vars => CallsTypeOK'
  <1> SUFFICES ASSUME Typed, [Next]_vars PROVE CallsTypeOK'
    OBVIOUS
  <1> USE BoundsAssumption DEF Typed, TypeOK, CallsTypeOK
  <1>1. CASE Record \/ ClockMoves \/ SidecarSwaps \/ ExternalWrite
             \/ UNCHANGED vars
    BY <1>1 DEF Record, StartRecording, CaptureSamples, StopRecording,
                ClockMoves, SidecarSwaps, ExternalWrite, vars, calls, fresh
  <1>2. CASE Pick
    <2>1. CASE OpenDialog \/ CommitPick \/ LeavePick
      BY <2>1 DEF OpenDialog, CommitPick, LeavePick, IdlePick, fresh
    <2>2. CASE CreateStagingDir
      BY <2>2 DEF CreateStagingDir, FreshTypeOK
    <2>3. CASE StageImage
      <3>1. pick.count + 1 \in 0..MaxFiles
        BY <2>3 DEF StageImage, RoomFor
      <3> QED
        BY <2>3, <3>1 DEF StageImage, fresh
    <2> QED
      BY <1>2, <2>1, <2>2, <2>3 DEF Pick
  <1>3. ASSUME NEW c \in InferCalls, BeginInference(c) \/ InferenceStep(c)
        PROVE  CallsTypeOK'
    <2>1. infer[c] \in InferenceCall
      OBVIOUS
    <2>2. UNCHANGED <<seal, pick, discard, nextPick>>
      BY <1>3 DEF BeginInference, InferenceStep, HashAudio, HearAudio,
                  StructureIncident, AnalyzeImage, CheckConsistency,
                  WriteTrace, CommitPipeline, InferenceFails, TraceCutShort,
                  ReturnInference, fresh
    <2>3. \E r \in InferenceCall : infer' = [infer EXCEPT ![c] = r]
      <3>1. CASE BeginInference(c)
        <4> DEFINE r == [IdleInference EXCEPT !.pc = "transcribe",
                                              !.audio = capturedAudio,
                                              !.images = pickedImages]
        <4>1. r \in InferenceCall
          BY IdleRecords DEF StateTypeOK, InferenceCall, InferencePc
        <4> QED
          BY <3>1, <4>1 DEF BeginInference
      <3>2. CASE HashAudio(c)
        <4> DEFINE r == [infer[c] EXCEPT !.pc = "hear",
                                         !.read = wav[infer[c].audio]]
        <4>1. wav[infer[c].audio] \in 0..MaxBytes
          BY <3>2 DEF HashAudio, CallsHoldValues, InferenceOpen, DiskTypeOK
        <4>2. r \in InferenceCall
          BY <2>1, <4>1 DEF InferenceCall, InferencePc
        <4>3. infer' = [infer EXCEPT ![c] = r]
          BY <3>2 DEF HashAudio
        <4> QED
          BY <4>2, <4>3
      <3>3. CASE HearAudio(c)
        <4> DEFINE r == [infer[c] EXCEPT !.pc = "structure",
                                         !.heard = wav[infer[c].audio],
                                         !.models = @ \cup {liveModel}]
        <4>1. wav[infer[c].audio] \in 0..MaxBytes
          BY <3>3 DEF HearAudio, CallsHoldValues, InferenceOpen, DiskTypeOK
        <4>2. r \in InferenceCall
          BY <2>1, <4>1 DEF InferenceCall, InferencePc
        <4>3. infer' = [infer EXCEPT ![c] = r]
          BY <3>3 DEF HearAudio
        <4> QED
          BY <4>2, <4>3
      <3>4. CASE StructureIncident(c)
        <4> DEFINE r == [infer[c] EXCEPT !.pc = "images",
                                         !.models = @ \cup {liveModel}]
        <4>1. r \in InferenceCall
          BY <2>1 DEF InferenceCall, InferencePc
        <4>2. infer' = [infer EXCEPT ![c] = r]
          BY <3>4 DEF StructureIncident
        <4> QED
          BY <4>1, <4>2
      <3>5. CASE AnalyzeImage(c)
        <4> DEFINE bytes == staged[infer[c].images.dir][Len(infer[c].seen) + 1]
                   r == [infer[c] EXCEPT !.seen = Append(@, bytes),
                                         !.models = @ \cup {liveModel}]
        <4>1. bytes \in ImageData
          BY <3>5, StagedImage DEF AnalyzeImage
        <4>2. Append(infer[c].seen, bytes) \in Seq(ImageData)
          BY <2>1, <4>1 DEF InferenceCall
        <4>3. r \in InferenceCall
          BY <2>1, <4>2 DEF InferenceCall, InferencePc
        <4>4. infer' = [infer EXCEPT ![c] = r]
          BY <3>5 DEF AnalyzeImage
        <4> QED
          BY <4>3, <4>4
      <3>6. CASE CheckConsistency(c)
        <4> DEFINE r == [infer[c] EXCEPT !.pc = "trace",
                                         !.models = @ \cup {liveModel},
                                         !.run = nextRun]
        <4>1. nextRun \in 0..MaxRuns
          BY <3>6 DEF CheckConsistency, FreshTypeOK
        <4>2. r \in InferenceCall
          BY <2>1, <4>1 DEF InferenceCall, InferencePc
        <4>3. infer' = [infer EXCEPT ![c] = r]
          BY <3>6 DEF CheckConsistency
        <4> QED
          BY <4>2, <4>3
      <3>7. CASE WriteTrace(c)
        <4> DEFINE r == [infer[c] EXCEPT !.pc = "commit", !.file = now]
        <4>1. r \in InferenceCall
          BY <2>1 DEF InferenceCall, InferencePc, SecondOrNone
        <4>2. infer' = [infer EXCEPT ![c] = r]
          BY <3>7 DEF WriteTrace
        <4> QED
          BY <4>1, <4>2
      <3>8. CASE \/ CommitPipeline(c) \/ InferenceFails(c)
                 \/ TraceCutShort(c) \/ ReturnInference(c)
        BY <3>8, IdleRecords DEF CommitPipeline, InferenceFails, TraceCutShort,
                                 ReturnInference
      <3> QED
        BY <1>3, <3>1, <3>2, <3>3, <3>4, <3>5, <3>6, <3>7, <3>8
        DEF InferenceStep
    <2> QED
      BY <2>2, <2>3
  <1>4. ASSUME NEW c \in SealCalls, BeginSeal(c) \/ SealStep(c)
        PROVE  CallsTypeOK'
    <2>1. seal[c] \in SealCall
      OBVIOUS
    <2>2. UNCHANGED <<infer, pick, discard, nextPick>>
      BY <1>4 DEF BeginSeal, SealStep, ResolveFingerprint, ReservePath,
                  ReadAudio, ReadImage, CreateArchive, FinishArchive,
                  SealFails, ReturnSeal, fresh
    <2>3. \E r \in SealCall : seal' = [seal EXCEPT ![c] = r]
      <3>1. CASE BeginSeal(c)
        <4> DEFINE r == [IdleSeal EXCEPT !.pc = "fingerprint",
                                         !.audio = capturedAudio,
                                         !.images = pickedImages,
                                         !.snap = lastPipeline]
        <4>1. r \in SealCall
          BY IdleRecords DEF StateTypeOK, SealCall, SealPc
        <4> QED
          BY <3>1, <4>1 DEF BeginSeal
      <3>2. CASE ResolveFingerprint(c)
        <4> DEFINE r == [seal[c] EXCEPT !.pc = "reserve", !.model = liveModel]
        <4>1. r \in SealCall
          BY <2>1 DEF SealCall, SealPc
        <4>2. seal' = [seal EXCEPT ![c] = r]
          BY <3>2 DEF ResolveFingerprint
        <4> QED
          BY <4>1, <4>2
      <3>3. CASE ReservePath(c)
        <4> DEFINE r == [seal[c] EXCEPT !.pc = "audio", !.out = FreePath]
        <4>1. FreePath \in BundlePath
          <5>1. nextSeal \in 1..MaxSeals
            BY <3>3 DEF ReservePath, FreshTypeOK
          <5> QED
            BY <5>1, FreePathType
        <4>2. r \in SealCall
          BY <2>1, <4>1 DEF SealCall, SealPc
        <4>3. seal' = [seal EXCEPT ![c] = r]
          BY <3>3 DEF ReservePath
        <4> QED
          BY <4>2, <4>3
      <3>4. CASE ReadAudio(c)
        <4> DEFINE r == [seal[c] EXCEPT !.pc = "images",
                                        !.blob = wav[seal[c].audio]]
        <4>1. wav[seal[c].audio] \in 0..MaxBytes
          BY <3>4 DEF ReadAudio, CallsHoldValues, SealOpen, DiskTypeOK
        <4>2. r \in SealCall
          BY <2>1, <4>1 DEF SealCall, SealPc
        <4>3. seal' = [seal EXCEPT ![c] = r]
          BY <3>4 DEF ReadAudio
        <4> QED
          BY <4>2, <4>3
      <3>5. CASE ReadImage(c)
        <4> DEFINE bytes == staged[seal[c].images.dir][Len(seal[c].blobs) + 1]
                   r == [seal[c] EXCEPT !.blobs = Append(@, bytes)]
        <4>1. bytes \in ImageData
          BY <3>5, StagedImage DEF ReadImage
        <4>2. Append(seal[c].blobs, bytes) \in Seq(ImageData)
          BY <2>1, <4>1 DEF SealCall
        <4>3. r \in SealCall
          BY <2>1, <4>2 DEF SealCall, SealPc
        <4>4. seal' = [seal EXCEPT ![c] = r]
          BY <3>5 DEF ReadImage
        <4> QED
          BY <4>3, <4>4
      <3>6. CASE CreateArchive(c)
        <4> DEFINE r == [seal[c] EXCEPT !.pc = "write"]
        <4>1. r \in SealCall
          BY <2>1 DEF SealCall, SealPc
        <4>2. seal' = [seal EXCEPT ![c] = r]
          BY <3>6 DEF CreateArchive
        <4> QED
          BY <4>1, <4>2
      <3>7. CASE FinishArchive(c) \/ SealFails(c) \/ ReturnSeal(c)
        BY <3>7, IdleRecords DEF FinishArchive, SealFails, ReturnSeal
      <3> QED
        BY <1>4, <3>1, <3>2, <3>3, <3>4, <3>5, <3>6, <3>7 DEF SealStep
    <2> QED
      BY <2>2, <2>3
  <1>5. CASE Discard
    BY <1>5 DEF Discard, BeginDiscard, RemoveRecordings, RemoveReasoning,
                RemoveStaged, DiscardFails, disk, fresh
  <1>6. CASE Crash
    BY <1>6, IdleRecords DEF Crash, IdlePick, fresh
  <1> QED
    BY <1>1, <1>2, <1>3, <1>4, <1>5, <1>6 DEF Next

LEMMA ValuesHeld == Typed /\ [Next]_vars => CallsHoldValues'
  <1> SUFFICES ASSUME Typed, [Next]_vars PROVE CallsHoldValues'
    OBVIOUS
  <1> USE BoundsAssumption, NoneAssumption
  <1>1. CASE UNCHANGED <<infer, seal>>
    BY <1>1 DEF Typed, CallsHoldValues, InferenceOpen, HasRead, HasHeard,
                HasRun, SealOpen, HasModel, HasPath, HasAudio
  <1>2. ASSUME NEW c \in InferCalls, BeginInference(c) \/ InferenceStep(c)
        PROVE  CallsHoldValues'
    <2> USE DEF Typed, TypeOK, CallsTypeOK, CallsHoldValues, InferenceOpen,
                HasRead, HasHeard, HasRun
    <2>1. UNCHANGED seal
      BY <1>2, InferenceLeaves
    <2>2. \A d \in InferCalls :
            /\ InferenceOpen(d)' => infer'[d].audio \in Seconds
            /\ HasRead(d)' => infer'[d].read \in Versions
            /\ HasHeard(d)' => infer'[d].heard \in Versions
            /\ HasRun(d)' => infer'[d].run \in 1..MaxRuns
            /\ infer'[d].pc = "commit" => infer'[d].file \in Seconds
      <3>1. CASE BeginInference(c)
        BY <3>1 DEF BeginInference, MayInfer, StateTypeOK, SecondOrNone,
                    IdleInference, InferenceCall
      <3>2. CASE HashAudio(c)
        <4> DEFINE bytes == wav[infer[c].audio]
        <4>1. /\ infer[c].pc = "transcribe" /\ bytes # 0
              /\ infer' = [infer EXCEPT ![c].pc = "hear", ![c].read = bytes]
          BY <3>2 DEF HashAudio
        <4>2. infer[c].audio \in Seconds
          BY <4>1
        <4>3. bytes \in Versions
          BY <4>1, <4>2 DEF DiskTypeOK, Versions
        <4> HIDE DEF bytes
        <4> QED
          BY <4>1, <4>2, <4>3 DEF InferenceCall
      <3>3. CASE HearAudio(c)
        <4> DEFINE bytes == wav[infer[c].audio]
        <4>1. /\ infer[c].pc = "hear" /\ bytes # 0
              /\ infer' = [infer EXCEPT ![c].pc = "structure",
                                        ![c].heard = bytes,
                                        ![c].models = @ \cup {liveModel}]
          BY <3>3 DEF HearAudio
        <4>2. infer[c].audio \in Seconds /\ infer[c].read \in Versions
          BY <4>1
        <4>3. bytes \in Versions
          BY <4>1, <4>2 DEF DiskTypeOK, Versions
        <4> HIDE DEF bytes
        <4> QED
          BY <4>1, <4>2, <4>3 DEF InferenceCall
      <3>4. CASE StructureIncident(c)
        BY <3>4 DEF StructureIncident, InferenceCall
      <3>5. CASE AnalyzeImage(c)
        <4>1. PICK seen, models :
                infer' = [infer EXCEPT ![c].seen = seen, ![c].models = models]
          BY <3>5 DEF AnalyzeImage
        <4>2. infer[c].pc = "images"
          BY <3>5 DEF AnalyzeImage
        <4> QED
          BY <4>1, <4>2 DEF InferenceCall
      <3>6. CASE CheckConsistency(c)
        <4>1. nextRun \in 1..MaxRuns
          BY <3>6 DEF CheckConsistency, FreshTypeOK
        <4>2. /\ infer[c].pc = "images"
              /\ infer' = [infer EXCEPT ![c].pc = "trace",
                                        ![c].models = @ \cup {liveModel},
                                        ![c].run = nextRun]
          BY <3>6 DEF CheckConsistency
        <4>3. /\ infer'[c].pc = "trace" /\ infer'[c].run = nextRun
              /\ infer'[c].read = infer[c].read
              /\ infer'[c].heard = infer[c].heard
              /\ \A d \in InferCalls \ {c} : infer'[d] = infer[d]
          BY <4>2 DEF InferenceCall
        <4> QED
          BY <4>1, <4>2, <4>3
      <3>7. CASE WriteTrace(c)
        BY <3>7 DEF WriteTrace, InferenceCall
      <3>8. CASE \/ CommitPipeline(c) \/ InferenceFails(c)
                 \/ TraceCutShort(c) \/ ReturnInference(c)
        <4>1. PICK r \in {IdleInference,
                          [IdleInference EXCEPT !.pc = "return"]} :
                infer' = [infer EXCEPT ![c] = r]
          BY <3>8 DEF CommitPipeline, InferenceFails, TraceCutShort,
                      ReturnInference
        <4>2. r.pc \in {"idle", "return"}
          BY <4>1 DEF IdleInference
        <4> QED
          BY <4>1, <4>2
      <3> QED
        BY <1>2, <3>1, <3>2, <3>3, <3>4, <3>5, <3>6, <3>7, <3>8
        DEF InferenceStep
    <2> QED
      BY <2>1, <2>2 DEF SealOpen, HasModel, HasPath, HasAudio
  <1>3. ASSUME NEW c \in SealCalls, BeginSeal(c) \/ SealStep(c)
        PROVE  CallsHoldValues'
    <2> USE DEF Typed, TypeOK, CallsTypeOK, CallsHoldValues, SealOpen,
                HasModel, HasPath, HasAudio
    <2>1. UNCHANGED infer
      BY <1>3, SealLeaves
    <2>2. \A d \in SealCalls :
            /\ SealOpen(d)' => /\ seal'[d].snap \in Snapshot
                               /\ seal'[d].audio \in Seconds
            /\ HasModel(d)' => seal'[d].model \in Models
            /\ HasPath(d)' => seal'[d].out \in BundlePath
            /\ HasAudio(d)' => seal'[d].blob \in Versions
      <3>1. CASE BeginSeal(c)
        BY <3>1 DEF BeginSeal, StateTypeOK, SecondOrNone, IdleSeal, SealCall
      <3>2. CASE ResolveFingerprint(c)
        BY <3>2 DEF ResolveFingerprint, SealCall
      <3>3. CASE ReservePath(c)
        <4>1. FreePath \in BundlePath
          <5>1. nextSeal \in 1..MaxSeals
            BY <3>3 DEF ReservePath, FreshTypeOK
          <5> QED
            BY <5>1, FreePathType
        <4>2. /\ seal[c].pc = "reserve"
              /\ seal' = [seal EXCEPT ![c].pc = "audio", ![c].out = FreePath]
          BY <3>3 DEF ReservePath
        <4> QED
          BY <4>1, <4>2 DEF SealCall
      <3>4. CASE ReadAudio(c)
        <4> DEFINE bytes == wav[seal[c].audio]
        <4>1. /\ seal[c].pc = "audio" /\ bytes # 0
              /\ seal' = [seal EXCEPT ![c].pc = "images", ![c].blob = bytes]
          BY <3>4 DEF ReadAudio
        <4>2. /\ seal[c].audio \in Seconds /\ seal[c].snap \in Snapshot
              /\ seal[c].model \in Models /\ seal[c].out \in BundlePath
          BY <4>1
        <4>3. bytes \in Versions
          BY <4>1, <4>2 DEF DiskTypeOK, Versions
        <4> HIDE DEF bytes
        <4> QED
          BY <4>1, <4>2, <4>3 DEF SealCall
      <3>5. CASE ReadImage(c)
        <4>1. PICK blobs : seal' = [seal EXCEPT ![c].blobs = blobs]
          BY <3>5 DEF ReadImage
        <4>2. /\ seal'[c].pc = seal[c].pc /\ seal'[c].snap = seal[c].snap
              /\ seal'[c].audio = seal[c].audio
              /\ seal'[c].model = seal[c].model
              /\ seal'[c].out = seal[c].out /\ seal'[c].blob = seal[c].blob
              /\ \A d \in SealCalls \ {c} : seal'[d] = seal[d]
          BY <4>1 DEF SealCall
        <4> QED
          BY <4>2
      <3>6. CASE CreateArchive(c)
        <4>1. /\ seal[c].pc = "images"
              /\ seal' = [seal EXCEPT ![c].pc = "write"]
          BY <3>6 DEF CreateArchive
        <4> QED
          BY <4>1 DEF SealCall
      <3>7. CASE FinishArchive(c) \/ SealFails(c) \/ ReturnSeal(c)
        <4>1. PICK r \in {IdleSeal, [IdleSeal EXCEPT !.pc = "return"]} :
                seal' = [seal EXCEPT ![c] = r]
          BY <3>7 DEF FinishArchive, SealFails, ReturnSeal
        <4>2. r.pc \in {"idle", "return"}
          BY <4>1 DEF IdleSeal
        <4> QED
          BY <4>1, <4>2
      <3> QED
        BY <1>3, <3>1, <3>2, <3>3, <3>4, <3>5, <3>6, <3>7 DEF SealStep
    <2> QED
      BY <2>1, <2>2 DEF InferenceOpen, HasRead, HasHeard, HasRun
  <1>4. CASE Crash
    BY <1>4 DEF Crash, CallsHoldValues, IdleInference, IdleSeal,
                InferenceOpen, HasRead, HasHeard, HasRun, SealOpen, HasModel,
                HasPath, HasAudio
  <1>5. CASE \/ Record \/ Pick \/ Discard \/ ClockMoves \/ SidecarSwaps
             \/ ExternalWrite \/ UNCHANGED vars
    <2>1. UNCHANGED <<infer, seal>>
      BY <1>5 DEF Record, StartRecording, CaptureSamples, StopRecording, Pick,
                  OpenDialog, CreateStagingDir, StageImage, CommitPick,
                  LeavePick, Discard, BeginDiscard, RemoveRecordings,
                  RemoveReasoning, RemoveStaged, DiscardFails, ClockMoves,
                  SidecarSwaps, ExternalWrite, vars, calls
    <2> QED
      BY <1>1, <2>1
  <1> QED
    BY <1>2, <1>3, <1>4, <1>5 DEF Next

LEMMA WorldTyped ==
  Typed /\ [Next]_vars =>
    /\ now' \in Seconds
    /\ liveModel' \in Models
    /\ runs' \in [1..MaxRuns -> RunInput \cup {NoRun}]
  <1> SUFFICES ASSUME Typed, [Next]_vars
               PROVE  /\ now' \in Seconds
                      /\ liveModel' \in Models
                      /\ runs' \in [1..MaxRuns -> RunInput \cup {NoRun}]
    OBVIOUS
  <1>1. now' \in Seconds /\ liveModel' \in Models
    <2>1. now \in Seconds /\ liveModel \in Models
      BY DEF Typed, TypeOK
    <2>2. ASSUME NEW c \in InferCalls, BeginInference(c) \/ InferenceStep(c)
          PROVE  UNCHANGED world
      BY <2>2, InferenceLeaves
    <2>3. ASSUME NEW c \in SealCalls, BeginSeal(c) \/ SealStep(c)
          PROVE  UNCHANGED world
      BY <2>3, SealLeaves
    <2>4. ASSUME \/ Record \/ Pick \/ Discard \/ ExternalWrite \/ Crash
                 \/ UNCHANGED vars
          PROVE  UNCHANGED world
      BY <2>4 DEF Record, StartRecording, CaptureSamples, StopRecording, Pick,
                  OpenDialog, CreateStagingDir, StageImage, CommitPick,
                  LeavePick, Discard, BeginDiscard, RemoveRecordings,
                  RemoveReasoning, RemoveStaged, DiscardFails, ExternalWrite,
                  Crash, vars
    <2>5. ASSUME UNCHANGED world
          PROVE  now' \in Seconds /\ liveModel' \in Models
      BY <2>1, <2>5 DEF world
    <2>6. CASE ClockMoves \/ SidecarSwaps
      BY <2>1, <2>6 DEF ClockMoves, SidecarSwaps
    <2> QED
      BY <2>2, <2>3, <2>4, <2>5, <2>6 DEF Next
  <1>2. ASSUME NEW c \in InferCalls, CommitPipeline(c)
        PROVE  runs' \in [1..MaxRuns -> RunInput \cup {NoRun}]
    <2>1. [audio  |-> infer[c].read, heard |-> infer[c].heard,
           images |-> infer[c].seen, models |-> infer[c].models] \in RunInput
      BY <1>2 DEF CommitPipeline, Typed, TypeOK, CallsTypeOK, InferenceCall,
                  CallsHoldValues, HasRead, HasHeard, RunInput
    <2>2. infer[c].run \in 1..MaxRuns
      BY <1>2 DEF CommitPipeline, Typed, CallsHoldValues, HasRun
    <2> QED
      BY <1>2, <2>1, <2>2 DEF CommitPipeline, Typed, TypeOK
  <1>3. CASE ~ \E c \in InferCalls : CommitPipeline(c)
    <2>1. UNCHANGED runs
      BY <1>3
      DEF  Next, Record, StartRecording, CaptureSamples,
           StopRecording, Pick, OpenDialog, CreateStagingDir, StageImage,
           CommitPick, LeavePick, BeginInference, InferenceStep, HashAudio,
           HearAudio, StructureIncident, AnalyzeImage, CheckConsistency,
           WriteTrace, InferenceFails, TraceCutShort, ReturnInference,
           BeginSeal, SealStep, ResolveFingerprint, ReservePath, ReadAudio,
           ReadImage, CreateArchive, FinishArchive, SealFails, ReturnSeal,
           Discard, BeginDiscard, RemoveRecordings, RemoveReasoning,
           RemoveStaged, DiscardFails, ClockMoves, SidecarSwaps,
           ExternalWrite, Crash, vars
    <2> QED
      BY <1>1, <2>1 DEF Typed, TypeOK
  <1> QED
    BY <1>1, <1>2, <1>3

LEMMA StepTyped == Typed /\ [Next]_vars => Typed'
  BY StateTyped, CallsTyped, DiskTyped, FreshTyped, WorldTyped, ValuesHeld
  DEF Typed, TypeOK

\* Along every behaviour of the backend each variable has the type of the
\* Rust value or file it stands for, and a command in flight holds what the
\* steps it has passed obtained (state.rs; the locals of the commands).
THEOREM TypeCorrect == Spec => []TypeOK
  <1>1. Spec => []Typed
    BY InitTyped, StepTyped, PTL DEF Spec
  <1>2. Typed => TypeOK
    BY DEF Typed
  <1> QED
    BY <1>1, <1>2, PTL
=============================================================================
