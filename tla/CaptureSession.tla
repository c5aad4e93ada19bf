--------------------------- MODULE CaptureSession ---------------------------
(***************************************************************************)
(* The backend of the capture application (apps/capture/src-tauri/src):    *)
(* the state its Tauri commands share behind one tokio Mutex, the files    *)
(* they keep under the application data directory, and the commands as     *)
(* the interleaved steps they really are.  A command holds the mutex only  *)
(* where the code does; between two lock scopes, and at every await, read  *)
(* and write of a file, any other command, the sidecar, another process    *)
(* on the machine or a crash may come first.                               *)
(*                                                                         *)
(* Abstractions.  The bytes of a WAV file are a version number: every      *)
(* write by the recorder produces a version never seen before, 0 is no     *)
(* file.  The bytes of an image are a member of ImageData.  A file named   *)
(* after the wall clock is indexed by the second in its name.  The text    *)
(* a pipeline run produces (transcript, report, reasoning trace) is the    *)
(* number of the run.  A command call that is refused by a guard changes   *)
(* nothing and is a stuttering step.                                       *)
(***************************************************************************)
EXTENDS Naturals, Sequences

CONSTANTS
  Seconds,        \* readings of the wall clock, as the file names print them
  ImageData,      \* contents an image file can have
  Models,         \* models a sidecar can be serving
  InferCalls,     \* concurrent invocations of run_inference_cmd
  SealCalls,      \* concurrent invocations of seal_bundle_cmd
  None,           \* Option::None, and the absence of a directory or file
  ExternalWrites, \* whether other processes write to the working files
  MaxFiles,       \* MAX_FILES of image_commands.rs
  MaxBytes,       \* bound: versions of WAV bytes ever written
  MaxPicks,       \* bound: staging directories ever created
  MaxRuns,        \* bound: pipeline runs that reach the reasoning trace
  MaxSeals        \* bound: seals that reach the choice of an output path

ASSUME BoundsAssumption ==
  /\ MaxFiles \in Nat /\ MaxBytes \in Nat /\ MaxPicks \in Nat
  /\ MaxRuns \in Nat /\ MaxSeals \in Nat
ASSUME NoneAssumption == None \notin Seconds
ASSUME ExternalAssumption == ExternalWrites \in BOOLEAN

VARIABLES
  \* CaptureState, lost when the process ends
  recording,        \* file the live recording writes, or None
  capturedAudio,    \* file of the last recording stop_recording_cmd accepted
  pickedImages,     \* staging directory and number of the picked images
  lastPipeline,     \* PipelineSnapshot of the last committed run, or None
  reasoningPath,    \* reasoning file of that run, or None
  runningInference, \* re-entrancy guard of run_inference_cmd
  runningSeal,      \* re-entrancy guard of seal_bundle_cmd
  \* commands in flight
  infer,            \* one record per invocation of run_inference_cmd
  seal,             \* one record per invocation of seal_bundle_cmd
  pick,             \* the invocation of pick_images_cmd
  discard,          \* the invocation of discard_capture_cmd
  \* files
  wav,              \* recordings/recording-<second>.wav
  staged,           \* staged-images/<uuid>/img-<i>
  reasoning,        \* reasoning/reasoning-<second>.txt: a Trace
  bundles,          \* bundles/incident-<second>[-<uuid>].witness
  \* surroundings
  now,              \* wall clock, to the second
  liveModel,        \* model the sidecar serves
  \* supplies of fresh values, and a history variable
  nextBytes, nextPick, nextRun, nextSeal,
  runs              \* what each committed run really took in

state == <<recording, capturedAudio, pickedImages, lastPipeline,
           reasoningPath, runningInference, runningSeal>>
calls == <<infer, seal, pick, discard>>
disk  == <<wav, staged, reasoning, bundles>>
world == <<now, liveModel>>
fresh == <<nextBytes, nextPick, nextRun, nextSeal>>
vars  == <<state, calls, disk, world, fresh, runs>>

-----------------------------------------------------------------------------
(* Values.                                                                 *)

\* SHA-256 as this code relies on it: equal digests mean equal bytes, and a
\* digest is never mistaken for the bytes.
Sha256(bytes) == <<"sha256", bytes>>
Digest(Data)  == {Sha256(d) : d \in Data}

Versions   == 1..MaxBytes
Selection  == [dir : 0..MaxPicks, count : 0..MaxFiles]
NoImages   == [dir |-> 0, count |-> 0]
BundlePath == Seconds \X (0..MaxSeals)

\* A reasoning file: absent, the whole trace of a run, or what a write that
\* failed left of it, nothing included.
Trace      == [run : 0..MaxRuns, whole : BOOLEAN]
NoTrace    == [run |-> 0, whole |-> FALSE]
Whole(run) == [run |-> run, whole |-> TRUE]
Torn(run)  == [run |-> run, whole |-> FALSE]

\* PipelineSnapshot: the run's texts, and the hashes pinned for the seal.
Snapshot == [trace  : 1..MaxRuns,
             audio  : Digest(Versions),
             images : Seq(Digest(ImageData))]

\* What a run took in: the audio bytes it hashed, the audio bytes the
\* sidecar opened, the image bytes it described, the models that answered.
RunInput == [audio  : Versions, heard  : Versions,
             images : Seq(ImageData), models : SUBSET Models]

NoRun == [audio |-> 0, heard |-> 0, images |-> <<>>, models |-> {}]

\* A .witness file: absent, not yet a complete archive, or complete.
NoBundle   == [kind |-> "absent"]
Incomplete == [kind |-> "incomplete"]
Sealed == [kind   : {"sealed"},
           audio  : Versions,
           images : Seq(ImageData),
           trace  : 1..MaxRuns,
           model  : Models]

IdleInference ==
  [pc |-> "idle", audio |-> None, images |-> NoImages, read |-> 0,
   heard |-> 0, seen |-> <<>>, models |-> {}, run |-> 0, file |-> None]

IdleSeal ==
  [pc |-> "idle", audio |-> None, images |-> NoImages, snap |-> None,
   model |-> None, out |-> None, blob |-> 0, blobs |-> <<>>]

IdlePick == [pc |-> "idle", dir |-> 0, count |-> 0]

\* staged image i of directory d exists
HasImage(d, i) == /\ d \in 1..MaxPicks
                  /\ staged[d] # None
                  /\ i \in 1..Len(staged[d])

-----------------------------------------------------------------------------
Init ==
  /\ recording = None
  /\ capturedAudio = None
  /\ pickedImages = NoImages
  /\ lastPipeline = None
  /\ reasoningPath = None
  /\ runningInference = FALSE
  /\ runningSeal = FALSE
  /\ infer = [c \in InferCalls |-> IdleInference]
  /\ seal = [c \in SealCalls |-> IdleSeal]
  /\ pick = IdlePick
  /\ discard = "idle"
  /\ wav = [s \in Seconds |-> 0]
  /\ staged = [d \in 1..MaxPicks |-> None]
  /\ reasoning = [s \in Seconds |-> NoTrace]
  /\ bundles = [p \in BundlePath |-> NoBundle]
  /\ now \in Seconds
  /\ liveModel \in Models
  /\ nextBytes = 1 /\ nextPick = 1 /\ nextRun = 1 /\ nextSeal = 1
  /\ runs = [n \in 1..MaxRuns |-> NoRun]

-----------------------------------------------------------------------------
(* Recording.  start_recording_cmd and stop_recording_cmd hold the mutex   *)
(* throughout; the recorder's callback runs on its own thread.             *)

\* The recorder puts new bytes in file s.
WriteWav(s) ==
  /\ nextBytes <= MaxBytes
  /\ wav' = [wav EXCEPT ![s] = nextBytes]
  /\ nextBytes' = nextBytes + 1

\* WavWriter::create truncates whatever file has this second's name.  A
\* failure of the stream after it leaves the file and no recording.
StartRecording ==
  /\ recording = None
  /\ WriteWav(now)
  /\ recording' \in {now, None}
  /\ UNCHANGED <<capturedAudio, pickedImages, lastPipeline, reasoningPath,
                 runningInference, runningSeal, calls, staged, reasoning,
                 bundles, world, nextPick, nextRun, nextSeal, runs>>

\* The callback flushes samples; the file may have been unlinked meanwhile.
CaptureSamples ==
  /\ recording # None
  /\ wav[recording] # 0
  /\ WriteWav(recording)
  /\ UNCHANGED <<state, calls, staged, reasoning, bundles, world,
                 nextPick, nextRun, nextSeal, runs>>

\* The handle is taken before finish() can fail: an error loses the
\* recording and keeps the audio captured before it.
StopRecording ==
  /\ recording # None
  /\ recording' = None
  /\ \/ /\ wav[recording] # 0
        /\ WriteWav(recording)
     \/ /\ wav[recording] = 0
        /\ UNCHANGED <<wav, nextBytes>>
  /\ capturedAudio' \in {recording, capturedAudio}
  /\ UNCHANGED <<pickedImages, lastPipeline, reasoningPath, runningInference,
                 runningSeal, calls, staged, reasoning, bundles, world,
                 nextPick, nextRun, nextSeal, runs>>

-----------------------------------------------------------------------------
(* Picking images.  The dialog and the copies run without the mutex; only  *)
(* the final assignment takes it.                                          *)

OpenDialog ==
  /\ pick.pc = "idle"
  /\ nextPick <= MaxPicks
  /\ pick' = [IdlePick EXCEPT !.pc = "dialog"]
  /\ UNCHANGED <<state, infer, seal, discard, disk, world, fresh, runs>>

\* The answer is a selection of 1..MaxFiles files: a new staging directory.
CreateStagingDir ==
  /\ pick.pc = "dialog"
  /\ staged' = [staged EXCEPT ![nextPick] = <<>>]
  /\ pick' = [pc |-> "stage", dir |-> nextPick, count |-> 0]
  /\ nextPick' = nextPick + 1
  /\ UNCHANGED <<state, infer, seal, discard, wav, reasoning, bundles, world,
                 nextBytes, nextRun, nextSeal, runs>>

\* Slip: the file after the last one allowed is accepted too.
RoomForOneMore(n) == n <= MaxFiles

\* The selection is refused when it has more than MAX_FILES files.
RoomFor(n) == n < MaxFiles

\* validate_and_stage accepts the next file and copies it.
StageImage ==
  /\ pick.pc = "stage"
  /\ RoomFor(pick.count)
  /\ staged[pick.dir] # None
  /\ \E bytes \in ImageData :
       staged' = [staged EXCEPT ![pick.dir] = Append(@, bytes)]
  /\ pick' = [pick EXCEPT !.count = @ + 1]
  /\ UNCHANGED <<state, infer, seal, discard, wav, reasoning, bundles, world,
                 fresh, runs>>

CommitPick ==
  /\ pick.pc = "stage"
  /\ pick.count > 0
  /\ pickedImages' = [dir |-> pick.dir, count |-> pick.count]
  /\ pick' = IdlePick
  /\ UNCHANGED <<recording, capturedAudio, lastPipeline, reasoningPath,
                 runningInference, runningSeal, infer, seal, discard, disk,
                 world, fresh, runs>>

\* Cancelled dialog, too many files, or a file refused: the earlier
\* selection stays, and what was staged so far stays on disk.
LeavePick ==
  /\ pick.pc \in {"dialog", "stage"}
  /\ pick' = IdlePick
  /\ UNCHANGED <<state, infer, seal, discard, disk, world, fresh, runs>>

-----------------------------------------------------------------------------
(* run_inference_cmd and the pipeline it drives.                           *)

\* Slip: the re-entrancy guard is not consulted.
MayInferAgain == capturedAudio # None

MayInfer == ~runningInference /\ capturedAudio # None

BeginInference(c) ==
  /\ infer[c].pc = "idle"
  /\ MayInfer
  /\ runningInference' = TRUE
  /\ infer' = [infer EXCEPT ![c] =
                 [IdleInference EXCEPT !.pc = "transcribe",
                                       !.audio = capturedAudio,
                                       !.images = pickedImages]]
  /\ UNCHANGED <<recording, capturedAudio, pickedImages, lastPipeline,
                 reasoningPath, runningSeal, seal, pick, discard, disk,
                 world, fresh, runs>>

\* transcribe() reads the WAV and hashes what it read ...
HashAudio(c) ==
  /\ infer[c].pc = "transcribe"
  /\ wav[infer[c].audio] # 0
  /\ infer' = [infer EXCEPT ![c].pc = "hear",
                            ![c].read = wav[infer[c].audio]]
  /\ UNCHANGED <<state, seal, pick, discard, disk, world, fresh, runs>>

\* ... but posts the path, and the sidecar opens the file on its own.
HearAudio(c) ==
  /\ infer[c].pc = "hear"
  /\ wav[infer[c].audio] # 0
  /\ infer' = [infer EXCEPT ![c].pc = "structure",
                            ![c].heard = wav[infer[c].audio],
                            ![c].models = @ \cup {liveModel}]
  /\ UNCHANGED <<state, seal, pick, discard, disk, world, fresh, runs>>

StructureIncident(c) ==
  /\ infer[c].pc = "structure"
  /\ infer' = [infer EXCEPT ![c].pc = "images",
                            ![c].models = @ \cup {liveModel}]
  /\ UNCHANGED <<state, seal, pick, discard, disk, world, fresh, runs>>

\* analyze_image() reads the file once, hashes and posts those bytes.
AnalyzeImage(c) ==
  LET i == Len(infer[c].seen) + 1
      d == infer[c].images.dir
  IN /\ infer[c].pc = "images"
     /\ i <= infer[c].images.count
     /\ HasImage(d, i)
     /\ infer' = [infer EXCEPT ![c].seen = Append(@, staged[d][i]),
                               ![c].models = @ \cup {liveModel}]
     /\ UNCHANGED <<state, seal, pick, discard, disk, world, fresh, runs>>

CheckConsistency(c) ==
  /\ infer[c].pc = "images"
  /\ Len(infer[c].seen) = infer[c].images.count
  /\ nextRun <= MaxRuns
  /\ infer' = [infer EXCEPT ![c].pc = "trace",
                            ![c].models = @ \cup {liveModel},
                            ![c].run = nextRun]
  /\ nextRun' = nextRun + 1
  /\ UNCHANGED <<state, seal, pick, discard, disk, world,
                 nextBytes, nextPick, nextSeal, runs>>

WriteTrace(c) ==
  /\ infer[c].pc = "trace"
  /\ reasoning' = [reasoning EXCEPT ![now] = Whole(infer[c].run)]
  /\ infer' = [infer EXCEPT ![c].pc = "commit", ![c].file = now]
  /\ UNCHANGED <<state, seal, pick, discard, wav, staged, bundles, world,
                 fresh, runs>>

\* std::fs::write truncates whatever file has this second's name, and may
\* fail after that: the file of an earlier run of the second is lost.
TraceCutShort(c) ==
  /\ infer[c].pc = "trace"
  /\ reasoning' = [reasoning EXCEPT ![now] = Torn(infer[c].run)]
  /\ infer' = [infer EXCEPT ![c] = [IdleInference EXCEPT !.pc = "return"]]
  /\ UNCHANGED <<state, seal, pick, discard, wav, staged, bundles, world,
                 fresh, runs>>

SnapshotOf(call) ==
  [trace  |-> call.run,
   audio  |-> Sha256(call.read),
   images |-> [i \in 1..Len(call.seen) |-> Sha256(call.seen[i])]]

\* Slip: the name is made again from the clock instead of kept.
RestampedTraceFile(c) == now

TraceFile(c) == infer[c].file

CommitPipeline(c) ==
  /\ infer[c].pc = "commit"
  /\ lastPipeline' = SnapshotOf(infer[c])
  /\ reasoningPath' = TraceFile(c)
  /\ runs' = [runs EXCEPT ![infer[c].run] =
                [audio  |-> infer[c].read, heard |-> infer[c].heard,
                 images |-> infer[c].seen, models |-> infer[c].models]]
  /\ infer' = [infer EXCEPT ![c] = [IdleInference EXCEPT !.pc = "return"]]
  /\ UNCHANGED <<recording, capturedAudio, pickedImages, runningInference,
                 runningSeal, seal, pick, discard, disk, world, fresh>>

\* Slip: an error leaves the command before the guard is taken down.
InferenceFailsEarly(c) ==
  /\ infer[c].pc \in {"transcribe", "hear", "structure", "images", "trace"}
  /\ infer' = [infer EXCEPT ![c] = IdleInference]
  /\ UNCHANGED <<state, seal, pick, discard, disk, world, fresh, runs>>

\* A file that cannot be read or opened, a timeout, a bad answer: the first
\* error ends the pipeline.
InferenceFails(c) ==
  /\ infer[c].pc \in {"transcribe", "hear", "structure", "images", "trace"}
  /\ infer' = [infer EXCEPT ![c] = [IdleInference EXCEPT !.pc = "return"]]
  /\ UNCHANGED <<state, seal, pick, discard, disk, world, fresh, runs>>

ReturnInference(c) ==
  /\ infer[c].pc = "return"
  /\ runningInference' = FALSE
  /\ infer' = [infer EXCEPT ![c] = IdleInference]
  /\ UNCHANGED <<recording, capturedAudio, pickedImages, lastPipeline,
                 reasoningPath, runningSeal, seal, pick, discard, disk,
                 world, fresh, runs>>

InferenceStep(c) ==
  \/ HashAudio(c) \/ HearAudio(c) \/ StructureIncident(c) \/ AnalyzeImage(c)
  \/ CheckConsistency(c) \/ WriteTrace(c) \/ TraceCutShort(c)
  \/ CommitPipeline(c) \/ InferenceFails(c) \/ ReturnInference(c)

-----------------------------------------------------------------------------
(* seal_bundle_cmd, seal_inner and build_and_seal_bundle.                  *)

BeginSeal(c) ==
  /\ seal[c].pc = "idle"
  /\ ~runningSeal
  /\ capturedAudio # None
  /\ lastPipeline # None
  /\ runningSeal' = TRUE
  /\ seal' = [seal EXCEPT ![c] =
                [IdleSeal EXCEPT !.pc = "fingerprint",
                                 !.audio = capturedAudio,
                                 !.images = pickedImages,
                                 !.snap = lastPipeline]]
  /\ UNCHANGED <<recording, capturedAudio, pickedImages, lastPipeline,
                 reasoningPath, runningInference, infer, pick, discard, disk,
                 world, fresh, runs>>

\* The model is the one the sidecar serves now; then the numbers of pinned
\* and of picked images are compared.
ResolveFingerprint(c) ==
  /\ seal[c].pc = "fingerprint"
  /\ Len(seal[c].snap.images) = seal[c].images.count
  /\ seal' = [seal EXCEPT ![c].pc = "reserve", ![c].model = liveModel]
  /\ UNCHANGED <<state, infer, pick, discard, disk, world, fresh, runs>>

\* Slip: a file that already has the second's name is taken over.
StampedPath == <<now, 0>>

\* The second's name, or one with a fresh UUID if a file has that name.
FreePath == IF bundles[<<now, 0>>] = NoBundle
            THEN <<now, 0>> ELSE <<now, nextSeal>>

\* create_new reserves the second's name with an empty file; the other name
\* is not reserved.
ReservePath(c) ==
  LET path == FreePath
  IN /\ seal[c].pc = "reserve"
     /\ nextSeal <= MaxSeals
     /\ nextSeal' = nextSeal + 1
     /\ seal' = [seal EXCEPT ![c].pc = "audio", ![c].out = path]
     /\ bundles' = IF bundles[<<now, 0>>] = NoBundle
                   THEN [bundles EXCEPT ![path] = Incomplete] ELSE bundles
     /\ UNCHANGED <<state, infer, pick, discard, wav, staged, reasoning,
                    world, nextBytes, nextPick, nextRun, runs>>

\* Slip: the bytes are sealed whatever the pinned hash says.
Unpinned(bytes, digest) == TRUE

\* The bytes just read are those the pipeline pinned.
MatchesPin(bytes, digest) == Sha256(bytes) = digest

ReadAudio(c) ==
  LET bytes == wav[seal[c].audio]
  IN /\ seal[c].pc = "audio"
     /\ bytes # 0
     /\ MatchesPin(bytes, seal[c].snap.audio)
     /\ seal' = [seal EXCEPT ![c].pc = "images", ![c].blob = bytes]
     /\ UNCHANGED <<state, infer, pick, discard, disk, world, fresh, runs>>

ReadImage(c) ==
  LET i == Len(seal[c].blobs) + 1
      d == seal[c].images.dir
  IN /\ seal[c].pc = "images"
     /\ i <= seal[c].images.count
     /\ HasImage(d, i)
     /\ MatchesPin(staged[d][i], seal[c].snap.images[i])
     /\ seal' = [seal EXCEPT ![c].blobs = Append(@, staged[d][i])]
     /\ UNCHANGED <<state, infer, pick, discard, disk, world, fresh, runs>>

\* The manifest is signed in memory; write_bundle then truncates the file.
CreateArchive(c) ==
  /\ seal[c].pc = "images"
  /\ Len(seal[c].blobs) = seal[c].images.count
  /\ bundles' = [bundles EXCEPT ![seal[c].out] = Incomplete]
  /\ seal' = [seal EXCEPT ![c].pc = "write"]
  /\ UNCHANGED <<state, infer, pick, discard, wav, staged, reasoning, world,
                 fresh, runs>>

FinishArchive(c) ==
  /\ seal[c].pc = "write"
  /\ bundles' = [bundles EXCEPT ![seal[c].out] =
                   [kind   |-> "sealed",
                    audio  |-> seal[c].blob,
                    images |-> seal[c].blobs,
                    trace  |-> seal[c].snap.trace,
                    model  |-> seal[c].model]]
  /\ seal' = [seal EXCEPT ![c] = [IdleSeal EXCEPT !.pc = "return"]]
  /\ UNCHANGED <<state, infer, pick, discard, wav, staged, reasoning, world,
                 fresh, runs>>

\* No signer, no sidecar, an unknown or different model, counts or hashes
\* that differ, an IO error: whatever the output path holds by then stays.
SealFails(c) ==
  /\ seal[c].pc \in {"fingerprint", "reserve", "audio", "images", "write"}
  /\ seal' = [seal EXCEPT ![c] = [IdleSeal EXCEPT !.pc = "return"]]
  /\ UNCHANGED <<state, infer, pick, discard, disk, world, fresh, runs>>

ReturnSeal(c) ==
  /\ seal[c].pc = "return"
  /\ runningSeal' = FALSE
  /\ seal' = [seal EXCEPT ![c] = IdleSeal]
  /\ UNCHANGED <<recording, capturedAudio, pickedImages, lastPipeline,
                 reasoningPath, runningInference, infer, pick, discard, disk,
                 world, fresh, runs>>

SealStep(c) ==
  \/ ResolveFingerprint(c) \/ ReservePath(c) \/ ReadAudio(c) \/ ReadImage(c)
  \/ CreateArchive(c) \/ FinishArchive(c) \/ SealFails(c) \/ ReturnSeal(c)

-----------------------------------------------------------------------------
(* discard_capture_cmd: the state under the mutex, the directories after.  *)

BeginDiscard ==
  /\ discard = "idle"
  /\ recording = None
  /\ capturedAudio' = None
  /\ pickedImages' = NoImages
  /\ lastPipeline' = None
  /\ reasoningPath' = None
  /\ discard' = "recordings"
  /\ UNCHANGED <<recording, runningInference, runningSeal, infer, seal, pick,
                 disk, world, fresh, runs>>

RemoveRecordings ==
  /\ discard = "recordings"
  /\ wav' = [s \in Seconds |-> 0]
  /\ discard' = "reasoning"
  /\ UNCHANGED <<state, infer, seal, pick, staged, reasoning, bundles, world,
                 fresh, runs>>

RemoveReasoning ==
  /\ discard = "reasoning"
  /\ reasoning' = [s \in Seconds |-> NoTrace]
  /\ discard' = "staged"
  /\ UNCHANGED <<state, infer, seal, pick, wav, staged, bundles, world,
                 fresh, runs>>

RemoveStaged ==
  /\ discard = "staged"
  /\ staged' = [d \in 1..MaxPicks |-> None]
  /\ discard' = "idle"
  /\ UNCHANGED <<state, infer, seal, pick, wav, reasoning, bundles, world,
                 fresh, runs>>

\* remove_dir_all fails: the later directories are left alone.
DiscardFails ==
  /\ discard \in {"recordings", "reasoning", "staged"}
  /\ discard' = "idle"
  /\ UNCHANGED <<state, infer, seal, pick, disk, world, fresh, runs>>

Discard == \/ BeginDiscard \/ RemoveRecordings \/ RemoveReasoning
           \/ RemoveStaged \/ DiscardFails

-----------------------------------------------------------------------------
(* The surroundings.                                                       *)

\* Wall-clock time passes, or is stepped.
ClockMoves ==
  /\ now' \in Seconds
  /\ UNCHANGED <<state, calls, disk, liveModel, fresh, runs>>

\* The sidecar is restarted with another model.
SidecarSwaps ==
  /\ liveModel' \in Models
  /\ UNCHANGED <<state, calls, disk, now, fresh, runs>>

\* Another process of the account writes a working file: bytes of another
\* recording over a WAV, other image bytes over a staged image.
ExternalWrite ==
  /\ ExternalWrites
  /\ \/ \E s \in Seconds, bytes \in 1..(nextBytes - 1) :
          /\ wav[s] # 0
          /\ bytes <= MaxBytes
          /\ wav' = [wav EXCEPT ![s] = bytes]
          /\ UNCHANGED staged
     \/ \E d \in 1..MaxPicks, bytes \in ImageData : \E i \in 1..MaxFiles :
          /\ HasImage(d, i)
          /\ staged' = [staged EXCEPT ![d] = [@ EXCEPT ![i] = bytes]]
          /\ UNCHANGED wav
  /\ UNCHANGED <<state, calls, reasoning, bundles, world, fresh, runs>>

\* The process ends at any point and is started again: CaptureState is
\* Default, every call is gone, every file is as it was.
Crash ==
  /\ recording' = None
  /\ capturedAudio' = None
  /\ pickedImages' = NoImages
  /\ lastPipeline' = None
  /\ reasoningPath' = None
  /\ runningInference' = FALSE
  /\ runningSeal' = FALSE
  /\ infer' = [c \in InferCalls |-> IdleInference]
  /\ seal' = [c \in SealCalls |-> IdleSeal]
  /\ pick' = IdlePick
  /\ discard' = "idle"
  /\ UNCHANGED <<disk, world, fresh, runs>>

-----------------------------------------------------------------------------
Record == StartRecording \/ CaptureSamples \/ StopRecording
Pick   == \/ OpenDialog \/ CreateStagingDir \/ StageImage
          \/ CommitPick \/ LeavePick

Next ==
  \/ Record
  \/ Pick
  \/ \E c \in InferCalls : BeginInference(c) \/ InferenceStep(c)
  \/ \E c \in SealCalls : BeginSeal(c) \/ SealStep(c)
  \/ Discard
  \/ ClockMoves
  \/ SidecarSwaps
  \/ ExternalWrite
  \/ Crash

Spec == Init /\ [][Next]_vars

\* Every call keeps being scheduled: each file operation ends, and each
\* request to the sidecar is answered or cut off by its client timeout.
Fairness ==
  /\ \A c \in InferCalls : WF_vars(InferenceStep(c))
  /\ \A c \in SealCalls : WF_vars(SealStep(c))

FairSpec == Spec /\ Fairness

=============================================================================
