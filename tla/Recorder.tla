------------------------------ MODULE Recorder ------------------------------
(***************************************************************************)
(* The audio recorder (apps/capture/src-tauri/src/audio.rs): one recording *)
(* from start_recording to finish.  The callback of the audio stream runs  *)
(* on a thread of its own, in two steps, because it looks at the stop flag *)
(* before it takes the writer's lock; the command that stops the recording *)
(* runs next to it, and holds the writer's lock from where it takes the    *)
(* writer to its return.  The stream lives until then, and its error       *)
(* callback needs no lock of theirs: it may come between any two steps.    *)
(*                                                                         *)
(* A sample is counted, not valued.  Writes through a buffer either reach  *)
(* the file or fail; what fails is neither in the file nor counted.        *)
(***************************************************************************)
EXTENDS Naturals

CONSTANTS
  SourceRate,  \* frames per second the device delivers
  TargetRate,  \* TARGET_SAMPLE_RATE, samples per second of the file
  MaxSamples,  \* TARGET_SAMPLE_RATE * MAX_DURATION_SECONDS
  Chunks,      \* numbers of frames one callback can bring
  MaxChunks    \* bound: callbacks of a recording

ASSUME RatesAssumption == /\ SourceRate \in Nat \ {0}
                          /\ TargetRate \in Nat \ {0}
ASSUME ChunksAssumption == Chunks \subseteq Nat \ {0}
ASSUME SamplesAssumption == MaxSamples \in Nat \ {0} /\ MaxChunks \in Nat

VARIABLES
  recorder,     \* where the recording is
  stopFlag,     \* set by finish, and by the callback at the cap
  callback,     \* frames a callback has taken in past the flag, or 0
  written,      \* samples_written
  writer,       \* "none", "open", or "finalized"
  file,         \* samples in the WAV file
  streamError,  \* "none", or where the recording was at the first one stored
  summary,      \* what finish returned
  \* history
  chunks,       \* callbacks that came
  frames,       \* frames of the callbacks whose samples were written
  lost          \* a write to the file failed

recording == <<recorder, stopFlag, callback, written, writer, file,
               streamError, summary, chunks, frames, lost>>

NoSummary == [ok |-> FALSE, samples |-> 0]

RecorderInit ==
  /\ recorder = "idle"
  /\ stopFlag = FALSE
  /\ callback = 0
  /\ written = 0
  /\ writer = "none"
  /\ file = 0
  /\ streamError = "none"
  /\ summary = NoSummary
  /\ chunks = 0
  /\ frames = 0
  /\ lost = FALSE

-----------------------------------------------------------------------------
\* Slip: the last fraction of a sample is cut off.
Truncated(n) == (n * TargetRate) \div SourceRate

\* out_len of resample_linear: each chunk is resampled for itself, to its
\* length at the new rate, rounded half up.
Resampled(n) == (2 * n * TargetRate + SourceRate) \div (2 * SourceRate)

\* The file exists before the stream does; when the stream cannot be built
\* or started the writer goes with it and leaves an empty recording.
StartRecording ==
  /\ recorder = "idle"
  /\ \/ /\ recorder' = "recording"
        /\ writer' = "open"
     \/ /\ recorder' = "failed"
        /\ writer' = "finalized"
     \/ /\ recorder' = "failed"
        /\ UNCHANGED writer
  /\ UNCHANGED <<stopFlag, callback, written, file, streamError, summary,
                 chunks, frames, lost>>

\* finish holds the writer's lock.
Locked == recorder \in {"flushed", "checked"}

StreamRuns == recorder \in {"recording", "stopping"} \/ Locked

\* downmix_and_resample up to the writer's lock.
CallbackBegins(n) ==
  /\ StreamRuns
  /\ callback = 0
  /\ chunks < MaxChunks
  /\ chunks' = chunks + 1
  /\ callback' = IF stopFlag THEN 0 ELSE n
  /\ UNCHANGED <<recorder, stopFlag, written, writer, file, streamError,
                 summary, frames, lost>>

\* Slip: the cap is looked at before the first sample only.
CapSeenLate(k) == IF written < MaxSamples THEN k ELSE 0

\* How many of k samples the loop writes before it reaches the cap.
UpToCap(k) == IF written + k < MaxSamples THEN k ELSE MaxSamples - written

\* The rest of it, under the lock.  A writer already taken gets nothing.
CallbackWrites ==
  /\ callback > 0
  /\ ~Locked
  /\ callback' = 0
  /\ IF writer = "open"
     THEN LET k == UpToCap(Resampled(callback))
          IN \/ /\ written' = written + k
                /\ file' = file + k
                /\ frames' = frames + callback
                /\ stopFlag' = (stopFlag \/ written + k >= MaxSamples)
                /\ UNCHANGED lost
             \/ \E j \in 0..k :
                  /\ j < k
                  /\ written' = written + j
                  /\ file' = file + j
                  /\ lost' = TRUE
                  /\ UNCHANGED <<frames, stopFlag>>
     ELSE UNCHANGED <<written, file, frames, stopFlag, lost>>
  /\ UNCHANGED <<recorder, writer, streamError, summary, chunks>>

\* err_fn keeps the error; the event it emits has no listener.
StreamFails ==
  /\ StreamRuns
  /\ streamError' = IF streamError = "none" THEN recorder ELSE streamError
  /\ UNCHANGED <<recorder, stopFlag, callback, written, writer, file,
                 summary, chunks, frames, lost>>

\* finish up to the writer's lock.
FinishBegins ==
  /\ recorder = "recording"
  /\ recorder' = "stopping"
  /\ stopFlag' = TRUE
  /\ UNCHANGED <<callback, written, writer, file, streamError, summary,
                 chunks, frames, lost>>

\* Slip: the writer is left where the callback finds it.
FinishLeavesWriter ==
  /\ recorder = "stopping"
  /\ recorder' = "flushed"
  /\ UNCHANGED <<stopFlag, callback, written, writer, file, streamError,
                 summary, chunks, frames, lost>>

\* The lock is taken, the writer with it, and finalized, which can fail.
FinishTakesWriter ==
  /\ recorder = "stopping"
  /\ recorder' \in {"flushed", "failed"}
  /\ writer' = "finalized"
  /\ UNCHANGED <<stopFlag, callback, written, file, streamError, summary,
                 chunks, frames, lost>>

\* Slip: the stored error is looked for before the writer is taken.
FinishChecksEarly ==
  /\ recorder = "flushed"
  /\ recorder' = IF streamError \in {"none", "flushed"} THEN "checked" ELSE "failed"
  /\ UNCHANGED <<stopFlag, callback, written, writer, file, streamError,
                 summary, chunks, frames, lost>>

\* A stored stream error makes the stop fail.
FinishChecks ==
  /\ recorder = "flushed"
  /\ recorder' = IF streamError = "none" THEN "checked" ELSE "failed"
  /\ UNCHANGED <<stopFlag, callback, written, writer, file, streamError,
                 summary, chunks, frames, lost>>

\* The counter is read; the lock goes with the return, and then the stream.
FinishReturns ==
  /\ recorder = "checked"
  /\ recorder' = "finished"
  /\ summary' = [ok |-> TRUE, samples |-> written]
  /\ UNCHANGED <<stopFlag, callback, written, writer, file, streamError,
                 chunks, frames, lost>>

RecorderStep ==
  \/ StartRecording
  \/ \E n \in Chunks : CallbackBegins(n)
  \/ CallbackWrites
  \/ StreamFails
  \/ FinishBegins
  \/ FinishTakesWriter
  \/ FinishChecks
  \/ FinishReturns

-----------------------------------------------------------------------------
RecorderTypeOK ==
  /\ recorder \in {"idle", "recording", "stopping", "flushed", "checked",
                   "finished", "failed"}
  /\ stopFlag \in BOOLEAN
  /\ callback \in Chunks \cup {0}
  /\ written \in Nat /\ file \in Nat /\ frames \in Nat
  /\ writer \in {"none", "open", "finalized"}
  /\ streamError \in {"none", "recording", "stopping", "flushed", "checked"}
  /\ lost \in BOOLEAN
  /\ summary \in [ok : BOOLEAN, samples : Nat]
  /\ chunks \in 0..MaxChunks

\* The duration that stop_recording_cmd reports is that of the WAV file as
\* it is from then on: a callback that was past the stop flag when finish
\* came writes before the writer is taken, or nothing at all; the cap is
\* kept; and no stream error is passed over but one that came after finish
\* had looked for it, when nothing was written any more (audio.rs, finish,
\* err_fn and downmix_and_resample).
ReportedIsRecorded ==
  /\ summary.ok => /\ summary.samples = file
                   /\ streamError \in {"none", "checked"}
  /\ file <= MaxSamples

\* Rounding chunk by chunk does not run away: short of the cap, and with no
\* write lost, the file is off by at most half a sample per chunk from what
\* the frames amount to (resample_linear).
Twice(n)      == 2 * n
DriftBounded ==
  (~lost /\ written < MaxSamples) =>
    /\ Twice(file * SourceRate) <= Twice(frames * TargetRate) + chunks * SourceRate
    /\ Twice(frames * TargetRate) <= Twice(file * SourceRate) + chunks * SourceRate
=============================================================================
