----------------------- MODULE CaptureSessionInvariant -----------------------
(***************************************************************************)
(* The inductive invariant behind the theorems about CaptureSession.  TLC  *)
(* checks its parts on a small instance; CaptureSessionProofs shows that   *)
(* every step preserves it.                                                *)
(***************************************************************************)
EXTENDS CaptureSessionProperties

InferenceOpen(c) == infer[c].pc \in {"transcribe", "hear"}
HasRead(c)  == infer[c].pc \in {"hear", "structure", "images", "trace",
                                "commit"}
HasHeard(c) == infer[c].pc \in {"structure", "images", "trace", "commit"}
HasRun(c)   == infer[c].pc \in {"trace", "commit"}

SealOpen(c) == seal[c].pc \in {"fingerprint", "reserve", "audio", "images",
                               "write"}
HasModel(c) == seal[c].pc \in {"reserve", "audio", "images", "write"}
HasPath(c)  == seal[c].pc \in {"audio", "images", "write"}
HasAudio(c) == seal[c].pc \in {"images", "write"}

\* A call holds real values from the step that obtains them on.
CallsHoldValues ==
  /\ \A c \in InferCalls :
       /\ InferenceOpen(c) => infer[c].audio \in Seconds
       /\ HasRead(c) => infer[c].read \in Versions
       /\ HasHeard(c) => infer[c].heard \in Versions
       /\ HasRun(c) => infer[c].run \in 1..MaxRuns
       /\ infer[c].pc = "commit" => infer[c].file \in Seconds
  /\ \A c \in SealCalls :
       /\ SealOpen(c) => /\ seal[c].snap \in Snapshot
                         /\ seal[c].audio \in Seconds
       /\ HasModel(c) => seal[c].model \in Models
       /\ HasPath(c) => seal[c].out \in BundlePath
       /\ HasAudio(c) => seal[c].blob \in Versions

Typed == TypeOK /\ CallsHoldValues

Committed(n) == n \in 1..MaxRuns /\ runs[n] # NoRun

\* A snapshot pins the digests of what its run took in.
Faithful(snap) ==
  /\ Committed(snap.trace)
  /\ snap.audio = Sha256(runs[snap.trace].audio)
  /\ Len(snap.images) = Len(runs[snap.trace].images)
  /\ \A i \in 1..Len(snap.images) :
       snap.images[i] = Sha256(runs[snap.trace].images[i])

PipelineIsFaithful == lastPipeline # None => Faithful(lastPipeline)

\* The number of a run is used once.
RunsAreFresh ==
  /\ \A n \in nextRun..MaxRuns : runs[n] = NoRun
  /\ \A c \in InferCalls : HasRun(c) =>
       infer[c].run < nextRun /\ runs[infer[c].run] = NoRun

\* What a seal in flight has read so far is what its snapshot pins.
SealsMatchTheirPins ==
  \A c \in SealCalls :
    /\ SealOpen(c) => Faithful(seal[c].snap)
    /\ seal[c].pc = "fingerprint" => seal[c].blobs = <<>>
    /\ HasModel(c) =>
         /\ seal[c].images.count = Len(seal[c].snap.images)
         /\ Len(seal[c].blobs) <= seal[c].images.count
         /\ \A i \in 1..Len(seal[c].blobs) :
              Sha256(seal[c].blobs[i]) = seal[c].snap.images[i]
    /\ HasAudio(c) => Sha256(seal[c].blob) = seal[c].snap.audio
    /\ seal[c].pc = "write" => Len(seal[c].blobs) = seal[c].images.count

SealedIsCommitted ==
  \A p \in BundlePath : IsSealed(p) => Committed(bundles[p].trace)

\* The path a seal in flight holds names no complete bundle, and a name
\* with a fresh UUID names no file.
PathsAreFree ==
  /\ \A s \in Seconds, k \in nextSeal..MaxSeals : bundles[<<s, k>>] = NoBundle
  /\ \A c \in SealCalls : HasPath(c) => /\ ~IsSealed(seal[c].out)
                                        /\ seal[c].out[2] < nextSeal

EvidenceInv ==
  /\ PipelineIsFaithful
  /\ RunsAreFresh
  /\ SealsMatchTheirPins
  /\ SealedIsCommitted
  /\ SealedIsWhatInferenceRead
=============================================================================
