---------------------- MODULE CaptureSessionProperties ----------------------
(***************************************************************************)
(* What must hold of the capture backend.                                  *)
(***************************************************************************)
EXTENDS CaptureSession

-----------------------------------------------------------------------------
InferencePc == {"idle", "transcribe", "hear", "structure", "images",
                "trace", "commit", "return"}
SealPc == {"idle", "fingerprint", "reserve", "audio", "images", "write",
           "return"}

SecondOrNone == Seconds \cup {None}

InferenceCall ==
  [pc     : InferencePc,
   audio  : SecondOrNone,
   images : Selection,
   read   : 0..MaxBytes,
   heard  : 0..MaxBytes,
   seen   : Seq(ImageData),
   models : SUBSET Models,
   run    : 0..MaxRuns,
   file   : SecondOrNone]

SealCall ==
  [pc     : SealPc,
   audio  : SecondOrNone,
   images : Selection,
   snap   : Snapshot \cup {None},
   model  : Models \cup {None},
   out    : BundlePath \cup {None},
   blob   : 0..MaxBytes,
   blobs  : Seq(ImageData)]

StateTypeOK ==
  /\ recording \in SecondOrNone
  /\ capturedAudio \in SecondOrNone
  /\ pickedImages \in Selection
  /\ lastPipeline \in Snapshot \cup {None}
  /\ reasoningPath \in SecondOrNone
  /\ runningInference \in BOOLEAN
  /\ runningSeal \in BOOLEAN

CallsTypeOK ==
  /\ infer \in [InferCalls -> InferenceCall]
  /\ seal \in [SealCalls -> SealCall]
  /\ pick \in [pc : {"idle", "dialog", "stage"},
               dir : 0..MaxPicks, count : 0..MaxFiles]
  /\ pick.pc = "stage" => pick.dir \in 1..MaxPicks
  /\ pick.pc = "dialog" => nextPick <= MaxPicks
  /\ discard \in {"idle", "recordings", "reasoning", "staged"}

DiskTypeOK ==
  /\ wav \in [Seconds -> 0..MaxBytes]
  /\ staged \in [1..MaxPicks -> Seq(ImageData) \cup {None}]
  /\ reasoning \in [Seconds -> Trace]
  /\ bundles \in [BundlePath -> {NoBundle, Incomplete} \cup Sealed]

FreshTypeOK ==
  /\ nextBytes \in 1..(MaxBytes + 1)
  /\ nextPick \in 1..(MaxPicks + 1)
  /\ nextRun \in 1..(MaxRuns + 1)
  /\ nextSeal \in 1..(MaxSeals + 1)

\* Every variable has the type of the Rust value or file it stands for; a
\* selection never exceeds MAX_FILES, and the dialog's directory is fresh.
TypeOK ==
  /\ StateTypeOK
  /\ CallsTypeOK
  /\ DiskTypeOK
  /\ FreshTypeOK
  /\ now \in Seconds
  /\ liveModel \in Models
  /\ runs \in [1..MaxRuns -> RunInput \cup {NoRun}]

IsSealed(p) == bundles[p].kind = "sealed"

\* The assets of every complete bundle are the bytes the run that produced
\* its report and reasoning trace hashed when it read them, in the same
\* order: the pinned hashes carried from inference to seal make it so, no
\* matter what records, picks, discards, restarts or other programs did to
\* the files in between (bundle_builder.rs, audit findings T-1 and V-3).
SealedIsWhatInferenceRead ==
  \A p \in BundlePath : IsSealed(p) =>
    /\ bundles[p].audio = runs[bundles[p].trace].audio
    /\ bundles[p].images = runs[bundles[p].trace].images

\* While the application's own commands are the only writers of its files,
\* the audio in a bundle is also the audio the sidecar opened by path to
\* transcribe it, although the hash was taken from an earlier read of the
\* file (transcribe.rs).
SealedAudioWasHeard ==
  \A p \in BundlePath : IsSealed(p) =>
    bundles[p].audio = runs[bundles[p].trace].heard

\* The re-entrancy guards do their work: one run of the pipeline and one
\* seal in flight at most, and a guard is up exactly while its command is
\* in flight (inference_commands.rs and seal_commands.rs, audit T-9).
GuardsAreExclusive ==
  /\ runningInference <=> \E c \in InferCalls : infer[c].pc # "idle"
  /\ runningSeal <=> \E c \in SealCalls : seal[c].pc # "idle"
  /\ \A c, d \in InferCalls :
       infer[c].pc # "idle" /\ infer[d].pc # "idle" => c = d
  /\ \A c, d \in SealCalls :
       seal[c].pc # "idle" /\ seal[d].pc # "idle" => c = d

\* Between runs, the reasoning file the state points to never holds the
\* whole trace of another run, although files are named after the second
\* and a later run of the same second writes over them: it holds the trace
\* of the pipeline result the state holds, unless a discard removed it or
\* the write of a later run of that second failed half-way
\* (inference_commands.rs).
TraceFileMatchesPipeline ==
  lastPipeline # None /\ ~runningInference =>
    /\ reasoningPath # None
    /\ LET file == reasoning[reasoningPath]
       IN \/ file \in {NoTrace, Whole(lastPipeline.trace)}
          \/ ~file.whole /\ file.run > lastPipeline.trace

\* No step of any command truncates, rewrites or removes a complete bundle
\* (seal_commands.rs, T-11: "never truncate an existing bundle").
SealedBundlesPermanent ==
  [][\A p \in BundlePath : IsSealed(p) => bundles'[p] = bundles[p]]_vars

\* A command that began comes to its end and its guard comes down, so that
\* inference and sealing stay available whatever failed
\* (inference_commands.rs, seal_commands.rs).
GuardsComeDown ==
  /\ runningInference ~> ~runningInference
  /\ runningSeal ~> ~runningSeal

-----------------------------------------------------------------------------
(* What the repository says and the code does not do.                      *)

\* The model a complete bundle names answered the run that produced its
\* report (manifest.rs: "Identity of the model that produced the reasoning
\* + structured report").  seal_inner asks the sidecar again at seal time,
\* and nothing pins the model the way the hashes of the assets are pinned.
SealedModelProducedReport ==
  \A p \in BundlePath : IsSealed(p) =>
    bundles[p].model \in runs[bundles[p].trace].models

-----------------------------------------------------------------------------
\* The promise of SealedEvidence, kept by the files of the application.
Evidence ==
  INSTANCE SealedEvidence WITH
    RunIds <- 1..MaxRuns,
    Inputs <- [audio  : Versions,
               images : UNION {[1..n -> ImageData] : n \in 0..MaxFiles}],
    Paths  <- BundlePath,
    done   <- {<<n, [audio |-> runs[n].audio, images |-> runs[n].images]>> :
                 n \in {m \in 1..MaxRuns : runs[m] # NoRun}},
    ledger <- {<<p, bundles[p].trace,
                 [audio |-> bundles[p].audio, images |-> bundles[p].images]>> :
                 p \in {q \in BundlePath : IsSealed(q)}}

\* The capture backend implements SealedEvidence: only complete runs are
\* sealed, with their own inputs, each bundle under a name of its own.
ImplementsSealedEvidence == Evidence!Spec
=============================================================================
