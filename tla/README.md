# A TLA+ verification project for Gemma.Witness

Gemma.Witness records a witness statement and images on a laptop, has a local
model transcribe, structure and cross-check them, and seals everything in a
signed `.witness` file that anybody can verify later without a server. What
makes it hard is not any single function: it is that the bytes are read several
times, by several programs, with awaits, dialogs, restarts and a file system in
between, and that a bundle must nevertheless hold exactly what the model saw.

This directory models that part of the program in TLA+, checks it with TLC on
small instances, and proves the most important facts with TLAPS for every
instance.

## 1. Inventory

### The parts of the system

| part | code | state it keeps | operations |
|---|---|---|---|
| capture session | `apps/capture/src-tauri/src/{state,lib,error}.rs`, `commands/*.rs` | `CaptureState` behind one `tokio::sync::Mutex`; `recordings/`, `staged-images/`, `reasoning/`, `bundles/` | `start_recording_cmd`, `stop_recording_cmd`, `pick_images_cmd`, `run_inference_cmd`, `seal_bundle_cmd`, `discard_capture_cmd`, `initialize_device` |
| recorder | `audio.rs` | a stop flag, a cpal stream, a shared WAV writer, a counter, a stored stream error | start, the device's callback, the stream's error callback, finish |
| capture window | `apps/capture/src/app.svelte`, `lib/*` | phase, recording, images, summary, bundle | the handlers of four buttons and a reset |
| bundle builder | `witness-core/src/bundle_builder.rs`, `bundle_zip.rs`, `canonical.rs`, `manifest.rs` | none | `build_and_seal_bundle`, `write_bundle`, `read_bundle` |
| bundle verifiers | `witness-core/src/verifier.rs`; `apps/verifier/src/*.ts`, `apps/verifier/verify.ts` | none; the page's result area | one report per bundle |
| device key | `keystore*.rs`, `key_provider.rs`, `secure_enclave.rs` | a keychain entry, a cached key | load or create, sign |
| inference client | `witness-inference/src/*` | none | five passes over HTTP, a retry loop, a handshake |
| sidecar lifecycle | `sidecar.rs`, `lib.rs`, `scripts/dev.mjs` | the handle of a child process | probe, spawn, shutdown, interrupt |
| model servers | `inference/*-sidecar` | a process on the port, a PID file | `start.sh`, `stop.sh`; the servers themselves are external |
| fingerprint registry | `witness-fingerprints`, `witness-fingerprint-verify`, `tools/{seed,sign}-fingerprints` | files under `inference/fingerprints/` | seed, sign, load, look up |
| pinned binaries | `tools/check-pinned-binary` | none | compare digests |
| the rest | `witness-cli`, `witness-eval`, `witness-test-sidecar`, fuzz targets, CI | none | argument parsing, printing, tests |

### How they interact

The window calls the commands over Tauri's IPC and waits for one answer each;
several calls may be in flight and their answers may come in any order. The
commands share `CaptureState`, but hold its mutex only in short blocks: a
recording command throughout, a pick only for its last assignment, inference
and seal for two blocks with everything else in between, a discard for its
first block only. They also share files, which no lock protects: the recorder
writes a WAV file from the device's thread, `transcribe()` hashes one read of
it and the sidecar opens it again by its path, and the builder reads it a third
time when the user seals. Instances of the app share one keychain entry,
which is read and then written, and one port; the scripts that start a sidecar
share a PID file, which is checked and then written. Names of recordings, traces and bundles are made of
the second in which they are created. The pipeline's snapshot carries SHA-256
digests from inference to seal; the builder compares them with what it reads.

### What is hard here

* steps of different commands between two lock scopes, and between two reads of
  the same file;
* a restart between any two steps, after which the files are still there and
  the state is not;
* two operations in one second, or after the clock was stepped back;
* failures half-way: a stop that ends the recording and reports an error, a
  seal that leaves its placeholder behind, a discard that stops after one of
  three directories, a seeder that stops between two of its files;
* a format with two verifiers, in two languages, and copies of bundles that
  lose, gain and mix parts on their way;
* commits that land while a CI job signs the state it checked out;
* a sidecar that is restarted with another model, or started twice: by two
  instances, by an instance and a script, by a script while another stops it,
  or by a script that ends between starting the server and recording it;
* the audio thread, which may be past the stop flag when the recording is ended,
  and an error callback that takes another lock than the stop does;
* a first key that two instances create at once, and a keychain that refuses
  between the read and the write of one of them;
* a model that may answer anything: no tool call, arguments that do not meet
  the schema, a verdict inside prose with braces and quotes in its strings;
* the window's phase against the backend's state, with several calls in flight.

`PROJECT.json` lists these one by one, each with its line.

### What makes each part correct

* capture session: a complete bundle holds what its run hashed
  (`SealedIsWhatInferenceRead`) and heard (`SealedAudioWasHeard`), it is never
  touched again (`SealedBundlesPermanent`), the guards exclude
  (`GuardsAreExclusive`) and come down (`GuardsComeDown`), the trace file
  belongs to the snapshot unless a later write of the same second failed over it
  (`TraceFileMatchesPipeline`); in one sentence, it implements `SealedEvidence`;
* window: nothing is asked before its inputs exist (`NothingAskedTooEarly`), it
  never stays busy (`BusyEnds`), and what it shows is what the backend will use
  (`ShownImagesAreUsed`, which is refuted);
* builder and verifiers: what is sealed is accepted (`SealedIsAccepted`), what
  is accepted was sealed (`AcceptedWasSealed`), the two verifiers differ by the
  form of the texts in three known ways and no other (`VerdictsDifferByForm`),
  and an accepted amendment continues a chain of one signer
  (`AmendmentContinuesChain`);
* recorder: what stopping reports is what the file holds, and it passes over no
  stream error it could see (`ReportedIsRecorded`), resampling chunk by chunk does not drift
  (`DriftBounded`), and a run hashes and hears that recording
  (`AnalysedIsWhatWasReported`);
* inference client: a repair quotes the latest arguments and their error
  (`RepairQuotesLatest`), no request too many or too few
  (`RequestsAccounted`), the verdict is read from the right object
  (`VerdictIsReadRight`), and a run ends (`PipelineEnds`);
* device key: a manifest names the key that signs it (`SignatureMatchesSigner`),
  a software key that signs was kept (`SoftwareKeysWereStored`), and a device
  gets another one only when the entry is deleted or two creations cross
  (`OneDeviceKey`);
* sidecar lifecycle: an app that is closed leaves no sidecar of its own
  (`NothingLeftRunning`), a server in the background can be found and stopped
  (`BackgroundIsTracked`), and a seal names the model of the sidecar that
  answered (`ModelNamedRightly`) and finds its row in the registry
  (`RegisteredModelResolves`, which is refuted);
* registry: the verifiers' list says what the registry says
  (`KnownMirrorsRegistry`), what an app can seal later pages know
  (`SealableStaysKnown`), and what is signed can be verified
  (`SignedEnvelopeVerifies`, which is refuted).

## 2. The modules

```
SealedEvidence                 what is promised: runs, inputs, a ledger
CaptureSession                 the backend: state, commands, files, surroundings
  CaptureSessionProperties     type invariant, safety, liveness, refinement
    CaptureSessionInvariant    the inductive strengthening
      MCCaptureSession         symmetry for TLC
      CaptureSessionTypes      proofs: types
        CaptureSessionProofs   proofs: guards, evidence, permanence
          CaptureSessionRefinement  proofs: trace file, audio, SealedEvidence
CaptureApp                     the window, with the backend at coarser steps
  CaptureAppProofs

WitnessBundle                  the archive, and the builder as a function
  BundleVerifiers              the Rust and the TypeScript verifier
    BundleVerification         bundles, copies on their way, properties
      MCBundleVerification     lists of fingerprints and symmetry for TLC
      BundleVerificationProofs

FingerprintRegistry            seeder, signing job, builds, properties
  FingerprintRegistryProofs

Recorder                       one recording, with the stream's thread
VerdictObject                  the scan for the verdict, and a grammar to check it
  InferencePipeline            the passes, one request at a time
    RecordedIncident           Recorder and InferencePipeline over one WAV file
      MCRecordedIncident       texts for TLC
      RecordedIncidentProofs

DeviceKey                      signers of seals, over one keychain entry
SidecarLifecycle               apps, scripts and servers, over one port
  CaptureLaunches              both, and the model a seal asks for
    MCCaptureLaunches          launchers, environments and a registry for TLC
    CaptureLaunchesProofs
```

The groups meet where the code does. RecordedIncident is what CaptureSession
takes as one step each (`StopRecording`, and the passes of a run);
CaptureLaunches opens up `ResolveFingerprint` and the signature of a seal, and
where CaptureSession's `SidecarSwaps` comes from. CaptureSession's `CreateArchive`
and `FinishArchive` are the moment at which WitnessBundle's `Archive` is made,
from the bytes that the seal has read. The registry's `app` and `page` are what
BundleVerification takes as `Registered` and as one of `KnownLists`.

### CaptureSession

`CaptureState` is seven variables with the names of its fields. Each command is
as many actions as it has steps that others can come between:

| command | actions |
|---|---|
| `start_recording_cmd`, `stop_recording_cmd` | `StartRecording`, `StopRecording`; one each, since the mutex is held throughout; `CaptureSamples` is the device's callback |
| `pick_images_cmd` | `OpenDialog`, `CreateStagingDir`, `StageImage` per file, `CommitPick`; `LeavePick` for a cancelled dialog and every refusal |
| `run_inference_cmd` | `BeginInference` (first lock scope), `HashAudio`, `HearAudio`, `StructureIncident`, `AnalyzeImage` per image, `CheckConsistency`, `WriteTrace`, `CommitPipeline` (second scope), `ReturnInference` (third); `InferenceFails` from every step before the commit, `TraceCutShort` when the write of the trace fails after it emptied the file |
| `seal_bundle_cmd` | `BeginSeal`, `ResolveFingerprint`, `ReservePath`, `ReadAudio`, `ReadImage` per image, `CreateArchive`, `FinishArchive`, `ReturnSeal`; `SealFails` from every step |
| `discard_capture_cmd` | `BeginDiscard`, then one action per directory; `DiscardFails` |

`Crash` ends the process anywhere and starts it again: the state is the
default, every call is gone, every file is as it was. `ClockMoves`,
`SidecarSwaps` and `ExternalWrite` are the surroundings: a clock that may be
stepped, a sidecar that may be restarted with another model, other programs of
the account that rewrite a recording or a staged image.

A command that a guard refuses changes nothing and is a stuttering step. The
data is abstracted to what the properties tell apart: the bytes of a WAV file
are a version number (every write by the recorder is a new one), an image's
bytes are a member of a small set, a digest is a tagged value of the bytes, a
run's texts are the number of the run. A file name made of the clock is the
second it was made in. `runs` is a history variable: what each committed run
really took in. An `ExternalWrite` puts bytes of one recording over another,
never bytes that hash like others without being them: SHA-256 is taken to be
injective.

Each `Slip` operator before a definition is a plausible mistake in that line of
the code; PROJECT.json pairs it with the property that detects it.

### SealedEvidence

Two actions: a run is carried out on some inputs, and a bundle of a run that
was carried out is filed under a name not yet taken. Nothing is ever revised.
The refinement mapping (`Evidence` in CaptureSessionProperties) takes a run to
be carried out when its snapshot is committed and a bundle to be filed when its
archive is complete; everything else the backend does is a stuttering step.

### CaptureApp

The window's handlers are cut at their `await`: a click runs to the call, the
answer runs the rest. What is on screen (`SealedShown`, `ReviewShown`,
`CaptureShown`, the `disabled` conditions) decides which clicks there are.
`Calls` is the number of handlers that can be waiting at once. The commands
change the same state as in CaptureSession, in one step each, or three for the
two long ones (guard up, work, guard down).

### WitnessBundle, BundleVerifiers, BundleVerification

`Archive` is what `build_and_seal_bundle` makes of its inputs once it has read
them. An archive is a record: the text of the manifest, the signature document,
and a function from paths to bytes for everything else. A digest is a tagged
value of the bytes; a signature is a record of the key and of what it is over,
so a signature made by a key exists only where that key signed.

The text of a manifest has one of five forms. `canonical` is what the builder
writes; `reformatted` means the same but is laid out differently; `extended`
carries fields that the format does not know; `nulled` spells out an optional
field that is absent as null; `lax` says the same to a lax reader only, with a
field given twice or an integer written as 1.0. The text of `signature.json` is
`plain` or `lax`: with a field added or repeated, or its base64 broken into
lines. The two verifiers read these differently. serde refuses unknown and
repeated fields and fractions, in both files, and signs over what the struct
serializes to, without the optional fields that are null (`CoreParses`,
`CoreCanonical`). The page keeps the fields it does not know, takes what
`JSON.parse` made of the rest, and canonicalizes the whole object, nulls
included (`PageReads`, `Canonical`). What follows for the verdicts is a property
(`VerdictsDifferByForm`): an unknown field of the manifest is refused by both,
since no signature is over it; a null is refused by the page alone; a lax
manifest or signature document by the Rust verifier alone. A text has one form
at a time, so that combinations of two deviations are not told apart.

| code | definitions |
|---|---|
| `verify_bundle` and its checks (`verifier.rs`) | `CoreReads`, `CoreSignature`, `CoreAssets`, `CoreNoExtraEntries`, `CoreFingerprint`, `CoreAmendment`, together `CoreAccepts` |
| `verifyBundle` and its checks (`apps/verifier/src`) | `PageReads`, `PageSignature`, `PageAssets`, `PageFingerprint`, `PageSigner`, `PageAmendment`, together `PageAccepts` |
| callers of the builder | `SealAny`: any key, contents, images and registered model; amendments come only from callers of the library, since the app passes none |
| whoever handles a copy (external) | `Send`, `LoseEntry`, `LoseManifest`, `LoseSignature`, `PutEntry`, `Reform`, `ReformSignature`, `RefreshDigests`, `MixManifest`, `MixSignature` |

A bundle id is the place in the order of sealing: ids are fresh UUIDs in the
code, and nothing compares them but for equality. What BundleVerification says
of their order (`AmendmentContinuesChain`) is about the order of sealing.

### FingerprintRegistry

| code | actions |
|---|---|
| `seed-fingerprints` | `FetchPointer`, `WriteEntry`, `EnsureIndexIncludes`, `RegenerateKnownFingerprints`, one per file it writes; `SeedStops` between any two |
| the model hub (external) | `UpstreamMoves` |
| `sign-fingerprints` | `Recompute`; `VerifyEnvelope` is `verify`; `SignatureVerifies` with it is `verify --require-signed`; `Finalized` is `finalize` |
| the jobs of `sign-fingerprints.yml` | `SignEnvelope` (the verify job, finalize, cosign, in the job's checkout), `ProposeEnvelope`, `JobFails`; `MergeProposal` is the maintainer's |
| `witness-fingerprints/build.rs` | `BuildApp` |
| `apps/verifier/build.mjs`, `build-verify-registry.mjs` | `BuildPage` |

Entries are a hash and a time; an entry that is seeded again with the same hash
has another digest, since its times differ. A digest of files is represented by
their contents. Commits are made between two runs of the seeder (`Committed`),
not in the middle of one; after a run that stopped, the maintainer may commit
what it left. The job works on a checkout and its pull request is merged into
whatever the branch is by then. One pull request is open at a time.

At a commit with one weight file a pair of model and revision always has the
same hash. `Changing` are the pairs of which this is not so: a branch, or a
choice among several files by `--primary-file`.

`JobIdentity` is the certificate identity that the CA gives the workflow which
runs cosign, a fact outside the sources. The step of the verify job that
requires a signature depends on the event `workflow_call`. A called workflow
sees the event of its caller, which is `workflow_dispatch` in `release.yml`, so
no path through the workflows takes that step: `VerifyEnvelope` has none, and a
release, which waits for the whole called workflow, is one more way to start
`SignEnvelope`.

### Recorder, VerdictObject, InferencePipeline, RecordedIncident

| code | definitions |
|---|---|
| `start_recording` (`audio.rs`) | `StartRecording`, with the two ways it fails after the file was created |
| the stream's callback, `downmix_and_resample` | `CallbackBegins` up to the writer's lock, `CallbackWrites` under it; `Resampled` is the length `resample_linear` makes of a chunk, `UpToCap` the loop that stops at the cap |
| `err_fn` | `StreamFails`, at any time until the stream is dropped at the end of `finish` |
| `finish` | `FinishBegins` sets the flag, `FinishTakesWriter` takes and finalizes the writer under its lock, `FinishChecks` looks for a stored error, `FinishReturns` reads the counter |
| `run_full_pipeline` and the passes | `BeginPipeline`, `PreparationFails`, `PostChat`, `PostFails`, `Transcribed`, `ImageDescribed`, `AllDescribed`, `VerdictAnswered` |
| `structure_incident` | `Structured`, `NoToolCall`, `BadArguments`; `BuildRequest` is what a repair quotes |
| `parse_verdict` and its two scans (`check_consistency.rs`) | `ScanByte` and `ScanFrom` (the loop), `Locate`, `LocateLast`, `VerdictSpan` |

The callback is two steps because it looks at the stop flag before it takes the
writer's lock, so a stop may come in between. The stop is four because the error
callback takes a lock of its own and the stream is alive until `finish` returns:
an error that comes after the check at `audio.rs:235-239` is stored, and the stop
succeeds all the same. `streamError` keeps the step of the stop at which the
error was stored, and `ReportedIsRecorded` says that only such a late one is
passed over. Samples are counted, not valued. A write that fails is neither in
the file nor counted.

The scan for the verdict is modelled byte by byte, over the five kinds of bytes
it tells apart: `ScanFrom` is what the loop knows after each byte, and the two
Booleans of the code are one `Mode`, since an escape is always in a string. Next
to it VerdictObject says by a grammar, without a scan, what an object in a text
is: a span from an opening to a closing brace whose other braces and quotes all
lie in strings or in shorter objects, and a reading of a text is a set of
objects apart from each other that covers every opening brace. A brace inside a
string of an object opens none. `VerdictIsReadRight` compares the two. An answer has a
content and a thinking channel, and both may hold anything of `Texts`: drafts in
the thinking channel next to an object in the content, or an object there next
to a content without one.

A tool call is the number of the attempt that made it, an error the number of
the attempt it is about. `PostFails` is every way a request ends without an
answer the pass can use, the timeout included.

### DeviceKey, SidecarLifecycle, CaptureLaunches

| code | definitions |
|---|---|
| `choose_signer`, `software_signer` (`seal_commands.rs`) | `ChooseSigner`, `EnclaveFails`, `ReadFails`, `WriteFails` |
| `with_key` of the two providers (`key_provider.rs`, `secure_enclave.rs`) | `Held`, `Cached`, `CallSign`, `Sign` |
| `generate_sep_key` | `EnclaveGenerates` |
| `load_or_create_signing_key` (`keystore.rs`) | `ReadEntry`, `WriteEntry` |
| `delete_device_key`, and the user | `DeleteEntry` |
| `ensure_sidecar`, `shutdown` (`sidecar.rs`, called in `lib.rs`) | `Probe`, `Spawn`, `Exit` |
| `dev.mjs` on an interrupt; an app that is killed | `Interrupt`, `CrashApp` |
| `start.sh` of mlx and mistralrs | `CheckPidFile`, `StartServer`, `OpenPid`, `WritePid`, `WaitEnds`, `ScriptFails`; `RunByHand` when an operator runs it |
| `stop.sh` of both | `StopKills`, `StopRemoves` |
| a server (external) | `Bind`, `ServerDies`, `Listed` |
| `fetch_active_model_id` (`http.rs`) | `ActiveModel`, `AskModel` |
| `revision_for_model_id`, `witness_fingerprints::lookup` | `RevisionFor`, `Lookup`, `ModelUnknown` |
| the rest of a seal | `BeginSeal`, `BeginSign`, `FinishSeal`; `RefuseSeal` for every refusal |

A provider lives as long as its seal and is called twice, for the public key
and to sign; the keychain may change or refuse in between. Keys are numbered as
they are generated, and a Secure Enclave key is never stored. A script spawned
by an app with mlx becomes the server (`exec`), so the handle the app holds is
the server's; in all other cases the server is a process of its own and only
the PID file knows it. Both kinds of scripts are modelled with their
differences: mlx removes a stale PID file when it checks, mistralrs overwrites
it later.

A script starts its server, and then records it: `echo` empties the PID file and
writes to it. Where the script is killed in between (by `shutdown`, an interrupt,
a failing `echo` under `set -e`), a live server is left that no PID file names;
the script is then `cutOff`. Likewise two scripts of one kind that both check the
PID file before either writes it, or a stop that removes the file another script
has just written, leave a server behind that it does not name, and both are then
in `crossed`. `BackgroundIsTracked` says of each single server that these are the
only ways to lose track of it.

Two instances that both find the keychain entry missing do create two keys:
nothing in the code excludes it. `deletions` counts how often the entry was
deleted, `crossings` how often a key was generated while another was still to be
written, and `OneDeviceKey` says that at most one software key has signed, and
one more for each of these. The race of two first calls happens in the run, and so does a
deletion between two seals.

## 3. The runs

| run | instance | what it shows |
|---|---|---|
| `session_integrity` | 1 inference, 1 seal, 2 image contents, up to 2 images, 2 versions of audio, other programs write | `TypeOK`; a bundle holds what its run hashed, though every file may be rewritten between any two reads |
| `session_overlap` | 2 inferences, 2 seals, 2 seconds, 2 runs, 2 bundles, no images | the guards exclude, the trace file belongs to the snapshot or was torn by a later write of its second, complete bundles are permanent |
| `session_implements` | 1 inference, 1 seal, 2 bundles, 4 versions of audio, fairness | a bundle's audio is what the sidecar heard; guards come down; the backend implements SealedEvidence |
| `session_model` | 2 models | refuted: a bundle names the model that produced its report |
| `app_window` | 2 handlers in flight, 2 selections, 2 recordings, 2 runs | nothing is asked too early; the window never stays busy |
| `app_images` | 1 handler | refuted: the images shown are the images used |
| `bundle_transit` | a software key and an attesting hardware key, one of them revoked, 2 contents, 1 image, 2 bundles, 2 changes to a copy, 4 lists of fingerprints | sealed bundles are accepted, accepted copies were sealed, the verifiers differ by the form of the texts in exactly three ways, amendments continue their chain |
| `registry_lifecycle` | a branch and a commit, 2 hashes, 2 seeds, 2 signings, an accepted identity | the list mirrors the registry after a finished seed; what an app was built with, later pages know |
| `registry_identity` | the same, with the identity of the workflow that runs cosign | refuted: what the job signs, the gates accept |
| `pipeline_run` | a recording of up to 3 chunks of 1 or 3 frames at 3 to 2 frames a sample and a cap of 4 samples, a run over it with up to 1 image, 3 attempts, a content and a thinking channel of up to 7 bytes, fairness of the run | what was reported is recorded, hashed and heard, and no error that could be seen is passed over; repairs, requests and the verdict are right; a run ends |
| `launch_lifecycle` | an app with mlx and a model of its own, an app with mistralrs, a script of each kind by hand, 3 models, 2 seals, 1 fault, 2 tasks | keys and signatures match, nothing is left running, servers are tracked, models are named |
| `launch_mistralrs` | the same without faults, 1 seal | refuted: a model of the registry is found in it |

Why these bounds are enough. The hazards are races of a small number of steps:
one command reads, another writes, the first uses. `session_integrity` gives
the writer a second version of everything the reader may read and leaves the
other dimensions at one. Two images make order and count matter.
`session_overlap` needs two callers to violate a guard, two seconds for a name
to differ and one for it to collide, and two runs and two bundles for the later
one to disturb the earlier. `session_implements` needs a second recording of
the same second between the reads of a run (two writes each), hence four
versions. In `app_window` two handlers are the least that can answer out of
order, and two recordings, selections and runs the least that can be confused.
In `bundle_transit` two bundles are the least whose parts can be mixed, two
changes the least that can hide one another (a file and its digest, a manifest
and its signature), and one image is a path that some bundles have and others
lack. The lists are one with the sealed row, two with a second model of the
same hash before or after it, and one that has the model with another hash.
`registry_lifecycle` needs a second seed to find what the first left undone or
to land while a job runs, and a second signing to cover another state.
`registry_lifecycle` gives the job an identity that the gates accept, as the
comments of the workflows intend, so that envelopes are signed and merged while
seeds go on; that the repository has another one is what `registry_identity`
refutes.
`pipeline_run` takes rates at which a chunk of one frame rounds up and one of
three is exact, so that rounding adds up, and a cap that a chunk can meet, pass
or miss; three chunks put one before, one across and one after a stop. Seven
bytes hold two objects, an object with a brace in a string, one with an escaped
quote in a string, and a nested object next to either. Of six and seven
bytes, the texts that begin and end with a brace are tried (`MCTexts`). One of the
two channels is anything of these and the other is empty, idle talk or an object
(`MCShortTexts`), each way round, so that an object in one wins over or stands in
for whatever the other holds. The theorem `VerdictReadRight` takes any set of
texts, that of all texts included. `launch_lifecycle` has a launcher of each way
a server comes to be: the foreground of an app, the background of an app, the
background by hand, of either kind. Two share the mistralrs PID file and all
four the port; an mlx server by hand shares its PID file with a script that an
app runs, which checks it and does not write it. `MaxTasks` bounds the
seals, the scripts run by hand and the stops under way, taken together: two of
any of these are the least that can race, and two seals the least that can name
different keys. Its fault is one of a refused keychain, a deleted entry, a crash,
an interrupt, a script that fails or a server that dies.
What TLC cannot say about larger instances the theorems do, for the properties
they cover. All the bounds are constants: `MaxBytes`, `MaxPicks`, `MaxRuns`,
`MaxSeals` in CaptureSession (`MaxFiles` is the code's own `MAX_FILES`),
`MaxTakes` and `MaxRuns` in CaptureApp, `MaxImages`, `MaxSeals` and
`MaxChanges` in BundleVerification, `MaxSeeds` and `MaxSignings` in
FingerprintRegistry, `MaxChunks`, `MaxImages`, `Texts` and `ShortTexts` in
RecordedIncident (`MaxRetries`, `MaxSamples` and `TargetRate` are the code's
own), `MaxSeals`, `MaxTasks` and `MaxFaults` in CaptureLaunches. Reaching one disables the action that
would exceed it; commands still end, since their failure is always possible.

Symmetry. In the safety runs the calls, the seconds, the image contents and the
models are interchangeable: no action orders or names one. `bundle_transit`
uses the symmetry of the contents only, since keys differ in kind and models in
their place on the lists. Runs with a liveness
property or a refinement use no symmetry.

Fairness. `FairSpec` assumes weak fairness of the steps of each inference and
each seal: tokio schedules every task, file operations end, and every request
carries a client timeout (`witness-inference/src/client.rs`). Nothing is
assumed of users, dialogs, the recorder, the clock or the sidecar's choice of
model. CaptureApp assumes the same of a call that was sent and of its answer,
and that nobody has to click. RecordedIncident assumes weak fairness of the
steps of a run as a whole (`Infer`), for the reasons given for inference; the
recorder, the device and the user are free. The other specifications assume
none.

Deadlock is checked in the runs of the session, the window, the bundles and the
registry; a stuttering clock, restarts, clicks, copies that are sent again and
branches that move keep these systems going. A run of the pipeline ends, and
instances of the app may all be closed: the runs of RecordedIncident and
CaptureLaunches say CHECK_DEADLOCK FALSE.

## 4. What is proved

What `CaptureSessionTypes`, `CaptureSessionProofs` and
`CaptureSessionRefinement` prove holds for every value of the constants that
satisfies the module's assumptions: natural bounds, a `None` that is not a
second, a Boolean `ExternalWrites`.

* `TypeCorrect`: `Spec => []TypeOK`. `TypeOK` is not inductive. That
  `CommitPipeline` writes a snapshot of the right type depends on the call
  having read a file that existed (`read # 0`), and this on the step it is at.
  `CallsHoldValues` says what a call holds at each of its steps, and
  `Typed == TypeOK /\ CallsHoldValues` is inductive. There is one lemma per
  group of variables (`StateTyped`, `FreshTyped`, `DiskTyped`, `CallsTyped`,
  `ValuesHeld`, `WorldTyped`), each split on the actions that change the group.
* `GuardsExclusive`: `Spec => []GuardsAreExclusive`. Inductive with `Typed`.
* `SealedEvidenceIntegrity`: `Spec => []SealedIsWhatInferenceRead`. The
  argument follows the digests. A committed run is recorded once and never
  again (`RunsAreFresh`: the next run's number is unused; `OnlyCommitsRecord`).
  A snapshot that is `Faithful` carries the digests of what its run took in;
  so do the state's (`PipelineIsFaithful`) and those of every seal in flight. A
  seal past its comparison holds bytes whose digests are its snapshot's
  (`SealsMatchTheirPins`), and since a digest determines its bytes they are the
  run's (`SealedIsCommitted`). What happens to the files in between never
  enters, which is the point of pinning.
* `Permanence`: `Spec => SealedBundlesPermanent`. A seal writes only to its
  own path; that path never holds a complete bundle (`PathsAreFree`) because
  it was either absent when chosen, or carries the number of this seal, which
  no other has.
* `TraceFileMatches`: `Spec => []TraceFileMatchesPipeline`. From the write of
  a trace to the commit of its run, the file belongs to the run in flight, and
  otherwise to the result the state holds (`TraceKept`), or was torn by a run with
  a higher number whose write failed after it had emptied the file: a run of the
  same second shares its name. That no other run can be in between is
  `GuardsAreExclusive`.
* `AudioWasHeard`: without other writers, `Spec => []SealedAudioWasHeard`. The
  hash is of one read of the file and the transcript of another, so the two
  can differ. But the application never brings bytes back (`BytesAreNew`), so
  a version recorded over between the two is in no file any more
  (`HeardOrGone`, for calls in `CallsHear`, for committed runs in
  `RunsHeard`). A seal that finds the pinned bytes on disk therefore seals a
  run that heard them (`SealsHeard`).
* `Implements`: `Spec => ImplementsSealedEvidence`. `CommitPipeline` maps to
  `CarryOut` (the run's number is new by `RunsAreFresh`, and its images are no
  more than `MaxFiles` by `SeenBounded`), `FinishArchive` to `File` (the name is
  free by `PathsAreFree`, the inputs are the run's by `FinishedIsCommitted`), and
  every other step stutters (`OthersStutter`).
* `CallsAreFinite`: short of a crash, a step leaves a call in flight alone or
  takes it nearer to its return, and no call has more than `MaxFiles + 7` steps
  (`InferenceLeft`, `SealLeft`). That a seal copies a bounded number of images
  rests on `SeenBounded` and on the digests it compares.
* `OneModelIsNamed`: `Spec /\ [][UNCHANGED liveModel]_vars =>
  []SealedModelProducedReport`. `session_model` refutes the property; the theorem
  says that a sidecar restarted with another model is the only cause. A run that
  has an answer has one of the model being served, and a seal that asked holds
  its name (`OneModelAnswers`).

`BundleVerificationProofs` assumes that the constants are of their kinds, that
trusted keys are keys, and that `None` is no text and no signature document
(`NoneAssumption`). One invariant carries it, `Sound`: types; every sealed
bundle is as the builder makes it and links to an earlier one (`SealedWell`);
and the signature document of a copy, whatever was done to the copy, is one
that some sealed bundle has (`ReceivedSigned`), because nobody but the builder
makes signatures.

* `BundlesTyped`: `Spec => []TypeOK`.
* `AcceptedSealed`: `Spec => []AcceptedWasSealed`. A signature that verifies is
  over the canonical manifest of the bundle it came from, so the copy's
  manifest is that bundle's (`SignatureTies`, `CoreTies`); the listed assets
  are all there with their digests and nothing else is, and digests determine
  bytes (`DigestsDetermine`), so the files are that bundle's too.
* `VerifiersDiffer`: `Spec => []VerdictsDifferByForm`. For a manifest with unknown
  fields the Rust verifier stops at parsing and the page at the signature: no
  signature is over an extended text. With a null spelled out, Rust verifies over
  the text without it, which is what was signed, and the page over the text with
  it, which nobody signed. Here `Sound` is needed: signatures are over canonical
  texts only. A lax text is refused by Rust at parsing and is canonical to the
  page; the other checks match one by one.
* `SealedAccepted`: `Spec => []SealedIsAccepted`, from `BuilderMakesWell`.
* `AmendmentsContinue`: `Spec => []AmendmentContinuesChain`.

`CaptureAppProofs` assumes natural bounds, a `None` that is neither a number nor
a result, and that picking nothing is no selection (`AppBounds`, `AppValues`,
`ResultAssumption`).

* `AppTyped`: `Spec => []TypeOK`. The part of `TypeOK` that says a guard is up
  only under a call needs to know which call raised it (`GuardsHeld`).
* `NothingEarly`: `Spec => []NothingAskedTooEarly`. What the window shows may
  lag behind the backend but never lead it: a recording shown is one the backend
  has, a summary shown is of a result it has, and the same of every answer still
  on its way (`Backed`, `CallsBacked`).
* `BusyBacked`: `Spec => []BusyIsBacked`. In a phase that disables every control
  a call is in flight whose answer ends it; an answer to another handler, come
  late, does not enter or leave that phase.
* `CallsAdvance`: a step leaves a call alone, sends it, or takes it nearer to
  its answer, four stages at most (`StagesLeft`), and the answer ends its phase.

`FingerprintRegistryProofs`:

* `RegistryIsTyped`: `RegistrySpec => []RegistryTypeOK`. A list derived from the
  index is one of fingerprints only because every row of the index has its entry
  (`RowsHaveEntries`), which the order of the seeder's writes provides: the
  entry first, then the row (`SeederHolds`).
* `KnownMirrors`: `RegistrySpec => []KnownMirrorsRegistry`. The property is not
  inductive: a seed may end only from a step at which the list was just derived
  or which is marked as unfinished (`SeedsAreMarked`, in `Mirrored`).
* `SealableKnown`: `RegistrySpec => SealableStaysKnown`. Rows of the index are
  added and never moved (`RowsStay`), and what is written of a pair that does not
  change has the one hash it is served with (`PinsHold`), so the registry that an
  app was built with is contained in every later one (`Lasting`); a page built
  from a finished seed has a row for each of its rows by `KnownMirrorsRegistry`.

`RecordedIncidentProofs` assumes rates and a cap that are not zero and bounds
that are natural numbers. The invariant has four parts beside the types, one
per argument.

* `RunTyped`: `Spec => []TypeOK`; that the request counter stays in its range
  needs `Accounts`, which relates it to the pass, the attempt and the images.
* `Reported`: `Spec => []ReportedIsRecorded`. The counter is the length of the
  file at every step, and from the second step of a stop on the writer is
  finalized, after which no callback writes. A stop that has looked for an error
  and goes on has found none, so an error next to a successful summary was stored
  after that (`Written`).
* `DriftIsBounded`: `Spec => []DriftBounded`, from one fact about division: the
  rounded length of a chunk is off by at most half (`ResampledWithinHalf`). It holds
  for all rates; the callback that has begun is counted before it has written.
* `AnalysedReported`: the file no longer grows once a stop has succeeded, and
  the hash and the sidecar both see it after that (`Analysed`).
* `RepairsQuoteLatest` and `RequestsAreAccounted`, from the order of attempts,
  errors and arguments (`Repairs`) and from `Accounts`.
* `ReportedStays`: once a stop has succeeded, no step changes the file or what
  was said of it; a late callback finds the writer gone.
* `RunsAreFinite`: each step of a run takes one away from `StepsLeft`, which
  counts two steps per request that is still possible, and none are left exactly
  when the run is done or failed.
* `ScanReadsRight`: on every pair of texts without a stray brace, of any length,
  the scan finds what the grammar says (`VerdictSpan = ReadSpan`), both texts
  non-empty included. A scan that enters a string in the plain mode leaves it in
  the plain mode at the same depth (`StringScanned`), and one that enters an
  object leaves it so, after a depth above its own throughout (`ObjectScanned`);
  so what `Locate` finds is the next object of any reading (`NextLocated`), and
  what `LocateLast` finds is the last one (`LastLocated`).
* `VerdictReadRight`: `Spec => []VerdictIsReadRight`, from `ScanReadsRight`, for
  any `Texts` and `ShortTexts`; with both the set of all texts, content and
  thinking channel are any two texts.

The library's induction theorems take an operator and cannot be used here, so
the induction on length is derived. `NatInductive` says of a set of numbers that
contains 0 and all successors that it contains every number: otherwise, going
one down would map the missing numbers up to a missing `m` injectively into
those below `m`, which are fewer, against the pigeonhole fact of
FiniteSetTheorems. `Strong`, `Upwards` and `Downwards` are the forms the proofs
use, and `Recursion` makes a recursive function of VerdictObject (`ScanFrom`,
`LastFrom`) satisfy its equation.

`CaptureLaunchesProofs` assumes what the constants are, for any number of
instances, scripts, models and rows.

* `LaunchesTyped`: `Spec => []TypeOK`.
* `SignersNamed`, `SoftwareKeysStored`, `DeviceKeyIsOne`: what a provider holds
  at each step of its two calls (`KeysSound`). A software key past the write
  was stored. For the number of keys, `Creations` counts the keys that are stored
  or on their way to the entry (`Made`). A key is made only for an entry that was
  found missing. That happens first when there is none, then after a deletion, or
  while another key is still on its way, which is a crossing; so `Made` stays
  within `Budget`, and only stored keys sign.
* `ClosedLeavesNothing`: an mlx script is a child of its app until it ends, and
  the server it has become is the child itself (`ProcessesSound`).
* `TrackedInBackground`: `Spec => []BackgroundIsTracked`. A script that has not
  met another one has the PID file of its kind to itself (`Tracks`): between check
  and write no other script of the kind is there and no stop is under way, and
  from its write on the file names its server as long as this lives, since other
  scripts find it alive and leave the file alone. A server is there only when its
  script went that far (`ServersFollow`).
* `ModelsNamed`: from what the listing of each kind of server contains
  (`Asking`).

Only model-checked: the three liveness properties, `PipelineEnds`,
`GuardsComeDown` and `BusyEnds`, because fairness is stated with ENABLED, which
is out of the prover's reach. What they rest on apart from fairness is proved:
`RunsAreFinite`; `CallsAreFinite` with `GuardsExclusive`; `CallsAdvance` with
`BusyBacked`. What is left to TLC is that a run or a call in flight always has a
step it can take.

## 5. What the code does and should not

Each is a run whose property TLC refutes, with the counterexample in words.

1. `session_model`. Inference runs against one model. The sidecar is restarted
   with another one. The user seals: `seal_inner` asks the sidecar for its
   model now, checks it against the registry and the weights on disk, and puts
   it in the manifest as the "Identity of the model that produced the reasoning
   + structured report" (`manifest.rs`). The pipeline pins the digests of its
   inputs but not the identity of its model.
2. `app_images`. After a seal, "Start a new capture" clears the window but
   tells the backend nothing, so `picked_images` still names the images of the
   sealed capture. The window shows none, since images are optional; the next
   run analyses the old ones and the next bundle contains them. Shorter:
   opening the dialog a second time and cancelling it clears the list on screen
   and not in the backend.
3. `registry_identity`. The only workflow that runs cosign over the registry is
   `sign-fingerprints.yml`, so that is the workflow its certificates name. Both
   verifying ends pin `release.yml@refs/tags/v`. The job's own last step,
   `verify --require-signed`, refuses what the job has just signed, no pull
   request is opened, and the envelope stays a placeholder; the page then
   accepts no bundle. `signature.rs:3` says it is signed with the release
   workflow's identity. A release does not help. It calls the same workflow, and
   a called workflow sees its caller's event, `workflow_dispatch`
   (`release.yml:14`). So the step that requires a signature
   (`sign-fingerprints.yml:71-73`) is skipped, and the signing job, which is to be
   skipped then (`:79-82`), runs and fails at its last step, and with it the
   release. The comments say otherwise: that an unsigned envelope is rejected by
   this gate (`release.yml:35-38`, `sign-fingerprints.yml:19-21`), that the gate is
   the only step a release waits on, and that nothing is signed at tag time
   (`sign-fingerprints.yml:43-46`, `:79-81`).
4. `launch_mistralrs`. A mistralrs sidecar serves `google/gemma-4-E4B-it`, the
   default of its script. `fetch_active_model_id` names it rightly, and the
   registry's index has a row for it, at its own revision. But
   `revision_for_model_id` gives every model but the mlx one the revision
   `main`, so the lookup finds no row and the seal is refused as "not in the
   pinned fingerprint registry". `mistralrs-sidecar/README.md:34` says that the
   app picks the matching entry by that name.

Noticed while modelling, and contradicted by the repository's own words, though
not as the property of a run:

* A mistralrs server spawned by the app is in the background and outlives the
  app: its `start.sh` ignores `GW_SIDECAR_FOREGROUND`, and shutdown ends the script
  it holds, not the server. An mlx server outlives an app that is killed.
  `sidecar.rs:7-8` says that the spawned child runs in foreground mode,
  `sidecar.rs:26-28` that "the sidecar always terminates with the app".
  `NothingLeftRunning` says it of mlx, the default, and of an app that is closed.
* The two verifiers give different verdicts on texts whose form is not the
  builder's (`VerdictsDifferByForm`). `README.md:169` says that "The JS verifier
  enforces the same gates" as the Rust one on every field of `signature.json`, but
  an additional field there is refused by Rust alone (`manifest.rs:195-203`
  against `bundle-reader.ts:324-334`). `README.md:170` puts serde's
  `deny_unknown_fields` and the page's `validateManifest` side by side, but the
  latter keeps what it does not know. `spec/bundle-format.md:22` says that a
  manifest with non-canonical floats must not verify: the page, which parses
  before it canonicalizes, accepts 1.0 for 1. Conversely an optional field spelled
  out as null is accepted by Rust and refused by the page
  (`manifest.rs:39-40` against `bundle-reader.ts:306-317`). What is accepted in any
  of these forms still says what was sealed (`AcceptedWasSealed`).

Noticed while modelling, where nothing in the repository is contradicted or the
window never gets there:

* A trace that cannot be written (a full disk) has already emptied the file of
  its second. When an earlier run of that second is the one whose result the state
  still holds, its trace on disk is lost; the seal does not read it there.
* An error of the stream that is stored after the stop has looked for one is
  passed over, and the stop succeeds.
* `discard_capture_cmd` releases the mutex before it removes its directories,
  so a recording begun in between goes on into an unlinked file. The window
  never calls it.
* A stop that reports an error (`finish()` could not finalize the writer) has
  already taken the handle; the window stays in its recording phase and every
  further click is refused.

## 6. What is not modelled

* `initialize_device`, its handshake and the sidecar's token: the window never
  calls it, and nothing requires the token of a server.
* In CaptureSession's seal, the choice of a signer and the signature are one
  step that succeeds or fails; CaptureLaunches has their parts. The hash of the
  weights is a refusal in both: it is of the file on disk, whatever the server
  has loaded. The audio fingerprint is advisory and cannot fail a seal.
* In the recorder, the values of samples: the downmix and the interpolation. In
  the pipeline, the texts of prompts, transcripts and reports, and the schema.
  `VerdictIsReadRight` says nothing of texts with a brace that no object
  closes; there the scan finds nothing in the content and looks in the thinking
  channel, which may or may not be what a reader would take.
* The software P-256 provider, which nothing in the app uses, and the
  transformers server (`start.py`), which no script of the app starts.
* The pinned-binary tool, the command-line verifier and the evaluation: one
  sequential process each, which a test reaches in full.
* The checks of `validate_and_stage` (symlinks, allow-list, sizes, magic bytes)
  are a refusal that may happen to any file.
* A hash collision, a torn read of a file that is being written, and other
  programs removing files: a read takes one version, and a removed file is a
  read that fails, which every read may do anyway.
* `reveal_bundle_cmd` changes no state.
* In the archive: the size caps, unsafe and duplicate names, which both readers
  refuse. The Rust verifier also refuses an attestation above a cap and accepts
  an amendment with an empty reason, while the page does neither; the builder's
  providers make no such attestation and the app makes no amendment. Report,
  verdict, environment and times are signed with the rest and not checked.
* In the registry: the signature's cryptography and transparency log are one
  predicate; the hash of the local weights is a refusal; the lookup at run time
  is the fingerprint step of a seal in CaptureSession. A release as such is not
  modelled: it is two builds of one commit, `BuildApp` and `BuildPage`, and stops at
  the signing job (section 5). Nothing is promised of an app that is newer than
  the page, nor of a pair in `Changing`.
* `ModelNamedRightly` is about an app's own server and about mistralrs servers. An
  app attached to an mlx server that another launcher started takes the model of
  its own environment for the server's, when the listing holds it.
* The page around `verifyBundle` (dropping files, rendering).
* The parts listed as not modelled in section 1.

## 7. Plan

Done, in the order of importance: the capture session and its refinement of
SealedEvidence, the window, the bundle's way from the builder to both
verifiers, the registry, the recorder and the pipeline over one recording, and
the keys and sidecars of several launches. Every safety property of a passing
run has its theorem. What is left, in this order:

1. Extensions of the core: what may outlive a discard; a window that can always
   get back to a sealable state; the verifier page with two files in flight.
2. The scan for the verdict on texts with a stray brace, once it is settled
   what it ought to find there.
3. What separates `ShownImagesAreUsed` from holding, as a theorem under a
   condition, as `OneModelIsNamed` is one for the model a bundle names.
