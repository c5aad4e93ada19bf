------------------------- MODULE FingerprintRegistry -------------------------
(***************************************************************************)
(* How a model becomes one that bundles may name: a maintainer seeds the   *)
(* registry under inference/fingerprints/ (tools/seed-fingerprints), a CI  *)
(* job signs an envelope over it (tools/sign-fingerprints with cosign),    *)
(* the capture app embeds the registry when it is built, and the verifier  *)
(* page embeds the list that the seeder derives from it.                   *)
(*                                                                         *)
(* A model here is a (model_id, revision) pair, and an entry has the hash  *)
(* of one file of its weights.  At a commit with one such file every seed  *)
(* finds the same hash; at a branch, or when --primary-file may name       *)
(* another of several files, a later seed may find another one.  The name  *)
(* of an entry's file is taken to be the pair itself.  A digest of files   *)
(* is represented by their contents, of which a hash and a time count.     *)
(***************************************************************************)
EXTENDS Naturals, Sequences

CONSTANTS
  Models,            \* (model_id, revision) pairs
  Changing,          \* the pairs of which two seeds may find different hashes
  Hashes,            \* digests of weights
  First,             \* the pair the registry starts with
  None,
  JobIdentity,       \* certificate identity of the workflow that runs cosign
  ReleaseIdentities \* identities that the pinned policy accepts

CONSTANTS
  MaxSeeds,   \* bound: entries written
  MaxSignings \* bound: envelopes finalized

ASSUME RegistryAssumption ==
  /\ Changing \subseteq Models
  /\ First \in Models
  /\ None \notin Hashes
  /\ MaxSeeds \in Nat /\ MaxSignings \in Nat

VARIABLES
  upstream,  \* what the model hub serves for each pair and the file asked for
  entries,   \* the files of the entries
  index,     \* index.json
  known,     \* apps/verifier/known-fingerprints.json
  seeding,   \* the run of the seeder
  seeds,     \* entries written so far, in place of captured_at_utc
  stale,     \* history: an entry was written and the list not regenerated
  envelope,  \* registry-manifest.json
  sigstore,  \* registry-manifest.sigstore
  signings,  \* envelopes finalized so far, in place of signed_at_utc
  job,       \* the re-sign job
  proposal,  \* its pull request
  app,       \* the registry that the capture app was built with
  page       \* what the verifier page was built with

seederVars == <<entries, index, known, seeding, seeds, stale>>
signingVars == <<envelope, sigstore, signings, job, proposal>>
registryVars == <<upstream, seederVars, signingVars, app, page>>

Tree(es, ix) == [entries |-> es, index |-> ix]

OnDisk == Tree(entries, index)

\* The list the verifiers get: one row per row of the index.
Listed(es, ix) == [i \in DOMAIN ix |-> [model |-> ix[i], hash |-> es[ix[i]].hash]]

Placeholder(tree) == [placeholder |-> TRUE, at |-> None, covered |-> tree]

\* A plausible slip: the time of signing is left as it was.
SlipFinalized(tree, at) == [placeholder |-> FALSE, at |-> None, covered |-> tree]

Finalized(tree, at) == [placeholder |-> FALSE, at |-> at, covered |-> tree]

NoSeeding == [step |-> "idle", model |-> None, hash |-> None]

NoJob == [step |-> "idle", envelope |-> None, sigstore |-> None]

Entries == [hash : Hashes, at : Nat]
Trees == [entries : [Models -> Entries \cup {None}], index : Seq(Models)]
Fingerprints == [model : Models, hash : Hashes]
Envelopes ==
  [placeholder : {TRUE}, at : {None}, covered : Trees]
    \cup [placeholder : {FALSE}, at : Nat, covered : Trees]
Signatures == [identity : {JobIdentity}, over : Envelopes]
SignedEnvelopes == [envelope : Envelopes, sigstore : Signatures]

RegistryTypeOK ==
  /\ upstream \in [Models -> Hashes]
  /\ OnDisk \in Trees
  /\ known \in Seq(Fingerprints)
  /\ seeding \in [step : {"idle", "write", "index", "list"},
                  model : Models \cup {None}, hash : Hashes \cup {None}]
  /\ seeds \in 0..MaxSeeds
  /\ stale \in BOOLEAN
  /\ envelope \in Envelopes
  /\ sigstore \in Signatures \cup {None}
  /\ signings \in 0..MaxSignings
  /\ job \in [step : {"idle", "signed"}, envelope : Envelopes \cup {None},
              sigstore : Signatures \cup {None}]
  /\ proposal \in SignedEnvelopes \cup {None}
  /\ app \in Trees \cup {None}
  /\ page \in [known : Seq(Fingerprints), registry : {"placeholder", "signed"}]
                \cup {None}

RegistryInit ==
  /\ upstream \in [Models -> Hashes]
  /\ entries = [m \in Models |->
                  IF m = First THEN [hash |-> upstream[First], at |-> 0] ELSE None]
  /\ index = <<First>>
  /\ known = Listed(entries, index)
  /\ seeding = NoSeeding
  /\ seeds = 0
  /\ stale = FALSE
  /\ envelope = Placeholder(OnDisk)
  /\ sigstore = None
  /\ signings = 0
  /\ job = NoJob
  /\ proposal = None
  /\ app = None
  /\ page = None

-----------------------------------------------------------------------------
(* The seeder.  A hash of the local weights that differs from the hub's    *)
(* pointer ends the run before anything is written; with --force it does   *)
(* not, and what is written is the pointer either way.  An entry that is   *)
(* written again differs in its times even when its hash is the same.      *)

UpstreamMoves(m) ==
  /\ m \in Changing
  /\ \E h \in Hashes : upstream' = [upstream EXCEPT ![m] = h]
  /\ UNCHANGED <<seederVars, signingVars, app, page>>

FetchPointer(m) ==
  /\ seeding.step = "idle" /\ seeds < MaxSeeds
  /\ seeding' = [step |-> "write", model |-> m, hash |-> upstream[m]]
  /\ UNCHANGED <<upstream, entries, index, known, seeds, stale, signingVars, app, page>>

WriteEntry ==
  /\ seeding.step = "write"
  /\ seeds' = seeds + 1
  /\ entries' = [entries EXCEPT ![seeding.model] = [hash |-> seeding.hash, at |-> seeds']]
  /\ stale' = TRUE
  /\ seeding' = [seeding EXCEPT !.step = "index"]
  /\ UNCHANGED <<upstream, index, known, signingVars, app, page>>

InIndex(m) == \E i \in DOMAIN index : index[i] = m

\* A plausible slip: the index is written with the row of this run alone.
SlipIndexWith(m) == <<m>>

IndexWith(m) == IF InIndex(m) THEN index ELSE Append(index, m)

EnsureIndexIncludes ==
  /\ seeding.step = "index"
  /\ index' = IndexWith(seeding.model)
  /\ seeding' = [seeding EXCEPT !.step = "list"]
  /\ UNCHANGED <<upstream, entries, known, seeds, stale, signingVars, app, page>>

\* A plausible slip: only the row of this run is added to the list.
SlipRegenerated == Append(known, [model |-> seeding.model, hash |-> seeding.hash])

Regenerated == Listed(entries, index)

RegenerateKnownFingerprints ==
  /\ seeding.step = "list"
  /\ known' = Regenerated
  /\ stale' = FALSE
  /\ seeding' = NoSeeding
  /\ UNCHANGED <<upstream, entries, index, seeds, signingVars, app, page>>

\* An error or a kill between two writes.  Running the tool again repairs it.
SeedStops ==
  /\ seeding.step # "idle"
  /\ seeding' = NoSeeding
  /\ UNCHANGED <<upstream, entries, index, known, seeds, stale, signingVars, app, page>>

\* CI, builds and the maintainer's other tools see commits, and a commit is
\* made between two runs of the seeder.
Committed == seeding.step = "idle"

-----------------------------------------------------------------------------
(* The envelope.                                                           *)

\* The signature gate: the bundle is over these bytes and its certificate
\* names a workflow that the policy pins.
SignatureVerifies(sig, env) ==
  /\ sig # None
  /\ sig.over = env
  /\ sig.identity \in ReleaseIdentities

\* The content gate: same files, same digests.
Consistent(env, tree) == env.covered = tree

\* The first job of the workflow.  A placeholder passes: the step that would
\* refuse it runs for an event that a called workflow never sees.
VerifyEnvelope ==
  /\ Consistent(envelope, OnDisk)
  /\ envelope.placeholder \/ SignatureVerifies(sigstore, envelope)

Recompute ==
  /\ Committed
  /\ envelope' = Placeholder(OnDisk)
  /\ UNCHANGED <<upstream, seederVars, sigstore, signings, job, proposal, app, page>>

\* After a push, by hand, or called by a release, which must wait for it: the
\* job verifies the commit, finalizes the envelope in its own checkout and
\* signs it there.
SignEnvelope ==
  /\ Committed /\ job.step = "idle" /\ proposal = None
  /\ signings < MaxSignings
  /\ VerifyEnvelope
  /\ signings' = signings + 1
  /\ LET env == Finalized(OnDisk, signings')
     IN job' = [step |-> "signed", envelope |-> env,
                sigstore |-> [identity |-> JobIdentity, over |-> env]]
  /\ UNCHANGED <<upstream, seederVars, envelope, sigstore, proposal, app, page>>

\* It verifies what it signed and opens a pull request.
ProposeEnvelope ==
  /\ job.step = "signed"
  /\ SignatureVerifies(job.sigstore, job.envelope)
  /\ proposal' = [envelope |-> job.envelope, sigstore |-> job.sigstore]
  /\ job' = NoJob
  /\ UNCHANGED <<upstream, seederVars, envelope, sigstore, signings, app, page>>

JobFails ==
  /\ job.step = "signed"
  /\ job' = NoJob
  /\ UNCHANGED <<upstream, seederVars, envelope, sigstore, signings, proposal, app, page>>

\* Whatever was committed since the job started stays as it is.
MergeProposal ==
  /\ Committed /\ proposal # None
  /\ envelope' = proposal.envelope
  /\ sigstore' = proposal.sigstore
  /\ proposal' = None
  /\ UNCHANGED <<upstream, seederVars, signings, job, app, page>>

-----------------------------------------------------------------------------
(* The builds.                                                             *)

EmbeddableRegistry == Consistent(envelope, OnDisk) /\ index # <<>>

\* The page's build checks the signature and not the covered files.
SignatureSettled ==
  envelope.placeholder \/ (SignatureVerifies(sigstore, envelope) /\ envelope.at # None)

PageOf(env) ==
  [known |-> known,
   registry |-> IF env.placeholder THEN "placeholder" ELSE "signed"]

BuildApp ==
  /\ Committed /\ EmbeddableRegistry
  /\ app' = OnDisk
  /\ UNCHANGED <<upstream, seederVars, signingVars, page>>

BuildPage ==
  /\ Committed /\ SignatureSettled
  /\ page' = PageOf(envelope)
  /\ UNCHANGED <<upstream, seederVars, signingVars, app>>

RegistryNext ==
  \/ \E m \in Models : UpstreamMoves(m) \/ FetchPointer(m)
  \/ WriteEntry \/ EnsureIndexIncludes \/ RegenerateKnownFingerprints \/ SeedStops
  \/ Recompute \/ SignEnvelope \/ ProposeEnvelope \/ JobFails \/ MergeProposal
  \/ BuildApp \/ BuildPage

RegistrySpec == RegistryInit /\ [][RegistryNext]_registryVars

-----------------------------------------------------------------------------
(* After a seed that ran to its end, the verifiers' list says the same as  *)
(* the registry, row by row, whatever earlier runs left half done: the     *)
(* seeder derives the whole list anew and repairs what it finds.           *)
KnownMirrorsRegistry == ~stale => known = Listed(entries, index)

(* What an app can seal, the pages built after it know: a row that an app  *)
(* was built with is on the list of every page built from a finished seed  *)
(* later on, with the same hash, whatever was seeded, left half done and   *)
(* rewritten between the two builds (ensure_index_includes keeps every     *)
(* row).  Of a branch, or of one of several weight files, this does not    *)
(* hold: seeding the pair again replaces its hash.                         *)
SealableStaysKnown ==
  [][BuildPage /\ ~stale /\ app # None =>
       \A i \in DOMAIN app.index :
         app.index[i] \notin Changing =>
           \E j \in DOMAIN page'.known :
             page'.known[j] = [model |-> app.index[i],
                               hash |-> app.entries[app.index[i]].hash]]_registryVars

(* What the re-sign job signs, the gates accept: "Catches a                *)
(* signing-vs-verification drift before a PR is ever opened"               *)
(* (sign-fingerprints.yml), and both ends name one identity.               *)
SignedEnvelopeVerifies ==
  job.step = "signed" => SignatureVerifies(job.sigstore, job.envelope)
=============================================================================
