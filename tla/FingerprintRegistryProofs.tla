----------------------- MODULE FingerprintRegistryProofs -----------------------
(***************************************************************************)
(* The list the verifiers get, and what apps and pages built at different  *)
(* times know, for every number of models, hashes, seeds and signings.     *)
(*                                                                         *)
(* The list is out of step with the registry only between the first write  *)
(* of a seed and the regeneration of the list, and that interval is marked *)
(* even when the seed stops in it (SeedsAreMarked).  Rows of the index are *)
(* added and never moved (RowsStay), and what is written of a pair with    *)
(* one file at a commit is what every later seed finds again (PinsHold).   *)
(***************************************************************************)
EXTENDS FingerprintRegistry, TLAPS

SeedsAreMarked == seeding.step \in {"index", "list"} => stale

\* The seeder's record has a step, whatever else is in it.
HasStep == "step" \in DOMAIN seeding

Mirrored == HasStep /\ SeedsAreMarked /\ KnownMirrorsRegistry

(* The registry starts with its first entry listed.                        *)
LEMMA InitMirrored == RegistryInit => Mirrored
BY DEF RegistryInit, Mirrored, HasStep, NoSeeding, SeedsAreMarked, KnownMirrorsRegistry

(* Every step of the seeder keeps the mark in place, and no other program  *)
(* writes the registry or the list.                                        *)
LEMMA StepMirrored == Mirrored /\ [RegistryNext]_registryVars => Mirrored'
<1> SUFFICES ASSUME HasStep, SeedsAreMarked, KnownMirrorsRegistry,
                    [RegistryNext]_registryVars
             PROVE  Mirrored'
  BY DEF Mirrored
<1>1. ASSUME UNCHANGED seederVars PROVE Mirrored'
  BY <1>1 DEF seederVars, Mirrored, HasStep, SeedsAreMarked, KnownMirrorsRegistry
<1>2. ASSUME NEW m \in Models, FetchPointer(m) PROVE Mirrored'
  BY <1>2 DEF FetchPointer, Mirrored, HasStep, SeedsAreMarked, KnownMirrorsRegistry
<1>3. ASSUME WriteEntry PROVE Mirrored'
  BY <1>3 DEF WriteEntry, Mirrored, HasStep, SeedsAreMarked, KnownMirrorsRegistry
<1>4. ASSUME EnsureIndexIncludes PROVE Mirrored'
  BY <1>4 DEF EnsureIndexIncludes, IndexWith, Mirrored, HasStep, SeedsAreMarked, KnownMirrorsRegistry
<1>5. ASSUME RegenerateKnownFingerprints PROVE Mirrored'
  BY <1>5 DEF RegenerateKnownFingerprints, Regenerated, NoSeeding, Mirrored, HasStep,
              SeedsAreMarked, KnownMirrorsRegistry
<1>6. ASSUME SeedStops PROVE Mirrored'
  BY <1>6 DEF SeedStops, NoSeeding, Mirrored, HasStep, SeedsAreMarked, KnownMirrorsRegistry
<1>7. ASSUME \/ \E m \in Models : UpstreamMoves(m)
             \/ Recompute \/ SignEnvelope \/ ProposeEnvelope \/ JobFails \/ MergeProposal
             \/ BuildApp \/ BuildPage
      PROVE  UNCHANGED seederVars
  BY <1>7 DEF UpstreamMoves, Recompute, SignEnvelope, ProposeEnvelope, JobFails,
              MergeProposal, BuildApp, BuildPage
<1>8. CASE UNCHANGED registryVars
  BY <1>1, <1>8 DEF registryVars
<1> QED BY <1>1, <1>2, <1>3, <1>4, <1>5, <1>6, <1>7, <1>8 DEF RegistryNext

(* A seed that ran to its end leaves the list as the registry says.        *)
THEOREM KnownMirrors == RegistrySpec => []KnownMirrorsRegistry
<1>1. RegistrySpec => []Mirrored
  BY InitMirrored, StepMirrored, PTL DEF RegistrySpec
<1> QED BY <1>1, PTL DEF Mirrored

-----------------------------------------------------------------------------
(* Types.  A row of the index has an entry, and a seeder past its first    *)
(* step has a model, so the list it derives is a list of fingerprints.     *)

RowsHaveEntries == \A i \in DOMAIN index : entries[index[i]] \in Entries

SeederHolds ==
  /\ seeding.step # "idle" => seeding.model \in Models /\ seeding.hash \in Hashes
  /\ seeding.step = "write" => seeds < MaxSeeds
  /\ seeding.step \in {"index", "list"} => entries[seeding.model] \in Entries

JobHolds ==
  job.step = "signed" => job.envelope \in Envelopes /\ job.sigstore \in Signatures

\* What the seeder keeps, what the signing job keeps, what the builds keep.
SeederTypes ==
  /\ upstream \in [Models -> Hashes]
  /\ entries \in [Models -> Entries \cup {None}]
  /\ index \in Seq(Models)
  /\ known \in Seq(Fingerprints)
  /\ seeding \in [step : {"idle", "write", "index", "list"},
                  model : Models \cup {None}, hash : Hashes \cup {None}]
  /\ seeds \in 0..MaxSeeds
  /\ stale \in BOOLEAN

SigningTypes ==
  /\ envelope \in Envelopes
  /\ sigstore \in Signatures \cup {None}
  /\ signings \in 0..MaxSignings
  /\ job \in [step : {"idle", "signed"}, envelope : Envelopes \cup {None},
              sigstore : Signatures \cup {None}]
  /\ proposal \in SignedEnvelopes \cup {None}

BuildTypes ==
  /\ app \in Trees \cup {None}
  /\ page \in [known : Seq(Fingerprints), registry : {"placeholder", "signed"}]
                \cup {None}

RegistryTyped ==
  /\ SeederTypes /\ SigningTypes /\ BuildTypes
  /\ RowsHaveEntries /\ SeederHolds /\ JobHolds

LEMMA TypesTogether == RegistryTyped => RegistryTypeOK
BY Zenon DEF RegistryTyped, RegistryTypeOK, SeederTypes, SigningTypes, BuildTypes, OnDisk, Tree, Trees

\* The list of an index whose rows have entries is a list of fingerprints.
LEMMA ListedTyped ==
  ASSUME NEW ix \in Seq(Models), NEW es,
         \A i \in DOMAIN ix : es[ix[i]] \in Entries
  PROVE  Listed(es, ix) \in Seq(Fingerprints)
<1>1. PICK n \in Nat : DOMAIN ix = 1..n
  OBVIOUS
<1>2. \A i \in 1..n : [model |-> ix[i], hash |-> es[ix[i]].hash] \in Fingerprints
  BY <1>1 DEF Fingerprints, Entries
<1>3. Listed(es, ix) \in [1..n -> Fingerprints]
  BY <1>1, <1>2 DEF Listed
<1> QED BY <1>3

LEMMA InitTyped == RegistryInit => RegistryTyped
<1> SUFFICES ASSUME RegistryInit PROVE RegistryTyped
  OBVIOUS
<1> USE RegistryAssumption
<1>1. upstream[First] \in Hashes /\ First \in Models
  BY DEF RegistryInit
<1>2. entries \in [Models -> Entries \cup {None}] /\ entries[First] \in Entries
  BY <1>1 DEF RegistryInit, Entries
<1>3. index \in Seq(Models) /\ RowsHaveEntries
  <2>1. index = <<First>>
    BY DEF RegistryInit
  <2>2. index \in Seq(Models) /\ \A i \in DOMAIN index : index[i] = First
    BY <1>1, <2>1
  <2> QED BY <1>2, <2>2 DEF RowsHaveEntries
<1>4. known \in Seq(Fingerprints)
  BY <1>3, ListedTyped DEF RegistryInit, RowsHaveEntries
<1>5. stale \in BOOLEAN
  BY Zenon DEF RegistryInit
<1>6. SeederTypes
  BY <1>2, <1>3, <1>4, <1>5 DEF RegistryInit, SeederTypes, NoSeeding
<1>7. envelope \in Envelopes
  <2>1. OnDisk \in Trees
    BY <1>2, <1>3 DEF OnDisk, Tree, Trees
  <2>2. TRUE \in {TRUE}
    OBVIOUS
  <2>3. Placeholder(OnDisk) \in Envelopes
    BY <2>1, <2>2 DEF Placeholder, Envelopes
  <2> QED BY <2>3 DEF RegistryInit
<1>8. SigningTypes /\ BuildTypes
  BY <1>7 DEF RegistryInit, SigningTypes, BuildTypes, NoJob
<1>9. SeederHolds /\ JobHolds
  BY DEF RegistryInit, SeederHolds, JobHolds, NoSeeding, NoJob
<1> QED BY <1>3, <1>6, <1>8, <1>9 DEF RegistryTyped

\* The files on disk are what an envelope may cover and an app embed.
LEMMA OnDiskTyped == SeederTypes => OnDisk \in Trees
BY DEF SeederTypes, OnDisk, Tree, Trees

\* The seeder and the hub.
LEMMA SeederTyped ==
  ASSUME SeederTypes, RowsHaveEntries, SeederHolds,
         \/ \E m \in Models : UpstreamMoves(m) \/ FetchPointer(m)
         \/ WriteEntry \/ EnsureIndexIncludes
         \/ RegenerateKnownFingerprints \/ SeedStops
  PROVE  SeederTypes' /\ RowsHaveEntries' /\ SeederHolds'
<1> USE RegistryAssumption
<1>1. ASSUME NEW m \in Models, UpstreamMoves(m)
      PROVE  SeederTypes' /\ RowsHaveEntries' /\ SeederHolds'
  <2>1. UNCHANGED seederVars /\ upstream' \in [Models -> Hashes]
    BY <1>1 DEF UpstreamMoves, SeederTypes
  <2> QED BY <2>1 DEF seederVars, SeederTypes, RowsHaveEntries, SeederHolds
<1>2. ASSUME NEW m \in Models, FetchPointer(m)
      PROVE  SeederTypes' /\ RowsHaveEntries' /\ SeederHolds'
  BY <1>2 DEF FetchPointer, SeederTypes, RowsHaveEntries, SeederHolds
<1>3. ASSUME WriteEntry
      PROVE  SeederTypes' /\ RowsHaveEntries' /\ SeederHolds'
  <2> DEFINE entry == [hash |-> seeding.hash, at |-> seeds + 1]
  <2>1. seeds + 1 \in 0..MaxSeeds /\ entry \in Entries /\ seeding.model \in Models
    BY <1>3 DEF WriteEntry, SeederTypes, SeederHolds, Entries
  <2>2. entries' = [entries EXCEPT ![seeding.model] = entry]
    BY <1>3 DEF WriteEntry
  <2> HIDE DEF entry
  <2>3. /\ entries' \in [Models -> Entries \cup {None}]
        /\ entries'[seeding.model] \in Entries
        /\ \A m \in Models : entries[m] \in Entries => entries'[m] \in Entries
    BY <2>1, <2>2 DEF SeederTypes
  <2>4. stale' \in BOOLEAN
    BY <1>3, Zenon DEF WriteEntry
  <2>5. SeederTypes'
    BY <1>3, <2>1, <2>3, <2>4 DEF WriteEntry, SeederTypes
  <2>6. RowsHaveEntries'
    <3>1. \A i \in DOMAIN index : index[i] \in Models
      BY DEF SeederTypes
    <3> QED BY <1>3, <2>3, <3>1 DEF WriteEntry, RowsHaveEntries
  <2>7. SeederHolds'
    BY <1>3, <2>3 DEF WriteEntry, SeederTypes, SeederHolds
  <2> QED BY <2>5, <2>6, <2>7
<1>4. ASSUME EnsureIndexIncludes
      PROVE  SeederTypes' /\ RowsHaveEntries' /\ SeederHolds'
  <2>1. seeding.model \in Models /\ entries[seeding.model] \in Entries
    BY <1>4 DEF EnsureIndexIncludes, SeederHolds
  <2>2. index' \in {index, Append(index, seeding.model)}
    BY <1>4 DEF EnsureIndexIncludes, IndexWith
  <2>3. index' \in Seq(Models) /\ \A i \in DOMAIN index' : entries[index'[i]] \in Entries
    <3>1. CASE index' = index
      BY <3>1 DEF SeederTypes, RowsHaveEntries
    <3>2. CASE index' = Append(index, seeding.model)
      <4>1. index' \in Seq(Models)
        BY <2>1, <3>2 DEF SeederTypes
      <4>2. ASSUME NEW i \in DOMAIN index'
            PROVE  \/ index'[i] = seeding.model
                   \/ i \in DOMAIN index /\ index'[i] = index[i]
        BY <3>2, <4>2 DEF SeederTypes
      <4> QED BY <2>1, <4>1, <4>2 DEF RowsHaveEntries
    <3> QED BY <2>2, <3>1, <3>2
  <2> QED BY <1>4, <2>1, <2>3
          DEF EnsureIndexIncludes, SeederTypes, RowsHaveEntries, SeederHolds
<1>5. ASSUME RegenerateKnownFingerprints
      PROVE  SeederTypes' /\ RowsHaveEntries' /\ SeederHolds'
  <2>1. known' \in Seq(Fingerprints)
    BY <1>5, ListedTyped
       DEF RegenerateKnownFingerprints, Regenerated, SeederTypes, RowsHaveEntries
  <2>2. stale' \in BOOLEAN
    BY <1>5, Zenon DEF RegenerateKnownFingerprints
  <2> QED BY <1>5, <2>1, <2>2
          DEF RegenerateKnownFingerprints, NoSeeding, SeederTypes, RowsHaveEntries,
              SeederHolds
<1>6. ASSUME SeedStops
      PROVE  SeederTypes' /\ RowsHaveEntries' /\ SeederHolds'
  BY <1>6 DEF SeedStops, NoSeeding, SeederTypes, RowsHaveEntries, SeederHolds
<1> QED BY <1>1, <1>2, <1>3, <1>4, <1>5, <1>6

\* The signing job and its pull request.
LEMMA SigningTyped ==
  ASSUME SeederTypes, SigningTypes, JobHolds,
         Recompute \/ SignEnvelope \/ ProposeEnvelope \/ JobFails \/ MergeProposal
  PROVE  SigningTypes' /\ JobHolds'
<1> USE RegistryAssumption
<1>0. OnDisk \in Trees
  BY OnDiskTyped
<1>1. CASE Recompute
  <2>1. Placeholder(OnDisk) \in Envelopes
    BY <1>0 DEF Placeholder, Envelopes
  <2> QED BY <1>1, <2>1 DEF Recompute, SigningTypes, JobHolds
<1>2. CASE SignEnvelope
  <2> DEFINE env == Finalized(OnDisk, signings')
             sig == [identity |-> JobIdentity, over |-> env]
  <2>1. signings' \in 0..MaxSignings /\ signings' \in Nat
    BY <1>2 DEF SignEnvelope, SigningTypes
  <2>2. env \in Envelopes
    BY <1>0, <2>1 DEF Finalized, Envelopes
  <2>3. job' = [step |-> "signed", envelope |-> env, sigstore |-> sig]
    BY <1>2 DEF SignEnvelope
  <2> HIDE DEF env
  <2>4. sig \in Signatures
    BY <2>2 DEF Signatures
  <2> HIDE DEF sig
  <2> QED BY <1>2, <2>1, <2>2, <2>3, <2>4 DEF SignEnvelope, SigningTypes, JobHolds
<1>3. CASE ProposeEnvelope
  <2>1. proposal' \in SignedEnvelopes
    BY <1>3 DEF ProposeEnvelope, JobHolds, SignedEnvelopes
  <2> QED BY <1>3, <2>1 DEF ProposeEnvelope, SigningTypes, JobHolds, NoJob
<1>4. CASE JobFails
  BY <1>4 DEF JobFails, SigningTypes, JobHolds, NoJob
<1>5. CASE MergeProposal
  <2>1. proposal \in SignedEnvelopes
    BY <1>5 DEF MergeProposal, SigningTypes
  <2>2. envelope' \in Envelopes /\ sigstore' \in Signatures
    BY <1>5, <2>1 DEF MergeProposal, SignedEnvelopes
  <2> QED BY <1>5, <2>2 DEF MergeProposal, SigningTypes, JobHolds
<1> QED BY <1>1, <1>2, <1>3, <1>4, <1>5

\* The builds embed what is on disk.
LEMMA BuildsTyped ==
  ASSUME SeederTypes, BuildTypes, BuildApp \/ BuildPage
  PROVE  BuildTypes'
<1>1. OnDisk \in Trees
  BY OnDiskTyped
<1>2. PageOf(envelope) \in
        [known : Seq(Fingerprints), registry : {"placeholder", "signed"}]
  BY DEF PageOf, SeederTypes
<1>3. app' \in {app, OnDisk} /\ page' \in {page, PageOf(envelope)}
  BY DEF BuildApp, BuildPage
<1> QED BY <1>1, <1>2, <1>3 DEF BuildTypes

LEMMA StepTyped == RegistryTyped /\ [RegistryNext]_registryVars => RegistryTyped'
<1> SUFFICES ASSUME RegistryTyped, [RegistryNext]_registryVars
             PROVE  RegistryTyped'
  OBVIOUS
<1>0. /\ SeederTypes /\ SigningTypes /\ BuildTypes
      /\ RowsHaveEntries /\ SeederHolds /\ JobHolds
  BY DEF RegistryTyped
<1>1. ASSUME UNCHANGED <<upstream, seederVars>>
      PROVE  SeederTypes' /\ RowsHaveEntries' /\ SeederHolds'
  BY <1>0, <1>1 DEF seederVars, SeederTypes, RowsHaveEntries, SeederHolds
<1>2. ASSUME UNCHANGED signingVars PROVE SigningTypes' /\ JobHolds'
  BY <1>0, <1>2 DEF signingVars, SigningTypes, JobHolds
<1>3. ASSUME UNCHANGED <<app, page>> PROVE BuildTypes'
  BY <1>0, <1>3 DEF BuildTypes
<1>4. CASE \/ \E m \in Models : UpstreamMoves(m) \/ FetchPointer(m)
           \/ WriteEntry \/ EnsureIndexIncludes
           \/ RegenerateKnownFingerprints \/ SeedStops
  <2>1. UNCHANGED signingVars /\ UNCHANGED <<app, page>>
    BY <1>4 DEF UpstreamMoves, FetchPointer, WriteEntry, EnsureIndexIncludes,
                RegenerateKnownFingerprints, SeedStops
  <2> QED BY <1>0, <1>2, <1>3, <1>4, <2>1, SeederTyped
          DEF RegistryTyped
<1>5. CASE Recompute \/ SignEnvelope \/ ProposeEnvelope \/ JobFails \/ MergeProposal
  <2>1. UNCHANGED <<upstream, seederVars>> /\ UNCHANGED <<app, page>>
    BY <1>5 DEF Recompute, SignEnvelope, ProposeEnvelope, JobFails, MergeProposal
  <2> QED BY <1>0, <1>1, <1>3, <1>5, <2>1, SigningTyped
          DEF RegistryTyped
<1>6. CASE BuildApp \/ BuildPage
  <2>1. UNCHANGED <<upstream, seederVars>> /\ UNCHANGED signingVars
    BY <1>6 DEF BuildApp, BuildPage
  <2> QED BY <1>0, <1>1, <1>2, <1>6, <2>1, BuildsTyped
          DEF RegistryTyped
<1>7. CASE UNCHANGED registryVars
  BY <1>1, <1>2, <1>3, <1>7 DEF registryVars, RegistryTyped
<1> QED BY <1>4, <1>5, <1>6, <1>7 DEF RegistryNext

(* Every file, job and build holds what it may: in particular no row of    *)
(* the index is without an entry, so that the list is one of fingerprints. *)
THEOREM RegistryIsTyped == RegistrySpec => []RegistryTypeOK
BY TypesTogether, InitTyped, StepTyped, PTL DEF RegistrySpec

-----------------------------------------------------------------------------
(* What is on record of a pinned pair is what the hub serves for it.       *)

Pinned == Models \ Changing

\* The entries that are listed, or will be when the seeder goes on.
Written(m) == InIndex(m) \/ (seeding.step \in {"index", "list"} /\ seeding.model = m)

PinsHold ==
  \A m \in Pinned :
    /\ Written(m) => entries[m].hash = upstream[m]
    /\ seeding.step # "idle" /\ seeding.model = m => seeding.hash = upstream[m]

\* The rows of the last app are still in their places, with their hashes.
RowsStay ==
  app # None =>
    \A i \in DOMAIN app.index :
      /\ i \in DOMAIN index /\ index[i] = app.index[i]
      /\ app.index[i] \in Pinned =>
           app.entries[app.index[i]].hash = upstream[app.index[i]]

Lasting == RegistryTyped /\ PinsHold /\ RowsStay

LEMMA InitLasting == RegistryInit => Lasting
<1> SUFFICES ASSUME RegistryInit PROVE PinsHold /\ RowsStay
  BY InitTyped DEF Lasting
<1>1. RowsStay
  BY DEF RegistryInit, RowsStay
<1>2. ASSUME NEW m \in Pinned, Written(m)
      PROVE  entries[m].hash = upstream[m]
  <2>1. m = First
    BY <1>2 DEF RegistryInit, NoSeeding, Written, InIndex
  <2>2. entries[m] = [hash |-> upstream[First], at |-> 0]
    BY <2>1 DEF RegistryInit, Pinned
  <2> QED BY <2>1, <2>2
<1>3. PinsHold
  BY <1>2 DEF RegistryInit, NoSeeding, PinsHold
<1> QED BY <1>1, <1>3

\* What is pinned never moves, and the seeder copies what the hub serves.
LEMMA PinsStep ==
  ASSUME RegistryTyped, PinsHold, [RegistryNext]_registryVars
  PROVE  PinsHold'
<1>0. /\ upstream \in [Models -> Hashes] /\ entries \in [Models -> Entries \cup {None}]
      /\ index \in Seq(Models)
  BY DEF RegistryTyped, SeederTypes
<1>1. ASSUME UNCHANGED <<upstream, entries, index, seeding>> PROVE PinsHold'
  BY <1>1 DEF PinsHold, Written, InIndex
<1>2. ASSUME NEW b \in Models, UpstreamMoves(b) PROVE PinsHold'
  <2>1. \A m \in Pinned : upstream'[m] = upstream[m]
    BY <1>0, <1>2 DEF UpstreamMoves, Pinned
  <2>2. UNCHANGED <<entries, index, seeding>>
    BY <1>2 DEF UpstreamMoves, seederVars
  <2> QED BY <2>1, <2>2 DEF PinsHold, Written, InIndex
<1>3. ASSUME NEW b \in Models, FetchPointer(b) PROVE PinsHold'
  <2>1. /\ seeding.step = "idle" /\ UNCHANGED <<upstream, entries, index>>
        /\ seeding' = [step |-> "write", model |-> b, hash |-> upstream[b]]
    BY <1>3 DEF FetchPointer
  <2> QED BY <2>1 DEF PinsHold, Written, InIndex
<1>4. ASSUME WriteEntry PROVE PinsHold'
  <2>1. /\ seeding.step = "write" /\ UNCHANGED <<upstream, index>>
        /\ entries' = [entries EXCEPT ![seeding.model] =
                         [hash |-> seeding.hash, at |-> seeds']]
        /\ seeding' = [seeding EXCEPT !.step = "index"]
    BY <1>4 DEF WriteEntry
  <2>2. seeding'.model = seeding.model /\ seeding'.hash = seeding.hash
    BY <2>1
  <2>3. ASSUME NEW m \in Pinned, m # seeding.model
        PROVE  entries'[m] = entries[m] /\ (Written(m)' <=> Written(m))
    BY <1>0, <2>1, <2>2, <2>3 DEF Pinned, Written, InIndex
  <2>4. ASSUME NEW m \in Pinned, m = seeding.model
        PROVE  entries'[m].hash = upstream[m] /\ seeding.hash = upstream[m]
    BY <1>0, <2>1, <2>4 DEF Pinned, PinsHold
  <2> QED BY <2>1, <2>2, <2>3, <2>4 DEF PinsHold
<1>5. ASSUME EnsureIndexIncludes PROVE PinsHold'
  <2>1. /\ seeding.step = "index" /\ UNCHANGED <<upstream, entries>>
        /\ index' \in {index, Append(index, seeding.model)}
        /\ seeding' = [seeding EXCEPT !.step = "list"]
    BY <1>5 DEF EnsureIndexIncludes, IndexWith
  <2>2. seeding'.model = seeding.model /\ seeding'.hash = seeding.hash
    BY <2>1
  <2>3. ASSUME NEW m \in Pinned, Written(m)' PROVE Written(m)
    <3>1. ASSUME NEW i \in DOMAIN index', index'[i] = m, index' = Append(index, seeding.model)
          PROVE  m = seeding.model \/ InIndex(m)
      BY <1>0, <3>1 DEF InIndex
    <3> QED BY <2>1, <2>2, <2>3, <3>1 DEF Written, InIndex
  <2> QED BY <2>1, <2>2, <2>3 DEF PinsHold
<1>6. ASSUME RegenerateKnownFingerprints \/ SeedStops PROVE PinsHold'
  <2>1. seeding' = NoSeeding /\ UNCHANGED <<upstream, entries, index>>
    BY <1>6 DEF RegenerateKnownFingerprints, SeedStops
  <2> QED BY <2>1 DEF NoSeeding, PinsHold, Written, InIndex
<1>7. CASE \/ Recompute \/ SignEnvelope \/ ProposeEnvelope \/ JobFails \/ MergeProposal
           \/ BuildApp \/ BuildPage
  <2>1. UNCHANGED <<upstream, entries, index, seeding>>
    BY <1>7 DEF Recompute, SignEnvelope, ProposeEnvelope, JobFails, MergeProposal,
                BuildApp, BuildPage, seederVars
  <2> QED BY <1>1, <2>1
<1>8. CASE UNCHANGED registryVars
  BY <1>1, <1>8 DEF registryVars, seederVars
<1> QED BY <1>2, <1>3, <1>4, <1>5, <1>6, <1>7, <1>8 DEF RegistryNext

\* No row leaves its place, so a built app goes on being listed.
LEMMA RowsStep ==
  ASSUME RegistryTyped, PinsHold, RowsStay, [RegistryNext]_registryVars
  PROVE  RowsStay'
<1>0. upstream \in [Models -> Hashes] /\ index \in Seq(Models)
  BY DEF RegistryTyped, SeederTypes
<1>1. \A i \in DOMAIN index : i \in DOMAIN index' /\ index'[i] = index[i]
  <2>1. CASE EnsureIndexIncludes
    <3>1. index' \in {index, Append(index, seeding.model)}
      BY <2>1 DEF EnsureIndexIncludes, IndexWith
    <3> QED BY <1>0, <3>1
  <2>2. CASE ~EnsureIndexIncludes
    <3>1. UNCHANGED index
      BY <2>2 DEF RegistryNext, registryVars, seederVars, UpstreamMoves, FetchPointer,
                  WriteEntry, RegenerateKnownFingerprints, SeedStops, Recompute,
                  SignEnvelope, ProposeEnvelope, JobFails, MergeProposal, BuildApp,
                  BuildPage
    <3> QED BY <3>1
  <2> QED BY <2>1, <2>2
<1>2. \A m \in Pinned : upstream'[m] = upstream[m]
  <2>1. ASSUME NEW b \in Models, UpstreamMoves(b) PROVE \A m \in Pinned : upstream'[m] = upstream[m]
    BY <1>0, <2>1 DEF UpstreamMoves, Pinned
  <2>2. CASE ~\E b \in Models : UpstreamMoves(b)
    <3>1. UNCHANGED upstream
      BY <2>2 DEF RegistryNext, registryVars, FetchPointer, WriteEntry,
                  EnsureIndexIncludes, RegenerateKnownFingerprints, SeedStops, Recompute,
                  SignEnvelope, ProposeEnvelope, JobFails, MergeProposal, BuildApp,
                  BuildPage
    <3> QED BY <3>1
  <2> QED BY <2>1, <2>2
<1>3. CASE BuildApp
  <2>1. app' = [entries |-> entries, index |-> index] /\ UNCHANGED <<upstream, index>>
    BY <1>3 DEF BuildApp, OnDisk, Tree, seederVars
  <2>2. ASSUME NEW i \in DOMAIN index, index[i] \in Pinned
        PROVE  entries[index[i]].hash = upstream[index[i]]
    BY <2>2 DEF PinsHold, Written, InIndex
  <2> QED BY <2>1, <2>2 DEF RowsStay
<1>4. CASE ~BuildApp
  <2>1. UNCHANGED app
    BY <1>4 DEF RegistryNext, registryVars, UpstreamMoves, FetchPointer, WriteEntry,
                EnsureIndexIncludes, RegenerateKnownFingerprints, SeedStops, Recompute,
                SignEnvelope, ProposeEnvelope, JobFails, MergeProposal, BuildPage
  <2> QED BY <1>1, <1>2, <2>1 DEF RowsStay
<1> QED BY <1>3, <1>4

(* What an app can seal with a pinned pair, every page built later from a  *)
(* finished seed knows: rows are only ever added (ensure_index_includes),  *)
(* the list is derived from all of them, and what the hub serves for the   *)
(* pair does not change.                                                   *)
THEOREM SealableKnown == RegistrySpec => SealableStaysKnown
<1> DEFINE Known ==
      BuildPage /\ ~stale /\ app # None =>
        \A i \in DOMAIN app.index :
          app.index[i] \notin Changing =>
            \E j \in DOMAIN page'.known :
              page'.known[j] = [model |-> app.index[i],
                                hash |-> app.entries[app.index[i]].hash]
<1>1. Lasting /\ KnownMirrorsRegistry => Known
  <2> SUFFICES ASSUME Lasting, KnownMirrorsRegistry, BuildPage, ~stale, app # None,
                      NEW i \in DOMAIN app.index, app.index[i] \notin Changing
               PROVE  \E j \in DOMAIN page'.known :
                        page'.known[j] = [model |-> app.index[i],
                                          hash |-> app.entries[app.index[i]].hash]
    OBVIOUS
  <2>1. page'.known = Listed(entries, index)
    BY DEF BuildPage, PageOf, KnownMirrorsRegistry
  <2>2. i \in DOMAIN index /\ index[i] = app.index[i]
    BY DEF Lasting, RowsStay
  <2>3. index[i] \in Pinned
    BY <2>2 DEF Lasting, RegistryTyped, SeederTypes, Pinned
  <2>4. entries[index[i]].hash = upstream[index[i]]
    BY <2>2, <2>3 DEF Lasting, PinsHold, Written, InIndex
  <2>5. app.entries[app.index[i]].hash = upstream[app.index[i]]
    BY <2>2, <2>3 DEF Lasting, RowsStay
  <2>6. Listed(entries, index)[i] = [model |-> index[i], hash |-> entries[index[i]].hash]
          /\ i \in DOMAIN Listed(entries, index)
    BY <2>2 DEF Listed
  <2> QED BY <2>1, <2>2, <2>4, <2>5, <2>6
<1>2. Lasting /\ [RegistryNext]_registryVars => Lasting'
  BY StepTyped, PinsStep, RowsStep DEF Lasting
<1>3. RegistrySpec => []Lasting
  BY <1>2, InitLasting, PTL DEF RegistrySpec
<1>4. Lasting /\ KnownMirrorsRegistry => [Known]_registryVars
  BY <1>1
<1> QED BY <1>3, <1>4, KnownMirrors, PTL DEF SealableStaysKnown
=============================================================================
