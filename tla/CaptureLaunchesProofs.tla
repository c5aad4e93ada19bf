------------------------ MODULE CaptureLaunchesProofs ------------------------
(***************************************************************************)
(* Keys, processes and model names of any number of instances of the app,  *)
(* any number of scripts run by hand, seals and faults.                    *)
(*                                                                         *)
(* The three parts share no variable but use, which a lifecycle step only  *)
(* resets, so each has an invariant of its own: KeysSound says where a key *)
(* is at each step of a provider and how many can have been created for a  *)
(* missing entry; ProcessesSound ties each server to the script that       *)
(* started it and to what its app holds; TrackingSound says of a script    *)
(* that met no other that it is alone between check and write, and that    *)
(* the PID file names its server from then on.                             *)
(***************************************************************************)
EXTENDS CaptureLaunches, FiniteSetTheorems, TLAPS

\* What a provider holds at each of its steps, when kept was stored.
WellHeld(u, kept) ==
  /\ u.at = "write" => u.cache # NoKey
  /\ u.at \in {"enclave", "read", "write", "public"} => u.call = "public"
  /\ u.at \in {"public", "sign"} =>
       /\ u.pem = u.cache
       /\ u.hardware \/ u.cache = NoKey \/ u.cache \in kept

ProvidersHold == \A s \in Signers : WellHeld(use[s], stored)

\* The keys created for a missing entry, without those that were dropped.
Made == stored \cup Unwritten

\* An entry that is there, or a key on its way to it, is one more than the
\* deletions and crossings account for.
Budget ==
  deletions + crossings + IF keychain = NoKey /\ Unwritten = {} THEN 0 ELSE 1

Creations ==
  /\ \A s \in Signers : use[s].at = "write" => use[s].cache \notin stored
  /\ \A s, t \in Signers :
       use[s].at = "write" /\ use[t].at = "write" /\ use[s].cache = use[t].cache
         => s = t
  /\ Cardinality(Made) <= Budget

KeysSound ==
  /\ KeyTypeOK
  /\ ProvidersHold
  /\ Creations
  /\ keychain # NoKey => keychain \in stored
  /\ NoKey \notin stored
  /\ SignatureMatchesSigner
  /\ SoftwareKeysWereStored

\* An mlx script spawned by an app is the server it started, and the app
\* holds it as long as both are there.
ProcessesSound ==
  \A a \in Apps : Kind[a] = "mlx" =>
    /\ script[a] \notin {"started", "writing", "waiting", "cutOff"}
    /\ Alive(a) => script[a] = "server"
    /\ app[a] \in {"off", "probed"} => script[a] = "none"
    /\ app[a] = "up" /\ script[a] \notin {"none", "ended"} => held[a]
    /\ app[a] = "exited" => script[a] \in {"none", "ended"}

\* A server is there from its start on, and no script is begun twice.
ServersFollow ==
  \A l \in Launchers :
    /\ script[l] \in {"none", "running", "checked"} => server[l] = "none"
    /\ script[l] = "server" => Foreground(l)
    /\ script[l] \in {"started", "writing"} => ~Foreground(l)
    /\ l \in Apps /\ app[l] \in {"off", "probed"} => script[l] = "none"

Window == {"checked", "started", "writing"}

Lost == Window \cup {"cutOff"}

\* A script that met no other is the only one between check and write, with
\* no stop around; from the write on nobody is between, and the file names
\* its server.
Tracks(l) ==
  /\ script[l] \in Window =>
       /\ \A m \in Between(Kind[l]) : m = l
       /\ stopping[Kind[l]] = Nobody
  /\ Alive(l) /\ script[l] \notin Lost =>
       /\ pidFile[Kind[l]] = l
       /\ Between(Kind[l]) = {}
       /\ stopping[Kind[l]] = Nobody

TrackingSound ==
  /\ ServersFollow
  /\ \A l \in Launchers : l \notin crossed /\ ~Foreground(l) => Tracks(l)

-----------------------------------------------------------------------------
(* Keys.                                                                   *)

LEMMA KeysInitially == KeyInit => KeysSound
<1> SUFFICES ASSUME KeyInit PROVE KeysSound
  OBVIOUS
<1> USE DEF KeyInit, NoUse, NoKey, Keys
<1>1. KeyTypeOK
  <2>1. NoUse \in Uses
    BY DEF Uses
  <2> QED BY <2>1 DEF KeyTypeOK
<1>2. ProvidersHold /\ Creations
  <2>1. Unwritten = {}
    BY DEF Unwritten
  <2>2. Cardinality(Made) = 0
    BY <2>1, FS_EmptySet DEF Made
  <2> QED BY <2>2 DEF ProvidersHold, WellHeld, Creations, Budget
<1>3. SignatureMatchesSigner /\ SoftwareKeysWereStored
  BY DEF SignatureMatchesSigner, SoftwareKeysWereStored
<1> QED BY <1>1, <1>2, <1>3 DEF KeysSound

LEMMA MadeAreKeys ==
  ASSUME KeyTypeOK
  PROVE  /\ Unwritten \subseteq Keys /\ Made \subseteq Keys
         /\ IsFiniteSet(Made) /\ Cardinality(Made) \in Nat
<1>1. Unwritten \subseteq Keys
  BY DEF KeyTypeOK, Uses, Unwritten
<1>2. Made \subseteq Keys
  BY <1>1 DEF KeyTypeOK, Made
<1>3. IsFiniteSet(Keys)
  BY FS_Interval DEF KeyTypeOK, Keys
<1>4. IsFiniteSet(Made)
  BY <1>2, <1>3, FS_Subset
<1> QED BY <1>1, <1>2, <1>4, FS_CardinalityType

\* No key is on its way that was not before; when the last one is dropped
\* before there is an entry, one key fewer is accounted for.
LEMMA CreationsShrink ==
  ASSUME KeysSound, UNCHANGED <<keychain, stored, deletions, crossings>>,
         \A s \in Signers : use'[s].at = "write" =>
                            use[s].at = "write" /\ use'[s].cache = use[s].cache
  PROVE  Creations'
<1>1. /\ IsFiniteSet(Made) /\ Cardinality(Made) \in Nat
      /\ Cardinality(Made) <= Budget /\ deletions \in Nat /\ crossings \in Nat
  BY MadeAreKeys DEF KeysSound, Creations, KeyTypeOK
<1>2. Unwritten' \subseteq Unwritten
  BY DEF Unwritten
<1>3. Made' \subseteq Made
  BY <1>2 DEF Made
<1>4. IsFiniteSet(Made') /\ Cardinality(Made') <= Cardinality(Made)
      /\ Cardinality(Made') \in Nat
  BY <1>1, <1>3, FS_Subset, FS_CardinalityType
<1>5. Cardinality(Made') <= Budget'
  <2>1. CASE keychain = NoKey /\ Unwritten' = {} /\ Unwritten # {}
    <3>1. PICK k \in Unwritten : k \notin stored
      BY <2>1 DEF KeysSound, Creations, Unwritten
    <3>2. k \in Made /\ Made' \subseteq Made \ {k}
      BY <2>1, <3>1 DEF Made
    <3>3. IsFiniteSet(Made \ {k}) /\ Cardinality(Made \ {k}) = Cardinality(Made) - 1
      BY <1>1, <3>2, FS_RemoveElement
    <3>4. Cardinality(Made') <= Cardinality(Made \ {k})
      BY <3>2, <3>3, FS_Subset
    <3>5. Budget = deletions + crossings + 1 /\ Budget' = deletions + crossings
      BY <1>1, <2>1 DEF Budget
    <3> QED BY <1>1, <1>4, <3>3, <3>4, <3>5
  <2>2. CASE ~(keychain = NoKey /\ Unwritten' = {} /\ Unwritten # {})
    <3>1. Budget' = Budget /\ Budget \in Nat
      BY <1>1, <1>2, <2>2 DEF Budget
    <3> QED BY <1>1, <1>4, <3>1
  <2> QED BY <2>1, <2>2
<1> QED BY <1>5 DEF KeysSound, Creations

\* A provider may be dropped at any point.
LEMMA ProviderDropped ==
  ASSUME KeysSound, UNCHANGED <<keychain, signed, created, stored, deletions, crossings>>,
         use' = [s \in Signers |-> use'[s]],
         \A s \in Signers : use'[s] \in {use[s], NoUse}
  PROVE  KeysSound'
<1>1. KeyTypeOK'
  <2>1. NoUse \in Uses /\ Uses' = Uses /\ use \in [Signers -> Uses]
    BY DEF KeysSound, KeyTypeOK, Uses, Keys, NoUse, NoKey
  <2>2. use' \in [Signers -> Uses]
    <3>1. \A s \in Signers : use'[s] \in Uses
      BY <2>1
    <3> QED BY <3>1
  <2> QED BY <2>1, <2>2 DEF KeysSound, KeyTypeOK, Keys
<1>2. ProvidersHold'
  BY DEF KeysSound, ProvidersHold, WellHeld, NoUse, NoKey
<1>3. Creations'
  BY CreationsShrink DEF NoUse
<1>4. SignatureMatchesSigner' /\ SoftwareKeysWereStored'
  BY DEF KeysSound, SignatureMatchesSigner, SoftwareKeysWereStored
<1> QED BY <1>1, <1>2, <1>3, <1>4 DEF KeysSound

\* A provider s moves on to u; created may grow.
LEMMA ProviderMoves ==
  ASSUME KeysSound, NEW s \in Signers, NEW u \in Uses',
         use' = [use EXCEPT ![s] = u],
         created' \in {created, created + 1}
  PROVE  /\ use' \in [Signers -> Uses']
         /\ use'[s] = u /\ \A t \in Signers \ {s} : use'[t] = use[t]
         /\ Keys \subseteq Keys' /\ created' \in Nat
<1>1. use \in [Signers -> Uses] /\ created \in Nat
  BY DEF KeysSound, KeyTypeOK
<1>2. Keys \subseteq Keys'
  BY <1>1 DEF Keys
<1>3. Uses \subseteq Uses'
  BY <1>2 DEF Uses
<1> QED BY <1>1, <1>2, <1>3

\* A move that touches nothing but the provider, and ends before no write.
LEMMA QuietMove ==
  ASSUME KeysSound, NEW s \in Signers, NEW u \in Uses',
         use' = [use EXCEPT ![s] = u],
         created' \in {created, created + 1},
         WellHeld(u, stored), u.at # "write",
         UNCHANGED <<keychain, signed, stored, deletions, crossings>>
  PROVE  KeysSound'
<1>1. /\ use' \in [Signers -> Uses']
      /\ use'[s] = u /\ \A t \in Signers \ {s} : use'[t] = use[t]
      /\ Keys \subseteq Keys' /\ created' \in Nat
  BY ProviderMoves
<1>2. KeyTypeOK'
  <2>1. [pem : Keys, by : Keys, hardware : BOOLEAN]
          \subseteq [pem : Keys', by : Keys', hardware : BOOLEAN]
    BY <1>1
  <2> QED BY <1>1, <2>1 DEF KeysSound, KeyTypeOK
<1>3. ProvidersHold'
  BY <1>1 DEF KeysSound, ProvidersHold, WellHeld
<1>4. Creations'
  BY <1>1, CreationsShrink
<1>5. SignatureMatchesSigner' /\ SoftwareKeysWereStored'
  BY DEF KeysSound, SignatureMatchesSigner, SoftwareKeysWereStored
<1> QED BY <1>2, <1>3, <1>4, <1>5 DEF KeysSound

\* The record that a call of with_key leaves.
LEMMA HeldRecord ==
  ASSUME KeysSound, NEW s \in Signers, NEW key \in Keys', NEW hw \in BOOLEAN,
         created' \in {created, created + 1},
         use[s].call = "public",
         hw \/ key = NoKey \/ key \in stored'
  PROVE  /\ Held(s, key, hw) \in Uses'
         /\ WellHeld(Held(s, key, hw), stored')
         /\ Held(s, key, hw).at = "public"
<1>1. use[s] \in Uses /\ created \in Nat
  BY DEF KeysSound, KeyTypeOK
<1>2. Held(s, key, hw) = [at |-> "public", call |-> "public", hardware |-> hw,
                          cache |-> key, pem |-> key]
  BY DEF Held
<1>3. Uses' = [at : {"idle", "enclave", "read", "write", "public", "sign"},
               call : {"public", "sign"}, hardware : BOOLEAN,
               cache : Keys', pem : Keys']
  BY DEF Uses
<1>4. Held(s, key, hw) \in Uses'
  BY <1>2, <1>3
<1> QED BY <1>2, <1>4 DEF WellHeld

\* choose_signer: nothing is held yet.
LEMMA ChooseSignerSound ==
  ASSUME KeysSound, NEW s \in Signers, ChooseSigner(s)
  PROVE  KeysSound'
<1> DEFINE u == [NoUse EXCEPT !.at = IF HasEnclave THEN "enclave" ELSE "read"]
<1>1. use' = [use EXCEPT ![s] = u] /\ UNCHANGED <<keychain, signed, created, stored, deletions, crossings>>
  BY DEF ChooseSigner
<1>2. u.at \in {"enclave", "read"} /\ u.call = "public"
  BY DEF NoUse
<1>3. u \in Uses'
  <2>1. 0 \in Keys'
    BY <1>1 DEF Keys, KeysSound, KeyTypeOK
  <2>2. NoUse \in Uses'
    BY <2>1 DEF Uses, NoUse, NoKey
  <2> QED BY <2>2 DEF Uses
<1> HIDE DEF u
<1> QED BY <1>1, <1>2, <1>3, QuietMove DEF WellHeld

\* The Secure Enclave makes a key or does not.
LEMMA EnclaveSound ==
  ASSUME KeysSound, NEW s \in Signers, EnclaveGenerates(s) \/ EnclaveFails(s)
  PROVE  KeysSound'
<1>1. use[s] \in Uses /\ created \in Nat /\ WellHeld(use[s], stored) /\ use[s].at = "enclave"
  BY DEF KeysSound, KeyTypeOK, ProvidersHold, EnclaveGenerates, EnclaveFails
<1>2. CASE EnclaveGenerates(s)
  <2>1. /\ created' = created + 1 /\ UNCHANGED <<keychain, signed, stored, deletions, crossings>>
        /\ use' = [use EXCEPT ![s] = Held(s, created', TRUE)]
    BY <1>2 DEF EnclaveGenerates
  <2>2. created' \in Keys'
    BY <1>1, <2>1 DEF Keys
  <2>3. use[s].call = "public"
    BY <1>1 DEF WellHeld
  <2>4. /\ Held(s, created', TRUE) \in Uses'
        /\ WellHeld(Held(s, created', TRUE), stored')
        /\ Held(s, created', TRUE).at = "public"
    BY <2>1, <2>2, <2>3, HeldRecord
  <2> QED BY <2>1, <2>4, QuietMove
<1>3. CASE EnclaveFails(s)
  <2> DEFINE u == [use[s] EXCEPT !.at = "read"]
  <2>1. use' = [use EXCEPT ![s] = u] /\ UNCHANGED <<keychain, signed, created, stored, deletions, crossings>>
    BY <1>3 DEF EnclaveFails
  <2>2. u \in Uses' /\ u.at = "read" /\ u.call = "public"
    BY <1>1, <2>1 DEF Uses, Keys, WellHeld
  <2> HIDE DEF u
  <2> QED BY <2>1, <2>2, QuietMove DEF WellHeld
<1> QED BY <1>2, <1>3

\* A keychain that refuses leaves a provider without a key.
LEMMA RefusalSound ==
  ASSUME KeysSound, NEW s \in Signers, ReadFails(s) \/ WriteFails(s)
  PROVE  KeysSound'
<1>1. /\ use' = [use EXCEPT ![s] = Held(s, NoKey, FALSE)]
      /\ UNCHANGED <<keychain, signed, created, stored, deletions, crossings>>
      /\ use[s].at \in {"read", "write"}
  BY DEF ReadFails, WriteFails
<1>2. NoKey \in Keys' /\ use[s].call = "public"
  BY <1>1 DEF KeysSound, KeyTypeOK, ProvidersHold, WellHeld, Keys, NoKey
<1>3. /\ Held(s, NoKey, FALSE) \in Uses'
      /\ WellHeld(Held(s, NoKey, FALSE), stored')
      /\ Held(s, NoKey, FALSE).at = "public"
  BY <1>1, <1>2, HeldRecord
<1> QED BY <1>1, <1>3, QuietMove

\* The signing call finds the key of the first one in the cache.
LEMMA CallSignSound ==
  ASSUME KeysSound, NEW s \in Signers, CallSign(s)
  PROVE  KeysSound'
<1> DEFINE u == [use[s] EXCEPT !.call = "sign", !.at = "sign"]
<1>1. use[s] \in Uses /\ WellHeld(use[s], stored) /\ use[s].at = "public" /\ use[s].pem # NoKey
  BY DEF KeysSound, KeyTypeOK, ProvidersHold, CallSign
<1>2. Cached(s) # NoKey
  BY <1>1 DEF Cached, WellHeld
<1>3. use' = [use EXCEPT ![s] = u] /\ UNCHANGED <<keychain, signed, created, stored, deletions, crossings>>
  BY <1>1, <1>2 DEF CallSign
<1>4. u \in Uses' /\ u.at = "sign" /\ u.pem = use[s].pem /\ u.cache = use[s].cache
      /\ u.hardware = use[s].hardware
  BY <1>1, <1>3 DEF Uses, Keys
<1> HIDE DEF u
<1> QED BY <1>1, <1>3, <1>4, QuietMove DEF WellHeld

\* The entry is there, or a key is created that is still to be stored.
LEMMA ReadEntrySound ==
  ASSUME KeysSound, NEW s \in Signers, ReadEntry(s)
  PROVE  KeysSound'
<1>1. /\ use[s] \in Uses /\ WellHeld(use[s], stored) /\ use[s].at = "read"
      /\ use[s].call = "public" /\ created \in Nat /\ deletions \in Nat /\ crossings \in Nat
  BY DEF KeysSound, KeyTypeOK, ProvidersHold, WellHeld, ReadEntry
<1>2. CASE keychain # NoKey
  <2>1. /\ use' = [use EXCEPT ![s] = Held(s, keychain, FALSE)]
        /\ UNCHANGED <<keychain, signed, created, stored, deletions, crossings>>
    BY <1>2 DEF ReadEntry
  <2>2. keychain \in Keys' /\ keychain \in stored'
    BY <1>2, <2>1 DEF KeysSound, KeyTypeOK, Keys
  <2>3. /\ Held(s, keychain, FALSE) \in Uses'
        /\ WellHeld(Held(s, keychain, FALSE), stored')
        /\ Held(s, keychain, FALSE).at = "public"
    BY <1>1, <2>1, <2>2, HeldRecord
  <2> QED BY <2>1, <2>3, QuietMove
<1>3. CASE keychain = NoKey
  <2> DEFINE u == [use[s] EXCEPT !.at = "write", !.cache = created']
  <2>1. /\ use' = [use EXCEPT ![s] = u]
        /\ created' = created + 1
        /\ crossings' = crossings + IF Unwritten = {} THEN 0 ELSE 1
        /\ UNCHANGED <<keychain, signed, stored, deletions>>
    BY <1>1, <1>3 DEF ReadEntry
  <2>2. Keys' = 0..(created + 1) /\ Keys = 0..created
    BY <2>1 DEF Keys
  <2>3. u \in Uses' /\ u.at = "write" /\ u.cache # NoKey /\ u.call = "public"
        /\ u.cache = created + 1
    <3>1. created' \in Keys' /\ created' # 0
      BY <1>1, <2>1, <2>2
    <3>2. use[s] \in Uses'
      BY <1>1, <2>2 DEF Uses
    <3>3. u \in Uses'
      BY <3>1, <3>2 DEF Uses
    <3>4. u.at = "write" /\ u.cache = created' /\ u.call = use[s].call
      BY <3>2 DEF Uses
    <3> QED BY <1>1, <2>1, <3>1, <3>3, <3>4 DEF NoKey
  <2> HIDE DEF u
  <2>4. /\ use' \in [Signers -> Uses']
        /\ use'[s] = u /\ \A t \in Signers \ {s} : use'[t] = use[t]
        /\ Keys \subseteq Keys' /\ created' \in Nat
    BY <2>1, <2>3, ProviderMoves
  <2>5. KeyTypeOK'
    <3>1. [pem : Keys, by : Keys, hardware : BOOLEAN]
            \subseteq [pem : Keys', by : Keys', hardware : BOOLEAN]
      BY <2>4
    <3> QED BY <1>1, <2>1, <2>4, <3>1 DEF KeysSound, KeyTypeOK
  <2>6. ProvidersHold'
    BY <2>1, <2>3, <2>4 DEF KeysSound, ProvidersHold, WellHeld
  <2>7. Creations'
    <3>1. /\ Unwritten \subseteq Keys /\ Made \subseteq Keys
          /\ IsFiniteSet(Made) /\ Cardinality(Made) \in Nat
      BY MadeAreKeys DEF KeysSound
    <3>2. created + 1 \notin Keys
      BY <1>1, <2>2
    <3>3. Unwritten' = Unwritten \cup {created + 1}
      BY <1>1, <2>3, <2>4 DEF Unwritten
    <3>4. Made' = Made \cup {created + 1} /\ created + 1 \notin Made
      BY <2>1, <3>1, <3>2, <3>3 DEF Made
    <3>5. Cardinality(Made') = Cardinality(Made) + 1
      BY <3>1, <3>4, FS_AddElement
    <3>6. Cardinality(Made) <= Budget
      BY DEF KeysSound, Creations
    <3>7. Budget' = Budget + 1
      BY <1>1, <1>3, <2>1, <3>3 DEF Budget
    <3>8. Cardinality(Made') <= Budget'
      BY <1>1, <3>1, <3>5, <3>6, <3>7 DEF Budget
    <3>9. /\ created + 1 \notin stored
          /\ \A t \in Signers : use[t].at = "write" => use[t].cache # created + 1
      BY <3>1, <3>2 DEF KeysSound, KeyTypeOK, Unwritten
    <3>10. \A t \in Signers : use'[t].at = "write" => use'[t].cache \notin stored'
      BY <2>1, <2>3, <2>4, <3>9 DEF KeysSound, Creations
    <3>11. ASSUME NEW t1 \in Signers, NEW t2 \in Signers, use'[t1].at = "write",
                  use'[t2].at = "write", use'[t1].cache = use'[t2].cache
           PROVE  t1 = t2
      BY <2>3, <2>4, <3>9, <3>11 DEF KeysSound, Creations
    <3> QED BY <3>8, <3>10, <3>11 DEF Creations
  <2>8. SignatureMatchesSigner' /\ SoftwareKeysWereStored'
    BY <2>1 DEF KeysSound, SignatureMatchesSigner, SoftwareKeysWereStored
  <2> QED BY <1>3, <2>1, <2>5, <2>6, <2>7, <2>8 DEF KeysSound
<1> QED BY <1>2, <1>3

\* The key created for the missing entry is stored.
LEMMA WriteEntrySound ==
  ASSUME KeysSound, NEW s \in Signers, WriteEntry(s)
  PROVE  KeysSound'
<1> DEFINE key == use[s].cache
<1>1. /\ use[s] \in Uses /\ WellHeld(use[s], stored) /\ use[s].at = "write"
      /\ use[s].call = "public" /\ key # NoKey /\ created \in Nat /\ deletions \in Nat /\ crossings \in Nat
  BY DEF KeysSound, KeyTypeOK, ProvidersHold, WellHeld, WriteEntry
<1>2. /\ use' = [use EXCEPT ![s] = Held(s, key, FALSE)]
      /\ keychain' = key /\ stored' = stored \cup {key}
      /\ UNCHANGED <<signed, created, deletions, crossings>>
  BY DEF WriteEntry
<1>3. key \in Keys /\ Keys' = Keys
  BY <1>1, <1>2 DEF Uses, Keys
<1>4. /\ Held(s, key, FALSE) \in Uses'
      /\ WellHeld(Held(s, key, FALSE), stored')
      /\ Held(s, key, FALSE).at = "public"
  BY <1>1, <1>2, <1>3, HeldRecord
<1>5. /\ use' \in [Signers -> Uses']
      /\ use'[s] = Held(s, key, FALSE) /\ \A t \in Signers \ {s} : use'[t] = use[t]
  BY <1>2, <1>4, ProviderMoves
<1>6. KeyTypeOK'
  BY <1>1, <1>2, <1>3, <1>5 DEF KeysSound, KeyTypeOK
<1>7. ProvidersHold'
  BY <1>2, <1>4, <1>5 DEF KeysSound, ProvidersHold, WellHeld
<1>8. Creations'
  <2>1. \A t \in Signers : use'[t].at = "write" =>
                            /\ t # s /\ use[t].at = "write"
                            /\ use'[t].cache = use[t].cache
    BY <1>4, <1>5
  <2>2. ASSUME NEW t \in Signers, use'[t].at = "write"
        PROVE  use'[t].cache \notin stored'
    <3>1. t # s /\ use[t].at = "write" /\ use'[t].cache = use[t].cache
      BY <2>1, <2>2
    <3>2. use[t].cache # key /\ use[t].cache \notin stored
      BY <1>1, <3>1 DEF KeysSound, Creations
    <3> QED BY <1>2, <3>1, <3>2
  <2>3. Unwritten' \cup {key} = Unwritten
    <3>1. key \in Unwritten
      BY <1>1 DEF Unwritten
    <3>2. Unwritten' \subseteq Unwritten
      BY <2>1 DEF Unwritten
    <3>3. ASSUME NEW t \in Signers, use[t].at = "write", t # s
          PROVE  use[t].cache \in Unwritten'
      <4>1. use'[t] = use[t]
        BY <1>5, <3>3
      <4> QED BY <3>3, <4>1 DEF Unwritten
    <3>4. Unwritten \subseteq Unwritten' \cup {key}
      BY <3>3 DEF Unwritten
    <3> QED BY <3>1, <3>2, <3>4
  <2>4. Made' = Made
    BY <1>2, <2>3 DEF Made
  <2>5. Budget' = Budget
    BY <1>1, <1>2, <2>3 DEF Budget
  <2>6. \A t1, t2 \in Signers :
          use'[t1].at = "write" /\ use'[t2].at = "write" /\ use'[t1].cache = use'[t2].cache
            => t1 = t2
    BY <2>1 DEF KeysSound, Creations
  <2> QED BY <2>2, <2>4, <2>5, <2>6 DEF KeysSound, Creations
<1>9. SignatureMatchesSigner' /\ SoftwareKeysWereStored'
  BY <1>2 DEF KeysSound, SignatureMatchesSigner, SoftwareKeysWereStored
<1> QED BY <1>1, <1>2, <1>6, <1>7, <1>8, <1>9 DEF KeysSound

\* What is signed is signed with the key whose public half was taken.
LEMMA SignSound ==
  ASSUME KeysSound, NEW s \in Signers, Sign(s)
  PROVE  KeysSound'
<1> DEFINE b == [pem |-> use[s].pem, by |-> use[s].cache, hardware |-> use[s].hardware]
<1>1. /\ use[s] \in Uses /\ WellHeld(use[s], stored) /\ use[s].at = "sign"
      /\ use[s].cache # NoKey /\ created \in Nat
  BY DEF KeysSound, KeyTypeOK, ProvidersHold, Sign
<1>2. /\ use' = [use EXCEPT ![s] = NoUse] /\ signed' = signed \cup {b}
      /\ UNCHANGED <<keychain, created, stored, deletions, crossings>>
  BY DEF Sign
<1>3. b \in [pem : Keys, by : Keys, hardware : BOOLEAN] /\ Keys' = Keys
  BY <1>1, <1>2 DEF Uses, Keys
<1>4. b.pem = b.by /\ b.pem # NoKey /\ (~b.hardware => b.by \in stored)
  BY <1>1 DEF WellHeld
<1> HIDE DEF b
<1>5. NoUse \in Uses'
  BY <1>1, <1>2 DEF Uses, NoUse, Keys, NoKey
<1>6. /\ use' \in [Signers -> Uses']
      /\ use'[s] = NoUse /\ \A t \in Signers \ {s} : use'[t] = use[t]
  BY <1>2, <1>5, ProviderMoves
<1>7. KeyTypeOK'
  BY <1>1, <1>2, <1>3, <1>6 DEF KeysSound, KeyTypeOK
<1>8. ProvidersHold'
  BY <1>2, <1>6 DEF KeysSound, ProvidersHold, WellHeld, NoUse
<1>9. Creations'
  BY <1>2, <1>6, CreationsShrink DEF NoUse
<1>10. SignatureMatchesSigner' /\ SoftwareKeysWereStored'
  BY <1>2, <1>4 DEF KeysSound, SignatureMatchesSigner, SoftwareKeysWereStored
<1> QED BY <1>2, <1>7, <1>8, <1>9, <1>10 DEF KeysSound

\* Dropping a provider, or the entry, takes nothing back.
LEMMA DropSignerSound ==
  ASSUME KeysSound, NEW s \in Signers, DropSigner(s)
  PROVE  KeysSound'
<1>1. use \in [Signers -> Uses]
  BY DEF KeysSound, KeyTypeOK
<1>2. /\ use' = [use EXCEPT ![s] = NoUse]
      /\ UNCHANGED <<keychain, signed, created, stored, deletions, crossings>>
  BY DEF DropSigner
<1>3. /\ use' = [t \in Signers |-> use'[t]]
      /\ \A t \in Signers : use'[t] \in {use[t], NoUse}
  BY <1>1, <1>2
<1> QED BY <1>2, <1>3, ProviderDropped

LEMMA DeleteEntrySound ==
  ASSUME KeysSound, DeleteEntry
  PROVE  KeysSound'
<1>1. /\ keychain' = NoKey /\ deletions' = deletions + 1
      /\ UNCHANGED <<use, signed, created, stored, crossings>>
  BY DEF DeleteEntry
<1>2. KeyTypeOK' /\ NoKey = 0
  BY <1>1 DEF KeysSound, KeyTypeOK, Uses, Keys, NoKey
<1>3. Creations'
  <2>1. Made' = Made /\ Unwritten' = Unwritten
    BY <1>1 DEF Made, Unwritten
  <2>2. /\ Cardinality(Made) \in Nat /\ Cardinality(Made) <= Budget
        /\ deletions \in Nat /\ crossings \in Nat
    BY MadeAreKeys DEF KeysSound, Creations, KeyTypeOK
  <2>3. Budget <= Budget' /\ Budget \in Nat /\ Budget' \in Nat
    BY <1>1, <2>2 DEF Budget
  <2>4. Cardinality(Made') <= Budget'
    BY <2>1, <2>2, <2>3
  <2> QED BY <1>1, <2>4 DEF KeysSound, Creations
<1> QED BY <1>1, <1>2, <1>3 DEF KeysSound, ProvidersHold, SignatureMatchesSigner,
  SoftwareKeysWereStored

-----------------------------------------------------------------------------
(* Processes.                                                              *)

\* What a set of processes leaves when it is gone.
Left(S, T) ==
  /\ script' \in [Launchers -> {"none", "running", "checked", "started",
                               "writing", "waiting", "server", "cutOff", "ended"}]
  /\ server' \in [Launchers -> {"none", "starting", "listening", "dead"}]
  /\ port' \in {port, Nobody}
  /\ \A l \in Launchers :
       /\ script'[l] \in {script[l], "ended", "cutOff"}
       /\ server'[l] \in {server[l], "dead"}
       /\ l \in S => script'[l] \in {"none", "ended", "cutOff"}
       /\ l \notin S => script'[l] = script[l]
       /\ l \in T => server'[l] \in {"none", "dead"}
       /\ script[l] = "none" => script'[l] = "none"
       /\ server[l] = "none" => server'[l] = "none"
       /\ script'[l] = "cutOff" => script[l] \in Unrecorded
       /\ script'[l] = "ended" => script[l] \notin Unrecorded

LEMMA GoneLeaves ==
  ASSUME SidecarTypeOK, NEW S, NEW T, Gone(S, T)
  PROVE  Left(S, T)
BY LaunchersAssumption DEF Gone, SidecarTypeOK, Alive, Launchers, Left, Ended,
   Unrecorded

LEMMA SidecarTyped ==
  ASSUME SidecarTypeOK, SidecarStep \/ SidecarFault
  PROVE  SidecarTypeOK'
<1> USE LaunchersAssumption DEF SidecarTypeOK
<1>1. ASSUME NEW a \in Apps, Probe(a) \/ Spawn(a)
      PROVE  SidecarTypeOK'
  <2>1. CASE Probe(a)
    BY <2>1 DEF Probe
  <2>2. CASE Spawn(a)
    <3>1. a \in Launchers
      BY DEF Launchers
    <3>2. app' = [app EXCEPT ![a] = "up"]
      BY <2>2 DEF Spawn
    <3>3. held' = held \/ held' = [held EXCEPT ![a] = TRUE]
      BY <2>2 DEF Spawn
    <3>4. script' = script \/ script' = [script EXCEPT ![a] = "running"]
      BY <2>2 DEF Spawn
    <3>5. UNCHANGED <<server, port, pidFile, stopping, crossed>>
      BY <2>2 DEF Spawn
    <3> QED BY <3>1, <3>2, <3>3, <3>4, <3>5
  <2> QED BY <1>1, <2>1, <2>2
<1>2. ASSUME NEW S \in SUBSET Launchers, NEW T, Gone(S, T),
             app' \in [Apps -> {"off", "probed", "up", "exited", "crashed"}],
             held' \in [Apps -> BOOLEAN], pidFile' = pidFile,
             stopping' \in [Kinds -> Launchers \cup {Nobody, EmptyFile}],
             crossed' \subseteq Launchers
      PROVE  SidecarTypeOK'
  <2>1. /\ script' \in [Launchers -> {"none", "running", "checked", "started",
                                     "writing", "waiting", "server", "cutOff", "ended"}]
        /\ server' \in [Launchers -> {"none", "starting", "listening", "dead"}]
        /\ port' \in {port, Nobody}
    BY <1>2, GoneLeaves DEF Left
  <2> QED BY <1>2, <2>1
<1>3. ASSUME NEW a \in Apps, Exit(a) \/ Interrupt(a) \/ CrashApp(a)
      PROVE  SidecarTypeOK'
  <2>1. CASE CrashApp(a)
    BY <1>3, <2>1 DEF CrashApp
  <2>2. CASE Exit(a)
    <3> DEFINE child == IF held[a] THEN {a} ELSE {}
    <3>1. child \in SUBSET Launchers /\ {l \in child : script[l] = "server"} \in SUBSET Launchers
      BY DEF Launchers
    <3>2. Gone(child, {l \in child : script[l] = "server"})
      BY <2>2 DEF Exit
    <3> HIDE DEF child
    <3> QED BY <1>2, <2>2, <3>1, <3>2 DEF Exit
  <2>3. CASE Interrupt(a)
    BY <1>2, <2>3 DEF Interrupt, Launchers
  <2> QED BY <1>3, <2>1, <2>2, <2>3
<1>4. ASSUME NEW l \in Launchers, RunByHand(l) \/ ScriptStep(l) \/ ScriptFails(l)
      PROVE  SidecarTypeOK'
  <2>1. Kind[l] \in Kinds
    OBVIOUS
  <2>2. CASE RunByHand(l)
    BY <2>2 DEF RunByHand
  <2>3. CASE CheckPidFile(l)
    BY <2>1, <2>3 DEF CheckPidFile, Between
  <2>4. CASE StartServer(l) \/ OpenPid(l) \/ WritePid(l)
    BY <2>1, <2>4 DEF StartServer, OpenPid, WritePid
  <2>5. CASE WaitEnds(l) \/ ScriptFails(l)
    BY <2>5 DEF WaitEnds, ScriptFails, Ended
  <2>6. CASE Bind(l)
    BY <2>6 DEF Bind
  <2> QED BY <1>4, <2>2, <2>3, <2>4, <2>5, <2>6 DEF ScriptStep
<1>5. ASSUME NEW l \in Launchers, ServerDies(l)
      PROVE  SidecarTypeOK'
  <2> DEFINE dying == {m \in {l} : script[m] = "server"}
  <2>1. dying \in SUBSET Launchers /\ {l} \in SUBSET Launchers
    OBVIOUS
  <2>2. Gone(dying, {l}) /\ UNCHANGED <<app, held, pidFile, stopping, crossed>>
    BY <1>5 DEF ServerDies
  <2> HIDE DEF dying
  <2>3. /\ app' \in [Apps -> {"off", "probed", "up", "exited", "crashed"}]
        /\ held' \in [Apps -> BOOLEAN] /\ pidFile' = pidFile
        /\ stopping' \in [Kinds -> Launchers \cup {Nobody, EmptyFile}]
        /\ crossed' \subseteq Launchers
    BY <2>2
  <2> QED BY <1>2, <2>1, <2>2, <2>3
<1>6. ASSUME NEW k \in Kinds, StopKills(k) \/ StopRemoves(k)
      PROVE  SidecarTypeOK'
  <2>1. CASE StopKills(k)
    <3>1. pidFile[k] \in Launchers \cup {EmptyFile}
      BY <2>1 DEF StopKills
    <3>2. /\ Gone({}, {pidFile[k]})
          /\ stopping' \in [Kinds -> Launchers \cup {Nobody, EmptyFile}]
          /\ crossed' \subseteq Launchers
          /\ UNCHANGED <<app, held, pidFile>>
      BY <2>1 DEF StopKills, Between
    <3>3. /\ app' \in [Apps -> {"off", "probed", "up", "exited", "crashed"}]
          /\ held' \in [Apps -> BOOLEAN] /\ pidFile' = pidFile
      BY <3>2
    <3> QED BY <1>2, <3>2, <3>3
  <2>2. CASE StopRemoves(k)
    BY <2>2 DEF StopRemoves
  <2> QED BY <1>6, <2>1, <2>2
<1> QED BY <1>1, <1>3, <1>4, <1>5, <1>6 DEF SidecarStep, SidecarFault

\* Who is closed leaves nothing, and only its own steps begin anything.
LEMMA ProcessesKept ==
  ASSUME SidecarTypeOK, ProcessesSound, SidecarStep \/ SidecarFault
  PROVE  ProcessesSound'
<1> SUFFICES ASSUME NEW a \in Apps, Kind[a] = "mlx"
             PROVE  /\ script'[a] \notin {"started", "writing", "waiting", "cutOff"}
                    /\ Alive(a)' => script'[a] = "server"
                    /\ app'[a] \in {"off", "probed"} => script'[a] = "none"
                    /\ app'[a] = "up" /\ script'[a] \notin {"none", "ended"} => held'[a]
                    /\ app'[a] = "exited" => script'[a] \in {"none", "ended"}
  BY DEF ProcessesSound
<1> DEFINE Goal == /\ script'[a] \notin {"started", "writing", "waiting", "cutOff"}
                   /\ Alive(a)' => script'[a] = "server"
                   /\ app'[a] \in {"off", "probed"} => script'[a] = "none"
                   /\ app'[a] = "up" /\ script'[a] \notin {"none", "ended"} => held'[a]
                   /\ app'[a] = "exited" => script'[a] \in {"none", "ended"}
<1>a. a \in Launchers /\ a # Nobody /\ Foreground(a) /\ a \notin Operators
  BY LaunchersAssumption DEF Launchers, Foreground
<1>b. /\ script[a] \notin {"started", "writing", "waiting", "cutOff"}
      /\ server[a] \in {"starting", "listening"} => script[a] = "server"
      /\ app[a] \in {"off", "probed"} => script[a] = "none"
      /\ app[a] = "up" /\ script[a] \notin {"none", "ended"} => held[a]
      /\ app[a] = "exited" => script[a] \in {"none", "ended"}
  BY <1>a DEF ProcessesSound, Alive
<1>c. Alive(a)' <=> server'[a] \in {"starting", "listening"}
  BY <1>a DEF Alive
<1> USE <1>a, <1>b, <1>c DEF SidecarTypeOK, Unrecorded
\* Processes go: what is left of this instance is less than before.
<1>1. ASSUME NEW S \in SUBSET Launchers, NEW T, Gone(S, T),
             app'[a] = app[a], held'[a] = held[a],
             a \in S => a \in T
      PROVE  Goal
  <2>1. /\ script'[a] \in {script[a], "ended"} /\ server'[a] \in {server[a], "dead"}
        /\ a \in T => server'[a] \in {"none", "dead"}
        /\ a \notin S => script'[a] = script[a]
        /\ script[a] = "none" => script'[a] = "none"
    <3>1. Left(S, T)
      BY <1>1, GoneLeaves
    <3> QED BY <3>1 DEF Left
  <2> QED BY <1>1, <2>1
<1>2. ASSUME NEW b \in Apps, Probe(b) \/ Spawn(b) \/ CrashApp(b)
      PROVE  Goal
  BY <1>2 DEF Probe, Spawn, CrashApp
<1>3. ASSUME NEW b \in Apps, Exit(b)
      PROVE  Goal
  <2> DEFINE child == IF held[b] THEN {b} ELSE {}
             served == {l \in child : script[l] = "server"}
  <2>1. child \in SUBSET Launchers /\ served \in SUBSET Launchers
    BY DEF Launchers
  <2>2. Gone(child, served) /\ app[b] = "up" /\ app' = [app EXCEPT ![b] = "exited"]
        /\ held' = [held EXCEPT ![b] = FALSE]
    BY <1>3 DEF Exit
  <2>3. /\ script'[a] \in {script[a], "ended"} /\ server'[a] \in {server[a], "dead"}
        /\ a \in child => script'[a] \in {"none", "ended"}
        /\ a \in served => server'[a] \in {"none", "dead"}
        /\ a \notin child => script'[a] = script[a]
        /\ script[a] = "none" => script'[a] = "none"
    <3> HIDE DEF child, served
    <3>1. Left(child, served)
      BY <2>2, GoneLeaves
    <3> QED BY <3>1 DEF Left
  <2>4. CASE a = b
    <3>1. app'[a] = "exited"
      BY <2>2, <2>4
    <3>2. script'[a] \in {"none", "ended"}
      BY <2>2, <2>3, <2>4
    <3>3. server'[a] \notin {"starting", "listening"}
      BY <2>2, <2>3, <2>4
    <3> QED BY <3>1, <3>2, <3>3
  <2>5. CASE a # b
    <3>1. a \notin child /\ app'[a] = app[a] /\ held'[a] = held[a]
      BY <2>2, <2>5
    <3> QED BY <2>3, <3>1
  <2> QED BY <2>4, <2>5
<1>4. ASSUME NEW b \in Apps, Interrupt(b)
      PROVE  Goal
  <2>1. Gone({b}, {b}) /\ {b} \in SUBSET Launchers /\ app' = [app EXCEPT ![b] = "exited"]
        /\ held' = [held EXCEPT ![b] = FALSE]
    BY <1>4 DEF Interrupt, Launchers
  <2>2. Left({b}, {b})
    BY <2>1, GoneLeaves
  <2>3. CASE a = b
    BY <2>1, <2>2, <2>3 DEF Left
  <2>4. CASE a # b
    BY <1>1, <2>1, <2>4
  <2> QED BY <2>3, <2>4
<1>5. ASSUME NEW l \in Launchers, RunByHand(l) \/ ScriptStep(l) \/ ScriptFails(l)
      PROVE  Goal
  <2>1. CASE RunByHand(l)
    BY <2>1 DEF RunByHand
  <2>2. CASE CheckPidFile(l)
    BY <2>2 DEF CheckPidFile
  <2>3. CASE StartServer(l)
    BY <2>3 DEF StartServer
  <2>4. CASE OpenPid(l) \/ WritePid(l) \/ WaitEnds(l) \/ ScriptFails(l)
    BY <2>4 DEF OpenPid, WritePid, WaitEnds, ScriptFails, Ended
  <2>5. CASE Bind(l)
    BY <2>5 DEF Bind
  <2> QED BY <1>5, <2>1, <2>2, <2>3, <2>4, <2>5 DEF ScriptStep
<1>6. ASSUME NEW l \in Launchers, ServerDies(l)
      PROVE  Goal
  <2>1. {m \in {l} : script[m] = "server"} \in SUBSET Launchers /\ {l} \in SUBSET Launchers
    OBVIOUS
  <2>2. Gone({m \in {l} : script[m] = "server"}, {l}) /\ UNCHANGED <<app, held>>
    BY <1>6 DEF ServerDies
  <2>3. app'[a] = app[a] /\ held'[a] = held[a]
        /\ (a \in {m \in {l} : script[m] = "server"} => a \in {l})
    BY <2>2
  <2> QED BY <1>1, <2>1, <2>2, <2>3
<1>7. ASSUME NEW k \in Kinds, StopKills(k) \/ StopRemoves(k)
      PROVE  Goal
  <2>1. CASE StopKills(k)
    <3>1. Gone({}, {pidFile[k]}) /\ UNCHANGED <<app, held>>
      BY <2>1 DEF StopKills
    <3> QED BY <1>1, <3>1
  <2>2. CASE StopRemoves(k)
    BY <2>2 DEF StopRemoves
  <2> QED BY <1>7, <2>1, <2>2
<1> QED BY <1>2, <1>3, <1>4, <1>5, <1>6, <1>7 DEF SidecarStep, SidecarFault

\* Each step of a script keeps its server behind it.
LEMMA FollowKept ==
  ASSUME SidecarTypeOK, ServersFollow, SidecarStep \/ SidecarFault
  PROVE  ServersFollow'
<1> SUFFICES ASSUME NEW l \in Launchers
             PROVE  /\ script'[l] \in {"none", "running", "checked"} => server'[l] = "none"
                    /\ script'[l] = "server" => Foreground(l)
                    /\ script'[l] \in {"started", "writing"} => ~Foreground(l)
                    /\ l \in Apps /\ app'[l] \in {"off", "probed"} => script'[l] = "none"
  BY DEF ServersFollow, Foreground
<1> DEFINE Goal == /\ script'[l] \in {"none", "running", "checked"} => server'[l] = "none"
                   /\ script'[l] = "server" => Foreground(l)
                   /\ script'[l] \in {"started", "writing"} => ~Foreground(l)
                   /\ l \in Apps /\ app'[l] \in {"off", "probed"} => script'[l] = "none"
<1>a. /\ script[l] \in {"none", "running", "checked"} => server[l] = "none"
      /\ script[l] = "server" => Foreground(l)
      /\ script[l] \in {"started", "writing"} => ~Foreground(l)
      /\ l \in Apps /\ app[l] \in {"off", "probed"} => script[l] = "none"
  BY DEF ServersFollow
<1> USE <1>a, LaunchersAssumption DEF SidecarTypeOK, Unrecorded
<1>1. ASSUME NEW S, NEW T, Gone(S, T),
             l \in Apps /\ app'[l] \in {"off", "probed"} => app[l] \in {"off", "probed"}
      PROVE  Goal
  <2>1. Left(S, T)
    BY <1>1, GoneLeaves
  <2> QED BY <1>1, <2>1 DEF Left
<1>2. ASSUME NEW a \in Apps, Probe(a) \/ Spawn(a) \/ CrashApp(a)
      PROVE  Goal
  BY <1>2 DEF Probe, Spawn, CrashApp, Launchers
<1>3. ASSUME NEW a \in Apps, Exit(a)
      PROVE  Goal
  <2> DEFINE child == IF held[a] THEN {a} ELSE {}
             served == {m \in child : script[m] = "server"}
  <2>1. Gone(child, served) /\ app' = [app EXCEPT ![a] = "exited"]
    BY <1>3 DEF Exit
  <2> HIDE DEF child, served
  <2> QED BY <1>1, <2>1
<1>4. ASSUME NEW a \in Apps, Interrupt(a)
      PROVE  Goal
  <2>1. Gone({a}, {a}) /\ app' = [app EXCEPT ![a] = "exited"]
    BY <1>4 DEF Interrupt
  <2> QED BY <1>1, <2>1
<1>5. ASSUME NEW m \in Launchers, RunByHand(m) \/ ScriptStep(m) \/ ScriptFails(m)
      PROVE  Goal
  <2>1. app' = app
    BY <1>5 DEF RunByHand, ScriptStep, ScriptFails, CheckPidFile, StartServer, OpenPid,
       WritePid, WaitEnds, Bind
  <2>2. CASE m = l
    <3>1. CASE RunByHand(m)
      BY <2>1, <2>2, <3>1 DEF RunByHand
    <3>2. CASE CheckPidFile(m)
      BY <2>1, <2>2, <3>2 DEF CheckPidFile
    <3>3. CASE StartServer(m)
      BY <2>1, <2>2, <3>3 DEF StartServer
    <3>4. CASE OpenPid(m) \/ WritePid(m) \/ WaitEnds(m) \/ ScriptFails(m)
      BY <2>1, <2>2, <3>4 DEF OpenPid, WritePid, WaitEnds, ScriptFails, Ended
    <3>5. CASE Bind(m)
      BY <2>1, <2>2, <3>5 DEF Bind
    <3> QED BY <1>5, <3>1, <3>2, <3>3, <3>4, <3>5 DEF ScriptStep
  <2>3. CASE m # l
    <3>1. script'[l] = script[l] /\ server'[l] = server[l]
      BY <1>5, <2>3 DEF RunByHand, ScriptStep, ScriptFails, CheckPidFile, StartServer,
         OpenPid, WritePid, WaitEnds, Bind
    <3> QED BY <2>1, <3>1
  <2> QED BY <2>2, <2>3
<1>6. ASSUME NEW m \in Launchers, ServerDies(m)
      PROVE  Goal
  <2> DEFINE dying == {n \in {m} : script[n] = "server"}
  <2>1. Gone(dying, {m}) /\ app' = app
    BY <1>6 DEF ServerDies
  <2> HIDE DEF dying
  <2> QED BY <1>1, <2>1
<1>7. ASSUME NEW k \in Kinds, StopKills(k)
      PROVE  Goal
  <2>1. Gone({}, {pidFile[k]}) /\ app' = app
    BY <1>7 DEF StopKills
  <2> QED BY <1>1, <2>1
<1>8. ASSUME NEW k \in Kinds, StopRemoves(k)
      PROVE  Goal
  BY <1>8 DEF StopRemoves
<1> QED BY <1>2, <1>3, <1>4, <1>5, <1>6, <1>7, <1>8 DEF SidecarStep, SidecarFault

\* A step by which no script enters the window between check and write, or
\* leaves it by writing, and no server begins.
LEMMA TrackingUntouched ==
  ASSUME SidecarTypeOK, ServersFollow, NEW l \in Launchers, Tracks(l),
         \A m \in Launchers : script'[m] \in Window =>
                              script'[m] = script[m],
         \A m \in Launchers : script'[m] \notin Lost =>
                              script[m] \notin Unrecorded,
         server'[l] \in {"starting", "listening"} =>
           server[l] \in {"starting", "listening"},
         UNCHANGED <<pidFile, stopping>>
  PROVE  Tracks(l)'
<1> USE DEF Window, Lost, Unrecorded
<1>1. Between(Kind[l])' \subseteq Between(Kind[l])
  BY DEF Between
<1>2. Alive(l)' => Alive(l)
  BY DEF Alive
<1>3. Alive(l) => script[l] # "checked"
  BY DEF ServersFollow, Alive
<1> QED BY <1>1, <1>2, <1>3 DEF Tracks

\* Each check, start, write and stop meets what it expects.
LEMMA TrackingKept ==
  ASSUME SidecarTypeOK, TrackingSound, SidecarStep \/ SidecarFault
  PROVE  TrackingSound'
<1>a. crossed \subseteq crossed'
  BY DEF SidecarStep, SidecarFault, ScriptStep, Probe, Spawn, Exit, Interrupt, CrashApp,
     RunByHand, CheckPidFile, ScriptFails, StartServer, OpenPid, WritePid, WaitEnds,
     Bind, ServerDies, StopKills, StopRemoves
<1> SUFFICES ASSUME NEW l \in Launchers, l \notin crossed', ~Foreground(l)
             PROVE  Tracks(l)'
  BY FollowKept DEF TrackingSound, Foreground
<1> USE LaunchersAssumption DEF SidecarTypeOK, Window, Lost, Unrecorded
<1>b. Tracks(l) /\ ServersFollow /\ Kind[l] \in Kinds /\ l # Nobody
  BY <1>a DEF TrackingSound
<1>1. ASSUME NEW S, NEW T, Gone(S, T), UNCHANGED <<pidFile, stopping>>
      PROVE  Tracks(l)'
  <2>1. Left(S, T)
    BY <1>1, GoneLeaves
  <2> QED BY <1>b, <1>1, <2>1, TrackingUntouched DEF Left
<1>2. ASSUME NEW a \in Apps, Probe(a) \/ Spawn(a) \/ CrashApp(a)
      PROVE  Tracks(l)'
  <2>1. /\ UNCHANGED <<server, pidFile, stopping>>
        /\ \A m \in Launchers : script'[m] = script[m] \/ script'[m] = "running"
    BY <1>2 DEF Probe, Spawn, CrashApp
  <2>2. \A m \in Launchers : script'[m] # script[m] => script[m] = "none"
    BY <1>b, <1>2 DEF Probe, Spawn, CrashApp, ServersFollow, Launchers
  <2> QED BY <1>b, <2>1, <2>2, TrackingUntouched
<1>3. ASSUME NEW a \in Apps, Exit(a) \/ Interrupt(a)
      PROVE  Tracks(l)'
  <2>1. CASE Exit(a)
    <3> DEFINE child == IF held[a] THEN {a} ELSE {}
               served == {m \in child : script[m] = "server"}
    <3>1. Gone(child, served) /\ UNCHANGED <<pidFile, stopping>>
      BY <2>1 DEF Exit
    <3> HIDE DEF child, served
    <3> QED BY <1>1, <3>1
  <2>2. CASE Interrupt(a)
    BY <1>1, <2>2 DEF Interrupt
  <2> QED BY <1>3, <2>1, <2>2
<1>4. ASSUME NEW m \in Launchers,
             RunByHand(m) \/ WaitEnds(m) \/ ScriptFails(m) \/ Bind(m)
      PROVE  Tracks(l)'
  <2>1. /\ UNCHANGED <<pidFile, stopping>>
        /\ server'[l] \in {"starting", "listening"} =>
             server[l] \in {"starting", "listening"}
    BY <1>4 DEF RunByHand, WaitEnds, ScriptFails, Bind
  <2>2. \A n \in Launchers : script'[n] \in Window =>
                             script'[n] = script[n]
    BY <1>4 DEF RunByHand, WaitEnds, ScriptFails, Bind, Ended
  <2>3. \A n \in Launchers : script'[n] \notin Lost =>
                             script[n] \notin Unrecorded
    BY <1>4 DEF RunByHand, WaitEnds, ScriptFails, Bind, Ended
  <2> QED BY <1>b, <2>1, <2>2, <2>3, TrackingUntouched
<1>5. ASSUME NEW m \in Launchers, ServerDies(m)
      PROVE  Tracks(l)'
  <2> DEFINE dying == {n \in {m} : script[n] = "server"}
  <2>1. Gone(dying, {m}) /\ UNCHANGED <<pidFile, stopping>>
    BY <1>5 DEF ServerDies
  <2> HIDE DEF dying
  <2> QED BY <1>1, <2>1
\* The check: nobody of the kind is between, or both have met.
<1>6. ASSUME NEW m \in Launchers, CheckPidFile(m)
      PROVE  Tracks(l)'
  <2> DEFINE k == Kind[l]
  <2>1. /\ script[m] = "running" /\ Kind[m] \in Kinds
        /\ script' = [script EXCEPT ![m] = IF Tracked(Kind[m]) THEN "ended" ELSE "checked"]
        /\ pidFile' = [pidFile EXCEPT ![Kind[m]] =
             IF Kind[m] = "mlx" /\ ~Tracked(Kind[m]) THEN Nobody ELSE pidFile[Kind[m]]]
        /\ UNCHANGED <<server, stopping>>
    BY <1>6 DEF CheckPidFile
  <2>2. crossed' = IF Between(Kind[m]) = {} /\ stopping[Kind[m]] = Nobody THEN crossed
                   ELSE crossed \cup Between(Kind[m]) \cup {m}
    BY <1>6 DEF CheckPidFile
  <2>3. Alive(l)' <=> Alive(l)
    BY <2>1 DEF Alive
  <2>4. CASE Kind[m] # k
    <3>1. Between(k)' \subseteq Between(k)
      BY <2>1, <2>4 DEF Between
    <3>2. script'[l] = script[l] /\ pidFile'[k] = pidFile[k]
      BY <1>b, <2>1, <2>4
    <3> QED BY <1>b, <2>1, <2>3, <3>1, <3>2 DEF Tracks
  <2>5. CASE Kind[m] = k /\ m = l
    <3>1. Between(k) = {} /\ stopping[k] = Nobody
      BY <2>2, <2>5
    <3>2. server[l] = "none"
      BY <1>b, <2>1, <2>5 DEF ServersFollow
    <3>3. ~Alive(l)'
      BY <2>3, <3>2 DEF Alive
    <3>4. \A n \in Between(k)' : n = l
      BY <2>1, <2>5, <3>1 DEF Between
    <3> QED BY <2>1, <3>1, <3>3, <3>4 DEF Tracks
  <2>6. CASE Kind[m] = k /\ m # l
    <3>1. script'[l] = script[l]
      BY <2>1, <2>6
    <3>2. l \notin Between(k)
      BY <2>2, <2>6
    <3>3. script[l] \notin Window
      BY <3>2 DEF Between
    <3>4. ASSUME Alive(l), script[l] \notin Lost
          PROVE  pidFile'[k] = l /\ Between(k)' = {} /\ stopping'[k] = Nobody
      <4>1. pidFile[k] = l /\ Between(k) = {} /\ stopping[k] = Nobody
        BY <1>b, <3>4 DEF Tracks
      <4>2. Tracked(k)
        BY <3>4, <4>1 DEF Tracked
      <4>3. script' = [script EXCEPT ![m] = "ended"] /\ pidFile'[k] = pidFile[k]
        BY <1>b, <2>1, <2>6, <4>2
      <4>4. Between(k)' \subseteq Between(k)
        BY <4>3 DEF Between
      <4> QED BY <2>1, <4>1, <4>3, <4>4
    <3> QED BY <2>3, <3>1, <3>3, <3>4 DEF Tracks
  <2> QED BY <2>4, <2>5, <2>6
\* The start leaves the window as it is.
<1>7. ASSUME NEW m \in Launchers, StartServer(m)
      PROVE  Tracks(l)'
  <2>1. /\ script[m] = "checked" /\ UNCHANGED <<pidFile, stopping>>
        /\ script' = [script EXCEPT ![m] = IF Foreground(m) THEN "server" ELSE "started"]
        /\ server' = [server EXCEPT ![m] = "starting"]
    BY <1>7 DEF StartServer
  <2>2. Between(Kind[l])' \subseteq Between(Kind[l])
    BY <2>1 DEF Between
  <2>3. CASE m = l
    <3>1. script[l] = "checked" /\ script'[l] = "started"
      BY <2>1, <2>3
    <3> QED BY <1>b, <2>1, <2>2, <3>1 DEF Tracks
  <2>4. CASE m # l
    <3>1. script'[l] = script[l] /\ server'[l] = server[l]
      BY <2>1, <2>4
    <3>2. Alive(l)' <=> Alive(l)
      BY <3>1 DEF Alive
    <3> QED BY <1>b, <2>1, <2>2, <3>1, <3>2 DEF Tracks
  <2> QED BY <2>3, <2>4
\* The write: whoever writes was between, so no other server is tracked.
<1>8. ASSUME NEW m \in Launchers, OpenPid(m) \/ WritePid(m)
      PROVE  Tracks(l)'
  <2> DEFINE k == Kind[l]
  <2>1. /\ script[m] \in {"started", "writing"} /\ UNCHANGED <<server, stopping>>
        /\ \A n \in Launchers \ {m} : script'[n] = script[n]
        /\ \A j \in Kinds \ {Kind[m]} : pidFile'[j] = pidFile[j]
        /\ Kind[m] \in Kinds
    BY <1>8 DEF OpenPid, WritePid
  <2>2. Between(k)' \subseteq Between(k)
    BY <1>8, <2>1 DEF Between
  <2>3. m \in Between(Kind[m])
    BY <1>b, <2>1 DEF Between, ServersFollow
  <2>4. Alive(l)' <=> Alive(l)
    BY <2>1 DEF Alive
  <2>5. CASE m = l
    <3>1. \A n \in Between(k) : n = l
      BY <1>b, <2>1, <2>5 DEF Tracks
    <3>2. stopping'[k] = Nobody
      BY <1>b, <2>1, <2>5 DEF Tracks
    <3>3. CASE OpenPid(m)
      <4>1. script'[l] = "writing"
        BY <2>5, <3>3 DEF OpenPid
      <4> QED BY <2>2, <3>1, <3>2, <4>1 DEF Tracks
    <3>4. CASE WritePid(m)
      <4>1. pidFile'[k] = l /\ script'[l] = "waiting"
        BY <2>5, <3>4 DEF WritePid
      <4>2. Between(k)' = {}
        BY <2>2, <3>1, <4>1 DEF Between
      <4> QED BY <3>2, <4>1, <4>2 DEF Tracks
    <3> QED BY <1>8, <3>3, <3>4
  <2>6. CASE m # l
    <3>1. script'[l] = script[l]
      BY <2>1, <2>6
    <3>2. ASSUME Alive(l), script[l] \notin Lost
          PROVE  pidFile'[k] = l
      <4>1. pidFile[k] = l /\ Between(k) = {}
        BY <1>b, <3>2 DEF Tracks
      <4>2. Kind[m] # k
        BY <2>3, <4>1
      <4> QED BY <1>b, <2>1, <4>1, <4>2
    <3> QED BY <1>b, <2>1, <2>2, <2>4, <3>1, <3>2 DEF Tracks
  <2> QED BY <2>5, <2>6
\* The stop: it has met whoever is between, and kills a server that is
\* tracked.
<1>9. ASSUME NEW j \in Kinds, StopKills(j)
      PROVE  Tracks(l)'
  <2> DEFINE k == Kind[l]
  <2>1. /\ Gone({}, {pidFile[j]}) /\ pidFile' = pidFile
        /\ stopping' = [stopping EXCEPT ![j] = pidFile[j]]
        /\ crossed' = crossed \cup Between(j)
    BY <1>9 DEF StopKills
  <2>2. Left({}, {pidFile[j]})
    BY <2>1, GoneLeaves
  <2>3. /\ \A m \in Launchers : script'[m] = script[m]
        /\ server'[l] \in {server[l], "dead"}
        /\ l = pidFile[j] => server'[l] \in {"none", "dead"}
    BY <2>2 DEF Left
  <2>4. Between(k)' = Between(k) /\ (Alive(l)' => Alive(l))
    BY <2>3 DEF Between, Alive
  <2>5. CASE j # k
    <3>1. stopping'[k] = stopping[k]
      BY <1>b, <2>1, <2>5
    <3> QED BY <1>b, <2>1, <2>3, <2>4, <3>1 DEF Tracks
  <2>6. CASE j = k
    <3>1. script[l] \notin Window
      BY <2>1, <2>6 DEF Between
    <3>2. Alive(l)' => script[l] \in Lost
      <4>1. l = pidFile[k] => ~Alive(l)'
        BY <2>3, <2>6 DEF Alive
      <4> QED BY <1>b, <2>4, <4>1 DEF Tracks
    <3> QED BY <2>3, <3>1, <3>2 DEF Tracks
  <2> QED BY <2>5, <2>6
<1>10. ASSUME NEW j \in Kinds, StopRemoves(j)
       PROVE  Tracks(l)'
  <2> DEFINE k == Kind[l]
  <2>1. /\ stopping[j] # Nobody /\ stopping' = [stopping EXCEPT ![j] = Nobody]
        /\ pidFile' = [pidFile EXCEPT ![j] = Nobody]
        /\ UNCHANGED <<script, server>>
    BY <1>10 DEF StopRemoves
  <2>2. Between(k)' = Between(k) /\ (Alive(l)' <=> Alive(l))
    BY <2>1 DEF Between, Alive
  <2>3. CASE j # k
    <3>1. stopping'[k] = stopping[k] /\ pidFile'[k] = pidFile[k]
      BY <1>b, <2>1, <2>3
    <3> QED BY <1>b, <2>1, <2>2, <3>1 DEF Tracks
  <2>4. CASE j = k
    <3>1. /\ script[l] \notin Window
          /\ ~(Alive(l) /\ script[l] \notin Lost)
      BY <1>b, <2>1, <2>4 DEF Tracks
    <3> QED BY <2>1, <2>2, <3>1 DEF Tracks
  <2> QED BY <2>3, <2>4
<1> QED
  BY <1>2, <1>3, <1>4, <1>5, <1>6, <1>7, <1>8, <1>9, <1>10
     DEF SidecarStep, SidecarFault, ScriptStep

-----------------------------------------------------------------------------
(* Models.                                                                 *)

\* The name that a seal is told is one of the list, and that of the server
\* when the list has no other or the server is its own.
LEMMA NameOfServer ==
  ASSUME NEW a \in Apps, NEW p \in Launchers,
         NEW m \in ActiveModel(Listed(p), Configured(a))
  PROVE  /\ m \in Models
         /\ p = a \/ Kind[p] = "mistralrs" => m = Served(p)
<1> USE ModelsAssumption, LaunchersAssumption
<1>1. a \in Launchers /\ Kind[p] \in Kinds /\ Kind[a] \in Kinds
  BY DEF Launchers
<1>2. m \in Listed(p)
  BY DEF ActiveModel
<1>3. Served(p) \in Models
  BY <1>1 DEF Served
<1>4. m \in Models
  BY <1>2, <1>3 DEF Listed
<1>5. CASE Kind[p] = "mistralrs"
  BY <1>2, <1>4, <1>5 DEF Listed
<1>6. CASE p = a /\ Kind[p] = "mlx"
  <2>1. Configured(a) = Served(p) /\ Served(p) \in Listed(p)
    BY <1>6 DEF Configured, Served, Listed
  <2> QED BY <1>4, <2>1 DEF ActiveModel
<1> QED BY <1>1, <1>4, <1>5, <1>6 DEF Kinds

-----------------------------------------------------------------------------
(* The composition.                                                        *)

Asking ==
  /\ asked \in [Apps -> [model : Models \cup {Unset}, by : Launchers \cup {Nobody}]]
  /\ \A a \in Apps : asked[a] # NoAnswer => asked[a].model \in Models
  /\ unknown \subseteq Models
  /\ seals \in 0..MaxSeals /\ faults \in 0..MaxFaults
  /\ ModelNamedRightly

Sound == KeysSound /\ SidecarTypeOK /\ ProcessesSound /\ TrackingSound /\ Asking

LEMMA KeysStutter ==
  ASSUME KeysSound, UNCHANGED keys
  PROVE  KeysSound'
<1>1. /\ UNCHANGED <<keychain, signed, created, stored, deletions, crossings>>
      /\ use' = [s \in Signers |-> use'[s]]
      /\ \A s \in Signers : use'[s] \in {use[s], NoUse}
  BY DEF keys, KeysSound, KeyTypeOK
<1> QED BY <1>1, ProviderDropped

LEMMA SidecarsStutter ==
  ASSUME SidecarTypeOK, ProcessesSound, TrackingSound, UNCHANGED sidecars
  PROVE  SidecarTypeOK' /\ ProcessesSound' /\ TrackingSound'
BY DEF sidecars, SidecarTypeOK, ProcessesSound, TrackingSound, ServersFollow, Tracks,
   Between, Alive

\* An answer of a seal that is over is forgotten.
LEMMA AskingOver ==
  ASSUME Asking, unknown' \subseteq Models, seals' \in 0..MaxSeals,
         faults' \in 0..MaxFaults,
         asked' = [a \in Apps |-> asked'[a]],
         \A a \in Apps : asked'[a] \in {asked[a], NoAnswer}
  PROVE  Asking'
<1>1. NoAnswer \in [model : Models \cup {Unset}, by : Launchers \cup {Nobody}]
  BY DEF NoAnswer
<1>2. asked' \in [Apps -> [model : Models \cup {Unset}, by : Launchers \cup {Nobody}]]
  <2>1. \A a \in Apps : asked'[a] \in [model : Models \cup {Unset}, by : Launchers \cup {Nobody}]
    BY <1>1 DEF Asking
  <2> QED BY <2>1
<1>3. ModelNamedRightly'
  BY DEF Asking, ModelNamedRightly, NoAnswer, Served
<1> QED BY <1>2, <1>3 DEF Asking

LEMMA InitSound == Init => Sound
<1> SUFFICES ASSUME Init PROVE Sound
  OBVIOUS
<1>1. KeysSound
  BY KeysInitially DEF Init
<1>2. SidecarTypeOK /\ ProcessesSound /\ TrackingSound
  BY LaunchersAssumption DEF Init, SidecarInit, SidecarTypeOK, ProcessesSound,
     TrackingSound, ServersFollow, Tracks, Between, Alive, Launchers, Kinds
<1>3. Asking
  BY ModelsAssumption DEF Init, Asking, NoAnswer, ModelNamedRightly
<1> QED BY <1>1, <1>2, <1>3 DEF Sound

LEMMA StepSound == Sound /\ [Next]_vars => Sound'
<1> SUFFICES ASSUME Sound, [Next]_vars PROVE Sound'
  OBVIOUS
<1> USE ModelsAssumption DEF Sound
<1>1. UNCHANGED sidecars => SidecarTypeOK' /\ ProcessesSound' /\ TrackingSound'
  BY SidecarsStutter
\* Steps that ask for nothing and forget at most.
<1>2. ASSUME unknown' \subseteq Models, seals' \in 0..MaxSeals, faults' \in 0..MaxFaults,
             asked' = asked
      PROVE  Asking'
  BY <1>2, AskingOver DEF Asking
<1>3. ASSUME NEW a \in Apps, unknown' \subseteq Models, seals' = seals, faults' = faults,
             asked' = [asked EXCEPT ![a] = NoAnswer]
      PROVE  Asking'
  BY <1>3, AskingOver DEF Asking
<1>4. ASSUME NEW a \in Apps, BeginSeal(a) PROVE Sound'
  <2>1. ChooseSigner(a) /\ UNCHANGED <<sidecars, asked, unknown, faults>> /\ seals' = seals + 1 /\ seals < MaxSeals
    BY <1>4 DEF BeginSeal
  <2>2. KeysSound'
    BY <2>1, ChooseSignerSound
  <2>3. Asking'
    BY <1>2, <2>1 DEF Asking
  <2> QED BY <1>1, <2>1, <2>2, <2>3
<1>5. ASSUME NEW a \in Apps, LoadKey(a) \/ BeginSign(a) PROVE Sound'
  <2>1. (LoadStep(a) \/ CallSign(a)) /\ UNCHANGED <<sidecars, asked, unknown, seals, faults>>
    BY <1>5 DEF LoadKey, BeginSign
  <2>2. KeysSound'
    BY <2>1, EnclaveSound, ReadEntrySound, WriteEntrySound, CallSignSound DEF LoadStep
  <2>3. Asking'
    BY <1>2, <2>1 DEF Asking
  <2> QED BY <1>1, <2>1, <2>2, <2>3
<1>6. ASSUME NEW a \in Apps, AskModel(a) PROVE Sound'
  <2>1. /\ port # Nobody /\ UNCHANGED <<keys, sidecars, unknown, seals, faults>>
        /\ \E m \in ActiveModel(Listed(port), Configured(a)) :
             asked' = [asked EXCEPT ![a] = [model |-> m, by |-> port]]
    BY <1>6 DEF AskModel
  <2>2. PICK m \in ActiveModel(Listed(port), Configured(a)) :
          asked' = [asked EXCEPT ![a] = [model |-> m, by |-> port]]
    BY <2>1
  <2>3. port \in Launchers
    BY <2>1 DEF SidecarTypeOK
  <2>4. m \in Models /\ (port = a \/ Kind[port] = "mistralrs" => m = Served(port))
    BY <2>3, NameOfServer
  <2>5. ModelNamedRightly'
    BY <2>2, <2>4 DEF Asking, ModelNamedRightly, Served
  <2>6. Asking'
    BY <2>1, <2>2, <2>3, <2>4, <2>5 DEF Asking
  <2> QED BY <1>1, <2>1, <2>6, KeysStutter
<1>7. ASSUME NEW a \in Apps, ModelUnknown(a) \/ RefuseSeal(a) PROVE Sound'
  <2>1. DropSigner(a) /\ UNCHANGED <<sidecars, seals, faults>>
        /\ asked' = [asked EXCEPT ![a] = NoAnswer]
    BY <1>7 DEF ModelUnknown, RefuseSeal
  <2>2. unknown' \subseteq Models
    <3>1. asked[a] # NoAnswer => asked[a].model \in Models
      BY DEF Asking, NoAnswer
    <3> QED BY <1>7, <3>1 DEF ModelUnknown, RefuseSeal, Asking
  <2>3. Asking'
    BY <1>3, <2>1, <2>2
  <2> QED BY <1>1, <2>1, <2>3, DropSignerSound
<1>8. ASSUME NEW a \in Apps, FinishSeal(a) PROVE Sound'
  <2>1. Sign(a) /\ UNCHANGED <<sidecars, unknown, seals, faults>>
        /\ asked' = [asked EXCEPT ![a] = NoAnswer]
    BY <1>8 DEF FinishSeal
  <2>2. Asking'
    BY <1>3, <2>1 DEF Asking
  <2> QED BY <1>1, <2>1, <2>2, SignSound
\* A lifecycle step may end seals and touches no key.
<1>9. ASSUME SidecarStep \/ SidecarFault, WithTheirSeals, faults' \in 0..MaxFaults
      PROVE  Sound'
  <2>1. SidecarTypeOK' /\ ProcessesSound' /\ TrackingSound'
    BY <1>9, SidecarTyped, ProcessesKept, TrackingKept
  <2>2. KeysSound'
    <3>1. /\ UNCHANGED <<keychain, signed, created, stored, deletions, crossings>>
          /\ use' = [s \in Signers |-> use'[s]]
          /\ \A s \in Signers : use'[s] \in {use[s], NoUse}
      BY <1>9 DEF WithTheirSeals
    <3> QED BY <3>1, ProviderDropped
  <2>3. Asking'
    <3>1. /\ UNCHANGED <<unknown, seals>>
          /\ asked' = [a \in Apps |-> asked'[a]]
          /\ \A a \in Apps : asked'[a] \in {asked[a], NoAnswer}
      BY <1>9 DEF WithTheirSeals
    <3> QED BY <1>9, <3>1, AskingOver DEF Asking
  <2> QED BY <2>1, <2>2, <2>3
<1>10. CASE Lifecycle
  BY <1>9, <1>10 DEF Lifecycle, Asking
<1>11. CASE Fault
  <2>1. faults' \in 0..MaxFaults
    BY <1>11 DEF Fault, Asking
  <2>2. CASE KeyFault /\ UNCHANGED <<sidecars, asked, unknown, seals>>
    <3>1. KeysSound'
      BY <2>2, RefusalSound, DeleteEntrySound DEF KeyFault
    <3>2. Asking'
      BY <1>2, <2>1, <2>2 DEF Asking
    <3> QED BY <1>1, <2>2, <3>1, <3>2
  <2>3. CASE SidecarFault /\ WithTheirSeals
    BY <1>9, <2>1, <2>3
  <2> QED BY <1>11, <2>2, <2>3 DEF Fault
<1>12. CASE UNCHANGED vars
  <2>1. UNCHANGED <<keys, sidecars, asked, unknown, seals, faults>>
    BY <1>12 DEF vars
  <2>2. Asking'
    BY <1>2, <2>1 DEF Asking
  <2> QED BY <1>1, <2>1, <2>2, KeysStutter
<1> QED
  BY <1>4, <1>5, <1>6, <1>7, <1>8, <1>10, <1>11, <1>12 DEF Next, SealStep

LEMMA AlwaysSound == Spec => []Sound
BY InitSound, StepSound, PTL DEF Spec

-----------------------------------------------------------------------------
(* The properties.                                                         *)

\* Keys, processes and answers keep their types, with any number of
\* instances, scripts, seals and faults.
THEOREM LaunchesTyped == Spec => []TypeOK
<1>1. Sound => TypeOK
  BY DEF Sound, KeysSound, Asking, TypeOK
<1> QED BY AlwaysSound, <1>1, PTL

\* A manifest never names a key other than the one that signed it, nor
\* none (key_provider.rs, with_key).
THEOREM SignersNamed == Spec => []SignatureMatchesSigner
<1>1. Sound => SignatureMatchesSigner
  BY DEF Sound, KeysSound
<1> QED BY AlwaysSound, <1>1, PTL

\* No bundle is signed with a software key that was not stored
\* (keystore.rs, load_or_create_signing_key).
THEOREM SoftwareKeysStored == Spec => []SoftwareKeysWereStored
<1>1. Sound => SoftwareKeysWereStored
  BY DEF Sound, KeysSound
<1> QED BY AlwaysSound, <1>1, PTL

\* Each deletion of the entry and each crossing of two creations costs at
\* most one software signer more, for any number of instances and refusals
\* of the keychain (keystore.rs, load_or_create_signing_key).
THEOREM DeviceKeyIsOne == Spec => []OneDeviceKey
<1>1. Sound => OneDeviceKey
  <2> SUFFICES ASSUME Sound PROVE OneDeviceKey
    OBVIOUS
  <2> DEFINE named == {b.pem : b \in {d \in signed : ~d.hardware}}
  <2>1. named \subseteq Made
    BY DEF Sound, KeysSound, SignatureMatchesSigner, SoftwareKeysWereStored, Made
  <2>2. /\ IsFiniteSet(Made) /\ Cardinality(Made) \in Nat
        /\ Cardinality(Made) <= Budget /\ deletions \in Nat /\ crossings \in Nat
    BY MadeAreKeys DEF Sound, KeysSound, Creations, KeyTypeOK
  <2>3. Budget <= 1 + deletions + crossings
    BY <2>2 DEF Budget
  <2>4. Cardinality(named) \in Nat /\ Cardinality(named) <= Cardinality(Made)
    BY <2>1, <2>2, FS_Subset, FS_CardinalityType
  <2>5. Cardinality(named) <= 1 + deletions + crossings
    BY <2>2, <2>3, <2>4 DEF Budget
  <2> QED BY <2>5 DEF OneDeviceKey
<1> QED BY AlwaysSound, <1>1, PTL

\* An instance with an mlx sidecar that was closed has left no process
\* behind (sidecar.rs, shutdown).
THEOREM ClosedLeavesNothing == Spec => []NothingLeftRunning
<1>1. Sound => NothingLeftRunning
  BY DEF Sound, ProcessesSound, NothingLeftRunning
<1> QED BY AlwaysSound, <1>1, PTL

\* A living server in the background is the one of its PID file, unless its
\* script met another or a stop between check and write, or ended right
\* after the start (start.sh, stop.sh).
THEOREM TrackedInBackground == Spec => []BackgroundIsTracked
<1>1. Sound => BackgroundIsTracked
  <2> SUFFICES ASSUME Sound, NEW l \in Launchers, Alive(l), ~Foreground(l),
                      l \notin crossed, script[l] \notin Unrecorded
               PROVE  pidFile[Kind[l]] = l
    BY DEF BackgroundIsTracked
  <2>1. script[l] # "checked"
    BY DEF Sound, TrackingSound, ServersFollow, Alive
  <2> QED BY <2>1 DEF Sound, TrackingSound, Tracks, Lost, Window, Unrecorded
<1> QED BY AlwaysSound, <1>1, PTL

\* A seal that its own sidecar answers, or any mistralrs server, names the
\* model that server was started with (http.rs, fetch_active_model_id).
THEOREM ModelsNamed == Spec => []ModelNamedRightly
<1>1. Sound => ModelNamedRightly
  BY DEF Sound, Asking
<1> QED BY AlwaysSound, <1>1, PTL
=============================================================================
