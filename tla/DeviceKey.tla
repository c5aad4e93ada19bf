------------------------------ MODULE DeviceKey ------------------------------
(***************************************************************************)
(* The key a bundle is signed with (witness-core keystore, key_provider,   *)
(* secure_enclave; choose_signer of the seal command).  Every seal makes a *)
(* provider of its own, which holds its key in a cache and calls with_key  *)
(* twice: for the public key that goes into the manifest, and to sign.     *)
(* The instances of the app that run at once share one keychain entry,     *)
(* which load_or_create_signing_key reads and writes in two steps.         *)
(*                                                                         *)
(* Keys are numbered as they are generated.                                *)
(***************************************************************************)
EXTENDS Naturals, FiniteSets

CONSTANTS
  Signers,     \* instances of the app
  HasEnclave   \* the device has a Secure Enclave

ASSUME EnclaveAssumption == HasEnclave \in BOOLEAN

VARIABLES
  keychain,  \* key of the keychain entry
  use,       \* per instance: where its provider is, and what it holds
  signed,    \* what was signed: the key the manifest names, and the signer's
  \* history
  created,   \* keys generated
  stored,    \* keys that were in the keychain
  deletions, \* times the entry was deleted
  crossings  \* keys generated while another was still to be written

keys == <<keychain, use, signed, created, stored, deletions, crossings>>

NoKey   == 0
NoUse   == [at |-> "idle", call |-> "public", hardware |-> FALSE,
            cache |-> NoKey, pem |-> NoKey]

KeyInit ==
  /\ keychain = NoKey
  /\ use = [s \in Signers |-> NoUse]
  /\ signed = {}
  /\ created = 0
  /\ stored = {}
  /\ deletions = 0
  /\ crossings = 0

-----------------------------------------------------------------------------
\* with_key has its key: the public half is taken, or the payload signed.
Held(s, key, hardware) ==
  LET first == use[s].call = "public"
  IN [at       |-> IF first THEN "public" ELSE "sign",
      call     |-> use[s].call,
      hardware |-> hardware,
      cache    |-> key,
      pem      |-> IF first THEN key ELSE use[s].pem]

\* choose_signer: a new provider, and its first call.
ChooseSigner(s) ==
  /\ use[s].at = "idle"
  /\ use' = [use EXCEPT ![s] =
       [NoUse EXCEPT !.at = IF HasEnclave THEN "enclave" ELSE "read"]]
  /\ UNCHANGED <<keychain, signed, created, stored, deletions, crossings>>

\* Slip: the handle of a key that was not generated.
NothingGenerated(s) ==
  /\ use[s].at = "enclave"
  /\ use' = [use EXCEPT ![s] = Held(s, created + 1, TRUE)]
  /\ UNCHANGED <<keychain, signed, created, stored, deletions, crossings>>

\* generate_sep_key: a key that lives as long as its handle.
EnclaveGenerates(s) ==
  /\ use[s].at = "enclave"
  /\ created' = created + 1
  /\ use' = [use EXCEPT ![s] = Held(s, created', TRUE)]
  /\ UNCHANGED <<keychain, signed, stored, deletions, crossings>>

\* No key, or none whose public half can be read: software signs instead.
EnclaveFails(s) ==
  /\ use[s].at = "enclave"
  /\ use' = [use EXCEPT ![s].at = "read"]
  /\ UNCHANGED <<keychain, signed, created, stored, deletions, crossings>>

\* Keys generated for a missing entry and still to be written.
Unwritten == {use[s].cache : s \in {t \in Signers : use[t].at = "write"}}

\* load_or_create_signing_key up to the write.
ReadEntry(s) ==
  /\ use[s].at = "read"
  /\ IF keychain # NoKey
     THEN /\ use' = [use EXCEPT ![s] = Held(s, keychain, FALSE)]
          /\ UNCHANGED <<created, crossings>>
     ELSE /\ created' = created + 1
          /\ crossings' = crossings + IF Unwritten = {} THEN 0 ELSE 1
          /\ use' = [use EXCEPT ![s].at = "write", ![s].cache = created']
  /\ UNCHANGED <<keychain, signed, stored, deletions>>

\* Slip: an entry that cannot be read is taken for one that is not there.
MissingInstead(s) ==
  /\ use[s].at = "read"
  /\ created' = created + 1
  /\ use' = [use EXCEPT ![s].at = "write", ![s].cache = created']
  /\ UNCHANGED <<keychain, signed, stored, deletions, crossings>>

\* The keychain refuses, or the entry is no seed: software_signer goes on
\* with an empty public key and a sign_fn that fails.
ReadFails(s) ==
  /\ use[s].at = "read"
  /\ use' = [use EXCEPT ![s] = Held(s, NoKey, FALSE)]
  /\ UNCHANGED <<keychain, signed, created, stored, deletions, crossings>>

WriteEntry(s) ==
  /\ use[s].at = "write"
  /\ keychain' = use[s].cache
  /\ stored' = stored \cup {use[s].cache}
  /\ use' = [use EXCEPT ![s] = Held(s, use[s].cache, FALSE)]
  /\ UNCHANGED <<signed, created, deletions, crossings>>

\* Slip: a key that could not be stored is used all the same.
UsedAnyway(s) ==
  /\ use[s].at = "write"
  /\ use' = [use EXCEPT ![s] = Held(s, use[s].cache, FALSE)]
  /\ UNCHANGED <<keychain, signed, created, stored, deletions, crossings>>

\* The key just generated is dropped with the error.
WriteFails(s) ==
  /\ use[s].at = "write"
  /\ use' = [use EXCEPT ![s] = Held(s, NoKey, FALSE)]
  /\ UNCHANGED <<keychain, signed, created, stored, deletions, crossings>>

\* Slip: the provider keeps nothing between its two calls.
Forgets(s) == NoKey

\* What with_key finds in the provider.
Cached(s) == use[s].cache

\* The second call of with_key; sign_fn of a signer without a key refuses.
CallSign(s) ==
  /\ use[s].at = "public"
  /\ use[s].pem # NoKey
  /\ use' = [use EXCEPT ![s].call = "sign",
                        ![s].at = IF Cached(s) # NoKey THEN "sign"
                                  ELSE IF use[s].hardware THEN "enclave"
                                  ELSE "read"]
  /\ UNCHANGED <<keychain, signed, created, stored, deletions, crossings>>

\* The provider goes with the seal, and its handle on the key with it.
Sign(s) ==
  /\ use[s].at = "sign"
  /\ use[s].cache # NoKey
  /\ signed' = signed \cup {[pem |-> use[s].pem, by |-> use[s].cache,
                             hardware |-> use[s].hardware]}
  /\ use' = [use EXCEPT ![s] = NoUse]
  /\ UNCHANGED <<keychain, created, stored, deletions, crossings>>

DropSigner(s) ==
  /\ use[s].at # "idle"
  /\ use' = [use EXCEPT ![s] = NoUse]
  /\ UNCHANGED <<keychain, signed, created, stored, deletions, crossings>>

\* delete_device_key, or the user in the keychain's own program.
DeleteEntry ==
  /\ keychain # NoKey
  /\ keychain' = NoKey
  /\ deletions' = deletions + 1
  /\ UNCHANGED <<use, signed, created, stored, crossings>>

LoadStep(s) ==
  \/ EnclaveGenerates(s)
  \/ EnclaveFails(s)
  \/ ReadEntry(s)
  \/ WriteEntry(s)

KeyFault ==
  \/ \E s \in Signers : ReadFails(s) \/ WriteFails(s)
  \/ DeleteEntry

-----------------------------------------------------------------------------
Keys == 0..created
Uses == [at : {"idle", "enclave", "read", "write", "public", "sign"},
         call : {"public", "sign"}, hardware : BOOLEAN,
         cache : Keys, pem : Keys]

KeyTypeOK ==
  /\ created \in Nat /\ deletions \in Nat /\ crossings \in Nat
  /\ keychain \in Keys
  /\ stored \subseteq Keys
  /\ signed \subseteq [pem : Keys, by : Keys, hardware : BOOLEAN]
  /\ use \in [Signers -> Uses]

\* The key a manifest names is the key it was signed with, whatever happens
\* to the keychain entry between the two calls of the provider, and it is
\* never the empty one of a signer that failed to load (key_provider.rs,
\* with_key; seal_commands.rs, software_signer).
SignatureMatchesSigner ==
  \A b \in signed : b.pem = b.by /\ b.pem # NoKey

\* A software key that signed a bundle was stored, so that the next launch
\* could find it: a key that cannot be kept signs nothing (keystore.rs,
\* load_or_create_signing_key).
SoftwareKeysWereStored ==
  \A b \in signed : ~b.hardware => b.by \in stored

\* A device has one software key, and gets another only for a reason: each
\* deletion of the entry, and each time an instance finds no entry while
\* another is about to write one, costs at most one signer more.  A keychain
\* that refuses to be read or written costs none, nor does an instance that
\* dies before its write (keystore.rs, load_or_create_signing_key and
\* read_seed_b64).
OneDeviceKey ==
  Cardinality({b.pem : b \in {d \in signed : ~d.hardware}})
    <= 1 + deletions + crossings
=============================================================================
