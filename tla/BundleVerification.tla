-------------------------- MODULE BundleVerification --------------------------
(***************************************************************************)
(* Bundles are sealed on several devices; copies of them travel by mail,   *)
(* chat and file shares, where programs re-encode an image, add a file of  *)
(* their own, lose one, lay JSON out anew, or pack the files of two        *)
(* unpacked bundles together; whoever receives a copy verifies it, with    *)
(* the command line or with the page.                                      *)
(***************************************************************************)
EXTENDS BundleVerifiers

CONSTANTS
  Registered, \* rows of the registry that the capture apps embed
  KnownLists, \* lists of fingerprints that a verifier may have
  MaxSeals,   \* bound: bundles sealed
  MaxChanges  \* bound: changes to a copy on its way

ASSUME VerificationAssumption ==
  /\ Registered \subseteq Fingerprints
  /\ KnownLists \subseteq Seq(Fingerprints)
  /\ MaxSeals \in Nat /\ MaxChanges \in Nat

VARIABLES
  sealed,   \* the bundles sealed, in order; the place is the bundle id
  received, \* a copy on its way, or None
  changes   \* how often it was changed

vars == <<sealed, received, changes>>

Paths == 0..StrayPath

FileMaps(S) == UNION {[D -> S] : D \in SUBSET Paths}

Signers == [algorithm : {"ed25519", "ecdsa-p256"}, public_key : Keys, key_id : Keys,
            attested : BOOLEAN]

Links == [original_bundle_id : Nat, original_signer_key_id : Keys]

Manifests ==
  [manifest_version : {1, 2}, bundle_id : Nat, signer : Signers,
   assets : FileMaps({Digest(b) : b \in Blobs}),
   model_fingerprint : Fingerprints, amends : Links \cup {None}]

Texts == [manifest : Manifests, form : Forms]

Documents ==
  [algorithm : {"ed25519", "ecdsa-p256"}, key_id : Keys,
   signature : [by : Keys, over : Texts]]

Signatures == [document : Documents, form : SignatureForms]

Archives ==
  [manifest : Texts \cup {None}, signature : Signatures \cup {None},
   entries : FileMaps(Blobs)]

ASSUME NoneAssumption == None \notin Texts /\ None \notin Signatures

TypeOK ==
  /\ sealed \in Seq(Archives) /\ Len(sealed) <= MaxSeals
  /\ received \in Archives \cup {None}
  /\ changes \in 0..MaxChanges

Init == sealed = <<>> /\ received = None /\ changes = 0

-----------------------------------------------------------------------------

\* A bundle of an app, or of another caller of the builder, which may name a
\* bundle that it amends.
Seal(key, audio, trace, images, fingerprint, amends) ==
  /\ Len(sealed) < MaxSeals
  /\ sealed' = Append(sealed, Archive(Len(sealed) + 1, key,
                 EntriesOf(audio, trace, images), fingerprint, amends))
  /\ UNCHANGED <<received, changes>>

AmendsAny == {None} \cup {Amends(sealed[i].manifest.manifest) : i \in DOMAIN sealed}

SealAny ==
  \E key \in Keys, audio, trace \in Blobs, fingerprint \in Registered :
    \E n \in 0..MaxImages : \E images \in [1..n -> Blobs], amends \in AmendsAny :
      Seal(key, audio, trace, images, fingerprint, amends)

Send(i) ==
  /\ received' = sealed[i]
  /\ changes' = 0
  /\ UNCHANGED sealed

Change(copy) ==
  /\ changes < MaxChanges
  /\ received' = copy
  /\ changes' = changes + 1
  /\ UNCHANGED sealed

\* A file is gone from the archive.
LoseEntry(p) ==
  /\ received # None /\ p \in DOMAIN received.entries
  /\ Change([received EXCEPT !.entries = [q \in DOMAIN @ \ {p} |-> @[q]]])

LoseManifest == received # None /\ Change([received EXCEPT !.manifest = None])
LoseSignature == received # None /\ Change([received EXCEPT !.signature = None])

\* A file has other contents, or is new.
PutEntry(p, bytes) ==
  /\ received # None
  /\ Change([received EXCEPT !.entries =
       [q \in DOMAIN @ \cup {p} |-> IF q = p THEN bytes ELSE @[q]]])

\* The text of the manifest, or of the signature, was written anew.
Reform(form) ==
  /\ received # None /\ received.manifest # None
  /\ Change([received EXCEPT !.manifest.form = form])

ReformSignature(form) ==
  /\ received # None /\ received.signature # None
  /\ Change([received EXCEPT !.signature.form = form])

\* Someone who replaced files updates the digests in the manifest.
RefreshDigests ==
  /\ received # None /\ received.manifest # None
  /\ Change([received EXCEPT !.manifest.manifest.assets = Digests(received.entries)])

\* The manifest or the signature of another bundle is packed with the rest.
MixManifest(i) == received # None /\ Change([received EXCEPT !.manifest = sealed[i].manifest])
MixSignature(i) == received # None /\ Change([received EXCEPT !.signature = sealed[i].signature])

Next ==
  \/ SealAny
  \/ \E i \in DOMAIN sealed : Send(i) \/ MixManifest(i) \/ MixSignature(i)
  \/ \E p \in Paths : LoseEntry(p) \/ \E bytes \in Blobs : PutEntry(p, bytes)
  \/ LoseManifest \/ LoseSignature \/ RefreshDigests
  \/ \E form \in Forms : Reform(form)
  \/ \E form \in SignatureForms : ReformSignature(form)

Spec == Init /\ [][Next]_vars

-----------------------------------------------------------------------------
(* What the command line or the page accepts is a bundle that was sealed:  *)
(* its manifest, its signature and its files all come from one archive     *)
(* that the builder made, whatever was lost, changed, added or mixed on    *)
(* the way (verify_bundle and verifyBundle; "Refusing extras here          *)
(* guarantees the bundle is exactly the set of bytes the signer attested   *)
(* to").                                                                   *)
SameContent(a, b) ==
  /\ a.manifest.manifest = b.manifest.manifest
  /\ a.signature.document = b.signature.document
  /\ a.entries = b.entries

AcceptedWasSealed ==
  \A known \in KnownLists :
    /\ received # None
    /\ CoreAccepts(received, known) \/ PageAccepts(received, known, "signed")
    => \E i \in DOMAIN sealed : SameContent(received, sealed[i])

(* The two verifiers, written twice in two languages, give one verdict on  *)
(* what a copy says: with the same list of fingerprints they differ only   *)
(* by the page's demands on the signer and on the registry it was built    *)
(* with, and by the form of the two texts, in exactly three ways.  A null  *)
(* for an optional field of the manifest is refused by the page alone; a   *)
(* repeated field or a fraction for an integer in it, and an added field   *)
(* in signature.json, are refused by the command line alone (verify_bundle *)
(* against verifyBundle).                                                  *)
VerdictsDifferByForm ==
  received # None =>
    \A known \in KnownLists :
      LET core == CoreAccepts(received, known)
          page == PageAccepts(received, known, "signed")
      IN /\ core => (page <=> /\ received.manifest.form # "nulled"
                              /\ PageSigner(received.manifest.manifest))
         /\ page => (core <=> /\ received.manifest.form # "lax"
                              /\ received.signature.form # "lax")
         /\ ~PageAccepts(received, known, "placeholder")

(* What was sealed is accepted: with either kind of key, any number of     *)
(* images and any version the builder chose, as long as the model is the   *)
(* first of its hash on the verifier's list and an amendment is made by    *)
(* the key of the original (build_and_seal_bundle against verify_bundle).  *)
SealedIsAccepted ==
  \A i \in DOMAIN sealed, known \in KnownLists :
    LET m == sealed[i].manifest.manifest
    IN /\ FirstRowFor(known, m.model_fingerprint.hash, m.model_fingerprint.model)
       /\ m.amends # None =>
            sealed[m.amends.original_bundle_id].signature.document.key_id
              = sealed[i].signature.document.key_id
       => CoreAccepts(sealed[i], known)

(* An accepted amendment continues the chain: the bundle it says it amends *)
(* was sealed before it, by the same key (check_amendment_chain; "any      *)
(* keypair could forge an amendment of any other bundle" without it).      *)
AmendmentContinuesChain ==
  \A known \in KnownLists :
    received # None /\ CoreAccepts(received, known) =>
      LET m == received.manifest.manifest
      IN m.amends # None =>
           /\ m.amends.original_bundle_id < m.bundle_id
           /\ sealed[m.amends.original_bundle_id].signature.document.signature.by
                = m.signer.public_key
=============================================================================
