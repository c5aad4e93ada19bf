---------------------------- MODULE WitnessBundle ----------------------------
(***************************************************************************)
(* The .witness archive and the builder that seals one (witness-core).     *)
(*                                                                         *)
(* A digest is a tagged value of the bytes, a signature a record of the    *)
(* key and of what it is over: SHA-256 is taken to be injective and a      *)
(* signature to be made only by signing.  The byte length that goes with   *)
(* each digest is part of it.  The parts of a manifest that no check of a  *)
(* verifier reads (report, verdict, environment, times) are left out.      *)
(***************************************************************************)
EXTENDS Naturals, Sequences

CONSTANTS
  Keys,          \* signing keys
  HardwareKeys,  \* those of a secure element: ECDSA P-256, the rest Ed25519
  Attesting,     \* those whose provider offers an attestation
  Blobs,         \* contents of files
  Models,        \* (model_id, revision) pairs
  Hashes,        \* digests of weights
  None

CONSTANT MaxImages \* bound: images in a bundle

ASSUME BundleAssumption ==
  /\ HardwareKeys \subseteq Keys
  /\ MaxImages \in Nat
  /\ None \notin Blobs

Fingerprints == [model : Models, hash : Hashes]

-----------------------------------------------------------------------------
(* The entries besides manifest.json and signature.json.  A file that a    *)
(* program on the way adds has a path of its own.                          *)

AudioPath == 0
ReasoningPath == 1
ImagePath(i) == 1 + i
StrayPath == MaxImages + 2

BundlePaths(images) == {AudioPath, ReasoningPath} \cup {ImagePath(i) : i \in 1..images}

Digest(bytes) == <<"sha256", bytes>>

\* The entries of a bundle with this audio, reasoning trace and images.
EntriesOf(audio, trace, images) ==
  [p \in BundlePaths(Len(images)) |->
     IF p = AudioPath THEN audio
     ELSE IF p = ReasoningPath THEN trace
     ELSE images[p - 1]]

\* A plausible slip: the trace, which is text, goes in as it is.
SlipDigests(entries) ==
  [p \in DOMAIN entries |-> IF p = ReasoningPath THEN entries[p] ELSE Digest(entries[p])]

Digests(entries) == [p \in DOMAIN entries |-> Digest(entries[p])]

-----------------------------------------------------------------------------
(* manifest.json and signature.json are texts.  The builder writes the     *)
(* manifest in canonical form.  The same manifest may be laid out anew     *)
(* ("reformatted"), carry a field that is not of the format ("extended"),  *)
(* spell out an optional field it has not as null ("nulled"), or say the   *)
(* same to a lax reader only ("lax": a field given twice, an integer       *)
(* written 1.0).  The signature document has no optional field; "lax" is   *)
(* one with a field added or repeated, or its base64 broken into lines.    *)

Text(manifest, form) == [manifest |-> manifest, form |-> form]

Forms == {"canonical", "reformatted", "extended", "nulled", "lax"}

SignatureText(document, form) == [document |-> document, form |-> form]

SignatureForms == {"plain", "lax"}

\* The canonical text of what JSON.parse makes of a text: layout, the repeats
\* and the spelling of numbers are gone; every field is there, null or not.
Canonical(text) ==
  [text EXCEPT !.form = IF @ \in {"reformatted", "lax"} THEN "canonical" ELSE @]

Algorithm(key) == IF key \in HardwareKeys THEN "ecdsa-p256" ELSE "ed25519"

\* A plausible slip: the version is not raised for the algorithm.
SlipVersionFor(alg) == 1

VersionFor(alg) == IF alg = "ed25519" THEN 1 ELSE 2

AttestationFor(version, key) == version >= 2 /\ key \in Attesting

Signer(key) ==
  LET alg == Algorithm(key)
  IN [algorithm |-> alg, public_key |-> key, key_id |-> key,
      attested |-> AttestationFor(VersionFor(alg), key)]

\* A link from a bundle that amends another one to that one.
Amends(manifest) ==
  [original_bundle_id |-> manifest.bundle_id,
   original_signer_key_id |-> manifest.signer.key_id]

Manifest(id, key, entries, fingerprint, amends) ==
  [manifest_version |-> VersionFor(Algorithm(key)),
   bundle_id |-> id,
   signer |-> Signer(key),
   assets |-> Digests(entries),
   model_fingerprint |-> fingerprint,
   amends |-> amends]

SignatureOver(key, text) ==
  SignatureText([algorithm |-> Algorithm(key), key_id |-> key,
                 signature |-> [by |-> key, over |-> Canonical(text)]], "plain")

\* build_and_seal_bundle, after its reads.
Archive(id, key, entries, fingerprint, amends) ==
  LET text == Text(Manifest(id, key, entries, fingerprint, amends), "canonical")
  IN [manifest |-> text, signature |-> SignatureOver(key, text), entries |-> entries]
=============================================================================
