--------------------------- MODULE BundleVerifiers ---------------------------
(***************************************************************************)
(* The two verifiers of an archive: witness-core's, in Rust, behind the    *)
(* command line (Core...), and the page's, in TypeScript (Page...).  Each  *)
(* is translated from its own source; where they agree is a property.      *)
(*                                                                         *)
(* What the readers refuse in the same way (names that leave the archive,  *)
(* duplicates, sizes over a cap) and the wording of the rows are left out, *)
(* and an attestation is taken to be within the cap of the Rust verifier.  *)
(***************************************************************************)
EXTENDS WitnessBundle

CONSTANTS
  Trusted, \* keys in trusted-signers.json
  Revoked  \* those of them that are marked as revoked

ASSUME TrustAssumption == Revoked \subseteq Trusted /\ Trusted \subseteq Keys

\* The pairing of a signature with the key and the bytes it is checked against.
Verifies(signature, key, bytes) == signature.by = key /\ signature.over = bytes

\* The first row with this hash, in either verifier, has this model.
FirstRowFor(known, hash, model) ==
  \E i \in DOMAIN known :
    /\ known[i].hash = hash /\ known[i].model = model
    /\ \A j \in 1..(i - 1) : known[j].hash # hash

-----------------------------------------------------------------------------
(* witness-core.                                                           *)

CorePermits(version) ==
  IF version = 1 THEN {"ed25519"}
  ELSE IF version = 2 THEN {"ed25519", "ecdsa-p256"}
  ELSE {}

\* A plausible slip: unknown fields are dropped instead of refused.
SlipCoreParses(manifest, signature) == manifest.form # "lax"

\* serde with deny_unknown_fields, which refuses a repeated field and a
\* fraction for an integer as well, and the strict base64 of check_signature.
CoreParses(manifest, signature) ==
  manifest.form \notin {"extended", "lax"} /\ signature.form # "lax"

\* What the Rust struct serializes to: the fields it knows, but for the
\* optional ones that are null.
CoreCanonical(text) == Text(text.manifest, "canonical")

CoreReads(a) ==
  /\ a.manifest # None /\ a.signature # None
  /\ a.manifest.manifest.manifest_version \in {1, 2}
  /\ CoreParses(a.manifest, a.signature)

CoreSignature(a) ==
  LET m == a.manifest.manifest
      doc == a.signature.document
      permitted == CorePermits(m.manifest_version)
  IN /\ doc.algorithm \in permitted /\ m.signer.algorithm \in permitted
     /\ doc.algorithm = m.signer.algorithm
     /\ ~(m.manifest_version = 1 /\ m.signer.attested)
     /\ doc.key_id = m.signer.key_id
     /\ Verifies(doc.signature, m.signer.public_key, CoreCanonical(a.manifest))

CoreAssets(m, entries) ==
  \A p \in DOMAIN m.assets :
    p \in DOMAIN entries /\ Digest(entries[p]) = m.assets[p]

\* A plausible slip: entries beyond the listed assets are let through.
SlipCoreNoExtraEntries(m, entries) == TRUE

CoreNoExtraEntries(m, entries) == DOMAIN entries \subseteq DOMAIN m.assets

CoreFingerprint(m, known) ==
  FirstRowFor(known, m.model_fingerprint.hash, m.model_fingerprint.model)

\* A plausible slip: a link to an original is taken at its word.
SlipCoreAmendment(m) == TRUE

CoreAmendment(m) ==
  m.amends # None => m.amends.original_signer_key_id = m.signer.key_id

\* verify_bundle and VerificationReport::is_ok.
CoreAccepts(a, known) ==
  /\ CoreReads(a)
  /\ CoreSignature(a)
  /\ LET m == a.manifest.manifest
     IN /\ CoreAssets(m, a.entries) /\ CoreNoExtraEntries(m, a.entries)
        /\ CoreFingerprint(m, known)
        /\ CoreAmendment(m)

-----------------------------------------------------------------------------
(* The page.                                                               *)

PagePermits(version) ==
  {alg \in {"ed25519", "ecdsa-p256"} :
     version = 2 \/ (version = 1 /\ alg = "ed25519")}

\* validateManifest and the reader of signature.json keep fields they do not
\* know; routeVersion.
PageReads(a) ==
  /\ a.manifest # None /\ a.signature # None
  /\ LET m == a.manifest.manifest
     IN /\ ~(m.manifest_version = 1 /\ m.signer.attested)
        /\ m.manifest_version \in {1, 2}

PageSignature(a) ==
  LET m == a.manifest.manifest
      doc == a.signature.document
  IN /\ {doc.algorithm, m.signer.algorithm} \subseteq PagePermits(m.manifest_version)
     /\ doc.algorithm = m.signer.algorithm
     /\ ~(m.manifest_version = 1 /\ m.signer.attested)
     /\ doc.key_id = m.signer.key_id
     /\ Verifies(doc.signature, m.signer.public_key, Canonical(a.manifest))

\* verifyAssetHashes: the listed assets, then the names of all entries.
PageAssets(m, entries) ==
  /\ \A p \in DOMAIN m.assets :
       p \in DOMAIN entries /\ m.assets[p] = Digest(entries[p])
  /\ \A p \in DOMAIN entries : p \in DOMAIN m.assets

PageFingerprint(m, known) ==
  FirstRowFor(known, m.model_fingerprint.hash, m.model_fingerprint.model)

\* Key and PEM match one row of the trusted signers, which is not revoked.
PageSigner(m) ==
  /\ m.signer.key_id = m.signer.public_key
  /\ m.signer.key_id \in Trusted \ Revoked

\* The row exists only for an amendment.
PageAmendment(m) ==
  \/ m.amends = None
  \/ m.amends.original_signer_key_id = m.signer.key_id

\* verifyBundle; "registry" is the build's verdict on the signed envelope.
PageAccepts(a, known, registry) ==
  /\ PageReads(a)
  /\ registry = "signed"
  /\ PageSignature(a)
  /\ LET m == a.manifest.manifest
     IN /\ PageAssets(m, a.entries)
        /\ PageFingerprint(m, known)
        /\ PageSigner(m)
        /\ PageAmendment(m)
=============================================================================
