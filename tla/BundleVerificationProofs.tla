----------------------- MODULE BundleVerificationProofs -----------------------
(***************************************************************************)
(* What the verifiers' verdicts mean, for every number of keys, contents,  *)
(* bundles and changes.                                                    *)
(*                                                                         *)
(* The argument: whatever happens to a copy, its signature is still one    *)
(* that was made when a bundle was sealed (ReceivedSigned), and what that  *)
(* signature is over is the canonical manifest of that bundle              *)
(* (SealedWell).  A verifier that finds the signature to be over the       *)
(* manifest it reads has that bundle's manifest, hence its digests, hence, *)
(* when no entry is missing and none is extra, its files.                  *)
(***************************************************************************)
EXTENDS BundleVerification, TLAPS

\* What the builder makes of its inputs.
WellMade(a, id) ==
  LET m == a.manifest.manifest
  IN /\ a.manifest \in Texts /\ a.manifest.form = "canonical"
     /\ a.signature \in Signatures /\ a.entries \in FileMaps(Blobs)
     /\ m.bundle_id = id
     /\ m.manifest_version = VersionFor(m.signer.algorithm)
     /\ m.signer.attested => m.manifest_version = 2
     /\ m.signer.key_id = m.signer.public_key
     /\ m.assets = Digests(a.entries)
     /\ a.signature.form = "plain"
     /\ a.signature.document.algorithm = m.signer.algorithm
     /\ a.signature.document.key_id = m.signer.key_id
     /\ a.signature.document.signature = [by |-> m.signer.public_key, over |-> a.manifest]

\* An amendment names a bundle sealed before it.
LinksBack(i) ==
  LET m == sealed[i].manifest.manifest
  IN m.amends # None =>
       \E j \in 1..(i - 1) : m.amends = Amends(sealed[j].manifest.manifest)

SealedWell == \A i \in DOMAIN sealed : WellMade(sealed[i], i) /\ LinksBack(i)

ReceivedSigned ==
  received # None /\ received.signature # None =>
    \E i \in DOMAIN sealed :
      received.signature.document = sealed[i].signature.document

Sound == TypeOK /\ SealedWell /\ ReceivedSigned

-----------------------------------------------------------------------------
(* A map of files is a function on some of the paths, and every such       *)
(* function is one (the entries of read_bundle).                           *)
LEMMA FileMapIsFunction ==
  ASSUME NEW S, NEW f
  PROVE  f \in FileMaps(S) <=>
           /\ f = [p \in DOMAIN f |-> f[p]]
           /\ DOMAIN f \subseteq Paths
           /\ \A p \in DOMAIN f : f[p] \in S
<1>1. ASSUME f \in FileMaps(S)
      PROVE  /\ f = [p \in DOMAIN f |-> f[p]]
             /\ DOMAIN f \subseteq Paths
             /\ \A p \in DOMAIN f : f[p] \in S
  <2>1. PICK D \in SUBSET Paths : f \in [D -> S]
    BY <1>1 DEF FileMaps
  <2> QED BY <2>1
<1>2. ASSUME f = [p \in DOMAIN f |-> f[p]], DOMAIN f \subseteq Paths,
             \A p \in DOMAIN f : f[p] \in S
      PROVE  f \in FileMaps(S)
  <2>1. f \in [DOMAIN f -> S]
    BY <1>2
  <2>2. DOMAIN f \in SUBSET Paths
    BY <1>2
  <2> QED BY <2>1, <2>2 DEF FileMaps
<1> QED BY <1>1, <1>2

(* Taking a file away or putting one in leaves a map of files.             *)
LEMMA FileMapsClosed ==
  ASSUME NEW S, NEW f \in FileMaps(S), NEW p \in Paths, NEW b \in S
  PROVE  /\ [q \in DOMAIN f \ {p} |-> f[q]] \in FileMaps(S)
         /\ [q \in DOMAIN f \cup {p} |-> IF q = p THEN b ELSE f[q]] \in FileMaps(S)
<1>1. DOMAIN f \subseteq Paths /\ \A q \in DOMAIN f : f[q] \in S
  BY FileMapIsFunction
<1>2. [q \in DOMAIN f \ {p} |-> f[q]] \in [DOMAIN f \ {p} -> S]
  BY <1>1
<1>3. [q \in DOMAIN f \cup {p} |-> IF q = p THEN b ELSE f[q]]
        \in [DOMAIN f \cup {p} -> S]
  BY <1>1
<1>4. DOMAIN f \ {p} \in SUBSET Paths /\ DOMAIN f \cup {p} \in SUBSET Paths
  BY <1>1
<1> QED BY <1>2, <1>3, <1>4 DEF FileMaps

(* The digests of a map of files are a map over the same paths.            *)
LEMMA DigestsMap ==
  ASSUME NEW f \in FileMaps(Blobs)
  PROVE  Digests(f) \in FileMaps({Digest(b) : b \in Blobs})
<1>1. DOMAIN f \subseteq Paths /\ \A q \in DOMAIN f : f[q] \in Blobs
  BY FileMapIsFunction
<1>2. Digests(f) \in [DOMAIN f -> {Digest(b) : b \in Blobs}]
  BY <1>1 DEF Digests
<1>3. DOMAIN f \in SUBSET Paths
  BY <1>1
<1> QED BY <1>2, <1>3 DEF FileMaps

(* Two maps of files with the same digests are the same.                   *)
LEMMA DigestsDetermine ==
  ASSUME NEW f \in FileMaps(Blobs), NEW g \in FileMaps(Blobs),
         DOMAIN f = DOMAIN g,
         \A p \in DOMAIN f : Digest(f[p]) = Digest(g[p])
  PROVE  f = g
<1>1. f = [p \in DOMAIN f |-> f[p]] /\ g = [p \in DOMAIN g |-> g[p]]
  BY FileMapIsFunction
<1>2. \A p \in DOMAIN f : f[p] = g[p]
  BY DEF Digest
<1> QED BY <1>1, <1>2

-----------------------------------------------------------------------------
(* The builder's inputs, whatever they are, make a well-made archive.      *)
LEMMA EntriesTyped ==
  ASSUME NEW audio \in Blobs, NEW trace \in Blobs, NEW n \in 0..MaxImages,
         NEW images \in [1..n -> Blobs]
  PROVE  EntriesOf(audio, trace, images) \in FileMaps(Blobs)
<1>1. n \in Nat /\ n <= MaxImages /\ MaxImages \in Nat
  BY BundleAssumption
<1>2. images \in Seq(Blobs) /\ Len(images) = n
  BY <1>1
<1>3. BundlePaths(n) \subseteq Paths
  BY <1>1 DEF BundlePaths, Paths, AudioPath, ReasoningPath, ImagePath, StrayPath
<1>4. ASSUME NEW p \in BundlePaths(n), p # AudioPath, p # ReasoningPath
      PROVE  images[p - 1] \in Blobs
  BY <1>1, <1>4 DEF BundlePaths, ImagePath
<1>5. EntriesOf(audio, trace, images) \in [BundlePaths(n) -> Blobs]
  BY <1>2, <1>4 DEF EntriesOf
<1> QED BY <1>3, <1>5 DEF FileMaps

(* What build_and_seal_bundle writes is well made, with either algorithm.  *)
LEMMA BuilderMakesWell ==
  ASSUME NEW key \in Keys, NEW id \in Nat, NEW entries \in FileMaps(Blobs),
         NEW fingerprint \in Fingerprints, NEW amends \in Links \cup {None}
  PROVE  WellMade(Archive(id, key, entries, fingerprint, amends), id)
<1> DEFINE alg == Algorithm(key)
           m == Manifest(id, key, entries, fingerprint, amends)
           text == Text(m, "canonical")
           a == Archive(id, key, entries, fingerprint, amends)
<1>1. alg \in {"ed25519", "ecdsa-p256"} /\ VersionFor(alg) \in {1, 2}
  BY DEF Algorithm, VersionFor
<1>2. /\ Signer(key) = [algorithm |-> alg, public_key |-> key, key_id |-> key,
                        attested |-> AttestationFor(VersionFor(alg), key)]
      /\ AttestationFor(VersionFor(alg), key) \in BOOLEAN
      /\ AttestationFor(VersionFor(alg), key) => VersionFor(alg) = 2
  BY <1>1 DEF Signer, AttestationFor
<1>3. m = [manifest_version |-> VersionFor(alg), bundle_id |-> id,
           signer |-> Signer(key), assets |-> Digests(entries),
           model_fingerprint |-> fingerprint, amends |-> amends]
  BY DEF Manifest
<1>4. Digests(entries) \in FileMaps({Digest(b) : b \in Blobs})
  BY DigestsMap
<1>5. m \in Manifests
  BY <1>1, <1>2, <1>3, <1>4 DEF Manifests, Signers
<1>6. text \in Texts /\ text.form = "canonical" /\ text.manifest = m
  BY <1>5 DEF Text, Texts, Forms
<1>7. Canonical(text) = text
  BY <1>6 DEF Canonical, Text
<1> DEFINE doc == [algorithm |-> alg, key_id |-> key,
                   signature |-> [by |-> key, over |-> text]]
<1>8. a = [manifest |-> text, entries |-> entries,
           signature |-> [document |-> doc, form |-> "plain"]]
  BY <1>7 DEF Archive, SignatureOver, SignatureText
<1>9. a.signature \in Signatures
  <2>1. doc \in Documents
    BY <1>1, <1>6 DEF Documents
  <2> HIDE DEF doc
  <2> QED BY <1>8, <2>1 DEF Signatures, SignatureForms
<1>10. a.manifest = text /\ a.entries = entries /\ a.signature.form = "plain"
       /\ a.signature.document.algorithm = alg /\ a.signature.document.key_id = key
       /\ a.signature.document.signature = [by |-> key, over |-> text]
  BY <1>8
<1>11. /\ m.bundle_id = id /\ m.manifest_version = VersionFor(alg)
       /\ m.signer = Signer(key) /\ m.assets = Digests(entries)
       /\ m.signer.algorithm = alg /\ m.signer.key_id = key
       /\ m.signer.public_key = key
       /\ m.signer.attested => m.manifest_version = 2
  BY <1>2, <1>3
<1> HIDE DEF m, text, a, alg
<1>12. WellMade(a, id)
  BY <1>6, <1>9, <1>10, <1>11 DEF WellMade
<1> QED BY <1>12 DEF a

-----------------------------------------------------------------------------
(* Sealing adds a well-made archive and leaves the others as they are.     *)
LEMMA SealStep ==
  ASSUME TypeOK, SealedWell, ReceivedSigned, SealAny
  PROVE  TypeOK' /\ SealedWell' /\ ReceivedSigned'
<1> DEFINE id == Len(sealed) + 1
<1>0. PICK n \in 0..MaxImages :
        \E key \in Keys, audio, trace \in Blobs, fingerprint \in Registered,
           images \in [1..n -> Blobs], amends \in AmendsAny :
             Seal(key, audio, trace, images, fingerprint, amends)
  BY DEF SealAny
<1>1. PICK key \in Keys, audio \in Blobs, trace \in Blobs, fingerprint \in Registered,
           images \in [1..n -> Blobs], amends \in AmendsAny :
             Seal(key, audio, trace, images, fingerprint, amends)
  BY <1>0
<1> DEFINE entries == EntriesOf(audio, trace, images)
           a == Archive(id, key, entries, fingerprint, amends)
<1>2. /\ sealed \in Seq(Archives) /\ Len(sealed) \in Nat /\ id \in Nat
      /\ Len(sealed) < MaxSeals /\ MaxSeals \in Nat
      /\ sealed' = Append(sealed, a) /\ received' = received /\ changes' = changes
  BY <1>1, VerificationAssumption DEF Seal, TypeOK
<1>3. entries \in FileMaps(Blobs)
  BY EntriesTyped
<1>4. fingerprint \in Fingerprints
  BY VerificationAssumption
<1>5. amends # None =>
        \E j \in DOMAIN sealed : amends = Amends(sealed[j].manifest.manifest)
  BY DEF AmendsAny
<1>6. amends \in Links \cup {None}
  <2>1. ASSUME NEW j \in DOMAIN sealed
        PROVE  Amends(sealed[j].manifest.manifest) \in Links
    <3>1. sealed[j].manifest \in Texts
      BY DEF SealedWell, WellMade
    <3>2. sealed[j].manifest.manifest.bundle_id \in Nat
            /\ sealed[j].manifest.manifest.signer.key_id \in Keys
      BY <3>1 DEF Texts, Manifests, Signers
    <3> QED BY <3>2 DEF Amends, Links
  <2> QED BY <1>5, <2>1
<1>7. WellMade(a, id)
  BY <1>2, <1>3, <1>4, <1>6, BuilderMakesWell
<1>8. a = [manifest |-> a.manifest, signature |-> a.signature, entries |-> a.entries]
      /\ a.manifest.manifest.amends = amends
  BY DEF Archive, Text, Manifest
<1>9. a \in Archives
  BY <1>7, <1>8 DEF WellMade, Archives
<1> HIDE DEF a, entries
<1>10. /\ sealed' \in Seq(Archives) /\ Len(sealed') = id /\ sealed'[id] = a
       /\ DOMAIN sealed = 1..Len(sealed) /\ DOMAIN sealed' = 1..id
       /\ \A i \in DOMAIN sealed : sealed'[i] = sealed[i]
  BY <1>2, <1>9
<1>11. TypeOK'
  BY <1>2, <1>10 DEF TypeOK
<1>12. SealedWell'
  <2> SUFFICES ASSUME NEW i \in DOMAIN sealed'
               PROVE  WellMade(sealed'[i], i) /\ LinksBack(i)'
    BY DEF SealedWell
  <2>1. CASE i = id
    <3>1. i - 1 = Len(sealed)
      BY <1>2, <2>1
    <3>2. ASSUME amends # None
          PROVE  \E j \in 1..(i - 1) : amends = Amends(sealed'[j].manifest.manifest)
      BY <1>5, <1>10, <3>1, <3>2
    <3> QED BY <1>7, <1>8, <1>10, <2>1, <3>2 DEF LinksBack
  <2>2. CASE i # id
    <3>1. i \in DOMAIN sealed /\ sealed'[i] = sealed[i]
      BY <1>2, <1>10, <2>2
    <3>2. \A j \in 1..(i - 1) : sealed'[j] = sealed[j]
      BY <1>2, <1>10, <3>1
    <3>3. WellMade(sealed[i], i) /\ LinksBack(i)
      BY <3>1 DEF SealedWell
    <3> QED BY <3>1, <3>2, <3>3 DEF LinksBack
  <2> QED BY <2>1, <2>2
<1>13. ReceivedSigned'
  BY <1>2, <1>10 DEF ReceivedSigned
<1> QED BY <1>11, <1>12, <1>13

(* A copy is one of the sealed archives when it is sent, and every change  *)
(* leaves it an archive whose signature, if it has one, was made by sealing. *)
LEMMA TransitStep ==
  ASSUME TypeOK, SealedWell, ReceivedSigned, Next, ~SealAny
  PROVE  TypeOK' /\ SealedWell' /\ ReceivedSigned'
<1>1. sealed' = sealed
  BY DEF Next, Send, Change, LoseEntry, LoseManifest, LoseSignature, PutEntry, Reform,
         ReformSignature, RefreshDigests, MixManifest, MixSignature
<1>2. sealed \in Seq(Archives) /\ \A i \in DOMAIN sealed : sealed[i] \in Archives
  BY DEF TypeOK
<1>3. changes' \in 0..MaxChanges
  <2>1. changes' = 0 \/ (changes < MaxChanges /\ changes' = changes + 1)
    BY DEF Next, Send, Change, LoseEntry, LoseManifest, LoseSignature, PutEntry, Reform,
           ReformSignature, RefreshDigests, MixManifest, MixSignature
  <2>2. changes \in 0..MaxChanges /\ MaxChanges \in Nat
    BY VerificationAssumption DEF TypeOK
  <2> QED BY <2>1, <2>2
<1> DEFINE Signed(a) ==
      a.signature # None =>
        \E i \in DOMAIN sealed : a.signature.document = sealed[i].signature.document
<1>4. received # None => received \in Archives /\ Signed(received)
  BY DEF TypeOK, ReceivedSigned
<1>5. ASSUME NEW i \in DOMAIN sealed, Send(i)
      PROVE  received' \in Archives /\ Signed(received')
  BY <1>2, <1>5 DEF Send
<1>6. ASSUME NEW i \in DOMAIN sealed, MixManifest(i)
      PROVE  received' \in Archives /\ Signed(received')
  BY <1>2, <1>4, <1>6 DEF MixManifest, Change, Archives
<1>7. ASSUME NEW i \in DOMAIN sealed, MixSignature(i)
      PROVE  received' \in Archives /\ Signed(received')
  BY <1>2, <1>4, <1>7 DEF MixSignature, Change, Archives
<1>8. ASSUME NEW p \in Paths, LoseEntry(p)
      PROVE  received' \in Archives /\ Signed(received')
  <2>1. received.entries \in FileMaps(Blobs)
    BY <1>4, <1>8 DEF LoseEntry, Archives
  <2>2. [q \in DOMAIN received.entries \ {p} |-> received.entries[q]] \in FileMaps(Blobs)
    <3>1. DOMAIN received.entries \subseteq Paths
            /\ \A q \in DOMAIN received.entries : received.entries[q] \in Blobs
      BY <2>1, FileMapIsFunction
    <3>2. [q \in DOMAIN received.entries \ {p} |-> received.entries[q]]
            \in [DOMAIN received.entries \ {p} -> Blobs]
      BY <3>1
    <3> QED BY <3>1, <3>2 DEF FileMaps
  <2> QED BY <1>4, <1>8, <2>2 DEF LoseEntry, Change, Archives
<1>9. ASSUME NEW p \in Paths, NEW bytes \in Blobs, PutEntry(p, bytes)
      PROVE  received' \in Archives /\ Signed(received')
  <2>1. received.entries \in FileMaps(Blobs)
    BY <1>4, <1>9 DEF PutEntry, Archives
  <2>2. [q \in DOMAIN received.entries \cup {p} |->
           IF q = p THEN bytes ELSE received.entries[q]] \in FileMaps(Blobs)
    BY <2>1, FileMapsClosed
  <2> QED BY <1>4, <1>9, <2>2 DEF PutEntry, Change, Archives
<1>10. ASSUME LoseManifest \/ LoseSignature
       PROVE  received' \in Archives /\ Signed(received')
  BY <1>4, <1>10 DEF LoseManifest, LoseSignature, Change, Archives
<1>11. ASSUME RefreshDigests
       PROVE  received' \in Archives /\ Signed(received')
  <2>1. received.entries \in FileMaps(Blobs) /\ received.manifest \in Texts
    BY <1>4, <1>11 DEF RefreshDigests, Archives
  <2>2. Digests(received.entries) \in FileMaps({Digest(b) : b \in Blobs})
    BY <2>1, DigestsMap
  <2>3. [received.manifest EXCEPT !.manifest.assets = Digests(received.entries)] \in Texts
    BY <2>1, <2>2 DEF Texts, Manifests
  <2> QED BY <1>4, <1>11, <2>3 DEF RefreshDigests, Change, Archives
<1>12. ASSUME NEW form \in Forms, Reform(form)
       PROVE  received' \in Archives /\ Signed(received')
  <2>1. received.manifest \in Texts
    BY <1>4, <1>12 DEF Reform, Archives
  <2>2. [received.manifest EXCEPT !.form = form] \in Texts
    BY <2>1 DEF Texts
  <2> QED BY <1>4, <1>12, <2>2 DEF Reform, Change, Archives
<1>13. ASSUME NEW form \in SignatureForms, ReformSignature(form)
       PROVE  received' \in Archives /\ Signed(received')
  <2>1. received.signature \in Signatures
    BY <1>4, <1>13 DEF ReformSignature, Archives
  <2>2. [received.signature EXCEPT !.form = form] \in Signatures
          /\ [received.signature EXCEPT !.form = form].document
               = received.signature.document
    BY <2>1 DEF Signatures
  <2> QED BY <1>4, <1>13, <2>2 DEF ReformSignature, Change, Archives
<1>14. received' \in Archives /\ Signed(received')
  BY <1>5, <1>6, <1>7, <1>8, <1>9, <1>10, <1>11, <1>12, <1>13 DEF Next
<1>15. TypeOK'
  BY <1>1, <1>3, <1>14 DEF TypeOK
<1>16. SealedWell'
  BY <1>1 DEF SealedWell, LinksBack
<1>17. ReceivedSigned'
  BY <1>1, <1>14 DEF ReceivedSigned
<1> QED BY <1>15, <1>16, <1>17

(* Nothing is sealed and nothing on its way at first, and every step keeps *)
(* what is sealed well made and what is on its way signed by a seal.       *)
LEMMA InitSound == Init => Sound
<1> SUFFICES ASSUME Init PROVE Sound
  OBVIOUS
<1>1. sealed = <<>> /\ DOMAIN sealed = {} /\ received = None /\ changes = 0
  BY DEF Init
<1>2. TypeOK
  BY <1>1, VerificationAssumption DEF TypeOK
<1> QED BY <1>1, <1>2 DEF Sound, SealedWell, ReceivedSigned

(* Both kinds of step together. *)
LEMMA StepSound == Sound /\ [Next]_vars => Sound'
<1> SUFFICES ASSUME TypeOK, SealedWell, ReceivedSigned, [Next]_vars
             PROVE  TypeOK' /\ SealedWell' /\ ReceivedSigned'
  BY DEF Sound
<1>1. CASE Next /\ SealAny
  BY <1>1, SealStep
<1>2. CASE Next /\ ~SealAny
  BY <1>2, TransitStep
<1>3. CASE UNCHANGED vars
  BY <1>3 DEF vars, TypeOK, SealedWell, LinksBack, ReceivedSigned
<1> QED BY <1>1, <1>2, <1>3

(* Signatures are made by sealing only, in every state. *)
LEMMA SpecSound == Spec => []Sound
BY InitSound, StepSound, PTL DEF Spec

-----------------------------------------------------------------------------
(* What either verifier requires of the signature ties the copy's manifest *)
(* to the bundle whose signature it carries.                               *)
LEMMA SignatureTies ==
  ASSUME Sound, received # None, NEW bytes,
         received.manifest # None, received.signature # None,
         Verifies(received.signature.document.signature,
                  received.manifest.manifest.signer.public_key, bytes),
         bytes.manifest = received.manifest.manifest
  PROVE  \E i \in DOMAIN sealed :
           /\ received.signature.document = sealed[i].signature.document
           /\ received.manifest.manifest = sealed[i].manifest.manifest
           /\ bytes = sealed[i].manifest /\ bytes.form = "canonical"
           /\ WellMade(sealed[i], i) /\ LinksBack(i)
<1>1. PICK i \in DOMAIN sealed :
        received.signature.document = sealed[i].signature.document
  BY DEF Sound, ReceivedSigned
<1>2. WellMade(sealed[i], i) /\ LinksBack(i)
  BY DEF Sound, SealedWell
<1>3. sealed[i].signature.document.signature.over = sealed[i].manifest
        /\ sealed[i].manifest.form = "canonical"
  BY <1>2 DEF WellMade
<1>4. bytes = sealed[i].manifest
  BY <1>1, <1>3 DEF Verifies
<1> QED BY <1>1, <1>2, <1>3, <1>4

(* So with the command line, which reads the manifest of a sealed bundle.  *)
LEMMA CoreTies ==
  ASSUME Sound, received # None, NEW known, CoreAccepts(received, known)
  PROVE  \E i \in DOMAIN sealed :
           /\ received.signature.document = sealed[i].signature.document
           /\ received.manifest.manifest = sealed[i].manifest.manifest
           /\ WellMade(sealed[i], i) /\ LinksBack(i)
<1> DEFINE bytes == CoreCanonical(received.manifest)
<1>1. bytes.manifest = received.manifest.manifest
  BY DEF CoreCanonical, Text
<1>2. received.manifest # None /\ received.signature # None
        /\ Verifies(received.signature.document.signature,
                    received.manifest.manifest.signer.public_key, bytes)
  BY DEF CoreAccepts, CoreReads, CoreSignature
<1> HIDE DEF bytes
<1> QED BY <1>1, <1>2, SignatureTies

(* And with the page, whose canonical text has nothing added to it either. *)
LEMMA PageTies ==
  ASSUME Sound, received # None, PageReads(received), PageSignature(received)
  PROVE  /\ Canonical(received.manifest).form = "canonical"
         /\ \E i \in DOMAIN sealed :
              /\ received.signature.document = sealed[i].signature.document
              /\ received.manifest.manifest = sealed[i].manifest.manifest
              /\ WellMade(sealed[i], i) /\ LinksBack(i)
<1> DEFINE bytes == Canonical(received.manifest)
<1>1. received.manifest \in Texts /\ received.manifest # None /\ received.signature # None
  BY DEF PageReads, Sound, TypeOK, Archives
<1>2. bytes.manifest = received.manifest.manifest
  BY <1>1 DEF Texts, Canonical
<1>3. Verifies(received.signature.document.signature,
               received.manifest.manifest.signer.public_key, bytes)
  BY DEF PageSignature
<1> HIDE DEF bytes
<1>4. PICK i \in DOMAIN sealed :
        /\ received.signature.document = sealed[i].signature.document
        /\ received.manifest.manifest = sealed[i].manifest.manifest
        /\ bytes = sealed[i].manifest /\ bytes.form = "canonical"
        /\ WellMade(sealed[i], i) /\ LinksBack(i)
  BY <1>1, <1>2, <1>3, SignatureTies
<1> QED BY <1>4 DEF bytes

(* Bundles and copies have the shape of the format, in every state.        *)
THEOREM BundlesTyped == Spec => []TypeOK
BY SpecSound, PTL DEF Sound

(* What either verifier accepts was sealed, in every state.                *)
THEOREM AcceptedSealed == Spec => []AcceptedWasSealed
<1>1. Sound => AcceptedWasSealed
  <2> SUFFICES ASSUME Sound, received # None, NEW known \in KnownLists,
                      CoreAccepts(received, known) \/ PageAccepts(received, known, "signed")
               PROVE  \E i \in DOMAIN sealed : SameContent(received, sealed[i])
    BY DEF AcceptedWasSealed
  <2>1. PICK i \in DOMAIN sealed :
          /\ received.signature.document = sealed[i].signature.document
          /\ received.manifest.manifest = sealed[i].manifest.manifest
          /\ WellMade(sealed[i], i) /\ LinksBack(i)
    <3>1. CASE CoreAccepts(received, known)
      BY <3>1, CoreTies
    <3>2. CASE PageAccepts(received, known, "signed")
      BY <3>2, PageTies DEF PageAccepts
    <3> QED BY <3>1, <3>2
  <2> DEFINE f == received.entries
             g == sealed[i].entries
             assets == received.manifest.manifest.assets
  <2>2. f \in FileMaps(Blobs) /\ g \in FileMaps(Blobs)
    BY <2>1 DEF Sound, TypeOK, Archives, WellMade
  <2>3. assets = Digests(g)
    BY <2>1 DEF WellMade
  <2>4. /\ \A p \in DOMAIN assets : p \in DOMAIN f /\ Digest(f[p]) = assets[p]
        /\ DOMAIN f \subseteq DOMAIN assets
    BY DEF CoreAccepts, CoreAssets, CoreNoExtraEntries, PageAccepts, PageAssets
  <2> HIDE DEF f, g, assets
  <2>5. DOMAIN f = DOMAIN g /\ \A p \in DOMAIN f : Digest(f[p]) = Digest(g[p])
    BY <2>3, <2>4 DEF Digests
  <2>6. f = g
    BY <2>2, <2>5, DigestsDetermine
  <2> QED BY <2>1, <2>6 DEF SameContent, f, g
<1> QED BY <1>1, SpecSound, PTL

(* The checks that follow the reading of a copy are the same in both.      *)
LEMMA ChecksAgree ==
  ASSUME NEW m, NEW entries, NEW known
  PROVE  /\ CoreFingerprint(m, known) <=> PageFingerprint(m, known)
         /\ CoreAmendment(m) <=> PageAmendment(m)
         /\ CoreAssets(m, entries) /\ CoreNoExtraEntries(m, entries)
              <=> PageAssets(m, entries)
         /\ m.manifest_version \in {1, 2} =>
              CorePermits(m.manifest_version) = PagePermits(m.manifest_version)
<1>1. /\ CoreFingerprint(m, known) <=> PageFingerprint(m, known)
      /\ CoreAmendment(m) <=> PageAmendment(m)
      /\ CoreAssets(m, entries) /\ CoreNoExtraEntries(m, entries)
           <=> PageAssets(m, entries)
  BY DEF CoreFingerprint, PageFingerprint, CoreAmendment, PageAmendment,
         CoreAssets, CoreNoExtraEntries, PageAssets
<1>2. ASSUME m.manifest_version \in {1, 2}
      PROVE  CorePermits(m.manifest_version) = PagePermits(m.manifest_version)
  BY <1>2 DEF CorePermits, PagePermits
<1> QED BY <1>1, <1>2

(* The two verifiers differ by the form of the texts, the trusted signers  *)
(* and the registry of the page's build, and by nothing else.              *)
THEOREM VerifiersDiffer == Spec => []VerdictsDifferByForm
<1>1. Sound => VerdictsDifferByForm
  <2> SUFFICES ASSUME Sound, received # None, NEW known \in KnownLists
               PROVE  LET core == CoreAccepts(received, known)
                          page == PageAccepts(received, known, "signed")
                      IN /\ core => (page <=> /\ received.manifest.form # "nulled"
                                              /\ PageSigner(received.manifest.manifest))
                         /\ page => (core <=> /\ received.manifest.form # "lax"
                                              /\ received.signature.form # "lax")
                         /\ ~PageAccepts(received, known, "placeholder")
    BY DEF VerdictsDifferByForm
  <2> DEFINE m == received.manifest.manifest
             form == received.manifest.form
  <2>1. ~PageAccepts(received, known, "placeholder")
    BY DEF PageAccepts
  <2>2. ASSUME received.manifest # None
        PROVE  /\ received.manifest = [manifest |-> m, form |-> form] /\ form \in Forms
               /\ CoreCanonical(received.manifest) = [manifest |-> m, form |-> "canonical"]
               /\ form \in {"canonical", "reformatted", "lax"} =>
                    Canonical(received.manifest) = CoreCanonical(received.manifest)
               /\ form \in {"extended", "nulled"} =>
                    Canonical(received.manifest) = received.manifest
    <3>1. received.manifest = [manifest |-> m, form |-> form] /\ form \in Forms
      BY <2>2 DEF Sound, TypeOK, Archives, Texts
    <3> QED BY <3>1 DEF Canonical, CoreCanonical, Text
  <2>3. ASSUME CoreAccepts(received, known)
        PROVE  PageAccepts(received, known, "signed")
                 <=> form # "nulled" /\ PageSigner(m)
    <3>1. CoreReads(received) /\ CoreSignature(received)
            /\ PageFingerprint(m, known) /\ PageAmendment(m)
            /\ PageAssets(m, received.entries)
      BY <2>3, ChecksAgree DEF CoreAccepts
    <3>2. received.manifest # None /\ form \notin {"extended", "lax"}
      BY <3>1 DEF CoreReads, CoreParses
    <3>3. PageReads(received)
      BY <3>1 DEF CoreReads, CoreSignature, PageReads
    <3>4. ASSUME form # "nulled" PROVE PageSignature(received)
      <4>1. Canonical(received.manifest) = CoreCanonical(received.manifest)
        BY <2>2, <3>2, <3>4 DEF Forms
      <4> QED BY <3>1, <4>1, ChecksAgree DEF CoreReads, CoreSignature, PageSignature
    <3>5. ASSUME PageSignature(received) PROVE form # "nulled"
      BY <2>2, <3>2, <3>3, <3>5, PageTies
    <3> QED BY <3>1, <3>3, <3>4, <3>5 DEF PageAccepts
  <2>4. ASSUME PageAccepts(received, known, "signed")
        PROVE  CoreAccepts(received, known)
                 <=> form # "lax" /\ received.signature.form # "lax"
    <3>1. PageReads(received) /\ PageSignature(received)
            /\ CoreFingerprint(m, known) /\ CoreAmendment(m)
            /\ CoreAssets(m, received.entries) /\ CoreNoExtraEntries(m, received.entries)
      BY <2>4, ChecksAgree DEF PageAccepts
    <3>2. received.manifest # None /\ received.signature # None
            /\ m.manifest_version \in {1, 2}
      BY <3>1 DEF PageReads
    <3>3. form \in {"canonical", "reformatted", "lax"}
      BY <2>2, <3>1, <3>2, PageTies DEF Forms
    <3>4. CoreSignature(received)
      BY <2>2, <3>1, <3>2, <3>3, ChecksAgree DEF PageSignature, CoreSignature
    <3>5. CoreReads(received)
            <=> form # "lax" /\ received.signature.form # "lax"
      BY <3>2, <3>3 DEF CoreReads, CoreParses
    <3> QED BY <3>1, <3>4, <3>5 DEF CoreAccepts
  <2> QED BY <2>1, <2>3, <2>4
<1> QED BY <1>1, SpecSound, PTL

(* An accepted amendment is by the key of the bundle it amends.            *)
THEOREM AmendmentsContinue == Spec => []AmendmentContinuesChain
<1>1. Sound => AmendmentContinuesChain
  <2> SUFFICES ASSUME Sound, received # None, NEW known \in KnownLists,
                      CoreAccepts(received, known),
                      received.manifest.manifest.amends # None
               PROVE  LET m == received.manifest.manifest
                      IN /\ m.amends.original_bundle_id < m.bundle_id
                         /\ sealed[m.amends.original_bundle_id].signature.document.signature.by
                              = m.signer.public_key
    BY DEF AmendmentContinuesChain
  <2> DEFINE m == received.manifest.manifest
  <2>1. PICK i \in DOMAIN sealed :
          m = sealed[i].manifest.manifest /\ WellMade(sealed[i], i) /\ LinksBack(i)
    BY CoreTies
  <2>2. m.amends.original_signer_key_id = m.signer.key_id
    BY DEF CoreAccepts, CoreAmendment
  <2>3. PICK j \in 1..(i - 1) : m.amends = Amends(sealed[j].manifest.manifest)
    BY <2>1 DEF LinksBack
  <2>4. sealed \in Seq(Archives) /\ i \in 1..Len(sealed) /\ Len(sealed) \in Nat
    BY <2>1 DEF Sound, TypeOK
  <2>5. j \in DOMAIN sealed /\ j < i
    BY <2>3, <2>4
  <2>6. WellMade(sealed[j], j)
    BY <2>5 DEF Sound, SealedWell
  <2>7. m.amends.original_bundle_id = j
          /\ m.amends.original_signer_key_id = sealed[j].manifest.manifest.signer.key_id
    BY <2>3, <2>6 DEF Amends, WellMade
  <2>8. sealed[j].signature.document.signature.by = sealed[j].manifest.manifest.signer.key_id
    BY <2>6 DEF WellMade
  <2>9. m.bundle_id = i /\ m.signer.key_id = m.signer.public_key
    BY <2>1 DEF WellMade
  <2> QED BY <2>2, <2>5, <2>7, <2>8, <2>9
<1> QED BY <1>1, SpecSound, PTL

(* A well-made archive passes the reading, the signature and the assets of *)
(* the command line.                                                       *)
LEMMA WellMadeVerifies ==
  ASSUME NEW a, NEW id, WellMade(a, id)
  PROVE  /\ CoreReads(a) /\ CoreSignature(a)
         /\ CoreAssets(a.manifest.manifest, a.entries)
         /\ CoreNoExtraEntries(a.manifest.manifest, a.entries)
<1> DEFINE m == a.manifest.manifest
           doc == a.signature.document
<1>1. /\ a.manifest \in Texts /\ a.manifest.form = "canonical"
      /\ a.signature \in Signatures /\ a.signature.form = "plain"
      /\ m.manifest_version = VersionFor(m.signer.algorithm)
      /\ m.signer.attested => m.manifest_version = 2
      /\ m.assets = Digests(a.entries)
      /\ doc.algorithm = m.signer.algorithm /\ doc.key_id = m.signer.key_id
      /\ doc.signature = [by |-> m.signer.public_key, over |-> a.manifest]
  BY DEF WellMade
<1>2. m \in Manifests /\ m.signer \in Signers
  BY <1>1 DEF Texts, Manifests
<1>3. m.manifest_version \in {1, 2} /\ m.signer.algorithm \in {"ed25519", "ecdsa-p256"}
  BY <1>2 DEF Manifests, Signers
<1>4. CoreCanonical(a.manifest) = a.manifest
  BY <1>1 DEF CoreCanonical, Text, Texts
<1>5. CoreReads(a)
  BY <1>1, <1>3, NoneAssumption DEF CoreReads, CoreParses
<1>6. m.signer.algorithm \in CorePermits(m.manifest_version)
  BY <1>1, <1>3 DEF CorePermits, VersionFor
<1>7. Verifies(doc.signature, m.signer.public_key, CoreCanonical(a.manifest))
  BY <1>1, <1>4 DEF Verifies
<1>8. CoreSignature(a)
  BY <1>1, <1>3, <1>6, <1>7 DEF CoreSignature
<1>9. CoreAssets(m, a.entries) /\ CoreNoExtraEntries(m, a.entries)
  BY <1>1 DEF CoreAssets, CoreNoExtraEntries, Digests
<1> QED BY <1>5, <1>8, <1>9

(* What the builder seals the command line accepts, in every state.        *)
THEOREM SealedAccepted == Spec => []SealedIsAccepted
<1>1. Sound => SealedIsAccepted
  <2> SUFFICES ASSUME Sound, NEW i \in DOMAIN sealed, NEW known \in KnownLists,
                      FirstRowFor(known,
                        sealed[i].manifest.manifest.model_fingerprint.hash,
                        sealed[i].manifest.manifest.model_fingerprint.model),
                      sealed[i].manifest.manifest.amends # None =>
                        sealed[sealed[i].manifest.manifest.amends.original_bundle_id]
                          .signature.document.key_id = sealed[i].signature.document.key_id
               PROVE  CoreAccepts(sealed[i], known)
    BY DEF SealedIsAccepted
  <2> DEFINE a == sealed[i]
             m == a.manifest.manifest
  <2>1. WellMade(a, i) /\ LinksBack(i)
    BY DEF Sound, SealedWell
  <2>2. /\ CoreReads(a) /\ CoreSignature(a)
        /\ CoreAssets(m, a.entries) /\ CoreNoExtraEntries(m, a.entries)
    BY <2>1, WellMadeVerifies
  <2>3. CoreAmendment(m)
    <3> SUFFICES ASSUME m.amends # None
                 PROVE  m.amends.original_signer_key_id = m.signer.key_id
      BY DEF CoreAmendment
    <3>1. PICK j \in 1..(i - 1) : m.amends = Amends(sealed[j].manifest.manifest)
      BY <2>1 DEF LinksBack
    <3>2. j \in DOMAIN sealed
      <4>1. DOMAIN sealed = 1..Len(sealed) /\ Len(sealed) \in Nat
        BY DEF Sound, TypeOK
      <4> QED BY <3>1, <4>1
    <3>3. WellMade(sealed[j], j)
      BY <3>2 DEF Sound, SealedWell
    <3>4. /\ sealed[j].manifest.manifest.bundle_id = j
          /\ sealed[j].signature.document.key_id
               = sealed[j].manifest.manifest.signer.key_id
      BY <3>3 DEF WellMade
    <3>5. m.amends.original_bundle_id = j
            /\ m.amends.original_signer_key_id = sealed[j].manifest.manifest.signer.key_id
      BY <3>1, <3>4 DEF Amends
    <3>6. sealed[j].signature.document.key_id = a.signature.document.key_id
      BY <3>5
    <3>7. a.signature.document.key_id = m.signer.key_id
      BY <2>1 DEF WellMade
    <3> QED BY <3>4, <3>5, <3>6, <3>7
  <2>4. CoreFingerprint(m, known)
    BY DEF CoreFingerprint
  <2> QED BY <2>2, <2>3, <2>4 DEF CoreAccepts
<1> QED BY <1>1, SpecSound, PTL
=============================================================================
