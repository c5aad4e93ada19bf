SPECIFICATION Spec
CONSTANTS
  Keys = {s1, p1}
  HardwareKeys = {p1}
  Attesting = {p1}
  Blobs = {b1, b2}
  m1 = m1
  m2 = m2
  w1 = w1
  w2 = w2
  Models = {m1, m2}
  Hashes = {w1, w2}
  None = None
  Trusted = {s1, p1}
  Revoked = {s1}
  Registered <- MCRegistered
  KnownLists <- MCKnownLists
  MaxImages = 1
  MaxSeals = 2
  MaxChanges = 2
SYMMETRY Symmetry
INVARIANT TypeOK
INVARIANT AcceptedWasSealed
 
INVARIANT SealedIsAccepted
INVARIANT AmendmentContinuesChain
