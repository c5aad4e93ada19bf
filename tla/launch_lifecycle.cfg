SPECIFICATION Spec
CONSTANTS
  a1 = a1
  a2 = a2
  o1 = o1
  o2 = o2
  gemmaMlx = gemmaMlx
  gemmaMistral = gemmaMistral
  otherMlx = otherMlx
  mistralRevision = mistralRevision
  Pinned = Pinned
  Main = Main
  Apps = {a1, a2}
  Signers = {a1, a2}
  Operators = {o1, o2}
  Nobody = Nobody
  EmptyFile = EmptyFile
  Unset = Unset
  HasEnclave = TRUE
  Models = {gemmaMlx, gemmaMistral, otherMlx}
  InCache = {gemmaMlx, otherMlx}
  Kind <- MCKind
  ModelEnv <- MCModelEnv
  DefaultModel <- MCDefaultModel
  Registry <- MCRegistry
  MaxSeals = 2
  MaxTasks = 2
  MaxFaults = 1
INVARIANTS
  TypeOK
  SignatureMatchesSigner
  SoftwareKeysWereStored
  OneDeviceKey
  NothingLeftRunning
  
  ModelNamedRightly
\* Every instance may be closed and every script over.
CHECK_DEADLOCK FALSE
