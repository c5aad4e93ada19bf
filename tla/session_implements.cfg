SPECIFICATION FairSpec
CONSTANTS
  Seconds = {s1}
  ImageData = {i1}
  Models = {m1}
  InferCalls = {f1}
  SealCalls = {e1}
  None = None
  ExternalWrites = FALSE
  MaxFiles = 0
  MaxBytes = 4
  MaxPicks = 0
  MaxRuns = 1
  MaxSeals = 2
INVARIANT SealedAudioWasHeard
PROPERTY GuardsComeDown
PROPERTY ImplementsSealedEvidence
