SPECIFICATION Spec
CONSTANTS
  Seconds = {s1}
  ImageData = {i1, i2}
  Models = {m1}
  InferCalls = {f1}
  SealCalls = {e1}
  None = None
  ExternalWrites = TRUE
  MaxFiles = 2
  MaxBytes = 2
  MaxPicks = 1
  MaxRuns = 1
  MaxSeals = 1
SYMMETRY Symmetry
INVARIANT TypeOK
INVARIANT SealedIsWhatInferenceRead
