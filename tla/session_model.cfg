SPECIFICATION Spec
CONSTANTS
  Seconds = {s1}
  ImageData = {i1}
  Models = {m1, m2}
  InferCalls = {f1}
  SealCalls = {e1}
  None = None
  ExternalWrites = FALSE
  MaxFiles = 0
  MaxBytes = 2
  MaxPicks = 0
  MaxRuns = 1
  MaxSeals = 1
INVARIANT SealedModelProducedReport
