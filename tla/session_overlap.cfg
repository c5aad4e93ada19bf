SPECIFICATION Spec
CONSTANTS
  Seconds = {s1, s2}
  ImageData = {i1}
  Models = {m1}
  InferCalls = {f1, f2}
  SealCalls = {e1, e2}
  None = None
  ExternalWrites = FALSE
  MaxFiles = 0
  MaxBytes = 2
  MaxPicks = 0
  MaxRuns = 2
  MaxSeals = 2
SYMMETRY Symmetry
INVARIANT GuardsAreExclusive
INVARIANT TraceFileMatchesPipeline
PROPERTY SealedBundlesPermanent
