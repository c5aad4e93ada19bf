SPECIFICATION Spec
CONSTANTS
  Calls = {c1}
  Selections = {p1, p2}
  None = None
  NoImages = NoImages
  MaxTakes = 2
  MaxRuns = 2
INVARIANT ShownImagesAreUsed
