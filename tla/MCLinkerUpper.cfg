SPECIFICATION Spec
CONSTANTS
  N = 3
  F = 2
  Name = {1, 2, 3}
  WordMax = 15
  SizeMod = 64
  None = None
  Project <- LinkedProjects
INVARIANT UpperAtEndBecomesLower
