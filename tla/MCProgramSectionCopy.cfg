SPECIFICATION Spec
CONSTANTS
  WordMax = 30
  Bases = {1}
  None = None
  Programs <- CopiedPrograms
INVARIANT CopySizesAgree
CHECK_DEADLOCK FALSE
