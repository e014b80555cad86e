SPECIFICATION Spec
CONSTANTS
  WordMax = 30
  Bases = {1, 25}
  None = None
  Programs <- PassPrograms
INVARIANTS OwnIteration LabelsAgree SizesAgree
PROPERTIES Emitted KeepsPromise
