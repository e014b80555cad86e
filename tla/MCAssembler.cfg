SPECIFICATION Spec
CONSTANTS
  None = None
  Conditions <- BothConditions
  ProjectVariables <- OneVariable
  Programs <- AllPrograms
INVARIANTS UsesMeanWhatTheyName OnlyRealDuplicates PlacedAsWritten
