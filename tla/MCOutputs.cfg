SPECIFICATION Spec
CONSTANTS
  Page = 2
  BankNamed <- Names
  SectorSize = 2
  SectorsPerTrack = 2
  TotalSectors = 7
  MaxFiles = 3
  Linked = {"A", "B"}
  Basics = {"L", "M"}
  MaxLine = 8
  LastLine = 30
  Projects <- AllProjects
INVARIANTS LoadsWhatWasLinked BasicIsItsSources BasicRefusedForAReason RefusedForAReason StartsAsConfigured MediaFindFiles
