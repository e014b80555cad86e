SPECIFICATION Spec
CONSTANTS
  A = A
  B = B
  Helper = Helper
  Jar = Jar
  i = i
  x = x
  y = y
  None = None
  Torn = Torn
  Scripts <- TwoScripts
  Classes = {A, B, Helper, Jar}
  Jars = {Jar}
  Refs <- HelperRefs
  Inlined <- NoRefs
  Inputs = {i}
  Outputs = {x, y}
  Versions = {1, 2}
  Program <- Plain
  LiveEdits = {i, y}
  MaxClock = 6
INVARIANTS FreshOutputs SameSources
PROPERTY RunsOnlyAfterEdits
