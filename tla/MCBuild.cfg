SPECIFICATION Spec
CONSTANTS
  MaxCalls = 3
  MaxBuilds = 3
  Jdk = {"unset", "missing", "nosymbol", "notools", "refuses", "bare", "full"}
  None = None
INVARIANTS TypeOK AcceptedMeansBuilt OwnEnv
PROPERTIES CallsClean ExceptionFails DialogCloses
