SPECIFICATION Spec
CONSTANTS
  MaxCalls = 1
  MaxBuilds = 1
  Jdk = {"unset", "missing", "nosymbol", "notools", "refuses", "bare", "full"}
  None = None
INVARIANT RetryAfterFailedLoad
