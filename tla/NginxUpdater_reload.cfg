SPECIFICATION SafetySpec
CONSTANTS
  Configs = {a, b, c}
  Bad = {}
  MaxFailures = 0
INVARIANT LoadedAtRest
CHECK_DEADLOCK FALSE
