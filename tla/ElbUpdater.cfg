SPECIFICATION Spec
CONSTANTS
  Internal = {i1, i2}
  Facing = {f1}
  Expected = 2
  MaxChanges = 2
  MaxFailures = 2
INVARIANT ReadyMeansAttached
PROPERTIES ImplementsFrontend EventuallyAttached
