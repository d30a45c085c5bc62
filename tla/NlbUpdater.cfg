SPECIFICATION Spec
CONSTANTS
  Internal = {{t1, t2}, {l1}}
  Facing = {{t3}}
  Lambda = {l1}
  Expected = 2
  MaxChanges = 1
  MaxFailures = 2
INVARIANT ReadyMeansAttached
PROPERTIES ImplementsFrontend EventuallyReady
