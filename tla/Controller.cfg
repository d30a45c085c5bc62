SPECIFICATION Spec
CONSTANTS
  N = 3
  Clients = {c1, c2}
  Goroutines = {1, 2}
  MaxVersion = 2
  MaxFailures = 2
INVARIANTS SingleUpdater NeverAhead LifecyclesAgree HealthAtRest
PROPERTIES EventuallyApplied
CHECK_DEADLOCK FALSE
