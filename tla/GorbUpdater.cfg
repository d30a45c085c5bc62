SPECIFICATION Spec
CONSTANTS
  NumServices = 2
  NumVips = 2
  ManageLoopback = TRUE
  MaxFailures = 1
  MaxRestarts = 1
  MaxLosses = 1
INVARIANTS UpdatedMeansSetUp StopCleansUp NoBlackhole DrainedOnlyIfAbandoned
PROPERTY EventuallyBackends
