SPECIFICATION Spec
CONSTANTS
  Configs = {a, b, x}
  Bad = {x}
  MaxFailures = 1
 
PROPERTIES ImplementsNginxService StopEventuallyReturns DeathIsNoticed
CHECK_DEADLOCK FALSE
