SPECIFICATION Spec
CONSTANTS
  TargetGroups = {t1, t2}
  Missing = {t2}
  MaxVersion = 1
  MaxFailures = 1
  MaxStops = 1
INVARIANTS TrafficIsServed CleanExit ReadyMeansServing
PROPERTIES ImplementsFrontend ProbesAreAnswered SignalEndsProgram
CHECK_DEADLOCK FALSE
