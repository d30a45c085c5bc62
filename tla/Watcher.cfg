SPECIFICATION Spec
CONSTANTS
  Names = {n1}
  Selected = {n1}
  UseSelectors = TRUE
  MaxEvents = 1
INVARIANTS NoLostWakeup NoPartialList
PROPERTIES ImplementsFreshView EventuallyFresh
CHECK_DEADLOCK FALSE
