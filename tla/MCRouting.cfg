SPECIFICATION Spec
CONSTANTS
  Name = "ours"
  IncludeClassless = FALSE
  MatchAll = FALSE
  Absent = Absent
  Garbage = Garbage
  Selectors <- MCSelectors
  Labels <- MCLabels
  NamespaceOf <- MCNamespaceOf
  Shapes <- MCShapes
  Addresses <- MCAddresses
  MaxEdits = 2
INVARIANTS RoutesToTheFirst 
PROPERTIES OthersUndisturbed OthersIgnored
