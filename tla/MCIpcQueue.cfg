\* A server that stays in the project it visited.
CONSTANTS
  c1 = c1
  c2 = c2
  p1 = p1
  p2 = p2
  None = None
  Conv <- MCConv
  Project <- MCProject
  Commands <- MCCommands
  Patient <- MCPatient
  Gui <- MCGui
  StayInProject = TRUE
SPECIFICATION FairSpec
INVARIANTS DeletedOnce DataKept QuitsIdle ExecutesInItsProject
PROPERTIES ClientsReturn
CHECK_DEADLOCK FALSE
