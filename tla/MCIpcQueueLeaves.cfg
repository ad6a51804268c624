\* A server that leaves its project after the command.
CONSTANTS
  c1 = c1
  c2 = c2
  p1 = p1
  p2 = p2
  None = None
  Conv <- MCConv
  Project <- MCProject
  Commands <- MCCommands
  Patient <- MCPatient
  Gui <- MCGui
  StayInProject = FALSE
SPECIFICATION Spec
INVARIANTS ExecutesInItsProject
CHECK_DEADLOCK FALSE
