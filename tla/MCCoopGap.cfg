\* Three scripts of one member and one of another, without faults.
CONSTANTS
  Member = {1, 2}
  Limit <- Limit31
  Redelivery = {FALSE}
  Requesting = {}
  Crashing = {}
  Corruptible = {}
  Newcomer = {}
SPECIFICATION Spec
CHECK_DEADLOCK FALSE
INVARIANTS AcknowledgedHasNoGap
