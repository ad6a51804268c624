\* Three members, two of them check in and may stop, two ask for what is missing.
CONSTANTS
  Member = {1, 2, 3}
  Limit <- Limit110
  Redelivery = {FALSE}
  Requesting = {2, 3}
  Crashing = {1, 2}
  Corruptible = {}
  Newcomer = {}
SPECIFICATION Spec
CHECK_DEADLOCK FALSE
INVARIANTS ConfirmedAgree
