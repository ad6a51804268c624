\* Two scripts of one member: mail is lost, repeated and reordered, and what is missing asked for.
CONSTANTS
  Member = {1, 2}
  Limit <- Limit20
  Redelivery = {TRUE, FALSE}
  Requesting = {2}
  Crashing = {}
  Corruptible = {}
  Newcomer = {}
SPECIFICATION Spec
CHECK_DEADLOCK FALSE
INVARIANTS TypeOK PredecessorsAgree AcknowledgedIsKnown AllConfirmed
