\* The state is cleared while copiers are at work; files vanish, mail
\* fails in part or without an answer, and headers cannot be marked.
CONSTANTS
  s1 = s1
  s2 = s2
  near = near
  far = far
  Email = Email
  Script <- MCScript
  Lan <- MCLan
  Route <- OneFolder
  MaxHandle = 4
  MaxFailures = 1
  MaxClears = 1
  MailResults = {"sent", "partly", "blacklisted"}
  Vanishing = TRUE
  Throwing <- MCTransport
  Unmarkable <- MCMail
SPECIFICATION FairSpec
INVARIANTS KnownAgrees
PROPERTIES DeletedIsDelivered ClearReturns
CHECK_DEADLOCK FALSE
