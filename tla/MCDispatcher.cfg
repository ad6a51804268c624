\* Copies and whole batches of mail fail three times, with an answer or without.
CONSTANTS
  s1 = s1
  s2 = s2
  near = near
  far = far
  Email = Email
  Script <- MCScript
  Lan <- MCLan
  Route <- MCRoute
  MaxHandle = 2
  MaxFailures = 3
  MaxClears = 0
  MailResults = {"sent", "failed"}
  Vanishing = FALSE
  Throwing <- MCTransport
  Unmarkable = {}
SPECIFICATION FairSpec
INVARIANTS BusyIsAnswered NoObsoleteHandle PendingIsQueued CopiedOnce AnswerIsRead
PROPERTIES EveryScriptSettles
CHECK_DEADLOCK FALSE
