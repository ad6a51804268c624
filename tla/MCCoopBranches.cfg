\* One check-in against two; the program of the owner of two stops, the first script turns out unreadable,
\* and its author asks for the scripts it misses.
CONSTANTS
  Member = {1, 2}
  Limit <- Limit12
  Redelivery = {FALSE}
  Requesting = {1}
  Crashing = {2}
  Corruptible <- OnlyOne
  Newcomer = {}
SPECIFICATION FairSpec
CHECK_DEADLOCK FALSE
INVARIANTS TreeShape ExecutedIsBranch FisIsSettled NextIsReady MailNeverDropped NothingStranded NextMarkerFresh Converged
PROPERTIES ConfirmedStays EverybodyDecides
