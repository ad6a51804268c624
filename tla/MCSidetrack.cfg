\* Chunks of two sizes; members join and leave; one fault of any kind.
CONSTANTS
  s1 = s1
  Script <- OneScript
  Member <- TwoMembers
  Author <- AuthorFirst
  Has <- OnlyLast
  Historic = {}
  Size <- TwoSizes
  Parts <- PartsOf
  Joined <- OneMember
  Fault = {"lost", "damaged", "damaged chunk", "shared", "stop", "leave"}
  MaxFaults = 1
SPECIFICATION FairSpec
INVARIANTS ListsDisjoint ChunksIncomplete NobodyAskedTwice ChunksKept AcknowledgedIsKept
PROPERTY EveryScriptArrives
CHECK_DEADLOCK FALSE
