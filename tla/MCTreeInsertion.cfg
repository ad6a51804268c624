\* All trees of up to four scripts: two by the member with the highest priority.
CONSTANTS
  Member = {1, 2, 3}
  Limit <- Limit211
SPECIFICATION Spec
CHECK_DEADLOCK FALSE
INVARIANTS RejectsOnlyWhenWinning
PROPERTIES ImplementsInsertion
