\* The server stages files after an interrupted transaction.
CONSTANTS
  File = {f1}
  Content = {c1, c2}
  None = None
  Partial = Partial
  MaxCommits = 3
  Overlapping = TRUE
SPECIFICATION Spec
INVARIANTS InterruptedIsRedone
