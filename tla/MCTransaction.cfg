\* The program stops anywhere; nothing is staged over an interrupted transaction.
CONSTANTS
  File = {f1, f2}
  Content = {c1, c2}
  None = None
  Partial = Partial
  MaxCommits = 4
  Overlapping = FALSE
SYMMETRY Symmetry
SPECIFICATION Spec
INVARIANTS Recoverable
PROPERTIES NothingDiscarded ImplementsStore
