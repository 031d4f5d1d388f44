SPECIFICATION Spec
CONSTANTS
  Servers = {s1, s2}
  Clients = {c1, c2}
  Nowhere = Nowhere
  CallsFail = FALSE
  MaxInbox = 1
  MaxLosses = 0
INVARIANTS OneAnswer
PROPERTIES NeverFetched
SYMMETRY Symmetry
CHECK_DEADLOCK FALSE
