SPECIFICATION Spec
CONSTANTS
  Clients = {c1, c2, c3}
  Readers = {}
  Worker = Worker
  Addr = {a1, a2, a3}
  NULL = NULL
  Invalid = Invalid
  maxconnlen = 2
  Welcome = Welcome
  MaxMessages = 2
  MaxFailures = 1
INVARIANTS TypeOK WholeBetweenCalls NullBeforeFirstOnly DeletedAfterFailureOnly AllReached
PROPERTIES ImplementsRelay
SYMMETRY Symmetry
CHECK_DEADLOCK FALSE
