SPECIFICATION FairSpec
CONSTANTS
  Clients = {c1, c2}
  Readers = {c1}
  Worker = Worker
  Addr = {a1, a2}
  NULL = NULL
  Invalid = Invalid
  maxconnlen = 2
  Welcome = Welcome
  MaxMessages = 2
  MaxFailures = 1
PROPERTIES WalksEnd
CHECK_DEADLOCK FALSE
