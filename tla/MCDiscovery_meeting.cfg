SPECIFICATION FairSpec
CONSTANTS
  Servers = {s1}
  Clients = {c1}
  Nowhere = Nowhere
  CallsFail = TRUE
  MaxInbox = 2
  MaxLosses = 2
INVARIANTS TypeOK ServersAreChosen
PROPERTIES AnswersAreHeard Meet
CHECK_DEADLOCK FALSE
