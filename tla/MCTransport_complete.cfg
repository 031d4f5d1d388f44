SPECIFICATION FairSpec
CONSTANTS
  MAX_SIZE = 3
  sizeofheader = 2
  BUFFER_SIZE = 3
  timeout_secs = 0
  Units = {1, 2}
  Junk = 0
  Payloads <- OneAndTwo
  Sizes = {0, 1, 2, 3}
  MemoryReused = TRUE
  XXHM <- MCXXHM
  Senders = {s1, s2}
  Kinds = {1}
  ServerSide = FALSE
  WholeReads = TRUE
  MaxSends = 2
  MaxDelivered = 1
  MaxCells = 1
  MaxTime = 0
PROPERTIES PartialsComplete
CHECK_DEADLOCK FALSE
