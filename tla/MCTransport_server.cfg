SPECIFICATION Spec
CONSTANTS
  MAX_SIZE = 3
  sizeofheader = 2
  BUFFER_SIZE = 6
  timeout_secs = 0
  Units = {1, 2}
  Junk = 0
  Payloads <- OneAndTwo
  Sizes = {0, 1, 2, 3}
  MemoryReused = TRUE
  XXHM <- MCXXHM
  Senders = {s1, s2}
  Kinds = {1}
  ServerSide = TRUE
  WholeReads = FALSE
  MaxSends = 2
  MaxDelivered = 3
  MaxCells = 3
  MaxTime = 0
INVARIANTS ServerTakesSinglesOnly
SYMMETRY SenderSymmetry
CHECK_DEADLOCK FALSE
