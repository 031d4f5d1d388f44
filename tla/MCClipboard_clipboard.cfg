SPECIFICATION FairSpec
CONSTANTS
  Contents <- MCContents
  Beyond <- MCBeyond
  Junk = 9
  NULL = NULL
  sizeofHEADER = 1
  MaxCopies = 3
  MaxFailures = 2
INVARIANTS TypeOK OfferedInOrder SoundBuffer KeptFormat
PROPERTIES Settles Shared
CHECK_DEADLOCK FALSE
