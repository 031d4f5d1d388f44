SPECIFICATION Spec
CONSTANTS
  Len32 = 32
  NULL = NULL
  Data <- MCData
  Pieces <- MCPieces
  Seeds <- MCSeeds
  Secrets <- MCSecrets
  ShortSecrets <- MCShortSecrets
  Junk <- MCJunk
  MaxCalls = 4
INVARIANTS Streamed32 Streamed64 Streamed3 SecretOfSeed LanesAgree CanonicalOrder
CHECK_DEADLOCK FALSE
