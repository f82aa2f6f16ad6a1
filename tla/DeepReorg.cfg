SPECIFICATION Spec
CONSTANTS
  None = None
  Tx <- MCTx
  Body <- MCBody
  Address <- MCAddress
  PubKey <- MCPubKey
  DeriveAddress <- MCDeriveAddress
  Genesis <- MCGenesis
  BlockBodies <- MCBlockBodies
  MaxHeight = 3
  MaxDepth = 2
  ReorgUntouched = TRUE
  Shorter = FALSE
  MidTick = FALSE
  StopInRewind = FALSE
  PeekFails = FALSE
INVARIANT RewindReachesAncestor
