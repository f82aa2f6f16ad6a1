SPECIFICATION FairSpec
CONSTANTS
  None = None
  Tx <- MCTx
  Body <- MCBody
  Address <- MCAddress
  PubKey <- MCPubKey
  DeriveAddress <- MCDeriveAddress
  Genesis <- MCGenesis
  BlockBodies <- MCBlockBodies
  MaxHeight = 3
  MaxDepth = 1
  ReorgUntouched = FALSE
  Shorter = FALSE
  MidTick = FALSE
  StopInRewind = FALSE
  PeekFails = FALSE
PROPERTY IndexesTheChain
