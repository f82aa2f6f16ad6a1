SPECIFICATION UpgradeSpec
CONSTANTS
  None = None
  Tx <- MCTx
  Body <- MCBody
  Address <- MCAddress
  PubKey <- MCPubKey
  DeriveAddress <- MCDeriveAddress
  Genesis <- MCGenesis
  BlockBodies <- MCBlockBodies
  OldChains <- MCOldChains
  MaxHeight = 3
  MaxDepth = 1
  ReorgUntouched = TRUE
  Shorter = FALSE
  MidTick = FALSE
  StopInRewind = FALSE
  PeekFails = FALSE
INVARIANT
  RebuildLeavesTheIndex
