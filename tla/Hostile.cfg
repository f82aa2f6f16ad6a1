SPECIFICATION FairSpec
CONSTANTS
  None = None
  Tx <- MCTx
  Body <- MCBody
  Address <- MCAddress
  PubKey <- MCPubKey
  DeriveAddress <- MCDeriveAddress
  Genesis <- MCGenesis
  BlockBodies <- MCBlockBodies
  MaxHeight = 2
  MaxDepth = 2
  ReorgUntouched = FALSE
  Shorter = TRUE
  MidTick = TRUE
  StopInRewind = TRUE
  PeekFails = TRUE
INVARIANTS
  TypeOK
  SecondaryIndexesAgree
  MirrorsAgree
  NothingAboveCheckpoint
  RowsHaveTheirBlock
  TickFitsCheckpoint
PROPERTIES
  ReplayKeepsTables
  SettlementStaysWithItsBlock
  CatchesUp
