SPECIFICATION ReadersSpec
CONSTANTS
  None = None
  Tx <- MCTx
  Body <- MCBody
  Address <- MCAddress
  PubKey <- MCPubKey
  DeriveAddress <- MCDeriveAddress
  ByteOrder <- MCByteOrder
  Asked <- MCAsked
  Genesis <- MCGenesis
  BlockBodies <- MCBlockBodies
  MaxHeight = 3
  MaxDepth = 1
  ReorgUntouched = FALSE
  Shorter = FALSE
  MidTick = TRUE
  StopInRewind = TRUE
  PeekFails = TRUE
INVARIANTS
  WalkMeetsEveryKey
  StatsCountListed
  EdgesCountListed
  SwapGroupsInOrder
PROPERTIES
  FullPages
  WalksEnd
