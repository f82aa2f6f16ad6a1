SPECIFICATION ObservedSpec
CONSTANTS
  None = None
  Tx <- MCTx
  Body <- MCBody
  Address <- MCAddress
  PubKey <- MCPubKey
  DeriveAddress <- MCDeriveAddress
  Posts <- MCPosts
  Genesis <- MCGenesis
  BlockBodies <- MCBlockBodies
  MaxHeight = 3
  MaxDepth = 1
  ReorgUntouched = TRUE
  Shorter = FALSE
  MidTick = FALSE
  StopInRewind = FALSE
  PeekFails = FALSE
INVARIANT
  EveryItemAnswered
PROPERTIES
  EveryAnswerWasTrue
  StatusCountsItsBlock
  PostsEnd
