SPECIFICATION FairSpec
CONSTANTS
  None = None
  Tx <- MCTx
  Body <- MCTwinBody
  Address <- MCAddress
  PubKey <- MCPubKey
  DeriveAddress <- MCDeriveAddress
  Genesis <- MCGenesis
  BlockBodies <- MCBlockBodies
  MaxHeight = 4
  MaxDepth = 1
  ReorgUntouched = TRUE
  Shorter = FALSE
  MidTick = FALSE
  StopInRewind = FALSE
  PeekFails = FALSE
INVARIANTS
  SettlementsTellTheHtlcs
  RewindReachesAncestor
  AppliesOnParent
  ResumesWithoutGap
PROPERTIES
  CompleteAtTip
  KeepsPromise
  IndexesTheChain
