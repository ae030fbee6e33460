\* Every order of arrival of the blocks of two branches that overtake each
\* other, with crashes between any two steps and a failing read or commit.
SPECIFICATION Spec
CONSTANTS
  Block <- MCBlock
  Genesis = "g"
  NoBlock = NoBlock
  Prev <- MCPrev
  Work <- MCWork
  Tx <- MCTx
  NoTx = NoTx
  Vtx <- MCVtx
  Vin <- MCVin
  NOut <- MCNOut
  Generated <- MCGenerated
  Standard <- MCStandard
  Stake <- MCStake
  NoStake = NoStake
  BadBlock = {}
  Maturity = 2
  InitialDownload = FALSE
  MaxCrashes = 2
  MaxFaults = 1
CHECK_DEADLOCK FALSE
INVARIANTS DiskLedgerExact MemoryMatchesDisk LinksFormMainChain PoolMarksExact OnBestValidChain NoConnectableOrphan
PROPERTIES ProcessBlockReturns ImplementsBestChain NoTransactionLost
