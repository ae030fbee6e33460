\* A crash and an invalid block behind a postponed one: what the self check of
\* LoadBlockIndex finds on disk.
SPECIFICATION Spec
CONSTANTS
  Block <- MCBlock
  Genesis = "g"
  NoBlock = NoBlock
  Prev <- MCPrev
  Work <- MCWork
  Tx <- MCTx
  NoTx = NoTx
  Vtx <- MCVtx
  Vin <- MCVin
  NOut <- MCNOut
  Generated <- MCGenerated
  Standard <- MCStandard
  Stake <- MCStake
  NoStake = NoStake
  BadBlock = {}
  Maturity = 1
  InitialDownload = FALSE
  MaxCrashes = 1
  MaxFaults = 0
CHECK_DEADLOCK FALSE
INVARIANT NoUnspentPrevout
