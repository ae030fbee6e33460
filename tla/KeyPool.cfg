\* Two threads reserve keys while addresses and blocks are made and the wallet is
\* encrypted, locked, unlocked and restarted.
SPECIFICATION Spec
CONSTANTS
  t1 = t1
  t2 = t2
  Thread <- MCThread
  TargetSize = 2
  MaxKeys = 7
SYMMETRY MCSymmetry
INVARIANTS RecordsAccounted NoKeyReuse KeptKeysLeavePool
CHECK_DEADLOCK FALSE
