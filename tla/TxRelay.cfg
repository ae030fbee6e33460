\* Relayed and own transactions between the two phases, orphans of orphans, and
\* the ways back into the mempool.  With EpochTicks = 0 the epoch may be over at
\* each use of it, and the new stem peers be the old ones.
SPECIFICATION Spec
CONSTANTS
  Tx <- MCTx
  NoTx = NoTx
  Parents <- MCParents
  Good = {"p", "w", "c", "d"}
  Local = {"w"}
  Mine = {"p", "w"}
  Submitted = {"c"}
  Mined = {"p", "w"}
  Peer = {p1}
  StemPeers = 1
  EmbargoTicks = 1
  EpochTicks = 0
  MaxOrphans = 2
INVARIANTS PhasesDisjoint RelayAccounted NoAcceptableOrphan
PROPERTY EventuallyAnnounced
CHECK_DEADLOCK FALSE
