\* Blocks and checkpoints in any order, with a crash, a failing read or write and an
\* upgrade.
SPECIFICATION Spec
CONSTANTS
  Block <- MCBlock
  Genesis = "g"
  NoBlock = NoBlock
  Prev <- MCPrev
  Work <- MCWork
  Published = {"a1", "b1", "b2", "x2", "x3"}
  Hardened <- MCHardened
  BadBlock = {"x2", "x3"}
  MaxCrashes = 1
  MaxFaults = 1
CHECK_DEADLOCK FALSE
INVARIANTS CheckpointInMainChain PendingTaken
PROPERTIES ImplementsFinalChain PendingDecided
