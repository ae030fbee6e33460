\* Reorganizations there and back, refused blocks, restarts; undo data for two blocks.
SPECIFICATION Spec
CONSTANTS
  Block <- MCBlock
  Genesis = "g"
  NoBlock = NoBlock
  Prev <- MCPrev
  Work <- MCWork
  Ext <- MCExt
  NoExt = NoExt
  ExtOf <- MCExtOf
  PrevMW <- MCPrevMW
  Commitment <- MCCommitment
  Out <- MCOut
  In <- MCIn
  Kernels <- MCKernels
  PegIn <- MCPegIn
  BadMW = {"a4"}
  NoIndex = NoIndex
  NoUndo = NoUndo
  Window = 2
INVARIANTS PathIndependent ProofIndexExact UndoUsable
