------------------------------ MODULE BlockTree ------------------------------
(***************************************************************************)
(* The tree of blocks a node could ever be handed.  A block never changes  *)
(* once it has a hash, so the tree is a constant; what a node has seen of  *)
(* it is state of the modules that extend this one.                        *)
(***************************************************************************)
EXTENDS Integers, FiniteSets

CONSTANTS
  Block,       \* hashes of all blocks of the model
  Genesis,     \* pindexGenesisBlock
  NoBlock,     \* a null CBlockIndex* / null CDiskTxPos
  Prev,        \* CBlock::hashPrevBlock, [Block \ {Genesis} -> Block]
  Work         \* CBlockIndex::GetBlockTrust, [Block -> Nat \ {0}]

\* The branch from Genesis to b, found in the code by following pprev.
Chain[b \in Block] ==
  IF b = Genesis THEN {Genesis} ELSE Chain[Prev[b]] \cup {b}

\* CBlockIndex::nHeight and nChainTrust as AddToBlockIndex computes them.
Height(b) == Cardinality(Chain[b]) - 1

ChainTrust[b \in Block] ==
  IF b = Genesis THEN Work[b] ELSE ChainTrust[Prev[b]] + Work[b]

\* The block after a on the branch of b, for a an ancestor of b.
Toward(a, b) == CHOOSE x \in Chain[b] \ {Genesis} : Prev[x] = a

ASSUME BlockAssumption ==
  /\ Genesis \in Block
  /\ NoBlock \notin Block
  /\ Prev \in [Block \ {Genesis} -> Block]
  /\ Work \in [Block -> Nat \ {0}]

\* Prev has no cycle, so that a branch ends in Genesis and unfolds from it.
\* The last conjunct says that a branch is a path: below its tip every block
\* has one successor on it.
ASSUME ChainAssumption ==
  /\ Chain \in [Block -> SUBSET Block]
  /\ Chain[Genesis] = {Genesis}
  /\ \A b \in Block \ {Genesis} :
       /\ Chain[b] = Chain[Prev[b]] \cup {b}
       /\ b \notin Chain[Prev[b]]
  /\ \A b \in Block : Genesis \in Chain[b] /\ b \in Chain[b]
  /\ \A b \in Block : \A a \in Chain[b] : Chain[a] \subseteq Chain[b]
  /\ \A b \in Block : \A a \in Chain[b] \ {b} :
       /\ Toward(a, b) \in Chain[b] \ {Genesis}
       /\ Prev[Toward(a, b)] = a
       /\ \A x \in Chain[b] \ {Genesis} : Prev[x] = a => x = Toward(a, b)

ASSUME TrustAssumption ==
  /\ ChainTrust \in [Block -> Nat]
  /\ \A b \in Block \ {Genesis} : ChainTrust[b] = ChainTrust[Prev[b]] + Work[b]
  /\ \A b \in Block : \A a \in Chain[b] : ChainTrust[a] <= ChainTrust[b]

=============================================================================
