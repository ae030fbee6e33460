----------------------------- MODULE ChainTypes -----------------------------
(***************************************************************************)
(* The transactions in the blocks of the tree.  Like the tree they are     *)
(* constants.                                                              *)
(***************************************************************************)
EXTENDS BlockTree, Sequences

CONSTANTS
  Tx,          \* hashes of all transactions of the model
  NoTx,        \* absence of a spender in mapNextTx
  Vtx,         \* CBlock::vtx, [Block -> Seq(Tx)]
  Vin,         \* outpoints a transaction spends, [Tx -> SUBSET OutPoint]
  NOut,        \* vout.size(), [Tx -> Nat]
  Generated,   \* the coinbase and coinstake transactions
  Standard,    \* transactions that pass the stateless admission rules of
               \* CTxMemPool::accept (CheckTransaction, markers, fees, ...)
  Stake,       \* CBlock::GetProofOfStake: the kernel's outpoint (its time is the
               \* same in all blocks of a kernel), NoStake for proof-of-work
  NoStake,
  BadBlock,    \* blocks breaking a ConnectBlock rule that does not read the
               \* tx index (reward, markers, equal outputs, dev fund, ...)
  Maturity     \* nCoinbaseMaturity

\* COutPoint: the hash of the creating transaction and an output number.
OutPoint == UNION {{t} \X (1..NOut[t]) : t \in Tx}

Vout(t) == {t} \X (1..NOut[t])

\* The transactions of a block, and the outpoints they spend and create.
TxsOf(b)    == {Vtx[b][i] : i \in DOMAIN Vtx[b]}
SpentBy(T)  == UNION {Vin[t] : t \in T}
MadeBy(T)   == UNION {Vout(t) : t \in T}

\* What CheckBlock and CheckTransaction establish of a block before it can
\* reach the block index: no transaction twice in a block, the kernel of a
\* proof-of-stake block is spent by its coinstake.
ASSUME TxAssumption ==
  /\ NoTx \notin Tx
  /\ NOut \in [Tx -> Nat]
  /\ Vtx \in [Block -> Seq(Tx)]
  /\ \A b \in Block : \A i, j \in DOMAIN Vtx[b] : Vtx[b][i] = Vtx[b][j] => i = j
  /\ Vin \in [Tx -> SUBSET OutPoint]
  /\ Generated \subseteq Tx
  /\ Standard \subseteq Tx \ Generated
  /\ BadBlock \subseteq Block
  /\ Maturity \in Nat
  /\ NoStake \notin OutPoint
  /\ Stake \in [Block -> OutPoint \cup {NoStake}]
  /\ \A b \in Block : Stake[b] # NoStake => Stake[b] \in SpentBy(TxsOf(b) \cap Generated)

\* A coinbase starts with the height of its block (the last rule of
\* AcceptBlock), so no transaction without inputs is in two blocks of a branch.
ASSUME CoinbaseAssumption ==
  \A b \in Block : \A a \in Chain[b] : \A t \in TxsOf(a) \cap TxsOf(b) :
    Vin[t] = {} => a = b

=============================================================================
