------------------------------ MODULE BestChain ------------------------------
(***************************************************************************)
(* What the block chain of a node promises to everybody who reads it: at   *)
(* any time it is one branch of the block tree on which every coin is made *)
(* before it is spent and spent at most once, and it moves, in one step,   *)
(* only to a branch with more trust.  ChainState implements this through   *)
(* its database transactions.                                              *)
(***************************************************************************)
EXTENDS ChainTypes

VARIABLES
  tip,         \* the last block of the chain
  confirmed,   \* the transactions of the chain
  spent        \* the outpoints they spend

bestChainVars == <<tip, confirmed, spent>>

\* The transactions of a branch.  Those of the genesis block do not count:
\* it is never connected.
TxsOfBranch(b) == UNION {TxsOf(a) : a \in Chain[b] \ {Genesis}}

\* The branch up to b is free of double spends: no transaction is in two of
\* its blocks, no outpoint is spent by two of its transactions, and every
\* outpoint spent was made on it.
Sound(b) ==
  /\ \A a, c \in Chain[b] \ {Genesis} : a # c => TxsOf(a) \cap TxsOf(c) = {}
  /\ \A t, u \in TxsOfBranch(b) : t # u => Vin[t] \cap Vin[u] = {}
  /\ SpentBy(TxsOfBranch(b)) \subseteq MadeBy(TxsOfBranch(b))

BestChainInit ==
  /\ tip = Genesis
  /\ confirmed = {}
  /\ spent = {}

SwitchTo(b) ==
  /\ ChainTrust[b] > ChainTrust[tip]
  /\ Sound(b)
  /\ tip' = b
  /\ confirmed' = TxsOfBranch(b)
  /\ spent' = SpentBy(TxsOfBranch(b))

BestChainNext == \E b \in Block : SwitchTo(b)

BestChainSpec == BestChainInit /\ [][BestChainNext]_bestChainVars

=============================================================================
