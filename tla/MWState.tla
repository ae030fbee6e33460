------------------------------- MODULE MWState -------------------------------
(***************************************************************************)
(* CMWState, the state of the extension blocks (g_mwState), and the way    *)
(* ConnectBlock and DisconnectBlock drive it while SetBestChain moves the  *)
(* chain.  The state lives in memory only and is no part of the database   *)
(* transactions: it is moved step by step, and nothing moves it back when  *)
(* a reorganization is given up.                                           *)
(***************************************************************************)
EXTENDS BlockTree, Sequences

CONSTANTS
  Ext,          \* extension blocks (by CMWBlock::GetHash)
  NoExt,        \* a block without one; also the null hash
  ExtOf,        \* CBlock::mwExtBlock, [Block -> Ext \cup {NoExt}]
  PrevMW,       \* CMWBlock::hashPrevMWBlock, [Ext -> Ext \cup {NoExt}]
  Commitment,   \* Pedersen commitments
  Out,          \* commitments of body.vOutputs, [Ext -> Seq(Commitment)]
  In,           \* commitments of body.vInputs, [Ext -> SUBSET Commitment]
  Kernels,      \* excesses of body.vKernels, [Ext -> Seq(Commitment)]
  PegIn,        \* GetTotalPegIn, [Ext -> Nat]; a peg-out is always refused,
                \* ConnectBlock counts none on the transparent side
  BadMW,        \* blocks that fail a rule of ValidateMWBlock that does not
                \* read the state (order, proofs, signatures, sums, pegs, locks)
  NoIndex,      \* a commitment without an entry in mapMMRIndex
  NoUndo,       \* a block without an entry in mapBlockUndo
  Window        \* MW_UNDO_WINDOW

ASSUME MWAssumption ==
  /\ NoExt \notin Ext
  /\ ExtOf \in [Block -> Ext \cup {NoExt}]
  /\ ExtOf[Genesis] = NoExt
  /\ PrevMW \in [Ext -> Ext \cup {NoExt}]
  /\ Out \in [Ext -> Seq(Commitment)]
  /\ In \in [Ext -> SUBSET Commitment]
  /\ Kernels \in [Ext -> Seq(Commitment)]
  /\ PegIn \in [Ext -> Nat]
  /\ BadMW \subseteq Block
  /\ NoIndex \notin Nat
  /\ Window \in Nat \ {0}
  /\ \A b \in Block : IsFiniteSet(Chain[b])

\* ValidateMWBlock refuses an extension block with two equal outputs.
ASSUME OutAssumption ==
  \A e \in Ext : \A i, j \in DOMAIN Out[e] : Out[e][i] = Out[e][j] => i = j

\* CMWBlockUndo; vSpentOutputs is NoExt where nothing is spent.
Undo == [vAddedOutputs    : SUBSET Commitment,
         vSpentOutputs    : [Commitment -> Ext \cup {NoExt}],
         nMMRLeavesBefore : Nat,
         nKernelsBefore   : Nat,
         nSupplyDelta     : Nat,
         hashPrevMWBlock  : Ext \cup {NoExt},
         nPrevHeight      : Nat]

ASSUME UndoAssumption == NoUndo \notin Undo

VARIABLES
  mwState,       \* g_mwState without its undo data: see State
  mapBlockUndo,  \* CMWBlockUndo of every block applied, or NoUndo
  dqUndoOrder,   \* the blocks with undo data, oldest first
  tip,           \* the tip of the chain (pindexBest, hashBestChain)
  target,        \* the block SetBestChain moves to; tip when it does nothing
  cursor,        \* the block up to which the new chain is connected
  synced         \* history: no move has been given up half way, no restart has
                 \* emptied the state, and no block was left that Reuses one of
                 \* the commitments of its branch

mwVars    == <<mwState, mapBlockUndo, dqUndoOrder>>
chainVars == <<tip, target, cursor>>
vars      == <<mwVars, chainVars, synced>>

-----------------------------------------------------------------------------
(* CMWState.  mapOutputs maps a commitment to the extension block that made *)
(* the output, which stands for the rest of its content; the leaves of the  *)
(* range are such outputs (MMR shows that the range is a log of leaves).    *)

State == [mapOutputs        : [Commitment -> Ext \cup {NoExt}],
          setSpent          : SUBSET Commitment,
          mmr               : Seq(Commitment \X Ext),
          mapMMRIndex       : [Commitment -> Nat \cup {NoIndex}],
          vKernelExcesses   : Seq(Commitment),
          nMWEBSupply       : Int,
          hashLatestMWBlock : Ext \cup {NoExt},
          nHeight           : Nat]

EmptyState ==
  [mapOutputs        |-> [c \in Commitment |-> NoExt],
   setSpent          |-> {},
   mmr               |-> << >>,
   mapMMRIndex       |-> [c \in Commitment |-> NoIndex],
   vKernelExcesses   |-> << >>,
   nMWEBSupply       |-> 0,
   hashLatestMWBlock |-> NoExt,
   nHeight           |-> 0]

\* The outputs of e that AddOutput takes, in their order: those whose
\* commitment is not in mapOutputs.
AddedOutputs(s, e) ==
  LET kept   == {i \in DOMAIN Out[e] : s.mapOutputs[Out[e][i]] = NoExt}
      nth(k) == CHOOSE i \in kept : Cardinality({j \in kept : j <= i}) = k
  IN  [k \in 1 .. Cardinality(kept) |-> Out[e][nth(k)]]

\* mapOutputs after the outputs of e are in and before its inputs are out.
WithOutputs(s, e) ==
  LET added == {AddedOutputs(s, e)[k] : k \in DOMAIN AddedOutputs(s, e)}
  IN  [c \in Commitment |-> IF c \in added THEN e ELSE s.mapOutputs[c]]

\* The inputs of e that SpendOutput takes; the others are passed over.
SpentOutputs(s, e) ==
  {c \in In[e] : WithOutputs(s, e)[c] # NoExt /\ c \notin s.setSpent}

\* The position in the block instead of the position in the range.
MutNewIndexBlock(s, added) ==
  [c \in Commitment |->
     IF \E k \in DOMAIN added : added[k] = c
     THEN (CHOOSE k \in DOMAIN added : added[k] = c) - 1
     ELSE s.mapMMRIndex[c]]

\* mapMMRIndex with the leaf index that Append returns for each added output.
NewIndex(s, added) ==
  [c \in Commitment |->
     IF \E k \in DOMAIN added : added[k] = c
     THEN Len(s.mmr) + (CHOOSE k \in DOMAIN added : added[k] = c) - 1
     ELSE s.mapMMRIndex[c]]

\* ApplyBlock.
Applied(s, b) ==
  LET e     == ExtOf[b]
      added == AddedOutputs(s, e)
  IN  [mapOutputs        |-> [c \in Commitment |-> IF c \in SpentOutputs(s, e) THEN NoExt
                                                   ELSE WithOutputs(s, e)[c]],
       setSpent          |-> s.setSpent \cup SpentOutputs(s, e),
       mmr               |-> s.mmr \o [k \in DOMAIN added |-> <<added[k], e>>],
       mapMMRIndex       |-> NewIndex(s, added),
       vKernelExcesses   |-> s.vKernelExcesses \o Kernels[e],
       nMWEBSupply       |-> s.nMWEBSupply + PegIn[e],
       hashLatestMWBlock |-> e,
       nHeight           |-> Height(b)]

\* What ApplyBlock saves of the state s before b.
UndoOf(s, b) ==
  LET e     == ExtOf[b]
      added == AddedOutputs(s, e)
  IN  [vAddedOutputs    |-> {added[k] : k \in DOMAIN added},
       vSpentOutputs    |-> [c \in Commitment |-> IF c \in SpentOutputs(s, e)
                                                  THEN WithOutputs(s, e)[c] ELSE NoExt],
       nMMRLeavesBefore |-> Len(s.mmr),
       nKernelsBefore   |-> Len(s.vKernelExcesses),
       nSupplyDelta     |-> PegIn[e],
       hashPrevMWBlock  |-> s.hashLatestMWBlock,
       nPrevHeight      |-> s.nHeight]

\* The index entries of the added outputs are kept.
MutUndoneIndex(s, u) ==
  [mapOutputs        |-> [c \in Commitment |->
                            IF c \in u.vAddedOutputs THEN NoExt
                            ELSE IF u.vSpentOutputs[c] # NoExt THEN u.vSpentOutputs[c]
                            ELSE s.mapOutputs[c]],
   setSpent          |-> {c \in s.setSpent : u.vSpentOutputs[c] = NoExt},
   mmr               |-> SubSeq(s.mmr, 1, u.nMMRLeavesBefore),
   mapMMRIndex       |-> s.mapMMRIndex,
   vKernelExcesses   |-> SubSeq(s.vKernelExcesses, 1, u.nKernelsBefore),
   nMWEBSupply       |-> s.nMWEBSupply - u.nSupplyDelta,
   hashLatestMWBlock |-> u.hashPrevMWBlock,
   nHeight           |-> u.nPrevHeight]

\* DisconnectBlock: the spent outputs come back, then the added ones go.
Undone(s, u) ==
  [mapOutputs        |-> [c \in Commitment |->
                            IF c \in u.vAddedOutputs THEN NoExt
                            ELSE IF u.vSpentOutputs[c] # NoExt THEN u.vSpentOutputs[c]
                            ELSE s.mapOutputs[c]],
   setSpent          |-> {c \in s.setSpent : u.vSpentOutputs[c] = NoExt},
   mmr               |-> SubSeq(s.mmr, 1, u.nMMRLeavesBefore),
   mapMMRIndex       |-> [c \in Commitment |-> IF c \in u.vAddedOutputs THEN NoIndex
                                               ELSE s.mapMMRIndex[c]],
   vKernelExcesses   |-> SubSeq(s.vKernelExcesses, 1, u.nKernelsBefore),
   nMWEBSupply       |-> s.nMWEBSupply - u.nSupplyDelta,
   hashLatestMWBlock |-> u.hashPrevMWBlock,
   nHeight           |-> u.nPrevHeight]

-----------------------------------------------------------------------------
(* What the state should be                                                 *)

\* The last block on the branch of b with an extension block, Genesis if there
\* is none.
LastExt[b \in Block] ==
  IF b = Genesis \/ ExtOf[b] # NoExt THEN b ELSE LastExt[Prev[b]]

\* The state of a node that has only ever connected the branch of b.
RefState[b \in Block] ==
  LET a == LastExt[b]
  IN  IF a = Genesis THEN EmptyState ELSE Applied(RefState[Prev[a]], a)

\* A branch ends in Genesis, so that both definitions unfold.
ASSUME BranchAssumption ==
  /\ LastExt \in [Block -> Block]
  /\ \A b \in Block :
       /\ LastExt[b] = IF b = Genesis \/ ExtOf[b] # NoExt THEN b ELSE LastExt[Prev[b]]
       /\ LastExt[b] \in Chain[b]
       /\ \A a \in Chain[b] : ExtOf[a] # NoExt => a \in Chain[LastExt[b]]
       /\ RefState[b] = IF LastExt[b] = Genesis THEN EmptyState
                        ELSE Applied(RefState[Prev[LastExt[b]]], LastExt[b])

\* The block b adds an output whose commitment has an index entry already: it was
\* made on the branch before and spent.  No rule of the code forbids that, and
\* DisconnectBlock erases the entry where it should bring back the old one.
Reuses(b) ==
  /\ ExtOf[b] # NoExt
  /\ \E k \in DOMAIN AddedOutputs(RefState[Prev[b]], ExtOf[b]) :
       RefState[Prev[b]].mapMMRIndex[AddedOutputs(RefState[Prev[b]], ExtOf[b])[k]] # NoIndex

-----------------------------------------------------------------------------
(* ConnectBlock and DisconnectBlock, from activation on                     *)

ValidateMWBlock(b) ==
  LET e == ExtOf[b]
  IN  /\ PrevMW[e] = mwState.hashLatestMWBlock
      /\ b \notin BadMW
      /\ \A c \in In[e] : mwState.mapOutputs[c] # NoExt

\* The undo data of b go in, those of the oldest block out when there are more
\* than Window of them.
RecordUndo(b) ==
  LET order == Append(dqUndoOrder, b)
      old   == IF Len(order) > Window THEN {Head(order)} ELSE {}
  IN  /\ dqUndoOrder' = IF old = {} THEN order ELSE Tail(order)
      /\ mapBlockUndo' = [a \in Block |-> IF a = b THEN UndoOf(mwState, b)
                                          ELSE IF a \in old THEN NoUndo ELSE mapBlockUndo[a]]

ApplyBlock(b) ==
  /\ mapBlockUndo[b] = NoUndo
  /\ mwState' = Applied(mwState, b)
  /\ RecordUndo(b)

ConnectBlock(b) ==
  \/ ExtOf[b] # NoExt /\ ValidateMWBlock(b) /\ ApplyBlock(b)
  \/ ExtOf[b] = NoExt /\ UNCHANGED mwVars

\* The order without the first entry of b.
Erased(order, b) ==
  LET i == CHOOSE i \in DOMAIN order : order[i] = b /\ \A j \in 1 .. i - 1 : order[j] # b
  IN  IF \E j \in DOMAIN order : order[j] = b
      THEN [k \in 1 .. Len(order) - 1 |-> IF k < i THEN order[k] ELSE order[k + 1]]
      ELSE order

\* The undo data are used but not removed from the order.
MutDisconnectBlockOrder(b) ==
  IF mapBlockUndo[b] # NoUndo
  THEN /\ mwState' = Undone(mwState, mapBlockUndo[b])
       /\ mapBlockUndo' = [mapBlockUndo EXCEPT ![b] = NoUndo]
       /\ UNCHANGED dqUndoOrder
  ELSE ExtOf[b] = NoExt /\ UNCHANGED mwVars

\* Without undo data only a block without an extension block can be left.
DisconnectBlock(b) ==
  IF mapBlockUndo[b] # NoUndo
  THEN /\ mwState' = Undone(mwState, mapBlockUndo[b])
       /\ mapBlockUndo' = [mapBlockUndo EXCEPT ![b] = NoUndo]
       /\ dqUndoOrder' = Erased(dqUndoOrder, b)
  ELSE ExtOf[b] = NoExt /\ UNCHANGED mwVars

-----------------------------------------------------------------------------
(* SetBestChain and Reorganize                                              *)

Init ==
  /\ mwState = EmptyState
  /\ mapBlockUndo = [b \in Block |-> NoUndo]
  /\ dqUndoOrder = << >>
  /\ tip = Genesis
  /\ target = Genesis
  /\ cursor = Genesis
  /\ synced = TRUE

\* The first block of a branch with more trust than the tip.
SetBestChain(b) ==
  /\ target = tip
  /\ ChainTrust[b] > ChainTrust[tip]
  /\ ChainTrust[Prev[b]] <= ChainTrust[tip]
  /\ target' = b
  /\ UNCHANGED <<mwVars, tip, cursor, synced>>

DisconnectTip ==
  /\ cursor \notin Chain[target]
  /\ DisconnectBlock(cursor)
  /\ cursor' = Prev[cursor]
  /\ synced' = (synced /\ ~Reuses(cursor))
  /\ UNCHANGED <<tip, target>>

ConnectNext ==
  /\ cursor \in Chain[target] \ {target}
  /\ ConnectBlock(Toward(cursor, target))
  /\ cursor' = Toward(cursor, target)
  /\ UNCHANGED <<tip, target, synced>>

\* TxnCommit.
Commit ==
  /\ target # tip
  /\ cursor = target
  /\ tip' = target
  /\ UNCHANGED <<mwVars, target, cursor, synced>>

\* A block is refused, by the rules above or others, or the storage fails:
\* TxnAbort.  The chain stays where it was; mwState stays where it is.
Abort ==
  /\ target # tip
  /\ target' = tip
  /\ cursor' = tip
  /\ synced' = (synced /\ LastExt[cursor] = LastExt[tip])
  /\ UNCHANGED <<mwVars, tip>>

\* The chain is read from the database; the state is not saved anywhere.
Restart ==
  /\ mwState' = EmptyState
  /\ mapBlockUndo' = [b \in Block |-> NoUndo]
  /\ dqUndoOrder' = << >>
  /\ target' = tip
  /\ cursor' = tip
  /\ synced' = (LastExt[tip] = Genesis)
  /\ UNCHANGED tip

Next ==
  \/ \E b \in Block \ {Genesis} : SetBestChain(b)
  \/ DisconnectTip
  \/ ConnectNext
  \/ Commit
  \/ Abort
  \/ Restart

Spec == Init /\ [][Next]_vars

-----------------------------------------------------------------------------
(* Properties                                                               *)

HasUndo(b) == mapBlockUndo[b] # NoUndo

\* Types of the variables.
TypeOK ==
  /\ mwState \in State
  /\ mapBlockUndo \in [Block -> Undo \cup {NoUndo}]
  /\ dqUndoOrder \in Seq(Block)
  /\ tip \in Block /\ target \in Block /\ cursor \in Block
  /\ synced \in BOOLEAN

\* The state depends on the branch and not on the way to it: reorganizations
\* there and back leave it as if the branch had been connected at once.
PathIndependent == synced => mwState = RefState[cursor]

\* Every unspent output has an entry that points at its leaf, so that a proof
\* can be made for it.
ProofIndexExact ==
  synced =>
    \A c \in Commitment :
      LET i == mwState.mapMMRIndex[c]
      IN  mwState.mapOutputs[c] # NoExt =>
            /\ i # NoIndex /\ i < Len(mwState.mmr)
            /\ mwState.mmr[i + 1] = <<c, mwState.mapOutputs[c]>>

\* mapBlockUndo and dqUndoOrder hold the same blocks, at most Window.
UndoBounded ==
  /\ Len(dqUndoOrder) <= Window
  /\ {dqUndoOrder[i] : i \in DOMAIN dqUndoOrder} = {b \in Block : HasUndo(b)}

\* The blocks with undo data are the last ones of the chain that carry an
\* extension block, in their order, so that a reorganization unwinds them one
\* by one until the data run out.
UndoIsSuffix ==
  synced =>
    /\ \A b \in Block : HasUndo(b) => b \in Chain[cursor]
    /\ \A b \in Block : HasUndo(b) =>
         \A a \in Chain[cursor] \ Chain[b] : ExtOf[a] # NoExt => HasUndo(a)
    /\ \A i, j \in DOMAIN dqUndoOrder : i < j =>
         dqUndoOrder[i] \in Chain[dqUndoOrder[j]]

\* DisconnectBlock never reports "state inconsistent": the leaves and kernels
\* it goes back to are there.
UndoFits ==
  HasUndo(cursor) =>
    /\ mapBlockUndo[cursor].nMMRLeavesBefore <= Len(mwState.mmr)
    /\ mapBlockUndo[cursor].nKernelsBefore <= Len(mwState.vKernelExcesses)

\* A reorganization can always use the undo data that are left.
UndoUsable == UndoBounded /\ UndoIsSuffix /\ UndoFits

=============================================================================
