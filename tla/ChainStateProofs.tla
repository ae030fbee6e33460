-------------------------- MODULE ChainStateProofs --------------------------
(***************************************************************************)
(* Proofs about ChainState, for every block tree, every set of             *)
(* transactions and every bound on crashes and storage faults.             *)
(*                                                                         *)
(* In this order, each part resting on the invariants of the ones before:  *)
(*   - types and the progress of SetBestChain          IInv                *)
(*   - the tip in memory and on disk                   TipInv              *)
(*   - the marks of the mempool                        PoolMarksExact      *)
(*   - the transaction index on disk                   LedgerInv           *)
(*   - the refinement of BestChain                                         *)
(*   - the links of the main chain                     LinkInv             *)
(*   - the best valid branch                           IndexInv, BestInv   *)
(*   - the orphan blocks                               OrphanInv           *)
(*   - the mempool over a reorganization               PoolApart           *)
(***************************************************************************)
EXTENDS ChainState, TLAPS, WellFoundedInduction

-----------------------------------------------------------------------------
(* The inductive invariant                                                  *)

\* What SetBestChain knows at each of its steps.
JobInv ==
  /\ pc \in {"extend", "postpone", "reorganize", "secondary"} => pindexNew # Genesis
  /\ pc = "extend" =>
       Prev[pindexNew] = pindexBest /\ ChainTrust[pindexNew] > ChainTrust[pindexBest]
  /\ pc \in {"postpone", "reorganize"} =>
       /\ pindexIntermediate \in Chain[pindexNew]
       /\ ChainTrust[pindexIntermediate] > ChainTrust[pindexBest]
  /\ pc = "postpone" => cursor = pindexBest
  /\ pc = "secondary" => cursor \in Chain[pindexNew] /\ cursor = db.best
  /\ pc = "orphans" => work # << >>

IInv == TypeOK /\ JobInv

-----------------------------------------------------------------------------
(* Facts about the operators                                                *)

\* The parent of a block is a block.
LEMMA PrevType == ASSUME NEW b \in Block, b # Genesis PROVE Prev[b] \in Block
  BY BlockAssumption

\* The kernel of a block, if it has one, is an outpoint.
LEMMA StakeOfType == ASSUME NEW b \in Block PROVE StakeOf(b) \subseteq OutPoint
  BY TxAssumption DEF StakeOf

\* The step from an ancestor towards a block is a block of the same branch.
LEMMA TowardType ==
  ASSUME NEW b \in Block, NEW a \in Chain[b], a # b
  PROVE  /\ Toward(a, b) \in Block \ {Genesis}
         /\ Toward(a, b) \in Chain[b]
         /\ Prev[Toward(a, b)] = a
  BY ChainAssumption

\* The transactions of a block are transactions.
LEMMA TxsOfType == ASSUME NEW b \in Block PROVE TxsOf(b) \subseteq Tx
  BY TxAssumption DEF TxsOf

\* ConnectBlock turns a transaction index into a transaction index.
LEMMA ConnectBlockType ==
  ASSUME NEW b \in Block, NEW x \in Ledger, NEW nx \in [Block -> Block \cup {NoBlock}]
  PROVE  ConnectBlock(b, x, nx) \in Ledger
<1>1. [c \in OutPoint |->
                IF c \in SpentBy(TxsOf(b))
                THEN CHOOSE t \in TxsOf(b) : c \in Vin[t]
                ELSE IF c \in MadeBy(TxsOf(b)) THEN NoTx ELSE x.spent[c]]
         \in [OutPoint -> Tx \cup {NoTx}]
  <2>1. ASSUME NEW c \in OutPoint, c \in SpentBy(TxsOf(b))
        PROVE  (CHOOSE t \in TxsOf(b) : c \in Vin[t]) \in Tx
    BY <2>1, TxsOfType DEF SpentBy
  <2> QED BY <2>1 DEF Ledger
<1> QED BY <1>1, TxsOfType DEF ConnectBlock, Ledger

\* DisconnectBlock turns a transaction index into a transaction index.
LEMMA DisconnectBlockType ==
  ASSUME NEW b \in Block, NEW x \in Ledger
  PROVE  DisconnectBlock(b, x) \in Ledger
  BY TxsOfType DEF DisconnectBlock, Ledger

\* mapNextTx keeps its type when transactions are removed.
LEMMA UnmarkedType ==
  ASSUME NEW nx \in [OutPoint -> Tx \cup {NoTx}], NEW T
  PROVE  Unmarked(nx, T) \in [OutPoint -> Tx \cup {NoTx}]
  BY DEF Unmarked

\* mapNextTx keeps its type when a transaction is added.
LEMMA MarkedType ==
  ASSUME NEW T \in SUBSET Tx, mapNextTx \in [OutPoint -> Tx \cup {NoTx}]
  PROVE  Marked(T) \in [OutPoint -> Tx \cup {NoTx}]
<1>1. ASSUME NEW c \in OutPoint, c \in SpentBy(T)
      PROVE  (CHOOSE t \in T : c \in Vin[t]) \in Tx
  BY <1>1 DEF SpentBy
<1> QED BY <1>1 DEF Marked

-----------------------------------------------------------------------------
(* Type correctness, together with what it needs to know of the job         *)

\* IInv holds for a fresh node.
LEMMA InitIInv == Init => IInv
  BY BlockAssumption, BoundAssumption, ChainAssumption
     DEF Init, IInv, TypeOK, JobInv, EmptyLedger, Ledger, Pc

\* AcceptBlock starts the job.
LEMMA AcceptBlockIInv ==
  ASSUME IInv, NEW b \in Block \ {Genesis}, Prev[b] \in Block, AcceptBlock(b)
  PROVE  IInv'
<1> USE DEF IInv, AcceptBlock, chainVars, poolVars, bounds
<1>1. TypeOK'
  BY StakeOfType, BlockAssumption DEF TypeOK, Pc
<1>2. ChainTrust[b] \in Nat /\ ChainTrust[pindexBest] \in Nat
  BY TrustAssumption DEF TypeOK
<1>3. pc' \in {"extend", "postpone"} => ChainTrust[b] > ChainTrust[pindexBest]
  BY <1>2
<1>4. pc' = "extend" => Prev[b] = pindexBest
  OBVIOUS
<1>5. pc' \in {"accepted", "extend", "postpone"}
  OBVIOUS
<1>6. b \in Chain[b]
  BY ChainAssumption
<1>7. JobInv'
  BY <1>3, <1>4, <1>5, <1>6 DEF JobInv
<1> QED BY <1>1, <1>7

\* CTxMemPool::remove keeps the types of the pool.
LEMMA RemoveType ==
  ASSUME TypeOK, NEW T, Remove(T)
  PROVE  mapTx' \subseteq Tx /\ mapNextTx' \in [OutPoint -> Tx \cup {NoTx}]
  BY UnmarkedType DEF TypeOK, Remove

\* SetBestChainInner changes the ledger, a link and the pool.
LEMMA InnerType ==
  ASSUME TypeOK, NEW b \in Block \ {Genesis}, SetBestChainInner(b)
  PROVE  /\ mapTx' \subseteq Tx /\ mapNextTx' \in [OutPoint -> Tx \cup {NoTx}]
         /\ db' \in Ledger /\ db'.best = b
         /\ txn' \in Ledger
         /\ pnext' \in [Block -> Block \cup {NoBlock}]
         /\ torn' \in {"no", "memory", "disk"}
<1>1. db' = ConnectBlock(b, db, pnext) /\ txn' = db' /\ Remove(TxsOf(b))
  BY DEF SetBestChainInner
<1>2. db' \in Ledger /\ db'.best = b
  BY <1>1, ConnectBlockType DEF TypeOK, ConnectBlock
<1>3. pnext' \in [Block -> Block \cup {NoBlock}]
  BY DEF SetBestChainInner, TypeOK
<1>4. torn' \in {"no", "memory", "disk"}
  BY DEF SetBestChainInner, TypeOK, Committed
<1> QED BY <1>1, <1>2, <1>3, <1>4, RemoveType

\* Every step of the node keeps IInv.
LEMMA StepIInv == IInv /\ [Next]_vars => IInv'
<1> SUFFICES ASSUME IInv, [Next]_vars PROVE IInv'
  OBVIOUS
<1> USE DEF IInv
<1>1. ASSUME NEW b \in Block \ {Genesis}, ProcessBlock(b) PROVE IInv'
  <2>1. CASE Prev[b] \notin mapBlockIndex /\ KeepOrphan(b)
    BY <2>1, StakeOfType DEF KeepOrphan, TypeOK, JobInv, chainVars, jobVars, poolVars, bounds
  <2>2. CASE AcceptBlock(b)
    BY <2>2, AcceptBlockIInv, PrevType
  <2> QED BY <1>1, <2>1, <2>2 DEF ProcessBlock
<1>2. ASSUME NEW t \in Tx, AcceptToMemoryPool(t) PROVE IInv'
  BY <1>2, MarkedType DEF AcceptToMemoryPool, AddUnchecked, TypeOK, JobInv,
                          indexVars, chainVars, jobVars, bounds
<1>3. CASE Extend
  <2>1. pindexNew \in Block \ {Genesis}
    BY <1>3 DEF Extend, TypeOK, JobInv
  <2> QED BY <1>3, <2>1, InnerType DEF Extend, SetBestChainInner, TypeOK, JobInv, Pc, indexVars, bounds
<1>4. CASE ExtendFails
  BY <1>4 DEF ExtendFails, Abort, TypeOK, JobInv, Pc, indexVars, jobVars, poolVars, bounds
<1>5. CASE Postpone
  <2>1. pindexIntermediate \in Block \ {Genesis}
    <3>1. ChainTrust[Genesis] <= ChainTrust[pindexBest]
      BY TrustAssumption, ChainAssumption DEF TypeOK
    <3>2. ChainTrust[pindexIntermediate] > ChainTrust[pindexBest]
      BY <1>5 DEF Postpone, JobInv
    <3> QED BY <3>1, <3>2, TrustAssumption, BlockAssumption DEF TypeOK
  <2>2. Prev[pindexIntermediate] \in Chain[pindexIntermediate]
    BY <2>1, PrevType, ChainAssumption
  <2>3. Prev[pindexIntermediate] \in Chain[pindexNew]
    BY <1>5, <2>1, <2>2, ChainAssumption DEF Postpone, JobInv, TypeOK
  <2> QED BY <1>5, <2>1, <2>3, PrevType DEF Postpone, TypeOK, JobInv, indexVars, chainVars, poolVars, bounds
<1>6. CASE BeginReorganize
  BY <1>6 DEF BeginReorganize, TypeOK, JobInv, Pc, indexVars, chainVars, jobVars, poolVars, bounds
<1>7. CASE ReorganizeDisconnect
  <2>1. cursor \in Block \ {Genesis}
    BY <1>7, ChainAssumption DEF ReorganizeDisconnect, TypeOK
  <2> QED BY <1>7, <2>1, PrevType, DisconnectBlockType
          DEF ReorganizeDisconnect, TypeOK, JobInv, poolVars, bounds
<1>8. CASE ReorganizeConnect
  <2> DEFINE b == Toward(cursor, pindexIntermediate)
  <2>1. b \in Block
    BY <1>8, TowardType DEF ReorganizeConnect, TypeOK
  <2>2. CASE Abort /\ UNCHANGED bounds
    BY <2>2, <1>8 DEF Abort, TypeOK, JobInv, Pc, indexVars, jobVars, poolVars, bounds
  <2>3. CASE ~Abort
    <3>1. /\ txn' = ConnectBlock(b, txn, pnext) /\ cursor' = b
          /\ UNCHANGED <<indexVars, pindexBest, pnext, db, pindexNew,
                           pindexIntermediate, work, pc, poolVars, torn, bounds>>
          /\ pc = "reorganize"
      BY <1>8, <2>3 DEF ReorganizeConnect
    <3> HIDE DEF b
    <3> QED BY <3>1, <2>1, ConnectBlockType DEF TypeOK, JobInv, indexVars, poolVars, bounds
  <2> QED BY <1>8, <2>2, <2>3 DEF ReorganizeConnect
<1>9. CASE ReorganizeCommit
  <2>1. PICK R \in SUBSET Candidates : ReorganizePool(R)
    BY <1>9 DEF ReorganizeCommit
  <2>2. mapTx' \subseteq Tx /\ mapNextTx' \in [OutPoint -> Tx \cup {NoTx}]
    <3>1. R \in SUBSET Tx
      BY TxAssumption DEF Candidates
    <3> QED BY <2>1, <3>1, MarkedType, UnmarkedType DEF ReorganizePool, TypeOK
  <2>3. pnext' \in [Block -> Block \cup {NoBlock}]
    <3>1. ASSUME NEW a \in Block, NEW b \in Connected, Prev[b] = a
          PROVE  Toward(a, pindexIntermediate) \in Block
      <4>1. b \in Chain[pindexIntermediate] /\ b # Genesis
        BY <3>1, ChainAssumption DEF Connected, TypeOK
      <4>2. a \in Chain[pindexIntermediate]
        BY <3>1, <4>1, ChainAssumption DEF TypeOK
      <4>3. a # pindexIntermediate
        <5> SUFFICES ASSUME a = pindexIntermediate PROVE FALSE
          OBVIOUS
        <5> QED BY <3>1, <4>1, ChainAssumption DEF TypeOK
      <4> QED BY <4>2, <4>3, TowardType DEF TypeOK
    <3> QED BY <1>9, <3>1 DEF ReorganizeCommit, Relinked, TypeOK
  <2>4. db' \in Ledger /\ db'.best = pindexIntermediate /\ txn' = db'
    BY <1>9 DEF ReorganizeCommit, TypeOK, Ledger
  <2>5. torn' \in {"no", "memory", "disk"}
    BY <1>9 DEF ReorganizeCommit, Committed, TypeOK
  <2> QED BY <1>9, <2>2, <2>3, <2>4, <2>5
          DEF ReorganizeCommit, TypeOK, JobInv, Pc, indexVars, jobVars, bounds
<1>10. CASE ConnectSecondary
  <2> DEFINE b == Toward(cursor, pindexNew)
  <2>1. b \in Block \ {Genesis} /\ b \in Chain[pindexNew]
    BY <1>10, TowardType DEF ConnectSecondary, TypeOK, JobInv
  <2>2. SetBestChainInner(b) /\ UNCHANGED <<pindexBest, pc>> /\ pc = "secondary"
    BY <1>10 DEF ConnectSecondary
  <2> HIDE DEF b
  <2> QED BY <2>1, <2>2, InnerType DEF SetBestChainInner, TypeOK, JobInv, indexVars, bounds
<1>11. CASE SecondaryFails
  BY <1>11 DEF SecondaryFails, BreakSecondary, TypeOK, JobInv, Pc, indexVars, jobVars, poolVars, bounds
<1>12. CASE SecondaryDone
  BY <1>12 DEF SecondaryDone, TypeOK, JobInv, Pc, indexVars, jobVars, poolVars, bounds
<1>13. CASE AcceptBlockReturns
  <2>1. work' \in Seq(Block)
    BY <1>13 DEF AcceptBlockReturns, TypeOK
  <2> QED BY <1>13, <2>1, BlockAssumption
          DEF AcceptBlockReturns, ForgetOrphan, TypeOK, JobInv, Pc, chainVars, poolVars, bounds
<1>14. ASSUME NEW o \in Block, ProcessOrphan(o) PROVE IInv'
  <2>1. o \in Block \ {Genesis} /\ Prev[o] \in Block
    BY <1>14, PrevType DEF ProcessOrphan, TypeOK
  <2>2. CASE AcceptBlock(o)
    BY <2>1, <2>2, AcceptBlockIInv
  <2>3. CASE ~AcceptBlock(o)
    BY <1>14, <2>3 DEF ProcessOrphan, ForgetOrphan, TypeOK, JobInv, chainVars, jobVars, poolVars, bounds
  <2> QED BY <2>2, <2>3
<1>15. CASE NextInQueue
  <2>1. work' \in Seq(Block)
    BY <1>15 DEF NextInQueue, TypeOK, JobInv
  <2> QED BY <1>15, <2>1 DEF NextInQueue, TypeOK, JobInv, Pc, indexVars, chainVars, jobVars, poolVars, bounds
<1>16. CASE StorageFault
  <2>1. faults' \in 0 .. MaxFaults /\ crashes' = crashes
    BY <1>16, BoundAssumption DEF StorageFault, TypeOK
  <2>2. CASE Abort
    BY <2>1, <2>2 DEF Abort, TypeOK, JobInv, Pc, indexVars, jobVars, poolVars
  <2>3. CASE BreakSecondary
    BY <2>1, <2>3 DEF BreakSecondary, TypeOK, JobInv, Pc, indexVars, jobVars, poolVars
  <2> QED BY <1>16, <2>2, <2>3 DEF StorageFault
<1>17. CASE CrashAndRestart
  <2>1. setStakeSeen' \subseteq OutPoint
    BY <1>17, StakeOfType, ChainAssumption DEF CrashAndRestart, TypeOK, Ledger
  <2>2. crashes' \in 0 .. MaxCrashes
    BY <1>17, BoundAssumption DEF CrashAndRestart, TypeOK
  <2> QED BY <1>17, <2>1, <2>2, BlockAssumption DEF CrashAndRestart, TypeOK, JobInv, Pc, Ledger
<1>18. CASE UNCHANGED vars
  BY <1>18 DEF TypeOK, JobInv, vars, indexVars, chainVars, jobVars, poolVars, bounds
<1> QED
  BY <1>1, <1>2, <1>3, <1>4, <1>5, <1>6, <1>7, <1>8, <1>9, <1>10, <1>11, <1>12, <1>13, <1>14,
     <1>15, <1>16, <1>17, <1>18 DEF Next, Step

\* Every variable keeps its type through every interleaving of blocks,
\* transactions, storage faults and crashes.
THEOREM TypeCorrect == Spec => []TypeOK
<1>1. Spec => []IInv
  BY InitIInv, StepIInv, PTL DEF Spec
<1> QED BY <1>1, PTL DEF IInv

-----------------------------------------------------------------------------
(* The tip in memory and the tip on disk                                    *)

\* While postponed blocks are being connected the disk is ahead of memory
\* (JobInv says where it is); otherwise it is never ahead, and the two agree
\* unless the connection of postponed blocks has been cut short.
TipInv ==
  pc # "secondary" =>
    /\ ChainTrust[db.best] <= ChainTrust[pindexBest]
    /\ torn = "no" => pindexBest = db.best

\* TipInv holds for a fresh node.
LEMMA InitTipInv == Init => TipInv
  BY BlockAssumption, TrustAssumption DEF Init, TipInv, EmptyLedger

\* The actions that leave both tips alone.
LEMMA SameTips ==
  ASSUME TipInv, pc # "secondary", UNCHANGED <<pindexBest, db, torn>>
  PROVE  TipInv'
  BY DEF TipInv

\* Every step of the node keeps TipInv.
LEMMA StepTipInv == IInv /\ TipInv /\ [Next]_vars => TipInv'
<1> SUFFICES ASSUME IInv, TipInv, [Next]_vars PROVE TipInv'
  OBVIOUS
<1> USE DEF IInv
<1>1. ASSUME NEW b \in Block \ {Genesis}, ProcessBlock(b) PROVE TipInv'
  BY <1>1, SameTips DEF ProcessBlock, KeepOrphan, AcceptBlock, chainVars
<1>2. ASSUME NEW t \in Tx, AcceptToMemoryPool(t) PROVE TipInv'
  BY <1>2, SameTips DEF AcceptToMemoryPool, chainVars
<1>3. CASE Extend
  <2>1. pindexNew \in Block \ {Genesis}
    BY <1>3 DEF Extend, TypeOK, JobInv
  <2>2. db'.best = pindexNew /\ pindexBest' = pindexNew
    BY <1>3, <2>1, InnerType DEF Extend
  <2> QED BY <2>1, <2>2, TrustAssumption DEF TipInv
<1>4. CASE ExtendFails
  BY <1>4, SameTips DEF ExtendFails, Abort
<1>5. CASE Postpone
  BY <1>5, SameTips DEF Postpone, chainVars
<1>6. CASE BeginReorganize
  BY <1>6, SameTips DEF BeginReorganize, chainVars
<1>7. CASE ReorganizeDisconnect
  BY <1>7, SameTips DEF ReorganizeDisconnect
<1>8. CASE ReorganizeConnect
  BY <1>8, SameTips DEF ReorganizeConnect, Abort
<1>9. CASE ReorganizeCommit
  BY <1>9 DEF ReorganizeCommit, TipInv
<1>10. CASE ConnectSecondary
  BY <1>10 DEF ConnectSecondary, TipInv
<1>11. CASE pc = "secondary" /\ BreakSecondary
  <2>1. ChainTrust[db.best] <= ChainTrust[pindexNew]
    BY <1>11, TrustAssumption DEF JobInv, TypeOK
  <2>2. torn' # "no"
    BY <1>11 DEF BreakSecondary
  <2> QED BY <1>11, <2>1, <2>2 DEF BreakSecondary, TipInv
<1>12. CASE SecondaryDone
  <2>1. pindexBest' = db'.best
    BY <1>12 DEF SecondaryDone, JobInv
  <2> QED BY <1>12, <2>1, TrustAssumption DEF SecondaryDone, TipInv, TypeOK
<1>13. CASE AcceptBlockReturns
  BY <1>13, SameTips DEF AcceptBlockReturns, chainVars
<1>14. ASSUME NEW o \in Block, ProcessOrphan(o) PROVE TipInv'
  BY <1>14, SameTips DEF ProcessOrphan, AcceptBlock, chainVars
<1>15. CASE NextInQueue
  BY <1>15, SameTips DEF NextInQueue, chainVars
<1>16. CASE pc \in {"extend", "reorganize"} /\ Abort
  BY <1>16, SameTips DEF Abort
<1>17. CASE CrashAndRestart
  BY <1>17, TrustAssumption DEF CrashAndRestart, TipInv, TypeOK, Ledger
<1>18. CASE UNCHANGED vars
  BY <1>18 DEF TipInv, vars, chainVars
<1> QED
  BY <1>1, <1>2, <1>3, <1>4, <1>5, <1>6, <1>7, <1>8, <1>9, <1>10, <1>11, <1>12, <1>13, <1>14,
     <1>15, <1>16, <1>17, <1>18 DEF Next, Step, SecondaryFails, StorageFault

\* IInv and TipInv hold in every behaviour.
LEMMA Tips == Spec => [](IInv /\ TipInv)
<1>1. Init => IInv /\ TipInv
  BY InitIInv, InitTipInv
<1>2. IInv /\ TipInv /\ [Next]_vars => (IInv /\ TipInv)'
  BY StepIInv, StepTipInv
<1> QED BY <1>1, <1>2, PTL DEF Spec

\* Once ProcessBlock has returned, the tip in memory is the tip a restart
\* would find, unless a connection of postponed blocks has been cut short.
THEOREM TipOnDisk == Spec => []MemoryMatchesDisk
<1>1. TipInv => MemoryMatchesDisk
  BY DEF TipInv, MemoryMatchesDisk
<1> QED BY <1>1, Tips, PTL

\* A step that changes the database moves its tip to more trust.
LEMMA StepTrustGrows ==
  ASSUME IInv, TipInv, [Next]_vars, db' # db
  PROVE  ChainTrust[db'.best] > ChainTrust[db.best]
<1> USE DEF IInv
<1>1. /\ ChainTrust[db.best] \in Nat /\ ChainTrust[pindexBest] \in Nat
      /\ ChainTrust[pindexNew] \in Nat /\ ChainTrust[pindexIntermediate] \in Nat
  BY TrustAssumption DEF TypeOK, Ledger
<1>2. CASE Extend
  <2>1. pindexNew \in Block \ {Genesis} /\ ChainTrust[pindexNew] > ChainTrust[pindexBest]
    BY <1>2 DEF Extend, TypeOK, JobInv
  <2>2. db'.best = pindexNew
    BY <1>2, <2>1, InnerType DEF Extend
  <2>3. ChainTrust[db.best] <= ChainTrust[pindexBest]
    BY <1>2 DEF TipInv, Extend
  <2> QED BY <1>1, <2>1, <2>2, <2>3
<1>3. CASE ReorganizeCommit
  <2>1. db'.best = pindexIntermediate
    BY <1>3 DEF ReorganizeCommit, TypeOK, Ledger
  <2>2. ChainTrust[pindexIntermediate] > ChainTrust[pindexBest]
    BY <1>3 DEF ReorganizeCommit, JobInv
  <2>3. ChainTrust[db.best] <= ChainTrust[pindexBest]
    BY <1>3 DEF TipInv, ReorganizeCommit
  <2> QED BY <1>1, <2>1, <2>2, <2>3
<1>4. CASE ConnectSecondary
  <2> DEFINE b == Toward(cursor, pindexNew)
  <2>1. b \in Block \ {Genesis} /\ Prev[b] = db.best
    BY <1>4, TowardType DEF ConnectSecondary, TypeOK, JobInv
  <2>2. SetBestChainInner(b)
    BY <1>4 DEF ConnectSecondary
  <2> HIDE DEF b
  <2>3. db'.best = b
    BY <2>1, <2>2, InnerType
  <2>4. ChainTrust[b] = ChainTrust[db.best] + Work[b] /\ Work[b] \in Nat \ {0}
    BY <2>1, TrustAssumption, BlockAssumption
  <2> QED BY <1>1, <2>3, <2>4
<1>5. CASE UNCHANGED db
  BY <1>5
<1> QED
  BY <1>2, <1>3, <1>4, <1>5
     DEF Next, Step, ProcessBlock, KeepOrphan, AcceptBlock, AcceptToMemoryPool, ExtendFails, Abort,
         Postpone, BeginReorganize, ReorganizeDisconnect, ReorganizeConnect, SecondaryFails,
         BreakSecondary, SecondaryDone, AcceptBlockReturns, ProcessOrphan, NextInQueue,
         StorageFault, CrashAndRestart, vars, chainVars

\* The committed tip never moves to a branch without more trust, whatever
\* fails or crashes in between: no sequence of blocks rolls a node back.
THEOREM TipTrustGrows == Spec => TrustGrows
<1>1. IInv /\ TipInv /\ [Next]_vars =>
        [db'.best # db.best => ChainTrust[db'.best] > ChainTrust[db.best]]_vars
  BY StepTrustGrows
<1> QED BY <1>1, Tips, PTL DEF Spec, TrustGrows

-----------------------------------------------------------------------------
(* The mempool                                                              *)

\* Removing transactions keeps mapNextTx the inverse of mapTx.
LEMMA UnmarkedExact ==
  ASSUME NEW pool \in SUBSET Tx, NEW nx \in [OutPoint -> Tx \cup {NoTx}], NEW T \in SUBSET pool,
         ExactMarks(nx, pool)
  PROVE  ExactMarks(Unmarked(nx, T), pool \ T)
<1> SUFFICES ASSUME NEW c \in OutPoint, NEW t \in Tx
             PROVE  Unmarked(nx, T)[c] = t <=> t \in pool \ T /\ c \in Vin[t]
  BY DEF ExactMarks
<1>1. CASE c \in SpentBy(T)
  <2>1. PICK u \in T : c \in Vin[u]
    BY <1>1 DEF SpentBy
  <2>2. nx[c] = u
    BY <2>1 DEF ExactMarks
  <2> QED BY <1>1, <2>1, <2>2, TxAssumption DEF Unmarked, ExactMarks
<1>2. CASE c \notin SpentBy(T)
  BY <1>2 DEF Unmarked, SpentBy, ExactMarks
<1> QED BY <1>1, <1>2

\* Adding transactions that spend free outpoints keeps mapNextTx the inverse of mapTx.
LEMMA MarkedExact ==
  ASSUME TypeOK, PoolMarksExact, NEW T \in SUBSET Tx, Disjoint(T),
         \A t \in T : \A c \in Vin[t] : mapNextTx[c] = NoTx
  PROVE  ExactMarks(Marked(T), mapTx \cup T)
<1> SUFFICES ASSUME NEW c \in OutPoint, NEW t \in Tx
             PROVE  Marked(T)[c] = t <=> t \in mapTx \cup T /\ c \in Vin[t]
  BY DEF ExactMarks
<1>1. mapNextTx[c] = t <=> t \in mapTx /\ c \in Vin[t]
  BY DEF PoolMarksExact, ExactMarks
<1>2. CASE c \in SpentBy(T)
  <2>1. PICK u \in T : u = Marked(T)[c] /\ c \in Vin[u]
    BY <1>2 DEF Marked, SpentBy
  <2>2. mapNextTx[c] = NoTx
    BY <2>1
  <2> QED BY <1>1, <2>1, <2>2, TxAssumption DEF Disjoint
<1>3. CASE c \notin SpentBy(T)
  BY <1>1, <1>3 DEF Marked, SpentBy
<1> QED BY <1>2, <1>3

\* The empty pool is consistent.
LEMMA InitPool == Init => PoolMarksExact
  BY TxAssumption DEF Init, PoolMarksExact, ExactMarks

\* CTxMemPool::remove keeps the pool consistent.
LEMMA RemovePool ==
  ASSUME TypeOK, PoolMarksExact, NEW T, Remove(T)
  PROVE  PoolMarksExact'
<1> DEFINE S == T \cap mapTx
<1>1. S \in SUBSET mapTx /\ mapTx \in SUBSET Tx /\ mapNextTx \in [OutPoint -> Tx \cup {NoTx}]
  BY DEF TypeOK
<1>2. mapTx' = mapTx \ S /\ mapNextTx' = Unmarked(mapNextTx, S)
  BY DEF Remove
<1> HIDE DEF S
<1>3. ExactMarks(Unmarked(mapNextTx, S), mapTx \ S)
  BY <1>1, UnmarkedExact DEF PoolMarksExact
<1> QED BY <1>2, <1>3 DEF PoolMarksExact, ExactMarks

\* Every step of the node keeps the pool consistent.
LEMMA StepPool == IInv /\ PoolMarksExact /\ [Next]_vars => PoolMarksExact'
<1> SUFFICES ASSUME IInv, PoolMarksExact, [Next]_vars PROVE PoolMarksExact'
  OBVIOUS
<1> USE DEF IInv
<1>1. ASSUME NEW t \in Tx, AcceptToMemoryPool(t) PROVE PoolMarksExact'
  <2>1. Disjoint({t}) /\ \A c \in Vin[t] : mapNextTx[c] = NoTx
    BY <1>1 DEF AcceptToMemoryPool, InputAvailable, Disjoint
  <2>2. ExactMarks(Marked({t}), mapTx \cup {t})
    BY <2>1, MarkedExact
  <2> QED BY <1>1, <2>2 DEF AcceptToMemoryPool, AddUnchecked, PoolMarksExact, ExactMarks
<1>2. ASSUME NEW b, SetBestChainInner(b) PROVE PoolMarksExact'
  BY <1>2, RemovePool DEF SetBestChainInner
<1>3. CASE ReorganizeCommit
  <2>1. PICK R \in SUBSET Candidates : Resurrected(R) /\ ReorganizePool(R)
    BY <1>3 DEF ReorganizeCommit
  <2> DEFINE pool == mapTx \cup R
             removed == CleanUp(pool, UNION {TxsOf(b) : b \in Connected})
  <2>2. R \in SUBSET Tx /\ Disjoint(R) /\ \A t \in R : \A c \in Vin[t] : mapNextTx[c] = NoTx
    BY <2>1, TxAssumption DEF Candidates, Resurrected
  <2>3. ExactMarks(Marked(R), pool)
    BY <2>2, MarkedExact
  <2>4. Marked(R) \in [OutPoint -> Tx \cup {NoTx}] /\ pool \in SUBSET Tx /\ removed \in SUBSET pool
    BY <2>2, MarkedType DEF TypeOK, CleanUp
  <2>5. mapTx' = pool \ removed /\ mapNextTx' = Unmarked(Marked(R), removed)
    BY <2>1 DEF ReorganizePool
  <2> HIDE DEF pool, removed
  <2>6. ExactMarks(Unmarked(Marked(R), removed), pool \ removed)
    BY <2>3, <2>4, UnmarkedExact
  <2> QED BY <2>5, <2>6 DEF PoolMarksExact, ExactMarks
<1>4. CASE CrashAndRestart
  BY <1>4, TxAssumption DEF CrashAndRestart, PoolMarksExact, ExactMarks
<1>5. CASE UNCHANGED poolVars
  BY <1>5 DEF poolVars, PoolMarksExact, ExactMarks
<1>6. ASSUME NEW b, ProcessBlock(b) \/ ProcessOrphan(b) PROVE UNCHANGED poolVars
  BY <1>6 DEF ProcessBlock, ProcessOrphan, KeepOrphan, AcceptBlock
<1>7. CASE ReorganizeConnect
  BY <1>7, <1>5 DEF ReorganizeConnect, Abort
<1> QED
  BY <1>1, <1>2, <1>3, <1>4, <1>5, <1>6, <1>7
     DEF Next, Step, Extend, ExtendFails, Abort, Postpone, BeginReorganize, ReorganizeDisconnect,
         ConnectSecondary, SecondaryFails, BreakSecondary, SecondaryDone, AcceptBlockReturns,
         NextInQueue, StorageFault, vars

\* mapNextTx stays the inverse of mapTx through admissions, removals and
\* reorganizations, so the pool never holds two spenders of one coin.
THEOREM PoolMarks == Spec => []PoolMarksExact
<1>1. IInv /\ PoolMarksExact /\ [Next]_vars => PoolMarksExact'
  BY StepPool
<1> QED BY <1>1, InitPool, Tips, PTL DEF Spec

-----------------------------------------------------------------------------
(* The transaction index on disk.  The invariant follows it through the     *)
(* open transaction of a reorganization, block by block down to the fork    *)
(* and up again, and has to know that no output on the branch is spent      *)
(* before it is made: DisconnectBlock erases the entries of its block's     *)
(* transactions, and would erase the marks of spenders below it otherwise.  *)

\* Every input on the branch of b was made on it, not above its spender.
Sourced(b) ==
  \A a \in Chain[b] \ {Genesis} : \A t \in TxsOf(a) : \A c \in Vin[t] : c[1] \in Confirmed(a)

Exact(x, b) == IsLedgerOf(x, b) /\ Sourced(b)

LedgerInv ==
  /\ torn # "disk" => Exact(db, db.best)
  /\ torn = "no" /\ pc = "reorganize" => Exact(txn, cursor)
  /\ pc # "reorganize" => txn = db
  /\ pc = "secondary" => torn # "memory"

-----------------------------------------------------------------------------
(* Facts about branches and transactions                                    *)

\* A set of natural numbers that is not empty has a least element.
LEMMA LeastNat ==
  ASSUME NEW T \in SUBSET Nat, T # {}
  PROVE  \E x \in T : \A y \in T : ~ (y < x)
<1> DEFINE R == OpToRel(<, Nat)
<1>1. \E x \in T : \A y \in T : ~ (<<y, x>> \in R)
  <2>1. IsWellFoundedOn(R, Nat)
    BY NatLessThanWellFounded
  <2> HIDE DEF R
  <2> QED BY <2>1, WFMin
<1>2. \A x, y \in Nat : y < x => <<y, x>> \in R
  BY DEF OpToRel
<1> HIDE DEF R
<1> QED BY <1>1, <1>2, Zenon

\* An outpoint is made by the transaction it names.
LEMMA OutPointFacts ==
  /\ \A c \in OutPoint : c[1] \in Tx
  /\ \A T \in SUBSET Tx, c \in OutPoint : c \in MadeBy(T) <=> c[1] \in T
  BY DEF OutPoint, MadeBy, Vout

\* The inputs of a transaction are outpoints.
LEMMA VinType == ASSUME NEW t \in Tx PROVE Vin[t] \subseteq OutPoint
  BY TxAssumption

\* The confirmed transactions of a branch are transactions.
LEMMA ConfirmedType == ASSUME NEW b \in Block PROVE Confirmed(b) \subseteq Tx
  BY TxsOfType, ChainAssumption DEF Confirmed

\* A branch confirms what its parent confirms and what its last block holds.
LEMMA ConfirmedStep ==
  ASSUME NEW b \in Block, b # Genesis
  PROVE  Confirmed(b) = Confirmed(Prev[b]) \cup TxsOf(b)
<1>1. Chain[b] \ {Genesis} = (Chain[Prev[b]] \ {Genesis}) \cup {b}
  BY ChainAssumption
<1> QED BY <1>1 DEF Confirmed

\* A branch confirms all that the branch of an ancestor confirms.
LEMMA ConfirmedMonotone ==
  ASSUME NEW b \in Block, NEW a \in Chain[b]
  PROVE  Confirmed(a) \subseteq Confirmed(b)
<1>1. Chain[a] \subseteq Chain[b]
  BY ChainAssumption
<1> QED BY <1>1 DEF Confirmed

\* A block that connects brings no transaction that its branch already has.
LEMMA NoRepeat ==
  ASSUME NEW b \in Block \ {Genesis}, NEW x \in Ledger, Exact(x, Prev[b]), ConnectBlockOK(b, x)
  PROVE  TxsOf(b) \cap Confirmed(Prev[b]) = {}
<1> DEFINE D == {i \in DOMAIN Vtx[b] : Vtx[b][i] \in Confirmed(Prev[b])}
<1> SUFFICES ASSUME D # {} PROVE FALSE
  BY DEF TxsOf
<1>1. DOMAIN Vtx[b] \subseteq Nat /\ \A i \in DOMAIN Vtx[b] : Vtx[b][i] \in Tx
  BY TxAssumption
<1>2. PICK i \in D : \A j \in D : ~ (j < i)
  <2> D \in SUBSET Nat
    BY <1>1
  <2> HIDE DEF D
  <2> QED BY LeastNat
<1> DEFINE t == Vtx[b][i]
           earlier == {Vtx[b][j] : j \in 1 .. i - 1}
<1>3. t \in Tx /\ t \in Confirmed(Prev[b]) /\ t \in TxsOf(b) /\ i \in DOMAIN Vtx[b]
  BY <1>1, <1>2 DEF TxsOf
<1>4. PICK a \in Chain[Prev[b]] \ {Genesis} : t \in TxsOf(a)
  BY <1>3 DEF Confirmed
<1>5. a \in Chain[b] /\ a # b /\ Prev[b] \in Block
  BY <1>4, ChainAssumption, PrevType
<1>6. PICK c \in Vin[t] : TRUE
  BY <1>3, <1>4, <1>5, CoinbaseAssumption
<1>7. c \in OutPoint /\ x.spent[c] = t
  BY <1>3, <1>6, VinType DEF Exact, IsLedgerOf
<1>8. InputOK(b, i, c, x)
  BY <1>3, <1>6 DEF ConnectBlockOK
<1>9. c[1] \in earlier
  BY <1>3, <1>7, <1>8, TxAssumption DEF InputOK
<1>10. c[1] \in Confirmed(Prev[b])
  BY <1>4, <1>5, <1>6, ConfirmedMonotone DEF Exact, Sourced
<1>11. PICK j \in 1 .. i - 1 : c[1] = Vtx[b][j]
  BY <1>9
<1>12. j \in DOMAIN Vtx[b]
  BY <1>3, <1>11, TxAssumption
<1> QED BY <1>1, <1>2, <1>3, <1>10, <1>11, <1>12

\* A block that connects spends no outpoint twice and none that is spent.
LEMMA SpendsOnce ==
  ASSUME NEW b \in Block \ {Genesis}, NEW x \in Ledger, Exact(x, Prev[b]), ConnectBlockOK(b, x),
         NEW t \in TxsOf(b), NEW c \in Vin[t], NEW u \in Confirmed(b), c \in Vin[u]
  PROVE  u = t
<1>1. PICK i \in DOMAIN Vtx[b] : t = Vtx[b][i]
  BY DEF TxsOf
<1>2. t \in Tx /\ u \in Tx /\ c \in OutPoint
  BY TxsOfType, ConfirmedType, VinType
<1>3. InputOK(b, i, c, x)
  BY <1>1 DEF ConnectBlockOK
<1>4. CASE u \in TxsOf(b)
  <2>1. PICK j \in DOMAIN Vtx[b] : u = Vtx[b][j]
    BY <1>4 DEF TxsOf
  <2>2. InputOK(b, j, c, x)
    BY <2>1 DEF ConnectBlockOK
  <2>3. i \in Nat /\ j \in Nat /\ i >= 1 /\ j >= 1
    BY <1>1, <2>1, TxAssumption
  <2>4. CASE j < i
    BY <1>3, <2>1, <2>3, <2>4 DEF InputOK, SpentBy
  <2>5. CASE i < j
    BY <1>1, <2>2, <2>3, <2>5 DEF InputOK, SpentBy
  <2> QED BY <1>1, <2>1, <2>3, <2>4, <2>5
<1>5. CASE u \in Confirmed(Prev[b])
  <2>1. x.spent[c] = u
    BY <1>2, <1>5 DEF Exact, IsLedgerOf
  <2>2. c[1] \in TxsOf(b)
    <3>1. c[1] \in {Vtx[b][j] : j \in 1 .. i - 1}
      BY <1>2, <1>3, <2>1, TxAssumption DEF InputOK
    <3> QED BY <1>1, <3>1, TxAssumption DEF TxsOf
  <2>3. c[1] \in Confirmed(Prev[b])
    <3>1. PICK a \in Chain[Prev[b]] \ {Genesis} : u \in TxsOf(a)
      BY <1>5 DEF Confirmed
    <3> QED BY <3>1, PrevType, ConfirmedMonotone DEF Exact, Sourced
  <2> QED BY <2>2, <2>3, NoRepeat
<1> QED BY <1>4, <1>5, ConfirmedStep

\* ConnectBlock keeps the transaction index exact for the longer branch.
LEMMA ConnectExact ==
  ASSUME NEW b \in Block \ {Genesis}, NEW x \in Ledger, NEW nx,
         Exact(x, Prev[b]), ConnectBlockOK(b, x)
  PROVE  Exact(ConnectBlock(b, x, nx), b)
<1> DEFINE y == ConnectBlock(b, x, nx)
           T == TxsOf(b)
<1>1. T \subseteq Tx /\ T \cap Confirmed(Prev[b]) = {} /\ Confirmed(b) = Confirmed(Prev[b]) \cup T
  BY TxsOfType, NoRepeat, ConfirmedStep
<1>2. Chain[b] = Chain[Prev[b]] \cup {b} /\ b \notin Chain[Prev[b]] /\ Prev[b] \in Block
  BY ChainAssumption, PrevType
<1>3. ASSUME NEW t \in Tx, NEW a \in Block
      PROVE  y.pos[t] = a <=> a \in Chain[b] \ {Genesis} /\ t \in TxsOf(a)
  <2>1. y.pos[t] = IF t \in T THEN b ELSE x.pos[t]
    BY DEF ConnectBlock
  <2>2. x.pos[t] = a <=> a \in Chain[Prev[b]] \ {Genesis} /\ t \in TxsOf(a)
    BY DEF Exact, IsLedgerOf
  <2>3. t \in T => ~ (a \in Chain[Prev[b]] \ {Genesis} /\ t \in TxsOf(a))
    BY <1>1 DEF Confirmed
  <2> QED BY <1>2, <2>1, <2>2, <2>3
<1>4. ASSUME NEW c \in OutPoint, NEW t \in Tx
      PROVE  y.spent[c] = t <=> t \in Confirmed(b) /\ c \in Vin[t]
  <2>1. y.spent[c] = IF c \in SpentBy(T) THEN CHOOSE u \in T : c \in Vin[u]
                     ELSE IF c \in MadeBy(T) THEN NoTx ELSE x.spent[c]
    BY DEF ConnectBlock
  <2>2. x.spent[c] = t <=> t \in Confirmed(Prev[b]) /\ c \in Vin[t]
    BY DEF Exact, IsLedgerOf
  <2>3. CASE c \in SpentBy(T)
    <3>1. PICK u \in T : u = y.spent[c] /\ c \in Vin[u]
      BY <2>1, <2>3 DEF SpentBy
    <3> QED BY <1>1, <3>1, SpendsOnce
  <2>4. CASE c \notin SpentBy(T) /\ c \in MadeBy(T)
    <3>1. c[1] \in T
      BY <1>1, <2>4, OutPointFacts
    <3>2. ~ (t \in Confirmed(b) /\ c \in Vin[t])
      <4> SUFFICES ASSUME t \in Confirmed(Prev[b]), c \in Vin[t] PROVE FALSE
        BY <1>1, <2>4 DEF SpentBy
      <4>1. PICK a \in Chain[Prev[b]] \ {Genesis} : t \in TxsOf(a)
        BY DEF Confirmed
      <4>2. c[1] \in Confirmed(Prev[b])
        BY <1>2, <4>1, ConfirmedMonotone DEF Exact, Sourced
      <4> QED BY <1>1, <3>1, <4>2
    <3> QED BY <2>1, <2>4, <3>2, TxAssumption
  <2>5. CASE c \notin SpentBy(T) /\ c \notin MadeBy(T)
    BY <1>1, <2>1, <2>2, <2>5 DEF SpentBy
  <2> QED BY <2>3, <2>4, <2>5
<1>5. Sourced(b)
  <2> SUFFICES ASSUME NEW t \in T, NEW c \in Vin[t] PROVE c[1] \in Confirmed(b)
    BY <1>2 DEF Sourced, Exact
  <2>1. PICK i \in DOMAIN Vtx[b] : t = Vtx[b][i]
    BY DEF TxsOf
  <2>2. InputOK(b, i, c, x)
    BY <2>1 DEF ConnectBlockOK
  <2>3. c[1] \in Tx
    BY <1>1, VinType, OutPointFacts
  <2>4. CASE c[1] \in {Vtx[b][j] : j \in 1 .. i - 1}
    BY <1>1, <2>1, <2>4, TxAssumption DEF TxsOf
  <2>5. CASE c[1] \notin {Vtx[b][j] : j \in 1 .. i - 1}
    <3>1. x.pos[c[1]] \in Block
      BY <2>2, <2>3, <2>5 DEF InputOK, Ledger
    <3> QED BY <1>1, <2>3, <3>1 DEF Exact, IsLedgerOf, Confirmed
  <2> QED BY <2>4, <2>5
<1> QED BY <1>3, <1>4, <1>5 DEF Exact, IsLedgerOf

\* DisconnectBlock keeps the transaction index exact for the shorter branch.
LEMMA DisconnectExact ==
  ASSUME NEW b \in Block \ {Genesis}, NEW x \in Ledger, Exact(x, b)
  PROVE  Exact(DisconnectBlock(b, x), Prev[b])
<1> DEFINE y == DisconnectBlock(b, x)
           T == TxsOf(b)
<1>1. T \subseteq Tx /\ Confirmed(b) = Confirmed(Prev[b]) \cup T
  BY TxsOfType, ConfirmedStep
<1>2. Chain[b] = Chain[Prev[b]] \cup {b} /\ b \notin Chain[Prev[b]] /\ Prev[b] \in Block
  BY ChainAssumption, PrevType
<1>3. T \cap Confirmed(Prev[b]) = {}
  <2> SUFFICES ASSUME NEW t \in T, NEW a \in Chain[Prev[b]] \ {Genesis}, t \in TxsOf(a) PROVE FALSE
    BY DEF Confirmed
  <2>1. a \in Block
    BY <1>2, ChainAssumption
  <2>2. x.pos[t] = b /\ x.pos[t] = a
    BY <1>1, <1>2, <2>1 DEF Exact, IsLedgerOf
  <2> QED BY <1>2, <2>2
<1>4. ASSUME NEW t \in Tx, NEW a \in Block
      PROVE  y.pos[t] = a <=> a \in Chain[Prev[b]] \ {Genesis} /\ t \in TxsOf(a)
  <2>1. y.pos[t] = IF t \in T THEN NoBlock ELSE x.pos[t]
    BY DEF DisconnectBlock
  <2>2. x.pos[t] = a <=> a \in Chain[b] \ {Genesis} /\ t \in TxsOf(a)
    BY DEF Exact, IsLedgerOf
  <2>3. t \in T => ~ (a \in Chain[Prev[b]] \ {Genesis} /\ t \in TxsOf(a))
    BY <1>3 DEF Confirmed
  <2> QED BY <1>2, <2>1, <2>2, <2>3, BlockAssumption
<1>5. ASSUME NEW c \in OutPoint, NEW t \in Tx
      PROVE  y.spent[c] = t <=> t \in Confirmed(Prev[b]) /\ c \in Vin[t]
  <2>1. y.spent[c] = IF c \in SpentBy(T) \cup MadeBy(T) THEN NoTx ELSE x.spent[c]
    BY DEF DisconnectBlock
  <2>2. x.spent[c] = t <=> t \in Confirmed(b) /\ c \in Vin[t]
    BY DEF Exact, IsLedgerOf
  <2>3. CASE c \in SpentBy(T)
    <3>1. PICK u \in T : c \in Vin[u]
      BY <2>3 DEF SpentBy
    <3>2. x.spent[c] = u
      BY <1>1, <3>1 DEF Exact, IsLedgerOf
    <3> QED BY <1>1, <1>3, <2>1, <2>2, <2>3, <3>1, <3>2, TxAssumption
  <2>4. CASE c \in MadeBy(T)
    <3>1. c[1] \in T
      BY <1>1, <2>4, OutPointFacts
    <3>2. ~ (t \in Confirmed(Prev[b]) /\ c \in Vin[t])
      <4> SUFFICES ASSUME t \in Confirmed(Prev[b]), c \in Vin[t] PROVE FALSE
        OBVIOUS
      <4>1. PICK a \in Chain[Prev[b]] \ {Genesis} : t \in TxsOf(a)
        BY DEF Confirmed
      <4>2. c[1] \in Confirmed(Prev[b])
        BY <1>2, <4>1, ConfirmedMonotone DEF Exact, Sourced
      <4> QED BY <1>3, <3>1, <4>2
    <3> QED BY <2>1, <2>4, <3>2, TxAssumption
  <2>5. CASE c \notin SpentBy(T) /\ c \notin MadeBy(T)
    BY <1>1, <2>1, <2>2, <2>5 DEF SpentBy
  <2> QED BY <2>3, <2>4, <2>5
<1>6. Sourced(Prev[b])
  BY <1>2 DEF Exact, Sourced
<1> QED BY <1>4, <1>5, <1>6 DEF Exact, IsLedgerOf

-----------------------------------------------------------------------------
(* The invariant                                                            *)

\* Exact reads the transaction index and not hashBestChain or hashNext.
LEMMA ExactOfSame ==
  ASSUME NEW x, NEW y, NEW b, x.pos = y.pos, x.spent = y.spent, Exact(x, b)
  PROVE  Exact(y, b)
  BY DEF Exact, IsLedgerOf

\* LedgerInv holds for a fresh node.
LEMMA InitLedgerInv == Init => LedgerInv
<1> SUFFICES ASSUME Init PROVE LedgerInv
  OBVIOUS
<1>1. db.best = Genesis /\ Chain[Genesis] \ {Genesis} = {} /\ Confirmed(Genesis) = {}
  BY ChainAssumption DEF Init, EmptyLedger, Confirmed
<1>2. /\ \A t \in Tx : db.pos[t] = NoBlock
      /\ \A c \in OutPoint : db.spent[c] = NoTx
  BY DEF Init, EmptyLedger
<1>3. IsLedgerOf(db, Genesis)
  BY <1>1, <1>2, BlockAssumption, TxAssumption DEF IsLedgerOf
<1>4. Sourced(Genesis)
  BY <1>1 DEF Sourced
<1> QED BY <1>1, <1>3, <1>4 DEF Init, LedgerInv, Exact

\* The actions that leave the database alone and open no reorganization.
LEMMA SameLedger ==
  ASSUME LedgerInv, UNCHANGED <<db, torn>>, txn' = db, pc' \notin {"reorganize", "secondary"}
  PROVE  LedgerInv'
  BY DEF LedgerInv

\* Every step of the node keeps LedgerInv.
LEMMA StepLedgerInv == IInv /\ TipInv /\ LedgerInv /\ [Next]_vars => LedgerInv'
<1> SUFFICES ASSUME IInv, TipInv, LedgerInv, [Next]_vars PROVE LedgerInv'
  OBVIOUS
<1> USE DEF IInv
<1>1. ASSUME NEW b \in Block \ {Genesis}, ProcessBlock(b) PROVE LedgerInv'
  BY <1>1, SameLedger DEF ProcessBlock, KeepOrphan, AcceptBlock, chainVars, LedgerInv
<1>2. ASSUME NEW t \in Tx, AcceptToMemoryPool(t) PROVE LedgerInv'
  BY <1>2, SameLedger DEF AcceptToMemoryPool, chainVars, LedgerInv
<1>3. CASE Extend
  <2>1. pindexNew \in Block \ {Genesis} /\ Prev[pindexNew] = pindexBest
    BY <1>3 DEF Extend, TypeOK, JobInv
  <2>2. /\ ConnectBlockOK(pindexNew, db) /\ db' = ConnectBlock(pindexNew, db, pnext)
        /\ txn' = db' /\ torn' \in {"no", "disk"} /\ (torn' = "no" => torn = "no")
    BY <1>3 DEF Extend, SetBestChainInner, Committed, TypeOK
  <2>3. db'.best = pindexNew
    BY <2>2 DEF ConnectBlock
  <2>4. torn = "no" => Exact(db, Prev[pindexNew])
    BY <1>3, <2>1 DEF LedgerInv, TipInv, Extend
  <2>5. torn' = "no" => Exact(db', pindexNew)
    BY <2>1, <2>2, <2>4, ConnectExact DEF TypeOK
  <2> QED BY <1>3, <2>2, <2>3, <2>5 DEF LedgerInv, Extend
<1>4. CASE ExtendFails
  BY <1>4, SameLedger DEF ExtendFails, Abort
<1>5. CASE Postpone
  BY <1>5, SameLedger DEF Postpone, chainVars, LedgerInv
<1>6. CASE BeginReorganize
  <2>1. torn = "no" => Exact(txn, cursor)
    BY <1>6 DEF BeginReorganize, LedgerInv, TipInv, JobInv
  <2> QED BY <1>6, <2>1 DEF BeginReorganize, LedgerInv, chainVars, jobVars
<1>7. CASE ReorganizeDisconnect
  <2>1. cursor \in Block \ {Genesis}
    BY <1>7, ChainAssumption DEF ReorganizeDisconnect, TypeOK
  <2>2. torn = "no" => Exact(txn', cursor')
    BY <1>7, <2>1, DisconnectExact DEF ReorganizeDisconnect, LedgerInv, TypeOK
  <2> QED BY <1>7, <2>2 DEF ReorganizeDisconnect, LedgerInv
<1>8. CASE ReorganizeConnect
  <2> DEFINE b == Toward(cursor, pindexIntermediate)
  <2>1. b \in Block \ {Genesis} /\ Prev[b] = cursor
    BY <1>8, TowardType DEF ReorganizeConnect, TypeOK
  <2>2. CASE Abort
    BY <2>2, SameLedger DEF Abort
  <2>3. CASE ~Abort
    <3>1. /\ ConnectBlockOK(b, txn) /\ txn' = ConnectBlock(b, txn, pnext) /\ cursor' = b
          /\ UNCHANGED <<db, pc, torn>> /\ pc = "reorganize"
      BY <1>8, <2>3 DEF ReorganizeConnect
    <3> HIDE DEF b
    <3>2. torn = "no" => Exact(txn', cursor')
      BY <2>1, <3>1, ConnectExact DEF LedgerInv, TypeOK
    <3> QED BY <3>1, <3>2 DEF LedgerInv
  <2> QED BY <2>2, <2>3
<1>9. CASE ReorganizeCommit
  <2>1. /\ db'.pos = txn.pos /\ db'.spent = txn.spent /\ db'.best = cursor /\ txn' = db'
        /\ pc = "reorganize" /\ pc' = "secondary"
        /\ torn' \in {"no", "disk"} /\ (torn' = "no" => torn = "no")
    BY <1>9 DEF ReorganizeCommit, Committed, TypeOK, Ledger
  <2>2. torn' = "no" => Exact(txn, cursor)
    BY <2>1 DEF LedgerInv
  <2>3. torn' = "no" => Exact(db', db'.best)
    BY <2>1, <2>2, ExactOfSame
  <2> QED BY <2>1, <2>3 DEF LedgerInv
<1>10. CASE ConnectSecondary
  <2> DEFINE b == Toward(cursor, pindexNew)
  <2>1. b \in Block \ {Genesis} /\ Prev[b] = db.best
    BY <1>10, TowardType DEF ConnectSecondary, TypeOK, JobInv
  <2>2. /\ ConnectBlockOK(b, db) /\ db' = ConnectBlock(b, db, pnext) /\ txn' = db'
        /\ pc = "secondary" /\ pc' = pc /\ torn' = torn
    BY <1>10 DEF ConnectSecondary, SetBestChainInner, Committed, LedgerInv
  <2> HIDE DEF b
  <2>3. db'.best = b
    BY <2>2 DEF ConnectBlock
  <2>4. torn # "disk" => Exact(db', b)
    BY <2>1, <2>2, ConnectExact DEF LedgerInv, TypeOK
  <2> QED BY <2>2, <2>3, <2>4 DEF LedgerInv
<1>11. CASE pc = "secondary" /\ BreakSecondary
  BY <1>11 DEF BreakSecondary, LedgerInv
<1>12. CASE SecondaryDone
  BY <1>12, SameLedger DEF SecondaryDone, LedgerInv
<1>13. CASE AcceptBlockReturns
  BY <1>13, SameLedger DEF AcceptBlockReturns, chainVars, LedgerInv
<1>14. ASSUME NEW o \in Block, ProcessOrphan(o) PROVE LedgerInv'
  BY <1>14, SameLedger DEF ProcessOrphan, AcceptBlock, chainVars, LedgerInv
<1>15. CASE NextInQueue
  BY <1>15, SameLedger DEF NextInQueue, chainVars, LedgerInv
<1>16. CASE Abort
  BY <1>16, SameLedger DEF Abort
<1>17. CASE CrashAndRestart
  <2>1. torn' # "disk" => torn # "disk"
    BY <1>17 DEF CrashAndRestart
  <2> QED BY <1>17, <2>1 DEF CrashAndRestart, LedgerInv
<1>18. CASE UNCHANGED vars
  BY <1>18 DEF LedgerInv, vars, chainVars, jobVars
<1> QED
  BY <1>1, <1>2, <1>3, <1>4, <1>5, <1>6, <1>7, <1>8, <1>9, <1>10, <1>11, <1>12, <1>13, <1>14,
     <1>15, <1>16, <1>17, <1>18 DEF Next, Step, SecondaryFails, StorageFault

\* The three invariants hold in every behaviour.
LEMMA Ledgers == Spec => [](IInv /\ TipInv /\ LedgerInv)
<1>1. Init => LedgerInv
  BY InitLedgerInv
<1>2. IInv /\ TipInv /\ LedgerInv /\ [Next]_vars => LedgerInv'
  BY StepLedgerInv
<1> QED BY <1>1, <1>2, Tips, PTL DEF Spec

\* At every moment, in the middle of a reorganization and after any crash or
\* storage fault, the transaction index on disk is exactly the one the
\* committed branch calls for, unless a write went on top of a tip that a
\* cut-short connection of postponed blocks had set in memory only.
THEOREM LedgerOnDisk == Spec => []DiskLedgerExact
<1>1. LedgerInv => DiskLedgerExact
  BY DEF LedgerInv, Exact, DiskLedgerExact
<1> QED BY <1>1, Ledgers, PTL

-----------------------------------------------------------------------------
(* The implementation of BestChain                                          *)

\* BestChain speaks of the same block tree.
LEMMA SameOperators ==
  /\ BC!Chain = Chain /\ BC!ChainTrust = ChainTrust
  /\ \A b : BC!TxsOf(b) = TxsOf(b)
  /\ \A T : BC!SpentBy(T) = SpentBy(T) /\ BC!MadeBy(T) = MadeBy(T)
<1>1. BC!Chain = Chain
  BY DEF BC!Chain, Chain
<1>2. BC!ChainTrust = ChainTrust
  BY DEF BC!ChainTrust, ChainTrust
<1>3. \A b : BC!TxsOf(b) = TxsOf(b)
  BY DEF BC!TxsOf, TxsOf
<1>4. \A T : BC!SpentBy(T) = SpentBy(T)
  BY DEF BC!SpentBy, SpentBy
<1>5. \A T : BC!MadeBy(T) = MadeBy(T)
  BY DEF BC!MadeBy, MadeBy, BC!Vout, Vout
<1> QED BY <1>1, <1>2, <1>3, <1>4, <1>5

\* The abstract chain confirms the same transactions.
LEMMA SameBranch == ASSUME NEW b PROVE BC!TxsOfBranch(b) = Confirmed(b)
  BY SameOperators DEF BC!TxsOfBranch, Confirmed

\* A branch with an exact transaction index is free of double spends.
LEMMA ExactIsSound ==
  ASSUME NEW b \in Block, NEW x \in Ledger, Exact(x, b)
  PROVE  /\ BC!Sound(b)
         /\ {t \in Tx : x.pos[t] # NoBlock} = Confirmed(b)
         /\ {c \in OutPoint : x.spent[c] # NoTx} = SpentBy(Confirmed(b))
<1>1. Chain[b] \subseteq Block /\ Confirmed(b) \subseteq Tx
  BY ChainAssumption, ConfirmedType
<1>2. ASSUME NEW a \in Chain[b] \ {Genesis}, NEW d \in Chain[b] \ {Genesis}, a # d
      PROVE  TxsOf(a) \cap TxsOf(d) = {}
  <2> SUFFICES ASSUME NEW t \in TxsOf(a), t \in TxsOf(d) PROVE FALSE
    OBVIOUS
  <2>1. t \in Tx
    BY <1>1, TxsOfType
  <2> QED BY <1>1, <1>2, <2>1 DEF Exact, IsLedgerOf
<1>3. ASSUME NEW t \in Confirmed(b), NEW u \in Confirmed(b), t # u
      PROVE  Vin[t] \cap Vin[u] = {}
  <2> SUFFICES ASSUME NEW c \in Vin[t], c \in Vin[u] PROVE FALSE
    OBVIOUS
  <2>1. c \in OutPoint
    BY <1>1, VinType
  <2> QED BY <1>1, <1>3, <2>1 DEF Exact, IsLedgerOf
<1>4. SpentBy(Confirmed(b)) \subseteq MadeBy(Confirmed(b))
  <2> SUFFICES ASSUME NEW t \in Confirmed(b), NEW c \in Vin[t] PROVE c \in MadeBy(Confirmed(b))
    BY DEF SpentBy
  <2>1. PICK a \in Chain[b] \ {Genesis} : t \in TxsOf(a)
    BY DEF Confirmed
  <2>2. c[1] \in Confirmed(b)
    BY <2>1, ConfirmedMonotone DEF Exact, Sourced
  <2> QED BY <1>1, <2>2, VinType, OutPointFacts
<1>5. BC!Sound(b)
  BY <1>2, <1>3, <1>4, SameOperators, SameBranch DEF BC!Sound
<1>6. {t \in Tx : x.pos[t] # NoBlock} = Confirmed(b)
  <2>1. ASSUME NEW t \in Tx PROVE x.pos[t] # NoBlock <=> t \in Confirmed(b)
    <3>1. x.pos[t] \in Block \cup {NoBlock}
      BY DEF Ledger
    <3>2. t \in Confirmed(b) <=> \E a \in Chain[b] \ {Genesis} : t \in TxsOf(a)
      BY DEF Confirmed
    <3> QED BY <1>1, <3>1, <3>2, BlockAssumption DEF Exact, IsLedgerOf
  <2> QED BY <1>1, <2>1
<1>7. {c \in OutPoint : x.spent[c] # NoTx} = SpentBy(Confirmed(b))
  <2>1. ASSUME NEW c \in OutPoint
        PROVE  x.spent[c] # NoTx <=> \E t \in Confirmed(b) : c \in Vin[t]
    <3>1. x.spent[c] \in Tx \cup {NoTx}
      BY DEF Ledger
    <3> QED BY <1>1, <3>1, TxAssumption DEF Exact, IsLedgerOf
  <2>2. SpentBy(Confirmed(b)) \subseteq OutPoint
    BY <1>1, VinType DEF SpentBy
  <2> QED BY <2>1, <2>2 DEF SpentBy
<1> QED BY <1>5, <1>6, <1>7

\* A fresh node is an initial state of the abstract chain.
LEMMA InitImplements == Init => BC!BestChainInit
<1> SUFFICES ASSUME Init PROVE BC!BestChainInit
  OBVIOUS
<1>1. db.best = Genesis
  BY DEF Init, EmptyLedger
<1>2. {t \in Tx : db.pos[t] # NoBlock} = {}
  BY DEF Init, EmptyLedger
<1>3. {c \in OutPoint : db.spent[c] # NoTx} = {}
  BY DEF Init, EmptyLedger
<1> QED BY <1>1, <1>2, <1>3 DEF BC!BestChainInit, BC!OutPoint, OutPoint

\* Every change of the database is one switch of the abstract chain.
LEMMA StepImplements ==
  ASSUME IInv, TipInv, LedgerInv', IInv', [Next]_vars, torn' # "disk", db' # db
  PROVE  BC!BestChainNext
<1>0. PICK b \in Block : b = db'.best
  BY DEF IInv, TypeOK, Ledger
<1>1. ChainTrust[b] > ChainTrust[db.best]
  BY <1>0, StepTrustGrows
<1>2. b \in Block /\ db' \in Ledger /\ Exact(db', b)
  BY <1>0 DEF IInv, TypeOK, LedgerInv
<1>3. /\ BC!Sound(b)
      /\ {t \in Tx : db'.pos[t] # NoBlock} = BC!TxsOfBranch(b)
      /\ {c \in OutPoint : db'.spent[c] # NoTx} = BC!SpentBy(BC!TxsOfBranch(b))
  BY <1>2, ExactIsSound, SameBranch, SameOperators
<1>4. BC!SwitchTo(b)
  BY <1>0, <1>1, <1>3, SameOperators DEF BC!SwitchTo
<1> QED BY <1>4 DEF BC!BestChainNext

\* The block chain a node keeps on disk is a best chain: it switches in one
\* step from a branch without double spends to another one with more trust,
\* whatever crashes and faults happen while it does so.
THEOREM DiskImplementsBestChain == Spec => ImplementsBestChain
<1>1. IInv /\ TipInv /\ LedgerInv' /\ IInv' /\ [Next]_vars =>
        [BC!BestChainNext \/ torn' = "disk"]_<<db.best, db.pos, db.spent>>
  BY StepImplements
<1> QED BY <1>1, InitImplements, Ledgers, PTL DEF Spec, ImplementsBestChain

-----------------------------------------------------------------------------
(* The links of the main chain                                              *)

\* The links in memory and on disk follow the committed tip, those in the open
\* transaction of a reorganization the cursor.  What is still to be connected
\* leaves the old chain for good: ConnectBlock writes the link it finds in
\* memory for its own block, and there must be none.
LinkInv ==
  /\ torn # "disk" => IsPathTo(db.next, db.best)
  /\ torn = "no" => IsPathTo(pnext, db.best)
  /\ torn = "no" /\ pc = "reorganize" => IsPathTo(txn.next, cursor)
  /\ pc = "reorganize" =>
       /\ cursor \in Chain[pindexBest] \cup Chain[pindexIntermediate]
       /\ cursor \in Chain[pindexIntermediate] =>
            \A b \in Chain[pindexIntermediate] : cursor \in Chain[b] /\ b # cursor => b \notin Chain[pindexBest]

\* On a branch a block has one successor.
LEMMA OneSuccessor ==
  ASSUME NEW b \in Block, NEW x \in Chain[b] \ {Genesis}, NEW y \in Chain[b] \ {Genesis},
         Prev[x] = Prev[y]
  PROVE  x = y
<1>1. x \in Block /\ y \in Block /\ Chain[x] \subseteq Chain[b] /\ Prev[x] \in Chain[x]
  BY ChainAssumption, PrevType
<1>2. Prev[x] # b
  <2> SUFFICES ASSUME Prev[x] = b PROVE FALSE
    OBVIOUS
  <2> QED BY <1>1, ChainAssumption
<1>3. Prev[x] \in Chain[b] \ {b}
  BY <1>1, <1>2
<1>4. \A z \in Chain[b] \ {Genesis} : Prev[z] = Prev[x] => z = Toward(Prev[x], b)
  BY <1>3, ChainAssumption
<1> QED BY <1>4

\* Two blocks that are each on the branch of the other are the same.
LEMMA OneTip ==
  ASSUME NEW a \in Block, NEW b \in Block, a \in Chain[b], b \in Chain[a]
  PROVE  a = b
<1> SUFFICES ASSUME a # b PROVE FALSE
  OBVIOUS
<1> DEFINE x == Toward(a, b)
<1>1. x \in Block \ {Genesis} /\ x \in Chain[b] /\ Prev[x] = a
  BY TowardType
<1> HIDE DEF x
<1>2. Chain[b] \subseteq Chain[a]
  BY ChainAssumption
<1>3. x \notin Chain[a]
  BY <1>1, ChainAssumption
<1> QED BY <1>1, <1>2, <1>3

\* The parent of a block on a branch is on it, and is not its last block.
LEMMA ParentOnChain ==
  ASSUME NEW b \in Block, NEW x \in Chain[b] \ {Genesis}
  PROVE  x \in Block /\ Prev[x] \in Chain[b] \ {b} /\ x \notin Chain[Prev[x]]
<1>1. x \in Block /\ Chain[x] \subseteq Chain[b] /\ Prev[x] \in Chain[x] /\ x \notin Chain[Prev[x]]
  BY ChainAssumption, PrevType
<1>2. Prev[x] # b
  <2> SUFFICES ASSUME Prev[x] = b PROVE FALSE
    OBVIOUS
  <2> QED BY <1>1
<1> QED BY <1>1, <1>2

\* The path to the parent of b, with a link to b and none from it, is the path to b.
LEMMA PathUp ==
  ASSUME NEW b \in Block \ {Genesis}, NEW nx, NEW ny,
         IsPathTo(nx, Prev[b]), ny[b] \notin Block,
         ny[Prev[b]] = b, \A a \in Block \ {b, Prev[b]} : ny[a] = nx[a]
  PROVE  IsPathTo(ny, b)
<1> SUFFICES ASSUME NEW a \in Block, NEW c \in Block
             PROVE  ny[a] = c <=> c \in Chain[b] \ {Genesis} /\ Prev[c] = a
  BY DEF IsPathTo
<1>1. Chain[b] = Chain[Prev[b]] \cup {b} /\ b \in Chain[b] /\ Prev[b] \in Block
  BY ChainAssumption, PrevType
<1>2. CASE a = Prev[b]
  BY <1>1, <1>2, OneSuccessor
<1>3. CASE a = b
  <2>1. ASSUME c \in Chain[b] \ {Genesis}, Prev[c] = b PROVE FALSE
    BY <2>1, ParentOnChain
  <2> QED BY <1>3, <2>1
<1>4. CASE a # b /\ a # Prev[b]
  <2>1. nx[a] = c <=> c \in Chain[Prev[b]] \ {Genesis} /\ Prev[c] = a
    BY DEF IsPathTo
  <2> QED BY <1>1, <1>4, <2>1
<1> QED BY <1>2, <1>3, <1>4

\* The path to b without the link to it is the path to its parent.
LEMMA PathDown ==
  ASSUME NEW b \in Block \ {Genesis}, NEW nx, NEW ny,
         IsPathTo(nx, b), ny[Prev[b]] \notin Block, \A a \in Block \ {Prev[b]} : ny[a] = nx[a]
  PROVE  IsPathTo(ny, Prev[b])
<1> SUFFICES ASSUME NEW a \in Block, NEW c \in Block
             PROVE  ny[a] = c <=> c \in Chain[Prev[b]] \ {Genesis} /\ Prev[c] = a
  BY DEF IsPathTo
<1>1. Chain[b] = Chain[Prev[b]] \cup {b} /\ b \in Chain[b] /\ Prev[b] \in Block
  BY ChainAssumption, PrevType
<1>2. CASE a = Prev[b]
  <2>1. ASSUME c \in Chain[Prev[b]] \ {Genesis}, Prev[c] = Prev[b] PROVE FALSE
    BY <1>1, <2>1, ParentOnChain
  <2> QED BY <1>2, <2>1
<1>3. CASE a # Prev[b]
  <2>1. nx[a] = c <=> c \in Chain[b] \ {Genesis} /\ Prev[c] = a
    BY DEF IsPathTo
  <2> QED BY <1>1, <1>3, <2>1
<1> QED BY <1>2, <1>3

\* A path has no link from a block that is not on the branch.
LEMMA NoLinkOff ==
  ASSUME NEW d \in Block, NEW nx \in [Block -> Block \cup {NoBlock}], IsPathTo(nx, d),
         NEW b \in Block, b \notin Chain[d]
  PROVE  nx[b] \notin Block
<1> SUFFICES ASSUME nx[b] \in Block PROVE FALSE
  OBVIOUS
<1>1. nx[b] \in Chain[d] \ {Genesis} /\ Prev[nx[b]] = b
  BY DEF IsPathTo
<1> QED BY <1>1, ParentOnChain

\* The links that ConnectBlock and DisconnectBlock write.
LEMMA ConnectPath ==
  ASSUME NEW b \in Block \ {Genesis}, NEW x \in Ledger, NEW d \in Block,
         NEW nx \in [Block -> Block \cup {NoBlock}],
         IsPathTo(x.next, Prev[b]), IsPathTo(nx, d), b \notin Chain[d]
  PROVE  IsPathTo(ConnectBlock(b, x, nx).next, b)
<1> DEFINE ny == ConnectBlock(b, x, nx).next
<1>1. b # Prev[b] /\ Prev[b] \in Block
  BY ParentOnChain, ChainAssumption, PrevType
<1>2. ny[b] = nx[b] /\ ny[Prev[b]] = b /\ \A a \in Block \ {b, Prev[b]} : ny[a] = x.next[a]
  BY <1>1 DEF ConnectBlock
<1>3. nx[b] \notin Block
  BY NoLinkOff
<1> HIDE DEF ny
<1>4. IsPathTo(ny, b)
  BY <1>2, <1>3, PathUp
<1> QED BY <1>4 DEF ny

LEMMA DisconnectPath ==
  ASSUME NEW b \in Block \ {Genesis}, NEW x \in Ledger, IsPathTo(x.next, b)
  PROVE  IsPathTo(DisconnectBlock(b, x).next, Prev[b])
<1> DEFINE ny == DisconnectBlock(b, x).next
<1>1. Prev[b] \in Block /\ NoBlock \notin Block
  BY PrevType, BlockAssumption
<1>2. ny[Prev[b]] = NoBlock /\ \A a \in Block \ {Prev[b]} : ny[a] = x.next[a]
  BY <1>1 DEF DisconnectBlock
<1> HIDE DEF ny
<1>3. IsPathTo(ny, Prev[b])
  BY <1>1, <1>2, PathDown
<1> QED BY <1>3 DEF ny

\* After the commit of a reorganization memory is relinked to the new branch.
LEMMA RelinkedPath ==
  ASSUME TypeOK, IsPathTo(pnext, pindexBest)
  PROVE  IsPathTo(Relinked, pindexIntermediate)
<1> DEFINE B == Chain[pindexBest]
           I == Chain[pindexIntermediate]
<1>1. pindexBest \in Block /\ pindexIntermediate \in Block /\ Genesis \in B /\ Genesis \in I
  BY ChainAssumption DEF TypeOK
<1> SUFFICES ASSUME NEW a \in Block, NEW c \in Block
             PROVE  Relinked[a] = c <=> c \in I \ {Genesis} /\ Prev[c] = a
  BY DEF IsPathTo
<1>2. CASE \E b \in Connected : Prev[b] = a
  <2>1. PICK b \in I \ {Genesis} : Prev[b] = a
    BY <1>1, <1>2 DEF Connected
  <2>2. a \in I \ {pindexIntermediate}
    BY <1>1, <2>1, ParentOnChain
  <2>3. Toward(a, pindexIntermediate) \in I \ {Genesis} /\ Prev[Toward(a, pindexIntermediate)] = a
    BY <1>1, <2>2, TowardType
  <2>4. Relinked[a] = Toward(a, pindexIntermediate)
    BY <1>2 DEF Relinked
  <2> QED BY <1>1, <2>3, <2>4, OneSuccessor
<1>3. CASE ~(\E b \in Connected : Prev[b] = a) /\ \E b \in Disconnected : Prev[b] = a
  <2>1. PICK b \in B \ {Genesis} : Prev[b] = a /\ b \notin I
    BY <1>1, <1>3 DEF Disconnected
  <2>2. ASSUME c \in I \ {Genesis}, Prev[c] = a PROVE FALSE
    <3>1. c \in B
      BY <1>3, <2>2 DEF Connected
    <3> QED BY <1>1, <2>1, <2>2, <3>1, OneSuccessor
  <2>3. Relinked[a] = NoBlock
    BY <1>3 DEF Relinked
  <2> QED BY <2>2, <2>3, BlockAssumption
<1>4. CASE ~(\E b \in Connected : Prev[b] = a) /\ ~ \E b \in Disconnected : Prev[b] = a
  <2>1. Relinked[a] = pnext[a]
    BY <1>4 DEF Relinked
  <2>2. pnext[a] = c <=> c \in B \ {Genesis} /\ Prev[c] = a
    BY DEF IsPathTo
  <2> QED BY <1>4, <2>1, <2>2 DEF Connected, Disconnected
<1> QED BY <1>2, <1>3, <1>4

\* LinkInv holds for a fresh node.
LEMMA InitLinkInv == Init => LinkInv
<1> SUFFICES ASSUME Init PROVE LinkInv
  OBVIOUS
<1>1. /\ db.best = Genesis /\ \A a \in Block : db.next[a] = NoBlock /\ pnext[a] = NoBlock
      /\ pc = "idle"
  BY DEF Init, EmptyLedger
<1>2. IsPathTo(db.next, Genesis) /\ IsPathTo(pnext, Genesis)
  BY <1>1, ChainAssumption, BlockAssumption DEF IsPathTo
<1> QED BY <1>1, <1>2 DEF LinkInv

\* The actions that leave the links alone outside of a reorganization.
LEMMA SameLinks ==
  ASSUME LinkInv, UNCHANGED <<db, pnext, torn>>, pc' # "reorganize"
  PROVE  LinkInv'
  BY DEF LinkInv

\* SetBestChainInner for a child of the committed tip.
LEMMA InnerLinks ==
  ASSUME IInv, LinkInv, NEW b \in Block \ {Genesis}, SetBestChainInner(b), pc' # "reorganize",
         torn = "no" => Prev[b] = db.best
  PROVE  LinkInv'
<1>1. /\ db' = ConnectBlock(b, db, pnext) /\ pnext' = [pnext EXCEPT ![Prev[b]] = b]
      /\ torn' = IF torn = "memory" THEN "disk" ELSE torn
  BY DEF SetBestChainInner, Committed
<1>2. db'.best = b /\ torn \in {"no", "memory", "disk"}
  BY <1>1 DEF ConnectBlock, IInv, TypeOK
<1>3. CASE torn = "no"
  <2>1. Prev[b] = db.best /\ db.best \in Block /\ b \notin Chain[db.best]
    BY <1>3, PrevType, ChainAssumption
  <2>2. IsPathTo(db.next, Prev[b]) /\ IsPathTo(pnext, Prev[b])
    BY <1>3, <2>1 DEF LinkInv
  <2>3. db \in Ledger /\ pnext \in [Block -> Block \cup {NoBlock}]
    BY DEF IInv, TypeOK
  <2>4. IsPathTo(ConnectBlock(b, db, pnext).next, b)
    BY <2>1, <2>2, <2>3, ConnectPath
  <2>5. IsPathTo(pnext', b)
    <3>1. pnext[b] \notin Block
      BY <2>1, <2>2, <2>3, NoLinkOff
    <3>2. b # Prev[b] /\ Prev[b] \in Block
      BY <2>1, ChainAssumption
    <3>3. /\ pnext'[b] = pnext[b] /\ pnext'[Prev[b]] = b
          /\ \A a \in Block \ {b, Prev[b]} : pnext'[a] = pnext[a]
      BY <1>1, <2>3, <3>2
    <3> QED BY <2>2, <3>1, <3>3, PathUp
  <2> QED BY <1>1, <1>2, <2>4, <2>5 DEF LinkInv
<1>4. CASE torn # "no"
  BY <1>1, <1>2, <1>4 DEF LinkInv
<1> QED BY <1>3, <1>4

\* Every step of the node keeps LinkInv.
LEMMA StepLinkInv == IInv /\ TipInv /\ LedgerInv /\ LinkInv /\ [Next]_vars => LinkInv'
<1> SUFFICES ASSUME IInv, TipInv, LedgerInv, LinkInv, [Next]_vars PROVE LinkInv'
  OBVIOUS
<1> USE DEF IInv
<1> DEFINE B == Chain[pindexBest]
           I == Chain[pindexIntermediate]
<1>0. pindexBest \in Block /\ pindexIntermediate \in Block /\ cursor \in Block /\ B \subseteq Block /\ I \subseteq Block
  BY ChainAssumption DEF TypeOK
<1>1. ASSUME NEW b \in Block \ {Genesis}, ProcessBlock(b) PROVE LinkInv'
  BY <1>1, SameLinks DEF ProcessBlock, KeepOrphan, AcceptBlock, chainVars
<1>2. ASSUME NEW t \in Tx, AcceptToMemoryPool(t) PROVE LinkInv'
  BY <1>2, SameLinks DEF AcceptToMemoryPool, chainVars
<1>3. CASE Extend
  <2>1. pindexNew \in Block \ {Genesis} /\ (torn = "no" => Prev[pindexNew] = db.best)
    BY <1>3 DEF Extend, TypeOK, JobInv, TipInv
  <2> QED BY <1>3, <2>1, InnerLinks DEF Extend
<1>4. CASE Abort
  BY <1>4, SameLinks DEF Abort
<1>5. CASE Postpone
  BY <1>5, SameLinks DEF Postpone, chainVars
<1>6. CASE BeginReorganize
  <2>1. /\ pc = "postpone" /\ pc' = "reorganize" /\ cursor = pindexBest /\ txn = db
        /\ (torn = "no" => pindexBest = db.best)
        /\ UNCHANGED <<pindexBest, pnext, db, txn, pindexIntermediate, cursor, torn>>
    BY <1>6 DEF BeginReorganize, JobInv, LedgerInv, TipInv, chainVars, jobVars
  <2>2. cursor \in B
    BY <1>0, <2>1, ChainAssumption
  <2>3. ASSUME NEW b \in I, cursor \in Chain[b], b # cursor PROVE b \notin B
    BY <1>0, <2>1, <2>3, OneTip
  <2>4. torn = "no" => IsPathTo(txn.next, cursor)
    BY <2>1 DEF LinkInv
  <2> QED BY <2>1, <2>2, <2>3, <2>4 DEF LinkInv
<1>7. CASE ReorganizeDisconnect
  <2>1. /\ pc = "reorganize" /\ pc' = pc /\ cursor \notin I /\ cursor' = Prev[cursor]
        /\ txn' = DisconnectBlock(cursor, txn)
        /\ UNCHANGED <<pindexBest, pnext, db, pindexIntermediate, torn>>
    BY <1>7 DEF ReorganizeDisconnect
  <2>2. cursor \in B \ {Genesis}
    BY <1>0, <2>1, ChainAssumption DEF LinkInv
  <2>3. Prev[cursor] \in B /\ Prev[cursor] \in Block
    BY <1>0, <2>2, ParentOnChain, PrevType
  <2>4. torn = "no" => IsPathTo(txn'.next, cursor')
    <3> SUFFICES ASSUME torn = "no" PROVE IsPathTo(txn'.next, cursor')
      OBVIOUS
    <3>1. IsPathTo(txn.next, cursor) /\ txn \in Ledger
      BY <2>1 DEF LinkInv, TypeOK
    <3> QED BY <1>0, <2>1, <2>2, <3>1, DisconnectPath
  <2>5. ASSUME NEW b \in I, Prev[cursor] \in Chain[b], b # Prev[cursor], b \in B PROVE FALSE
    <3> DEFINE x == Toward(Prev[cursor], b)
    <3>1. x \in Block \ {Genesis} /\ x \in Chain[b] /\ Prev[x] = Prev[cursor]
      BY <1>0, <2>5, TowardType
    <3>2. Chain[b] \subseteq I /\ Chain[b] \subseteq B
      BY <1>0, <2>5, ChainAssumption
    <3> HIDE DEF x
    <3>3. x = cursor
      BY <1>0, <2>2, <3>1, <3>2, OneSuccessor
    <3> QED BY <2>1, <3>1, <3>2, <3>3
  <2> QED BY <2>1, <2>3, <2>4, <2>5 DEF LinkInv
<1>8. CASE ReorganizeConnect
  <2> DEFINE b == Toward(cursor, pindexIntermediate)
  <2>1. /\ b \in Block \ {Genesis} /\ Prev[b] = cursor /\ b \in I /\ pc = "reorganize"
        /\ cursor \in I
    BY <1>8, TowardType DEF ReorganizeConnect, TypeOK
  <2>2. CASE ~Abort
    <3>1. /\ txn' = ConnectBlock(b, txn, pnext) /\ cursor' = b
          /\ UNCHANGED <<pindexBest, pnext, db, pindexIntermediate, torn, pc>>
      BY <1>8, <2>2 DEF ReorganizeConnect
    <3> HIDE DEF b
    <3>2. b \notin Chain[cursor] /\ cursor \in Chain[b] /\ b # cursor
      BY <1>0, <2>1, ChainAssumption
    <3>3. b \notin B
      BY <2>1, <3>2 DEF LinkInv
    <3>4. torn = "no" => IsPathTo(txn'.next, cursor')
      <4> SUFFICES ASSUME torn = "no" PROVE IsPathTo(ConnectBlock(b, txn, pnext).next, b)
        BY <3>1
      <4>1. IsPathTo(txn.next, Prev[b]) /\ IsPathTo(pnext, pindexBest)
        BY <2>1 DEF LinkInv, TipInv
      <4>2. txn \in Ledger /\ pnext \in [Block -> Block \cup {NoBlock}]
        BY DEF TypeOK
      <4> QED BY <1>0, <2>1, <3>3, <4>1, <4>2, ConnectPath
    <3>5. ASSUME NEW c \in I, b \in Chain[c], c # b PROVE c \notin B
      <4>1. cursor \in Chain[c] /\ c # cursor
        BY <1>0, <2>1, <3>2, <3>5, ChainAssumption
      <4> QED BY <2>1, <4>1 DEF LinkInv
    <3> QED BY <2>1, <3>1, <3>4, <3>5 DEF LinkInv
  <2> QED BY <1>4, <2>2
<1>9. CASE ReorganizeCommit
  <2>1. /\ db'.next = txn.next /\ db'.best = cursor /\ cursor = pindexIntermediate
        /\ pnext' = Relinked /\ pc = "reorganize" /\ pc' = "secondary"
        /\ torn' \in {"no", "disk"} /\ (torn' = "no" => torn = "no")
    BY <1>9 DEF ReorganizeCommit, Committed, TypeOK, Ledger
  <2>2. torn = "no" => IsPathTo(txn.next, cursor) /\ IsPathTo(pnext, pindexBest)
    BY <2>1 DEF LinkInv, TipInv
  <2>3. torn = "no" => IsPathTo(Relinked, pindexIntermediate)
    BY <2>2, RelinkedPath
  <2> QED BY <2>1, <2>2, <2>3 DEF LinkInv
<1>10. CASE ConnectSecondary
  <2> DEFINE b == Toward(cursor, pindexNew)
  <2>1. b \in Block \ {Genesis} /\ Prev[b] = db.best
    BY <1>10, TowardType DEF ConnectSecondary, TypeOK, JobInv
  <2>2. SetBestChainInner(b) /\ pc' # "reorganize"
    BY <1>10 DEF ConnectSecondary
  <2> HIDE DEF b
  <2> QED BY <2>1, <2>2, InnerLinks
<1>11. CASE BreakSecondary
  BY <1>11 DEF BreakSecondary, LinkInv
<1>12. CASE SecondaryDone
  BY <1>12, SameLinks DEF SecondaryDone
<1>13. CASE AcceptBlockReturns
  BY <1>13, SameLinks DEF AcceptBlockReturns, chainVars
<1>14. ASSUME NEW o \in Block, ProcessOrphan(o) PROVE LinkInv'
  BY <1>14, SameLinks DEF ProcessOrphan, AcceptBlock, chainVars
<1>15. CASE NextInQueue
  BY <1>15, SameLinks DEF NextInQueue, chainVars
<1>16. CASE CrashAndRestart
  <2>1. /\ torn' # "disk" => torn # "disk"
        /\ db' = db /\ pnext' = db.next /\ pc' = "idle"
    BY <1>16 DEF CrashAndRestart
  <2> QED BY <2>1 DEF LinkInv
<1>17. CASE UNCHANGED vars
  BY <1>17 DEF LinkInv, vars, chainVars, jobVars
<1> QED
  BY <1>1, <1>2, <1>3, <1>4, <1>5, <1>6, <1>7, <1>8, <1>9, <1>10, <1>11, <1>12, <1>13, <1>14,
     <1>15, <1>16, <1>17 DEF Next, Step, ExtendFails, SecondaryFails, StorageFault

\* Between blocks IsInMainChain answers for exactly the blocks of the tip's branch,
\* after every reorganization, restart and abort, and the links a restart would
\* read are those in memory.
THEOREM LinksFollowTip == Spec => []LinksFormMainChain
<1>1. TipInv /\ LinkInv => LinksFormMainChain
  BY DEF TipInv, LinkInv, LinksFormMainChain
<1>2. Spec => []LinkInv
  BY InitLinkInv, StepLinkInv, Ledgers, PTL DEF Spec
<1> QED BY <1>1, <1>2, Ledgers, PTL

-----------------------------------------------------------------------------
(* The best valid branch                                                    *)

\* The blocks of SetBestChain at work.
Trying == {"extend", "postpone", "reorganize", "secondary"}

\* The parents of an indexed block are indexed, and the work queue holds
\* indexed blocks.
IndexInv ==
  /\ \A b \in mapBlockIndex : Chain[b] \subseteq mapBlockIndex
  /\ pindexNew \in mapBlockIndex
  /\ \A i \in DOMAIN work : work[i] \in mapBlockIndex
  /\ pc = "idle" => work = << >>

\* Without crash and fault every valid branch is tried when its last block is
\* indexed, so that a branch with more trust than the tip is invalid.  Hence a
\* reorganization that reaches its first block with more trust has reached the
\* new block itself: nothing is postponed, and nothing is torn.
BestInv ==
  crashes = 0 /\ faults = 0 =>
    /\ torn = "no"
    /\ ValidChain(pindexBest)
    /\ pc = "reorganize" => ValidChain(cursor)
    /\ pc = "secondary" => /\ cursor = pindexNew /\ ValidChain(pindexNew)
                           /\ ChainTrust[pindexBest] < ChainTrust[pindexNew]
    /\ \A b \in mapBlockIndex : ValidChain(b) =>
         ChainTrust[b] <= ChainTrust[pindexBest] \/ (b = pindexNew /\ pc \in Trying)

\* An exact transaction index is the reference index of its branch.
LEMMA ExactIsReference ==
  ASSUME NEW b \in Block, NEW x \in Ledger, IsLedgerOf(x, b)
  PROVE  x.pos = ReferenceLedger(b).pos /\ x.spent = ReferenceLedger(b).spent
<1>1. x.pos \in [Tx -> Block \cup {NoBlock}] /\ x.spent \in [OutPoint -> Tx \cup {NoTx}]
  BY DEF Ledger
<1>2. Chain[b] \subseteq Block /\ Confirmed(b) \subseteq Tx
  BY ChainAssumption, ConfirmedType
<1>3. ASSUME NEW t \in Tx
      PROVE  x.pos[t] = IF t \in Confirmed(b)
                        THEN CHOOSE a \in Chain[b] \ {Genesis} : t \in TxsOf(a) ELSE NoBlock
  <2> DEFINE a0 == CHOOSE a \in Chain[b] \ {Genesis} : t \in TxsOf(a)
  <2>1. CASE t \in Confirmed(b)
    <3>1. \E a \in Chain[b] \ {Genesis} : t \in TxsOf(a)
      BY <2>1 DEF Confirmed
    <3>2. a0 \in Chain[b] \ {Genesis} /\ t \in TxsOf(a0)
      BY <3>1
    <3> HIDE DEF a0
    <3>3. x.pos[t] = a0
      BY <1>2, <3>2 DEF IsLedgerOf
    <3> QED BY <2>1, <3>3 DEF a0
  <2>2. CASE t \notin Confirmed(b)
    <3>1. \A a \in Block : x.pos[t] # a
      BY <2>2 DEF IsLedgerOf, Confirmed
    <3> QED BY <1>1, <2>2, <3>1
  <2> QED BY <2>1, <2>2
<1>4. ASSUME NEW c \in OutPoint
      PROVE  x.spent[c] = IF c \in SpentBy(Confirmed(b))
                          THEN CHOOSE t \in Confirmed(b) : c \in Vin[t] ELSE NoTx
  <2> DEFINE t0 == CHOOSE t \in Confirmed(b) : c \in Vin[t]
  <2>1. CASE c \in SpentBy(Confirmed(b))
    <3>1. \E t \in Confirmed(b) : c \in Vin[t]
      BY <2>1 DEF SpentBy
    <3>2. t0 \in Confirmed(b) /\ c \in Vin[t0]
      BY <3>1
    <3> HIDE DEF t0
    <3>3. x.spent[c] = t0
      BY <1>2, <3>2 DEF IsLedgerOf
    <3> QED BY <2>1, <3>3 DEF t0
  <2>2. CASE c \notin SpentBy(Confirmed(b))
    <3>1. \A t \in Tx : x.spent[c] # t
      BY <2>2 DEF IsLedgerOf, SpentBy
    <3> QED BY <1>1, <2>2, <3>1
  <2> QED BY <2>1, <2>2
<1> DEFINE p == [t \in Tx |-> IF t \in Confirmed(b)
                              THEN CHOOSE a \in Chain[b] \ {Genesis} : t \in TxsOf(a) ELSE NoBlock]
           s == [c \in OutPoint |-> IF c \in SpentBy(Confirmed(b))
                                    THEN CHOOSE t \in Confirmed(b) : c \in Vin[t] ELSE NoTx]
<1>5. x.pos = p
  BY <1>1, <1>3
<1>6. x.spent = s
  BY <1>1, <1>4
<1>7. ReferenceLedger(b).pos = p /\ ReferenceLedger(b).spent = s
  BY DEF ReferenceLedger
<1> HIDE DEF p, s
<1> QED BY <1>5, <1>6, <1>7

\* ConnectBlock judges a block by the branch alone.
LEMMA SameVerdict ==
  ASSUME NEW b \in Block, NEW x \in Ledger, Exact(x, b), NEW a \in Block
  PROVE  ConnectBlockOK(a, x) <=> ConnectBlockOK(a, ReferenceLedger(b))
<1>1. x.pos = ReferenceLedger(b).pos /\ x.spent = ReferenceLedger(b).spent
  BY ExactIsReference DEF Exact
<1> DEFINE y == ReferenceLedger(b)
<1> HIDE DEF y
<1>2. x.pos = y.pos /\ x.spent = y.spent
  BY <1>1 DEF y
<1>3. ConnectBlockOK(a, x) <=> ConnectBlockOK(a, y)
  BY <1>2 DEF ConnectBlockOK, InputOK
<1> QED BY <1>3 DEF y

\* A branch is valid when its parent's is and its last block connects to it.
LEMMA ValidStep ==
  ASSUME NEW b \in Block \ {Genesis}
  PROVE  ValidChain(b) <=> ValidChain(Prev[b]) /\ ConnectBlockOK(b, ReferenceLedger(Prev[b]))
  BY ChainAssumption DEF ValidChain

\* A valid branch is valid up to each of its blocks.
LEMMA ValidDown ==
  ASSUME NEW b \in Block, ValidChain(b), NEW a \in Chain[b]
  PROVE  ValidChain(a)
  BY ChainAssumption DEF ValidChain

\* A block refused by Extend or by Reorganize is on no valid branch.
LEMMA ExtendInvalid ==
  ASSUME IInv, TipInv, LedgerInv, torn = "no", ExtendFails
  PROVE  ~ ValidChain(pindexNew)
<1>1. /\ pindexNew \in Block \ {Genesis} /\ Prev[pindexNew] = pindexBest /\ pindexBest = db.best
      /\ ~ ConnectBlockOK(pindexNew, db) /\ db \in Ledger /\ pindexBest \in Block
  BY DEF IInv, TypeOK, JobInv, TipInv, ExtendFails
<1>2. Exact(db, Prev[pindexNew])
  BY <1>1 DEF LedgerInv
<1> QED BY <1>1, <1>2, SameVerdict, ValidStep

LEMMA ReorganizeInvalid ==
  ASSUME IInv, LedgerInv, torn = "no", pc = "reorganize",
         cursor \in Chain[pindexIntermediate] \ {pindexIntermediate},
         ~ ConnectBlockOK(Toward(cursor, pindexIntermediate), txn)
  PROVE  ~ ValidChain(pindexNew)
<1> DEFINE b == Toward(cursor, pindexIntermediate)
<1>1. /\ b \in Block \ {Genesis} /\ b \in Chain[pindexIntermediate] /\ Prev[b] = cursor
      /\ pindexIntermediate \in Chain[pindexNew] /\ pindexNew \in Block /\ cursor \in Block
      /\ txn \in Ledger
  BY TowardType DEF IInv, TypeOK, JobInv
<1>2. Exact(txn, cursor) /\ ~ ConnectBlockOK(b, txn)
  BY DEF LedgerInv
<1> HIDE DEF b
<1>3. ~ ValidChain(b)
  BY <1>1, <1>2, SameVerdict, ValidStep
<1>4. b \in Chain[pindexNew]
  BY <1>1, ChainAssumption
<1> QED BY <1>1, <1>3, <1>4, ValidDown

\* IndexInv and BestInv hold for a fresh node.
LEMMA InitBestInv == Init => IndexInv /\ BestInv
<1> SUFFICES ASSUME Init PROVE IndexInv /\ BestInv
  OBVIOUS
<1>1. IndexInv
  BY ChainAssumption DEF Init, IndexInv
<1>2. ValidChain(Genesis)
  BY ChainAssumption DEF ValidChain
<1>3. ChainTrust[Genesis] <= ChainTrust[Genesis]
  BY BlockAssumption, TrustAssumption
<1> QED BY <1>1, <1>2, <1>3 DEF Init, BestInv

\* AcceptBlock indexes a block whose parent is indexed.
LEMMA AcceptIndex ==
  ASSUME TypeOK, IndexInv, NEW b \in Block \ {Genesis}, Prev[b] \in mapBlockIndex, AcceptBlock(b)
  PROVE  IndexInv'
<1>1. Chain[b] = Chain[Prev[b]] \cup {b}
  BY ChainAssumption
<1>2. pc' # "idle"
  BY DEF AcceptBlock
<1> QED BY <1>1, <1>2 DEF IndexInv, AcceptBlock

\* Every step of the node keeps IndexInv.
LEMMA StepIndexInv == IInv /\ IndexInv /\ [Next]_vars => IndexInv'
<1> SUFFICES ASSUME IInv, IndexInv, [Next]_vars PROVE IndexInv'
  OBVIOUS
<1>0. TypeOK /\ JobInv
  BY DEF IInv
<1>1. ASSUME NEW b \in Block \ {Genesis}, ProcessBlock(b) PROVE IndexInv'
  <2>1. CASE KeepOrphan(b)
    BY <2>1 DEF KeepOrphan, IndexInv, jobVars
  <2>2. CASE Prev[b] \in mapBlockIndex /\ AcceptBlock(b)
    BY <1>0, <2>2, AcceptIndex
  <2> QED BY <1>1, <2>1, <2>2 DEF ProcessBlock
<1>2. ASSUME NEW o \in Block, ProcessOrphan(o) PROVE IndexInv'
  <2>1. /\ o \in Block \ {Genesis} /\ pc = "orphans" /\ Prev[o] = Head(work)
        /\ work \in Seq(Block) /\ work # << >>
    BY <1>0, <1>2 DEF ProcessOrphan, TypeOK, JobInv
  <2>2. 1 \in DOMAIN work /\ Head(work) = work[1]
    BY <2>1
  <2>3. Prev[o] \in mapBlockIndex
    BY <2>1, <2>2 DEF IndexInv
  <2>4. CASE AcceptBlock(o)
    BY <1>0, <2>1, <2>3, <2>4, AcceptIndex
  <2>5. CASE UNCHANGED <<mapBlockIndex, jobVars, work, pc>>
    BY <2>5 DEF IndexInv, jobVars
  <2> QED BY <1>2, <2>4, <2>5 DEF ProcessOrphan
<1>3. CASE AcceptBlockReturns
  <2>1. /\ pc' = (IF work' = << >> THEN "idle" ELSE "orphans") /\ pindexNew' = Genesis
        /\ mapBlockIndex' = mapBlockIndex /\ (work' = work \/ work' = Append(work, pindexNew))
    BY <1>3 DEF AcceptBlockReturns
  <2>2. Genesis \in mapBlockIndex
    BY <1>0, ChainAssumption DEF TypeOK, IndexInv
  <2>3. work \in Seq(Block) /\ pindexNew \in Block /\ pindexNew \in mapBlockIndex
    BY <1>0 DEF TypeOK, IndexInv
  <2>4. \A i \in DOMAIN work' : work'[i] \in mapBlockIndex
    <3>1. CASE work' = work
      BY <3>1 DEF IndexInv
    <3>2. CASE work' = Append(work, pindexNew)
      BY <2>3, <3>2 DEF IndexInv
    <3> QED BY <2>1, <3>1, <3>2
  <2> QED BY <2>1, <2>2, <2>4 DEF IndexInv
<1>4. CASE NextInQueue
  <2>1. /\ pc = "orphans" /\ work' = Tail(work) /\ UNCHANGED <<mapBlockIndex, pindexNew>>
        /\ pc' = IF work' = << >> THEN "idle" ELSE "orphans"
    BY <1>4 DEF NextInQueue, indexVars, jobVars
  <2>2. work \in Seq(Block) /\ work # << >>
    BY <1>0, <2>1 DEF TypeOK, JobInv
  <2>3. \A i \in DOMAIN work' : work'[i] \in mapBlockIndex
    BY <2>1, <2>2 DEF IndexInv
  <2> QED BY <2>1, <2>3 DEF IndexInv
<1>5. CASE CrashAndRestart
  <2>1. Genesis \in mapBlockIndex
    BY <1>0, ChainAssumption DEF TypeOK, IndexInv
  <2> QED BY <1>5, <2>1 DEF CrashAndRestart, IndexInv
<1>6. CASE UNCHANGED <<mapBlockIndex, pindexNew, work>> /\ (pc' = "idle" => pc = "idle")
  BY <1>6 DEF IndexInv
<1> QED
  BY <1>1, <1>2, <1>3, <1>4, <1>5, <1>6
     DEF Next, Step, AcceptToMemoryPool, Extend, ExtendFails, Abort, Postpone, BeginReorganize,
         ReorganizeDisconnect, ReorganizeConnect, ReorganizeCommit, ConnectSecondary,
         SetBestChainInner, SecondaryFails, BreakSecondary, SecondaryDone, StorageFault,
         vars, indexVars, jobVars

\* AcceptBlock lets SetBestChain try every block with more trust.
LEMMA AcceptBest ==
  ASSUME IInv, BestInv, NEW b \in Block, pc \in {"idle", "orphans"}, AcceptBlock(b)
  PROVE  BestInv'
<1> SUFFICES ASSUME crashes' = 0, faults' = 0 PROVE BestInv'
  BY DEF BestInv
<1>1. /\ mapBlockIndex' = mapBlockIndex \cup {b} /\ pindexNew' = b
      /\ UNCHANGED <<pindexBest, torn, crashes, faults>>
      /\ pc' \in {"accepted", "extend", "postpone"}
      /\ pc' \in Trying \/ ChainTrust[b] <= ChainTrust[pindexBest]
  BY DEF AcceptBlock, chainVars, bounds, Trying
<1>2. pc \notin Trying
  BY DEF Trying
<1>3. /\ torn = "no" /\ ValidChain(pindexBest)
      /\ \A a \in mapBlockIndex : ValidChain(a) => ChainTrust[a] <= ChainTrust[pindexBest]
  BY <1>1, <1>2 DEF BestInv
<1> QED BY <1>1, <1>3 DEF BestInv

\* The actions that leave the tip and the index alone, when SetBestChain is not
\* at work before or after them.
LEMMA SameBest ==
  ASSUME BestInv, UNCHANGED <<mapBlockIndex, pindexBest, torn, crashes, faults>>,
         pc \notin Trying, pc' \notin Trying
  PROVE  BestInv'
  BY DEF BestInv, Trying

\* The new block turned out invalid.
LEMMA InvalidBest ==
  ASSUME BestInv, UNCHANGED <<mapBlockIndex, pindexBest, torn, crashes, faults>>,
         torn = "no" => ~ ValidChain(pindexNew), pc' \notin Trying
  PROVE  BestInv'
  BY DEF BestInv, Trying

\* Every step of the node keeps BestInv.
LEMMA StepBestInv == IInv /\ TipInv /\ LedgerInv /\ IndexInv /\ BestInv /\ [Next]_vars => BestInv'
<1> SUFFICES ASSUME IInv, TipInv, LedgerInv, IndexInv, BestInv, [Next]_vars PROVE BestInv'
  OBVIOUS
<1>0. TypeOK /\ JobInv /\ \A b \in Block : ChainTrust[b] \in Nat
  BY TrustAssumption DEF IInv
<1>a. /\ pindexBest \in Block /\ pindexNew \in Block /\ pindexIntermediate \in Block /\ cursor \in Block
      /\ db \in Ledger /\ txn \in Ledger /\ crashes \in Nat /\ faults \in Nat
      /\ mapBlockIndex \subseteq Block /\ pindexNew \in mapBlockIndex
  BY <1>0 DEF TypeOK, IndexInv
<1>1. ASSUME NEW b \in Block \ {Genesis}, ProcessBlock(b) PROVE BestInv'
  <2>1. CASE KeepOrphan(b)
    BY <1>1, <2>1, SameBest DEF ProcessBlock, KeepOrphan, chainVars, bounds, Trying
  <2>2. CASE AcceptBlock(b)
    BY <1>1, <2>2, AcceptBest DEF ProcessBlock
  <2> QED BY <1>1, <2>1, <2>2 DEF ProcessBlock
<1>2. ASSUME NEW t \in Tx, AcceptToMemoryPool(t) PROVE BestInv'
  BY <1>2, SameBest DEF AcceptToMemoryPool, indexVars, chainVars, bounds, Trying
<1>3. CASE Extend
  <2> SUFFICES ASSUME crashes' = 0, faults' = 0 PROVE BestInv'
    BY DEF BestInv
  <2>1. /\ pc = "extend" /\ pc' = "accepted" /\ pindexBest' = pindexNew
        /\ ConnectBlockOK(pindexNew, db) /\ UNCHANGED <<mapBlockIndex, crashes, faults>>
        /\ torn' = IF torn = "memory" THEN "disk" ELSE torn
    BY <1>3 DEF Extend, SetBestChainInner, Committed, bounds, indexVars
  <2>2. /\ torn = "no" /\ ValidChain(pindexBest)
        /\ \A b \in mapBlockIndex : ValidChain(b) =>
             ChainTrust[b] <= ChainTrust[pindexBest] \/ b = pindexNew
    BY <2>1 DEF BestInv
  <2>3. /\ pindexNew \in Block \ {Genesis} /\ Prev[pindexNew] = pindexBest /\ pindexBest = db.best
        /\ ChainTrust[pindexNew] > ChainTrust[pindexBest]
    BY <1>0, <1>a, <2>1, <2>2 DEF JobInv, TipInv
  <2>4. Exact(db, pindexBest)
    BY <2>2, <2>3 DEF LedgerInv
  <2>5. ValidChain(pindexNew)
    BY <1>a, <2>1, <2>2, <2>3, <2>4, SameVerdict, ValidStep
  <2>6. \A b \in mapBlockIndex : ValidChain(b) => ChainTrust[b] <= ChainTrust[pindexNew]
    BY <1>0, <1>a, <2>2, <2>3
  <2> QED BY <2>1, <2>2, <2>5, <2>6 DEF BestInv
<1>4. CASE ExtendFails
  <2>1. torn = "no" => ~ ValidChain(pindexNew)
    BY <1>4, ExtendInvalid
  <2> QED BY <1>4, <2>1, InvalidBest DEF ExtendFails, Abort, indexVars, bounds, Trying
<1>5. CASE Postpone
  BY <1>5 DEF Postpone, BestInv, indexVars, chainVars, bounds
<1>6. CASE BeginReorganize
  <2>1. cursor = pindexBest
    BY <1>0, <1>6 DEF BeginReorganize, JobInv
  <2> QED BY <1>6, <2>1 DEF BeginReorganize, BestInv, indexVars, chainVars, jobVars, bounds, Trying
<1>7. CASE ReorganizeDisconnect
  <2>1. cursor \in Block \ {Genesis}
    BY <1>7, <1>a, ChainAssumption DEF ReorganizeDisconnect
  <2>2. ValidChain(cursor) => ValidChain(Prev[cursor])
    BY <2>1, ValidStep
  <2> QED BY <1>7, <2>2 DEF ReorganizeDisconnect, BestInv, bounds
<1>8. CASE ReorganizeConnect
  <2> DEFINE b == Toward(cursor, pindexIntermediate)
  <2>1. b \in Block \ {Genesis} /\ Prev[b] = cursor /\ pc = "reorganize"
        /\ UNCHANGED <<crashes, faults>>
    BY <1>8, <1>a, TowardType DEF ReorganizeConnect, bounds
  <2>2. CASE ~ ConnectBlockOK(b, txn)
    <3>1. torn = "no" => ~ ValidChain(pindexNew)
      BY <1>8, <2>1, <2>2, ReorganizeInvalid DEF ReorganizeConnect
    <3>2. Abort
      BY <1>8, <2>2 DEF ReorganizeConnect
    <3> QED BY <2>1, <3>1, <3>2, InvalidBest DEF Abort, indexVars, Trying
  <2>3. CASE ConnectBlockOK(b, txn)
    <3>1. cursor' = b /\ UNCHANGED <<mapBlockIndex, pindexBest, pindexNew, pc, torn>>
      BY <1>8, <2>3 DEF ReorganizeConnect, indexVars
    <3> HIDE DEF b
    <3>2. torn = "no" /\ ValidChain(cursor) => ValidChain(b)
      BY <1>a, <2>1, <2>3, SameVerdict, ValidStep DEF LedgerInv
    <3> QED BY <2>1, <3>1, <3>2 DEF BestInv
  <2> QED BY <2>2, <2>3
<1>9. CASE ReorganizeCommit
  <2> SUFFICES ASSUME crashes' = 0, faults' = 0 PROVE BestInv'
    BY DEF BestInv
  <2>1. /\ pc = "reorganize" /\ pc' = "secondary" /\ cursor = pindexIntermediate
        /\ UNCHANGED <<mapBlockIndex, pindexBest, pindexNew, cursor, crashes, faults>>
        /\ torn' = IF torn = "memory" THEN "disk" ELSE torn
    BY <1>9 DEF ReorganizeCommit, Committed, bounds, indexVars, jobVars
  <2>2. torn = "no" /\ ValidChain(cursor)
    BY <2>1 DEF BestInv
  <2>3. /\ pindexIntermediate \in Chain[pindexNew]
        /\ ChainTrust[pindexIntermediate] > ChainTrust[pindexBest]
    BY <1>0, <2>1 DEF JobInv
  <2>4. pindexIntermediate \in mapBlockIndex
    BY <1>a, <2>3 DEF IndexInv
  <2>5. pindexIntermediate = pindexNew
    BY <1>0, <1>a, <2>1, <2>2, <2>3, <2>4 DEF BestInv
  <2> QED BY <1>0, <1>a, <2>1, <2>2, <2>3, <2>5 DEF BestInv, Trying
<1>10. CASE pc = "secondary" /\ cursor # pindexNew /\ UNCHANGED <<crashes, faults>>
  BY <1>10 DEF BestInv
<1>11. CASE SecondaryDone
  <2> SUFFICES ASSUME crashes' = 0, faults' = 0 PROVE BestInv'
    BY DEF BestInv
  <2>2. /\ pc = "secondary" /\ pc' = "accepted" /\ pindexBest' = pindexNew
        /\ UNCHANGED <<mapBlockIndex, torn, crashes, faults>>
    BY <1>11 DEF SecondaryDone, indexVars, bounds
  <2>3. /\ torn = "no" /\ ValidChain(pindexNew) /\ ChainTrust[pindexBest] < ChainTrust[pindexNew]
        /\ \A b \in mapBlockIndex : ValidChain(b) =>
             ChainTrust[b] <= ChainTrust[pindexBest] \/ b = pindexNew
    BY <2>2 DEF BestInv
  <2>4. \A b \in mapBlockIndex : ValidChain(b) => ChainTrust[b] <= ChainTrust[pindexNew]
    BY <1>0, <1>a, <2>2, <2>3
  <2> QED BY <2>2, <2>3, <2>4 DEF BestInv
<1>12. CASE AcceptBlockReturns
  BY <1>12, SameBest DEF AcceptBlockReturns, chainVars, bounds, Trying
<1>13. ASSUME NEW o \in Block, ProcessOrphan(o) PROVE BestInv'
  <2>1. CASE AcceptBlock(o)
    BY <1>13, <2>1, AcceptBest DEF ProcessOrphan
  <2>2. CASE ~ AcceptBlock(o)
    BY <1>13, <2>2, SameBest DEF ProcessOrphan, chainVars, bounds, Trying
  <2> QED BY <2>1, <2>2
<1>14. CASE NextInQueue
  BY <1>14, SameBest DEF NextInQueue, indexVars, chainVars, bounds, Trying
<1>15. CASE StorageFault
  BY <1>15, <1>a DEF StorageFault, BestInv
<1>16. CASE CrashAndRestart
  BY <1>16, <1>a DEF CrashAndRestart, BestInv
<1>17. CASE UNCHANGED vars
  BY <1>17 DEF BestInv, vars, indexVars, chainVars, jobVars, bounds
<1> QED
  BY <1>1, <1>2, <1>3, <1>4, <1>5, <1>6, <1>7, <1>8, <1>9, <1>10, <1>11, <1>12, <1>13, <1>14,
     <1>15, <1>16, <1>17
     DEF Next, Step, ConnectSecondary, SetBestChainInner, SecondaryFails, bounds

\* A node without crash and storage fault ends every ProcessBlock on the valid
\* branch with the most trust of all it has indexed, for every tree of blocks
\* and every order of arrival.
THEOREM BestValidChain == Spec => []OnBestValidChain
<1>1. BestInv => OnBestValidChain
  BY DEF BestInv, OnBestValidChain, Trying
<1>2. Spec => [](IndexInv /\ BestInv)
  BY InitBestInv, StepIndexInv, StepBestInv, Ledgers, PTL DEF Spec
<1> QED BY <1>1, <1>2, PTL

-----------------------------------------------------------------------------
(* The orphans                                                              *)

\* An orphan whose parent is indexed waits for a parent that is in the work
\* queue or is being tried, or its parent is invalid.
OrphanInv ==
  faults = 0 /\ torn = "no" =>
    /\ pc = "failed" => ~ ValidChain(pindexNew)
    /\ \A o \in mapOrphanBlocks : Prev[o] \in mapBlockIndex =>
         \/ ~ ValidChain(Prev[o])
         \/ \E i \in DOMAIN work : work[i] = Prev[o]
         \/ Prev[o] = pindexNew /\ pc \in Trying \cup {"accepted", "failed"}

\* OrphanInv holds for a fresh node.
LEMMA InitOrphanInv == Init => OrphanInv
  BY DEF Init, OrphanInv

\* AcceptBlock makes the new block the one that is tried.
LEMMA AcceptOrphan ==
  ASSUME OrphanInv, NEW b, pc \in {"idle", "orphans"}, AcceptBlock(b)
  PROVE  OrphanInv'
<1>1. /\ mapBlockIndex' = mapBlockIndex \cup {b} /\ pindexNew' = b
      /\ UNCHANGED <<mapOrphanBlocks, work, torn, faults>>
      /\ pc' \in {"accepted", "extend", "postpone"}
  BY DEF AcceptBlock, bounds
<1>2. pc' \in Trying \cup {"accepted", "failed"} /\ pc' # "failed"
  BY <1>1 DEF Trying
<1>3. pc \notin Trying \cup {"accepted", "failed"}
  BY DEF Trying
<1> QED BY <1>1, <1>2, <1>3 DEF OrphanInv

\* The steps of SetBestChain leave the orphans alone.
LEMMA SameOrphans ==
  ASSUME OrphanInv, UNCHANGED <<mapOrphanBlocks, mapBlockIndex, pindexNew, work, faults>>,
         torn' = "no" => torn = "no",
         pc \notin {"accepted", "failed"}, pc' \in Trying \cup {"accepted", "failed"},
         torn' = "no" /\ faults = 0 /\ pc' = "failed" => ~ ValidChain(pindexNew)
  PROVE  OrphanInv'
  BY DEF OrphanInv

\* Every step of the node keeps OrphanInv.
LEMMA StepOrphanInv ==
  IInv /\ TipInv /\ LedgerInv /\ IndexInv /\ OrphanInv /\ [Next]_vars => OrphanInv'
<1> SUFFICES ASSUME IInv, TipInv, LedgerInv, IndexInv, OrphanInv, [Next]_vars PROVE OrphanInv'
  OBVIOUS
<1>0. TypeOK /\ JobInv /\ faults \in Nat /\ work \in Seq(Block) /\ pindexNew \in Block
  BY DEF IInv, TypeOK
<1>1. ASSUME NEW b \in Block \ {Genesis}, ProcessBlock(b) PROVE OrphanInv'
  <2>1. CASE KeepOrphan(b) /\ Prev[b] \notin mapBlockIndex
    BY <1>1, <2>1 DEF ProcessBlock, KeepOrphan, OrphanInv, jobVars, bounds
  <2>2. CASE AcceptBlock(b)
    BY <1>1, <2>2, AcceptOrphan DEF ProcessBlock
  <2> QED BY <1>1, <2>1, <2>2 DEF ProcessBlock
<1>2. ASSUME NEW t \in Tx, AcceptToMemoryPool(t) PROVE OrphanInv'
  BY <1>2 DEF AcceptToMemoryPool, OrphanInv, indexVars, jobVars, bounds
<1>3. CASE Extend
  BY <1>3, SameOrphans DEF Extend, SetBestChainInner, Committed, indexVars, bounds, Trying
<1>4. CASE ExtendFails
  <2>1. torn = "no" => ~ ValidChain(pindexNew)
    BY <1>4, ExtendInvalid
  <2> QED BY <1>4, <2>1, SameOrphans DEF ExtendFails, Abort, indexVars, jobVars, bounds, Trying
<1>5. CASE Postpone
  BY <1>5, SameOrphans DEF Postpone, indexVars, bounds, Trying
<1>6. CASE BeginReorganize
  BY <1>6, SameOrphans DEF BeginReorganize, indexVars, jobVars, bounds, Trying
<1>7. CASE ReorganizeDisconnect
  BY <1>7, SameOrphans DEF ReorganizeDisconnect, bounds, Trying
<1>8. CASE ReorganizeConnect
  <2>1. pc = "reorganize" /\ faults' = faults
    BY <1>8 DEF ReorganizeConnect, bounds
  <2>2. CASE ~ ConnectBlockOK(Toward(cursor, pindexIntermediate), txn)
    <3>1. torn = "no" => ~ ValidChain(pindexNew)
      BY <1>8, <2>1, <2>2, ReorganizeInvalid DEF ReorganizeConnect
    <3>2. Abort
      BY <1>8, <2>2 DEF ReorganizeConnect
    <3> QED BY <2>1, <3>1, <3>2, SameOrphans DEF Abort, indexVars, jobVars, Trying
  <2>3. CASE ConnectBlockOK(Toward(cursor, pindexIntermediate), txn)
    <3>1. UNCHANGED <<mapOrphanBlocks, mapBlockIndex, pindexNew, work, pc, torn>>
      BY <1>8, <2>3 DEF ReorganizeConnect, indexVars
    <3> QED BY <2>1, <3>1, SameOrphans DEF Trying
  <2> QED BY <2>2, <2>3
<1>9. CASE ReorganizeCommit
  BY <1>9, SameOrphans DEF ReorganizeCommit, Committed, indexVars, jobVars, bounds, Trying
<1>10. CASE ConnectSecondary
  BY <1>10, SameOrphans DEF ConnectSecondary, SetBestChainInner, Committed, indexVars, bounds, Trying
<1>11. CASE BreakSecondary
  BY <1>11 DEF BreakSecondary, OrphanInv
<1>12. CASE SecondaryDone
  BY <1>12, SameOrphans DEF SecondaryDone, indexVars, jobVars, bounds, Trying
<1>13. CASE AcceptBlockReturns
  <2> SUFFICES ASSUME faults' = 0, torn' = "no" PROVE OrphanInv'
    BY DEF OrphanInv
  <2>1. /\ pc \in {"accepted", "failed"} /\ pc' \in {"idle", "orphans"}
        /\ work' = (IF pc = "accepted" THEN Append(work, pindexNew) ELSE work)
        /\ mapOrphanBlocks' \subseteq mapOrphanBlocks
        /\ UNCHANGED <<mapBlockIndex, torn, faults>>
    BY <1>13 DEF AcceptBlockReturns, ForgetOrphan, bounds
  <2>2. \A x : (\E i \in DOMAIN work : work[i] = x) => \E i \in DOMAIN work' : work'[i] = x
    <3>1. CASE pc = "accepted"
      BY <1>0, <2>1, <3>1
    <3>2. CASE pc # "accepted"
      BY <2>1, <3>2
    <3> QED BY <3>1, <3>2
  <2>3. pc = "accepted" => \E i \in DOMAIN work' : work'[i] = pindexNew
    <3> SUFFICES ASSUME pc = "accepted" PROVE \E i \in DOMAIN work' : work'[i] = pindexNew
      OBVIOUS
    <3>1. work' = Append(work, pindexNew)
      BY <2>1
    <3>2. Len(work) + 1 \in DOMAIN work' /\ work'[Len(work) + 1] = pindexNew
      BY <1>0, <3>1
    <3> QED BY <3>2
  <2>4. pc = "failed" => ~ ValidChain(pindexNew)
    BY <2>1 DEF OrphanInv
  <2>5. ASSUME NEW o \in mapOrphanBlocks', Prev[o] \in mapBlockIndex
        PROVE  ~ ValidChain(Prev[o]) \/ \E i \in DOMAIN work' : work'[i] = Prev[o]
    <3>1. \/ ~ ValidChain(Prev[o])
          \/ \E i \in DOMAIN work : work[i] = Prev[o]
          \/ Prev[o] = pindexNew
      BY <2>1, <2>5 DEF OrphanInv
    <3> QED BY <2>1, <2>2, <2>3, <2>4, <3>1
  <2> QED BY <2>1, <2>5 DEF OrphanInv
<1>14. ASSUME NEW o \in Block, ProcessOrphan(o) PROVE OrphanInv'
  <2>1. CASE AcceptBlock(o)
    BY <1>14, <2>1, AcceptOrphan DEF ProcessOrphan
  <2>2. CASE ~ AcceptBlock(o)
    <3>1. mapOrphanBlocks' \subseteq mapOrphanBlocks
          /\ UNCHANGED <<mapBlockIndex, pindexNew, work, pc, torn, faults>>
      BY <1>14, <2>2 DEF ProcessOrphan, ForgetOrphan, jobVars, bounds
    <3> QED BY <3>1 DEF OrphanInv
  <2> QED BY <2>1, <2>2
<1>15. CASE NextInQueue
  <2> SUFFICES ASSUME faults' = 0, torn' = "no" PROVE OrphanInv'
    BY DEF OrphanInv
  <2>1. /\ pc = "orphans" /\ pc' \in {"idle", "orphans"} /\ work' = Tail(work)
        /\ \A o \in mapOrphanBlocks : Prev[o] # Head(work)
        /\ UNCHANGED <<mapBlockIndex, mapOrphanBlocks, pindexNew, torn, faults>>
    BY <1>15 DEF NextInQueue, WantedByOrphans, indexVars, jobVars, bounds
  <2>2. work # << >>
    BY <1>0, <2>1 DEF JobInv
  <2>3. ASSUME NEW i \in DOMAIN work, work[i] # Head(work)
        PROVE  \E j \in DOMAIN work' : work'[j] = work[i]
    <3>1. i \in 1 .. Len(work) /\ i # 1
      BY <1>0, <2>2, <2>3
    <3>2. i - 1 \in DOMAIN work' /\ work'[i - 1] = work[i]
      BY <1>0, <2>1, <2>2, <3>1
    <3> QED BY <3>2
  <2>4. ASSUME NEW o \in mapOrphanBlocks, Prev[o] \in mapBlockIndex
        PROVE  ~ ValidChain(Prev[o]) \/ \E j \in DOMAIN work' : work'[j] = Prev[o]
    <3>1. \/ ~ ValidChain(Prev[o])
          \/ \E i \in DOMAIN work : work[i] = Prev[o]
      BY <2>1, <2>4 DEF OrphanInv, Trying
    <3> QED BY <2>1, <2>3, <3>1
  <2> QED BY <2>1, <2>4 DEF OrphanInv
<1>16. CASE StorageFault
  BY <1>0, <1>16 DEF StorageFault, OrphanInv
<1>17. CASE CrashAndRestart
  BY <1>17 DEF CrashAndRestart, OrphanInv
<1>18. CASE UNCHANGED vars
  BY <1>18 DEF OrphanInv, vars, indexVars, jobVars, bounds
<1> QED
  BY <1>1, <1>2, <1>3, <1>4, <1>5, <1>6, <1>7, <1>8, <1>9, <1>10, <1>11, <1>12, <1>13, <1>14,
     <1>15, <1>16, <1>17, <1>18 DEF Next, Step, SecondaryFails

\* When ProcessBlock returns every orphan that could be connected has been
\* tried, through chains of orphans, invalid ones in between and restarts.
THEOREM OrphansWorkedOff == Spec => []NoConnectableOrphan
<1>1. IndexInv /\ OrphanInv => NoConnectableOrphan
  BY DEF IndexInv, OrphanInv, NoConnectableOrphan, Trying
<1>2. Spec => []IndexInv
  BY InitBestInv, StepIndexInv, Ledgers, PTL DEF Spec
<1>3. Spec => []OrphanInv
  BY <1>2, InitOrphanInv, StepOrphanInv, Ledgers, PTL DEF Spec
<1> QED BY <1>1, <1>2, <1>3, PTL

-----------------------------------------------------------------------------
(* The mempool over a reorganization                                        *)

\* No transaction of the pool is on the committed branch.
PoolApart == torn # "disk" => mapTx \cap Confirmed(db.best) = {}

\* What remove(tx, true) takes along spends an output of what it takes.
LEMMA Descends ==
  ASSUME NEW pool \in SUBSET Tx, NEW T \in SUBSET pool, NEW t \in WithDescendants(T, pool), t \notin T
  PROVE  \E c \in Vin[t] : c[1] \in WithDescendants(T, pool)
<1> DEFINE D == WithDescendants(T, pool)
           Closed(S) == T \subseteq S /\ \A u \in pool : Vin[u] \cap MadeBy(S) # {} => u \in S
           S == D \ {t}
<1>1. /\ D \subseteq pool
      /\ \A u \in pool : u \in D <=> \A Q \in SUBSET pool : Closed(Q) => u \in Q
  BY DEF WithDescendants
<1> HIDE DEF D
<1>2. ASSUME NEW P, NEW Q, P \subseteq Q PROVE MadeBy(P) \subseteq MadeBy(Q)
  BY <1>2 DEF MadeBy
<1>3. Closed(D)
  <2>1. T \subseteq D
    BY <1>1
  <2>2. ASSUME NEW u \in pool, Vin[u] \cap MadeBy(D) # {} PROVE u \in D
    <3> SUFFICES ASSUME NEW Q \in SUBSET pool, Closed(Q) PROVE u \in Q
      BY <1>1
    <3>1. D \subseteq Q
      BY <1>1
    <3>2. MadeBy(D) \subseteq MadeBy(Q)
      BY <1>2, <3>1
    <3> QED BY <2>2, <3>2
  <2> QED BY <2>1, <2>2
<1>4. ~ Closed(S)
  BY <1>1 DEF D
<1>5. T \subseteq S
  BY <1>3
<1>6. PICK u \in pool : Vin[u] \cap MadeBy(S) # {} /\ u \notin S
  BY <1>4, <1>5
<1>7. u = t
  <2>1. MadeBy(S) \subseteq MadeBy(D)
    BY <1>2
  <2>2. u \in D
    BY <1>3, <1>6, <2>1
  <2> QED BY <1>6, <2>2
<1>8. PICK c \in Vin[t] : c \in MadeBy(S)
  BY <1>6, <1>7
<1>9. t \in Tx /\ c \in OutPoint /\ S \in SUBSET Tx
  BY <1>1, <1>8, VinType DEF D
<1>10. c[1] \in S
  BY <1>8, <1>9, OutPointFacts
<1> QED BY <1>10 DEF D

\* A step of the branch that is not a reorganization.
LEMMA InnerApart ==
  ASSUME TypeOK, PoolApart, NEW b \in Block \ {Genesis}, SetBestChainInner(b),
         torn # "disk", Prev[b] = db.best
  PROVE  mapTx' \cap Confirmed(db'.best) = {} /\ Confirmed(db.best) \subseteq Confirmed(db'.best)
<1>1. db'.best = b /\ mapTx' = mapTx \ TxsOf(b)
  BY InnerType DEF SetBestChainInner, Remove
<1>2. Confirmed(b) = Confirmed(db.best) \cup TxsOf(b)
  BY ConfirmedStep
<1> QED BY <1>1, <1>2 DEF PoolApart

\* The blocks a reorganization connects and those of the old branch make up
\* the new one.
LEMMA NewBranch ==
  ASSUME NEW t \in Confirmed(pindexIntermediate)
  PROVE  \/ t \in UNION {TxsOf(b) : b \in Connected}
         \/ \E a \in (Chain[pindexBest] \cap Chain[pindexIntermediate]) \ {Genesis} : t \in TxsOf(a)
  BY DEF Confirmed, Connected

\* What the clean-up after a reorganization leaves is not on the new branch.
LEMMA CommitPool ==
  ASSUME IInv, PoolApart, torn = "no", Exact(db, db.best), pindexBest = db.best,
         NEW R \in SUBSET Candidates, NEW t \in mapTx \cup R,
         t \notin UNION {TxsOf(b) : b \in Connected}
  PROVE  t \notin Confirmed(pindexIntermediate)
<1> SUFFICES ASSUME t \in Confirmed(pindexIntermediate) PROVE FALSE
  OBVIOUS
<1>1. PICK a \in (Chain[db.best] \cap Chain[pindexIntermediate]) \ {Genesis} : t \in TxsOf(a)
  BY NewBranch
<1>2. db.best \in Block /\ Chain[db.best] \subseteq Block
  BY ChainAssumption DEF IInv, TypeOK, Ledger
<1>3. t \in Confirmed(db.best)
  BY <1>1 DEF Confirmed
<1>4. t \notin mapTx
  BY <1>3 DEF PoolApart
<1>5. PICK d \in Disconnected : t \in TxsOf(d)
  BY <1>4 DEF Candidates
<1>6. d \in Chain[db.best] \ {Genesis} /\ d # a
  <2>1. Genesis \in Chain[pindexIntermediate]
    BY ChainAssumption DEF IInv, TypeOK
  <2> QED BY <1>1, <1>5, <2>1 DEF Disconnected
<1>7. t \in Tx
  BY <1>2, <1>3, ConfirmedType
<1>8. db.pos[t] = a /\ db.pos[t] = d
  BY <1>1, <1>2, <1>5, <1>6, <1>7 DEF Exact, IsLedgerOf
<1> QED BY <1>6, <1>8

\* The start of a node.
LEMMA InitPoolApart == Init => PoolApart
  BY DEF Init, PoolApart

\* What the clean-up keeps.
LEMMA CleanUpParts ==
  ASSUME NEW pool, NEW vDelete, NEW t \in pool \ CleanUp(pool, vDelete)
  PROVE  t \notin vDelete
  BY DEF CleanUp

\* The pool after a reorganization is apart from the new branch.
LEMMA CommitApart ==
  ASSUME IInv, TipInv, LedgerInv, PoolApart, ReorganizeCommit, torn = "no"
  PROVE  mapTx' \cap Confirmed(db'.best) = {}
<1>1. PICK R \in SUBSET Candidates : Resurrected(R) /\ ReorganizePool(R)
  BY DEF ReorganizeCommit
<1>2. db'.best = pindexIntermediate
  BY DEF ReorganizeCommit, IInv, TypeOK, Ledger
<1>3. pindexBest = db.best /\ Exact(db, db.best)
  BY DEF ReorganizeCommit, TipInv, LedgerInv
<1> DEFINE vDelete == UNION {TxsOf(b) : b \in Connected}
<1> SUFFICES ASSUME NEW t \in mapTx' PROVE t \notin Confirmed(pindexIntermediate)
  BY <1>2
<1>4. t \in (mapTx \cup R) \ CleanUp(mapTx \cup R, vDelete)
  BY <1>1 DEF ReorganizePool
<1>5. t \notin vDelete
  BY <1>4, CleanUpParts
<1> QED BY <1>3, <1>4, <1>5, CommitPool

\* Every step of the node keeps the pool apart from the committed branch.
LEMMA StepPoolApart == IInv /\ TipInv /\ LedgerInv /\ PoolApart /\ [Next]_vars => PoolApart'
<1> SUFFICES ASSUME IInv, TipInv, LedgerInv, PoolApart, [Next]_vars, torn' # "disk"
             PROVE  mapTx' \cap Confirmed(db'.best) = {}
  BY DEF PoolApart
<1> USE DEF IInv
<1>1. ASSUME NEW t \in Tx, AcceptToMemoryPool(t) PROVE mapTx' \cap Confirmed(db'.best) = {}
  <2>1. torn # "disk" /\ db' = db /\ mapTx' = mapTx \cup {t} /\ db.pos[t] = NoBlock
    BY <1>1 DEF AcceptToMemoryPool, AddUnchecked, chainVars
  <2>2. Exact(db, db.best) /\ db \in Ledger /\ db.best \in Block
    BY <2>1 DEF LedgerInv, TypeOK, Ledger
  <2>3. t \notin Confirmed(db.best)
    BY <2>1, <2>2, ExactIsSound
  <2> QED BY <2>1, <2>3 DEF PoolApart
<1>2. CASE Extend
  <2>1. torn = "no"
    BY <1>2 DEF Extend, SetBestChainInner, Committed, TypeOK
  <2>2. pindexNew \in Block \ {Genesis} /\ Prev[pindexNew] = db.best
    BY <1>2, <2>1 DEF Extend, TypeOK, JobInv, TipInv
  <2> QED BY <1>2, <2>1, <2>2, InnerApart DEF Extend
<1>3. CASE ReorganizeCommit
  <2>1. torn = "no"
    BY <1>3 DEF ReorganizeCommit, Committed, TypeOK
  <2> QED BY <1>3, <2>1, CommitApart
<1>4. CASE ConnectSecondary
  <2>1. torn = "no"
    BY <1>4 DEF ConnectSecondary, SetBestChainInner, Committed, TypeOK
  <2> DEFINE b == Toward(cursor, pindexNew)
  <2>2. b \in Block \ {Genesis} /\ Prev[b] = db.best /\ SetBestChainInner(b)
    BY <1>4, TowardType DEF ConnectSecondary, TypeOK, JobInv
  <2> HIDE DEF b
  <2> QED BY <2>1, <2>2, InnerApart
<1>5. CASE CrashAndRestart
  BY <1>5 DEF CrashAndRestart
<1>6. CASE torn # "disk" /\ UNCHANGED <<mapTx, db>>
  BY <1>6 DEF PoolApart
<1>7. CASE BreakSecondary
  BY <1>6, <1>7 DEF BreakSecondary, poolVars
<1>8. CASE Abort
  BY <1>6, <1>8 DEF Abort, poolVars
<1>9. ASSUME NEW b, ProcessBlock(b) \/ ProcessOrphan(b) PROVE UNCHANGED <<mapTx, db, torn>>
  BY <1>9 DEF ProcessBlock, ProcessOrphan, KeepOrphan, AcceptBlock, poolVars, chainVars
<1>10. CASE ReorganizeConnect
  BY <1>6, <1>8, <1>10 DEF ReorganizeConnect, poolVars
<1>11. CASE \/ Postpone \/ BeginReorganize \/ ReorganizeDisconnect \/ SecondaryDone
            \/ AcceptBlockReturns \/ NextInQueue \/ UNCHANGED vars
  BY <1>6, <1>11
     DEF Postpone, BeginReorganize, ReorganizeDisconnect, SecondaryDone, AcceptBlockReturns,
         NextInQueue, vars, poolVars, chainVars
<1> QED
  BY <1>1, <1>2, <1>3, <1>4, <1>5, <1>6, <1>7, <1>8, <1>9, <1>10, <1>11
     DEF Next, Step, ExtendFails, SecondaryFails, StorageFault

\* What NoTransactionLost asks of a transaction t the old branch confirmed.
Accounted(t, now, before) ==
  \/ t \in now
  \/ \E c \in Vin[t] : c[1] \notin now \/ \E u \in (now \cup before) \ {t} : c \in Vin[u]

\* A reorganization accounts for every admissible transaction it disconnects.
LEMMA CommitKeeps ==
  ASSUME IInv, TipInv, LedgerInv, PoolMarksExact, PoolApart, ReorganizeCommit, torn = "no",
         NEW t \in Confirmed(db.best) \cap Standard
  PROVE  Accounted(t, Confirmed(db'.best) \cup mapTx', mapTx)
<1> DEFINE vDelete == UNION {TxsOf(b) : b \in Connected}
           now == Confirmed(db'.best) \cup mapTx'
<1> SUFFICES ASSUME t \notin now
             PROVE  \E c \in Vin[t] : c[1] \notin now \/ \E u \in (now \cup mapTx) \ {t} : c \in Vin[u]
  BY DEF Accounted
<1>1. PICK R \in SUBSET Candidates : Resurrected(R) /\ ReorganizePool(R)
  BY DEF ReorganizeCommit
<1> DEFINE pool == mapTx \cup R
           conflicting == Conflicts(vDelete, pool)
           gone == WithDescendants(conflicting, pool \ vDelete)
<1>2. db'.best = pindexIntermediate
  BY DEF ReorganizeCommit, IInv, TypeOK, Ledger
<1>3. pindexBest = db.best /\ Exact(db, db.best)
  BY DEF ReorganizeCommit, TipInv, LedgerInv
<1>4. mapTx' = pool \ (vDelete \cup gone)
  BY <1>1 DEF ReorganizePool, CleanUp
<1>5. db.best \in Block /\ mapTx \subseteq Tx /\ t \in Tx /\ Vin[t] \subseteq OutPoint /\ pool \in SUBSET Tx
  BY TxAssumption DEF IInv, TypeOK, Ledger, Candidates
<1>6. vDelete \subseteq Confirmed(db'.best)
  <2>1. ASSUME NEW b \in Connected PROVE b \in Chain[pindexIntermediate] \ {Genesis}
    BY ChainAssumption DEF Connected, IInv, TypeOK
  <2> QED BY <1>2, <2>1 DEF Confirmed
<1>7. PICK d \in Disconnected : t \in TxsOf(d)
  <2>1. PICK d \in Chain[db.best] \ {Genesis} : t \in TxsOf(d)
    BY DEF Confirmed
  <2>2. d \notin Chain[pindexIntermediate]
    BY <1>2, <2>1 DEF Confirmed
  <2> QED BY <1>3, <2>1, <2>2 DEF Disconnected
<1>8. t \notin mapTx
  BY DEF PoolApart
<1>9. ASSUME NEW c \in Vin[t], mapNextTx[c] # NoTx
      PROVE  \E u \in mapTx \ {t} : c \in Vin[u]
  <2>1. c \in OutPoint /\ mapNextTx[c] \in Tx
    BY <1>5, <1>9 DEF IInv, TypeOK
  <2>2. mapNextTx[c] \in mapTx /\ c \in Vin[mapNextTx[c]]
    BY <2>1 DEF PoolMarksExact, ExactMarks
  <2> QED BY <1>8, <2>2
<1>10. ASSUME \A c \in Vin[t] : mapNextTx[c] = NoTx PROVE t \in R
  <2>1. t \in Candidates
    BY <1>7, <1>8, <1>10 DEF Candidates
  <2> SUFFICES ASSUME t \notin R PROVE FALSE
    OBVIOUS
  <2>2. Disjoint(R) /\ ~ Disjoint(R \cup {t})
    BY <1>1, <2>1 DEF Resurrected
  <2>3. PICK r \in R : r # t /\ Vin[r] \cap Vin[t] # {}
    BY <2>2 DEF Disjoint
  <2>4. r \in Confirmed(db.best)
    <3>1. PICK e \in Disconnected : r \in TxsOf(e)
      BY <1>1 DEF Candidates
    <3>2. e \in Chain[db.best] \ {Genesis}
      BY <1>3, <3>1, ChainAssumption DEF Disconnected, IInv, TypeOK
    <3> QED BY <3>1, <3>2 DEF Confirmed
  <2>5. PICK c \in Vin[t] : c \in Vin[r]
    BY <2>3
  <2>6. c \in OutPoint /\ r \in Tx
    BY <1>5, <2>4, <2>5, ConfirmedType
  <2>7. db.spent[c] = r /\ db.spent[c] = t
    BY <1>3, <1>5, <2>4, <2>5, <2>6 DEF Exact, IsLedgerOf
  <2> QED BY <2>3, <2>7
<1>11. ASSUME t \in R
       PROVE  \E c \in Vin[t] : c[1] \notin now \/ \E u \in now \ {t} : c \in Vin[u]
  <2>1. t \in gone
    BY <1>4, <1>6, <1>11
  <2>2. CASE t \in conflicting
    <3>1. PICK u \in vDelete : Vin[t] \cap Vin[u] # {}
      BY <2>2 DEF Conflicts, SpentBy
    <3> QED BY <1>6, <3>1
  <2>3. CASE t \notin conflicting
    <3>1. conflicting \in SUBSET (pool \ vDelete) /\ pool \ vDelete \in SUBSET Tx
      BY <1>5 DEF Conflicts
    <3>2. PICK c \in Vin[t] : c[1] \in gone
      BY <2>1, <2>3, <3>1, Descends
    <3>3. c[1] \in pool \ vDelete
      BY <3>2 DEF WithDescendants
    <3>4. c[1] \notin Confirmed(db'.best)
      BY <1>1, <1>2, <1>3, <3>3, CommitPool
    <3>5. c[1] \notin mapTx'
      BY <1>4, <3>2
    <3> QED BY <3>2, <3>4, <3>5
  <2> QED BY <2>2, <2>3
<1> QED BY <1>9, <1>10, <1>11

\* A commit accounts for every admissible transaction of the branch it leaves.
LEMMA StepKeeps ==
  ASSUME IInv, TipInv, LedgerInv, PoolMarksExact, PoolApart, [Next]_vars,
         db'.best # db.best, torn' = "no",
         NEW t \in Confirmed(db.best) \cap Standard
  PROVE  Accounted(t, Confirmed(db'.best) \cup mapTx', mapTx)
<1> USE DEF IInv
<1>1. CASE Extend
  <2>1. torn = "no"
    BY <1>1 DEF Extend, SetBestChainInner, Committed, TypeOK
  <2>2. pindexNew \in Block \ {Genesis} /\ Prev[pindexNew] = db.best
    BY <1>1, <2>1 DEF Extend, TypeOK, JobInv, TipInv
  <2>3. Confirmed(db.best) \subseteq Confirmed(db'.best)
    BY <1>1, <2>1, <2>2, InnerApart DEF Extend
  <2> QED BY <2>3 DEF Accounted
<1>2. CASE ReorganizeCommit
  <2>1. torn = "no"
    BY <1>2 DEF ReorganizeCommit, Committed, TypeOK
  <2> QED BY <1>2, <2>1, CommitKeeps
<1>3. CASE ConnectSecondary
  <2>1. torn = "no"
    BY <1>3 DEF ConnectSecondary, SetBestChainInner, Committed, TypeOK
  <2> DEFINE b == Toward(cursor, pindexNew)
  <2>2. b \in Block \ {Genesis} /\ Prev[b] = db.best /\ SetBestChainInner(b)
    BY <1>3, TowardType DEF ConnectSecondary, TypeOK, JobInv
  <2> HIDE DEF b
  <2>3. Confirmed(db.best) \subseteq Confirmed(db'.best)
    BY <2>1, <2>2, InnerApart
  <2> QED BY <2>3 DEF Accounted
<1>4. CASE UNCHANGED db
  BY <1>4
<1> QED
  BY <1>1, <1>2, <1>3, <1>4
     DEF Next, Step, ProcessBlock, KeepOrphan, AcceptBlock, AcceptToMemoryPool, ExtendFails, Abort,
         Postpone, BeginReorganize, ReorganizeDisconnect, ReorganizeConnect, SecondaryFails,
         BreakSecondary, SecondaryDone, AcceptBlockReturns, ProcessOrphan, NextInQueue,
         StorageFault, CrashAndRestart, vars, chainVars

\* No commit, that of a reorganization of any depth included, loses an
\* admissible transaction: what it takes off the chain is on the new branch or
\* back in the pool, or cannot be there.
THEOREM TransactionsAreKept == Spec => NoTransactionLost
<1> DEFINE Kept == LET now == Confirmed(db'.best) \cup mapTx'
                   IN  \A t \in Confirmed(db.best) \cap Standard :
                         \/ t \in now
                         \/ \E c \in Vin[t] :
                              c[1] \notin now \/ \E u \in (now \cup mapTx) \ {t} : c \in Vin[u]
           Inv == IInv /\ TipInv /\ LedgerInv /\ PoolMarksExact /\ PoolApart
<1>1. Inv /\ [Next]_vars => [db'.best # db.best /\ torn' = "no" => Kept]_vars
  <2> SUFFICES ASSUME Inv, [Next]_vars, db'.best # db.best, torn' = "no" PROVE Kept
    OBVIOUS
  <2>1. ASSUME NEW t \in Confirmed(db.best) \cap Standard
        PROVE  Accounted(t, Confirmed(db'.best) \cup mapTx', mapTx)
    BY <2>1, StepKeeps
  <2> QED BY <2>1 DEF Accounted
<1>2. Spec => []PoolApart
  BY InitPoolApart, StepPoolApart, Ledgers, PTL DEF Spec
<1> HIDE DEF Kept
<1>3. Spec => [][db'.best # db.best /\ torn' = "no" => Kept]_vars
  BY <1>1, <1>2, Ledgers, PoolMarks, PTL DEF Spec
<1> QED BY <1>3 DEF NoTransactionLost, Kept

=============================================================================
