----------------------------- MODULE ChainState -----------------------------
(***************************************************************************)
(* The block chain of one node: ProcessBlock and everything it calls that  *)
(* changes state (AcceptBlock, AddToBlockIndex, SetBestChain, Reorganize,  *)
(* ConnectBlock, DisconnectBlock, the mempool clean-up), the admission of  *)
(* single transactions, and a crash followed by LoadBlockIndex.            *)
(*                                                                         *)
(* ProcessBlock runs under cs_main, so its steps interleave with nothing   *)
(* but a crash; they are separate actions because a crash between two of   *)
(* them is what the database transactions are there for.                   *)
(***************************************************************************)
EXTENDS ChainTypes

CONSTANTS
  InitialDownload,   \* IsInitialBlockDownload()
  MaxCrashes,        \* bound on crashes of the node
  MaxFaults          \* bound on failed reads and commits of the storage

ASSUME BoundAssumption ==
  /\ InitialDownload \in BOOLEAN
  /\ MaxCrashes \in Nat
  /\ MaxFaults \in Nat

VARIABLES
  mapBlockIndex,       \* indexed blocks; on disk as well (see AcceptBlock)
  mapOrphanBlocks,     \* blocks whose parent is not indexed yet
  setStakeSeen,        \* kernels of indexed blocks
  setStakeSeenOrphan,  \* kernels of orphan blocks
  pindexBest,          \* the tip in memory (with hashBestChain, nBestChainTrust)
  pnext,               \* CBlockIndex::pnext in memory
  db,                  \* the LevelDB content: see Ledger below
  txn,                 \* db as seen through activeBatch while Reorganize runs
  pindexNew,           \* the block AcceptBlock is working on
  pindexIntermediate,  \* the block Reorganize moves to
  cursor,              \* the block up to which the chain is connected
  work,                \* vWorkQueue from position i on
  pc,                  \* where ProcessBlock is
  mapTx, mapNextTx,    \* the mempool: transactions, and who spends an outpoint
  torn,                \* history: has a connection of postponed blocks been cut
                       \* short ("memory"), and has the database been written
                       \* on top of the wrong tip since ("disk")
  crashes, faults      \* how many there have been

indexVars == <<mapBlockIndex, mapOrphanBlocks, setStakeSeen, setStakeSeenOrphan>>
chainVars == <<pindexBest, pnext, db, txn>>
jobVars   == <<pindexNew, pindexIntermediate, cursor>>
poolVars  == <<mapTx, mapNextTx>>
bounds    == <<crashes, faults>>
vars      == <<indexVars, chainVars, jobVars, work, pc, poolVars, torn, bounds>>

-----------------------------------------------------------------------------
(* The database: hashBestChain, CTxIndex::pos and CTxIndex::vSpent of every *)
(* transaction, CDiskBlockIndex::hashNext of every block.                   *)

Ledger == [best  : Block,
           pos   : [Tx -> Block \cup {NoBlock}],
           spent : [OutPoint -> Tx \cup {NoTx}],
           next  : [Block -> Block \cup {NoBlock}]]

EmptyLedger ==
  [best  |-> Genesis,
   pos   |-> [t \in Tx |-> NoBlock],
   spent |-> [c \in OutPoint |-> NoTx],
   next  |-> [b \in Block |-> NoBlock]]

StakeOf(b) == {Stake[b]} \ {NoStake}

\* ConnectInputs: outputs of a generated transaction of block a can be spent
\* in a block of the branch of b only Maturity blocks later.
Mature(a, b) == a \in Chain[b] => Height(b) - Height(a) >= Maturity

\* The check that an input exists is left out.
MutInputOKMissing(b, i, c, x) ==
  LET earlier == {Vtx[b][j] : j \in 1 .. i - 1}
  IN  c \notin SpentBy(earlier) /\ (c[1] \notin earlier => x.spent[c] = NoTx)

\* The checks of ConnectBlock, FetchInputs and ConnectInputs against the
\* transaction index x.
InputOK(b, i, c, x) ==
  LET earlier == {Vtx[b][j] : j \in 1 .. i - 1}     \* mapQueuedChanges
      pos     == IF c[1] \in earlier THEN b ELSE x.pos[c[1]]
  IN  /\ pos # NoBlock
      /\ c[1] \in Generated => Mature(pos, b)
      /\ c \notin SpentBy(earlier)
      /\ c[1] \notin earlier => x.spent[c] = NoTx

ConnectBlockOK(b, x) ==
  /\ b \notin BadBlock
  /\ \A i \in DOMAIN Vtx[b] :
       LET t == Vtx[b][i]
       IN  /\ x.pos[t] # NoBlock => \A c \in Vout(t) : x.spent[c] # NoTx
           /\ \A c \in Vin[t] : InputOK(b, i, c, x)

\* WriteHashBestChain is left out.
MutConnectBlockBest(b, x, nx) ==
  [best  |-> x.best,
   pos   |-> [t \in Tx |-> IF t \in TxsOf(b) THEN b ELSE x.pos[t]],
   spent |-> [c \in OutPoint |->
                IF c \in SpentBy(TxsOf(b)) THEN CHOOSE t \in TxsOf(b) : c \in Vin[t]
                ELSE IF c \in MadeBy(TxsOf(b)) THEN NoTx ELSE x.spent[c]],
   next  |-> [a \in Block |->
                IF a = Prev[b] THEN b ELSE IF a = b THEN nx[b] ELSE x.next[a]]]

\* The writes of ConnectBlock: its own block index entry with the pnext it
\* finds in memory, the transaction index, and the parent's hashNext.
ConnectBlock(b, x, nx) ==
  [best  |-> b,
   pos   |-> [t \in Tx |-> IF t \in TxsOf(b) THEN b ELSE x.pos[t]],
   spent |-> [c \in OutPoint |->
                IF c \in SpentBy(TxsOf(b))
                THEN CHOOSE t \in TxsOf(b) : c \in Vin[t]
                ELSE IF c \in MadeBy(TxsOf(b)) THEN NoTx ELSE x.spent[c]],
   next  |-> [a \in Block |->
                IF a = Prev[b] THEN b ELSE IF a = b THEN nx[b] ELSE x.next[a]]]

\* EraseTxIndex is left out.
MutDisconnectBlockPos(b, x) ==
  [best  |-> x.best,
   pos   |-> x.pos,
   spent |-> [c \in OutPoint |->
                IF c \in SpentBy(TxsOf(b)) \cup MadeBy(TxsOf(b))
                THEN NoTx ELSE x.spent[c]],
   next  |-> [a \in Block |-> IF a = Prev[b] THEN NoBlock ELSE x.next[a]]]

\* The writes of DisconnectBlock and DisconnectInputs.
DisconnectBlock(b, x) ==
  [best  |-> x.best,
   pos   |-> [t \in Tx |-> IF t \in TxsOf(b) THEN NoBlock ELSE x.pos[t]],
   spent |-> [c \in OutPoint |->
                IF c \in SpentBy(TxsOf(b)) \cup MadeBy(TxsOf(b))
                THEN NoTx ELSE x.spent[c]],
   next  |-> [a \in Block |-> IF a = Prev[b] THEN NoBlock ELSE x.next[a]]]

-----------------------------------------------------------------------------
(* CTxMemPool                                                               *)

Marked(T)  == [c \in OutPoint |-> IF c \in SpentBy(T) THEN CHOOSE t \in T : c \in Vin[t]
                                  ELSE mapNextTx[c]]

\* mapNextTx.erase is left out.
MutUnmarkedNot(nx, T) == [c \in OutPoint |-> nx[c]]

Unmarked(nx, T) == [c \in OutPoint |-> IF c \in SpentBy(T) THEN NoTx ELSE nx[c]]

AddUnchecked(t) ==
  /\ mapTx' = mapTx \cup {t}
  /\ mapNextTx' = Marked({t})

\* remove(tx) for every tx of T that is in the pool: its entry and the marks
\* on the outpoints it spends.
Remove(T) ==
  /\ mapTx' = mapTx \ T
  /\ mapNextTx' = Unmarked(mapNextTx, T \cap mapTx)

\* What remove(tx, true) takes out for every tx of T: T and everything in
\* the pool that spends, directly or not, one of its outputs.
WithDescendants(T, pool) ==
  {t \in pool : \A S \in SUBSET pool :
     (/\ T \subseteq S
      /\ \A u \in pool : Vin[u] \cap MadeBy(S) # {} => u \in S) => t \in S}

Conflicts(T, pool) == {u \in pool \ T : Vin[u] \cap SpentBy(T) # {}}

\* CTxMemPool::accept with fCheckInputs.
InputAvailable(c) ==
  /\ mapNextTx[c] = NoTx
  /\ IF db.pos[c[1]] # NoBlock
     THEN /\ db.spent[c] = NoTx
          /\ c[1] \in Generated => Mature(db.pos[c[1]], pindexBest)
     ELSE c[1] \in mapTx

AcceptToMemoryPool(t) ==
  /\ pc = "idle"
  /\ t \in Standard \ mapTx
  /\ db.pos[t] = NoBlock
  /\ \A c \in Vin[t] : InputAvailable(c)
  /\ AddUnchecked(t)
  /\ UNCHANGED <<indexVars, chainVars, jobVars, work, pc, torn, bounds>>

-----------------------------------------------------------------------------
(* ProcessBlock                                                             *)

Init ==
  /\ mapBlockIndex = {Genesis}
  /\ mapOrphanBlocks = {}
  /\ setStakeSeen = {}
  /\ setStakeSeenOrphan = {}
  /\ pindexBest = Genesis
  /\ pnext = [b \in Block |-> NoBlock]
  /\ db = EmptyLedger
  /\ txn = EmptyLedger
  /\ pindexNew = Genesis
  /\ pindexIntermediate = Genesis
  /\ cursor = Genesis
  /\ work = << >>
  /\ pc = "idle"
  /\ mapTx = {}
  /\ mapNextTx = [c \in OutPoint |-> NoTx]
  /\ torn = "no"
  /\ crashes = 0
  /\ faults = 0

\* mapOrphanBlocksByPrev.count(b)
WantedByOrphans(b) == \E o \in mapOrphanBlocks : Prev[o] = b

\* The rule on a kernel that has been seen before.
StakeAllowed(b) ==
  StakeOf(b) \cap setStakeSeen # {} =>
    \/ WantedByOrphans(b)
    \/ Prev[b] \in mapBlockIndex /\ (InitialDownload \/ Prev[b] # pindexBest)

\* CheckProofOfStake reads the kernel's transaction from the current index.
KernelKnown(b) == Stake[b] # NoStake => db.pos[Stake[b][1]] # NoBlock

\* The longer branch wins, instead of the one with more trust.
MutAcceptBlockHeight(b) ==
  /\ mapBlockIndex' = mapBlockIndex \cup {b}
  /\ setStakeSeen' = setStakeSeen \cup StakeOf(b)
  /\ pindexNew' = b
  /\ pindexIntermediate' = b
  /\ cursor' = pindexBest
  /\ pc' = IF Height(b) <= Height(pindexBest) THEN "accepted"
           ELSE IF Prev[b] = pindexBest THEN "extend" ELSE "postpone"
  /\ UNCHANGED <<mapOrphanBlocks, setStakeSeenOrphan, chainVars, work, poolVars, torn, bounds>>

\* AcceptBlock up to the call of SetBestChain.  The index entry is committed
\* in a transaction of its own.
AcceptBlock(b) ==
  /\ mapBlockIndex' = mapBlockIndex \cup {b}
  /\ setStakeSeen' = setStakeSeen \cup StakeOf(b)
  /\ pindexNew' = b
  /\ pindexIntermediate' = b
  /\ cursor' = pindexBest
  /\ pc' = IF ChainTrust[b] <= ChainTrust[pindexBest] THEN "accepted"
           ELSE IF Prev[b] = pindexBest THEN "extend" ELSE "postpone"
  /\ UNCHANGED <<mapOrphanBlocks, setStakeSeenOrphan, chainVars, work, poolVars, torn, bounds>>

KeepOrphan(b) ==
  /\ StakeOf(b) \cap setStakeSeenOrphan = {} \/ WantedByOrphans(b)
  /\ mapOrphanBlocks' = mapOrphanBlocks \cup {b}
  /\ setStakeSeenOrphan' = setStakeSeenOrphan \cup StakeOf(b)
  /\ UNCHANGED <<mapBlockIndex, setStakeSeen, chainVars, jobVars, work, pc, poolVars, torn, bounds>>

ProcessBlock(b) ==
  /\ pc = "idle"
  /\ b \notin mapBlockIndex \cup mapOrphanBlocks
  /\ StakeAllowed(b)
  /\ \/ Prev[b] \notin mapBlockIndex /\ KeepOrphan(b)
     \/ Prev[b] \in mapBlockIndex /\ KernelKnown(b) /\ AcceptBlock(b)

-----------------------------------------------------------------------------
(* SetBestChain                                                             *)

\* SetBestChain returns false: TxnAbort, nothing else is undone.
Abort ==
  /\ pc' = "failed"
  /\ txn' = db
  /\ UNCHANGED <<indexVars, pindexBest, pnext, db, jobVars, work, poolVars, torn>>

\* A commit on top of a tip that the database does not have spoils it.
Committed == torn' = IF torn = "memory" THEN "disk" ELSE torn

\* SetBestChainInner for the child b of the tip: connect it, commit, link
\* it, and take its transactions out of the mempool.
SetBestChainInner(b) ==
  /\ ConnectBlockOK(b, db)
  /\ db' = ConnectBlock(b, db, pnext)
  /\ txn' = db'
  /\ pnext' = [pnext EXCEPT ![Prev[b]] = b]
  /\ Remove(TxsOf(b))
  /\ cursor' = b
  /\ Committed
  /\ UNCHANGED <<indexVars, pindexNew, pindexIntermediate, work, bounds>>

Extend ==
  /\ pc = "extend"
  /\ SetBestChainInner(pindexNew)
  /\ pindexBest' = pindexNew
  /\ pc' = "accepted"

ExtendFails ==
  /\ pc = "extend"
  /\ ~ConnectBlockOK(pindexNew, db)
  /\ Abort
  /\ UNCHANGED bounds

\* The search for the first block of the branch with more trust than the
\* tip; the blocks passed on the way are the postponed ones.
Postpone ==
  /\ pc = "postpone"
  /\ ChainTrust[Prev[pindexIntermediate]] > ChainTrust[pindexBest]
  /\ pindexIntermediate' = Prev[pindexIntermediate]
  /\ UNCHANGED <<indexVars, chainVars, pindexNew, cursor, work, pc, poolVars, torn, bounds>>

BeginReorganize ==
  /\ pc = "postpone"
  /\ ChainTrust[Prev[pindexIntermediate]] <= ChainTrust[pindexBest]
  /\ pc' = "reorganize"
  /\ UNCHANGED <<indexVars, chainVars, jobVars, work, poolVars, torn, bounds>>

\* Reorganize, first loop: from the tip down to the fork.
ReorganizeDisconnect ==
  /\ pc = "reorganize"
  /\ cursor \notin Chain[pindexIntermediate]
  /\ txn' = DisconnectBlock(cursor, txn)
  /\ setStakeSeen' = setStakeSeen \ StakeOf(cursor)
  /\ cursor' = Prev[cursor]
  /\ UNCHANGED <<mapBlockIndex, mapOrphanBlocks, setStakeSeenOrphan, pindexBest, pnext, db,
                 pindexNew, pindexIntermediate, work, pc, poolVars, torn, bounds>>

\* Reorganize, second loop: from the fork up to pindexIntermediate.
ReorganizeConnect ==
  /\ pc = "reorganize"
  /\ cursor \in Chain[pindexIntermediate] \ {pindexIntermediate}
  /\ LET b == Toward(cursor, pindexIntermediate)
     IN  \/ /\ ConnectBlockOK(b, txn)
            /\ txn' = ConnectBlock(b, txn, pnext)
            /\ cursor' = b
            /\ UNCHANGED <<indexVars, pindexBest, pnext, db, pindexNew,
                           pindexIntermediate, work, pc, poolVars, torn>>
         \/ ~ConnectBlockOK(b, txn) /\ Abort
  /\ UNCHANGED bounds

\* Reorganize after the commit: relink the blocks in memory, put the
\* transactions of the disconnected blocks back into the mempool without
\* looking at their inputs, take those of the connected ones out together
\* with what conflicts with them.
Disconnected == Chain[pindexBest] \ Chain[pindexIntermediate]
Connected    == Chain[pindexIntermediate] \ Chain[pindexBest]

\* The links to disconnected blocks stay.
MutRelinkedKeep ==
  [a \in Block |->
     IF \E b \in Connected : Prev[b] = a THEN Toward(a, pindexIntermediate) ELSE pnext[a]]

Relinked ==
  [a \in Block |->
     IF \E b \in Connected : Prev[b] = a THEN Toward(a, pindexIntermediate)
     ELSE IF \E b \in Disconnected : Prev[b] = a THEN NoBlock ELSE pnext[a]]

\* Nothing is put back.
MutCandidatesNone == {}

\* The transactions of the disconnected blocks that accept takes: all of
\* them, if no two spend the same outpoint; otherwise those that come first.
Candidates ==
  {t \in (UNION {TxsOf(b) : b \in Disconnected}) \cap Standard :
     t \notin mapTx /\ \A c \in Vin[t] : mapNextTx[c] = NoTx}

Disjoint(T) == \A t, u \in T : t # u => Vin[t] \cap Vin[u] = {}

Resurrected(R) ==
  /\ Disjoint(R)
  /\ \A t \in Candidates \ R : ~Disjoint(R \cup {t})

CleanUp(pool, vDelete) ==
  pool \cap (vDelete \cup WithDescendants(Conflicts(vDelete, pool), pool \ vDelete))

ReorganizePool(R) ==
  LET removed == CleanUp(mapTx \cup R, UNION {TxsOf(b) : b \in Connected})
  IN  /\ mapTx' = (mapTx \cup R) \ removed
      /\ mapNextTx' = Unmarked(Marked(R), removed)

ReorganizeCommit ==
  /\ pc = "reorganize"
  /\ cursor = pindexIntermediate
  /\ db' = [txn EXCEPT !.best = pindexIntermediate]
  /\ txn' = db'
  /\ pnext' = Relinked
  /\ \E R \in SUBSET Candidates : Resurrected(R) /\ ReorganizePool(R)
  /\ pc' = "secondary"
  /\ Committed
  /\ UNCHANGED <<indexVars, pindexBest, jobVars, work, bounds>>

\* The postponed blocks, one transaction each.
ConnectSecondary ==
  /\ pc = "secondary"
  /\ cursor # pindexNew
  /\ SetBestChainInner(Toward(cursor, pindexNew))
  /\ UNCHANGED <<pindexBest, pc>>

\* When one of them fails the loop is left, and SetBestChain still makes
\* pindexNew the tip and reports success.
BreakSecondary ==
  /\ torn' = IF torn = "no" THEN "memory" ELSE torn
  /\ pindexBest' = pindexNew
  /\ pc' = "accepted"
  /\ UNCHANGED <<indexVars, pnext, db, txn, jobVars, work, poolVars>>

SecondaryFails ==
  /\ pc = "secondary"
  /\ cursor # pindexNew
  /\ ~ConnectBlockOK(Toward(cursor, pindexNew), db)
  /\ BreakSecondary
  /\ UNCHANGED bounds

SecondaryDone ==
  /\ pc = "secondary"
  /\ cursor = pindexNew
  /\ pindexBest' = pindexNew
  /\ pc' = "accepted"
  /\ UNCHANGED <<indexVars, pnext, db, txn, jobVars, work, poolVars, torn, bounds>>

\* A read from a block file or a commit that fails.
StorageFault ==
  /\ faults < MaxFaults
  /\ faults' = faults + 1
  /\ \/ pc \in {"extend", "reorganize"} /\ Abort
     \/ pc = "secondary" /\ cursor # pindexNew /\ BreakSecondary
  /\ UNCHANGED crashes

-----------------------------------------------------------------------------
(* The rest of ProcessBlock: the orphans that waited for the new block.     *)

ForgetOrphan(b) ==
  /\ mapOrphanBlocks' = mapOrphanBlocks \ {b}
  /\ setStakeSeenOrphan' = IF b \in mapOrphanBlocks
                           THEN setStakeSeenOrphan \ StakeOf(b) ELSE setStakeSeenOrphan

\* An accepted orphan is not put into the work queue.
MutAcceptBlockReturnsNoPush ==
  /\ pc \in {"accepted", "failed"}
  /\ ForgetOrphan(pindexNew)
  /\ work' = IF pc = "accepted" /\ pindexNew \notin mapOrphanBlocks THEN Append(work, pindexNew) ELSE work
  /\ pc' = IF work' = << >> THEN "idle" ELSE "orphans"
  /\ pindexNew' = Genesis
  /\ pindexIntermediate' = Genesis
  /\ cursor' = Genesis
  /\ UNCHANGED <<mapBlockIndex, setStakeSeen, chainVars, poolVars, torn, bounds>>

AcceptBlockReturns ==
  /\ pc \in {"accepted", "failed"}
  /\ ForgetOrphan(pindexNew)
  /\ work' = IF pc = "accepted" THEN Append(work, pindexNew) ELSE work
  /\ pc' = IF work' = << >> THEN "idle" ELSE "orphans"
  /\ pindexNew' = Genesis
  /\ pindexIntermediate' = Genesis
  /\ cursor' = Genesis
  /\ UNCHANGED <<mapBlockIndex, setStakeSeen, chainVars, poolVars, torn, bounds>>

ProcessOrphan(o) ==
  /\ pc = "orphans"
  /\ o \in mapOrphanBlocks
  /\ Prev[o] = Head(work)
  /\ \/ KernelKnown(o) /\ AcceptBlock(o)
     \/ /\ ~KernelKnown(o)
        /\ ForgetOrphan(o)
        /\ UNCHANGED <<mapBlockIndex, setStakeSeen, chainVars, jobVars, work, pc, poolVars, torn, bounds>>

\* The queue is not advanced.
MutNextInQueueStays ==
  /\ pc = "orphans"
  /\ ~WantedByOrphans(Head(work))
  /\ UNCHANGED vars

NextInQueue ==
  /\ pc = "orphans"
  /\ ~WantedByOrphans(Head(work))
  /\ work' = Tail(work)
  /\ pc' = IF work' = << >> THEN "idle" ELSE "orphans"
  /\ UNCHANGED <<indexVars, chainVars, jobVars, poolVars, torn, bounds>>

\* The process dies at any point; LoadBlockIndex reads the database back.
\* Nothing looks for a better branch among the blocks it finds there.
CrashAndRestart ==
  /\ crashes < MaxCrashes
  /\ crashes' = crashes + 1
  /\ pindexBest' = db.best
  /\ pnext' = db.next
  /\ txn' = db
  /\ mapOrphanBlocks' = {}
  /\ setStakeSeen' = UNION {StakeOf(b) : b \in Chain[db.best]}
  /\ setStakeSeenOrphan' = {}
  /\ pindexNew' = Genesis
  /\ pindexIntermediate' = Genesis
  /\ cursor' = Genesis
  /\ work' = << >>
  /\ pc' = "idle"
  /\ mapTx' = {}
  /\ mapNextTx' = [c \in OutPoint |-> NoTx]
  /\ torn' = IF torn = "memory" THEN "no" ELSE torn
  /\ UNCHANGED <<mapBlockIndex, db, faults>>

-----------------------------------------------------------------------------

\* The steps ProcessBlock takes by itself once it has been entered.
Step ==
  \/ Extend \/ ExtendFails
  \/ Postpone \/ BeginReorganize
  \/ ReorganizeDisconnect \/ ReorganizeConnect \/ ReorganizeCommit
  \/ ConnectSecondary \/ SecondaryFails \/ SecondaryDone
  \/ AcceptBlockReturns
  \/ \E o \in Block : ProcessOrphan(o)
  \/ NextInQueue

Next ==
  \/ \E b \in Block \ {Genesis} : ProcessBlock(b)
  \/ \E t \in Tx : AcceptToMemoryPool(t)
  \/ Step
  \/ StorageFault
  \/ CrashAndRestart

Spec == Init /\ [][Next]_vars /\ WF_vars(Step)

-----------------------------------------------------------------------------
(* Properties                                                               *)

Pc == {"idle", "extend", "postpone", "reorganize", "secondary", "accepted", "failed", "orphans"}

\* Types of the variables.
TypeOK ==
  /\ mapBlockIndex \subseteq Block
  /\ mapOrphanBlocks \subseteq Block \ {Genesis}
  /\ setStakeSeen \subseteq OutPoint
  /\ setStakeSeenOrphan \subseteq OutPoint
  /\ pindexBest \in Block
  /\ pnext \in [Block -> Block \cup {NoBlock}]
  /\ db \in Ledger
  /\ txn \in Ledger
  /\ pindexNew \in Block
  /\ pindexIntermediate \in Block
  /\ cursor \in Block
  /\ work \in Seq(Block)
  /\ pc \in Pc
  /\ mapTx \subseteq Tx
  /\ mapNextTx \in [OutPoint -> Tx \cup {NoTx}]
  /\ torn \in {"no", "memory", "disk"}
  /\ crashes \in 0 .. MaxCrashes
  /\ faults \in 0 .. MaxFaults

\* The transactions of the branch of b that are in the transaction index:
\* SetBestChain does not connect the genesis block.
Confirmed(b) == UNION {TxsOf(a) : a \in Chain[b] \ {Genesis}}

IsLedgerOf(x, b) ==
  /\ \A t \in Tx, a \in Block :
       x.pos[t] = a <=> a \in Chain[b] \ {Genesis} /\ t \in TxsOf(a)
  /\ \A c \in OutPoint, t \in Tx :
       x.spent[c] = t <=> t \in Confirmed(b) /\ c \in Vin[t]

\* The transaction index on disk is at every moment, also between the steps
\* of a reorganization and after a crash, exactly what the branch of the
\* committed hashBestChain says: where each transaction is, and which
\* transaction spends each output.
DiskLedgerExact == torn # "disk" => IsLedgerOf(db, db.best)

\* Whenever ProcessBlock has returned, the tip in memory is the committed one.
MemoryMatchesDisk == pc = "idle" /\ torn = "no" => pindexBest = db.best

IsPathTo(nx, b) ==
  \A a, c \in Block : nx[a] = c <=> c \in Chain[b] \ {Genesis} /\ Prev[c] = a

\* Between blocks the pnext links, in memory and in the hashNext fields on
\* disk that a restart turns into pnext, form the main chain and nothing
\* else: a block is IsInMainChain exactly when it is on the tip's branch.
LinksFormMainChain ==
  pc = "idle" /\ torn = "no" => IsPathTo(pnext, pindexBest) /\ IsPathTo(db.next, db.best)

ExactMarks(nx, pool) ==
  \A c \in OutPoint, t \in Tx : nx[c] = t <=> t \in pool /\ c \in Vin[t]

\* mapNextTx is the inverse of mapTx: through every sequence of admissions,
\* reorganizations and removals an outpoint is marked exactly when a pool
\* transaction spends it, so no two pool transactions spend the same coin.
PoolMarksExact == ExactMarks(mapNextTx, mapTx)

\* A branch all of whose blocks ConnectBlock accepts on top of one another,
\* by the definition of the transaction index rather than by its updates.
ReferenceLedger(b) ==
  [best  |-> b,
   pos   |-> [t \in Tx |-> IF t \in Confirmed(b)
                           THEN CHOOSE a \in Chain[b] \ {Genesis} : t \in TxsOf(a) ELSE NoBlock],
   spent |-> [c \in OutPoint |-> IF c \in SpentBy(Confirmed(b))
                                 THEN CHOOSE t \in Confirmed(b) : c \in Vin[t] ELSE NoTx],
   next  |-> [a \in Block |-> NoBlock]]

ValidChain(b) == \A a \in Chain[b] \ {Genesis} : ConnectBlockOK(a, ReferenceLedger(Prev[a]))

\* A node without crash and storage fault is on the valid branch with the
\* most trust among the blocks it has indexed, in whatever order, as orphans
\* or not, with whatever invalid blocks in between, they arrived.
OnBestValidChain ==
  pc = "idle" /\ crashes = 0 /\ faults = 0 =>
    \A b \in mapBlockIndex : ValidChain(b) => ChainTrust[b] <= ChainTrust[pindexBest]

\* An orphan is kept only while its parent is missing, or after its parent
\* turned out invalid: the work queue leaves no connectable orphan behind.  A
\* torn chain may refuse a valid block, and its orphans stay.
NoConnectableOrphan ==
  pc = "idle" /\ faults = 0 /\ torn = "no" =>
    \A o \in mapOrphanBlocks : Prev[o] \in mapBlockIndex => ~ValidChain(Prev[o])

\* The committed tip only ever moves to a branch with more trust, also by
\* the intermediate commits of a long reorganization and across restarts.
TrustGrows ==
  [][db'.best # db.best => ChainTrust[db'.best] > ChainTrust[db.best]]_vars

\* A commit loses no admissible transaction of the blocks it disconnects:
\* each is on the new chain or back in the mempool, unless one of its inputs
\* is spent by another transaction there or in the mempool before the commit,
\* or was made by one that is gone.
NoTransactionLost ==
  [][db'.best # db.best /\ torn' = "no" =>
       LET now == Confirmed(db'.best) \cup mapTx'
       IN  \A t \in Confirmed(db.best) \cap Standard :
             \/ t \in now
             \/ \E c \in Vin[t] :
                  c[1] \notin now \/ \E u \in (now \cup mapTx) \ {t} : c \in Vin[u]]_vars

\* The check of LoadBlockIndex at -checklevel 5: every input of every
\* transaction of the main chain whose source is indexed is recorded as
\* spent there ("*** found unspent prevout" otherwise).
NoUnspentPrevout ==
  \A t \in Confirmed(db.best) : \A c \in Vin[t] :
    db.pos[c[1]] # NoBlock => db.spent[c] # NoTx

\* ProcessBlock returns, whatever it was given: no reorganization and no
\* chain of orphans keeps cs_main for ever.
ProcessBlockReturns == (pc # "idle") ~> (pc = "idle")

\* The committed database implements BestChain: seen through it, a block
\* with all its transactions appears at once or not at all.
BC == INSTANCE BestChain WITH
        tip       <- db.best,
        confirmed <- {t \in Tx : db.pos[t] # NoBlock},
        spent     <- {c \in OutPoint : db.spent[c] # NoTx}

\* Every change of the database, those of a crashed or aborted reorganization
\* included, is a switch to a sound branch with more trust.
ImplementsBestChain ==
  BC!BestChainInit /\ [][BC!BestChainNext \/ torn' = "disk"]_<<db.best, db.pos, db.spent>>

=============================================================================
