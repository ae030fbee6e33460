---------------------------- MODULE SyncCheckpoint ----------------------------
(***************************************************************************)
(* Synchronized checkpoints (namespace Checkpoints, CSyncCheckpoint): a    *)
(* signed message names a block; the node moves its chain to that block,   *)
(* whatever the trust of the branch, and from then on accepts only blocks  *)
(* that descend from it.  CheckpointsMode is STRICT, the default.          *)
(*                                                                         *)
(* Blocks and messages are handled under cs_main.  The chain and the       *)
(* checkpoint are committed one after the other, and a release with a new  *)
(* master key commits the key before both, so a crash may come between     *)
(* them.  SetBestChain commits the blocks it postpones one by one and      *)
(* returns true if one of them fails: then the chain of the database ends  *)
(* below the chain in memory.  A block is handed to AcceptBlock when its   *)
(* parent is indexed; orphan blocks are in ChainState.                     *)
(***************************************************************************)
EXTENDS BlockTree, Sequences

CONSTANTS
  Published,     \* blocks that the holder of the master key has signed
  Hardened,      \* mapCheckpoints of the releases, as a sequence of sets
  BadBlock,      \* blocks that ConnectBlock refuses
  MaxCrashes,    \* bound on crashes
  MaxFaults      \* bound on failing reads and writes

ASSUME CheckpointAssumption ==
  /\ Published \subseteq Block
  /\ Hardened \in Seq(SUBSET Block) /\ Len(Hardened) > 0
  /\ \A r \in DOMAIN Hardened : /\ Genesis \in Hardened[r]
                                /\ \E b \in Block : Hardened[r] \subseteq Chain[b]
  /\ BadBlock \subseteq Block \ {Genesis}
  /\ MaxCrashes \in Nat /\ MaxFaults \in Nat
  /\ \A b \in Block : IsFiniteSet(Chain[b])

VARIABLES
  mapBlockIndex,          \* the indexed blocks
  pindexBest,             \* the last block of the main chain
  dbBest,                 \* hashBestChain in the database
  gap,                    \* blocks below pindexBest that have no pnext
  hashSyncCheckpoint,     \* the checkpoint in force
  hashPendingCheckpoint,  \* a checkpoint whose block is not indexed, or NoBlock
  hashInvalidCheckpoint,  \* the checkpoint a warning is shown for, or NoBlock
  dbSyncCheckpoint,       \* the checkpoint in the database
  pc, candidate,          \* the step under way and the checkpoint it is about
  release,                \* the release that runs
  lapse,                  \* what took the chain off the checkpoint (history)
  crashes, faults

chainVars   == <<pindexBest, dbBest, gap>>
pendingVars == <<hashPendingCheckpoint, hashInvalidCheckpoint>>
syncVars    == <<hashSyncCheckpoint, dbSyncCheckpoint>>
bounds      == <<release, crashes, faults>>
vars        == <<mapBlockIndex, chainVars, syncVars, pendingVars, pc, candidate, lapse, bounds>>

Hash == Block \cup {NoBlock}

-----------------------------------------------------------------------------
(* The chain                                                                *)

IsInMainChain(b) == b \in Chain[pindexBest] \ gap

\* The blocks that must connect for SetBestChain(b) to succeed.  Blocks above
\* one with more trust than the best chain are postponed and do not count.
Demanded(b) ==
  {a \in Chain[b] \ (Chain[pindexBest] \cup {Genesis}) :
     ChainTrust[Prev[a]] <= ChainTrust[pindexBest]}

Connects(b) == Demanded(b) \cap BadBlock = {}

\* The blocks at which the commits of SetBestChain(b) may end.
Ends(b) == {b} \cup {m \in Chain[b] : Demanded(b) # {} /\ Demanded(b) \subseteq Chain[m]}

Fault == faults < MaxFaults /\ faults' = faults + 1 /\ UNCHANGED <<release, crashes>>

\* SetBestChain(b) returns true: the blocks up to m are committed, b is the last
\* block in memory.  Only a committed block becomes the pnext of its parent.  In
\* a chain with a gap any block may fail to connect, for want of an input.
SetBestChain(b) ==
  \E m \in Ends(b) :
    /\ (Chain[m] \ Chain[pindexBest]) \cap BadBlock = {}
    /\ \/ /\ m # b => Toward(m, b) \in BadBlock \/ gap # {}
          /\ UNCHANGED bounds
       \/ m # b /\ Fault
    /\ pindexBest' = b /\ dbBest' = m
    /\ gap' = ((gap \cap Chain[b]) \ ({Prev[a] : a \in Chain[m] \ Chain[pindexBest]} \cup {b}))
                 \cup {a \in Chain[b] \ {b} : m \in Chain[a]}

\* SetBestChain(b) returns false, or the block could not be read before it.
SetBestChainFails(b) ==
  \/ (~Connects(b) \/ gap # {}) /\ UNCHANGED bounds
  \/ Fault

\* The last of the hardened checkpoints in S.
LastOf(S) == CHOOSE h \in S : \A a \in S : Height(a) <= Height(h)

CheckHardened(b) ==
  \A h \in Hardened[release] : Height(h) = Height(b) => h = b

\* Only the height of the checkpoint itself is compared.
MutCheckSync(b) == Height(b) = Height(hashSyncCheckpoint) => b = hashSyncCheckpoint

\* Following pprev from the parent down to the height of the checkpoint finds
\* the checkpoint iff it is an ancestor.
CheckSync(b) ==
  /\ Height(b) > Height(hashSyncCheckpoint) => hashSyncCheckpoint \in Chain[Prev[b]]
  /\ Height(b) = Height(hashSyncCheckpoint) => b = hashSyncCheckpoint
  /\ Height(b) < Height(hashSyncCheckpoint) => b \in mapBlockIndex

-----------------------------------------------------------------------------
(* Checkpoints                                                              *)

\* ValidateSyncCheckpoint: c is an ancestor of the checkpoint, a descendant, or
\* in conflict with it.
Passed(c) == c \in Chain[hashSyncCheckpoint]

\* A higher block will do.
MutDescends(c) == Height(c) > Height(hashSyncCheckpoint)

Descends(c) == ~Passed(c) /\ hashSyncCheckpoint \in Chain[c]

Conflicts(c) == ~Passed(c) /\ ~Descends(c)

Init ==
  /\ mapBlockIndex = {Genesis} /\ pindexBest = Genesis /\ dbBest = Genesis /\ gap = {}
  /\ hashSyncCheckpoint = Genesis /\ dbSyncCheckpoint = Genesis
  /\ LET last == LastOf(Hardened[1])
     IN  hashPendingCheckpoint = IF last = Genesis THEN NoBlock ELSE last
  /\ hashInvalidCheckpoint = NoBlock
  /\ pc = "idle" /\ candidate = NoBlock
  /\ release = 1 /\ lapse = {} /\ crashes = 0 /\ faults = 0

\* AcceptBlock.  If SetBestChain fails it returns before the pending checkpoint
\* is looked at.
AcceptBlock(b) ==
  /\ pc = "idle"
  /\ b \notin mapBlockIndex /\ Prev[b] \in mapBlockIndex
  /\ CheckHardened(b) /\ CheckSync(b)
  /\ mapBlockIndex' = mapBlockIndex \cup {b}
  /\ \/ /\ ChainTrust[b] <= ChainTrust[pindexBest]
        /\ pc' = "pending" /\ UNCHANGED <<chainVars, lapse, bounds>>
     \/ /\ ChainTrust[b] > ChainTrust[pindexBest]
        /\ SetBestChain(b)
        /\ pc' = "pending" /\ lapse' = {}
     \/ /\ ChainTrust[b] > ChainTrust[pindexBest]
        /\ SetBestChainFails(b)
        /\ UNCHANGED <<chainVars, lapse, pc>>
  /\ UNCHANGED <<syncVars, pendingVars, candidate>>

\* A valid checkpoint c: the chain is moved to it first.
Adopt(c) ==
  \/ /\ \/ IsInMainChain(c) /\ UNCHANGED <<chainVars, lapse, bounds>>
        \/ ~IsInMainChain(c) /\ SetBestChain(c) /\ lapse' = {}
     /\ pc' = "write" /\ candidate' = c
     /\ UNCHANGED pendingVars
  \/ /\ ~IsInMainChain(c) /\ SetBestChainFails(c)
     /\ hashInvalidCheckpoint' \in {c} \cup (IF faults' = faults THEN {} ELSE {hashInvalidCheckpoint})
     /\ pc' = "idle"
     /\ UNCHANGED <<chainVars, lapse, hashPendingCheckpoint, candidate>>

\* The pending checkpoint is not looked at.
MutAcceptPendingSyncCheckpoint ==
  /\ pc = "pending"
  /\ pc' = "idle"
  /\ UNCHANGED <<mapBlockIndex, chainVars, syncVars, pendingVars, candidate, lapse, bounds>>

AcceptPendingSyncCheckpoint ==
  /\ pc = "pending"
  /\ \/ /\ ~(hashPendingCheckpoint \in mapBlockIndex /\ Descends(hashPendingCheckpoint))
        /\ IF hashPendingCheckpoint \in mapBlockIndex
           THEN /\ hashPendingCheckpoint' = NoBlock
                /\ hashInvalidCheckpoint' = IF Conflicts(hashPendingCheckpoint)
                                            THEN hashPendingCheckpoint ELSE hashInvalidCheckpoint
           ELSE UNCHANGED pendingVars
        /\ pc' = "idle"
        /\ UNCHANGED <<chainVars, candidate, lapse, bounds>>
     \/ /\ hashPendingCheckpoint \in mapBlockIndex /\ Descends(hashPendingCheckpoint)
        /\ Adopt(hashPendingCheckpoint)
  /\ UNCHANGED <<mapBlockIndex, syncVars>>

\* A checkpoint message for c with a valid signature.
ProcessSyncCheckpoint(c) ==
  /\ pc = "idle"
  /\ \/ /\ c \notin mapBlockIndex
        /\ hashPendingCheckpoint' = c
        /\ UNCHANGED <<chainVars, hashInvalidCheckpoint, pc, candidate, lapse, bounds>>
     \/ /\ c \in mapBlockIndex /\ Conflicts(c)
        /\ hashInvalidCheckpoint' = c
        /\ UNCHANGED <<chainVars, hashPendingCheckpoint, pc, candidate, lapse, bounds>>
     \/ /\ c \in mapBlockIndex /\ Descends(c)
        /\ Adopt(c)
  /\ UNCHANGED <<mapBlockIndex, syncVars>>

\* The last of the hardened checkpoints in the main chain.
ResetTo == LastOf({h \in Hardened[release] : IsInMainChain(h)})

\* The checkpoint is written in a transaction of its own.  After a failure the
\* pending checkpoint stays; so it does if a release sets the checkpoint.
WriteSyncCheckpoint ==
  /\ pc \in {"write", "anchor"}
  /\ pc' = "idle" /\ candidate' = NoBlock
  /\ \/ /\ hashSyncCheckpoint' = IF pc = "write" THEN candidate ELSE ResetTo
        /\ dbSyncCheckpoint' = hashSyncCheckpoint'
        /\ hashPendingCheckpoint' = IF pc = "write" THEN NoBlock ELSE hashPendingCheckpoint
        /\ lapse' = {} /\ UNCHANGED bounds
     \/ /\ Fault
        /\ UNCHANGED <<syncVars, hashPendingCheckpoint, lapse>>
  /\ UNCHANGED <<mapBlockIndex, chainVars, hashInvalidCheckpoint>>

-----------------------------------------------------------------------------
(* Start                                                                    *)

\* LoadBlockIndex: the chain ends at hashBestChain of the database.
LoadBlockIndex ==
  /\ pindexBest' = dbBest
  /\ gap' = (gap \cap Chain[dbBest]) \ {dbBest}
  /\ lapse' = IF dbBest = pindexBest THEN lapse ELSE lapse \cup {"behind"}
  /\ candidate' = NoBlock
  /\ hashSyncCheckpoint' = dbSyncCheckpoint
  /\ hashPendingCheckpoint' = NoBlock /\ hashInvalidCheckpoint' = NoBlock
  /\ UNCHANGED <<mapBlockIndex, dbBest, dbSyncCheckpoint, faults>>

\* A crash at any point.  A reset that was under way is not taken up again: the
\* new master key is in the database.
Crash ==
  /\ crashes < MaxCrashes /\ crashes' = crashes + 1
  /\ pc' = "idle" /\ LoadBlockIndex
  /\ UNCHANGED release

\* The first start of a release with another master key, which is committed.
Upgrade ==
  /\ pc = "idle" /\ release + 1 \in DOMAIN Hardened
  /\ release' = release + 1
  /\ pc' = "reset" /\ LoadBlockIndex
  /\ UNCHANGED crashes

\* The chain is moved to the last hardened checkpoint.  If that fails the
\* checkpoint of the database stays in force.
ResetSyncCheckpoint ==
  LET last == LastOf(Hardened[release])
  IN  /\ pc = "reset"
      /\ \/ /\ last \in mapBlockIndex => IsInMainChain(last)
            /\ hashPendingCheckpoint' = IF last \in mapBlockIndex THEN NoBlock ELSE last
            /\ pc' = "anchor" /\ UNCHANGED <<chainVars, lapse, bounds>>
         \/ /\ last \in mapBlockIndex /\ ~IsInMainChain(last)
            /\ SetBestChain(last) /\ lapse' = lapse \cup {"reset"}
            /\ pc' = "anchor" /\ UNCHANGED hashPendingCheckpoint
         \/ /\ last \in mapBlockIndex /\ ~IsInMainChain(last)
            /\ SetBestChainFails(last)
            /\ pc' = "idle" /\ UNCHANGED <<chainVars, lapse, hashPendingCheckpoint>>
      /\ UNCHANGED <<mapBlockIndex, syncVars, hashInvalidCheckpoint, candidate>>

Next ==
  \/ \E b \in Block \ {Genesis} : AcceptBlock(b)
  \/ AcceptPendingSyncCheckpoint \/ WriteSyncCheckpoint
  \/ \E c \in Published : ProcessSyncCheckpoint(c)
  \/ Crash \/ Upgrade \/ ResetSyncCheckpoint

\* A step that cs_main protects is carried on; a block that is not refused
\* arrives some time, from whoever has it.
Fairness ==
  /\ WF_vars(AcceptPendingSyncCheckpoint) /\ WF_vars(WriteSyncCheckpoint)
  /\ WF_vars(ResetSyncCheckpoint)
  /\ \A b \in Block \ {Genesis} : WF_vars(AcceptBlock(b))

Spec == Init /\ [][Next]_vars /\ Fairness

-----------------------------------------------------------------------------
(* Properties                                                               *)

TypeOK ==
  /\ mapBlockIndex \subseteq Block
  /\ pindexBest \in mapBlockIndex /\ dbBest \in Chain[pindexBest]
  /\ gap \subseteq Chain[pindexBest] \ {pindexBest, Genesis}
  /\ hashSyncCheckpoint \in mapBlockIndex /\ dbSyncCheckpoint = hashSyncCheckpoint
  /\ hashPendingCheckpoint \in Hash /\ hashInvalidCheckpoint \in Hash
  /\ pc \in {"idle", "pending", "write", "reset", "anchor"}
  /\ candidate \in Hash /\ (pc = "write" => candidate \in mapBlockIndex)
  /\ release \in DOMAIN Hardened /\ lapse \subseteq {"behind", "reset"}
  /\ crashes \in 0 .. MaxCrashes /\ faults \in 0 .. MaxFaults

\* The checkpoint in force is a block of the main chain: no branch that leaves
\* the chain below it is connected, whatever its trust.  Two things take the
\* chain off it until the next block connects or the next checkpoint is written:
\* a restart that finds a shorter chain in the database, which stays on the
\* branch of the checkpoint, and a release that has moved the chain to its
\* hardened checkpoint and has not, or could not, write that checkpoint.
CheckpointInMainChain ==
  /\ lapse = {} => hashSyncCheckpoint \in Chain[pindexBest]
  /\ "reset" \notin lapse =>
       hashSyncCheckpoint \in Chain[pindexBest] \/ pindexBest \in Chain[hashSyncCheckpoint]

\* Without storage faults, a pending checkpoint whose block has arrived is taken
\* or given up before the next message is read, unless its branch is bad or the
\* chain has a gap.
PendingTaken ==
  pc = "idle" /\ faults = 0 /\ hashPendingCheckpoint \in mapBlockIndex =>
    Chain[hashPendingCheckpoint] \cap BadBlock # {} \/ gap # {}

\* A pending checkpoint is decided in the end, unless a rule keeps a block of its
\* branch out (a bad block, a hardened checkpoint or the checkpoint in force), a
\* gap in the chain does, or a failing read or write puts it off until the next
\* block.
PendingDecided ==
  \A c \in Published :
    hashPendingCheckpoint = c ~>
      \/ hashPendingCheckpoint # c
      \/ faults > 0 \/ gap # {}
      \/ Chain[c] \cap BadBlock # {}
      \/ hashSyncCheckpoint \notin Chain[c]
      \/ \E a \in Chain[c] : ~CheckHardened(a)

FC == INSTANCE FinalChain WITH
        tip <- pindexBest, saved <- dbBest, final <- hashSyncCheckpoint,
        era <- release, open <- pc \in {"reset", "anchor"}, Anchor <- Hardened

\* The chain, in memory and on disk, and the checkpoint change only as FinalChain
\* allows.
ImplementsFinalChain == FC!FinalSpec

=============================================================================
