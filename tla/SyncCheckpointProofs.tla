------------------------- MODULE SyncCheckpointProofs -------------------------
(***************************************************************************)
(* Proofs about SyncCheckpoint, for every block tree, every set of signed  *)
(* and of hardened checkpoints and every bound on crashes and faults.      *)
(***************************************************************************)
EXTENDS SyncCheckpoint, FiniteSetTheorems, WellFoundedInduction, TLAPS

\* The branches of the indexed blocks are indexed, the checkpoint is on the main
\* chain up to the lapses, the candidate that is about to be written is on the
\* main chain and above the checkpoint, and a reset starts with no checkpoint
\* pending.
CInv ==
  /\ TypeOK
  /\ \A b \in mapBlockIndex : Chain[b] \subseteq mapBlockIndex
  /\ CheckpointInMainChain
  /\ pc = "write" => candidate \in Chain[pindexBest] /\ hashSyncCheckpoint \in Chain[candidate]
  /\ pc = "reset" => hashPendingCheckpoint = NoBlock
  /\ pc = "anchor" => hashPendingCheckpoint \notin mapBlockIndex

-----------------------------------------------------------------------------
(* Facts about the operators                                                *)

\* A branch is a set of blocks that holds its end and the first block.
LEMMA ChainFacts ==
  ASSUME NEW b \in Block
  PROVE  /\ Chain[b] \subseteq Block /\ b \in Chain[b] /\ Genesis \in Chain[b]
         /\ \A a \in Chain[b] : Chain[a] \subseteq Chain[b]
  BY ChainAssumption

\* Below a block is the branch of its parent.
LEMMA ChainStep ==
  ASSUME NEW b \in Block \ {Genesis}
  PROVE  Prev[b] \in Block /\ Chain[b] = Chain[Prev[b]] \cup {b}
  BY ChainAssumption, BlockAssumption

\* Heights are natural numbers that do not fall along a branch.
LEMMA HeightFacts ==
  ASSUME NEW b \in Block
  PROVE  Height(b) \in Nat /\ \A a \in Chain[b] : Height(a) \in Nat /\ Height(a) <= Height(b)
<1>1. ASSUME NEW a \in Block PROVE Cardinality(Chain[a]) \in Nat \ {0}
  <2>1. IsFiniteSet(Chain[a]) /\ Chain[a] # {}
    BY CheckpointAssumption, ChainFacts
  <2> QED BY <2>1, FS_CardinalityType, FS_EmptySet
<1>2. ASSUME NEW a \in Chain[b]
      PROVE  a \in Block /\ Cardinality(Chain[a]) <= Cardinality(Chain[b])
  <2>1. a \in Block /\ Chain[a] \in SUBSET Chain[b] /\ IsFiniteSet(Chain[b])
    BY CheckpointAssumption, ChainFacts
  <2> QED BY <2>1, FS_Subset
<1> QED BY <1>1, <1>2 DEF Height

\* A set of natural numbers that is not empty has a least element.
LEMMA Least ==
  ASSUME NEW T \in SUBSET Nat, T # {}
  PROVE  \E x \in T : \A y \in T : ~ (y < x)
<1> DEFINE R == OpToRel(<, Nat)
<1>1. \E x \in T : \A y \in T : ~ (<<y, x>> \in R)
  <2>1. IsWellFoundedOn(R, Nat)
    BY NatLessThanWellFounded
  <2> HIDE DEF R
  <2> QED BY <2>1, WFMin
<1>2. \A x, y \in Nat : y < x => <<y, x>> \in R
  BY DEF OpToRel
<1> HIDE DEF R
<1> QED BY <1>1, <1>2, Zenon

\* A new block that CheckSync lets pass descends from the checkpoint.
LEMMA CheckSyncDescends ==
  ASSUME TypeOK, NEW b \in Block \ {Genesis}, b \notin mapBlockIndex, CheckSync(b)
  PROVE  hashSyncCheckpoint \in Chain[b]
<1>1. hashSyncCheckpoint \in Block /\ b # hashSyncCheckpoint
  BY DEF TypeOK
<1>2. Height(b) \in Nat /\ Height(hashSyncCheckpoint) \in Nat
  BY <1>1, HeightFacts
<1>3. Height(b) > Height(hashSyncCheckpoint)
  BY <1>1, <1>2 DEF CheckSync
<1> QED BY <1>3, ChainStep DEF CheckSync

\* Of two blocks of a branch one is an ancestor of the other.
LEMMA Linear ==
  ASSUME NEW b \in Block, NEW a \in Chain[b], NEW c \in Chain[b]
  PROVE  a \in Chain[c] \/ c \in Chain[a]
<1> DEFINE Apart(d) == \E x, y \in Chain[d] : x \notin Chain[y] /\ y \notin Chain[x]
           B == {d \in Block : Apart(d)}
           T == {Height(d) : d \in B}
<1> SUFFICES ASSUME B # {} PROVE FALSE
  OBVIOUS
<1>1. T \in SUBSET Nat /\ T # {}
  BY HeightFacts
<1>2. PICK n \in T : \A k \in T : ~ (k < n)
  BY <1>1, Least
<1>3. PICK d \in B : n = Height(d)
  BY <1>2
<1>4. PICK x \in Chain[d], y \in Chain[d] : x \notin Chain[y] /\ y \notin Chain[x]
  BY <1>3
<1>5. d \in Block \ {Genesis}
  BY <1>3, <1>4, ChainAssumption
<1>6. Prev[d] \in Block /\ Chain[d] = Chain[Prev[d]] \cup {d} /\ d \notin Chain[Prev[d]]
  BY <1>5, ChainStep, ChainAssumption
<1>7. x # d /\ y # d
  BY <1>4
<1>8. Prev[d] \in B
  BY <1>4, <1>6, <1>7
<1>9. Height(Prev[d]) < Height(d)
  <2>1. IsFiniteSet(Chain[d]) /\ IsFiniteSet(Chain[Prev[d]])
    BY <1>5, <1>6, CheckpointAssumption
  <2>2. Cardinality(Chain[d]) = Cardinality(Chain[Prev[d]]) + 1
    BY <1>6, <2>1, FS_AddElement
  <2>3. Cardinality(Chain[Prev[d]]) \in Nat
    BY <2>1, FS_CardinalityType
  <2> QED BY <2>2, <2>3 DEF Height
<1> HIDE DEF B
<1> QED BY <1>2, <1>3, <1>8, <1>9

\* Some block of a set of blocks on one branch is the last.
LEMMA LastOfType ==
  ASSUME NEW best \in Block, NEW S \in SUBSET Chain[best], S # {}
  PROVE  LastOf(S) \in S
<1> DEFINE T == {Height(best) - Height(a) : a \in S}
<1>1. \A a \in S : Height(a) \in Nat /\ Height(best) \in Nat /\ Height(best) - Height(a) \in Nat
  BY HeightFacts
<1>2. T \in SUBSET Nat /\ T # {}
  BY <1>1
<1>3. PICK x \in T : \A y \in T : ~ (y < x)
  BY <1>2, Least
<1>4. PICK h \in S : x = Height(best) - Height(h)
  BY <1>3
<1>5. ASSUME NEW a \in S PROVE Height(a) <= Height(h)
  <2>1. Height(best) - Height(a) \in T
    OBVIOUS
  <2>2. ~ (Height(best) - Height(a) < Height(best) - Height(h))
    BY <2>1, <1>3, <1>4
  <2>3. Height(a) \in Nat /\ Height(best) \in Nat /\ Height(h) \in Nat
    BY <1>1
  <2> HIDE DEF T
  <2> QED BY <2>2, <2>3
<1> QED BY <1>5 DEF LastOf

\* Every release has a last hardened checkpoint.
LEMMA LastType ==
  ASSUME NEW r \in DOMAIN Hardened
  PROVE  LastOf(Hardened[r]) \in Hardened[r] /\ LastOf(Hardened[r]) \in Block
<1>1. PICK b \in Block : Hardened[r] \subseteq Chain[b]
  BY CheckpointAssumption
<1>2. Hardened[r] # {}
  BY CheckpointAssumption
<1>3. LastOf(Hardened[r]) \in Hardened[r]
  BY <1>1, <1>2, LastOfType
<1> QED BY <1>1, <1>3, ChainFacts

\* Every chain holds a hardened checkpoint, were it the first block, which never
\* lacks its pnext.
LEMMA ResetType ==
  ASSUME TypeOK
  PROVE  ResetTo \in Hardened[release] \cap Chain[pindexBest]
<1> DEFINE S == {h \in Hardened[release] : IsInMainChain(h)}
<1>1. pindexBest \in Block /\ release \in DOMAIN Hardened
  BY DEF TypeOK
<1>2. Genesis \in S
  BY <1>1, ChainFacts, CheckpointAssumption DEF TypeOK, IsInMainChain
<1>3. S \in SUBSET Chain[pindexBest]
  BY DEF IsInMainChain
<1>4. LastOf(S) \in S
  <2> HIDE DEF S
  <2> QED BY <1>1, <1>2, <1>3, LastOfType
<1> QED BY <1>3, <1>4 DEF ResetTo

\* The chain moves to b; what is committed of it holds every block that it has in
\* common with the old chain, and the gap is inside the new chain.
LEMMA SetBestChainFacts ==
  ASSUME TypeOK, NEW b \in Block, SetBestChain(b)
  PROVE  /\ pindexBest' = b /\ dbBest' \in Chain[b]
         /\ gap' \subseteq Chain[b] \ {b, Genesis}
         /\ \A f \in Chain[b] \cap Chain[pindexBest] : f \in Chain[dbBest']
         /\ UNCHANGED <<release, crashes>> /\ faults' \in 0 .. MaxFaults
<1>1. PICK m \in Ends(b) :
        /\ UNCHANGED bounds \/ Fault
        /\ pindexBest' = b /\ dbBest' = m
        /\ gap' = ((gap \cap Chain[b]) \ ({Prev[a] : a \in Chain[m] \ Chain[pindexBest]} \cup {b}))
                     \cup {a \in Chain[b] \ {b} : m \in Chain[a]}
  BY DEF SetBestChain
<1>2. pindexBest \in Block /\ m \in Chain[b] /\ m \in Block /\ b \in Chain[b]
  BY ChainFacts DEF TypeOK, Ends
<1>3. m # b => Demanded(b) # {} /\ Demanded(b) \subseteq Chain[m]
  BY DEF Ends
<1>4. \A a \in Demanded(b) : a \notin Chain[pindexBest] /\ a # Genesis
  BY DEF Demanded
<1>5. Genesis \notin gap'
  <2>1. Genesis \notin gap /\ Chain[Genesis] = {Genesis}
    BY ChainAssumption DEF TypeOK
  <2>2. CASE m = Genesis /\ m # b
    BY <1>3, <1>4, <2>1, <2>2
  <2>3. CASE ~(m = Genesis /\ m # b)
    BY <1>1, <2>1, <2>3
  <2> QED BY <2>2, <2>3
<1>6. gap' \subseteq Chain[b] \ {b}
  BY <1>1
<1>7. ASSUME NEW f \in Chain[b] \cap Chain[pindexBest] PROVE f \in Chain[m]
  <2>1. CASE m = b
    BY <2>1
  <2>2. CASE m # b
    <3>1. PICK a \in Demanded(b) : a \in Chain[m]
      BY <1>3, <2>2
    <3>2. Chain[f] \subseteq Chain[pindexBest] /\ f \in Block
      BY <1>2, ChainFacts
    <3>3. m \notin Chain[f]
      BY <1>4, <3>1, <3>2, ChainFacts
    <3> QED BY <1>2, <3>3, Linear
  <2> QED BY <2>1, <2>2
<1>8. UNCHANGED <<release, crashes>> /\ faults' \in 0 .. MaxFaults
  BY <1>1, CheckpointAssumption DEF Fault, bounds, TypeOK
<1> QED BY <1>1, <1>2, <1>5, <1>6, <1>7, <1>8

\* A failing SetBestChain counts at most as a fault.
LEMMA FailFacts ==
  ASSUME TypeOK, NEW b, SetBestChainFails(b)
  PROVE  UNCHANGED <<release, crashes>> /\ faults' \in 0 .. MaxFaults
  BY CheckpointAssumption DEF SetBestChainFails, Fault, bounds, TypeOK

\* FinalChain speaks of the same block tree.
LEMMA SameChain == FC!Chain = Chain
  BY DEF FC!Chain, Chain

-----------------------------------------------------------------------------
(* The invariant                                                            *)

\* CInv holds for a fresh node.
LEMMA InitCInv == Init => CInv
<1> SUFFICES ASSUME Init PROVE CInv
  OBVIOUS
<1>1. Genesis \in Block /\ Chain[Genesis] = {Genesis}
  BY BlockAssumption, ChainAssumption
<1>2. 1 \in DOMAIN Hardened /\ MaxCrashes \in Nat /\ MaxFaults \in Nat
  BY CheckpointAssumption
<1>3. LastOf(Hardened[1]) \in Block
  BY <1>2, LastType
<1>4. TypeOK
  BY <1>1, <1>2, <1>3 DEF Init, TypeOK, Hash
<1> QED BY <1>1, <1>4 DEF Init, CInv, CheckpointInMainChain

\* A move of the chain to a block that descends from the checkpoint.
LEMMA MoveCInv ==
  ASSUME CInv, NEW b \in Block, SetBestChain(b), hashSyncCheckpoint \in Chain[b],
         pc \notin {"reset", "anchor"}, pc' \notin {"reset", "anchor"},
         UNCHANGED hashSyncCheckpoint
  PROVE  FC!MoveTo(b)
<1>1. /\ pindexBest' = b /\ dbBest' \in Chain[b] /\ UNCHANGED release
      /\ hashSyncCheckpoint \in Chain[pindexBest] => hashSyncCheckpoint \in Chain[dbBest']
  BY SetBestChainFacts DEF CInv
<1> QED BY <1>1, SameChain DEF FC!MoveTo, FC!Saves

\* A checkpoint that descends from the one in force is adopted in two steps, of
\* which the first keeps the invariant.
LEMMA AdoptCInv ==
  ASSUME CInv, NEW c \in mapBlockIndex, Descends(c), Adopt(c), pc \notin {"reset", "anchor"},
         UNCHANGED <<mapBlockIndex, syncVars>>
  PROVE  CInv' /\ (UNCHANGED FC!finalVars \/ FC!MoveTo(c))
<1> USE DEF CInv, syncVars, pendingVars, chainVars, bounds, FC!finalVars
<1>1. c \in Block /\ c \in Chain[c] /\ hashSyncCheckpoint \in Chain[c]
  BY ChainFacts DEF TypeOK, Descends
<1>2. CASE IsInMainChain(c) /\ pc' = "write"
  <2>1. c \in Chain[pindexBest] /\ candidate' = c /\ UNCHANGED <<chainVars, lapse, bounds, pendingVars>>
    BY <1>2 DEF Adopt, IsInMainChain
  <2>2. TypeOK'
    BY <1>1, <1>2, <2>1 DEF TypeOK, Hash
  <2> QED BY <1>1, <1>2, <2>1, <2>2 DEF CheckpointInMainChain
<1>3. CASE ~IsInMainChain(c) /\ pc' = "write"
  <2>1. SetBestChain(c) /\ candidate' = c /\ lapse' = {} /\ UNCHANGED pendingVars
    BY <1>3 DEF Adopt
  <2>2. /\ pindexBest' = c /\ dbBest' \in Chain[c] /\ gap' \subseteq Chain[c] \ {c, Genesis}
        /\ UNCHANGED <<release, crashes>> /\ faults' \in 0 .. MaxFaults
    BY <1>1, <2>1, SetBestChainFacts
  <2>3. TypeOK'
    BY <1>1, <1>3, <2>1, <2>2 DEF TypeOK, Hash
  <2>4. FC!MoveTo(c)
    BY <1>1, <1>3, <2>1, MoveCInv
  <2> QED BY <1>1, <1>3, <2>1, <2>2, <2>3, <2>4 DEF CheckpointInMainChain
<1>4. CASE pc' = "idle"
  <2>1. SetBestChainFails(c) /\ UNCHANGED <<chainVars, lapse, candidate, hashPendingCheckpoint>>
    BY <1>4 DEF Adopt
  <2>2. UNCHANGED <<release, crashes>> /\ faults' \in 0 .. MaxFaults
    BY <2>1, FailFacts
  <2>3. hashInvalidCheckpoint' \in Hash
    BY <1>1, <1>4 DEF Adopt, TypeOK, Hash
  <2>4. TypeOK'
    BY <1>1, <1>4, <2>1, <2>2, <2>3 DEF TypeOK
  <2> QED BY <1>4, <2>1, <2>2, <2>4 DEF CheckpointInMainChain
<1> QED BY <1>2, <1>3, <1>4 DEF Adopt

\* A start takes the chain and the checkpoint of the database.
LEMMA LoadCInv ==
  ASSUME CInv, LoadBlockIndex, pc' \in {"idle", "reset"}, release' \in DOMAIN Hardened,
         crashes' \in 0 .. MaxCrashes
  PROVE  CInv' /\ pindexBest' = dbBest /\ UNCHANGED <<dbBest, hashSyncCheckpoint>>
<1> USE DEF CInv
<1>1. /\ pindexBest' = dbBest /\ dbBest' = dbBest /\ mapBlockIndex' = mapBlockIndex
      /\ hashSyncCheckpoint' = hashSyncCheckpoint /\ dbSyncCheckpoint' = dbSyncCheckpoint
      /\ hashPendingCheckpoint' = NoBlock /\ hashInvalidCheckpoint' = NoBlock
      /\ candidate' = NoBlock /\ faults' = faults
      /\ gap' = (gap \cap Chain[dbBest]) \ {dbBest}
      /\ lapse' = IF dbBest = pindexBest THEN lapse ELSE lapse \cup {"behind"}
  BY DEF LoadBlockIndex, TypeOK
<1>2. pindexBest \in Block /\ hashSyncCheckpoint \in Block /\ dbBest \in mapBlockIndex /\ dbBest \in Block
  BY DEF TypeOK
<1>3. dbBest \in Chain[dbBest] /\ Chain[dbBest] \subseteq Chain[pindexBest]
  BY <1>2, ChainFacts DEF TypeOK
<1>4. TypeOK'
  BY <1>1, <1>2, <1>3 DEF TypeOK, Hash
<1>5. CheckpointInMainChain'
  <2>1. CASE dbBest = pindexBest
    BY <1>1, <2>1 DEF CheckpointInMainChain
  <2>2. CASE dbBest # pindexBest
    <3>1. CASE hashSyncCheckpoint \in Chain[pindexBest]
      <4>1. hashSyncCheckpoint \in Chain[dbBest] \/ dbBest \in Chain[hashSyncCheckpoint]
        BY <1>2, <1>3, <3>1, Linear
      <4> QED BY <1>1, <2>2, <4>1 DEF CheckpointInMainChain
    <3>2. CASE pindexBest \in Chain[hashSyncCheckpoint]
      <4>1. dbBest \in Chain[hashSyncCheckpoint]
        BY <1>2, <1>3, <3>2, ChainFacts
      <4> QED BY <1>1, <2>2, <4>1 DEF CheckpointInMainChain
    <3> QED BY <1>1, <2>2, <3>1, <3>2 DEF CheckpointInMainChain
  <2> QED BY <2>1, <2>2
<1> QED BY <1>1, <1>4, <1>5, BlockAssumption

\* Every step keeps CInv and is a step of FinalChain or leaves what FinalChain
\* speaks of as it is.
LEMMA StepCInv ==
  CInv /\ [Next]_vars => CInv' /\ (FC!FinalNext \/ UNCHANGED FC!finalVars)
<1> SUFFICES ASSUME CInv, [Next]_vars
             PROVE  CInv' /\ (FC!FinalNext \/ UNCHANGED FC!finalVars)
  OBVIOUS
<1> USE DEF CInv, syncVars, pendingVars, chainVars, bounds, FC!finalVars
<1>1. ASSUME NEW b \in Block \ {Genesis}, AcceptBlock(b)
      PROVE  CInv' /\ (UNCHANGED FC!finalVars \/ FC!MoveTo(b))
  <2>1. /\ hashSyncCheckpoint \in Chain[b] /\ UNCHANGED <<syncVars, pendingVars, candidate>>
        /\ mapBlockIndex' = mapBlockIndex \cup {b} /\ pc = "idle" /\ pc' \in {"idle", "pending"}
    BY <1>1, CheckSyncDescends DEF AcceptBlock
  <2>2. \A a \in mapBlockIndex' : Chain[a] \subseteq mapBlockIndex'
    BY <1>1, <2>1, ChainStep DEF AcceptBlock
  <2>3. CASE SetBestChain(b) /\ lapse' = {}
    <3>1. /\ pindexBest' = b /\ dbBest' \in Chain[b] /\ gap' \subseteq Chain[b] \ {b, Genesis}
          /\ UNCHANGED <<release, crashes>> /\ faults' \in 0 .. MaxFaults
      BY <2>3, SetBestChainFacts
    <3>2. TypeOK'
      BY <2>1, <2>3, <3>1 DEF TypeOK
    <3>3. FC!MoveTo(b)
      BY <2>1, <2>3, MoveCInv
    <3> QED BY <2>1, <2>2, <2>3, <3>1, <3>2, <3>3 DEF CheckpointInMainChain
  <2>4. CASE UNCHANGED <<chainVars, lapse>> /\ (UNCHANGED bounds \/ SetBestChainFails(b))
    <3>1. UNCHANGED <<release, crashes>> /\ faults' \in 0 .. MaxFaults
      BY <2>4, FailFacts DEF TypeOK
    <3>2. TypeOK'
      BY <2>1, <2>4, <3>1 DEF TypeOK
    <3> QED BY <2>1, <2>2, <2>4, <3>1, <3>2 DEF CheckpointInMainChain
  <2> QED BY <1>1, <2>3, <2>4 DEF AcceptBlock
<1>2. ASSUME AcceptPendingSyncCheckpoint
      PROVE  CInv' /\ (UNCHANGED FC!finalVars \/ \E c \in Block : FC!MoveTo(c))
  <2>1. CASE /\ pc = "pending" /\ pc' = "idle" /\ UNCHANGED <<mapBlockIndex, syncVars>>
             /\ UNCHANGED <<chainVars, candidate, lapse, bounds>>
             /\ hashPendingCheckpoint' \in Hash /\ hashInvalidCheckpoint' \in Hash
    <3>1. TypeOK'
      BY <2>1 DEF TypeOK
    <3> QED BY <2>1, <3>1 DEF CheckpointInMainChain
  <2>2. CASE /\ hashPendingCheckpoint \in mapBlockIndex /\ Descends(hashPendingCheckpoint)
             /\ Adopt(hashPendingCheckpoint)
    BY <1>2, <2>2, AdoptCInv DEF AcceptPendingSyncCheckpoint, TypeOK
  <2> QED BY <1>2, <2>1, <2>2 DEF AcceptPendingSyncCheckpoint, TypeOK, Hash
<1>3. ASSUME NEW c \in Published, ProcessSyncCheckpoint(c)
      PROVE  CInv' /\ (UNCHANGED FC!finalVars \/ \E d \in Block : FC!MoveTo(d))
  <2>1. CASE UNCHANGED <<pc, chainVars, candidate, lapse, bounds>> /\ ~(c \in mapBlockIndex /\ Descends(c))
    <3>1. TypeOK' /\ pc = "idle"
      BY <1>3, <2>1, CheckpointAssumption DEF TypeOK, ProcessSyncCheckpoint, Hash
    <3> QED BY <1>3, <2>1, <3>1 DEF ProcessSyncCheckpoint, CheckpointInMainChain
  <2>2. CASE c \in mapBlockIndex /\ Descends(c) /\ Adopt(c)
    BY <1>3, <2>2, AdoptCInv DEF ProcessSyncCheckpoint, TypeOK
  <2> QED BY <1>3, <2>1, <2>2 DEF ProcessSyncCheckpoint, Conflicts
<1>4. ASSUME WriteSyncCheckpoint
      PROVE  /\ CInv'
             /\ \/ UNCHANGED FC!finalVars \/ FC!Abandon
                \/ \E c \in Block : FC!Finalize(c) \/ FC!FinalizeAnchor(c)
  <2> DEFINE chosen == IF pc = "write" THEN candidate ELSE ResetTo
  <2>1. /\ pc \in {"write", "anchor"} /\ pc' = "idle" /\ candidate' = NoBlock
        /\ UNCHANGED <<mapBlockIndex, chainVars, hashInvalidCheckpoint, release, crashes>>
        /\ faults' \in 0 .. MaxFaults /\ hashPendingCheckpoint' \in Hash
    BY <1>4, CheckpointAssumption DEF WriteSyncCheckpoint, Fault, TypeOK, Hash
  <2>2. CASE lapse' = {} /\ hashSyncCheckpoint' = chosen /\ dbSyncCheckpoint' = chosen
    <3>1. chosen \in Chain[pindexBest] /\ chosen \in mapBlockIndex
      BY <2>1, ResetType DEF TypeOK
    <3>2. TypeOK'
      BY <2>1, <2>2, <3>1 DEF TypeOK, Hash
    <3>3. CInv'
      BY <2>1, <2>2, <3>1, <3>2 DEF CheckpointInMainChain
    <3>4. CASE pc = "write"
      BY <2>1, <2>2, <3>1, <3>3, <3>4, SameChain DEF FC!Finalize, TypeOK
    <3>5. CASE pc = "anchor"
      <4>1. chosen = ResetTo /\ chosen \in Hardened[release] \cap Chain[pindexBest]
        BY <3>5, ResetType
      <4> QED BY <2>1, <2>2, <3>1, <3>3, <3>5, <4>1, SameChain DEF FC!FinalizeAnchor, TypeOK
    <3> QED BY <2>1, <3>4, <3>5
  <2>3. CASE UNCHANGED <<syncVars, hashPendingCheckpoint, lapse>>
    <3>1. TypeOK'
      BY <2>1, <2>3 DEF TypeOK, Hash
    <3>2. CInv'
      BY <2>1, <2>3, <3>1 DEF CheckpointInMainChain
    <3> QED BY <2>1, <2>3, <3>2 DEF FC!Abandon
  <2> QED BY <1>4, <2>2, <2>3 DEF WriteSyncCheckpoint
<1>5. ASSUME Crash PROVE CInv' /\ FC!Restart
  <2>1. pc' = "idle" /\ LoadBlockIndex /\ release' = release /\ crashes' \in 0 .. MaxCrashes
    BY <1>5, CheckpointAssumption DEF Crash, TypeOK
  <2>2. CInv' /\ pindexBest' = dbBest /\ UNCHANGED <<dbBest, hashSyncCheckpoint>>
    BY <2>1, LoadCInv DEF TypeOK
  <2> QED BY <2>1, <2>2 DEF FC!Restart
<1>6. ASSUME Upgrade PROVE CInv' /\ FC!Release
  <2>1. /\ pc = "idle" /\ pc' = "reset" /\ LoadBlockIndex /\ crashes' = crashes
        /\ release' = release + 1 /\ release' \in DOMAIN Hardened
    BY <1>6 DEF Upgrade
  <2>2. CInv' /\ pindexBest' = dbBest /\ UNCHANGED <<dbBest, hashSyncCheckpoint>>
    BY <2>1, LoadCInv DEF TypeOK
  <2> QED BY <2>1, <2>2 DEF FC!Release
<1>7. ASSUME ResetSyncCheckpoint
      PROVE  /\ CInv'
             /\ \/ UNCHANGED FC!finalVars \/ FC!Abandon
                \/ \E b \in Block : FC!MoveToAnchor(b)
  <2> DEFINE last == LastOf(Hardened[release])
  <2>1. last \in Hardened[release] /\ last \in Block
    BY LastType DEF TypeOK
  <2> HIDE DEF last
  <2>2. pc = "reset" /\ hashPendingCheckpoint = NoBlock /\ NoBlock \notin mapBlockIndex
        /\ UNCHANGED <<mapBlockIndex, syncVars, hashInvalidCheckpoint, candidate>>
    BY <1>7, BlockAssumption DEF ResetSyncCheckpoint, TypeOK
  <2>3. CASE /\ hashPendingCheckpoint' = (IF last \in mapBlockIndex THEN NoBlock ELSE last)
             /\ pc' = "anchor" /\ UNCHANGED <<chainVars, lapse, bounds>>
    <3>1. TypeOK'
      BY <2>1, <2>2, <2>3 DEF TypeOK, Hash
    <3> QED BY <2>2, <2>3, <3>1 DEF CheckpointInMainChain
  <2>4. CASE /\ last \in mapBlockIndex /\ SetBestChain(last) /\ lapse' = lapse \cup {"reset"}
             /\ pc' = "anchor" /\ UNCHANGED hashPendingCheckpoint
    <3>1. /\ pindexBest' = last /\ dbBest' \in Chain[last] /\ gap' \subseteq Chain[last] \ {last, Genesis}
          /\ UNCHANGED <<release, crashes>> /\ faults' \in 0 .. MaxFaults
      BY <2>1, <2>4, SetBestChainFacts
    <3>2. TypeOK'
      BY <2>1, <2>2, <2>4, <3>1 DEF TypeOK, Hash
    <3>3. CInv'
      BY <2>2, <2>4, <3>2 DEF CheckpointInMainChain
    <3> QED BY <2>1, <2>2, <2>4, <3>1, <3>3, SameChain DEF FC!MoveToAnchor, FC!Saves
  <2>5. CASE /\ SetBestChainFails(last) /\ pc' = "idle"
             /\ UNCHANGED <<chainVars, lapse, hashPendingCheckpoint>>
    <3>1. UNCHANGED <<release, crashes>> /\ faults' \in 0 .. MaxFaults
      BY <2>5, FailFacts
    <3>2. TypeOK'
      BY <2>2, <2>5, <3>1 DEF TypeOK
    <3>3. CInv'
      BY <2>2, <2>5, <3>2 DEF CheckpointInMainChain
    <3> QED BY <2>2, <2>5, <3>1, <3>3 DEF FC!Abandon
  <2> QED BY <1>7, <2>3, <2>4, <2>5 DEF ResetSyncCheckpoint, last
<1>8. CASE UNCHANGED vars
  BY <1>8 DEF vars, TypeOK, Hash, CheckpointInMainChain
<1>9. CInv'
  BY <1>1, <1>2, <1>3, <1>4, <1>5, <1>6, <1>7, <1>8 DEF Next
<1>10. (FC!FinalNext \/ UNCHANGED FC!finalVars)
  BY <1>1, <1>2, <1>3, <1>4, <1>5, <1>6, <1>7, <1>8 DEF Next, FC!FinalNext, vars
<1> QED BY <1>9, <1>10

\* CInv always holds.
LEMMA Invariant == Spec => []CInv
  BY InitCInv, StepCInv, PTL DEF Spec

\* The checkpoint in force is a block of the main chain, up to the recorded
\* lapses, and after a restart with a shorter chain still on one branch with it:
\* no branch that leaves it below is connected but by the reset of a release.
THEOREM CheckpointOnMainChain == Spec => []CheckpointInMainChain
<1>1. CInv => CheckpointInMainChain
  BY DEF CInv
<1> QED BY <1>1, Invariant, PTL

\* The types, and the checkpoint in memory is the one in the database.
THEOREM CheckpointTypes == Spec => []TypeOK
<1>1. CInv => TypeOK
  BY DEF CInv
<1> QED BY <1>1, Invariant, PTL

\* Checkpoints make the chain below them final, in memory and on disk, up to the
\* steps of the first start of a release, whatever crashes or fails in between.
THEOREM CheckpointsAreFinal == Spec => ImplementsFinalChain
<1>1. Init => FC!FinalInit
  BY DEF Init, FC!FinalInit
<1>2. CInv /\ [Next]_vars => [FC!FinalNext]_FC!finalVars
  BY StepCInv DEF FC!finalVars
<1> QED BY <1>1, <1>2, Invariant, PTL DEF Spec, ImplementsFinalChain, FC!FinalSpec

-----------------------------------------------------------------------------
(* Pending checkpoints                                                      *)

\* Every step keeps PendingTaken.
LEMMA StepPending == CInv /\ PendingTaken /\ [Next]_vars => PendingTaken'
<1> DEFINE Decided == Chain[hashPendingCheckpoint'] \cap BadBlock # {} \/ gap' # {}
<1> SUFFICES ASSUME CInv, PendingTaken, [Next]_vars,
                    pc' = "idle", faults' = 0, hashPendingCheckpoint' \in mapBlockIndex'
             PROVE  Decided
  BY DEF PendingTaken
<1> USE DEF CInv, TypeOK, syncVars, pendingVars, chainVars, bounds
<1>1. NoBlock \notin mapBlockIndex /\ faults \in Nat /\ ~Fault
  BY BlockAssumption, CheckpointAssumption DEF Fault
<1>2. \A b : ~Connects(b) => Chain[b] \cap BadBlock # {}
  BY DEF Connects, Demanded
<1>3. ASSUME NEW b \in Block \ {Genesis}, AcceptBlock(b) PROVE Decided
  <2>1. /\ pc = "idle" /\ faults' = faults /\ (~Connects(b) \/ gap # {})
        /\ mapBlockIndex' = mapBlockIndex \cup {b} /\ UNCHANGED <<hashPendingCheckpoint, gap>>
    BY <1>1, <1>3 DEF AcceptBlock, SetBestChainFails
  <2>2. CASE hashPendingCheckpoint \in mapBlockIndex
    BY <2>1, <2>2 DEF PendingTaken
  <2>3. CASE hashPendingCheckpoint = b
    BY <1>2, <2>1, <2>3
  <2> QED BY <2>1, <2>2, <2>3
<1>4. ASSUME AcceptPendingSyncCheckpoint PROVE Decided
  <2>1. /\ UNCHANGED <<hashPendingCheckpoint, gap>>
        /\ ~Connects(hashPendingCheckpoint) \/ gap # {}
    BY <1>1, <1>4 DEF AcceptPendingSyncCheckpoint, Adopt, SetBestChainFails
  <2> QED BY <1>2, <2>1
<1>5. ASSUME NEW c \in Published, ProcessSyncCheckpoint(c) PROVE Decided
  <2>1. pc = "idle" /\ UNCHANGED <<mapBlockIndex, hashPendingCheckpoint, faults, gap>>
    BY <1>1, <1>5 DEF ProcessSyncCheckpoint, Adopt, SetBestChainFails
  <2> QED BY <2>1 DEF PendingTaken
<1>6. CASE WriteSyncCheckpoint
  BY <1>1, <1>6 DEF WriteSyncCheckpoint
<1>7. CASE Crash \/ Upgrade
  BY <1>1, <1>7 DEF Crash, Upgrade, LoadBlockIndex
<1>8. CASE ResetSyncCheckpoint
  BY <1>1, <1>8 DEF ResetSyncCheckpoint
<1>9. CASE UNCHANGED vars
  BY <1>9 DEF vars, PendingTaken
<1> QED BY <1>3, <1>4, <1>5, <1>6, <1>7, <1>8, <1>9 DEF Next

\* Without storage faults a pending checkpoint whose block is indexed is decided
\* before the next message is read, unless its branch holds a bad block or the
\* chain has a gap: every return of AcceptBlock that leaves it undecided is such
\* a case.
THEOREM PendingIsTaken == Spec => []PendingTaken
<1>1. Init => PendingTaken
  BY BlockAssumption DEF Init, PendingTaken
<1> QED BY <1>1, Invariant, StepPending, PTL DEF Spec

=============================================================================
