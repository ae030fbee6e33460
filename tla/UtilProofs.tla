------------------------------ MODULE UtilProofs ------------------------------
(***************************************************************************)
(* Proofs about three parts of the node that share no state: CheckQueue,   *)
(* for any number of workers, every set of checks and every size of a      *)
(* batch; LockedPool, for every size and alignment of the arenas, every    *)
(* limit and any requests; Alerts, for every network of nodes and any      *)
(* alerts.                                                                 *)
(***************************************************************************)
EXTENDS CheckQueue, LockedPool, Alerts, FiniteSetTheorems, TLAPS

-----------------------------------------------------------------------------
(* The check queue                                                          *)

PCs == {"out", "in", "wait", "woken", "run"}

\* The checks that are not counted off when the thread t is done with its batch.
Rest(t) == queue \cup UNION {vChecks[u] : u \in Thread \ {t}}

\* Finitely many checks are pending, all of them added.
PendingAdded == IsFiniteSet(Pending) /\ Pending \subseteq added

\* A result that is false has a cause, one that is true covers all checks that
\* are not pending.
ResultsJustified ==
  /\ control /\ fAllOk => \A c \in added \cap Fails : c \in Pending
  /\ ~fAllOk => added \cap Fails # {}
  /\ \A t \in Thread : pc[t] = "run" /\ ~fOk[t] => added \cap Fails # {}

\* Without a control nothing is left to do.
Quiet ==
  ~control => /\ Pending = {} /\ fAllOk /\ pc[Master] = "out"
              /\ fRet <=> added \cap Fails = {}

\* The threads that wait, and those in Loop.
IdleIn(p) == {u \in Thread : p[u] \in {"wait", "woken"}}
InLoop(p) == {u \in Thread : p[u] # "out"}

\* The inductive invariant.
QInv ==
  /\ TypeOK /\ PendingAdded /\ BatchesApart /\ CountersExact
  /\ ResultsJustified /\ Quiet

-----------------------------------------------------------------------------
(* Facts about the pending checks                                           *)

\* A check is pending if it is queued or in a batch.
LEMMA InPending ==
  \A c : c \in Pending <=> c \in queue \/ \E t \in Thread : c \in vChecks[t]
  BY DEF Pending

\* The same without the batch of one thread.
LEMMA InRest ==
  ASSUME NEW t \in Thread
  PROVE  \A c : c \in Rest(t) <=> c \in queue \/ \E u \in Thread \ {t} : c \in vChecks[u]
  BY DEF Rest

\* The checks that stay are the pending ones without the batch of the thread.
LEMMA RestPending ==
  ASSUME NEW t \in Thread, BatchesApart
  PROVE  Rest(t) = Pending \ vChecks[t] /\ vChecks[t] \subseteq Pending
  BY InPending, InRest DEF BatchesApart

\* The threads are finitely many.
LEMMA ThreadFinite ==
  IsFiniteSet(Thread) /\ \A S \in SUBSET Thread : IsFiniteSet(S) /\ Cardinality(S) \in Nat
<1>1. IsFiniteSet(Thread)
  BY QueueAssumption, FS_AddElement DEF Thread
<1>2. ASSUME NEW S \in SUBSET Thread PROVE IsFiniteSet(S) /\ Cardinality(S) \in Nat
  BY <1>1, FS_Subset, FS_CardinalityType
<1> QED BY <1>1, <1>2

\* Counting off a batch.
LEMMA CountOff ==
  ASSUME NEW t \in Thread, BatchesApart, PendingAdded
  PROVE  /\ IsFiniteSet(Rest(t)) /\ Rest(t) \subseteq added
         /\ Cardinality(Rest(t)) = Cardinality(Pending) - Cardinality(vChecks[t])
         /\ Cardinality(Rest(t)) \in Nat
<1>1. IsFiniteSet(vChecks[t]) /\ IsFiniteSet(Rest(t)) /\ Rest(t) \subseteq added
  BY RestPending, FS_Subset DEF PendingAdded
<1>2. Rest(t) \cup vChecks[t] = Pending /\ Rest(t) \cap vChecks[t] = {}
  BY RestPending
<1>3. Cardinality(Pending) = Cardinality(Rest(t)) + Cardinality(vChecks[t]) - 0
  BY <1>1, <1>2, FS_Union, FS_EmptySet
<1>4. Cardinality(Rest(t)) \in Nat /\ Cardinality(vChecks[t]) \in Nat
  BY <1>1, FS_CardinalityType
<1> QED BY <1>1, <1>3, <1>4

-----------------------------------------------------------------------------
(* The counters of threads                                                  *)

\* The program counters q are p with the thread t at x, and the counters follow.
Shift(t, p, x, q) ==
  /\ q \in [Thread -> PCs] /\ q[t] = x /\ \A u \in Thread \ {t} : q[u] = p[u]
  /\ Cardinality(IdleIn(q)) \in Nat /\ Cardinality(InLoop(q)) \in Nat
  /\ (t \in IdleIn(p) <=> x \in {"wait", "woken"}) => IdleIn(q) = IdleIn(p)
  /\ t \notin IdleIn(p) /\ x \in {"wait", "woken"} =>
       Cardinality(IdleIn(q)) = Cardinality(IdleIn(p)) + 1
  /\ t \in IdleIn(p) /\ x \notin {"wait", "woken"} =>
       Cardinality(IdleIn(q)) = Cardinality(IdleIn(p)) - 1
  /\ (t \in InLoop(p) <=> x # "out") => InLoop(q) = InLoop(p)
  /\ t \notin InLoop(p) /\ x # "out" =>
       Cardinality(InLoop(q)) = Cardinality(InLoop(p)) + 1
  /\ t \in InLoop(p) /\ x = "out" =>
       Cardinality(InLoop(q)) = Cardinality(InLoop(p)) - 1

\* What the move of one thread does to them.
LEMMA Moved ==
  ASSUME NEW t \in Thread, NEW p \in [Thread -> PCs], NEW x \in PCs, NEW q,
         q = [p EXCEPT ![t] = x]
  PROVE  Shift(t, p, x, q)
<1>1. q \in [Thread -> PCs] /\ q[t] = x /\ \A u \in Thread \ {t} : q[u] = p[u]
  OBVIOUS
<1>2. /\ IdleIn(q) = IF x \in {"wait", "woken"} THEN IdleIn(p) \cup {t} ELSE IdleIn(p) \ {t}
      /\ InLoop(q) = IF x # "out" THEN InLoop(p) \cup {t} ELSE InLoop(p) \ {t}
  BY <1>1 DEF IdleIn, InLoop
<1>3. /\ IdleIn(q) \in SUBSET Thread /\ InLoop(q) \in SUBSET Thread
      /\ IdleIn(p) \in SUBSET Thread /\ InLoop(p) \in SUBSET Thread
  BY DEF IdleIn, InLoop
<1>4. ASSUME NEW S \in SUBSET Thread
      PROVE  /\ t \notin S => Cardinality(S \cup {t}) = Cardinality(S) + 1
             /\ t \in S => Cardinality(S \ {t}) = Cardinality(S) - 1
             /\ Cardinality(S) \in Nat
  BY ThreadFinite, FS_AddElement, FS_RemoveElement
<1>5. /\ Cardinality(IdleIn(q)) \in Nat /\ Cardinality(InLoop(q)) \in Nat
      /\ (t \in IdleIn(p) <=> x \in {"wait", "woken"}) => IdleIn(q) = IdleIn(p)
      /\ (t \in InLoop(p) <=> x # "out") => InLoop(q) = InLoop(p)
  BY <1>2, <1>3, <1>4
<1>6. /\ t \notin IdleIn(p) /\ x \in {"wait", "woken"} =>
           Cardinality(IdleIn(q)) = Cardinality(IdleIn(p)) + 1
      /\ t \in IdleIn(p) /\ x \notin {"wait", "woken"} =>
           Cardinality(IdleIn(q)) = Cardinality(IdleIn(p)) - 1
  BY <1>2, <1>3, <1>4
<1>7. /\ t \notin InLoop(p) /\ x # "out" =>
           Cardinality(InLoop(q)) = Cardinality(InLoop(p)) + 1
      /\ t \in InLoop(p) /\ x = "out" =>
           Cardinality(InLoop(q)) = Cardinality(InLoop(p)) - 1
  BY <1>2, <1>3, <1>4
<1> QED BY <1>1, <1>5, <1>6, <1>7 DEF Shift

\* A thread that is not running has no batch.
LEMMA NoBatch ==
  ASSUME QInv, NEW t \in Thread, pc[t] # "run"
  PROVE  vChecks[t] = {}
  BY DEF QInv, BatchesApart

\* The thread t goes to x, and counts itself in or out.
Steps(t, x) ==
  /\ pc' = [pc EXCEPT ![t] = x]
  /\ nIdle' = IF pc[t] \in {"wait", "woken"} THEN nIdle - 1
              ELSE IF x = "wait" THEN nIdle + 1 ELSE nIdle
  /\ nTotal' = IF pc[t] = "out" THEN nTotal + 1 ELSE IF x = "out" THEN nTotal - 1 ELSE nTotal

\* Such a step keeps nIdle and nTotal exact.
LEMMA StepsCounted ==
  ASSUME QInv, NEW t \in Thread, NEW x \in PCs, Steps(t, x),
         x = "in" \/ (pc[t] = "in" /\ x # "woken"), pc[t] # x
  PROVE  /\ pc' \in [Thread -> PCs] /\ pc'[t] = x /\ \A u \in Thread \ {t} : pc'[u] = pc[u]
         /\ nIdle' = Cardinality(IdleIn(pc')) /\ nTotal' = Cardinality(InLoop(pc'))
         /\ nIdle' \in Nat /\ nTotal' \in Nat
<1>1. /\ pc \in [Thread -> PCs] /\ nIdle = Cardinality(IdleIn(pc))
      /\ nTotal = Cardinality(InLoop(pc))
  BY DEF QInv, TypeOK, PCs, CountersExact, IdleIn, InLoop
<1>2. t \in IdleIn(pc) <=> pc[t] \in {"wait", "woken"}
  BY DEF IdleIn
<1>3. t \in InLoop(pc) <=> pc[t] # "out"
  BY DEF InLoop
<1>4. PICK q : q = pc' /\ q = [pc EXCEPT ![t] = x]
  BY DEF Steps
<1>5. Shift(t, pc, x, q)
  BY ONLY <1>1, <1>4, t \in Thread, x \in PCs, Moved
<1>6. nIdle' = Cardinality(IdleIn(q))
  BY <1>1, <1>2, <1>5 DEF Steps, Shift
<1>7. nTotal' = Cardinality(InLoop(q))
  BY <1>1, <1>3, <1>5 DEF Steps, Shift
<1> QED BY <1>4, <1>5, <1>6, <1>7 DEF Shift

\* Only the master returns, and it finds nothing left to do.
LEMMA ReturnKeeps ==
  ASSUME QInv, NEW t \in Thread, Return(t)
  PROVE  QInv'
<1> USE DEF QInv, Return
<1>1. Steps(t, "out") /\ "out" \in PCs
  BY DEF Steps, PCs
<1>2. /\ pc' \in [Thread -> PCs] /\ pc'[t] = "out" /\ \A u \in Thread \ {t} : pc'[u] = pc[u]
      /\ nIdle' = Cardinality(IdleIn(pc')) /\ nTotal' = Cardinality(InLoop(pc'))
      /\ nIdle' \in Nat /\ nTotal' \in Nat
  BY <1>1, StepsCounted
<1>3. Pending = {} /\ Pending' = {}
  <2>1. Pending = {}
    BY FS_EmptySet DEF PendingAdded, CountersExact
  <2>2. Pending' = Pending
    BY DEF Pending
  <2> QED BY <2>1, <2>2
<1>4. TypeOK'
  <2>1. fAllOk' \in BOOLEAN /\ control' \in BOOLEAN /\ fRet' \in BOOLEAN
    BY DEF TypeOK
  <2> QED BY <1>2, <2>1 DEF TypeOK, PCs
<1>5. PendingAdded' /\ CountersExact'
  BY <1>2, <1>3, FS_EmptySet DEF PendingAdded, CountersExact, IdleIn, InLoop
<1>6. \A u \in Thread : pc'[u] # "run" /\ vChecks[u] = {}
  BY <1>2, <1>3, InPending DEF BatchesApart
<1>7. BatchesApart'
  BY <1>6 DEF BatchesApart
<1>8. control
  BY DEF Quiet
<1>9. fRet' <=> added \cap Fails = {}
  BY <1>3, <1>8 DEF ResultsJustified
<1>10. ResultsJustified'
  BY <1>6 DEF ResultsJustified
<1>11. Quiet'
  BY <1>2, <1>3, <1>9 DEF Quiet
<1> QED BY <1>4, <1>5, <1>7, <1>10, <1>11

\* A step of a thread to x that changes no batch and leaves the rest alone.
LEMMA StepKeeps ==
  ASSUME QInv, NEW t \in Thread, NEW x \in {"in", "wait"}, Steps(t, x),
         pc[t] # "run", pc[t] # x, x = "in" \/ pc[t] = "in",
         t = Master => control,
         UNCHANGED <<queue, nTodo, fAllOk, vChecks, fOk, control, added, fRet>>
  PROVE  QInv'
<1> USE DEF QInv
<1>1. x \in PCs
  BY DEF PCs
<1>2. /\ pc' \in [Thread -> PCs] /\ pc'[t] = x /\ \A u \in Thread \ {t} : pc'[u] = pc[u]
      /\ nIdle' = Cardinality(IdleIn(pc')) /\ nTotal' = Cardinality(InLoop(pc'))
      /\ nIdle' \in Nat /\ nTotal' \in Nat
  BY <1>1, StepsCounted
<1>3. Pending' = Pending
  BY DEF Pending
<1>4. TypeOK'
  BY <1>2 DEF TypeOK, PCs
<1>5. PendingAdded' /\ CountersExact'
  BY <1>2, <1>3 DEF PendingAdded, CountersExact, IdleIn, InLoop
<1>6. BatchesApart'
  BY <1>2 DEF BatchesApart
<1>7. ResultsJustified'
  BY <1>2, <1>3 DEF ResultsJustified
<1>8. Quiet'
  BY <1>2, <1>3 DEF Quiet, Thread
<1> QED BY <1>4, <1>5, <1>6, <1>7, <1>8

\* Going to wait, starting and the end of a wait are such steps.
LEMMA SleepKeeps ==
  ASSUME QInv, NEW t \in Thread, Sleep(t) \/ Enter(t) \/ Resume(t)
  PROVE  QInv'
<1>1. t = Master => control
  BY DEF QInv, Quiet, Sleep, Enter, Resume
<1>2. CASE Sleep(t)
  <2>1. Steps(t, "wait")
    BY <1>2 DEF Sleep, Steps
  <2> QED BY <1>1, <1>2, <2>1, StepKeeps DEF Sleep
<1>3. CASE Enter(t)
  <2>1. Steps(t, "in")
    BY <1>3 DEF Enter, Steps
  <2> QED BY <1>1, <1>3, <2>1, StepKeeps DEF Enter
<1>4. CASE Resume(t)
  <2>1. Steps(t, "in")
    BY <1>4 DEF Resume, Steps
  <2> QED BY <1>1, <1>4, <2>1, StepKeeps DEF Resume
<1> QED BY <1>2, <1>3, <1>4

\* Take keeps the invariant.
LEMMA TakeKeeps ==
  ASSUME QInv, NEW t \in Thread, Take(t)
  PROVE  QInv'
<1> USE DEF QInv
<1>1. PICK B \in SUBSET queue : /\ IsFiniteSet(B) /\ Cardinality(B) = nNow
                               /\ queue' = queue \ B
                               /\ vChecks' = [vChecks EXCEPT ![t] = B]
  BY Zenon DEF Take
<1>a. /\ pc[t] = "in" /\ fOk' = [fOk EXCEPT ![t] = fAllOk]
      /\ UNCHANGED <<nIdle, nTotal, nTodo, fAllOk, control, added, fRet>>
  BY Zenon DEF Take
<1>2. B # {}
  BY <1>1, FS_EmptySet DEF nNow
<1>3. /\ vChecks' \in [Thread -> SUBSET Check] /\ vChecks'[t] = B
      /\ \A u \in Thread \ {t} : vChecks'[u] = vChecks[u]
  BY <1>1 DEF TypeOK
<1>4. Pending' = Pending
  <2>1. \A c : c \in Pending' <=> c \in queue' \/ \E u \in Thread : c \in vChecks'[u]
    BY DEF Pending
  <2>2. vChecks[t] = {}
    BY <1>a, NoBatch
  <2> QED BY <1>1, <1>3, <2>1, <2>2, InPending
<1>5. /\ pc' \in [Thread -> PCs] /\ pc'[t] = "run" /\ \A u \in Thread \ {t} : pc'[u] = pc[u]
      /\ nIdle' = Cardinality(IdleIn(pc')) /\ nTotal' = Cardinality(InLoop(pc'))
      /\ nIdle' \in Nat /\ nTotal' \in Nat
  <2>1. Steps(t, "run") /\ "run" \in PCs
    BY DEF Steps, Take, PCs
  <2> QED BY <1>a, <2>1, StepsCounted
<1>6. TypeOK'
  BY <1>1, <1>a, <1>3, <1>5 DEF TypeOK, PCs
<1>7. PendingAdded' /\ CountersExact'
  BY <1>a, <1>4, <1>5 DEF PendingAdded, CountersExact, IdleIn, InLoop
<1>8. BatchesApart'
  BY <1>1, <1>2, <1>3, <1>5 DEF BatchesApart
<1>9. ResultsJustified'
  BY <1>a, <1>4, <1>5 DEF ResultsJustified, TypeOK
<1>10. Quiet'
  BY <1>1, <1>a, <1>2, InPending DEF Quiet
<1> QED BY <1>6, <1>7, <1>8, <1>9, <1>10

\* The end of a batch keeps it: the woken master counts as idle still.
LEMMA FinishKeeps ==
  ASSUME QInv, NEW t \in Thread, Finish(t)
  PROVE  QInv'
<1> USE DEF QInv
<1> DEFINE todo == nTodo - Cardinality(vChecks[t])
           p    == Notified(t, todo)
           ok   == fAllOk /\ Passed(t)
<1>1. /\ pc[t] = "run" /\ fAllOk' = ok /\ nTodo' = todo /\ pc' = [p EXCEPT ![t] = "in"]
      /\ vChecks' = [vChecks EXCEPT ![t] = {}]
      /\ UNCHANGED <<queue, nIdle, nTotal, fOk, control, added, fRet>>
  BY Zenon DEF Finish
<1>2. vChecks[t] # {} /\ control
  BY <1>1, InPending DEF BatchesApart, Quiet
<1>3. /\ p \in [Thread -> PCs]
      /\ \A u \in Thread : p[u] = pc[u] \/ (pc[u] = "wait" /\ p[u] = "woken")
  BY DEF Notified, TypeOK, PCs
<1>4. todo = Cardinality(Rest(t)) /\ todo \in Nat
  BY CountOff DEF CountersExact
<1>5. ok \in BOOLEAN
  BY DEF TypeOK, Passed
<1>6. ok => \A c \in added \cap Fails : c \in Rest(t)
  BY <1>2, RestPending DEF ResultsJustified, Passed
<1>7. ~ok => added \cap Fails # {}
  BY <1>1, RestPending DEF ResultsJustified, Passed, PendingAdded
<1> HIDE DEF p, todo, ok
<1>8. /\ vChecks' \in [Thread -> SUBSET Check] /\ vChecks'[t] = {}
      /\ \A u \in Thread \ {t} : vChecks'[u] = vChecks[u]
  BY <1>1 DEF TypeOK
<1>9. Pending' = Rest(t)
  <2>1. \A c : c \in Pending' <=> c \in queue' \/ \E u \in Thread : c \in vChecks'[u]
    BY DEF Pending
  <2> QED BY <1>1, <1>8, <2>1, InRest
<1>10. /\ pc' \in [Thread -> PCs] /\ pc'[t] = "in" /\ \A u \in Thread \ {t} : pc'[u] = p[u]
       /\ nIdle = Cardinality(IdleIn(pc')) /\ nTotal = Cardinality(InLoop(pc'))
  <2>1. /\ pc' \in [Thread -> PCs] /\ pc'[t] = "in" /\ \A u \in Thread \ {t} : pc'[u] = p[u]
    <3>1. "in" \in PCs
      BY DEF PCs
    <3> QED BY ONLY <1>1, <1>3, <3>1, t \in Thread
  <2>2. IdleIn(pc') = IdleIn(pc) /\ InLoop(pc') = InLoop(pc)
    BY <1>1, <1>3, <2>1 DEF IdleIn, InLoop
  <2>3. nIdle = Cardinality(IdleIn(pc)) /\ nTotal = Cardinality(InLoop(pc))
    BY DEF CountersExact, IdleIn, InLoop
  <2> QED BY <2>1, <2>2, <2>3
<1>11. TypeOK'
  <2>1. fAllOk' \in BOOLEAN /\ nTodo' \in Nat
    BY <1>1, <1>4, <1>5
  <2> QED BY <1>1, <1>8, <1>10, <2>1 DEF TypeOK, PCs
<1>12. PendingAdded' /\ CountersExact'
  <2>1. IsFiniteSet(Rest(t)) /\ Rest(t) \subseteq added
    BY CountOff
  <2> QED BY <1>1, <1>4, <1>9, <1>10, <2>1 DEF PendingAdded, CountersExact, IdleIn, InLoop
<1>13. BatchesApart'
  BY <1>1, <1>3, <1>8, <1>10 DEF BatchesApart
<1>14. ResultsJustified'
  BY <1>1, <1>3, <1>6, <1>7, <1>9, <1>10 DEF ResultsJustified
<1>15. Quiet'
  BY <1>1, <1>2 DEF Quiet
<1> QED BY <1>11, <1>12, <1>13, <1>14, <1>15

-----------------------------------------------------------------------------
(* The other actions                                                        *)

\* A change of waiting threads to woken ones counts for nothing.
LEMMA WokenCounts ==
  ASSUME TypeOK, CountersExact, BatchesApart, NEW q \in [Thread -> PCs],
         \A u \in Thread : q[u] = pc[u] \/ (pc[u] = "wait" /\ q[u] = "woken")
  PROVE  /\ nIdle = Cardinality(IdleIn(q)) /\ nTotal = Cardinality(InLoop(q))
         /\ \A u \in Thread : vChecks[u] # {} <=> q[u] = "run"
<1>1. IdleIn(q) = IdleIn(pc) /\ InLoop(q) = InLoop(pc)
  BY DEF IdleIn, InLoop
<1>2. nIdle = Cardinality(IdleIn(pc)) /\ nTotal = Cardinality(InLoop(pc))
  BY DEF CountersExact, IdleIn, InLoop
<1>3. \A u \in Thread : vChecks[u] # {} <=> q[u] = "run"
  BY DEF BatchesApart
<1> QED BY <1>1, <1>2, <1>3

\* A wait that ends for no reason keeps it.
LEMMA SpuriousKeeps ==
  ASSUME QInv, NEW t \in Thread, Spurious(t)
  PROVE  QInv'
<1> USE DEF QInv, Spurious
<1>1. PICK q : q = pc' /\ q = [pc EXCEPT ![t] = "woken"]
  BY Zenon
<1>2. /\ q \in [Thread -> PCs]
      /\ \A u \in Thread : q[u] = pc[u] \/ (pc[u] = "wait" /\ q[u] = "woken")
  <2>1. pc \in [Thread -> PCs] /\ "woken" \in PCs /\ pc[t] = "wait"
    BY DEF TypeOK, PCs
  <2> HIDE DEF QInv, Spurious
  <2>2. q \in [Thread -> PCs] /\ q[t] = "woken" /\ \A u \in Thread \ {t} : q[u] = pc[u]
    BY <1>1, <2>1
  <2> QED BY <2>1, <2>2
<1>3. /\ nIdle = Cardinality(IdleIn(q)) /\ nTotal = Cardinality(InLoop(q))
      /\ \A u \in Thread : vChecks[u] # {} <=> q[u] = "run"
  BY <1>2, WokenCounts
<1>4. Pending' = Pending
  BY DEF Pending
<1>5. TypeOK'
  BY <1>1, <1>2 DEF TypeOK, PCs
<1>6. PendingAdded' /\ CountersExact'
  BY <1>1, <1>3, <1>4 DEF PendingAdded, CountersExact, IdleIn, InLoop
<1>7. BatchesApart'
  BY <1>1, <1>3 DEF BatchesApart
<1>8. ResultsJustified'
  BY <1>1, <1>2, <1>4 DEF ResultsJustified
<1>9. Quiet'
  BY <1>1, <1>2, <1>4 DEF Quiet, Thread
<1> QED BY <1>5, <1>6, <1>7, <1>8, <1>9

\* A new control keeps it.
LEMMA NewControlKeeps ==
  ASSUME QInv, NewControl
  PROVE  QInv'
<1> USE DEF QInv, NewControl
<1>1. Pending' = {} /\ Pending = {}
  BY DEF Pending, Quiet
<1>2. TypeOK'
  BY DEF TypeOK
<1>3. PendingAdded' /\ CountersExact'
  BY <1>1 DEF PendingAdded, CountersExact
<1>4. BatchesApart'
  BY DEF BatchesApart
<1>5. \A t \in Thread : pc[t] # "run"
  BY <1>1, InPending DEF BatchesApart
<1>6. ResultsJustified' /\ Quiet'
  BY <1>5 DEF ResultsJustified, Quiet
<1> QED BY <1>2, <1>3, <1>4, <1>6

\* Adding checks keeps it.
LEMMA AddKeeps ==
  ASSUME QInv, NEW C \in SUBSET Check, IsFiniteSet(C), Add(C)
  PROVE  QInv'
<1> USE DEF QInv
<1>1. PICK q : q = pc' /\ q \in [Thread -> PCs]
               /\ \A u \in Thread : q[u] = pc[u] \/ (pc[u] = "wait" /\ q[u] = "woken")
  <2>1. /\ pc' \in [Thread -> PCs]
        /\ \A u \in Thread : pc'[u] = pc[u] \/ (pc[u] = "wait" /\ pc'[u] = "woken")
    <3>1. pc \in [Thread -> PCs]
      BY DEF TypeOK, PCs
    <3>2. CASE Cardinality(C) = 1 /\ Waiting # {}
      <4>1. PICK t \in Waiting : pc' = [pc EXCEPT ![t] = "woken"]
        BY <3>2 DEF Add
      <4>2. t \in Thread /\ pc[t] = "wait" /\ "woken" \in PCs
        BY DEF Waiting, Thread, PCs
      <4> HIDE DEF QInv
      <4>3. /\ pc' \in [Thread -> PCs] /\ pc'[t] = "woken"
            /\ \A u \in Thread \ {t} : pc'[u] = pc[u]
        BY <3>1, <4>1, <4>2
      <4> QED BY <4>2, <4>3
    <3>3. CASE ~(Cardinality(C) = 1 /\ Waiting # {})
      <4>1. pc' = [t \in Thread |-> IF t \in Waiting THEN "woken" ELSE pc[t]]
        BY <3>3 DEF Add
      <4>2. "woken" \in PCs /\ \A t \in Waiting : pc[t] = "wait"
        BY DEF Waiting, PCs
      <4> HIDE DEF QInv
      <4> QED BY <3>1, <4>1, <4>2
    <3> QED BY <3>2, <3>3
  <2> QED BY <2>1, Zenon
<1>2. /\ nIdle = Cardinality(IdleIn(q)) /\ nTotal = Cardinality(InLoop(q))
      /\ \A u \in Thread : vChecks[u] # {} <=> q[u] = "run"
  BY <1>1, WokenCounts
<1> HIDE DEF QInv
<1>3. /\ control /\ C \cap added = {} /\ queue' = queue \cup C /\ added' = added \cup C
      /\ nTodo' = nTodo + Cardinality(C)
      /\ UNCHANGED <<nIdle, nTotal, fAllOk, vChecks, fOk, control, fRet>>
  BY Zenon DEF Add
<1> USE DEF QInv
<1>4. Pending' = Pending \cup C
  BY <1>3 DEF Pending
<1>5. IsFiniteSet(Pending') /\ nTodo' = Cardinality(Pending') /\ nTodo' \in Nat
  <2>1. Pending \cap C = {}
    BY <1>3 DEF PendingAdded
  <2>2. IsFiniteSet(Pending \cup C) /\
        Cardinality(Pending \cup C) = Cardinality(Pending) + Cardinality(C) - 0
    BY <2>1, FS_Union, FS_EmptySet DEF PendingAdded
  <2>3. Cardinality(Pending) \in Nat /\ Cardinality(C) \in Nat
    BY FS_CardinalityType DEF PendingAdded
  <2> QED BY <1>3, <1>4, <2>2, <2>3 DEF CountersExact
<1>6. TypeOK'
  BY <1>1, <1>3, <1>5 DEF TypeOK, PCs
<1>7. PendingAdded' /\ CountersExact'
  BY <1>1, <1>2, <1>3, <1>4, <1>5 DEF PendingAdded, CountersExact, IdleIn, InLoop
<1>8. BatchesApart'
  <2>1. \A t \in Thread : vChecks[t] \subseteq added
    BY RestPending DEF PendingAdded
  <2> QED BY <1>1, <1>2, <1>3, <2>1 DEF BatchesApart
<1>9. ResultsJustified'
  BY <1>1, <1>3, <1>4 DEF ResultsJustified
<1>10. Quiet'
  BY <1>3 DEF Quiet
<1> QED BY <1>6, <1>7, <1>8, <1>9, <1>10

-----------------------------------------------------------------------------
(* The theorems                                                             *)

\* It holds at the start.
LEMMA InitHolds == Init => QInv
<1> SUFFICES ASSUME Init PROVE QInv
  OBVIOUS
<1> USE DEF Init
<1>1. Pending = {} /\ IdleIn(pc) = {} /\ InLoop(pc) = {}
  BY DEF Pending, IdleIn, InLoop
<1>2. TypeOK
  BY DEF TypeOK
<1>3. PendingAdded /\ CountersExact
  BY <1>1, FS_EmptySet DEF PendingAdded, CountersExact, IdleIn, InLoop
<1>4. BatchesApart
  BY DEF BatchesApart
<1>5. ResultsJustified /\ Quiet
  BY <1>1 DEF ResultsJustified, Quiet, Thread
<1> QED BY <1>2, <1>3, <1>4, <1>5 DEF QInv

\* Every step keeps it.
LEMMA NextKeeps == QInv /\ [Next]_vars => QInv'
<1> SUFFICES ASSUME QInv, [Next]_vars PROVE QInv'
  OBVIOUS
<1>1. ASSUME NEW t \in Thread,
             Enter(t) \/ Finish(t) \/ Resume(t) \/ Spurious(t) \/ Look(t)
      PROVE  QInv'
  BY <1>1, FinishKeeps, SpuriousKeeps, ReturnKeeps, SleepKeeps, TakeKeeps DEF Look
<1>2. CASE NewControl
  BY <1>2, NewControlKeeps
<1>3. ASSUME NEW C \in SUBSET Check, IsFiniteSet(C), Add(C) PROVE QInv'
  BY <1>3, AddKeeps
<1>4. CASE UNCHANGED vars
  <2>1. Pending' = Pending
    BY <1>4 DEF vars, Pending
  <2> QED BY <1>4, <2>1 DEF vars, QInv, TypeOK, PendingAdded, BatchesApart, CountersExact,
                            ResultsJustified, Quiet
<1> QED BY <1>1, <1>2, <1>3, <1>4 DEF Next

\* The inductive invariant holds.
LEMMA QueueInvariant == Spec => []QInv
  BY InitHolds, NextKeeps, PTL DEF Spec

\* Whenever a CCheckQueueControl can be made nothing is to be done and no result is
\* left, and nTotal and nIdle differ only by the workers that have the mutex: of
\* the assertions of its constructor only the first can fail, and only so, with
\* any number of workers.
THEOREM AssertsHold == Spec => []ControlAsserts
<1>1. QInv => ControlAsserts
  <2> DEFINE In == {t \in Worker : pc[t] = "in"}
  <2> SUFFICES ASSUME QInv, ~control
               PROVE  nTodo = 0 /\ fAllOk /\ nTotal = nIdle + Cardinality(In)
    BY DEF ControlAsserts
  <2>1. Pending = {} /\ fAllOk /\ pc[Master] = "out"
    BY DEF QInv, Quiet
  <2>2. /\ InLoop(pc) = IdleIn(pc) \cup In /\ IdleIn(pc) \cap In = {}
        /\ IdleIn(pc) \in SUBSET Thread /\ In \in SUBSET Thread
    <3>1. \A t \in Thread : pc[t] \in {"out", "in", "wait", "woken"}
      BY <2>1, InPending DEF QInv, BatchesApart, TypeOK
    <3> QED BY <2>1, <3>1 DEF IdleIn, InLoop, Thread
  <2>3. nIdle = Cardinality(IdleIn(pc)) /\ nTotal = Cardinality(InLoop(pc)) /\ nTodo = 0
    BY <2>1, FS_EmptySet DEF QInv, CountersExact, IdleIn, InLoop
  <2> HIDE DEF In
  <2>4. /\ IsFiniteSet(IdleIn(pc)) /\ IsFiniteSet(In)
        /\ Cardinality(IdleIn(pc)) \in Nat /\ Cardinality(In) \in Nat
    BY <2>2, ThreadFinite
  <2>5. Cardinality(IdleIn(pc) \cup In) = Cardinality(IdleIn(pc)) + Cardinality(In) - 0
    <3>1. PICK S, T : S = IdleIn(pc) /\ T = In
      OBVIOUS
    <3>2. /\ IsFiniteSet(S) /\ IsFiniteSet(T) /\ S \cap T = {}
          /\ Cardinality({}) = 0
      BY <2>2, <2>4, <3>1, FS_EmptySet
    <3>3. Cardinality(S \cup T) = Cardinality(S) + Cardinality(T) - Cardinality(S \cap T)
      BY ONLY <3>2, FS_Union
    <3> QED BY ONLY <3>1, <3>2, <3>3
  <2> QED BY <2>1, <2>2, <2>3, <2>4, <2>5
<1> QED BY <1>1, QueueInvariant, PTL

\* Wait returns true exactly if every check added under the control returns
\* true, and none of them is left when it returns.
THEOREM WaitTellsTheTruth == Spec => []ResultExact
<1>1. QInv => ResultExact
  BY DEF QInv, Quiet, ResultExact
<1> QED BY <1>1, QueueInvariant, PTL

\* nTodo, nIdle and nTotal count what their names say.
THEOREM CountersAreExact == Spec => []CountersExact
<1>1. QInv => CountersExact
  BY DEF QInv
<1> QED BY <1>1, QueueInvariant, PTL

\* No check is run twice or dropped: it is queued or in the batch of one thread.
THEOREM BatchesAreApart == Spec => []BatchesApart
<1>1. QInv => BatchesApart
  BY DEF QInv
<1> QED BY <1>1, QueueInvariant, PTL

\* The types of the state.
THEOREM QueueTypes == Spec => []TypeOK
<1>1. QInv => TypeOK
  BY DEF QInv
<1> QED BY <1>1, QueueInvariant, PTL

-----------------------------------------------------------------------------
(* The locked pool                                                          *)

\* What holds of a single arena between two operations.
ArenaOK(A) ==
  /\ A.size \in Nat \ {0} /\ Within(A.size, Chunks(A))
  /\ Agree(A) /\ Partition(A) /\ Merged(A)

\* The inductive invariant.
PInv ==
  /\ arenas \in Seq({arenas[i] : i \in DOMAIN arenas}) /\ Len(arenas) <= MaxArenas
  /\ \A i \in DOMAIN arenas : ArenaOK(arenas[i])

-----------------------------------------------------------------------------
(* Tilings                                                                  *)

\* A chunk of a tiling may be cut in two.
LEMMA Cut ==
  ASSUME NEW n \in Nat, NEW T, Within(n, T), Tiles(n, T), NEW c \in T,
         NEW s \in Nat \ {0}, s < c[1],
         NEW low, low = <<c[1] - s, c[2]>>, NEW high, high = <<s, c[2] + c[1] - s>>,
         NEW U, U = (T \ {c}) \cup {low, high}
  PROVE  /\ Within(n, U) /\ Tiles(n, U) /\ low # high
         /\ low \notin T \ {c} /\ high \notin T \ {c}
<1>1. /\ c[1] \in Nat \ {0} /\ c[2] \in Nat /\ End(c) = c[1] + c[2] /\ End(c) <= n
      /\ \A d \in T : d[1] \in Nat \ {0} /\ d[2] \in Nat /\ End(d) = d[1] + d[2] /\ End(d) <= n
  BY DEF Within, End
<1>2. /\ low[1] = c[1] - s /\ low[2] = c[2] /\ End(low) = c[1] + c[2] - s
      /\ high[1] = s /\ high[2] = c[2] + c[1] - s /\ End(high) = c[1] + c[2]
      /\ low \in (Nat \ {0}) \X Nat /\ high \in (Nat \ {0}) \X Nat
  BY <1>1 DEF End
<1>3. Within(n, U)
  BY <1>1, <1>2 DEF Within
<1>4. \A d \in T \ {c} : End(d) <= c[2] \/ End(c) <= d[2]
  BY DEF Tiles
<1>5. low # high /\ low \notin T \ {c} /\ high \notin T \ {c}
  BY <1>1, <1>2, <1>4
<1>6. \A d, e \in U : d # e => End(d) <= e[2] \/ End(e) <= d[2]
  <2>1. \A d \in T \ {c} : /\ End(d) <= low[2] \/ End(low) <= d[2]
                           /\ End(d) <= high[2] \/ End(high) <= d[2]
    BY <1>1, <1>2, <1>4
  <2>2. End(low) <= high[2]
    BY <1>1, <1>2
  <2>3. \A d, e \in T : d # e => End(d) <= e[2] \/ End(e) <= d[2]
    BY DEF Tiles
  <2> QED BY <2>1, <2>2, <2>3
<1>7. ASSUME NEW x \in 0 .. n - 1
      PROVE  \E d \in U : d[2] <= x /\ x < End(d)
  <2>1. PICK d \in T : d[2] <= x /\ x < End(d)
    BY DEF Tiles
  <2>2. CASE d = c
    BY <1>1, <1>2, <2>1, <2>2
  <2>3. CASE d # c
    BY <2>1, <2>3
  <2> QED BY <2>2, <2>3
<1>8. Tiles(n, U)
  BY <1>6, <1>7 DEF Tiles
<1> QED BY <1>3, <1>5, <1>8

\* Two neighbours in a tiling may be joined.
LEMMA Join ==
  ASSUME NEW n \in Nat, NEW T, Within(n, T), Tiles(n, T), NEW c \in T, NEW d \in T,
         End(c) = d[2], NEW j, j = <<c[1] + d[1], c[2]>>, NEW U, U = (T \ {c, d}) \cup {j}
  PROVE  /\ Within(n, U) /\ Tiles(n, U) /\ c # d
         /\ j \notin T /\ End(j) = End(d) /\ j[2] = c[2]
<1>1. \A e \in T : e[1] \in Nat \ {0} /\ e[2] \in Nat /\ End(e) = e[1] + e[2] /\ End(e) <= n
  BY DEF Within, End
<1>2. /\ j[1] = c[1] + d[1] /\ j[2] = c[2] /\ End(j) = End(d)
      /\ j \in (Nat \ {0}) \X Nat /\ c # d
  BY <1>1 DEF End
<1>3. Within(n, U)
  BY <1>1, <1>2 DEF Within
<1>4. \A e, f \in T : e # f => End(e) <= f[2] \/ End(f) <= e[2]
  BY DEF Tiles
<1>5. j \notin T
  BY <1>1, <1>2, <1>4
<1>6. \A e, f \in U : e # f => End(e) <= f[2] \/ End(f) <= e[2]
  <2>1. \A e \in T \ {c, d} : End(e) <= j[2] \/ End(j) <= e[2]
    BY <1>1, <1>2, <1>4
  <2> QED BY <1>4, <2>1
<1>7. ASSUME NEW x \in 0 .. n - 1
      PROVE  \E e \in U : e[2] <= x /\ x < End(e)
  <2>1. PICK e \in T : e[2] <= x /\ x < End(e)
    BY DEF Tiles
  <2>2. CASE e \in {c, d}
    BY <1>1, <1>2, <2>1, <2>2
  <2>3. CASE e \notin {c, d}
    BY <2>1, <2>3
  <2> QED BY <2>2, <2>3
<1>8. Tiles(n, U)
  BY <1>6, <1>7 DEF Tiles
<1> QED BY <1>2, <1>3, <1>5, <1>8

\* In a tiling a chunk is known by its begin and by its end.
LEMMA Known ==
  ASSUME NEW n \in Nat, NEW T, Within(n, T), Tiles(n, T), NEW c \in T, NEW d \in T,
         c[2] = d[2] \/ End(c) = End(d)
  PROVE  c = d
<1>1. /\ c[1] \in Nat \ {0} /\ c[2] \in Nat /\ End(c) = c[1] + c[2]
      /\ d[1] \in Nat \ {0} /\ d[2] \in Nat /\ End(d) = d[1] + d[2]
  BY DEF Within, End
<1>2. c # d => End(c) <= d[2] \/ End(d) <= c[2]
  BY DEF Tiles
<1> QED BY <1>1, <1>2

-----------------------------------------------------------------------------
(* The maps                                                                 *)

\* The fields of an arena.
LEMMA Fields ==
  ASSUME NEW n, NEW u, NEW s, NEW f, NEW e, NEW A, A = ArenaOf(n, u, s, f, e)
  PROVE  /\ A.size = n /\ A.chunks_used = u /\ A.size_to_free_chunk = s
         /\ A.chunks_free = f /\ A.chunks_free_end = e
  BY DEF ArenaOf

\* The used chunks after an insertion.
LEMMA UsedPut ==
  ASSUME NEW A, NEW B, NEW k, NEW v, k \notin DOMAIN A.chunks_used,
         B.chunks_used = Put(A.chunks_used, k, v)
  PROVE  Used(B) = Used(A) \cup {<<v, k>>}
<1> DEFINE f == A.chunks_used
           g == B.chunks_used
<1>1. /\ Used(A) = {<<f[p], p>> : p \in DOMAIN f}
      /\ Used(B) = {<<g[p], p>> : p \in DOMAIN g}
  BY DEF Used
<1>2. DOMAIN g = DOMAIN f \cup {k} /\ g[k] = v /\ \A x \in DOMAIN f : g[x] = f[x]
  BY DEF Put
<1> HIDE DEF f, g
<1> QED BY <1>1, <1>2

\* The used chunks after a deletion.
LEMMA UsedErase ==
  ASSUME NEW A, NEW B, NEW k, k \in DOMAIN A.chunks_used,
         B.chunks_used = Erase(A.chunks_used, k)
  PROVE  Used(B) = Used(A) \ {<<A.chunks_used[k], k>>}
<1> DEFINE f == A.chunks_used
           g == B.chunks_used
<1>1. /\ Used(A) = {<<f[p], p>> : p \in DOMAIN f}
      /\ Used(B) = {<<g[p], p>> : p \in DOMAIN g}
  BY DEF Used
<1>2. DOMAIN g = DOMAIN f \ {k} /\ \A x \in DOMAIN g : g[x] = f[x]
  BY DEF Erase
<1>3. k \in DOMAIN f
  OBVIOUS
<1> HIDE DEF f, g
<1>4. Used(B) = Used(A) \ {<<f[k], k>>}
  BY <1>1, <1>2, <1>3
<1> QED BY <1>4 DEF f

-----------------------------------------------------------------------------
(* Allocation                                                               *)

\* Arena::alloc keeps an arena in order.
LEMMA TakenOK ==
  ASSUME NEW A, ArenaOK(A), NEW c \in A.size_to_free_chunk, NEW s \in Nat \ {0}, s <= c[1]
  PROVE  ArenaOK(Taken(A, c, s)) /\ Taken(A, c, s).size = A.size
<1> DEFINE n    == A.size
           S    == A.size_to_free_chunk
           U    == Used(A)
           at   == c[2] + c[1] - s
           rest == <<c[1] - s, c[2]>>
           new  == <<s, at>>
<1>1. /\ n \in Nat \ {0} /\ Within(n, S \cup U) /\ Tiles(n, S \cup U) /\ S \cap U = {}
      /\ c \in S /\ \A d, e \in S : End(d) # e[2]
  BY DEF ArenaOK, Chunks, Partition, Merged
<1>2. \A d \in S \cup U : d = <<d[1], d[2]>> /\ d[1] \in Nat \ {0} /\ d[2] \in Nat
                         /\ End(d) = d[1] + d[2] /\ End(d) <= n
  BY <1>1 DEF Within, End
<1>3. /\ \A p \in DOMAIN A.chunks_free : A.chunks_free[p] \in S /\ A.chunks_free[p][2] = p
      /\ \A e \in DOMAIN A.chunks_free_end :
           A.chunks_free_end[e] \in S /\ End(A.chunks_free_end[e]) = e
      /\ \A d \in S : d[2] \in DOMAIN A.chunks_free /\ End(d) \in DOMAIN A.chunks_free_end
  BY DEF ArenaOK, Agree
<1>4. \A d, e \in S \cup U : d[2] = e[2] \/ End(d) = End(e) => d = e
  BY <1>1, Known
<1>5. at \notin DOMAIN A.chunks_used
  <2> SUFFICES ASSUME at \in DOMAIN A.chunks_used PROVE FALSE
    OBVIOUS
  <2> DEFINE d == <<A.chunks_used[at], at>>
  <2>1. d \in U /\ d[2] = at
    BY DEF Used
  <2> HIDE DEF d
  <2>2. d # c /\ d \in S \cup U /\ c \in S \cup U
    BY <1>1, <2>1
  <2>3. End(d) <= c[2] \/ End(c) <= d[2]
    BY <1>1, <2>2 DEF Tiles
  <2>4. /\ c[1] \in Nat /\ c[2] \in Nat /\ End(c) = c[1] + c[2]
        /\ d[1] \in Nat \ {0} /\ d[2] = c[2] + c[1] - s /\ End(d) = d[1] + d[2]
    BY <1>2, <2>1, <2>2
  <2>5. ~(End(d) <= c[2])
    BY <2>4
  <2>6. ~(End(c) <= d[2])
    BY <2>4
  <2> QED BY <2>3, <2>5, <2>6
<1>6. CASE c[1] = s
  <2> DEFINE B == Taken(A, c, s)
             f == Erase(A.chunks_free, c[2])
             e == Erase(A.chunks_free_end, c[2] + c[1])
             u == Emplace(A.chunks_used, at, s)
  <2>1. B = ArenaOf(n, u, S \ {c}, f, e)
    BY <1>6 DEF Taken
  <2> HIDE DEF B, u, f, e
  <2>2. /\ B.size = n /\ B.chunks_used = u /\ B.size_to_free_chunk = S \ {c}
        /\ B.chunks_free = f /\ B.chunks_free_end = e
    BY <2>1, Fields
  <2>3. new = c /\ at = c[2]
    BY <1>1, <1>2, <1>6
  <2>4. u = Put(A.chunks_used, at, s)
    BY <1>5 DEF u, Emplace
  <2>5. Used(B) = U \cup {c}
    <3>1. B.chunks_used = Put(A.chunks_used, at, s) /\ at \notin DOMAIN A.chunks_used
      BY <1>5, <2>2, <2>4
    <3>2. Used(B) = Used(A) \cup {<<s, at>>}
      <4> HIDE DEF at
      <4> QED BY ONLY <3>1, UsedPut
    <3> QED BY <2>3, <3>2
  <2>6. Chunks(B) = S \cup U
    BY <1>1, <2>2, <2>5 DEF Chunks
  <2>7. Within(B.size, Chunks(B)) /\ Partition(B) /\ Merged(B)
    BY <1>1, <2>2, <2>5, <2>6 DEF Partition, Merged
  <2>8. Agree(B)
    <3>1. /\ DOMAIN f = DOMAIN A.chunks_free \ {c[2]}
          /\ \A x \in DOMAIN f : f[x] = A.chunks_free[x]
          /\ DOMAIN e = DOMAIN A.chunks_free_end \ {End(c)}
          /\ \A x \in DOMAIN e : e[x] = A.chunks_free_end[x]
      <4>1. c[2] + c[1] = End(c)
        BY <1>1, <1>2
      <4> QED BY <4>1 DEF f, e, Erase
    <3>2. \A d \in S \ {c} : d[2] # c[2] /\ End(d) # End(c)
      BY <1>1, <1>4
    <3> QED BY <1>3, <2>2, <3>1, <3>2 DEF Agree
  <2> QED BY <1>1, <2>2, <2>7, <2>8 DEF ArenaOK, B
<1>7. CASE c[1] # s
  <2> DEFINE B == Taken(A, c, s)
             e0 == Erase(A.chunks_free_end, c[2] + c[1])
             f == Put(A.chunks_free, c[2], rest)
             e == Emplace(e0, at, rest)
             u == Emplace(A.chunks_used, at, s)
  <2>1. B = ArenaOf(n, u, (S \cup {rest}) \ {c}, f, e)
    BY <1>7 DEF Taken
  <2> HIDE DEF B, u, f, e, e0
  <2>2. /\ B.size = n /\ B.chunks_used = u /\ B.size_to_free_chunk = (S \cup {rest}) \ {c}
        /\ B.chunks_free = f /\ B.chunks_free_end = e
    BY <2>1, Fields
  <2>3. /\ s < c[1] /\ End(c) = c[2] + c[1] /\ rest # c /\ rest[2] = c[2] /\ End(rest) = at
        /\ new[2] = at /\ End(new) = End(c) /\ at # End(c)
    BY <1>1, <1>2, <1>7 DEF End
  <2>4. u = Put(A.chunks_used, at, s)
    BY <1>5 DEF u, Emplace
  <2>5. Used(B) = U \cup {new}
    <3>1. B.chunks_used = Put(A.chunks_used, at, s) /\ at \notin DOMAIN A.chunks_used
      BY <1>5, <2>2, <2>4
    <3> HIDE DEF at
    <3>2. Used(B) = Used(A) \cup {<<s, at>>}
      BY ONLY <3>1, UsedPut
    <3> QED BY <3>2
  <2> DEFINE T == ((S \cup U) \ {c}) \cup {rest, new}
  <2>6. Chunks(B) = T
    BY <1>1, <2>2, <2>3, <2>5 DEF Chunks
  <2>7. /\ Within(n, T) /\ Tiles(n, T) /\ rest # new
        /\ rest \notin (S \cup U) \ {c} /\ new \notin (S \cup U) \ {c}
    <3>0. PICK W : W = S \cup U
      OBVIOUS
    <3>1. PICK l, h, V : /\ l = rest /\ h = new /\ V = T
                         /\ l = <<c[1] - s, c[2]>> /\ h = <<s, c[2] + c[1] - s>>
                         /\ V = (W \ {c}) \cup {l, h}
      BY <3>0
    <3>2. n \in Nat /\ Within(n, W) /\ Tiles(n, W) /\ c \in W /\ s < c[1]
      BY <1>1, <2>3, <3>0
    <3> HIDE DEF T, rest, new, S, U, n
    <3>3. /\ l = <<c[1] - s, c[2]>> /\ h = <<s, c[2] + c[1] - s>>
          /\ V = (W \ {c}) \cup {l, h}
      BY <3>1
    <3>4. /\ Within(n, V) /\ Tiles(n, V) /\ l # h
          /\ l \notin W \ {c} /\ h \notin W \ {c}
      BY ONLY <3>2, <3>3, Cut, s \in Nat \ {0}, SMTT(30)
    <3> QED BY <3>0, <3>1, <3>4
  <2> HIDE DEF T
  <2>8. \A d \in S : End(d) # at
    <3> SUFFICES ASSUME NEW d \in S, End(d) = at PROVE FALSE
      OBVIOUS
    <3>1. d # c
      BY <2>3
    <3>2. End(d) <= c[2] \/ End(c) <= d[2]
      BY <1>1, <3>1 DEF Tiles
    <3> QED BY <1>1, <1>2, <2>3, <3>1, <3>2
  <2>9. Within(B.size, Chunks(B)) /\ Partition(B)
    <3>1. ((S \cup {rest}) \ {c}) \cap (U \cup {new}) = {}
      BY <1>1, <2>3, <2>7
    <3> QED BY <2>2, <2>5, <2>6, <2>7, <3>1 DEF Partition
  <2>10. Merged(B)
    <3>1. \A d \in S \ {c} : End(rest) # d[2] /\ End(d) # rest[2]
      <4> SUFFICES ASSUME NEW d \in S \ {c} PROVE End(rest) # d[2] /\ End(d) # rest[2]
        OBVIOUS
      <4>1. End(d) <= c[2] \/ End(c) <= d[2]
        BY <1>1 DEF Tiles
      <4>2. End(d) # c[2]
        BY <1>1
      <4> QED BY <1>1, <1>2, <2>3, <4>1, <4>2
    <3>2. End(rest) # rest[2]
      BY <1>1, <1>2, <2>3
    <3> QED BY <1>1, <2>2, <3>1, <3>2 DEF Merged
  <2>11. Agree(B)
    <3>1. /\ DOMAIN f = DOMAIN A.chunks_free \cup {c[2]} /\ f[c[2]] = rest
          /\ \A x \in DOMAIN A.chunks_free \ {c[2]} : f[x] = A.chunks_free[x]
      BY DEF f, Put
    <3>2. /\ DOMAIN e0 = DOMAIN A.chunks_free_end \ {End(c)}
          /\ \A x \in DOMAIN e0 : e0[x] = A.chunks_free_end[x]
      BY <2>3 DEF e0, Erase
    <3>3. at \notin DOMAIN e0
      BY <1>3, <2>8, <3>2
    <3>4. /\ DOMAIN e = DOMAIN e0 \cup {at} /\ e[at] = rest
          /\ \A x \in DOMAIN e0 : e[x] = A.chunks_free_end[x]
      BY <3>2, <3>3 DEF e, Emplace, Put
    <3>5. \A d \in S \ {c} : d[2] # c[2] /\ End(d) # End(c)
      BY <1>1, <1>4
    <3> QED BY <1>1, <1>3, <2>2, <2>3, <3>1, <3>2, <3>4, <3>5 DEF Agree
  <2> QED BY <1>1, <2>2, <2>9, <2>10, <2>11 DEF ArenaOK, B
<1> QED BY <1>6, <1>7

-----------------------------------------------------------------------------
(* Freeing                                                                  *)

\* The chunk c is being freed: with it the chunks tile the arena, and the maps
\* agree but for the entries of chunks_free at P and of chunks_free_end at E.
Loose(A, c, P, E) ==
  /\ A.size \in Nat \ {0}
  /\ c \notin Chunks(A) /\ A.size_to_free_chunk \cap Used(A) = {}
  /\ Within(A.size, Chunks(A) \cup {c}) /\ Tiles(A.size, Chunks(A) \cup {c})
  /\ Merged(A)
  /\ \A d \in A.size_to_free_chunk : /\ d[2] \in DOMAIN A.chunks_free
                                     /\ End(d) \in DOMAIN A.chunks_free_end
  /\ \A p \in DOMAIN A.chunks_free \ P :
       A.chunks_free[p] \in A.size_to_free_chunk /\ A.chunks_free[p][2] = p
  /\ \A e \in DOMAIN A.chunks_free_end \ E :
       A.chunks_free_end[e] \in A.size_to_free_chunk /\ End(A.chunks_free_end[e]) = e

\* No free chunk ends where c begins; none begins where it ends.
NoPrev(A, c) == \A d \in A.size_to_free_chunk : End(d) # c[2]
NoNext(A, c) == \A d \in A.size_to_free_chunk : d[2] # End(c)

\* What is known of the chunks of an arena with a loose one.
LEMMA LooseFacts ==
  ASSUME NEW A, NEW c, NEW P, NEW E, Loose(A, c, P, E)
  PROVE  /\ \A d \in Chunks(A) \cup {c} :
              d[1] \in Nat \ {0} /\ d[2] \in Nat /\ End(d) = d[1] + d[2]
         /\ \A d \in Chunks(A) : End(d) <= c[2] \/ End(c) <= d[2]
<1>1. Within(A.size, Chunks(A) \cup {c}) /\ Tiles(A.size, Chunks(A) \cup {c}) /\ c \notin Chunks(A)
  BY DEF Loose
<1> QED BY <1>1 DEF Within, Tiles, End

\* A used chunk that is released is loose.
LEMMA ReleasedLoose ==
  ASSUME NEW A, ArenaOK(A), NEW ptr \in DOMAIN A.chunks_used,
         NEW B, B = Released(A, ptr), NEW c, c = <<A.chunks_used[ptr], ptr>>
  PROVE  Loose(B, c, {}, {}) /\ B.size = A.size
<1>1. /\ B.size = A.size /\ B.chunks_used = Erase(A.chunks_used, ptr)
      /\ B.size_to_free_chunk = A.size_to_free_chunk
      /\ B.chunks_free = A.chunks_free /\ B.chunks_free_end = A.chunks_free_end
  BY Fields DEF Released
<1>2. Used(B) = Used(A) \ {c}
  <2>1. ptr \in DOMAIN A.chunks_used /\ B.chunks_used = Erase(A.chunks_used, ptr)
    BY <1>1
  <2>2. Used(B) = Used(A) \ {<<A.chunks_used[ptr], ptr>>}
    BY ONLY <2>1, UsedErase
  <2> QED BY <2>2
<1>3. c \in Used(A)
  BY DEF Used
<1>4. A.size_to_free_chunk \cap Used(A) = {}
  BY DEF ArenaOK, Partition
<1>5. c \notin Chunks(B) /\ Chunks(B) \cup {c} = Chunks(A)
  BY <1>1, <1>2, <1>3, <1>4 DEF Chunks
<1>6. c \notin Chunks(B) /\ B.size_to_free_chunk \cap Used(B) = {}
  BY <1>1, <1>2, <1>4, <1>5
<1>7. /\ B.size \in Nat \ {0} /\ Merged(B)
      /\ Within(B.size, Chunks(B) \cup {c}) /\ Tiles(B.size, Chunks(B) \cup {c})
  BY <1>1, <1>5 DEF ArenaOK, Partition, Merged
<1>8. Agree(B)
  BY <1>1 DEF ArenaOK, Agree
<1> QED BY <1>1, <1>6, <1>7, <1>8 DEF Loose, Agree

\* Merging with the chunk before.
LEMMA MergePrevOK ==
  ASSUME NEW A, NEW c, Loose(A, c, {}, {}), NEW B, NEW j, <<B, j>> = MergePrev(A, c)
  PROVE  Loose(B, j, {j[2]}, {}) /\ NoPrev(B, j) /\ B.size = A.size
<1> DEFINE n == A.size
           S == A.size_to_free_chunk
<1>1. CASE c[2] \notin DOMAIN A.chunks_free_end
  <2>1. B = A /\ j = c
    BY <1>1 DEF MergePrev
  <2>2. \A d \in S : End(d) # c[2]
    BY <1>1 DEF Loose
  <2> QED BY <2>1, <2>2 DEF NoPrev, Loose
<1>2. CASE c[2] \in DOMAIN A.chunks_free_end
  <2> DEFINE prev == A.chunks_free_end[c[2]]
             e    == Erase(A.chunks_free_end, c[2])
  <2>1. /\ B = ArenaOf(n, A.chunks_used, S \ {prev}, A.chunks_free, e)
        /\ j = <<c[1] + prev[1], c[2] - prev[1]>>
    BY <1>2 DEF MergePrev
  <2>2. /\ c[1] \in Nat \ {0} /\ c[2] \in Nat /\ End(c) = c[1] + c[2] /\ c[2] # End(c)
        /\ \A d \in S : d[1] \in Nat \ {0} /\ d[2] \in Nat /\ End(d) = d[1] + d[2]
    BY LooseFacts DEF Chunks
  <2>3. prev \in S /\ End(prev) = c[2]
    BY <1>2, <2>2 DEF Loose
  <2> HIDE DEF prev, e
  <2>4. /\ B.size = n /\ B.chunks_used = A.chunks_used /\ B.size_to_free_chunk = S \ {prev}
        /\ B.chunks_free = A.chunks_free /\ B.chunks_free_end = e
    BY <2>1, Fields
  <2>5. j = <<prev[1] + c[1], prev[2]>>
    BY <2>1, <2>2, <2>3
  <2>6. /\ Used(B) = Used(A) /\ S \cap Used(A) = {} /\ c \notin Chunks(A)
        /\ Chunks(A) = S \cup Used(A) /\ Chunks(B) = (S \ {prev}) \cup Used(A)
    BY <2>4 DEF Used, Loose, Chunks
  <2> DEFINE T == Chunks(A) \cup {c}
             V == Chunks(B) \cup {j}
  <2>7. /\ n \in Nat /\ Within(n, T) /\ Tiles(n, T) /\ prev \in T /\ c \in T
        /\ V = (T \ {prev, c}) \cup {j}
    BY <2>3, <2>6 DEF Loose
  <2> HIDE DEF T, V
  <2>8. /\ Within(n, V) /\ Tiles(n, V) /\ prev # c
        /\ j \notin T /\ End(j) = End(c) /\ j[2] = prev[2]
    BY <2>3, <2>5, <2>7, Join
  <2>9. \A d, f \in S : /\ End(d) # f[2]
                        /\ d[2] = f[2] \/ End(d) = End(f) => d = f
    <3>1. \A d, f \in S : End(d) # f[2]
      BY DEF Loose, Merged
    <3>2. \A d, f \in S : d[2] = f[2] \/ End(d) = End(f) => d = f
      BY <2>6, <2>7, Known DEF T
    <3> QED BY <3>1, <3>2
  <2>10. NoPrev(B, j) /\ Merged(B)
    BY <2>3, <2>4, <2>8, <2>9 DEF NoPrev, Merged
  <2>11. j \notin Chunks(B) /\ B.size_to_free_chunk \cap Used(B) = {}
    BY <2>4, <2>6, <2>8 DEF T
  <2>12. \A d \in S \ {prev} : d[2] \in DOMAIN A.chunks_free /\ End(d) \in DOMAIN e
    BY <2>3, <2>9 DEF Loose, e, Erase
  <2>13. \A p \in DOMAIN A.chunks_free \ {j[2]} :
           A.chunks_free[p] \in S \ {prev} /\ A.chunks_free[p][2] = p
    BY <2>8 DEF Loose
  <2>14. \A x \in DOMAIN e : e[x] \in S \ {prev} /\ End(e[x]) = x
    BY <2>3 DEF Loose, e, Erase
  <2>15. n \in Nat \ {0}
    BY DEF Loose
  <2> QED BY <2>4, <2>8, <2>10, <2>11, <2>12, <2>13, <2>14, <2>15 DEF Loose, V
<1> QED BY <1>1, <1>2

\* Merging with the chunk after.
LEMMA MergeNextOK ==
  ASSUME NEW A, NEW c, Loose(A, c, {c[2]}, {}), NoPrev(A, c),
         NEW B, NEW j, <<B, j>> = MergeNext(A, c)
  PROVE  /\ Loose(B, j, {j[2]}, {End(j)}) /\ NoPrev(B, j) /\ NoNext(B, j)
         /\ B.size = A.size
<1> DEFINE n == A.size
           S == A.size_to_free_chunk
<1>0. /\ c[1] \in Nat \ {0} /\ c[2] \in Nat /\ End(c) = c[1] + c[2] /\ c[2] # End(c)
      /\ c[2] + c[1] = End(c)
      /\ \A d \in S : d[1] \in Nat \ {0} /\ d[2] \in Nat /\ End(d) = d[1] + d[2]
  BY LooseFacts DEF Chunks
<1>1. CASE c[2] + c[1] \notin DOMAIN A.chunks_free
  <2>1. B = A /\ j = c
    BY <1>1 DEF MergeNext
  <2>2. \A d \in S : d[2] # End(c)
    BY <1>0, <1>1 DEF Loose
  <2> QED BY <2>1, <2>2 DEF NoNext, Loose
<1>2. CASE c[2] + c[1] \in DOMAIN A.chunks_free
  <2> DEFINE next == A.chunks_free[End(c)]
             f    == Erase(A.chunks_free, End(c))
  <2>1. /\ B = ArenaOf(n, A.chunks_used, S \ {next}, f, A.chunks_free_end)
        /\ j = <<c[1] + next[1], c[2]>>
    BY <1>0, <1>2 DEF MergeNext
  <2>3. next \in S /\ next[2] = End(c)
    BY <1>0, <1>2 DEF Loose
  <2> HIDE DEF next, f
  <2>4. /\ B.size = n /\ B.chunks_used = A.chunks_used /\ B.size_to_free_chunk = S \ {next}
        /\ B.chunks_free = f /\ B.chunks_free_end = A.chunks_free_end
    BY <2>1, Fields
  <2>6. /\ Used(B) = Used(A) /\ S \cap Used(A) = {} /\ c \notin Chunks(A)
        /\ Chunks(A) = S \cup Used(A) /\ Chunks(B) = (S \ {next}) \cup Used(A)
    BY <2>4 DEF Used, Loose, Chunks
  <2> DEFINE T == Chunks(A) \cup {c}
             V == Chunks(B) \cup {j}
  <2>7. /\ n \in Nat /\ Within(n, T) /\ Tiles(n, T) /\ next \in T /\ c \in T
        /\ V = (T \ {c, next}) \cup {j}
    BY <2>3, <2>6 DEF Loose
  <2> HIDE DEF T, V
  <2>8. /\ Within(n, V) /\ Tiles(n, V) /\ c # next
        /\ j \notin T /\ End(j) = End(next) /\ j[2] = c[2]
    <3>1. j = <<c[1] + next[1], c[2]>>
      BY <2>1
    <3> QED BY ONLY <3>1, <2>3, <2>7, Join, SMTT(30)
  <2>9. \A d, g \in S : /\ End(d) # g[2]
                        /\ d[2] = g[2] \/ End(d) = End(g) => d = g
    <3>1. \A d, g \in S : End(d) # g[2]
      BY DEF Loose, Merged
    <3>2. \A d, g \in S : d[2] = g[2] \/ End(d) = End(g) => d = g
      BY <2>6, <2>7, Known DEF T
    <3> QED BY <3>1, <3>2
  <2>10. NoPrev(B, j) /\ NoNext(B, j) /\ Merged(B)
    BY <2>3, <2>4, <2>8, <2>9 DEF NoPrev, NoNext, Merged
  <2>11. j \notin Chunks(B) /\ B.size_to_free_chunk \cap Used(B) = {}
    BY <2>4, <2>6, <2>8 DEF T
  <2>12. \A d \in S \ {next} : d[2] \in DOMAIN f /\ End(d) \in DOMAIN A.chunks_free_end
    BY <2>3, <2>9 DEF Loose, f, Erase
  <2>13. \A p \in DOMAIN f \ {j[2]} : f[p] \in S \ {next} /\ f[p][2] = p
    BY <2>3, <2>8 DEF Loose, f, Erase
  <2>14. \A x \in DOMAIN A.chunks_free_end \ {End(j)} :
           /\ A.chunks_free_end[x] \in S \ {next}
           /\ End(A.chunks_free_end[x]) = x
    BY <2>8 DEF Loose
  <2>15. n \in Nat \ {0}
    BY DEF Loose
  <2> QED BY <2>4, <2>8, <2>10, <2>11, <2>12, <2>13, <2>14, <2>15 DEF Loose, V
<1> QED BY <1>1, <1>2

\* Entering the merged chunk makes it an arena in order.
LEMMA EnteredOK ==
  ASSUME NEW A, NEW c, Loose(A, c, {c[2]}, {End(c)}), NoPrev(A, c), NoNext(A, c),
         NEW B, B = Entered(A, c)
  PROVE  ArenaOK(B) /\ B.size = A.size
<1> DEFINE S == A.size_to_free_chunk
           f == Put(A.chunks_free, c[2], c)
           e == Put(A.chunks_free_end, End(c), c)
<1>1. /\ c[1] \in Nat \ {0} /\ c[2] \in Nat /\ End(c) = c[1] + c[2] /\ c[2] # End(c)
      /\ c[2] + c[1] = End(c)
  BY LooseFacts
<1>2. /\ B.size = A.size /\ B.chunks_used = A.chunks_used
      /\ B.size_to_free_chunk = S \cup {c} /\ B.chunks_free = f /\ B.chunks_free_end = e
  BY <1>1, Fields DEF Entered
<1>3. /\ DOMAIN f = DOMAIN A.chunks_free \cup {c[2]} /\ f[c[2]] = c
      /\ \A x \in DOMAIN A.chunks_free \ {c[2]} : f[x] = A.chunks_free[x]
      /\ DOMAIN e = DOMAIN A.chunks_free_end \cup {End(c)} /\ e[End(c)] = c
      /\ \A x \in DOMAIN A.chunks_free_end \ {End(c)} : e[x] = A.chunks_free_end[x]
  BY DEF Put
<1> HIDE DEF f, e
<1>4. Used(B) = Used(A) /\ Chunks(B) = Chunks(A) \cup {c}
  BY <1>2 DEF Used, Chunks
<1>5. Agree(B)
  BY <1>2, <1>3 DEF Agree, Loose
<1>6. Merged(B)
  BY <1>1, <1>2 DEF Merged, Loose, NoPrev, NoNext
<1>7. Partition(B)
  <2>1. c \notin Used(A)
    BY DEF Loose, Chunks
  <2> QED BY <1>2, <1>4, <2>1 DEF Partition, Loose
<1> QED BY <1>2, <1>4, <1>5, <1>6, <1>7 DEF ArenaOK, Loose

\* Arena::free keeps an arena in order.
LEMMA FreedOK ==
  ASSUME NEW A, ArenaOK(A), NEW ptr \in DOMAIN A.chunks_used
  PROVE  ArenaOK(Freed(A, ptr)) /\ Freed(A, ptr).size = A.size
<1>1. PICK B, c : B = Released(A, ptr) /\ c = <<A.chunks_used[ptr], ptr>>
  OBVIOUS
<1>2. Loose(B, c, {}, {}) /\ B.size = A.size
  BY <1>1, ReleasedLoose
<1>3. PICK C, d : <<C, d>> = MergePrev(B, c)
  BY DEF MergePrev
<1>4. Loose(C, d, {d[2]}, {}) /\ NoPrev(C, d) /\ C.size = A.size
  BY <1>2, <1>3, MergePrevOK
<1>5. PICK D, g : <<D, g>> = MergeNext(C, d)
  BY DEF MergeNext
<1>6. Loose(D, g, {g[2]}, {End(g)}) /\ NoPrev(D, g) /\ NoNext(D, g) /\ D.size = A.size
  BY <1>4, <1>5, MergeNextOK
<1>7. PICK F : F = Entered(D, g)
  OBVIOUS
<1>8. ArenaOK(F) /\ F.size = A.size
  BY <1>6, <1>7, EnteredOK
<1>9. Freed(A, ptr) = F
  <2>1. MergePrev(B, c)[1] = C /\ MergePrev(B, c)[2] = d
    BY <1>3
  <2>2. MergeNext(C, d)[1] = D /\ MergeNext(C, d)[2] = g
    BY <1>5
  <2> QED BY <1>1, <1>7, <2>1, <2>2 DEF Freed
<1> QED BY <1>8, <1>9

-----------------------------------------------------------------------------
(* The pool                                                                 *)

\* A new arena is in order.
LEMMA NewOK ==
  ASSUME NEW n \in Nat \ {0}
  PROVE  ArenaOK(Arena(n)) /\ Arena(n).size = n
<1> DEFINE A == Arena(n)
           c == <<n, 0>>
<1>1. /\ A.size = n /\ A.chunks_used = Nothing /\ A.size_to_free_chunk = {c}
      /\ A.chunks_free = One(0, c) /\ A.chunks_free_end = One(n, c)
  BY DEF Arena, ArenaOf
<1> HIDE DEF A
<1>2. Used(A) = {} /\ Chunks(A) = {c}
  BY <1>1 DEF Used, Chunks, Nothing
<1>3. c[1] = n /\ c[2] = 0 /\ End(c) = n /\ c \in (Nat \ {0}) \X Nat
  BY DEF End
<1> HIDE DEF c
<1>4. Within(n, {c}) /\ Tiles(n, {c})
  BY <1>3 DEF Within, Tiles
<1>5. Agree(A) /\ Merged(A)
  BY <1>1, <1>3 DEF Agree, Merged, One
<1> QED BY <1>1, <1>2, <1>4, <1>5 DEF ArenaOK, Partition, A

\* A request that is not empty stays so when it is aligned.
LEMMA AlignUp ==
  ASSUME NEW x \in Nat \ {0}
  PROVE  align_up(x) \in Nat \ {0}
<1>1. (-x) % ARENA_ALIGN \in Nat
  BY PoolAssumption
<1> QED BY <1>1 DEF align_up

\* Whether an arena serves a request or not, it is in order.
LEMMA ServedOK ==
  ASSUME NEW A, ArenaOK(A), NEW s \in Nat \ {0}, NEW B \in Served(A, s)
  PROVE  ArenaOK(B)
<1>1. CASE ~Fits(A, s)
  BY <1>1 DEF Served
<1>2. CASE Fits(A, s)
  <2>1. PICK c \in LowerBound(A, s) : B = Taken(A, c, s)
    BY <1>2 DEF Served
  <2>2. c \in A.size_to_free_chunk /\ s <= c[1]
    BY DEF LowerBound
  <2> QED BY <2>1, <2>2, TakenOK
<1> QED BY <1>1, <1>2

\* A function on 1 .. n is a sequence.
LEMMA IsSeq ==
  ASSUME NEW R, NEW n \in Nat, NEW f, f \in [1 .. n -> R]
  PROVE  f \in Seq(R) /\ Len(f) = n
OBVIOUS

\* An arena in order may be put in the place of another.
LEMMA Replaced ==
  ASSUME PInv, NEW i \in DOMAIN arenas, NEW A, ArenaOK(A),
         arenas' = [arenas EXCEPT ![i] = A]
  PROVE  PInv'
<1>1. PICK n \in Nat : n = Len(arenas) /\ DOMAIN arenas = 1 .. n /\ n <= MaxArenas
  BY DEF PInv
<1>2. /\ arenas' = [k \in 1 .. n |-> arenas'[k]] /\ DOMAIN arenas' = 1 .. n
      /\ arenas'[i] = A /\ \A k \in DOMAIN arenas \ {i} : arenas'[k] = arenas[k]
  BY <1>1 DEF PInv
<1>3. PICK R : R = {arenas'[k] : k \in DOMAIN arenas'}
  OBVIOUS
<1>4. arenas' \in [1 .. n -> R]
  BY <1>2, <1>3
<1>5. arenas' \in Seq(R) /\ Len(arenas') = n
  BY <1>4, IsSeq
<1> QED BY <1>1, <1>2, <1>3, <1>5 DEF PInv

\* alloc keeps the invariant.
LEMMA AllocKeeps ==
  ASSUME PInv, NEW request \in Request, alloc(request)
  PROVE  PInv'
<1> DEFINE s == align_up(request)
<1>1. s \in Nat \ {0}
  BY AlignUp, PoolAssumption DEF alloc
<1> HIDE DEF s
<1>2. ASSUME NEW i \in DOMAIN arenas, NEW A \in Served(arenas[i], s),
             arenas' = [arenas EXCEPT ![i] = A]
      PROVE  PInv'
  <2>1. ArenaOK(A)
    BY <1>1, ServedOK DEF PInv
  <2> QED BY <1>2, <2>1, Replaced
<1>3. ASSUME Len(arenas) < MaxArenas, NEW A \in Served(Arena(NewSize), s),
             arenas' = Append(arenas, A)
      PROVE  PInv'
  <2>1. NewSize \in Nat \ {0}
    BY PoolAssumption DEF NewSize
  <2>2. ArenaOK(A)
    BY <1>1, <2>1, NewOK, ServedOK
  <2>3. /\ arenas' \in Seq({arenas'[k] : k \in DOMAIN arenas'})
        /\ Len(arenas') <= MaxArenas
        /\ \A k \in DOMAIN arenas' : arenas'[k] = A \/ (k \in DOMAIN arenas /\ arenas'[k] = arenas[k])
    <3> DEFINE R == {arenas[i] : i \in DOMAIN arenas} \cup {A}
    <3>1. arenas \in Seq(R) /\ A \in R /\ Len(arenas) \in Nat
      BY DEF PInv
    <3> HIDE DEF R
    <3>2. /\ arenas' \in Seq(R) /\ Len(arenas') = Len(arenas) + 1
          /\ DOMAIN arenas' = 1 .. Len(arenas) + 1 /\ DOMAIN arenas = 1 .. Len(arenas)
          /\ arenas'[Len(arenas) + 1] = A
          /\ \A k \in 1 .. Len(arenas) : arenas'[k] = arenas[k]
      BY <1>3, <3>1
    <3>3. Len(arenas') <= MaxArenas
      BY <1>3, <3>1, <3>2, PoolAssumption
    <3>4. arenas' \in Seq({arenas'[k] : k \in DOMAIN arenas'})
      BY <3>1, <3>2
    <3> QED BY <3>1, <3>2, <3>3, <3>4
  <2> QED BY <2>2, <2>3 DEF PInv
<1> QED BY <1>2, <1>3 DEF alloc, s

\* free keeps the invariant.
LEMMA FreeKeeps ==
  ASSUME PInv, NEW i \in DOMAIN arenas, NEW ptr \in DOMAIN arenas[i].chunks_used, free(i, ptr)
  PROVE  PInv'
<1>1. PICK A : A = Freed(arenas[i], ptr)
  OBVIOUS
<1>2. ArenaOK(A)
  BY <1>1, FreedOK DEF PInv
<1>3. arenas' = [arenas EXCEPT ![i] = A]
  BY <1>1 DEF free
<1> QED BY <1>2, <1>3, Replaced

\* The inductive invariant holds.
LEMMA PoolInvariant == PoolSpec => []PInv
<1>1. PoolInit => PInv
  <2> SUFFICES ASSUME PoolInit PROVE PInv
    OBVIOUS
  <2>1. arenas = << >> /\ DOMAIN arenas = {} /\ Len(arenas) = 0
    BY DEF PoolInit
  <2> QED BY <2>1, PoolAssumption DEF PInv
<1>2. PInv /\ [PoolNext]_arenas => PInv'
  <2> SUFFICES ASSUME PInv, [PoolNext]_arenas PROVE PInv'
    OBVIOUS
  <2>1. ASSUME NEW request \in Request, alloc(request) PROVE PInv'
    BY <2>1, AllocKeeps
  <2>2. ASSUME NEW i \in DOMAIN arenas, NEW ptr \in DOMAIN arenas[i].chunks_used, free(i, ptr)
        PROVE  PInv'
    BY <2>2, FreeKeeps
  <2>3. CASE UNCHANGED arenas
    BY <2>3 DEF PInv
  <2> QED BY <2>1, <2>2, <2>3 DEF PoolNext
<1> QED BY <1>1, <1>2, PTL DEF PoolSpec

-----------------------------------------------------------------------------
(* The theorems                                                             *)

\* The chunks, used and free, tile every arena: alloc never hands out a byte
\* that is in use, and free never loses one.
THEOREM ChunksTile == PoolSpec => []ChunksPartition
<1>1. PInv => ChunksPartition
  BY DEF PInv, ArenaOK, ChunksPartition
<1> QED BY <1>1, PoolInvariant, PTL

\* The three maps of the free chunks describe the same chunks.
THEOREM MapsDoAgree == PoolSpec => []MapsAgree
<1>1. PInv => MapsAgree
  BY DEF PInv, ArenaOK, MapsAgree
<1> QED BY <1>1, PoolInvariant, PTL

\* No two free chunks are neighbours.
THEOREM FreeChunksMerged == PoolSpec => []Coalesced
<1>1. PInv => Coalesced
  BY DEF PInv, ArenaOK, Coalesced
<1> QED BY <1>1, PoolInvariant, PTL

\* An arena from which nothing is in use is one chunk.
LEMMA OneChunk ==
  ASSUME NEW A, ArenaOK(A), DOMAIN A.chunks_used = {}
  PROVE  A.size_to_free_chunk = {<<A.size, 0>>}
<1> DEFINE n == A.size
           S == A.size_to_free_chunk
<1>1. /\ n \in Nat \ {0} /\ Within(n, S) /\ Tiles(n, S)
      /\ \A d, e \in S : End(d) # e[2]
  <2>1. Used(A) = {}
    BY DEF Used
  <2> QED BY <2>1 DEF ArenaOK, Chunks, Partition, Merged
<1>2. \A d \in S : d = <<d[1], d[2]>> /\ d[1] \in Nat \ {0} /\ d[2] \in Nat
                   /\ End(d) = d[1] + d[2] /\ End(d) <= n
  BY <1>1 DEF Within, End
<1> HIDE DEF n, S
<1>3. PICK c \in S : c[2] <= 0 /\ 0 < End(c)
  BY <1>1 DEF Tiles
<1>4. c[2] = 0 /\ End(c) = c[1]
  BY <1>2, <1>3
<1>5. End(c) = n
  <2> SUFFICES ASSUME End(c) # n PROVE FALSE
    OBVIOUS
  <2>1. End(c) \in 0 .. n - 1
    BY <1>1, <1>2
  <2>2. PICK d \in S : d[2] <= End(c) /\ End(c) < End(d)
    BY <1>1, <2>1 DEF Tiles
  <2>3. d # c /\ (End(c) <= d[2] \/ End(d) <= c[2])
    BY <1>1, <1>2, <2>2 DEF Tiles
  <2>4. End(c) = d[2]
    BY <1>2, <1>4, <2>2, <2>3
  <2> QED BY <1>1, <2>4
<1>6. \A d \in S : d = c
  <2> SUFFICES ASSUME NEW d \in S, d # c PROVE FALSE
    OBVIOUS
  <2>1. End(d) <= c[2] \/ End(c) <= d[2]
    BY <1>1 DEF Tiles
  <2> QED BY <1>2, <1>4, <1>5, <2>1
<1>7. c = <<n, 0>>
  BY <1>2, <1>4, <1>5
<1> QED BY <1>6, <1>7 DEF n, S

\* When everything has been freed, in whatever order, an arena is one chunk
\* again, so it can serve every request it could serve when it was new.
THEOREM ArenaWholeAgain == PoolSpec => []WholeWhenFree
<1>1. PInv => WholeWhenFree
  BY OneChunk DEF PInv, WholeWhenFree, Whole
<1> QED BY <1>1, PoolInvariant, PTL

\* The types of the pool.
THEOREM PoolTypes == PoolSpec => []PoolTypeOK
<1>1. PInv => PoolTypeOK
  <2> SUFFICES ASSUME PInv PROVE PoolTypeOK
    OBVIOUS
  <2>1. Len(arenas) \in Nat /\ Len(arenas) <= MaxArenas
    BY DEF PInv
  <2>2. \A i \in DOMAIN arenas :
          arenas[i].size \in Nat \ {0} /\ Within(arenas[i].size, Chunks(arenas[i]))
    BY DEF PInv, ArenaOK
  <2> QED BY <2>1, <2>2, PoolAssumption DEF PoolTypeOK
<1> QED BY <1>1, PoolInvariant, PTL

-----------------------------------------------------------------------------
(* The alerts                                                               *)

\* What is under way on a connection.
Message == issued \cup {"version"}

\* Finitely many alerts have been sent; the nodes hold, and the connections
\* carry, no others.
AlertTypes ==
  /\ now \in Nat /\ issued \subseteq Alert /\ IsFiniteSet(issued)
  /\ mapAlerts \in [Node -> SUBSET issued]
  /\ wire \in [Node -> [Node -> Seq(Message)]]

\* The inductive invariant.
AlertInv == AlertTypes /\ CancelledGone

\* No alert of M cancels another one.
NoneCancelled(M) == \A x, y \in M : x # y => ~Cancels(x, y)

\* SetToSeq lists the elements of a finite set.
LEMMA SetAsSeq ==
  ASSUME NEW S, IsFiniteSet(S)
  PROVE  SetToSeq(S) \in Seq(S)
<1> DEFINE n == Cardinality(S)
<1>1. n \in Nat
  BY FS_CardinalityType
<1>2. ExistsBijection(1 .. n, S)
  BY <1>1, FS_CardinalityType
<1>3. PICK f : f \in Bijection(1 .. n, S)
  BY <1>2 DEF ExistsBijection
<1>4. f \in [1 .. n -> S] /\ IsInjective(f)
  BY <1>3 DEF Bijection, Injection, IsInjective
<1>5. SetToSeq(S) \in [1 .. n -> S]
  BY <1>4 DEF SetToSeq
<1> QED BY <1>1, <1>5

\* RelayTo pushes alerts that it is called for.
LEMMA RelayTypes ==
  ASSUME NEW n, NEW m, NEW S, IsFiniteSet(S)
  PROVE  Relay(n, m, S) \in Seq(S)
<1> DEFINE R == {a \in S \ setKnown[n][m] : /\ IsInEffect(a)
                                           /\ \/ AppliesTo(a, m) \/ AppliesTo(a, n)
                                              \/ now < nRelayUntil[a]}
<1>1. R \subseteq S
  OBVIOUS
<1>2. IsFiniteSet(R)
  BY <1>1, FS_Subset
<1>3. SetToSeq(R) \in Seq(R)
  BY <1>2, SetAsSeq
<1> QED BY <1>1, <1>3 DEF Relay

\* ProcessAlert: what is kept cancels nothing and is not cancelled.
LEMMA ProcessedSound ==
  ASSUME NEW M, NoneCancelled(M), NEW a
  PROVE  NoneCancelled(Processed(M, a)) /\ Processed(M, a) \subseteq M \cup {a}
  BY DEF NoneCancelled, Processed, Kept, Refused

\* A message more at the end of the list, in a larger set of messages.
LEMMA Appended ==
  ASSUME NEW S, NEW T, S \subseteq T, NEW s \in Seq(S), NEW t \in Seq(T)
  PROVE  s \in Seq(T) /\ s \o t \in Seq(T)
<1>1. s \in Seq(T)
  OBVIOUS
<1> QED BY <1>1

\* A node gives an alert to its peers.
LEMMA SpreadTypes ==
  ASSUME NEW T, NEW n \in Node, NEW src, NEW a \in T, NEW sent,
         sent \in [Node -> [Node -> Seq(T \cup {"version"})]], Spread(n, src, a, sent)
  PROVE  wire' \in [Node -> [Node -> Seq(T \cup {"version"})]]
<1> DEFINE X == T \cup {"version"}
           g == [m \in Node |-> IF m \in Peers(n) \ {src} THEN sent[n][m] \o Relay(n, m, {a})
                                ELSE sent[n][m]]
<1>1. ASSUME NEW m \in Node PROVE sent[n][m] \o Relay(n, m, {a}) \in Seq(X)
  <2>1. IsFiniteSet({a}) /\ {a} \subseteq X
    BY FS_Singleton
  <2>2. Relay(n, m, {a}) \in Seq({a})
    BY <2>1, RelayTypes
  <2>3. Relay(n, m, {a}) \in Seq(X)
    BY <2>1, <2>2, Appended
  <2> QED BY <2>3
<1>2. g \in [Node -> Seq(X)]
  BY <1>1
<1>3. wire' = [sent EXCEPT ![n] = g]
  BY DEF Spread
<1> HIDE DEF g
<1> QED BY <1>2, <1>3

\* An alert is processed at the node n while the time stands still.
LEMMA ProcessedAt ==
  ASSUME CancelledGone, NEW S, mapAlerts \in [Node -> SUBSET S], NEW n \in Node, NEW a \in S,
         mapAlerts' = [mapAlerts EXCEPT ![n] = Processed(@, a)], now' = now
  PROVE  CancelledGone' /\ mapAlerts' \in [Node -> SUBSET S]
<1>1. NoneCancelled(mapAlerts[n])
  BY DEF CancelledGone, NoneCancelled
<1>2. /\ NoneCancelled(Processed(mapAlerts[n], a))
      /\ Processed(mapAlerts[n], a) \subseteq mapAlerts[n] \cup {a}
  BY <1>1, ProcessedSound
<1>3. /\ mapAlerts'[n] = Processed(mapAlerts[n], a)
      /\ \A m \in Node \ {n} : mapAlerts'[m] = mapAlerts[m]
  OBVIOUS
<1>4. \A m \in Node : NoneCancelled(mapAlerts'[m])
  BY <1>2, <1>3 DEF CancelledGone, NoneCancelled
<1>5. CancelledGone'
  BY <1>4 DEF CancelledGone, NoneCancelled, Cancels, IsInEffect
<1>6. Processed(mapAlerts[n], a) \subseteq S
  BY <1>2
<1> QED BY <1>5, <1>6

\* The alerts and the time do not change.
LEMMA NothingProcessed ==
  ASSUME CancelledGone, UNCHANGED <<now, mapAlerts>>
  PROVE  CancelledGone'
  BY DEF CancelledGone, Cancels, IsInEffect

\* sendalert keeps the invariant.
LEMMA IssueKeeps ==
  ASSUME AlertInv, NEW n \in Node, NEW a \in Alert, Issue(n, a)
  PROVE  AlertInv'
<1> DEFINE S == issued \cup {a}
<1>1. issued' = S /\ now' = now /\ now \in Nat
  BY DEF Issue, AlertInv, AlertTypes
<1>2. S \subseteq Alert /\ IsFiniteSet(S)
  BY FS_AddElement DEF AlertInv, AlertTypes
<1>3. mapAlerts \in [Node -> SUBSET S]
  BY DEF AlertInv, AlertTypes
<1>4. wire \in [Node -> [Node -> Seq(S \cup {"version"})]]
  <2>1. ASSUME NEW k \in Node, NEW m \in Node PROVE wire[k][m] \in Seq(S \cup {"version"})
    <3>1. wire[k][m] \in Seq(Message) /\ Message \subseteq S \cup {"version"}
      BY DEF AlertInv, AlertTypes, Message
    <3>2. << >> \in Seq(S \cup {"version"})
      OBVIOUS
    <3> QED BY <3>1, <3>2, Appended
  <2> QED BY <2>1 DEF AlertInv, AlertTypes
<1> HIDE DEF S
<1>5. CancelledGone' /\ mapAlerts' \in [Node -> SUBSET S]
  <2>1. a \in S
    BY DEF S
  <2> QED BY <1>1, <1>3, <2>1, ProcessedAt DEF Issue, AlertInv
<1>6. wire' \in [Node -> [Node -> Seq(S \cup {"version"})]]
  <2>1. CASE Refused(mapAlerts[n], a)
    BY <1>4, <2>1 DEF Issue
  <2>2. CASE ~Refused(mapAlerts[n], a)
    <3>1. Spread(n, n, a, wire) /\ a \in S
      BY <2>2 DEF Issue, S
    <3> QED BY <1>4, <3>1, SpreadTypes
  <2> QED BY <2>1, <2>2
<1> QED BY <1>1, <1>2, <1>5, <1>6 DEF AlertInv, AlertTypes, Message

\* A message is read.
LEMMA MessageRead ==
  ASSUME NEW T, NEW f \in [Node -> [Node -> Seq(T)]], NEW n \in Node, NEW m \in Node,
         f[m][n] # << >>
  PROVE  Head(f[m][n]) \in T /\ [f EXCEPT ![m][n] = Tail(@)] \in [Node -> [Node -> Seq(T)]]
<1>1. f[m] \in [Node -> Seq(T)] /\ f[m][n] \in Seq(T)
  OBVIOUS
<1>2. Head(f[m][n]) \in T /\ Tail(f[m][n]) \in Seq(T)
  BY <1>1
<1> DEFINE t == Tail(f[m][n])
           g == [f[m] EXCEPT ![n] = t]
<1>3. [f EXCEPT ![m][n] = Tail(@)] = [f EXCEPT ![m] = g]
  OBVIOUS
<1>4. g \in [Node -> Seq(T)]
  <2> HIDE DEF t
  <2> QED BY <1>1, <1>2 DEF t
<1> HIDE DEF g
<1> QED BY <1>2, <1>3, <1>4

\* What is under way to one peer is replaced.
LEMMA MessagesPut ==
  ASSUME NEW T, NEW f \in [Node -> [Node -> Seq(T)]], NEW n \in Node, NEW m \in Node,
         NEW s \in Seq(T)
  PROVE  [f EXCEPT ![n][m] = s] \in [Node -> [Node -> Seq(T)]]
<1>1. f[n] \in [Node -> Seq(T)]
  OBVIOUS
<1> DEFINE g == [f[n] EXCEPT ![m] = s]
<1>2. [f EXCEPT ![n][m] = s] = [f EXCEPT ![n] = g]
  OBVIOUS
<1>3. g \in [Node -> Seq(T)]
  BY <1>1
<1> HIDE DEF g
<1> QED BY <1>2, <1>3

\* The version of a peer is read, an alert is read too early, an alert is read.
LEMMA ReceiveKeeps ==
  ASSUME AlertInv, NEW n \in Node, NEW m \in Node, Receive(n, m)
  PROVE  AlertInv'
<1> DEFINE msg  == Head(wire[m][n])
           rest == [wire EXCEPT ![m][n] = Tail(@)]
           X    == [Node -> [Node -> Seq(Message)]]
<1>1. wire \in X /\ wire[m][n] # << >> /\ IsFiniteSet(issued) /\ issued \subseteq Alert
      /\ mapAlerts \in [Node -> SUBSET issued] /\ now \in Nat /\ CancelledGone
  BY DEF Receive, AlertInv, AlertTypes
<1>2. msg \in Message /\ rest \in X
  BY <1>1, MessageRead
<1>3. UNCHANGED <<now, issued, Message>>
  BY DEF Receive, Message
<1>4. \/ ReadVersion(n, m, rest)
      \/ ReadEarly(n, m, msg, rest)
      \/ msg # "version" /\ ReadAlert(n, m, msg, rest)
  BY DEF Receive
<1> HIDE DEF msg, rest
<1>5. /\ CancelledGone' /\ mapAlerts' \in [Node -> SUBSET issued]
      /\ wire' \in X
  <2>1. CASE ReadVersion(n, m, rest)
    <3> DEFINE hi == IF <<m, n>> \in open THEN <<"version">> ELSE << >>
               rl == Relay(n, m, mapAlerts[n])
    <3>1. hi \in Seq(Message)
      BY DEF Message
    <3>2. rl \in Seq(Message)
      <4>1. mapAlerts[n] \subseteq issued /\ IsFiniteSet(mapAlerts[n])
        BY <1>1, FS_Subset
      <4>2. rl \in Seq(mapAlerts[n])
        BY <4>1, RelayTypes
      <4>3. mapAlerts[n] \subseteq Message
        BY <4>1 DEF Message
      <4> HIDE DEF rl
      <4> QED BY <4>2, <4>3, Appended
    <3>3. rest[n][m] \in Seq(Message)
      BY <1>2
    <3>4. wire' = [rest EXCEPT ![n][m] = rest[n][m] \o hi \o rl]
      BY <2>1 DEF ReadVersion
    <3> HIDE DEF hi, rl
    <3>5. rest[n][m] \o hi \o rl \in Seq(Message)
      BY <3>1, <3>2, <3>3
    <3>6. wire' \in X
      BY <1>2, <3>4, <3>5, MessagesPut
    <3>7. UNCHANGED mapAlerts
      BY <2>1 DEF ReadVersion
    <3> QED BY <1>1, <1>3, <3>6, <3>7, NothingProcessed
  <2>2. CASE ReadEarly(n, m, msg, rest)
    BY <1>1, <1>2, <1>3, <2>2, NothingProcessed DEF ReadEarly
  <2>3. CASE msg # "version" /\ ReadAlert(n, m, msg, rest)
    <3>1. msg \in issued
      BY <1>2, <2>3 DEF Message
    <3>2. CASE msg \in setKnown[n][m]
      BY <1>1, <1>2, <1>3, <2>3, <3>2, NothingProcessed DEF ReadAlert
    <3>3. CASE msg \notin setKnown[n][m]
      <4>1. mapAlerts' = [mapAlerts EXCEPT ![n] = Processed(@, msg)]
        BY <2>3, <3>3 DEF ReadAlert
      <4>2. CancelledGone' /\ mapAlerts' \in [Node -> SUBSET issued]
        BY <1>1, <1>3, <3>1, <4>1, ProcessedAt
      <4>3. wire' = rest \/ Spread(n, m, msg, rest)
        BY <2>3, <3>3 DEF ReadAlert
      <4>4. wire' \in X
        BY <1>2, <3>1, <4>3, SpreadTypes DEF Message
      <4> QED BY <4>2, <4>4
    <3> QED BY <3>2, <3>3
  <2> QED BY <1>4, <2>1, <2>2, <2>3
<1> QED BY <1>1, <1>3, <1>5 DEF AlertInv, AlertTypes

\* A connection is opened.
LEMMA ConnectKeeps ==
  ASSUME AlertInv, NEW n \in Node, NEW m \in Node, Connect(n, m)
  PROVE  AlertInv'
<1>1. UNCHANGED <<now, issued, mapAlerts, Message>>
  BY DEF Connect, Message
<1>2. wire' = [wire EXCEPT ![n][m] = <<"version">>]
  BY DEF Connect
<1>3. wire' \in [Node -> [Node -> Seq(Message)]]
  <2>1. <<"version">> \in Seq(Message)
    BY DEF Message
  <2> QED BY <1>2, <2>1, MessagesPut DEF AlertInv, AlertTypes
<1>4. CancelledGone'
  BY <1>1, NothingProcessed DEF AlertInv
<1> QED BY <1>1, <1>3, <1>4 DEF AlertInv, AlertTypes

\* Connections are closed, because one is lost or a node restarts.
LEMMA CloseKeeps ==
  ASSUME AlertInv, NEW L, Close(L), UNCHANGED <<now, issued>>,
         \/ UNCHANGED mapAlerts
         \/ \E n \in Node : mapAlerts' = [mapAlerts EXCEPT ![n] = {}]
  PROVE  AlertInv'
<1>1. wire' = [n \in Node |-> [m \in Node |-> IF <<n, m>> \in L \/ <<m, n>> \in L THEN << >>
                                              ELSE wire[n][m]]]
  BY DEF Close
<1>2. wire' \in [Node -> [Node -> Seq(Message)]]
  BY <1>1 DEF AlertInv, AlertTypes
<1>3. /\ mapAlerts' \in [Node -> SUBSET issued]
      /\ \A n \in Node : mapAlerts'[n] \subseteq mapAlerts[n]
  BY DEF AlertInv, AlertTypes
<1>4. CancelledGone'
  BY <1>3 DEF AlertInv, CancelledGone, Cancels, IsInEffect
<1>5. Message' = Message
  BY DEF Message
<1> QED BY <1>2, <1>3, <1>4, <1>5 DEF AlertInv, AlertTypes

\* Time passes: an alert that is not in effect does not come into effect again.
LEMMA TickKeeps ==
  ASSUME AlertInv, Tick
  PROVE  AlertInv'
<1>1. now' = now + 1 /\ now \in Nat /\ UNCHANGED <<issued, mapAlerts, wire>>
  BY DEF Tick, AlertInv, AlertTypes
<1>2. \A n \in Node : mapAlerts[n] \subseteq Alert
  BY DEF AlertInv, AlertTypes
<1>3. ASSUME NEW x \in Alert, IsInEffect(x)' PROVE IsInEffect(x)
  <2>1. nExpiration[x] \in Nat /\ now' < nExpiration[x]
    BY <1>3, AlertAssumption DEF IsInEffect
  <2> QED BY <1>1, <2>1 DEF IsInEffect
<1>4. CancelledGone'
  BY <1>1, <1>2, <1>3 DEF AlertInv, CancelledGone, Cancels, Overrides
<1> QED BY <1>1, <1>4 DEF AlertInv, AlertTypes, Message

\* Initially there is no alert.
LEMMA AlertInitHolds == AlertInit => AlertInv
<1> SUFFICES ASSUME AlertInit PROVE AlertInv
  OBVIOUS
<1>1. now = 0 /\ issued = {} /\ IsFiniteSet({})
  BY FS_EmptySet DEF AlertInit
<1>2. mapAlerts \in [Node -> SUBSET issued]
  BY DEF AlertInit
<1>3. wire \in [Node -> [Node -> Seq(Message)]]
  BY DEF AlertInit
<1>4. CancelledGone
  BY DEF AlertInit, CancelledGone
<1> QED BY <1>1, <1>2, <1>3, <1>4 DEF AlertInv, AlertTypes

\* Every step keeps the invariant.
LEMMA AlertNextKeeps == AlertInv /\ [AlertNext]_alertVars => AlertInv'
<1> SUFFICES ASSUME AlertInv, [AlertNext]_alertVars PROVE AlertInv'
  OBVIOUS
<1>1. CASE UNCHANGED alertVars
  <2>1. UNCHANGED <<now, issued, mapAlerts, wire>>
    BY <1>1 DEF alertVars
  <2>2. CancelledGone'
    BY <2>1, NothingProcessed DEF AlertInv
  <2> QED BY <2>1, <2>2 DEF AlertInv, AlertTypes, Message
<1>2. ASSUME NEW n \in Node, NEW m \in Node, Disconnect(n, m) PROVE AlertInv'
  BY <1>2, CloseKeeps DEF Disconnect
<1>3. ASSUME NEW n \in Node, Restart(n) PROVE AlertInv'
  BY <1>3, CloseKeeps DEF Restart
<1> QED BY <1>1, <1>2, <1>3, IssueKeeps, ReceiveKeeps, ConnectKeeps, TickKeeps DEF AlertNext

\* Whatever way alerts take through the network, with lost connections and
\* restarts, no node holds an alert together with one in effect that cancels it
\* (ProcessAlert, alert.cpp).
THEOREM CancelledStayGone == AlertSpec => []CancelledGone
<1>1. AlertInv => CancelledGone
  BY DEF AlertInv
<1> QED BY <1>1, AlertInitHolds, AlertNextKeeps, PTL DEF AlertSpec

=============================================================================
