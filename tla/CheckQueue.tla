------------------------------ MODULE CheckQueue ------------------------------
(***************************************************************************)
(* CCheckQueue: a master adds checks and waits until they are done; worker *)
(* threads and the waiting master take batches from the queue and run them *)
(* outside the lock.  Loop takes the mutex in one action, which also counts*)
(* the thread in, its batch off or its wait off, and lets go of it in      *)
(* another; the constructor of a control, which does not take the mutex,   *)
(* may come in between.  Which of the queued checks a batch takes does not *)
(* matter to anyone, so the queue is a set.                                *)
(***************************************************************************)
EXTENDS Integers, FiniteSets

CONSTANTS
  Worker,       \* the threads that call Thread
  Master,       \* the thread that makes a CCheckQueueControl
  Check,        \* the checks
  Fails,        \* the checks that return false
  nBatchSize

Thread == Worker \cup {Master}

ASSUME QueueAssumption ==
  /\ IsFiniteSet(Worker) /\ Master \notin Worker
  /\ Fails \subseteq Check
  /\ nBatchSize \in Nat

VARIABLES
  queue,        \* checks nobody has taken
  nIdle, nTotal, nTodo, fAllOk,
  pc,           \* of a thread: "out" of Loop, in "wait", "woken", in "run", or
                \* "in": it has the mutex and comes to the test of queue.empty()
  vChecks,      \* the batch of a thread
  fOk,          \* of a thread, set when it takes its batch
  control,      \* the master has a CCheckQueueControl
  added,        \* history: the checks added under the last control
  fRet          \* what Wait returned last

vars == <<queue, nIdle, nTotal, nTodo, fAllOk, pc, vChecks, fOk, control, added, fRet>>

Init ==
  /\ queue = {} /\ nIdle = 0 /\ nTotal = 0 /\ nTodo = 0 /\ fAllOk = TRUE
  /\ pc = [t \in Thread |-> "out"]
  /\ vChecks = [t \in Thread |-> {}]
  /\ fOk = [t \in Thread |-> TRUE]
  /\ control = FALSE /\ added = {} /\ fRet = TRUE

-----------------------------------------------------------------------------
(* Loop                                                                     *)

\* No thread has the mutex.
Free == \A t \in Thread : pc[t] # "in"

\* A worker comes into being, or the master calls Wait.
Enter(t) ==
  /\ pc[t] = "out" /\ Free /\ (t = Master => control)
  /\ pc' = [pc EXCEPT ![t] = "in"] /\ nTotal' = nTotal + 1
  /\ UNCHANGED <<queue, nIdle, nTodo, fAllOk, vChecks, fOk, control, added, fRet>>

\* Nobody tells the master.
MutNotified(t, todo) == pc

\* condMaster is notified by the worker that leaves nothing to do.
Notified(t, todo) ==
  IF t # Master /\ todo = 0 /\ pc[Master] = "wait" THEN [pc EXCEPT ![Master] = "woken"]
  ELSE pc

\* After one check that fails the others of the batch are not run.
Passed(t) == fOk[t] /\ vChecks[t] \cap Fails = {}

\* A batch has been run and the lock is taken again.
Finish(t) ==
  LET todo == nTodo - Cardinality(vChecks[t])
  IN  /\ pc[t] = "run" /\ Free
      /\ fAllOk' = (fAllOk /\ Passed(t)) /\ nTodo' = todo
      /\ pc' = [Notified(t, todo) EXCEPT ![t] = "in"]
      /\ vChecks' = [vChecks EXCEPT ![t] = {}]
      /\ UNCHANGED <<queue, nIdle, nTotal, fOk, control, added, fRet>>

\* A wait has ended and the lock is taken again.
Resume(t) ==
  /\ pc[t] = "woken" /\ Free
  /\ pc' = [pc EXCEPT ![t] = "in"] /\ nIdle' = nIdle - 1
  /\ UNCHANGED <<queue, nTotal, nTodo, fAllOk, vChecks, fOk, control, added, fRet>>

\* The master returns as soon as the queue is empty.
MutReturn(t) ==
  /\ pc[t] = "in" /\ t = Master /\ queue = {}
  /\ pc' = [pc EXCEPT ![t] = "out"] /\ nTotal' = nTotal - 1
  /\ fRet' = fAllOk /\ fAllOk' = TRUE /\ control' = FALSE
  /\ UNCHANGED <<queue, nIdle, nTodo, vChecks, fOk, added>>

\* The result is reset before it is read.
MutResetFirst(t) ==
  /\ pc[t] = "in" /\ t = Master /\ queue = {} /\ nTodo = 0
  /\ pc' = [pc EXCEPT ![t] = "out"] /\ nTotal' = nTotal - 1
  /\ fAllOk' = TRUE /\ fRet' = fAllOk' /\ control' = FALSE
  /\ UNCHANGED <<queue, nIdle, nTodo, vChecks, fOk, added>>

\* The master has nothing left to wait for; its control goes away.
Return(t) ==
  /\ pc[t] = "in" /\ t = Master /\ queue = {} /\ nTodo = 0
  /\ pc' = [pc EXCEPT ![t] = "out"] /\ nTotal' = nTotal - 1
  /\ fRet' = fAllOk /\ fAllOk' = TRUE /\ control' = FALSE
  /\ UNCHANGED <<queue, nIdle, nTodo, vChecks, fOk, added>>

Sleep(t) ==
  /\ pc[t] = "in" /\ queue = {} /\ (t = Master => nTodo # 0)
  /\ pc' = [pc EXCEPT ![t] = "wait"] /\ nIdle' = nIdle + 1
  /\ UNCHANGED <<queue, nTotal, nTodo, fAllOk, vChecks, fOk, control, added, fRet>>

\* The size of the batch that is taken next.
nNow ==
  LET share == Cardinality(queue) \div (nTotal + nIdle + 1)
      least == IF nBatchSize <= share THEN nBatchSize ELSE share
  IN  IF least >= 1 THEN least ELSE 1

\* A batch is taken from the queue.
Take(t) ==
  /\ pc[t] = "in"
  /\ \E B \in SUBSET queue :
       /\ IsFiniteSet(B) /\ Cardinality(B) = nNow
       /\ queue' = queue \ B
       /\ vChecks' = [vChecks EXCEPT ![t] = B]
  /\ pc' = [pc EXCEPT ![t] = "run"] /\ fOk' = [fOk EXCEPT ![t] = fAllOk]
  /\ UNCHANGED <<nIdle, nTotal, nTodo, fAllOk, control, added, fRet>>

\* The rest of a critical section of Loop.
Look(t) == Return(t) \/ Sleep(t) \/ Take(t)

\* A wait may end for no reason.
Spurious(t) ==
  /\ pc[t] = "wait"
  /\ pc' = [pc EXCEPT ![t] = "woken"]
  /\ UNCHANGED <<queue, nIdle, nTotal, nTodo, fAllOk, vChecks, fOk, control, added, fRet>>

-----------------------------------------------------------------------------
(* CCheckQueueControl                                                       *)

\* The assertions of the constructor, read without the mutex.
Asserts == nTotal = nIdle /\ nTodo = 0 /\ fAllOk

\* A control is made; an assertion that fails ends the program.  That nTotal and
\* nIdle are read one after the other makes no difference: the two can disagree
\* only if a thread takes the mutex meanwhile, and then they can disagree at one
\* moment too.
NewControl ==
  /\ ~control /\ pc[Master] = "out" /\ Asserts
  /\ control' = TRUE /\ added' = {}
  /\ UNCHANGED <<queue, nIdle, nTotal, nTodo, fAllOk, pc, vChecks, fOk, fRet>>

Waiting == {t \in Worker : pc[t] = "wait"}

\* The checks C are added; one worker is notified for one check, else all.
Add(C) ==
  /\ control /\ pc[Master] = "out" /\ Free /\ C # {} /\ C \cap added = {}
  /\ queue' = queue \cup C /\ nTodo' = nTodo + Cardinality(C)
  /\ added' = added \cup C
  /\ IF Cardinality(C) = 1 /\ Waiting # {}
     THEN \E t \in Waiting : pc' = [pc EXCEPT ![t] = "woken"]
     ELSE pc' = [t \in Thread |-> IF t \in Waiting THEN "woken" ELSE pc[t]]
  /\ UNCHANGED <<nIdle, nTotal, fAllOk, vChecks, fOk, control, fRet>>

-----------------------------------------------------------------------------

Next ==
  \/ \E t \in Thread : Enter(t) \/ Finish(t) \/ Resume(t) \/ Spurious(t) \/ Look(t)
  \/ NewControl
  \/ \E C \in SUBSET Check : IsFiniteSet(C) /\ Add(C)

\* A check returns, and a thread in Loop that asks for the mutex gets it in the end,
\* though others ask too; the one that has it lets go of it.  Whether a worker is
\* ever started, and when the master calls Wait, is their own affair.
Fairness ==
  /\ \A t \in Thread : SF_vars(Finish(t) \/ Resume(t))
  /\ WF_vars(\E t \in Thread : Look(t))

Spec == Init /\ [][Next]_vars /\ Fairness

-----------------------------------------------------------------------------
(* Properties                                                               *)

\* The checks that have not been counted off.
Pending == queue \cup UNION {vChecks[t] : t \in Thread}

\* Types; the unsigned nTodo does not pass below zero.
TypeOK ==
  /\ queue \subseteq Check /\ added \subseteq Check
  /\ nIdle \in Nat /\ nTotal \in Nat /\ nTodo \in Nat
  /\ fAllOk \in BOOLEAN /\ control \in BOOLEAN /\ fRet \in BOOLEAN
  /\ pc \in [Thread -> {"out", "in", "wait", "woken", "run"}]
  /\ vChecks \in [Thread -> SUBSET Check]
  /\ fOk \in [Thread -> BOOLEAN]

\* Every check is queued once or in one batch, only a running thread has a
\* batch, and it is not empty.
BatchesApart ==
  /\ \A t \in Thread : /\ vChecks[t] \cap queue = {}
                       /\ vChecks[t] # {} <=> pc[t] = "run"
  /\ \A t, u \in Thread : t # u => vChecks[t] \cap vChecks[u] = {}

\* The counters count what their names say: nTodo the checks that are queued or
\* being run, nIdle the threads that wait, nTotal those in Loop.
CountersExact ==
  /\ nTodo = Cardinality(Pending)
  /\ nIdle = Cardinality({t \in Thread : pc[t] \in {"wait", "woken"}})
  /\ nTotal = Cardinality({t \in Thread : pc[t] # "out"})

\* Between two controls nothing is to be done and no result is left, and nTotal
\* and nIdle differ by the threads that have the mutex.  So of the assertions of
\* the constructor of CCheckQueueControl only the first can fail, and only because
\* a worker that starts late or wakes late or for no reason is on its way back to
\* the wait while they are read.
ControlAsserts ==
  ~control => /\ nTodo = 0 /\ fAllOk
              /\ nTotal = nIdle + Cardinality({t \in Worker : pc[t] = "in"})

\* Wait returns true exactly if all checks added under the control return true,
\* although checks are skipped once one has failed, and none is left behind.
ResultExact ==
  ~control => Pending = {} /\ (fRet <=> added \cap Fails = {})

\* Wait returns: no notification is lost that the master or the queue needs.
WaitReturns == pc[Master] # "out" ~> pc[Master] = "out"

=============================================================================
