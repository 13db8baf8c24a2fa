----------------------------- MODULE CheckQueue -----------------------------
(***************************************************************************)
(* CCheckQueue and CCheckQueueControl (src/src/checkqueue.h): the pool of  *)
(* script check threads that ConnectBlock joins as the master.             *)
(*                                                                         *)
(* One step is one critical section of the queue's mutex, or the run of a  *)
(* batch outside it.  cond.wait splits a critical section in two: Park     *)
(* releases the mutex, and Resume reacquires it.  The queue's order does   *)
(* not matter ("used as a LIFO"), so it is the set of queued checks.       *)
(***************************************************************************)
EXTENDS Integers, FiniteSets

CONSTANTS
  Workers,     \* the threads running Thread()
  Master,      \* the thread that holds cs_main and owns the control object
  Check,       \* the identities of the verifications
  BatchSize,   \* nBatchSize
  BadSets,     \* the sets of verifications that may be the ones to fail
  MaxSessions  \* bound: sessions opened in a behaviour

Threads == Workers \cup {Master}

ASSUME CQAssumption ==
  /\ IsFiniteSet(Workers)
  /\ Master \notin Workers
  /\ IsFiniteSet(Check)
  /\ BatchSize \in Nat \ {0}
  /\ BadSets \subseteq SUBSET Check
  /\ MaxSessions \in Nat

VARIABLES
  \* members of CCheckQueue
  queue, nIdle, nTotal, fAllOk, nTodo,
  \* locals of Loop, per thread
  pc, vChecks, fOk,
  \* the master's session
  added, bad, verdict, sessions,
  \* the threads that interrupt_all reached inside cond.wait
  interrupted

queueVars   == <<queue, nIdle, nTotal, fAllOk, nTodo>>
localVars   == <<pc, vChecks, fOk>>
sessionVars == <<added, bad, verdict, sessions>>
vars == <<queueVars, localVars, sessionVars, interrupted>>

(***************************************************************************)
(* Program counters.  "out": not in Loop (for the master: no control       *)
(* object).  "ctl": the master holds a control object and may Add.         *)
(* "enter"/"top": about to lock the mutex at the head of the do loop, for  *)
(* the first time or after a batch.  "wait": blocked in cond.wait.         *)
(* "woken": notified, about to relock.  "run": owns a batch.  "gone": the  *)
(* thread was interrupted.                                                 *)
(***************************************************************************)
PCs == {"out", "ctl", "enter", "top", "wait", "woken", "run", "gone"}

Waiting(S) == {t \in S : pc[t] = "wait"}

\* The threads whose batch is not accounted for yet.
Busy == {t \in Threads : pc[t] \in {"run", "top"}}

\* The threads blocked in cond.wait, or on their way out of it.
Asleep == {t \in Threads : pc[t] \in {"wait", "woken"}}

\* Checks that are still queued or in some thread's own batch.
Outstanding == queue \cup UNION {vChecks[t] : t \in Threads}

\* CCheckQueue::IsIdle
IsIdle == nTotal = nIdle /\ nTodo = 0 /\ fAllOk

Init ==
  /\ queue = {}
  /\ nIdle = 0
  /\ nTotal = 0
  /\ fAllOk = TRUE
  /\ nTodo = 0
  /\ pc = [t \in Threads |-> IF t = Master THEN "out" ELSE "enter"]
  /\ vChecks = [t \in Threads |-> {}]
  /\ fOk = [t \in Threads |-> TRUE]
  /\ added = {}
  /\ bad = {}
  /\ verdict = "none"
  /\ sessions = 0
  /\ interrupted = {}

-----------------------------------------------------------------------------
(***************************************************************************)
(* The parts of Loop.  Each takes the values the earlier part of the same  *)
(* critical section left in the counters.                                  *)
(***************************************************************************)

\* nNow: how many work units to take from a queue of the given size.
BatchFor(size, total, idle) ==
  LET share   == size \div (total + idle + 1)
      clipped == IF share < BatchSize THEN share ELSE BatchSize
  IN  IF clipped < 1 THEN 1 ELSE clipped

\* The status the next session starts from.
StatusAfterWait(allOk) == TRUE

\* nIdle on going to sleep.
IdleAfterPark(idle) == idle + 1

Take(t, total, idle, allOk, pc0) ==
  /\ queue # {}
  /\ \E S \in SUBSET queue :
       /\ Cardinality(S) = BatchFor(Cardinality(queue), total, idle)
       /\ queue' = queue \ S
       /\ vChecks' = [vChecks EXCEPT ![t] = S]
  /\ pc' = [pc0 EXCEPT ![t] = "run"]
  /\ fOk' = [fOk EXCEPT ![t] = allOk]
  /\ nTotal' = total
  /\ nIdle' = idle
  /\ fAllOk' = allOk
  /\ UNCHANGED <<added, bad, verdict>>

\* fQuit is never set, so only the master returns.
Return(t, total, idle, allOk, todo, pc0) ==
  /\ queue = {}
  /\ t = Master
  /\ todo = 0
  /\ pc' = [pc0 EXCEPT ![t] = "out"]
  /\ verdict' = IF allOk THEN "pass" ELSE "fail"
  /\ fAllOk' = StatusAfterWait(allOk)
  /\ nTotal' = total - 1
  /\ nIdle' = idle
  /\ vChecks' = [vChecks EXCEPT ![t] = {}]
  /\ UNCHANGED <<queue, fOk, added, bad>>

Park(t, total, idle, allOk, todo, pc0) ==
  /\ queue = {}
  /\ ~(t = Master /\ todo = 0)
  /\ pc' = [pc0 EXCEPT ![t] = "wait"]
  /\ fAllOk' = allOk
  /\ nTotal' = total
  /\ nIdle' = IdleAfterPark(idle)
  /\ vChecks' = [vChecks EXCEPT ![t] = {}]
  /\ UNCHANGED <<queue, fOk, added, bad, verdict>>

\* What follows "logically, the do loop starts here".
LoopBody(t, total, idle, allOk, todo, pc0) ==
  /\ nTodo' = todo
  /\ \/ Take(t, total, idle, allOk, pc0)
     \/ Return(t, total, idle, allOk, todo, pc0)
     \/ Park(t, total, idle, allOk, todo, pc0)
  /\ UNCHANGED <<sessions, interrupted>>

\* First iteration: join the pool.
Enter(t) ==
  /\ pc[t] = "enter"
  /\ LoopBody(t, nTotal + 1, nIdle, fAllOk, nTodo, pc)

\* fAllOk &= fOk, and the mutant that assigns.
StatusAssigned(t) == fOk[t]
StatusAfterBatch(t) == fAllOk /\ fOk[t]

\* nTodo -= nNow, and the mutant that takes every batch for one check.
TodoMinusOne(t) == nTodo - 1
TodoAfterBatch(t) == nTodo - Cardinality(vChecks[t])

\* pc after notify_one on the master's condition, and the mutant without it.
NotifyNobody == pc
NotifyMaster == [pc EXCEPT ![Master] = IF @ = "wait" THEN "woken" ELSE @]

\* Later iterations: account for the batch, tell the master if it was the last.
CleanUp(t) ==
  /\ pc[t] = "top"
  /\ LET todo == TodoAfterBatch(t)
         last == todo = 0 /\ t # Master
     IN  LoopBody(t, nTotal, nIdle, StatusAfterBatch(t), todo,
                  IF last THEN NotifyMaster ELSE pc)

\* cond.wait returned.
Resume(t) ==
  /\ pc[t] = "woken"
  /\ LoopBody(t, nTotal, nIdle - 1, fAllOk, nTodo, pc)

\* "execute work", outside the mutex; a batch that starts not ok is skipped.
Execute(t) ==
  /\ pc[t] = "run"
  /\ pc' = [pc EXCEPT ![t] = "top"]
  /\ fOk' = [fOk EXCEPT ![t] = @ /\ vChecks[t] \cap bad = {}]
  /\ UNCHANGED <<queueVars, vChecks, sessionVars, interrupted>>

\* A condition variable may wake without a notification.
SpuriousWake(t) ==
  /\ pc[t] = "wait"
  /\ pc' = [pc EXCEPT ![t] = "woken"]
  /\ UNCHANGED <<queueVars, vChecks, fOk, sessionVars, interrupted>>

-----------------------------------------------------------------------------
(***************************************************************************)
(* The master, between two Waits.                                          *)
(***************************************************************************)

\* The CCheckQueueControl constructor; its assertion is ControlAssert.
OpenControl ==
  /\ pc[Master] = "out"
  /\ sessions < MaxSessions
  /\ sessions' = sessions + 1
  /\ pc' = [pc EXCEPT ![Master] = "ctl"]
  /\ added' = {}
  /\ bad' \in BadSets
  /\ verdict' = "none"
  /\ UNCHANGED <<queueVars, vChecks, fOk, interrupted>>

\* CCheckQueue::Add; one check notifies one worker, more notify all.
Add(S) ==
  /\ pc[Master] = "ctl"
  /\ S \subseteq Check \ added
  /\ added' = added \cup S
  /\ queue' = queue \cup S
  /\ nTodo' = nTodo + Cardinality(S)
  /\ \E W \in SUBSET Waiting(Workers) :
       /\ IF Cardinality(S) > 1 THEN W = Waiting(Workers)
          ELSE IF S = {} \/ Waiting(Workers) = {} THEN W = {}
          ELSE Cardinality(W) = 1
       /\ pc' = [t \in Threads |-> IF t \in W THEN "woken" ELSE pc[t]]
  /\ UNCHANGED <<nIdle, nTotal, fAllOk, vChecks, fOk, bad, verdict, sessions,
                 interrupted>>

\* control.Wait(), or the destructor of a control that was not waited for.
CallWait ==
  /\ pc[Master] = "ctl"
  /\ pc' = [pc EXCEPT ![Master] = "enter"]
  /\ UNCHANGED <<queueVars, vChecks, fOk, sessionVars, interrupted>>

(***************************************************************************)
(* Shutdown interrupted the thread group.  boost throws thread_interrupted  *)
(* out of cond.wait, past the nIdle-- and nTotal-- that would follow.  A   *)
(* worker is gone; the master unwinds into the control's destructor, which *)
(* calls Wait() again.  The group is interrupted once.                     *)
(***************************************************************************)
Interrupt(t) ==
  /\ pc[t] \in {"wait", "woken"}
  /\ t \notin interrupted
  /\ interrupted' = interrupted \cup {t}
  /\ pc' = [pc EXCEPT ![t] = IF t = Master THEN "enter" ELSE "gone"]
  /\ UNCHANGED <<queueVars, vChecks, fOk, sessionVars>>

\* The run of the model is over: every session was opened and closed.
Finished ==
  /\ sessions = MaxSessions
  /\ pc[Master] = "out"
  /\ UNCHANGED vars

ThreadStep(t) == Enter(t) \/ CleanUp(t) \/ Resume(t) \/ Execute(t)

Next ==
  \/ \E t \in Threads : ThreadStep(t) \/ SpuriousWake(t) \/ Interrupt(t)
  \/ OpenControl
  \/ \E S \in SUBSET Check : Add(S)
  \/ CallWait
  \/ Finished

(***************************************************************************)
(* The scheduler runs every runnable thread, and the mutex is handed out   *)
(* fairly enough that a thread that keeps asking gets it.                  *)
(***************************************************************************)
Fairness ==
  /\ \A t \in Threads : WF_vars(ThreadStep(t))
  /\ WF_vars(CallWait)

Spec == Init /\ [][Next]_vars /\ Fairness
-----------------------------------------------------------------------------
\* Every member and local of the queue holds a value of its C++ type: the
\* counters, which are decremented, never go below zero.
TypeOK ==
  /\ queue \subseteq Check
  /\ nIdle \in Nat
  /\ nTotal \in Nat
  /\ fAllOk \in BOOLEAN
  /\ nTodo \in Nat
  /\ pc \in [Threads -> PCs]
  /\ vChecks \in [Threads -> SUBSET Check]
  /\ fOk \in [Threads -> BOOLEAN]
  /\ added \subseteq Check
  /\ bad \subseteq Check
  /\ verdict \in {"none", "pass", "fail"}
  /\ sessions \in Nat
  /\ interrupted \subseteq Threads

(***************************************************************************)
(* The counters that Loop keeps by hand under the mutex say what they are  *)
(* documented to say, also after a thread was interrupted inside           *)
(* cond.wait: nTodo is "the number of verifications that haven't completed *)
(* yet", queued or in a worker's own batch; the threads that are counted   *)
(* but not idle are exactly those that hold a batch; and a thread that was *)
(* interrupted asleep stays counted in both nIdle and nTotal, so that      *)
(* IsIdle, which compares the two, is not fooled.                          *)
(***************************************************************************)
CountersExact ==
  /\ nTodo = Cardinality(Outstanding)
  /\ nTotal - nIdle = Cardinality(Busy)
  /\ nIdle = Cardinality(Asleep) + Cardinality(interrupted)

(***************************************************************************)
(* The inductive strengthening behind the theorems of CheckQueueProofs: no *)
(* check is in two places, only busy threads own batches, and every bad    *)
(* check of the session is either still outstanding or recorded in fAllOk. *)
(***************************************************************************)
BatchesDisjoint ==
  /\ \A t \in Threads : queue \cap vChecks[t] = {}
  /\ \A t, u \in Threads : t # u => vChecks[t] \cap vChecks[u] = {}

BatchesOwned ==
  \A t \in Threads : (pc[t] \in {"run", "top"}) <=> (vChecks[t] # {})

FailuresRecorded ==
  /\ Outstanding \subseteq added
  /\ \A t \in Threads : pc[t] = "top" /\ fOk[t] => vChecks[t] \cap bad = {}
  /\ \A t \in Threads : pc[t] \in {"run", "top"} /\ ~fOk[t]
                          => added \cap bad # {}
  /\ pc[Master] = "out" => nTodo = 0 /\ fAllOk
  /\ pc[Master] # "out" =>
       /\ ~fAllOk => added \cap bad # {}
       /\ fAllOk => added \cap bad \subseteq Outstanding

IInv ==
  TypeOK /\ CountersExact /\ BatchesDisjoint /\ BatchesOwned /\ FailuresRecorded

(***************************************************************************)
(* The assertion of the CCheckQueueControl constructor: whenever a master  *)
(* may open a session the queue is idle, whatever the workers of the last  *)
(* session are doing.                                                      *)
(***************************************************************************)
ControlAssert == pc[Master] = "out" => IsIdle

(***************************************************************************)
(* Wait() returns true exactly if every check handed over in the session   *)
(* passes: a failure found by any worker is never lost, one session's      *)
(* failure never leaks into the next, and no check is dropped.             *)
(***************************************************************************)
Service == INSTANCE VerdictService WITH open <- pc[Master] # "out"
ImplementsService == Service!Spec

(***************************************************************************)
(* Wait() returns, although workers sleep, wake spuriously and are         *)
(* interrupted: the master finishes alone if it must, and the worker that  *)
(* accounts for the last check wakes it.                                   *)
(***************************************************************************)
WaitReturns == pc[Master] = "enter" ~> pc[Master] = "out"
=============================================================================
