------------------------------ MODULE Scheduler ------------------------------
(***************************************************************************)
(* The background scheduler of src/src/scheduler.cpp: threads that serve a *)
(* queue of timed tasks under one mutex and one condition variable, an     *)
(* owner that schedules tasks and stops the threads, with or without       *)
(* draining the queue or by interrupting them, and tasks that schedule     *)
(* further tasks (Repeat does so after every turn).                        *)
(*                                                                         *)
(* A step is what a thread does between taking newTaskMutex and releasing  *)
(* it.  schedule() and stop() notify after they released it, so that is a  *)
(* step of its own.  The order among tasks of equal time is left open.     *)
(***************************************************************************)
EXTENDS Integers, FiniteSets

CONSTANTS
  Servers,  \* the threads that run serviceQueue
  \* bounds: the clock, the delay a task is scheduled with, calls of schedule
  MaxTime, MaxDelay, MaxTasks

ASSUME SchedulerAssumption ==
  /\ IsFiniteSet(Servers)
  /\ {MaxTime, MaxDelay, MaxTasks} \subseteq Nat

VARIABLES
  now,                     \* boost::chrono::system_clock::now()
  taskQueue,               \* records of a task and its time
  nextTask,                \* the number of the next call of schedule
  nThreadsServicingQueue, stopRequested, stopWhenEmpty,
  interrupted,             \* boost::thread::interrupt was called on the servers
  owner,                   \* where the owner is
  pc,                      \* where each server is
  until                    \* the deadline of its wait_until

stopVars == <<stopRequested, stopWhenEmpty, interrupted>>
vars == <<now, taskQueue, nextTask, nThreadsServicingQueue, stopVars, owner, pc, until>>

\* "wait" and "timed" are the waits of lines 44 and 60; a notified thread is
\* "woken", one that timed out "expired", until they have the mutex again.
PCs == {"idle", "wait", "timed", "woken", "expired", "run", "notify", "exited"}
InLoop == Servers \ {s \in Servers : pc[s] \in {"idle", "exited"}}
Waiters(where) == {s \in Servers : where[s] \in {"wait", "timed"}}

\* shouldStop(); the mutant forgets that a drain waits for the queue.
StopAtOnce == stopRequested \/ stopWhenEmpty
ShouldStop == stopRequested \/ (stopWhenEmpty /\ taskQueue = {})
First == {e \in taskQueue : \A other \in taskQueue : e.time <= other.time}

Init ==
  /\ now = 0
  /\ taskQueue = {}
  /\ nextTask = 1
  /\ nThreadsServicingQueue = 0
  /\ stopRequested = FALSE /\ stopWhenEmpty = FALSE /\ interrupted = FALSE
  /\ owner = "active"
  /\ pc = [s \in Servers |-> "idle"]
  /\ until = [s \in Servers |-> 0]

\* notify_one when the servers are at where: one waiter, if there is one.
NotifyOne(where) ==
  IF Waiters(where) = {} THEN pc' = where
  ELSE \E w \in Waiters(where) : pc' = [where EXCEPT ![w] = "woken"]

NotifyAll(where) ==
  pc' = [s \in Servers |-> IF s \in Waiters(where) THEN "woken" ELSE where[s]]

\* The end of serviceQueue, where count threads are inside.
Leave(s, count) ==
  /\ nThreadsServicingQueue' = count - 1
  /\ NotifyOne([pc EXCEPT ![s] = "exited"])
  /\ UNCHANGED <<taskQueue, until>>

\* catch (...): the interruption ends the thread; the mutant keeps the count.
Uncounted(count) == count
Thrown(count) == count - 1
Throw(s, count) ==
  /\ nThreadsServicingQueue' = Thrown(count)
  /\ pc' = [pc EXCEPT ![s] = "exited"]
  /\ UNCHANGED <<taskQueue, until>>

\* The loops from the top, up to the next wait, which is an interruption
\* point.  The mutant of ToWait waits without a deadline for a later task.
ForATask(queue) == "wait"
ToWait(queue) == IF queue = {} THEN "wait" ELSE "timed"
LoopBody(s, count) ==
  \/ ShouldStop /\ Leave(s, count)
  \/ ~ShouldStop /\ interrupted /\ Throw(s, count)
  \/ /\ ~ShouldStop /\ ~interrupted
     /\ pc' = [pc EXCEPT ![s] = ToWait(taskQueue)]
     /\ \/ taskQueue = {} /\ UNCHANGED until
        \/ \E e \in First : until' = [until EXCEPT ![s] = e.time]
     /\ nThreadsServicingQueue' = count
     /\ UNCHANGED taskQueue

Enter(s) ==
  /\ pc[s] = "idle"
  /\ LoopBody(s, nThreadsServicingQueue + 1)
  /\ UNCHANGED <<now, nextTask, stopVars, owner>>

\* A notified thread has the mutex again.
Resume(s) ==
  /\ pc[s] = "woken"
  /\ IF interrupted THEN Throw(s, nThreadsServicingQueue)
     ELSE LoopBody(s, nThreadsServicingQueue)
  /\ UNCHANGED <<now, nextTask, stopVars, owner>>

\* The deadline passes; the thread no longer takes part in notifications.
Expire(s) ==
  /\ pc[s] = "timed"
  /\ until[s] <= now
  /\ pc' = [pc EXCEPT ![s] = "expired"]
  /\ UNCHANGED <<now, taskQueue, nextTask, nThreadsServicingQueue, stopVars, owner, until>>

\* After a timeout: whatever task is first now is taken.
Take(s) ==
  /\ ~ShouldStop /\ taskQueue # {}
  /\ \E e \in First : taskQueue' = taskQueue \ {e}
  /\ pc' = [pc EXCEPT ![s] = "run"]
  /\ UNCHANGED <<nThreadsServicingQueue, until>>

Relock(s) ==
  /\ pc[s] = "expired"
  /\ \/ interrupted /\ Throw(s, nThreadsServicingQueue)
     \/ ~interrupted /\ Take(s)
     \/ ~interrupted /\ (ShouldStop \/ taskQueue = {}) /\ LoopBody(s, nThreadsServicingQueue)
  /\ UNCHANGED <<now, nextTask, stopVars, owner>>

\* The task returns, or an interruption point of it throws.
Return(s) ==
  /\ pc[s] = "run"
  /\ \/ LoopBody(s, nThreadsServicingQueue)
     \/ interrupted /\ Throw(s, nThreadsServicingQueue)
  /\ UNCHANGED <<now, nextTask, stopVars, owner>>

\* schedule(), up to the end of its critical section.
Insert(delay) ==
  /\ nextTask <= MaxTasks /\ now + delay <= MaxTime
  /\ taskQueue' = taskQueue \cup {[task |-> nextTask, time |-> now + delay]}
  /\ nextTask' = nextTask + 1
  /\ UNCHANGED <<now, nThreadsServicingQueue, stopVars, until>>

\* A task schedules another, or itself again.
ScheduleFromTask(s, delay) ==
  /\ pc[s] = "run"
  /\ Insert(delay)
  /\ pc' = [pc EXCEPT ![s] = "notify"]
  /\ UNCHANGED owner

NotifyFromTask(s) ==
  /\ pc[s] = "notify"
  /\ NotifyOne([pc EXCEPT ![s] = "run"])
  /\ UNCHANGED <<now, taskQueue, nextTask, nThreadsServicingQueue, stopVars, owner, until>>

Schedule(delay) ==
  /\ owner = "active"
  /\ Insert(delay)
  /\ owner' = "notify"
  /\ UNCHANGED pc

\* stop(drain), up to the end of its critical section.
Stop(drain) ==
  /\ owner = "active"
  /\ stopWhenEmpty' = (stopWhenEmpty \/ drain)
  /\ stopRequested' = (stopRequested \/ ~drain)
  /\ owner' = "notify_all"
  /\ UNCHANGED <<now, taskQueue, nextTask, nThreadsServicingQueue, interrupted, pc, until>>

\* The notifications of schedule and stop; the mutant wakes nobody.
Silent(where) == pc' = where
Announced(where) == NotifyOne(where)
AllWoken(where) == NotifyAll(where)
OwnerNotifies ==
  /\ \/ owner = "notify" /\ owner' = "active" /\ Announced(pc)
     \/ owner = "notify_all" /\ owner' = "stopped" /\ AllWoken(pc)
  /\ UNCHANGED <<now, taskQueue, nextTask, nThreadsServicingQueue, stopVars, until>>

\* threadGroup.interrupt_all(): waiting threads wake up to throw.
Interrupt ==
  /\ owner = "active"
  /\ interrupted' = TRUE
  /\ owner' = "stopped"
  /\ NotifyAll(pc)
  /\ UNCHANGED <<now, taskQueue, nextTask, nThreadsServicingQueue, stopRequested, stopWhenEmpty, until>>

SpuriousWake(s) ==
  /\ s \in Waiters(pc)
  /\ pc' = [pc EXCEPT ![s] = "woken"]
  /\ UNCHANGED <<now, taskQueue, nextTask, nThreadsServicingQueue, stopVars, owner, until>>

Tick ==
  /\ now < MaxTime
  /\ now' = now + 1
  /\ UNCHANGED <<taskQueue, nextTask, nThreadsServicingQueue, stopVars, owner, pc, until>>

ServerStep(s) ==
  Enter(s) \/ Resume(s) \/ Expire(s) \/ Relock(s) \/ Return(s) \/ NotifyFromTask(s)

Next ==
  \/ \E s \in Servers : ServerStep(s) \/ SpuriousWake(s)
  \/ \E delay \in 0 .. MaxDelay : Schedule(delay) \/ \E s \in Servers : ScheduleFromTask(s, delay)
  \/ \E drain \in BOOLEAN : Stop(drain)
  \/ OwnerNotifies \/ Interrupt \/ Tick

Spec == Init /\ [][Next]_vars

\* The clock runs, the threads are scheduled, tasks return, and the owner ends
\* the calls it began; nobody is made to schedule or to stop anything.
\* Spurious wake-ups do not forever come before a deadline that has passed.
FairSpec ==
  /\ Spec /\ WF_vars(Tick) /\ WF_vars(OwnerNotifies)
  /\ \A s \in Servers : WF_vars(ServerStep(s)) /\ SF_vars(Expire(s))

-----------------------------------------------------------------------------
Stopped == stopRequested \/ stopWhenEmpty \/ interrupted
AllOut == InLoop = {}

TypeOK ==
  /\ now \in Nat /\ nextTask \in Nat
  /\ taskQueue \subseteq [task : Nat, time : Nat]
  /\ nThreadsServicingQueue \in Nat
  /\ stopRequested \in BOOLEAN /\ stopWhenEmpty \in BOOLEAN /\ interrupted \in BOOLEAN
  /\ owner \in {"active", "notify", "notify_all", "stopped"}
  /\ pc \in [Servers -> PCs]
  /\ until \in [Servers -> Nat]

(***************************************************************************)
(* The destructor's assertion (scheduler.cpp:21) holds whenever the        *)
(* threads are gone, and the count is exact before that, whichever way     *)
(* each of them left: by returning or by an exception.                     *)
(***************************************************************************)
ThreadsCounted == nThreadsServicingQueue = Cardinality(InLoop)

(***************************************************************************)
(* Somebody attends to the first task as long as a thread serves: one is   *)
(* awake, or waits no longer than that task's time, or a notification is   *)
(* on its way.  A notify_one that only reaches a thread with a later       *)
(* deadline, or a thread that just timed out, must not lose it.            *)
(***************************************************************************)
Attends(s) ==
  \/ pc[s] \in {"woken", "expired", "run", "notify"}
  \/ pc[s] = "timed" /\ \A e \in First : until[s] <= e.time
FirstTaskAttended ==
  taskQueue # {} /\ ~AllOut => owner \in {"notify", "notify_all"} \/ \E s \in Servers : Attends(s)

(***************************************************************************)
(* stop(true): "when there is no work left to be done" (scheduler.h:61).   *)
(* A thread that finds the queue empty leaves while another still runs a   *)
(* task; what that task schedules must not be left behind.                 *)
(***************************************************************************)
DrainLeavesNothing ==
  AllOut /\ (\E s \in Servers : pc[s] = "exited") /\ ~stopRequested /\ ~interrupted => taskQueue = {}

\* Every thread leaves serviceQueue once the scheduler is stopped, drained or
\* interrupted, so that join_all returns and the destructor may run.
StopEnds == Stopped ~> AllOut

(***************************************************************************)
(* "Call func at/after time t" (scheduler.h:42).  It holds for the single  *)
(* thread that init.cpp starts (SchedulerProofs); with two, a thread that  *)
(* timed out for a task another one took starts the next one early.        *)
(***************************************************************************)
NeverEarly == [][\A e \in taskQueue \ taskQueue' : e.time <= now]_vars
=============================================================================
