-------------------------- MODULE SchedulerProofs --------------------------
(***************************************************************************)
(* For any number of service threads: the count of CScheduler is exact,    *)
(* the first task is attended to, a drain leaves nothing behind, and a     *)
(* single thread never starts a task early.                                *)
(*                                                                         *)
(* Three ways lead to the head of the service loop (entry, a notification, *)
(* a task that returned); LoopStep says once what happens there.           *)
(***************************************************************************)
EXTENDS Scheduler, FiniteSetTheorems, TLAPS

LEMMA ServersFinite ==
  ASSUME NEW S \in SUBSET Servers
  PROVE  IsFiniteSet(S) /\ Cardinality(S) \in Nat
  BY SchedulerAssumption, FS_Subset, FS_CardinalityType DEF SchedulerAssumption

Inside(where) == {s \in Servers : where[s] \notin {"idle", "exited"}}

LEMMA InLoopIsInside == InLoop = Inside(pc)
  BY DEF InLoop, Inside

\* One thread fewer, or one more.
LEMMA OneOut ==
  ASSUME NEW S \in SUBSET Servers, NEW s \in Servers
  PROVE  /\ Cardinality((S \cup {s}) \ {s}) = Cardinality(S \cup {s}) - 1
         /\ Cardinality(S \cup {s}) = IF s \in S THEN Cardinality(S) ELSE Cardinality(S) + 1
<1>1. IsFiniteSet(S) /\ IsFiniteSet(S \cup {s})
  BY ServersFinite
<1>2. QED
  BY <1>1, FS_RemoveElement, FS_AddElement

-----------------------------------------------------------------------------
(***************************************************************************)
(* What notifications may change: waiting threads become woken.            *)
(***************************************************************************)
WakesOnly(where) ==
  /\ pc' \in [Servers -> PCs]
  /\ \A t \in Servers : pc'[t] = where[t] \/ (where[t] \in {"wait", "timed"} /\ pc'[t] = "woken")

LEMMA NotifyOneWakes ==
  ASSUME NEW STATE where, where \in [Servers -> PCs], NotifyOne(where)
  PROVE  /\ WakesOnly(where)
         /\ Waiters(where) = {} \/ \E t \in Servers : pc'[t] = "woken"
  BY DEF NotifyOne, Waiters, WakesOnly, PCs

LEMMA NotifyAllWakes ==
  ASSUME NEW STATE where, where \in [Servers -> PCs], NotifyAll(where)
  PROVE  /\ WakesOnly(where)
         /\ \A t \in Servers : pc'[t] \notin {"wait", "timed"}
  BY DEF NotifyAll, Waiters, WakesOnly, PCs

LEMMA WakingKeepsInside ==
  ASSUME NEW STATE where, WakesOnly(where)
  PROVE  InLoop' = Inside(where)
  BY DEF WakesOnly, Inside, InLoop

(***************************************************************************)
(* The head of the loop, for a thread that counts itself among the count   *)
(* threads inside: it leaves, is thrown out, or waits.  A thread may be    *)
(* thrown out before it gets there.                                        *)
(***************************************************************************)
LoopOrThrow(s, count) == LoopBody(s, count) \/ (interrupted /\ Throw(s, count))

Leaves(s) ==
  /\ ShouldStop
  /\ \E where \in [Servers -> PCs] : where = [pc EXCEPT ![s] = "exited"] /\ NotifyOne(where)
Sleeps(s) ==
  /\ ~ShouldStop /\ ~interrupted
  /\ pc' = [pc EXCEPT ![s] = IF taskQueue = {} THEN "wait" ELSE "timed"]
  /\ taskQueue = {} \/ \E e \in First : until' = [until EXCEPT ![s] = e.time]
Thrown_(s) == interrupted /\ pc' = [pc EXCEPT ![s] = "exited"]

LEMMA LoopStep ==
  ASSUME TypeOK, NEW s \in Servers, NEW STATE count, count \in Nat, LoopOrThrow(s, count),
         count = Cardinality(InLoop \cup {s})
  PROVE  /\ Leaves(s) \/ Sleeps(s) \/ Thrown_(s)
         /\ taskQueue' = taskQueue
         /\ pc' \in [Servers -> PCs] /\ until' \in [Servers -> Nat]
         /\ nThreadsServicingQueue' \in Nat
         /\ nThreadsServicingQueue' = Cardinality(InLoop')
<1> DEFINE gone == [pc EXCEPT ![s] = "exited"]
<1>1. gone \in [Servers -> PCs] /\ Inside(gone) = (InLoop \cup {s}) \ {s}
  BY DEF TypeOK, PCs, Inside, InLoop
<1>2. InLoop \in SUBSET Servers
  BY DEF InLoop
<1>3. Cardinality(Inside(gone)) = count - 1 /\ Cardinality(Inside(gone)) \in Nat
  <2>1. Cardinality((InLoop \cup {s}) \ {s}) = count - 1
    BY <1>2, OneOut
  <2>2. Inside(gone) \in SUBSET Servers
    BY DEF Inside
  <2>3. QED
    BY <1>1, <2>1, <2>2, ServersFinite
<1>4. CASE ShouldStop /\ Leave(s, count)
  <2>1. NotifyOne(gone) /\ taskQueue' = taskQueue /\ until' = until /\ nThreadsServicingQueue' = count - 1
    BY <1>4 DEF Leave
  <2>2. WakesOnly(gone) /\ Leaves(s)
    BY <2>1, <1>1, <1>4, NotifyOneWakes DEF Leaves
  <2>3. InLoop' = Inside(gone)
    BY <2>2, WakingKeepsInside
  <2>4. QED
    BY <1>3, <2>1, <2>2, <2>3 DEF WakesOnly, TypeOK
<1>5. CASE interrupted /\ Throw(s, count)
  <2>1. pc' = gone /\ taskQueue' = taskQueue /\ until' = until /\ nThreadsServicingQueue' = count - 1
    BY <1>5 DEF Throw, Thrown
  <2>2. InLoop' = Inside(gone)
    BY <2>1 DEF InLoop, Inside
  <2>3. QED
    BY <1>1, <1>3, <1>5, <2>1, <2>2 DEF Thrown_, TypeOK
<1>6. CASE /\ ~ShouldStop /\ ~interrupted
           /\ pc' = [pc EXCEPT ![s] = ToWait(taskQueue)]
           /\ \/ taskQueue = {} /\ UNCHANGED until
              \/ \E e \in First : until' = [until EXCEPT ![s] = e.time]
           /\ nThreadsServicingQueue' = count
           /\ UNCHANGED taskQueue
  <2>1. InLoop' = InLoop \cup {s} /\ pc' \in [Servers -> PCs]
    BY <1>6 DEF InLoop, ToWait, TypeOK, PCs
  <2>2. until' \in [Servers -> Nat]
    BY <1>6 DEF TypeOK, First
  <2>3. Sleeps(s)
    BY <1>6 DEF Sleeps, ToWait
  <2>4. QED
    BY <1>6, <2>1, <2>2, <2>3
<1>7. QED
  BY <1>4, <1>5, <1>6 DEF LoopOrThrow, LoopBody

-----------------------------------------------------------------------------
(***************************************************************************)
(* The inductive invariant.  FirstTaskAttended needs that nobody waits     *)
(* after an interruption: a thread that is thrown out notifies nobody.     *)
(* DrainLeavesNothing needs that the owner schedules nothing once it       *)
(* stopped, and that a thread which left did so with a reason.             *)
(***************************************************************************)
NobodyWaits == interrupted => Waiters(pc) = {}
OwnerFinished == Stopped => owner \in {"notify_all", "stopped"}
LeftWithReason ==
  (\E s \in Servers : pc[s] = "exited") /\ ~stopRequested /\ ~interrupted => stopWhenEmpty

Served == NobodyWaits /\ LeftWithReason /\ DrainLeavesNothing /\ FirstTaskAttended
SInv == TypeOK /\ ThreadsCounted /\ OwnerFinished /\ Served

\* A thread at the head of the loop.
LEMMA LoopServes ==
  ASSUME SInv, NEW s \in Servers, NEW STATE count, count \in Nat, LoopOrThrow(s, count),
         count = Cardinality(InLoop \cup {s}), UNCHANGED <<stopVars, owner>>
  PROVE  Served'
<1> DEFINE gone == [pc EXCEPT ![s] = "exited"]
<1>1. /\ Leaves(s) \/ Sleeps(s) \/ Thrown_(s)
      /\ taskQueue' = taskQueue
      /\ pc' \in [Servers -> PCs] /\ until' \in [Servers -> Nat]
  BY LoopStep DEF SInv
<1>2. gone \in [Servers -> PCs] /\ pc \in [Servers -> PCs] /\ until \in [Servers -> Nat]
  BY DEF SInv, TypeOK, PCs
<1>3. CASE Leaves(s)
  <2>1. /\ WakesOnly(gone)
        /\ Waiters(gone) = {} \/ \E t \in Servers : pc'[t] = "woken"
    BY <1>2, <1>3, NotifyOneWakes DEF Leaves
  <2>2. NobodyWaits'
    BY <1>2, <2>1 DEF NobodyWaits, Waiters, WakesOnly, stopVars, SInv, Served
  <2>3. LeftWithReason' /\ DrainLeavesNothing'
    BY <1>1, <1>3 DEF Leaves, ShouldStop, LeftWithReason, DrainLeavesNothing, stopVars
  <2>4. FirstTaskAttended'
    BY <1>1, <1>2, <2>1 DEF FirstTaskAttended, AllOut, InLoop, Attends, Waiters, WakesOnly, PCs
  <2>5. QED
    BY <2>2, <2>3, <2>4 DEF Served
<1>4. CASE Thrown_(s)
  <2>1. interrupted /\ pc' = gone /\ Waiters(pc) = {}
    BY <1>4 DEF Thrown_, SInv, Served, NobodyWaits
  <2>2. NobodyWaits' /\ LeftWithReason' /\ DrainLeavesNothing'
    BY <1>2, <2>1 DEF NobodyWaits, Waiters, LeftWithReason, DrainLeavesNothing, stopVars
  <2>3. FirstTaskAttended'
    BY <1>2, <2>1 DEF FirstTaskAttended, AllOut, InLoop, Attends, Waiters, PCs
  <2>4. QED
    BY <2>2, <2>3 DEF Served
<1>5. CASE Sleeps(s)
  <2>1. /\ ~ShouldStop /\ ~interrupted
        /\ pc' = [pc EXCEPT ![s] = IF taskQueue = {} THEN "wait" ELSE "timed"]
        /\ taskQueue = {} \/ \E e \in First : until' = [until EXCEPT ![s] = e.time]
    BY <1>5 DEF Sleeps
  <2>2. pc'[s] \in {"wait", "timed"} /\ \A t \in Servers \ {s} : pc'[t] = pc[t]
    BY <1>2, <2>1
  <2>3. NobodyWaits' /\ LeftWithReason'
    BY <2>1, <2>2 DEF NobodyWaits, LeftWithReason, stopVars, SInv, Served
  <2>4. DrainLeavesNothing'
    BY <2>2 DEF DrainLeavesNothing, AllOut, InLoop
  <2>5. FirstTaskAttended'
    <3>1. CASE taskQueue = {}
      BY <3>1, <1>1 DEF FirstTaskAttended
    <3>2. CASE taskQueue # {}
      <4>1. pc'[s] = "timed" /\ \E e \in First : until'[s] = e.time
        BY <3>2, <1>2, <2>1
      <4>2. Attends(s)'
        BY <1>1, <4>1 DEF Attends, First
      <4>3. QED
        BY <4>2 DEF FirstTaskAttended
    <3>3. QED
      BY <3>1, <3>2
  <2>6. QED
    BY <2>3, <2>4, <2>5 DEF Served
<1>6. QED
  BY <1>1, <1>3, <1>4, <1>5

-----------------------------------------------------------------------------
LEMMA InitHolds == Init => SInv
<1> SUFFICES ASSUME Init PROVE SInv
  OBVIOUS
<1>1. TypeOK
  <2>1. stopRequested \in BOOLEAN /\ stopWhenEmpty \in BOOLEAN /\ interrupted \in BOOLEAN
    BY Zenon DEF Init
  <2>2. QED
    BY <2>1 DEF Init, TypeOK, PCs
<1>2. InLoop = {} /\ ThreadsCounted
  BY FS_EmptySet DEF Init, InLoop, ThreadsCounted
<1>3. QED
  BY <1>1, <1>2 DEF Init, SInv, OwnerFinished, Stopped, Served, NobodyWaits, LeftWithReason,
    DrainLeavesNothing, FirstTaskAttended

\* A thread that comes to the head of the loop, from outside or from within.
LEMMA LoopKeeps ==
  ASSUME SInv, NEW s \in Servers, NEW STATE count, count \in Nat, LoopOrThrow(s, count),
         \/ pc[s] = "idle" /\ count = nThreadsServicingQueue + 1
         \/ pc[s] \notin {"idle", "exited"} /\ count = nThreadsServicingQueue,
         UNCHANGED <<now, nextTask, stopVars, owner>>
  PROVE  SInv'
<1>1. InLoop \in SUBSET Servers /\ (s \in InLoop <=> pc[s] \notin {"idle", "exited"})
  BY DEF InLoop
<1>2. count = Cardinality(InLoop \cup {s})
  BY <1>1, OneOut DEF SInv, ThreadsCounted
<1>3. TypeOK
  BY DEF SInv
<1>4. /\ taskQueue' = taskQueue
      /\ pc' \in [Servers -> PCs] /\ until' \in [Servers -> Nat]
      /\ nThreadsServicingQueue' \in Nat
      /\ nThreadsServicingQueue' = Cardinality(InLoop')
  BY <1>2, <1>3, LoopStep
<1>5. TypeOK'
  BY <1>3, <1>4 DEF TypeOK, stopVars
<1>6. OwnerFinished'
  BY DEF SInv, OwnerFinished, Stopped, stopVars
<1>7. Served'
  BY <1>2, LoopServes
<1>8. QED
  BY <1>4, <1>5, <1>6, <1>7 DEF SInv, ThreadsCounted

\* A step that notifies, and otherwise moves at most thread s within the loop.
LEMMA NotifyKeeps ==
  ASSUME SInv, NEW STATE where, where \in [Servers -> PCs], Inside(where) = InLoop,
         \A t \in Servers : where[t] = pc[t] \/ (pc[t] \in {"run", "notify"} /\ where[t] \in {"run", "notify"}),
         NotifyOne(where) \/ NotifyAll(where),
         UNCHANGED <<now, taskQueue, nextTask, nThreadsServicingQueue, stopVars, until>>,
         owner' = owner \/ (owner = "notify" /\ owner' = "active") \/ (owner = "notify_all" /\ owner' = "stopped")
  PROVE  SInv'
<1>1. WakesOnly(where) /\ (Waiters(where) = {} \/ \E t \in Servers : pc'[t] = "woken")
  BY NotifyOneWakes, NotifyAllWakes DEF NotifyAll, Waiters
<1>2. InLoop' = InLoop
  BY <1>1, WakingKeepsInside
<1>3. TypeOK'
  BY <1>1 DEF SInv, TypeOK, WakesOnly, stopVars
<1>4. OwnerFinished'
  BY DEF SInv, OwnerFinished, Stopped, stopVars
<1>5. NobodyWaits'
  BY <1>1 DEF SInv, Served, NobodyWaits, Waiters, WakesOnly, stopVars
<1>6. \A t \in Servers : pc'[t] = "exited" <=> pc[t] = "exited"
  BY <1>1 DEF WakesOnly
<1>7. LeftWithReason' /\ DrainLeavesNothing'
  BY <1>2, <1>6 DEF SInv, Served, LeftWithReason, DrainLeavesNothing, AllOut, stopVars
<1>8. FirstTaskAttended'
  BY <1>1 DEF SInv, TypeOK, FirstTaskAttended, AllOut, InLoop, Attends, Waiters, WakesOnly, PCs
<1>9. QED
  BY <1>2, <1>3, <1>4, <1>5, <1>7, <1>8 DEF SInv, ThreadsCounted, Served

\* A task goes in, and its notification is still to come.
LEMMA InsertKeeps ==
  ASSUME SInv, NEW delay \in 0 .. MaxDelay, Insert(delay), interrupted' = interrupted,
         \/ owner = "active" /\ owner' = "notify" /\ pc' = pc
         \/ \E s \in Servers : pc[s] = "run" /\ pc' = [pc EXCEPT ![s] = "notify"] /\ UNCHANGED owner
  PROVE  SInv'
<1>1. /\ now \in Nat /\ nextTask \in Nat /\ delay \in Nat /\ pc \in [Servers -> PCs]
      /\ taskQueue \subseteq [task : Nat, time : Nat]
  BY SchedulerAssumption DEF SInv, TypeOK, SchedulerAssumption
<1>2. UNCHANGED <<now, nThreadsServicingQueue, stopVars, until>> /\ nextTask' = nextTask + 1
  BY DEF Insert
<1>3. taskQueue' \subseteq [task : Nat, time : Nat]
  BY <1>1 DEF Insert
<1>4. pc' \in [Servers -> PCs] /\ InLoop' = InLoop
  BY <1>1 DEF InLoop, PCs
<1>5. /\ \A t \in Servers : pc'[t] = "exited" <=> pc[t] = "exited"
      /\ Waiters(pc)' \subseteq Waiters(pc)
  BY <1>1 DEF Waiters
<1>6. owner' \in {"active", "notify", "notify_all", "stopped"}
  BY DEF SInv, TypeOK
<1>7. TypeOK'
  BY <1>1, <1>2, <1>3, <1>4, <1>6 DEF SInv, TypeOK, stopVars
<1>8. OwnerFinished'
  BY <1>2 DEF SInv, OwnerFinished, Stopped, stopVars
<1>9. NobodyWaits' /\ LeftWithReason'
  BY <1>2, <1>5 DEF SInv, Served, NobodyWaits, LeftWithReason, stopVars
<1>10. DrainLeavesNothing'
  <2>1. CASE owner = "active" /\ owner' = "notify"
    BY <1>2, <1>9, <2>1, <1>8 DEF DrainLeavesNothing, LeftWithReason, OwnerFinished, Stopped
  <2>2. CASE \E s \in Servers : pc[s] = "run" /\ pc' = [pc EXCEPT ![s] = "notify"]
    BY <1>1, <2>2 DEF DrainLeavesNothing, AllOut, InLoop
  <2>3. QED
    BY <2>1, <2>2
<1>11. FirstTaskAttended'
  BY <1>1 DEF FirstTaskAttended, Attends
<1>12. QED
  BY <1>2, <1>4, <1>7, <1>8, <1>9, <1>10, <1>11 DEF SInv, ThreadsCounted, Served, stopVars

LEMMA ServerKeeps ==
  ASSUME SInv, NEW s \in Servers, ServerStep(s) \/ SpuriousWake(s)
  PROVE  SInv'
<1> USE DEF stopVars
<1>1. pc \in [Servers -> PCs] /\ nThreadsServicingQueue \in Nat
  BY DEF SInv, TypeOK
<1>2. CASE Enter(s)
  BY <1>1, <1>2, LoopKeeps DEF Enter, LoopOrThrow
<1>3. CASE Resume(s)
  BY <1>1, <1>3, LoopKeeps DEF Resume, LoopOrThrow
<1>4. CASE Return(s)
  BY <1>1, <1>4, LoopKeeps DEF Return, LoopOrThrow
<1>5. CASE Relock(s)
  <2>1. CASE LoopOrThrow(s, nThreadsServicingQueue)
    BY <1>1, <1>5, <2>1, LoopKeeps DEF Relock
  <2>2. CASE Take(s)
    <3>1. /\ pc[s] = "expired" /\ pc' = [pc EXCEPT ![s] = "run"] /\ taskQueue' \subseteq taskQueue
          /\ UNCHANGED <<now, nextTask, nThreadsServicingQueue, stopVars, owner, until>>
      BY <1>5, <2>2 DEF Relock, Take
    <3>2. pc' \in [Servers -> PCs] /\ InLoop' = InLoop /\ pc'[s] = "run"
      BY <1>1, <3>1 DEF InLoop, PCs
    <3>3. TypeOK'
      BY <3>1, <3>2 DEF SInv, TypeOK
    <3>4. NobodyWaits' /\ LeftWithReason'
      BY <1>1, <3>1 DEF SInv, Served, NobodyWaits, LeftWithReason, Waiters
    <3>5. DrainLeavesNothing' /\ FirstTaskAttended'
      BY <3>2 DEF DrainLeavesNothing, FirstTaskAttended, AllOut, InLoop, Attends
    <3>6. QED
      BY <3>1, <3>2, <3>3, <3>4, <3>5 DEF SInv, Served, ThreadsCounted, OwnerFinished, Stopped
  <2>3. QED
    BY <1>5, <2>1, <2>2 DEF Relock, LoopOrThrow
<1>6. CASE Expire(s)
  <2>1. /\ pc[s] = "timed" /\ pc' = [pc EXCEPT ![s] = "expired"]
        /\ UNCHANGED <<now, taskQueue, nextTask, nThreadsServicingQueue, stopVars, owner, until>>
    BY <1>6 DEF Expire
  <2>2. pc' \in [Servers -> PCs] /\ InLoop' = InLoop /\ pc'[s] = "expired"
    BY <1>1, <2>1 DEF InLoop, PCs
  <2>3. TypeOK'
    BY <2>1, <2>2 DEF SInv, TypeOK
  <2>4. NobodyWaits' /\ LeftWithReason'
    BY <1>1, <2>1 DEF SInv, Served, NobodyWaits, LeftWithReason, Waiters
  <2>5. DrainLeavesNothing' /\ FirstTaskAttended'
    BY <2>2 DEF DrainLeavesNothing, FirstTaskAttended, AllOut, InLoop, Attends
  <2>6. QED
    BY <2>1, <2>2, <2>3, <2>4, <2>5 DEF SInv, Served, ThreadsCounted, OwnerFinished, Stopped
<1>7. CASE NotifyFromTask(s)
  <2> DEFINE where == [pc EXCEPT ![s] = "run"]
  <2>1. where \in [Servers -> PCs] /\ Inside(where) = InLoop
    BY <1>1, <1>7 DEF NotifyFromTask, Inside, InLoop, PCs
  <2>2. \A t \in Servers : where[t] = pc[t] \/ (pc[t] \in {"run", "notify"} /\ where[t] \in {"run", "notify"})
    BY <1>1, <1>7 DEF NotifyFromTask
  <2>3. /\ NotifyOne(where)
        /\ UNCHANGED <<now, taskQueue, nextTask, nThreadsServicingQueue, stopVars, owner, until>>
    BY <1>7 DEF NotifyFromTask
  <2> HIDE DEF where
  <2>4. QED
    BY <2>1, <2>2, <2>3, NotifyKeeps
<1>8. CASE SpuriousWake(s)
  <2>1. /\ pc[s] \in {"wait", "timed"} /\ pc' = [pc EXCEPT ![s] = "woken"]
        /\ UNCHANGED <<now, taskQueue, nextTask, nThreadsServicingQueue, stopVars, owner, until>>
    BY <1>8 DEF SpuriousWake, Waiters
  <2>2. pc' \in [Servers -> PCs] /\ InLoop' = InLoop /\ pc'[s] = "woken"
    BY <1>1, <2>1 DEF InLoop, PCs
  <2>3. TypeOK'
    BY <2>1, <2>2 DEF SInv, TypeOK
  <2>4. NobodyWaits' /\ LeftWithReason'
    BY <1>1, <2>1 DEF SInv, Served, NobodyWaits, LeftWithReason, Waiters
  <2>5. DrainLeavesNothing' /\ FirstTaskAttended'
    BY <2>2 DEF DrainLeavesNothing, FirstTaskAttended, AllOut, InLoop, Attends
  <2>6. QED
    BY <2>1, <2>2, <2>3, <2>4, <2>5 DEF SInv, Served, ThreadsCounted, OwnerFinished, Stopped
<1>9. QED
  BY <1>2, <1>3, <1>4, <1>5, <1>6, <1>7, <1>8 DEF ServerStep

LEMMA OwnerKeeps ==
  ASSUME SInv, OwnerNotifies \/ Interrupt \/ Tick \/ \E drain \in BOOLEAN : Stop(drain)
  PROVE  SInv'
<1> USE DEF stopVars
<1>1. pc \in [Servers -> PCs]
  BY DEF SInv, TypeOK
<1>2. CASE OwnerNotifies
  <2>1. NotifyOne(pc) \/ NotifyAll(pc)
    BY <1>2 DEF OwnerNotifies, Announced, AllWoken
  <2>2. /\ UNCHANGED <<now, taskQueue, nextTask, nThreadsServicingQueue, stopVars, until>>
        /\ (owner = "notify" /\ owner' = "active") \/ (owner = "notify_all" /\ owner' = "stopped")
    BY <1>2 DEF OwnerNotifies
  <2>3. QED
    BY <1>1, <2>1, <2>2, InLoopIsInside, NotifyKeeps
<1>3. CASE Interrupt
  <2>1. WakesOnly(pc) /\ \A t \in Servers : pc'[t] \notin {"wait", "timed"}
    BY <1>1, <1>3, NotifyAllWakes DEF Interrupt
  <2>2. InLoop' = InLoop
    BY <2>1, WakingKeepsInside, InLoopIsInside
  <2>3. interrupted' = TRUE /\ owner' = "stopped"
        /\ UNCHANGED <<now, taskQueue, nextTask, nThreadsServicingQueue, stopRequested, stopWhenEmpty, until>>
    BY <1>3 DEF Interrupt
  <2>4. interrupted' \in BOOLEAN
    BY <2>3, Zenon
  <2>5. TypeOK'
    BY <2>1, <2>3, <2>4 DEF SInv, TypeOK, WakesOnly
  <2>6. NobodyWaits' /\ LeftWithReason' /\ DrainLeavesNothing'
    BY <2>1, <2>3 DEF NobodyWaits, Waiters, LeftWithReason, DrainLeavesNothing
  <2>7. FirstTaskAttended'
    BY <1>1, <2>1 DEF FirstTaskAttended, AllOut, InLoop, Attends, WakesOnly, PCs
  <2>8. QED
    BY <2>2, <2>3, <2>5, <2>6, <2>7 DEF SInv, Served, ThreadsCounted, OwnerFinished
<1>4. CASE Tick
  <2>1. TypeOK' /\ UNCHANGED <<taskQueue, nextTask, nThreadsServicingQueue, stopVars, owner, pc, until>>
    BY <1>4 DEF Tick, SInv, TypeOK
  <2>2. QED
    BY <2>1 DEF SInv, Served, ThreadsCounted, InLoop, OwnerFinished, Stopped, NobodyWaits, Waiters,
      LeftWithReason, DrainLeavesNothing, AllOut, FirstTaskAttended, Attends, First
<1>5. ASSUME NEW drain \in BOOLEAN, Stop(drain) PROVE SInv'
  <2>1. /\ stopRequested' = (stopRequested \/ ~drain) /\ stopWhenEmpty' = (stopWhenEmpty \/ drain)
        /\ owner = "active" /\ owner' = "notify_all"
        /\ UNCHANGED <<now, taskQueue, nextTask, nThreadsServicingQueue, interrupted, pc, until>>
    BY <1>5 DEF Stop
  <2>2. stopRequested' \in BOOLEAN /\ stopWhenEmpty' \in BOOLEAN
    BY <2>1, Zenon
  <2>3. TypeOK'
    BY <2>1, <2>2 DEF SInv, TypeOK
  <2>4. LeftWithReason' /\ DrainLeavesNothing'
    BY <2>1 DEF SInv, Served, LeftWithReason, DrainLeavesNothing, OwnerFinished, Stopped, AllOut, InLoop
  <2>5. QED
    BY <2>1, <2>3, <2>4 DEF SInv, Served, ThreadsCounted, InLoop, OwnerFinished, NobodyWaits, Waiters,
      FirstTaskAttended
<1>6. QED
  BY <1>2, <1>3, <1>4, <1>5

LEMMA StepKeeps == SInv /\ [Next]_vars => SInv'
<1> SUFFICES ASSUME SInv, [Next]_vars PROVE SInv'
  OBVIOUS
<1>1. CASE UNCHANGED vars
  BY <1>1 DEF vars, stopVars, SInv, Served, TypeOK, ThreadsCounted, InLoop, OwnerFinished, Stopped,
    NobodyWaits, Waiters, LeftWithReason, DrainLeavesNothing, AllOut, FirstTaskAttended, Attends, First
<1>2. ASSUME NEW s \in Servers, ServerStep(s) \/ SpuriousWake(s) PROVE SInv'
  BY <1>2, ServerKeeps
<1>3. ASSUME NEW delay \in 0 .. MaxDelay, Schedule(delay) PROVE SInv'
  BY <1>3, InsertKeeps DEF Schedule, Insert, stopVars
<1>4. ASSUME NEW delay \in 0 .. MaxDelay, NEW s \in Servers, ScheduleFromTask(s, delay) PROVE SInv'
  BY <1>4, InsertKeeps DEF ScheduleFromTask, Insert, stopVars
<1>5. ASSUME OwnerNotifies \/ Interrupt \/ Tick \/ \E drain \in BOOLEAN : Stop(drain) PROVE SInv'
  BY <1>5, OwnerKeeps
<1>6. QED
  BY <1>1, <1>2, <1>3, <1>4, <1>5 DEF Next

\* The inductive invariant, for any number of threads, tasks and any delays.
THEOREM ServiceInvariant == Spec => []SInv
<1>1. QED
  BY InitHolds, StepKeeps, PTL DEF Spec

\* nThreadsServicingQueue counts the threads inside, however they leave: the
\* assertion of the destructor (scheduler.cpp:21) holds once they are gone.
THEOREM ThreadsAlwaysCounted == Spec => [](TypeOK /\ ThreadsCounted)
<1>1. SInv => TypeOK /\ ThreadsCounted
  BY DEF SInv
<1>2. QED
  BY <1>1, ServiceInvariant, PTL

\* notify_one never loses the first task (scheduler.cpp:82, 100).
THEOREM FirstTaskAlwaysAttended == Spec => []FirstTaskAttended
<1>1. SInv => FirstTaskAttended
  BY DEF SInv, Served
<1>2. QED
  BY <1>1, ServiceInvariant, PTL

\* stop(true) ends with an empty queue (scheduler.h:61).
THEOREM DrainAlwaysLeavesNothing == Spec => []DrainLeavesNothing
<1>1. SInv => DrainLeavesNothing
  BY DEF SInv, Served
<1>2. QED
  BY <1>1, ServiceInvariant, PTL

-----------------------------------------------------------------------------
(***************************************************************************)
(* With one thread nobody else takes a task while it waits, so that the    *)
(* task it waited for, or an earlier one, is still there.                  *)
(***************************************************************************)
WaitedFor ==
  \A s \in Servers :
    /\ pc[s] \in {"timed", "expired"} => \E e \in taskQueue : e.time <= until[s]
    /\ pc[s] = "expired" => until[s] <= now

OneThread == \A s, t \in Servers : s = t

LEMMA WaitedForKept ==
  ASSUME OneThread, SInv, WaitedFor, [Next]_vars
  PROVE  WaitedFor' /\ (\A e \in taskQueue \ taskQueue' : e.time <= now)
<1> USE DEF stopVars
<1>1. /\ pc \in [Servers -> PCs] /\ until \in [Servers -> Nat] /\ now \in Nat
      /\ taskQueue \subseteq [task : Nat, time : Nat]
  BY DEF SInv, TypeOK
<1>2. SInv'
  BY StepKeeps
<1>3. ASSUME NEW s \in Servers, NEW STATE count, count \in Nat, LoopOrThrow(s, count),
             count = Cardinality(InLoop \cup {s}), now' = now
      PROVE  WaitedFor' /\ taskQueue' = taskQueue
  <2>1. (Leaves(s) \/ Sleeps(s) \/ Thrown_(s)) /\ taskQueue' = taskQueue
    BY <1>3, LoopStep DEF SInv
  <2>2. pc'[s] \in {"exited", "wait"} \/ (pc'[s] = "timed" /\ \E e \in First : until'[s] = e.time)
    <3>1. CASE Leaves(s)
      <4> DEFINE gone == [pc EXCEPT ![s] = "exited"]
      <4>1. NotifyOne(gone) /\ gone \in [Servers -> PCs] /\ gone[s] = "exited"
        BY <1>1, <3>1 DEF Leaves
      <4>2. WakesOnly(gone)
        BY <4>1, NotifyOneWakes
      <4>3. QED
        BY <4>1, <4>2 DEF WakesOnly
    <3>2. CASE Sleeps(s)
      BY <1>1, <3>2 DEF Sleeps
    <3>3. CASE Thrown_(s)
      BY <1>1, <3>3 DEF Thrown_
    <3>4. QED
      BY <2>1, <3>1, <3>2, <3>3
  <2>3. WaitedFor'
    BY <1>1, <2>1, <2>2 DEF WaitedFor, OneThread, First
  <2>4. QED
    BY <2>1, <2>3
<1>4. ASSUME NEW s \in Servers, NEW STATE count, count \in Nat, LoopOrThrow(s, count), now' = now,
             \/ pc[s] = "idle" /\ count = nThreadsServicingQueue + 1
             \/ pc[s] \notin {"idle", "exited"} /\ count = nThreadsServicingQueue
      PROVE  WaitedFor' /\ taskQueue' = taskQueue
  <2>1. InLoop \in SUBSET Servers /\ (s \in InLoop <=> pc[s] \notin {"idle", "exited"})
    BY DEF InLoop
  <2>2. count = Cardinality(InLoop \cup {s})
    BY <1>4, <2>1, OneOut DEF SInv, ThreadsCounted
  <2>3. QED
    BY <1>3, <1>4, <2>2
<1>5. ASSUME NEW s \in Servers, ServerStep(s) \/ SpuriousWake(s)
      PROVE  WaitedFor' /\ (\A e \in taskQueue \ taskQueue' : e.time <= now)
  <2>1. nThreadsServicingQueue \in Nat
    BY DEF SInv, TypeOK
  <2>2. CASE Enter(s) \/ Resume(s) \/ Return(s) \/ (Relock(s) /\ LoopOrThrow(s, nThreadsServicingQueue))
    <3>1. \E count \in {nThreadsServicingQueue, nThreadsServicingQueue + 1} :
            /\ LoopOrThrow(s, count)
            /\ \/ pc[s] = "idle" /\ count = nThreadsServicingQueue + 1
               \/ pc[s] \notin {"idle", "exited"} /\ count = nThreadsServicingQueue
      BY <2>2 DEF Enter, Resume, Return, Relock, LoopOrThrow
    <3>2. now' = now
      BY <2>2 DEF Enter, Resume, Return, Relock
    <3>3. QED
      BY <1>4, <2>1, <3>1, <3>2
  <2>3. CASE Relock(s) /\ Take(s)
    <3>1. \E e \in taskQueue : e.time <= now
      BY <1>1, <2>3 DEF Relock, WaitedFor
    <3>2. \A e \in First : e.time <= now
      BY <1>1, <3>1 DEF First
    <3>3. QED
      BY <1>1, <2>3, <3>2 DEF Relock, Take, WaitedFor, OneThread
  <2>4. CASE Expire(s)
    BY <1>1, <2>4 DEF Expire, WaitedFor
  <2>5. CASE NotifyFromTask(s)
    <3> DEFINE where == [pc EXCEPT ![s] = "run"]
    <3>1. where \in [Servers -> PCs] /\ NotifyOne(where) /\ where[s] = "run" /\ taskQueue' = taskQueue
      BY <1>1, <2>5 DEF NotifyFromTask, PCs
    <3>2. WakesOnly(where)
      BY <3>1, NotifyOneWakes
    <3>3. QED
      BY <3>1, <3>2 DEF WakesOnly, WaitedFor, OneThread
  <2>6. CASE SpuriousWake(s)
    BY <1>1, <2>6 DEF SpuriousWake, WaitedFor, OneThread
  <2>7. QED
    BY <1>5, <2>2, <2>3, <2>4, <2>5, <2>6 DEF ServerStep, Relock, LoopOrThrow
<1>6. ASSUME NEW delay \in 0 .. MaxDelay, Schedule(delay) \/ \E s \in Servers : ScheduleFromTask(s, delay)
      PROVE  WaitedFor' /\ taskQueue \subseteq taskQueue'
  <2>1. taskQueue \subseteq taskQueue' /\ UNCHANGED <<now, until>>
    BY <1>6 DEF Schedule, ScheduleFromTask, Insert
  <2>2. \A s \in Servers : pc'[s] = pc[s] \/ pc'[s] = "notify"
    BY <1>1, <1>6 DEF Schedule, ScheduleFromTask
  <2>3. QED
    BY <2>1, <2>2 DEF WaitedFor
<1>7. ASSUME OwnerNotifies \/ Interrupt \/ Tick \/ (\E drain \in BOOLEAN : Stop(drain)) \/ UNCHANGED vars
      PROVE  WaitedFor' /\ taskQueue' = taskQueue
  <2>1. UNCHANGED <<taskQueue, until>> /\ now' \in Nat /\ now <= now'
    BY <1>1, <1>7 DEF OwnerNotifies, Interrupt, Tick, Stop, vars
  <2>2. pc' = pc \/ WakesOnly(pc)
    BY <1>1, <1>7, NotifyOneWakes, NotifyAllWakes
    DEF OwnerNotifies, Announced, AllWoken, Interrupt, Tick, Stop, vars
  <2>3. \A s \in Servers : pc'[s] = pc[s] \/ pc'[s] = "woken"
    BY <2>2 DEF WakesOnly
  <2>4. QED
    BY <1>1, <2>1, <2>3 DEF WaitedFor
<1>8. QED
  BY <1>5, <1>6, <1>7 DEF Next

(***************************************************************************)
(* "Call func at/after time t" (scheduler.h:42) holds for the one thread   *)
(* init.cpp starts.                                                        *)
(***************************************************************************)
THEOREM OneThreadNeverEarly ==
  ASSUME OneThread
  PROVE  Spec => NeverEarly
<1>1. Init => WaitedFor
  BY DEF Init, WaitedFor
<1>2. SInv /\ WaitedFor /\ [Next]_vars => WaitedFor'
  BY WaitedForKept
<1>3. SInv /\ WaitedFor /\ [Next]_vars => [\A e \in taskQueue \ taskQueue' : e.time <= now]_vars
  BY WaitedForKept
<1>4. QED
  BY <1>1, <1>2, <1>3, ServiceInvariant, PTL DEF Spec, NeverEarly

=============================================================================
