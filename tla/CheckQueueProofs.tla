-------------------------- MODULE CheckQueueProofs --------------------------
(***************************************************************************)
(* For any number of workers, any finite set of checks and any batch size: *)
(* the counters of CCheckQueue are exact, the control's assertion holds,   *)
(* and the pool implements VerdictService.                                 *)
(*                                                                         *)
(* The heart is LoopStep: whatever a thread does at the head of Loop, it   *)
(* does to an intermediate state (its old batch accounted for, itself      *)
(* counted as busy), and that state satisfies MidState.                    *)
(***************************************************************************)
EXTENDS CheckQueue, FiniteSetTheorems, TLAPS

\* A finite pool: the facts about cardinalities used below.
LEMMA CheckFinite ==
  ASSUME NEW S \in SUBSET Check
  PROVE  IsFiniteSet(S) /\ Cardinality(S) \in Nat
  BY CQAssumption, FS_Subset, FS_CardinalityType DEF CQAssumption

LEMMA ThreadsFinite ==
  ASSUME NEW S \in SUBSET Threads
  PROVE  IsFiniteSet(S) /\ Cardinality(S) \in Nat
<1>1. IsFiniteSet(Threads)
  BY CQAssumption, FS_AddElement DEF CQAssumption, Threads
<1>2. QED
  BY <1>1, FS_Subset, FS_CardinalityType

LEMMA Disjoint ==
  ASSUME NEW S \in SUBSET Check, NEW T \in SUBSET Check, S \cap T = {}
  PROVE  Cardinality(S \cup T) = Cardinality(S) + Cardinality(T)
<1>1. Cardinality(S \cup T) = Cardinality(S) + Cardinality(T) - Cardinality(S \cap T)
  BY CheckFinite, FS_Union
<1>2. Cardinality(S \cap T) = 0
  BY FS_EmptySet
<1>3. QED
  BY <1>1, <1>2, CheckFinite

\* A non-empty batch is taken: nNow is at least one.
LEMMA BatchPositive ==
  ASSUME NEW size \in Nat, NEW total \in Nat, NEW idle \in Nat
  PROVE  BatchFor(size, total, idle) \in Nat \ {0}
  BY CQAssumption DEF CQAssumption, BatchFor

LEMMA OutstandingType == TypeOK => Outstanding \in SUBSET Check
  BY DEF TypeOK, Outstanding

-----------------------------------------------------------------------------
(***************************************************************************)
(* The state in which thread t finds itself at the head of the loop: its   *)
(* batch is accounted for, and it is counted but not idle.                 *)
(***************************************************************************)
Left(t) == Outstanding \ vChecks[t]

MidState(t, total, idle, allOk, todo, pc0) ==
  /\ t \in Threads
  /\ pc[t] \in {"enter", "top", "woken"}
  /\ total \in Nat /\ idle \in Nat /\ allOk \in BOOLEAN
  /\ todo = Cardinality(Left(t))
  /\ total - idle = Cardinality(Busy \ {t}) + 1
  /\ idle = Cardinality(Asleep \ {t}) + Cardinality(interrupted)
  /\ pc0 \in [Threads -> PCs]
  /\ pc0[t] = pc[t]
  /\ \A u \in Threads : pc0[u] = pc[u] \/ (pc[u] = "wait" /\ pc0[u] = "woken")
  /\ pc[Master] # "out" =>
       /\ ~allOk => added \cap bad # {}
       /\ allOk => added \cap bad \subseteq Left(t)
  /\ pc[Master] = "out" => todo = 0 /\ allOk

\* The batch a thread has left the queue with is not accounted for twice.
LEMMA LeftIs ==
  ASSUME IInv, NEW t \in Threads
  PROVE  /\ Left(t) = queue \cup UNION {vChecks[u] : u \in Threads \ {t}}
         /\ Left(t) \in SUBSET Check
         /\ queue \subseteq Left(t)
         /\ Cardinality(Left(t)) = nTodo - Cardinality(vChecks[t])
<1>1. Left(t) = queue \cup UNION {vChecks[u] : u \in Threads \ {t}}
  BY DEF IInv, BatchesDisjoint, Left, Outstanding
<1>2. Left(t) \in SUBSET Check /\ queue \subseteq Left(t)
  BY <1>1 DEF IInv, TypeOK
<1>3. vChecks[t] \in SUBSET Check
  BY DEF IInv, TypeOK
<1>4. Outstanding = Left(t) \cup vChecks[t] /\ Left(t) \cap vChecks[t] = {}
  BY DEF Left, Outstanding
<1>5. Cardinality(Outstanding) = Cardinality(Left(t)) + Cardinality(vChecks[t])
  BY <1>2, <1>3, <1>4, Disjoint
<1>6. QED
  BY <1>1, <1>2, <1>3, <1>5, CheckFinite DEF IInv, CountersExact

\* Busy with t removed, and with t added.
LEMMA BusyCount ==
  ASSUME NEW t \in Threads
  PROVE  /\ Cardinality(Busy \ {t}) \in Nat
         /\ t \notin Busy => Busy \ {t} = Busy
         /\ t \in Busy => Cardinality(Busy) = Cardinality(Busy \ {t}) + 1
         /\ Cardinality((Busy \ {t}) \cup {t}) = Cardinality(Busy \ {t}) + 1
<1>1. IsFiniteSet(Busy) /\ IsFiniteSet(Busy \ {t}) /\ Cardinality(Busy \ {t}) \in Nat
      /\ Cardinality(Busy) \in Nat
  BY ThreadsFinite DEF Busy
<1>2. Cardinality(Busy \ {t}) = IF t \in Busy THEN Cardinality(Busy) - 1 ELSE Cardinality(Busy)
  BY <1>1, FS_RemoveElement
<1>3. Cardinality((Busy \ {t}) \cup {t}) = Cardinality(Busy \ {t}) + 1
  BY <1>1, FS_AddElement
<1>4. QED
  BY <1>1, <1>2, <1>3

\* The same for Asleep.
LEMMA AsleepCount ==
  ASSUME NEW t \in Threads
  PROVE  /\ Cardinality(Asleep) \in Nat
         /\ Cardinality(Asleep \ {t}) \in Nat
         /\ t \notin Asleep => Asleep \ {t} = Asleep
         /\ t \in Asleep => Cardinality(Asleep) = Cardinality(Asleep \ {t}) + 1
         /\ Cardinality((Asleep \ {t}) \cup {t}) = Cardinality(Asleep \ {t}) + 1
<1>1. IsFiniteSet(Asleep) /\ IsFiniteSet(Asleep \ {t})
      /\ Cardinality(Asleep \ {t}) \in Nat /\ Cardinality(Asleep) \in Nat
  BY ThreadsFinite DEF Asleep
<1>2. Cardinality(Asleep \ {t}) =
        IF t \in Asleep THEN Cardinality(Asleep) - 1 ELSE Cardinality(Asleep)
  BY <1>1, FS_RemoveElement
<1>3. Cardinality((Asleep \ {t}) \cup {t}) = Cardinality(Asleep \ {t}) + 1
  BY <1>1, FS_AddElement
<1>4. QED
  BY <1>1, <1>2, <1>3

\* Whatever a thread does at the head of the loop preserves the invariant.
LEMMA LoopStep ==
  ASSUME IInv, NEW t, NEW total, NEW idle, NEW allOk, NEW todo, NEW pc0,
         MidState(t, total, idle, allOk, todo, pc0),
         LoopBody(t, total, idle, allOk, todo, pc0)
  PROVE  IInv'
<1> USE DEF MidState
<1>0. /\ Left(t) = queue \cup UNION {vChecks[u] : u \in Threads \ {t}}
      /\ Left(t) \in SUBSET Check
      /\ queue \subseteq Left(t)
  BY LeftIs
<1>1. todo \in Nat
  BY <1>0, CheckFinite
<1>2. /\ Cardinality(Busy \ {t}) \in Nat
      /\ Cardinality((Busy \ {t}) \cup {t}) = Cardinality(Busy \ {t}) + 1
  BY BusyCount
<1>3. \A u \in Threads : /\ pc0[u] \in {"run", "top"} <=> pc[u] \in {"run", "top"}
                         /\ pc0[u] \in {"wait", "woken"} <=> pc[u] \in {"wait", "woken"}
  OBVIOUS
<1>9. /\ Cardinality(Asleep \ {t}) \in Nat
      /\ Cardinality((Asleep \ {t}) \cup {t}) = Cardinality(Asleep \ {t}) + 1
      /\ Cardinality(interrupted) \in Nat
  BY AsleepCount, ThreadsFinite DEF IInv, TypeOK
<1>4. Master \in Threads
  BY DEF Threads
<1>5. CASE Take(t, total, idle, allOk, pc0)
  <2>1. PICK S \in SUBSET queue :
          /\ Cardinality(S) = BatchFor(Cardinality(queue), total, idle)
          /\ queue' = queue \ S
          /\ vChecks' = [vChecks EXCEPT ![t] = S]
    BY <1>5 DEF Take
  <2>2. /\ pc' = [pc0 EXCEPT ![t] = "run"]
        /\ fOk' = [fOk EXCEPT ![t] = allOk]
        /\ nTotal' = total /\ nIdle' = idle /\ fAllOk' = allOk /\ nTodo' = todo
        /\ UNCHANGED <<added, bad, verdict, sessions, interrupted>>
    BY <1>5 DEF Take, LoopBody
  <2>3. S \in SUBSET Check /\ queue \in SUBSET Check /\ S # {}
    <3>1. queue \in SUBSET Check /\ Cardinality(queue) \in Nat
      BY CheckFinite DEF IInv, TypeOK
    <3>2. Cardinality(S) # 0
      BY <2>1, <3>1, BatchPositive
    <3>3. QED
      BY <3>1, <3>2, FS_EmptySet
  <2>4. TypeOK'
    BY <1>1, <2>1, <2>2, <2>3 DEF IInv, TypeOK, PCs
  <2>5. Outstanding' = Left(t)
    <3>1. vChecks'[t] = S /\ \A u \in Threads \ {t} : vChecks'[u] = vChecks[u]
      BY <2>1 DEF IInv, TypeOK
    <3>2. UNION {vChecks'[u] : u \in Threads} =
            S \cup UNION {vChecks[u] : u \in Threads \ {t}}
      BY <3>1
    <3>3. QED
      BY <1>0, <2>1, <3>2 DEF Outstanding
  <2>6. Busy' = (Busy \ {t}) \cup {t} /\ Asleep' = Asleep \ {t}
    BY <1>3, <2>2 DEF Busy, Asleep, IInv, TypeOK, PCs
  <2>7. CountersExact'
    BY <1>2, <1>9, <2>2, <2>5, <2>6 DEF CountersExact
  <2>8. BatchesDisjoint'
    BY <2>1 DEF BatchesDisjoint, IInv, TypeOK
  <2>9. BatchesOwned'
    BY <1>3, <2>1, <2>2, <2>3 DEF BatchesOwned, IInv, TypeOK, PCs
  <2>10. pc[Master] # "out" /\ pc'[Master] # "out"
    <3>1. Left(t) # {}
      BY <1>0, <2>1, <2>3
    <3>2. todo # 0
      BY <1>0, <3>1, CheckFinite, FS_EmptySet
    <3>3. QED
      BY <1>4, <2>2, <3>2
  <2>11. FailuresRecorded'
    <3>1. Left(t) \subseteq added
      BY DEF IInv, FailuresRecorded, Left
    <3>2. \A u \in Threads : pc'[u] = "top" => u # t /\ pc[u] = "top" /\ fOk'[u] = fOk[u]
                                             /\ vChecks'[u] = vChecks[u]
      BY <2>1, <2>2 DEF IInv, TypeOK, PCs
    <3>3. \A u \in Threads : pc'[u] \in {"run", "top"} /\ ~fOk'[u] => added \cap bad # {}
      <4> SUFFICES ASSUME NEW u \in Threads, pc'[u] \in {"run", "top"}, ~fOk'[u]
                   PROVE  added \cap bad # {}
        OBVIOUS
      <4>1. CASE u = t
        BY <2>2, <2>10, <4>1 DEF IInv, TypeOK
      <4>2. CASE u # t
        <5>1. pc[u] \in {"run", "top"} /\ ~fOk[u]
          BY <1>3, <2>2, <4>2 DEF IInv, TypeOK
        <5>2. QED
          BY <5>1 DEF IInv, FailuresRecorded
      <4>3. QED
        BY <4>1, <4>2
    <3>4. \A u \in Threads : pc'[u] = "top" /\ fOk'[u] => vChecks'[u] \cap bad = {}
      BY <3>2 DEF IInv, FailuresRecorded
    <3>5. /\ ~fAllOk' => added \cap bad # {}
          /\ fAllOk' => added \cap bad \subseteq Outstanding'
      BY <2>2, <2>5, <2>10
    <3>6. QED
      BY <2>2, <2>5, <2>10, <3>1, <3>3, <3>4, <3>5 DEF FailuresRecorded
  <2>12. QED
    BY <2>4, <2>7, <2>8, <2>9, <2>11 DEF IInv
<1>6. CASE Return(t, total, idle, allOk, todo, pc0)
  <2>1. /\ queue = {} /\ t = Master /\ todo = 0
        /\ pc' = [pc0 EXCEPT ![t] = "out"]
        /\ fAllOk' = TRUE /\ nTotal' = total - 1 /\ nIdle' = idle /\ nTodo' = todo
        /\ vChecks' = [vChecks EXCEPT ![t] = {}]
        /\ verdict' \in {"pass", "fail"}
        /\ UNCHANGED <<queue, fOk, added, bad, sessions, interrupted>>
    BY <1>6 DEF Return, LoopBody, StatusAfterWait
  <2>2. Left(t) = {}
    BY <1>0, <2>1, CheckFinite, FS_EmptySet
  <2>3. /\ vChecks'[t] = {}
        /\ \A u \in Threads : u # t => vChecks'[u] = vChecks[u] /\ vChecks[u] = {}
    BY <1>0, <2>1, <2>2 DEF IInv, TypeOK
  <2>4. Outstanding' = {}
    BY <2>1, <2>3 DEF Outstanding
  <2>5. \A u \in Threads : pc'[u] \notin {"run", "top"}
    BY <1>3, <2>1, <2>3 DEF IInv, TypeOK, BatchesOwned
  <2>6. Busy' = {} /\ Busy \ {t} = {}
    BY <2>3, <2>5 DEF Busy, IInv, BatchesOwned
  <2>7. Cardinality({}) = 0
    BY FS_EmptySet
  <2>15. total \in Nat /\ idle \in Nat /\ total - idle = Cardinality(Busy \ {t}) + 1
    OBVIOUS
  <2>8. total = idle + 1
    BY ONLY <2>6, <2>7, <2>15
  <2>16. total - 1 \in Nat
    BY ONLY <2>8, <2>15
  <2>17. pc' \in [Threads -> PCs] /\ vChecks' \in [Threads -> SUBSET Check]
    BY <2>1 DEF IInv, TypeOK, PCs
  <2>9. TypeOK'
    BY <1>1, <2>1, <2>15, <2>16, <2>17 DEF IInv, TypeOK
  <2>14. Asleep' = Asleep \ {t}
    BY <1>3, <2>1 DEF Asleep, IInv, TypeOK
  <2>10. CountersExact'
    BY <1>9, <2>1, <2>4, <2>6, <2>7, <2>8, <2>14 DEF CountersExact
  <2>11. BatchesDisjoint' /\ BatchesOwned'
    BY <2>1, <2>3, <2>5 DEF BatchesDisjoint, BatchesOwned
  <2>12. FailuresRecorded'
    <3>1. pc'[Master] = "out" /\ nTodo' = 0 /\ fAllOk'
      BY <1>4, <2>1
    <3>2. QED
      BY <2>4, <2>5, <3>1 DEF FailuresRecorded
  <2>13. QED
    BY <2>9, <2>10, <2>11, <2>12 DEF IInv
<1>7. CASE Park(t, total, idle, allOk, todo, pc0)
  <2>1. /\ queue = {}
        /\ pc' = [pc0 EXCEPT ![t] = "wait"]
        /\ fAllOk' = allOk /\ nTotal' = total /\ nIdle' = idle + 1 /\ nTodo' = todo
        /\ vChecks' = [vChecks EXCEPT ![t] = {}]
        /\ UNCHANGED <<queue, fOk, added, bad, verdict, sessions, interrupted>>
    BY <1>7 DEF Park, LoopBody, IdleAfterPark
  <2>2. TypeOK'
    BY <1>1, <2>1 DEF IInv, TypeOK, PCs
  <2>3. vChecks'[t] = {} /\ \A u \in Threads \ {t} : vChecks'[u] = vChecks[u]
    BY <2>1 DEF IInv, TypeOK
  <2>4. Outstanding' = Left(t)
    <3>1. UNION {vChecks'[u] : u \in Threads} = UNION {vChecks[u] : u \in Threads \ {t}}
      BY <2>3
    <3>2. QED
      BY <1>0, <2>1, <3>1 DEF Outstanding
  <2>5. Busy' = Busy \ {t} /\ Asleep' = (Asleep \ {t}) \cup {t}
    BY <1>3, <2>1 DEF Busy, Asleep, IInv, TypeOK
  <2>6. CountersExact'
    BY <1>2, <1>9, <2>1, <2>4, <2>5 DEF CountersExact
  <2>7. BatchesDisjoint' /\ BatchesOwned'
    BY <1>3, <2>1, <2>3 DEF BatchesDisjoint, BatchesOwned, IInv, TypeOK
  <2>8. \A u \in Threads : pc'[u] \in {"run", "top"} =>
          u # t /\ pc'[u] = pc[u] /\ vChecks'[u] = vChecks[u]
    BY <2>1, <2>3 DEF IInv, TypeOK
  <2>9. pc'[Master] = "out" <=> pc[Master] = "out"
    BY <1>4, <2>1 DEF IInv, TypeOK
  <2>10. FailuresRecorded'
    <3>1. Outstanding' \subseteq added
      BY <2>4 DEF IInv, FailuresRecorded, Left
    <3>2. /\ \A u \in Threads : pc'[u] = "top" /\ fOk'[u] => vChecks'[u] \cap bad = {}
          /\ \A u \in Threads : pc'[u] \in {"run", "top"} /\ ~fOk'[u] => added \cap bad # {}
      BY <2>1, <2>8 DEF IInv, FailuresRecorded
    <3>3. QED
      BY <2>1, <2>4, <2>9, <3>1, <3>2 DEF FailuresRecorded
  <2>11. QED
    BY <2>2, <2>6, <2>7, <2>10 DEF IInv
<1>8. QED
  BY <1>5, <1>6, <1>7 DEF LoopBody

\* Joining the pool, accounting for a batch and waking up reach a MidState.
LEMMA EnterMid ==
  ASSUME IInv, NEW t \in Threads, Enter(t)
  PROVE  MidState(t, nTotal + 1, nIdle, fAllOk, nTodo, pc)
<1>1. pc[t] = "enter" /\ vChecks[t] = {}
  BY DEF Enter, IInv, TypeOK, BatchesOwned
<1>2. Left(t) = Outstanding /\ t \notin Busy /\ t \notin Asleep
  BY <1>1 DEF Left, Busy, Asleep
<1>3. nTodo = Cardinality(Left(t)) /\ nTotal - nIdle = Cardinality(Busy \ {t})
      /\ nIdle = Cardinality(Asleep \ {t}) + Cardinality(interrupted)
  BY <1>2, BusyCount, AsleepCount DEF IInv, CountersExact
<1>4. QED
  BY <1>1, <1>2, <1>3, BusyCount DEF MidState, IInv, TypeOK, FailuresRecorded

LEMMA ResumeMid ==
  ASSUME IInv, NEW t \in Threads, Resume(t)
  PROVE  MidState(t, nTotal, nIdle - 1, fAllOk, nTodo, pc)
<1>1. pc[t] = "woken" /\ vChecks[t] = {}
  BY DEF Resume, IInv, TypeOK, BatchesOwned
<1>2. Left(t) = Outstanding /\ t \notin Busy /\ t \in Asleep
  BY <1>1 DEF Left, Busy, Asleep
<1>5. Cardinality(interrupted) \in Nat
  BY ThreadsFinite DEF IInv, TypeOK
<1>8. /\ Cardinality(Asleep) = Cardinality(Asleep \ {t}) + 1
      /\ Cardinality(Asleep \ {t}) \in Nat
      /\ nIdle = Cardinality(Asleep) + Cardinality(interrupted)
  BY <1>2, AsleepCount DEF IInv, CountersExact
<1>9. /\ nIdle - 1 = Cardinality(Asleep \ {t}) + Cardinality(interrupted)
      /\ nIdle - 1 \in Nat
  BY ONLY <1>5, <1>8
<1>3. nTodo = Cardinality(Left(t)) /\ nTotal - nIdle = Cardinality(Busy \ {t})
  BY <1>2, BusyCount DEF IInv, CountersExact
<1>6. /\ nTotal \in Nat /\ nIdle \in Nat
      /\ fAllOk \in BOOLEAN /\ pc \in [Threads -> PCs]
  BY DEF IInv, TypeOK
<1>7. nTotal - (nIdle - 1) = Cardinality(Busy \ {t}) + 1
  BY <1>3, <1>6, BusyCount
<1>4. QED
  BY <1>1, <1>2, <1>3, <1>6, <1>7, <1>9 DEF MidState, IInv, FailuresRecorded

LEMMA CleanUpMid ==
  ASSUME IInv, NEW t \in Threads, CleanUp(t), NEW pc0,
         pc0 \in {pc, NotifyMaster}
  PROVE  MidState(t, nTotal, nIdle, StatusAfterBatch(t), TodoAfterBatch(t), pc0)
<1>1. pc[t] = "top" /\ vChecks[t] # {} /\ t \in Busy /\ t \notin Asleep
  BY DEF CleanUp, IInv, TypeOK, BatchesOwned, Busy, Asleep
<1>2. TodoAfterBatch(t) = Cardinality(Left(t)) /\ Left(t) \in SUBSET Check
  BY LeftIs DEF TodoAfterBatch
<1>3. nTotal - nIdle = Cardinality(Busy \ {t}) + 1
      /\ nIdle = Cardinality(Asleep \ {t}) + Cardinality(interrupted)
  BY <1>1, BusyCount, AsleepCount DEF IInv, CountersExact
<1>4. pc[Master] # "out"
  <2>1. Outstanding # {} /\ Outstanding \in SUBSET Check
    BY <1>1, OutstandingType DEF Outstanding, IInv
  <2>2. nTodo # 0
    BY <2>1, CheckFinite, FS_EmptySet DEF IInv, CountersExact
  <2>3. QED
    BY <2>2 DEF IInv, FailuresRecorded
<1>5. ~StatusAfterBatch(t) => added \cap bad # {}
  BY <1>1, <1>4 DEF StatusAfterBatch, IInv, FailuresRecorded
<1>6. StatusAfterBatch(t) => added \cap bad \subseteq Left(t)
  BY <1>1, <1>4 DEF StatusAfterBatch, IInv, FailuresRecorded, Left
<1>7. /\ pc0 \in [Threads -> PCs]
      /\ pc0[t] = pc[t]
      /\ \A u \in Threads : pc0[u] = pc[u] \/ (pc[u] = "wait" /\ pc0[u] = "woken")
  BY <1>1 DEF NotifyMaster, IInv, TypeOK, PCs
<1>8. StatusAfterBatch(t) \in BOOLEAN
  BY DEF StatusAfterBatch, IInv, TypeOK
<1>9. QED
  BY <1>1, <1>2, <1>3, <1>4, <1>5, <1>6, <1>7, <1>8 DEF MidState, IInv, TypeOK

-----------------------------------------------------------------------------
\* The steps that do not go through LoopBody.
LEMMA ExecuteStep ==
  ASSUME IInv, NEW t \in Threads, Execute(t)
  PROVE  IInv'
<1>1. /\ pc[t] = "run" /\ pc' = [pc EXCEPT ![t] = "top"]
      /\ fOk' = [fOk EXCEPT ![t] = @ /\ vChecks[t] \cap bad = {}]
      /\ UNCHANGED <<queue, nIdle, nTotal, fAllOk, nTodo, vChecks, added, bad,
                     verdict, sessions, interrupted>>
  BY DEF Execute, queueVars, sessionVars
<1>2. TypeOK'
  BY <1>1 DEF IInv, TypeOK, PCs
<1>3. Outstanding' = Outstanding /\ Busy' = Busy /\ Asleep' = Asleep
  BY <1>1 DEF Outstanding, Busy, Asleep, IInv, TypeOK
<1>4. CountersExact'
  BY <1>1, <1>3 DEF IInv, CountersExact
<1>5. BatchesDisjoint' /\ BatchesOwned'
  BY <1>1 DEF IInv, TypeOK, BatchesDisjoint, BatchesOwned
<1>6. vChecks[t] \subseteq added
  BY DEF IInv, FailuresRecorded, Outstanding
<1>7. pc'[Master] = "out" <=> pc[Master] = "out"
  BY <1>1 DEF IInv, TypeOK, Threads
<1>8. ASSUME NEW u \in Threads
      PROVE  /\ pc'[u] = "top" /\ fOk'[u] => vChecks'[u] \cap bad' = {}
             /\ pc'[u] \in {"run", "top"} /\ ~fOk'[u] => added' \cap bad' # {}
  <2>1. CASE u = t
    BY <1>1, <1>6, <2>1 DEF IInv, TypeOK, FailuresRecorded
  <2>2. CASE u # t
    BY <1>1, <2>2 DEF IInv, TypeOK, FailuresRecorded
  <2>3. QED
    BY <2>1, <2>2
<1>9. FailuresRecorded'
  BY <1>1, <1>3, <1>7, <1>8 DEF IInv, FailuresRecorded
<1>10. QED
  BY <1>2, <1>4, <1>5, <1>9 DEF IInv

\* A sleeper wakes, is interrupted, or the master enters Wait(): only pc moves.
LEMMA PcStep ==
  ASSUME IInv, pc' \in [Threads -> PCs], interrupted' \subseteq Threads,
         \A u \in Threads : /\ pc'[u] \in {"run", "top"} => pc'[u] = pc[u]
                            /\ pc[u] \in {"run", "top"} => pc'[u] = pc[u],
         pc'[Master] = "out" <=> pc[Master] = "out",
         Cardinality(Asleep)' + Cardinality(interrupted)' =
           Cardinality(Asleep) + Cardinality(interrupted),
         UNCHANGED <<queue, nIdle, nTotal, fAllOk, nTodo, vChecks, fOk, added,
                     bad, verdict, sessions>>
  PROVE  IInv'
<1>1. TypeOK'
  BY DEF IInv, TypeOK
<1>2. Outstanding' = Outstanding /\ Busy' = Busy
  BY DEF Outstanding, Busy
<1>3. CountersExact'
  BY <1>2 DEF IInv, CountersExact
<1>4. BatchesDisjoint' /\ BatchesOwned'
  BY DEF IInv, BatchesDisjoint, BatchesOwned
<1>5. FailuresRecorded'
  BY <1>2 DEF IInv, FailuresRecorded
<1>6. QED
  BY <1>1, <1>3, <1>4, <1>5 DEF IInv

LEMMA SpuriousWakeStep ==
  ASSUME IInv, NEW t \in Threads, SpuriousWake(t)
  PROVE  IInv'
<1>1. /\ pc[t] = "wait" /\ pc' = [pc EXCEPT ![t] = "woken"]
      /\ pc' \in [Threads -> PCs] /\ Asleep' = Asleep
      /\ pc'[Master] = "out" <=> pc[Master] = "out"
  BY DEF SpuriousWake, IInv, TypeOK, PCs, Asleep, Threads
<1>2. \A u \in Threads : /\ pc'[u] \in {"run", "top"} => pc'[u] = pc[u]
                         /\ pc[u] \in {"run", "top"} => pc'[u] = pc[u]
  BY <1>1 DEF IInv, TypeOK
<1>3. QED
  BY <1>1, <1>2, PcStep DEF SpuriousWake, queueVars, sessionVars, IInv, TypeOK

LEMMA InterruptStep ==
  ASSUME IInv, NEW t \in Threads, Interrupt(t)
  PROVE  IInv'
<1>1. /\ pc[t] \in {"wait", "woken"} /\ t \notin interrupted
      /\ pc' = [pc EXCEPT ![t] = IF t = Master THEN "enter" ELSE "gone"]
      /\ interrupted' = interrupted \cup {t}
      /\ UNCHANGED <<queue, nIdle, nTotal, fAllOk, nTodo, vChecks, fOk, added,
                     bad, verdict, sessions>>
  BY DEF Interrupt, queueVars, sessionVars
<1>2. pc' \in [Threads -> PCs] /\ interrupted' \subseteq Threads
  BY <1>1 DEF IInv, TypeOK, PCs
<1>3. Asleep' = Asleep \ {t} /\ t \in Asleep
  BY <1>1 DEF Asleep, IInv, TypeOK
<1>4. Cardinality(interrupted)' = Cardinality(interrupted) + 1
      /\ Cardinality(interrupted) \in Nat
  BY <1>1, ThreadsFinite, FS_AddElement DEF IInv, TypeOK
<1>5. Cardinality(Asleep)' + Cardinality(interrupted)' =
           Cardinality(Asleep) + Cardinality(interrupted)
  BY <1>3, <1>4, AsleepCount
<1>6. /\ pc'[Master] = "out" <=> pc[Master] = "out"
      /\ \A u \in Threads : /\ pc'[u] \in {"run", "top"} => pc'[u] = pc[u]
                            /\ pc[u] \in {"run", "top"} => pc'[u] = pc[u]
  BY <1>1 DEF IInv, TypeOK, Threads
<1>7. QED
  BY <1>1, <1>2, <1>5, <1>6, PcStep

LEMMA CallWaitStep ==
  ASSUME IInv, CallWait
  PROVE  IInv'
<1>1. /\ Master \in Threads
      /\ pc[Master] = "ctl" /\ pc' = [pc EXCEPT ![Master] = "enter"]
      /\ pc' \in [Threads -> PCs] /\ Asleep' = Asleep
  BY DEF CallWait, IInv, TypeOK, PCs, Asleep, Threads
<1>2. /\ pc'[Master] = "out" <=> pc[Master] = "out"
      /\ \A u \in Threads : /\ pc'[u] \in {"run", "top"} => pc'[u] = pc[u]
                            /\ pc[u] \in {"run", "top"} => pc'[u] = pc[u]
  BY <1>1 DEF IInv, TypeOK
<1>3. QED
  BY <1>1, <1>2, PcStep DEF CallWait, queueVars, sessionVars, IInv, TypeOK

LEMMA OpenControlStep ==
  ASSUME IInv, OpenControl
  PROVE  IInv'
<1>1. /\ Master \in Threads
      /\ pc[Master] = "out" /\ pc' = [pc EXCEPT ![Master] = "ctl"]
      /\ added' = {} /\ bad' \in SUBSET Check /\ verdict' = "none"
      /\ sessions' = sessions + 1
      /\ UNCHANGED <<queue, nIdle, nTotal, fAllOk, nTodo, vChecks, fOk, interrupted>>
  BY CQAssumption DEF OpenControl, queueVars, Threads, CQAssumption
<1>2. TypeOK'
  BY <1>1 DEF IInv, TypeOK, PCs
<1>3. Outstanding' = Outstanding /\ Busy' = Busy /\ Asleep' = Asleep
  BY <1>1 DEF Outstanding, Busy, Asleep, IInv, TypeOK
<1>4. CountersExact'
  BY <1>1, <1>3 DEF IInv, CountersExact
<1>5. BatchesDisjoint' /\ BatchesOwned'
  BY <1>1 DEF IInv, TypeOK, BatchesDisjoint, BatchesOwned
<1>6. Outstanding = {}
  <2>1. Cardinality(Outstanding) = 0
    BY <1>1 DEF IInv, CountersExact, FailuresRecorded
  <2>2. QED
    BY <2>1, OutstandingType, CheckFinite, FS_EmptySet DEF IInv
<1>7. \A u \in Threads : pc'[u] \notin {"run", "top"}
  BY <1>1, <1>5, <1>6 DEF Outstanding, BatchesOwned
<1>8. FailuresRecorded'
  BY <1>1, <1>3, <1>6, <1>7 DEF IInv, TypeOK, FailuresRecorded
<1>9. QED
  BY <1>2, <1>4, <1>5, <1>8 DEF IInv

LEMMA AddStep ==
  ASSUME IInv, NEW S \in SUBSET Check, Add(S)
  PROVE  IInv'
<1>1. /\ pc[Master] = "ctl" /\ S \cap added = {}
      /\ added' = added \cup S /\ queue' = queue \cup S
      /\ nTodo' = nTodo + Cardinality(S)
      /\ UNCHANGED <<nIdle, nTotal, fAllOk, vChecks, fOk, bad, verdict, sessions,
                     interrupted>>
  BY DEF Add
<1>2. PICK W \in SUBSET Waiting(Workers) :
        pc' = [u \in Threads |-> IF u \in W THEN "woken" ELSE pc[u]]
  BY DEF Add
<1>3. /\ pc' \in [Threads -> PCs]
      /\ \A u \in Threads : pc'[u] = pc[u] \/ (pc[u] = "wait" /\ pc'[u] = "woken")
  BY <1>2 DEF Waiting, IInv, TypeOK, PCs
<1>4. Outstanding' = Outstanding \cup S /\ Outstanding \cap S = {}
  BY <1>1 DEF Outstanding, IInv, FailuresRecorded
<1>5. Busy' = Busy /\ Asleep' = Asleep
  BY <1>3 DEF Busy, Asleep
<1>6. Cardinality(Outstanding)' = nTodo'
  BY <1>1, <1>4, OutstandingType, Disjoint DEF IInv, CountersExact
<1>7. CountersExact'
  BY <1>1, <1>5, <1>6 DEF IInv, CountersExact
<1>8. TypeOK'
  BY <1>1, <1>3, CheckFinite DEF IInv, TypeOK
<1>9. BatchesDisjoint'
  BY <1>1, <1>4 DEF IInv, BatchesDisjoint, Outstanding
<1>10. BatchesOwned'
  BY <1>1, <1>3 DEF IInv, BatchesOwned
<1>11. pc'[Master] # "out"
  BY <1>1, <1>3 DEF Threads
<1>12. \A u \in Threads : /\ pc'[u] \in {"run", "top"} <=> pc[u] \in {"run", "top"}
                          /\ pc'[u] = "top" <=> pc[u] = "top"
  BY <1>3
<1>13. FailuresRecorded'
  BY <1>1, <1>4, <1>11, <1>12 DEF IInv, FailuresRecorded
<1>14. QED
  BY <1>7, <1>8, <1>9, <1>10, <1>13 DEF IInv
-----------------------------------------------------------------------------
LEMMA InitIInv == Init => IInv
<1> SUFFICES ASSUME Init PROVE IInv
  OBVIOUS
<1>1. Master \in Threads /\ Outstanding = {} /\ Busy = {} /\ Asleep = {}
  BY DEF Init, Threads, Outstanding, Busy, Asleep
<1>2. Cardinality({}) = 0
  BY FS_EmptySet
<1>3. TypeOK
  BY DEF Init, TypeOK, PCs
<1>4. CountersExact
  BY <1>1, <1>2 DEF Init, CountersExact
<1>5. BatchesDisjoint /\ BatchesOwned /\ FailuresRecorded
  BY <1>1 DEF Init, BatchesDisjoint, BatchesOwned, FailuresRecorded
<1>6. QED
  BY <1>3, <1>4, <1>5 DEF IInv

LEMMA NextIInv == IInv /\ [Next]_vars => IInv'
<1> SUFFICES ASSUME IInv, [Next]_vars PROVE IInv'
  OBVIOUS
<1>1. CASE UNCHANGED vars
  BY <1>1 DEF vars, queueVars, localVars, sessionVars, IInv, TypeOK, CountersExact,
       BatchesDisjoint, BatchesOwned, FailuresRecorded, Outstanding, Busy, Asleep
<1>2. ASSUME NEW t \in Threads, Enter(t) PROVE IInv'
  BY <1>2, EnterMid, LoopStep DEF Enter
<1>3. ASSUME NEW t \in Threads, Resume(t) PROVE IInv'
  BY <1>3, ResumeMid, LoopStep DEF Resume
<1>4. ASSUME NEW t \in Threads, CleanUp(t) PROVE IInv'
  <2> DEFINE last == TodoAfterBatch(t) = 0 /\ t # Master
             pc0 == IF last THEN NotifyMaster ELSE pc
  <2>1. LoopBody(t, nTotal, nIdle, StatusAfterBatch(t), TodoAfterBatch(t), pc0)
    BY <1>4 DEF CleanUp
  <2>2. MidState(t, nTotal, nIdle, StatusAfterBatch(t), TodoAfterBatch(t), pc0)
    BY <1>4, CleanUpMid
  <2>3. QED
    BY <2>1, <2>2, LoopStep
<1>5. CASE OpenControl \/ CallWait
  BY <1>5, OpenControlStep, CallWaitStep
<1>6. CASE \E S \in SUBSET Check : Add(S)
  BY <1>6, AddStep
<1>7. CASE Finished
  BY <1>1, <1>7 DEF Finished
<1>8. QED
  BY <1>1, <1>2, <1>3, <1>4, <1>5, <1>6, <1>7, ExecuteStep, SpuriousWakeStep,
     InterruptStep DEF Next, ThreadStep

(***************************************************************************)
(* The inductive invariant of the pool.                                    *)
(***************************************************************************)
THEOREM PoolInvariant == Spec => []IInv
<1>1. QED
  BY InitIInv, NextIInv, PTL DEF Spec

(***************************************************************************)
(* TypeOK and CountersExact: for every pool, nTodo, nIdle and nTotal count *)
(* what checkqueue.h documents them to count, at every unlock.             *)
(***************************************************************************)
THEOREM CountersAlwaysExact == Spec => [](TypeOK /\ CountersExact)
<1>1. IInv => TypeOK /\ CountersExact
  BY DEF IInv
<1>2. QED
  BY <1>1, PoolInvariant, PTL

(***************************************************************************)
(* The assertion in the CCheckQueueControl constructor (ControlAssert)     *)
(* never fails: a new session always finds the queue idle.                 *)
(***************************************************************************)
THEOREM ControlNeverAsserts == Spec => []ControlAssert
<1>1. ASSUME IInv, pc[Master] = "out" PROVE IsIdle
  <2>1. nTodo = 0 /\ fAllOk
    BY <1>1 DEF IInv, FailuresRecorded
  <2>2. Outstanding = {}
    BY <1>1, <2>1, OutstandingType, CheckFinite, FS_EmptySet DEF IInv, CountersExact
  <2>3. Busy = {}
    BY <1>1, <2>2 DEF Busy, Outstanding, IInv, BatchesOwned
  <2>4. nTotal - nIdle = 0
    BY <1>1, <2>3, FS_EmptySet DEF IInv, CountersExact
  <2>5. QED
    BY <1>1, <2>1, <2>4 DEF IsIdle, IInv, TypeOK
<1>2. IInv => ControlAssert
  BY <1>1 DEF ControlAssert
<1>3. QED
  BY <1>2, PoolInvariant, PTL
-----------------------------------------------------------------------------
(***************************************************************************)
(* Refinement: leaving Loop is the service's Close, every other step of a  *)
(* thread is invisible to the caller.                                      *)
(***************************************************************************)
LEMMA LoopRefines ==
  ASSUME IInv, NEW t, NEW total, NEW idle, NEW allOk, NEW todo, NEW pc0,
         MidState(t, total, idle, allOk, todo, pc0),
         LoopBody(t, total, idle, allOk, todo, pc0)
  PROVE  [Service!Next]_(Service!vars)
<1>1. /\ Master \in Threads /\ pc0 \in [Threads -> PCs]
      /\ t \in Threads /\ pc[t] \in {"enter", "top", "woken"} /\ pc0[t] = pc[t]
      /\ pc0[Master] # "out" <=> pc[Master] # "out"
  BY DEF MidState, Threads
<1>2. CASE Return(t, total, idle, allOk, todo, pc0)
  <2>1. /\ t = Master /\ todo = 0 /\ pc' = [pc0 EXCEPT ![t] = "out"]
        /\ verdict' = (IF allOk THEN "pass" ELSE "fail")
        /\ added' = added /\ bad' = bad
    BY <1>2 DEF Return
  <2>2. Left(t) = {}
    BY <1>1, <2>1, LeftIs, CheckFinite, FS_EmptySet DEF MidState
  <2>3. pc[Master] # "out" /\ pc'[Master] = "out"
    BY <1>1, <2>1
  <2>4. allOk <=> added \cap bad = {}
    BY <2>2, <2>3 DEF MidState
  <2>5. Service!Close
    BY <2>1, <2>3, <2>4 DEF Service!Close
  <2>6. QED
    BY <2>5 DEF Service!Next
<1>3. CASE Take(t, total, idle, allOk, pc0) \/ Park(t, total, idle, allOk, todo, pc0)
  <2>1. \/ pc' = [pc0 EXCEPT ![t] = "run"]
        \/ pc' = [pc0 EXCEPT ![t] = "wait"]
    BY <1>3 DEF Take, Park
  <2>2. (pc[Master] # "out") <=> (pc'[Master] # "out")
    BY <1>1, <2>1
  <2>3. UNCHANGED Service!vars
    BY <1>3, <2>2 DEF Take, Park, Service!vars
  <2>4. QED
    BY <2>3
<1>4. QED
  BY <1>2, <1>3 DEF LoopBody

LEMMA NextRefines == IInv /\ [Next]_vars => [Service!Next]_(Service!vars)
<1> SUFFICES ASSUME IInv, [Next]_vars PROVE [Service!Next]_(Service!vars)
  OBVIOUS
<1>1. Master \in Threads /\ pc \in [Threads -> PCs]
  BY DEF Threads, IInv, TypeOK
<1>2. CASE UNCHANGED vars \/ Finished
  BY <1>2 DEF Finished, vars, localVars, sessionVars, Service!vars
<1>3. ASSUME NEW t \in Threads, Enter(t) PROVE [Service!Next]_(Service!vars)
  BY <1>3, EnterMid, LoopRefines DEF Enter
<1>4. ASSUME NEW t \in Threads, Resume(t) PROVE [Service!Next]_(Service!vars)
  BY <1>4, ResumeMid, LoopRefines DEF Resume
<1>5. ASSUME NEW t \in Threads, CleanUp(t) PROVE [Service!Next]_(Service!vars)
  <2> DEFINE last == TodoAfterBatch(t) = 0 /\ t # Master
             pc0 == IF last THEN NotifyMaster ELSE pc
  <2>1. LoopBody(t, nTotal, nIdle, StatusAfterBatch(t), TodoAfterBatch(t), pc0)
    BY <1>5 DEF CleanUp
  <2>2. MidState(t, nTotal, nIdle, StatusAfterBatch(t), TodoAfterBatch(t), pc0)
    BY <1>5, CleanUpMid
  <2>3. QED
    BY <2>1, <2>2, LoopRefines
<1>6. ASSUME NEW t \in Threads, Execute(t) \/ SpuriousWake(t) \/ Interrupt(t)
      PROVE  [Service!Next]_(Service!vars)
  <2>1. (pc[Master] # "out") <=> (pc'[Master] # "out")
    BY <1>1, <1>6 DEF Execute, SpuriousWake, Interrupt
  <2>2. UNCHANGED Service!vars
    BY <1>6, <2>1 DEF Execute, SpuriousWake, Interrupt, sessionVars, Service!vars
  <2>3. QED
    BY <2>2
<1>7. CASE CallWait
  <2>1. pc[Master] # "out" /\ pc'[Master] # "out"
    BY <1>1, <1>7 DEF CallWait
  <2>2. QED
    BY <1>7, <2>1 DEF CallWait, sessionVars, Service!vars
<1>8. CASE OpenControl
  <2>1. pc[Master] = "out" /\ pc'[Master] # "out"
    BY <1>1, <1>8 DEF OpenControl
  <2>2. Service!Open
    BY <1>8, <2>1, CQAssumption DEF OpenControl, Service!Open, CQAssumption
  <2>3. QED
    BY <2>2 DEF Service!Next
<1>9. ASSUME NEW S \in SUBSET Check, Add(S) PROVE [Service!Next]_(Service!vars)
  <2>1. pc[Master] = "ctl" /\ pc'[Master] # "out"
    BY <1>1, <1>9 DEF Add
  <2>2. S \in SUBSET (Check \ added) /\ added' = added \cup S /\ UNCHANGED <<bad, verdict>>
    BY <1>9 DEF Add
  <2>3. Service!HandOver
    BY <2>1, <2>2 DEF Service!HandOver
  <2>4. QED
    BY <2>3 DEF Service!Next
<1>10. QED
  BY <1>2, <1>3, <1>4, <1>5, <1>6, <1>7, <1>8, <1>9 DEF Next, ThreadStep

(***************************************************************************)
(* The pool implements VerdictService (ImplementsService): Wait() answers  *)
(* true exactly if every check handed over in the session passes, for any  *)
(* number of threads, any batch size, and through interruptions.           *)
(***************************************************************************)
THEOREM PoolImplementsService == Spec => ImplementsService
<1>1. Init => Service!Init
  BY DEF Init, Service!Init, Threads
<1>2. QED
  BY <1>1, PoolInvariant, NextRefines, PTL DEF Spec, ImplementsService, Service!Spec
=============================================================================
