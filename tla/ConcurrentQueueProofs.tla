------------------------ MODULE ConcurrentQueueProofs ------------------------
(***************************************************************************)
(* Theorems about ConcurrentQueue, for any threads, elements and lengths.  *)
(***************************************************************************)
EXTENDS ConcurrentQueue, FiniteSetTheorems, TLAPS

\* A thread that is to store an element has one; a value is copied only between
\* copying the front and returning it; one that is to remove the front has copied.
ValuesInPlace ==
    \A t \in Threads :
        /\ pc[t] \in {"p_lock", "p_push"} => data[t] \in Data
        /\ popped_value[t] # None => pc[t] \in {"pop", "unlock"}
        /\ pc[t] = "pop" => popped_value[t] # None

\* The inductive invariant of the methods.
QInv == TypeOK /\ LockDiscipline /\ FrontExists /\ ValuesInPlace

LEMMA InitQInv == Init => QInv
<1> SUFFICES ASSUME Init PROVE QInv
    OBVIOUS
<1> USE DEF Init
<1>1. TypeOK
  BY DEF TypeOK, Labels
<1>2. LockDiscipline
  BY QueueAssumption DEF LockDiscipline, Critical
<1>3. FrontExists /\ ValuesInPlace
  BY DEF FrontExists, ValuesInPlace
<1> QED
  BY <1>1, <1>2, <1>3 DEF QInv

\* Where the lock leads.
LEMMA AfterLockLabels ==
    \A l \in Locking :
        /\ AfterLock[l] \in {"p_push", "t_test", "w_test"}
        /\ AfterLock[l] = "p_push" => l = "p_lock"
        /\ AfterLock[l] = "w_test" => l \in {"w_lock", "w_relock"}
        /\ l \in {"w_lock", "w_relock"} => AfterLock[l] = "w_test"
        /\ l = "p_lock" => AfterLock[l] = "p_push"
        /\ l = "t_lock" => AfterLock[l] = "t_test"
  BY DEF AfterLock, Locking

\* Every step keeps the types.
LEMMA NextTypeOK == ASSUME QInv, [Next]_vars PROVE TypeOK'
<1> USE DEF QInv, TypeOK
<1>1. CASE UNCHANGED vars
  BY <1>1 DEF vars
<1>2. ASSUME NEW t \in Threads, Call(t) PROVE TypeOK'
  BY <1>2 DEF Call, Goto, Labels, Locking
<1>3. ASSUME NEW t \in Threads, Lock(t) PROVE TypeOK'
  BY <1>3, AfterLockLabels DEF Lock, Goto, Labels, Critical
<1>4. ASSUME NEW t \in Threads, Store(t) PROVE TypeOK'
  BY <1>4 DEF Store, Goto, Labels, Critical, ValuesInPlace
<1>5. ASSUME NEW t \in Threads, PushUnlock(t) PROVE TypeOK'
  BY <1>5 DEF PushUnlock, Goto, Labels
<1>6. ASSUME NEW t \in Threads, NotifyOne(t) PROVE TypeOK'
  BY <1>6 DEF NotifyOne, Waiting, Goto, Labels, Locking
<1>7. ASSUME NEW t \in Threads, TryTest(t) PROVE TypeOK'
  BY <1>7 DEF TryTest, Goto, Labels, Critical
<1>8. ASSUME NEW t \in Threads, WaitTest(t) PROVE TypeOK'
  BY <1>8 DEF WaitTest, Goto, Labels, Critical
<1>9. ASSUME NEW t \in Threads, SpuriousWakeup(t) PROVE TypeOK'
  BY <1>9 DEF SpuriousWakeup, Goto, Labels, Locking
<1>10. ASSUME NEW t \in Threads, Front(t) PROVE TypeOK'
  <2>1. Head(the_queue) \in Data
    BY <1>10 DEF Front, FrontExists
  <2> QED
    BY <1>10, <2>1 DEF Front, Goto, Labels, Critical
<1>11. ASSUME NEW t \in Threads, Pop(t) PROVE TypeOK'
  BY <1>11 DEF Pop, Goto, Labels, Critical, FrontExists
<1>12. ASSUME NEW t \in Threads, UnlockAndReturn(t) PROVE TypeOK'
  BY <1>12 DEF UnlockAndReturn, Goto, Labels
<1> QED
  BY <1>1, <1>2, <1>3, <1>4, <1>5, <1>6, <1>7, <1>8, <1>9, <1>10, <1>11, <1>12
  DEF Next, Run

\* Every step keeps the lock where it belongs.
LEMMA NextLockDiscipline == ASSUME QInv, [Next]_vars PROVE LockDiscipline'
<1> USE QueueAssumption DEF QInv, TypeOK, LockDiscipline, Critical
<1>1. CASE UNCHANGED vars
  BY <1>1 DEF vars
<1>2. ASSUME NEW t \in Threads, Call(t) PROVE LockDiscipline'
  BY <1>2 DEF Call, Goto
<1>3. ASSUME NEW t \in Threads, Lock(t) PROVE LockDiscipline'
  BY <1>3, AfterLockLabels DEF Lock, Goto
<1>4. ASSUME NEW t \in Threads, Store(t) PROVE LockDiscipline'
  BY <1>4 DEF Store, Goto
<1>5. ASSUME NEW t \in Threads, PushUnlock(t) PROVE LockDiscipline'
  BY <1>5 DEF PushUnlock, Goto
<1>6. ASSUME NEW t \in Threads, NotifyOne(t) PROVE LockDiscipline'
  BY <1>6 DEF NotifyOne, Waiting, Goto
<1>7. ASSUME NEW t \in Threads, TryTest(t) PROVE LockDiscipline'
  BY <1>7 DEF TryTest, Goto
<1>8. ASSUME NEW t \in Threads, WaitTest(t) PROVE LockDiscipline'
  BY <1>8 DEF WaitTest, Goto
<1>9. ASSUME NEW t \in Threads, SpuriousWakeup(t) PROVE LockDiscipline'
  BY <1>9 DEF SpuriousWakeup, Goto
<1>10. ASSUME NEW t \in Threads, Front(t) PROVE LockDiscipline'
  BY <1>10 DEF Front, Goto
<1>11. ASSUME NEW t \in Threads, Pop(t) PROVE LockDiscipline'
  BY <1>11 DEF Pop, Goto
<1>12. ASSUME NEW t \in Threads, UnlockAndReturn(t) PROVE LockDiscipline'
  BY <1>12 DEF UnlockAndReturn, Goto
<1> QED
  BY <1>1, <1>2, <1>3, <1>4, <1>5, <1>6, <1>7, <1>8, <1>9, <1>10, <1>11, <1>12
  DEF Next, Run

\* An element that a thread is about to copy or to remove is not taken away.
LEMMA NextFrontExists == ASSUME QInv, [Next]_vars PROVE FrontExists'
<1> USE QueueAssumption DEF QInv, TypeOK, LockDiscipline, Critical, FrontExists
<1>1. CASE UNCHANGED vars
  BY <1>1 DEF vars
<1>2. ASSUME NEW t \in Threads, Call(t) PROVE FrontExists'
  BY <1>2 DEF Call, Goto
<1>3. ASSUME NEW t \in Threads, Lock(t) PROVE FrontExists'
  BY <1>3, AfterLockLabels DEF Lock, Goto
<1>4. ASSUME NEW t \in Threads, Store(t) PROVE FrontExists'
  BY <1>4 DEF Store, Goto
<1>5. ASSUME NEW t \in Threads, PushUnlock(t) PROVE FrontExists'
  BY <1>5 DEF PushUnlock, Goto
<1>6. ASSUME NEW t \in Threads, NotifyOne(t) PROVE FrontExists'
  BY <1>6 DEF NotifyOne, Goto, Waiting
<1>7. ASSUME NEW t \in Threads, TryTest(t) PROVE FrontExists'
  BY <1>7 DEF TryTest, Goto
<1>8. ASSUME NEW t \in Threads, WaitTest(t) PROVE FrontExists'
  BY <1>8 DEF WaitTest, Goto
<1>9. ASSUME NEW t \in Threads, SpuriousWakeup(t) PROVE FrontExists'
  BY <1>9 DEF SpuriousWakeup, Goto
<1>10. ASSUME NEW t \in Threads, Front(t) PROVE FrontExists'
  BY <1>10 DEF Front, Goto
<1>11. ASSUME NEW t \in Threads, Pop(t) PROVE FrontExists'
  BY <1>11 DEF Pop, Goto
<1>12. ASSUME NEW t \in Threads, UnlockAndReturn(t) PROVE FrontExists'
  BY <1>12 DEF UnlockAndReturn, Goto
<1> QED
  BY <1>1, <1>2, <1>3, <1>4, <1>5, <1>6, <1>7, <1>8, <1>9, <1>10, <1>11, <1>12
  DEF Next, Run

\* Arguments and results stay with their threads.
LEMMA NextValuesInPlace == ASSUME QInv, [Next]_vars PROVE ValuesInPlace'
<1> USE QueueAssumption DEF QInv, TypeOK, ValuesInPlace
<1>1. CASE UNCHANGED vars
  BY <1>1 DEF vars
<1>2. ASSUME NEW t \in Threads, Call(t) PROVE ValuesInPlace'
  BY <1>2 DEF Call, Goto
<1>3. ASSUME NEW t \in Threads, Lock(t) PROVE ValuesInPlace'
  BY <1>3, AfterLockLabels DEF Lock, Goto, Locking
<1>4. ASSUME NEW t \in Threads, Store(t) PROVE ValuesInPlace'
  BY <1>4 DEF Store, Goto
<1>5. ASSUME NEW t \in Threads, PushUnlock(t) PROVE ValuesInPlace'
  BY <1>5 DEF PushUnlock, Goto
<1>6. ASSUME NEW t \in Threads, NotifyOne(t) PROVE ValuesInPlace'
  BY <1>6 DEF NotifyOne, Goto, Waiting
<1>7. ASSUME NEW t \in Threads, TryTest(t) PROVE ValuesInPlace'
  BY <1>7 DEF TryTest, Goto
<1>8. ASSUME NEW t \in Threads, WaitTest(t) PROVE ValuesInPlace'
  BY <1>8 DEF WaitTest, Goto
<1>9. ASSUME NEW t \in Threads, SpuriousWakeup(t) PROVE ValuesInPlace'
  BY <1>9 DEF SpuriousWakeup, Goto
<1>10. ASSUME NEW t \in Threads, Front(t) PROVE ValuesInPlace'
  BY <1>10 DEF Front, Goto, FrontExists
<1>11. ASSUME NEW t \in Threads, Pop(t) PROVE ValuesInPlace'
  BY <1>11 DEF Pop, Goto
<1>12. ASSUME NEW t \in Threads, UnlockAndReturn(t) PROVE ValuesInPlace'
  BY <1>12 DEF UnlockAndReturn, Goto
<1> QED
  BY <1>1, <1>2, <1>3, <1>4, <1>5, <1>6, <1>7, <1>8, <1>9, <1>10, <1>11, <1>12
  DEF Next, Run

LEMMA NextQInv == QInv /\ [Next]_vars => QInv'
  BY NextTypeOK, NextLockDiscipline, NextFrontExists, NextValuesInPlace
  DEF QInv

THEOREM AlwaysQInv == Spec => []QInv
  BY InitQInv, NextQInv, PTL DEF Spec

\* Whatever the threads do, the variables have their types: nothing is ever in
\* the queue that was not pushed (push, try_pop, wait_and_pop).
THEOREM TypesHold == Spec => []TypeOK
<1>1. QInv => TypeOK
  BY DEF QInv
<1> QED
  BY <1>1, AlwaysQInv, PTL

\* Every way through the methods gives the lock back, and no two threads are
\* inside of it (lock_guard, unique_lock and wait).
THEOREM LockHolds == Spec => []LockDiscipline
<1>1. QInv => LockDiscipline
  BY DEF QInv
<1> QED
  BY <1>1, AlwaysQInv, PTL

\* front() and pop() are never called on an empty std::queue.
THEOREM NoUndefinedPop == Spec => []FrontExists
<1>1. QInv => FrontExists
  BY DEF QInv
<1> QED
  BY <1>1, AlwaysQInv, PTL

----------------------------------------------------------------------------
(* Wakeups.                                                                *)

LEMMA UnderWayFinite == IsFiniteSet(UnderWay) /\ Cardinality(UnderWay) \in Nat
<1>1. IsFiniteSet(UnderWay)
  BY QueueAssumption, FS_Subset DEF UnderWay
<1> QED
  BY <1>1, FS_CardinalityType

\* A thread that goes to a label joins or leaves those under way, and nobody
\* else falls asleep.
LEMMA Moves ==
    ASSUME TypeOK, NEW t \in Threads, NEW label, Goto(t, label)
    PROVE  /\ label \in UnderWayLabels => UnderWay' = UnderWay \union {t}
           /\ label \notin UnderWayLabels => UnderWay' = UnderWay \ {t}
           /\ label # "w_wait" => Waiting' \subseteq Waiting
<1>1. pc' = [u \in Threads |-> IF u = t THEN label ELSE pc[u]]
  BY DEF TypeOK, Goto
<1>2. label \in UnderWayLabels => UnderWay' = UnderWay \union {t}
  BY <1>1 DEF UnderWay
<1>3. label \notin UnderWayLabels => UnderWay' = UnderWay \ {t}
  BY <1>1 DEF UnderWay
<1>4. label # "w_wait" => Waiting' \subseteq Waiting
  BY <1>1 DEF Waiting
<1> QED
  BY <1>2, <1>3, <1>4

\* While nobody falls asleep, a wakeup is not lost if the queue grows by no
\* more than the threads under way do.
LEMMA KeepsPace ==
    ASSUME TypeOK, TypeOK', NoLostWakeup, Waiting' \subseteq Waiting,
           Len(the_queue') - Len(the_queue)
             <= Cardinality(UnderWay') - Cardinality(UnderWay),
           Cardinality(UnderWay') \in Nat
    PROVE  NoLostWakeup'
<1>1. Len(the_queue) \in Nat /\ Len(the_queue') \in Nat
  BY DEF TypeOK
<1>2. Cardinality(UnderWay) \in Nat
  BY UnderWayFinite
<1>3. ASSUME Waiting' # {} PROVE Len(the_queue') <= Cardinality(UnderWay')
  <2>1. Waiting # {}
    BY <1>3
  <2>2. Len(the_queue) <= Cardinality(UnderWay)
    BY <2>1 DEF NoLostWakeup
  <2> QED
    BY <2>2, <1>1, <1>2
<1> QED
  BY <1>3 DEF NoLostWakeup

LEMMA NextNoLostWakeup ==
    ASSUME QInv, NoLostWakeup, [Next]_vars
    PROVE  NoLostWakeup'
<1>0. TypeOK /\ TypeOK' /\ LockDiscipline /\ FrontExists
  BY NextTypeOK DEF QInv
<1>types. Len(the_queue) \in Nat /\ Len(the_queue') \in Nat
  BY <1>0 DEF TypeOK
<1>card. /\ IsFiniteSet(UnderWay) /\ Cardinality(UnderWay) \in Nat
         /\ \A t : Cardinality(UnderWay \union {t})
                    = IF t \in UnderWay THEN Cardinality(UnderWay)
                                       ELSE Cardinality(UnderWay) + 1
         /\ \A t : Cardinality(UnderWay \ {t})
                    = IF t \in UnderWay THEN Cardinality(UnderWay) - 1
                                       ELSE Cardinality(UnderWay)
  BY UnderWayFinite, FS_AddElement, FS_RemoveElement
\* A step that leaves the queue alone and takes no thread out of those under
\* way.
<1>same. ASSUME NEW t \in Threads, NEW label, Goto(t, label),
                label # "w_wait", UNCHANGED the_queue,
                label \in UnderWayLabels \/ t \notin UnderWay
         PROVE  NoLostWakeup'
  <2>1. Waiting' \subseteq Waiting
    BY <1>same, <1>0, Moves
  <2>2. Cardinality(UnderWay') \in {Cardinality(UnderWay), Cardinality(UnderWay) + 1}
    <3>1. CASE label \in UnderWayLabels
      <4>1. UnderWay' = UnderWay \union {t}
        BY <3>1, <1>same, <1>0, Moves
      <4> QED
        BY <4>1, <1>card
    <3>2. CASE label \notin UnderWayLabels
      <4>1. UnderWay' = UnderWay \ {t}
        BY <3>2, <1>same, <1>0, Moves
      <4> QED
        BY <4>1, <3>2, <1>same, <1>card
    <3> QED
      BY <3>1, <3>2
  <2>3. Len(the_queue') = Len(the_queue)
    BY <1>same
  <2> QED
    BY <2>1, <2>2, <2>3, <1>0, <1>card, <1>types, KeepsPace
<1>1. CASE UNCHANGED vars
  <2>1. UnderWay' = UnderWay /\ Waiting' = Waiting /\ the_queue' = the_queue
    BY <1>1 DEF vars, UnderWay, Waiting
  <2> QED
    BY <2>1 DEF NoLostWakeup
<1>2. ASSUME NEW t \in Threads, Call(t) PROVE NoLostWakeup'
  <2>1. PICK label \in {"p_lock", "t_lock", "w_lock"} : Goto(t, label)
    BY <1>2 DEF Call
  <2>2. t \notin UnderWay /\ UNCHANGED the_queue
    BY <1>2 DEF Call, UnderWay, UnderWayLabels
  <2> QED
    BY <2>1, <2>2, <1>same
<1>3. ASSUME NEW t \in Threads, Lock(t) PROVE NoLostWakeup'
  <2>1. Goto(t, AfterLock[pc[t]]) /\ UNCHANGED the_queue /\ pc[t] \in Locking
    BY <1>3 DEF Lock
  <2>2. AfterLock[pc[t]] # "w_wait"
    BY <2>1, AfterLockLabels
  <2>3. AfterLock[pc[t]] \in UnderWayLabels \/ t \notin UnderWay
    BY <2>1, AfterLockLabels DEF Locking, UnderWay, UnderWayLabels
  <2> QED
    BY <2>1, <2>2, <2>3, <1>same
<1>4. ASSUME NEW t \in Threads, Store(t) PROVE NoLostWakeup'
  <2>1. Goto(t, "p_unlock") /\ t \notin UnderWay
    BY <1>4 DEF Store, UnderWay, UnderWayLabels
  <2>2. UnderWay' = UnderWay \union {t} /\ Waiting' \subseteq Waiting
    BY <2>1, <1>0, Moves DEF UnderWayLabels
  <2>3. Cardinality(UnderWay') = Cardinality(UnderWay) + 1
    BY <2>1, <2>2, <1>card
  <2>4. Len(the_queue') = Len(the_queue) + 1
    <3>1. the_queue \in Seq(Data) /\ data[t] \in Data
      BY <1>0, <1>4 DEF TypeOK, Store, QInv, ValuesInPlace
    <3> QED
      BY <3>1, <1>4 DEF Store
  <2> QED
    BY <2>2, <2>3, <2>4, <1>0, <1>card, <1>types, KeepsPace
<1>5. ASSUME NEW t \in Threads, PushUnlock(t) PROVE NoLostWakeup'
  BY <1>5, <1>same DEF PushUnlock, UnderWayLabels
<1>6. ASSUME NEW t \in Threads, NotifyOne(t) PROVE NoLostWakeup'
  <2>1. CASE Waiting = {} /\ Goto(t, "idle")
    <3>1. Waiting' = {}
      BY <2>1, <1>0, Moves
    <3> QED
      BY <3>1 DEF NoLostWakeup
  <2>2. ASSUME NEW u \in Waiting,
               pc' = [pc EXCEPT ![t] = "idle", ![u] = "w_relock"]
        PROVE  NoLostWakeup'
    <3>1. u \in Threads /\ pc[u] = "w_wait" /\ pc[t] = "p_notify"
      BY <2>2, <1>6 DEF Waiting, NotifyOne
    <3>2. pc' = [x \in Threads |-> IF x = u THEN "w_relock"
                                  ELSE IF x = t THEN "idle" ELSE pc[x]]
      BY <2>2, <3>1, <1>0 DEF TypeOK
    <3>3. UnderWay' = (UnderWay \ {t}) \union {u} /\ Waiting' \subseteq Waiting
      BY <3>1, <3>2 DEF UnderWay, UnderWayLabels, Waiting
    <3>4. t \in UnderWay /\ u \notin UnderWay \ {t}
      BY <3>1 DEF UnderWay, UnderWayLabels
    <3>5. Cardinality(UnderWay \ {t}) = Cardinality(UnderWay) - 1
      BY <3>4, <1>card
    <3>6. IsFiniteSet(UnderWay \ {t})
      BY <1>card, FS_RemoveElement
    <3>7. Cardinality(UnderWay') = Cardinality(UnderWay \ {t}) + 1
      BY <3>3, <3>4, <3>6, FS_AddElement
    <3>8. Len(the_queue') = Len(the_queue)
      BY <1>6 DEF NotifyOne
    <3> QED
      BY <3>3, <3>5, <3>7, <3>8, <1>0, <1>card, <1>types, KeepsPace
  <2> QED
    BY <2>1, <2>2, <1>6 DEF NotifyOne
<1>7. ASSUME NEW t \in Threads, TryTest(t) PROVE NoLostWakeup'
  BY <1>7, <1>same DEF TryTest, UnderWay, UnderWayLabels
<1>8. ASSUME NEW t \in Threads, WaitTest(t) PROVE NoLostWakeup'
  <2>1. CASE the_queue = <<>>
    <3>1. Len(the_queue') = 0
      BY <2>1, <1>8 DEF WaitTest
    <3>2. Cardinality(UnderWay') \in Nat
      <4>1. UnderWay' = UnderWay \ {t}
        BY <2>1, <1>8, <1>0, Moves DEF WaitTest, UnderWayLabels
      <4> QED
        BY <4>1, <1>card, FS_RemoveElement, FS_CardinalityType
    <3> QED
      BY <3>1, <3>2 DEF NoLostWakeup
  <2>2. CASE the_queue # <<>>
    BY <2>2, <1>8, <1>same DEF WaitTest, UnderWayLabels
  <2> QED
    BY <2>1, <2>2
<1>9. ASSUME NEW t \in Threads, SpuriousWakeup(t) PROVE NoLostWakeup'
  BY <1>9, <1>same DEF SpuriousWakeup, UnderWayLabels
<1>10. ASSUME NEW t \in Threads, Front(t) PROVE NoLostWakeup'
  BY <1>10, <1>same DEF Front, UnderWayLabels
<1>11. ASSUME NEW t \in Threads, Pop(t) PROVE NoLostWakeup'
  <2>1. Goto(t, "unlock") /\ t \in UnderWay
    BY <1>11 DEF Pop, UnderWay, UnderWayLabels
  <2>2. UnderWay' = UnderWay \ {t} /\ Waiting' \subseteq Waiting
    BY <2>1, <1>0, Moves DEF UnderWayLabels
  <2>3. Cardinality(UnderWay') = Cardinality(UnderWay) - 1
    BY <2>1, <2>2, <1>card
  <2>4. Len(the_queue') = Len(the_queue) - 1
    <3>1. the_queue \in Seq(Data) /\ the_queue # <<>>
      BY <1>0, <1>11 DEF TypeOK, Pop, FrontExists
    <3> QED
      BY <3>1, <1>11 DEF Pop
  <2>5. Cardinality(UnderWay') \in Nat
    BY <2>2, <1>card, FS_RemoveElement, FS_CardinalityType
  <2> QED
    BY <2>2, <2>3, <2>4, <2>5, <1>0, <1>card, <1>types, KeepsPace
<1>12. ASSUME NEW t \in Threads, UnlockAndReturn(t) PROVE NoLostWakeup'
  BY <1>12, <1>same DEF UnlockAndReturn, UnderWay, UnderWayLabels
<1> QED
  BY <1>1, <1>2, <1>3, <1>4, <1>5, <1>6, <1>7, <1>8, <1>9, <1>10, <1>11, <1>12
  DEF Next, Run

\* While a thread sleeps in wait_and_pop, every element in the queue has a
\* thread under way that wakes a sleeper or looks at the queue itself.
THEOREM WakeupsAreKept == Spec => []NoLostWakeup
<1>1. Init => NoLostWakeup
  BY DEF Init, NoLostWakeup, Waiting
<1>2. QInv /\ NoLostWakeup /\ [Next]_vars => NoLostWakeup'
  BY NextNoLostWakeup
<1> QED
  BY <1>1, <1>2, AlwaysQInv, PTL DEF Spec

----------------------------------------------------------------------------
(* The refinement.                                                         *)

Popping == \E t \in Threads : pc[t] = "pop"
Items == IF Popping THEN Tail(the_queue) ELSE the_queue

\* Only the holder of the lock can be between the copy and the removal.
LEMMA OneInside ==
    ASSUME QInv, NEW t \in Threads, pc[t] \in Critical \ {"pop"}
    PROVE  ~Popping
  BY DEF QInv, LockDiscipline, Critical, Popping

\* A step that has nothing to do with the queue's contents is a stutter.
LEMMA ElsewhereStutters ==
    ASSUME QInv, NEW t \in Threads, NEW label, Goto(t, label),
           pc[t] # "pop", label # "pop", UNCHANGED <<the_queue, popped_value>>
    PROVE  Items' = Items /\ popped_value' = popped_value
<1>1. pc' = [u \in Threads |-> IF u = t THEN label ELSE pc[u]]
  BY DEF Goto, QInv, TypeOK
<1>2. Popping' <=> Popping
  BY <1>1 DEF Popping
<1> QED
  BY <1>2 DEF Items

LEMMA NextRefines ==
    ASSUME QInv, [Next]_vars
    PROVE  [FIFO!Next]_<<Items, popped_value>>
<1> DEFINE Goal == FIFO!Next \/ (Items' = Items /\ popped_value' = popped_value)
<1>0. TypeOK /\ LockDiscipline /\ FrontExists /\ ValuesInPlace
  BY DEF QInv
<1>1. CASE UNCHANGED vars
  BY <1>1 DEF vars, Items, Popping
<1>2. ASSUME NEW t \in Threads, Call(t) PROVE Goal
  <2>1. PICK label \in {"p_lock", "t_lock", "w_lock"} : Goto(t, label)
    BY <1>2 DEF Call
  <2> QED
    BY <1>2, <2>1, ElsewhereStutters DEF Call
<1>3. ASSUME NEW t \in Threads, Lock(t) PROVE Goal
  <2>1. AfterLock[pc[t]] # "pop" /\ pc[t] # "pop"
    BY <1>3, AfterLockLabels DEF Lock, Locking
  <2> QED
    BY <1>3, <2>1, ElsewhereStutters DEF Lock
<1>4. ASSUME NEW t \in Threads, Store(t) PROVE Goal
  <2>1. ~Popping
    BY <1>4, OneInside DEF Store, Critical
  <2>2. ~Popping'
    BY <1>0, <1>4, <2>1 DEF Store, Goto, Popping, TypeOK
  <2>3. Items' = Append(Items, data[t]) /\ popped_value' = popped_value
    BY <1>4, <2>1, <2>2 DEF Store, Items
  <2>4. data[t] \in Data
    BY <1>0, <1>4 DEF Store, ValuesInPlace
  <2> QED
    BY <2>3, <2>4 DEF FIFO!Next, FIFO!Push, Items, Popping
<1>5. ASSUME NEW t \in Threads, PushUnlock(t) PROVE Goal
  BY <1>5, ElsewhereStutters DEF PushUnlock
<1>6. ASSUME NEW t \in Threads, NotifyOne(t) PROVE Goal
  <2>1. Popping' <=> Popping
    BY <1>0, <1>6 DEF NotifyOne, Waiting, Goto, Popping, TypeOK
  <2> QED
    BY <1>6, <2>1 DEF NotifyOne, Items
<1>7. ASSUME NEW t \in Threads, TryTest(t) PROVE Goal
  BY <1>7, ElsewhereStutters DEF TryTest
<1>8. ASSUME NEW t \in Threads, WaitTest(t) PROVE Goal
  BY <1>8, ElsewhereStutters DEF WaitTest
<1>9. ASSUME NEW t \in Threads, SpuriousWakeup(t) PROVE Goal
  BY <1>9, ElsewhereStutters DEF SpuriousWakeup
<1>10. ASSUME NEW t \in Threads, Front(t) PROVE Goal
  <2>1. ~Popping /\ the_queue # <<>> /\ popped_value[t] = None
    BY <1>0, <1>10, OneInside DEF Front, Critical, FrontExists, ValuesInPlace
  <2>2. Popping'
    BY <1>0, <1>10 DEF Front, Goto, Popping, TypeOK
  <2>3. /\ Items = the_queue /\ Items' = Tail(the_queue)
        /\ popped_value' = [popped_value EXCEPT ![t] = Head(the_queue)]
    BY <1>10, <2>1, <2>2 DEF Front, Items
  <2>4. FIFO!Pop(t)
    BY <2>1, <2>3 DEF FIFO!Pop, Items, Popping
  <2> QED
    BY <2>4 DEF FIFO!Next
<1>11. ASSUME NEW t \in Threads, Pop(t) PROVE Goal
  <2>1. Popping
    BY <1>11 DEF Pop, Popping
  <2>2. the_mutex = t
    BY <1>0, <1>11 DEF Pop, LockDiscipline, Critical
  <2>3. \A u \in Threads : u # t => pc[u] # "pop"
    BY <1>0, <2>2 DEF LockDiscipline, Critical
  <2>4. ~Popping'
    BY <1>0, <1>11, <2>3 DEF Pop, Goto, Popping, TypeOK
  <2> QED
    BY <1>11, <2>1, <2>4 DEF Pop, Items
<1>12. ASSUME NEW t \in Threads, UnlockAndReturn(t) PROVE Goal
  <2>1. ~Popping
    BY <1>12, OneInside DEF UnlockAndReturn, Critical
  <2>2. ~Popping'
    BY <1>0, <1>12, <2>1 DEF UnlockAndReturn, Goto, Popping, TypeOK
  <2>3. /\ Items' = Items
        /\ popped_value' = [popped_value EXCEPT ![t] = None]
    BY <1>12, <2>1, <2>2 DEF UnlockAndReturn, Items
  <2>4. CASE popped_value[t] # None
    <3>1. FIFO!Return(t)
      BY <2>3, <2>4 DEF FIFO!Return, Items, Popping
    <3> QED
      BY <3>1 DEF FIFO!Next
  <2>5. CASE popped_value[t] = None
    BY <1>0, <2>3, <2>5 DEF TypeOK
  <2> QED
    BY <2>4, <2>5
<1>13. Goal
  BY <1>1, <1>2, <1>3, <1>4, <1>5, <1>6, <1>7, <1>8, <1>9, <1>10, <1>11, <1>12
  DEF Next, Run
<1> QED
  BY <1>13

\* ConcurrentQueueTpl is a FIFO queue: no element is lost, doubled or overtaken,
\* however the statements of the threads interleave.
THEOREM QueueIsFIFO == Spec => ImplementsFIFO
<1>1. Init => FIFO!Init
  BY DEF Init, FIFO!Init
<1>2. QInv /\ [Next]_vars =>
        [FIFO!Next]_<<IF \E t \in Threads : pc[t] = "pop" THEN Tail(the_queue)
                                                        ELSE the_queue,
                      popped_value>>
  BY NextRefines DEF Items, Popping
<1> QED
  BY <1>1, <1>2, AlwaysQInv, PTL DEF Spec, ImplementsFIFO, FIFO!Spec
=============================================================================
