--------------------------- MODULE ConcurrentQueue ---------------------------
(***************************************************************************)
(* EnjoLib's queue between threads, lib/Util/ConcurrentQueueTpl.hpp: a     *)
(* std::queue, a mutex that each method holds, and a condition variable on *)
(* which wait_and_pop sleeps while the queue is empty.                     *)
(*                                                                         *)
(* A thread calls push, try_pop or wait_and_pop whenever it likes; pc says *)
(* which statement of the method it has reached.  Every statement is a     *)
(* step of its own, those that the lock protects too.  empty() and size()  *)
(* change nothing and are left out.                                        *)
(***************************************************************************)
EXTENDS Naturals, Sequences, FiniteSets

CONSTANTS
    Threads,     \* the threads that share the queue
    Data,        \* the elements
    None,        \* no thread, no element
    MaxLength    \* bound: a client pushes only while the queue is shorter

ASSUME QueueAssumption ==
    /\ None \notin Threads \union Data
    /\ IsFiniteSet(Threads)
    /\ MaxLength \in Nat

VARIABLES
    the_queue,
    the_mutex,      \* the thread that holds the lock
    pc,
    data,           \* data[t]: the argument of t's push, until it is stored
    popped_value    \* popped_value[t]: the element that t's pop returns

vars == <<the_queue, the_mutex, pc, data, popped_value>>

\* Before std::lock_guard or unique_lock has the lock; "w_relock" is inside of
\* the_condition_variable.wait, after the wakeup.
Locking == {"p_lock", "t_lock", "w_lock", "w_relock"}

\* Slip: wait_and_pop tests the queue with an if, not with a while.
AfterLockNoLoop == [p_lock |-> "p_push", t_lock |-> "t_test",
                    w_lock |-> "w_test", w_relock |-> "front"]

\* What follows the lock.
AfterLock == [p_lock |-> "p_push", t_lock |-> "t_test",
              w_lock |-> "w_test", w_relock |-> "w_test"]

Critical == {"p_push", "p_unlock", "t_test", "w_test", "front", "pop", "unlock"}
Labels == Locking \union Critical \union {"idle", "p_notify", "w_wait"}

\* The threads asleep on the_condition_variable.
Waiting == {t \in Threads : pc[t] = "w_wait"}

Goto(t, label) == pc' = [pc EXCEPT ![t] = label]

----------------------------------------------------------------------------
\* A client's call.
Call(t) ==
    /\ pc[t] = "idle"
    /\ \/ \E d \in Data :
             /\ Len(the_queue)
                  + Cardinality({u \in Threads : pc[u] \in {"p_lock", "p_push"}})
                  < MaxLength
             /\ data' = [data EXCEPT ![t] = d]
             /\ Goto(t, "p_lock")
       \/ Goto(t, "t_lock") /\ UNCHANGED data
       \/ Goto(t, "w_lock") /\ UNCHANGED data
    /\ UNCHANGED <<the_queue, the_mutex, popped_value>>

Lock(t) ==
    /\ pc[t] \in Locking
    /\ the_mutex = None
    /\ the_mutex' = t
    /\ Goto(t, AfterLock[pc[t]])
    /\ UNCHANGED <<the_queue, data, popped_value>>

\* Slip: the other variable of the thread is stored.
StoreOther(t) ==
    /\ pc[t] = "p_push"
    /\ the_queue' = Append(the_queue, popped_value[t])
    /\ data' = [data EXCEPT ![t] = None]
    /\ Goto(t, "p_unlock")
    /\ UNCHANGED <<the_mutex, popped_value>>

\* push: the_queue.push(data), the end of the lock_guard's block, notify_one.
Store(t) ==
    /\ pc[t] = "p_push"
    /\ the_queue' = Append(the_queue, data[t])
    /\ data' = [data EXCEPT ![t] = None]
    /\ Goto(t, "p_unlock")
    /\ UNCHANGED <<the_mutex, popped_value>>

\* Slip: nobody is notified.
PushUnlockOnly(t) ==
    /\ pc[t] = "p_unlock"
    /\ the_mutex' = None
    /\ Goto(t, "idle")
    /\ UNCHANGED <<the_queue, data, popped_value>>

PushUnlock(t) ==
    /\ pc[t] = "p_unlock"
    /\ the_mutex' = None
    /\ Goto(t, "p_notify")
    /\ UNCHANGED <<the_queue, data, popped_value>>

\* Slip: only the push into an empty queue notifies.
NotifyIfFirst(t) ==
    /\ pc[t] = "p_notify"
    /\ \/ (Waiting = {} \/ Len(the_queue) # 1) /\ Goto(t, "idle")
       \/ /\ Len(the_queue) = 1
          /\ \E u \in Waiting :
                pc' = [pc EXCEPT ![t] = "idle", ![u] = "w_relock"]
    /\ UNCHANGED <<the_queue, the_mutex, data, popped_value>>

NotifyOne(t) ==
    /\ pc[t] = "p_notify"
    /\ \/ Waiting = {} /\ Goto(t, "idle")
       \/ \E u \in Waiting : pc' = [pc EXCEPT ![t] = "idle", ![u] = "w_relock"]
    /\ UNCHANGED <<the_queue, the_mutex, data, popped_value>>

\* Slip: try_pop returns with the lock.
TryTestKeepsLock(t) ==
    /\ pc[t] = "t_test"
    /\ Goto(t, IF the_queue = <<>> THEN "idle" ELSE "front")
    /\ UNCHANGED <<the_queue, the_mutex, data, popped_value>>

\* try_pop: an empty queue ends it.
TryTest(t) ==
    /\ pc[t] = "t_test"
    /\ Goto(t, IF the_queue = <<>> THEN "unlock" ELSE "front")
    /\ UNCHANGED <<the_queue, the_mutex, data, popped_value>>

\* wait_and_pop: the loop.  wait() gives the lock back and sleeps in one step.
WaitTest(t) ==
    /\ pc[t] = "w_test"
    /\ IF the_queue = <<>>
       THEN Goto(t, "w_wait") /\ the_mutex' = None
       ELSE Goto(t, "front") /\ UNCHANGED the_mutex
    /\ UNCHANGED <<the_queue, data, popped_value>>

\* A condition variable may wake a thread for no reason.
SpuriousWakeup(t) ==
    /\ pc[t] = "w_wait"
    /\ Goto(t, "w_relock")
    /\ UNCHANGED <<the_queue, the_mutex, data, popped_value>>

\* Slip: the last element pushed is returned.
FrontOfStack(t) ==
    /\ pc[t] = "front"
    /\ popped_value' = [popped_value EXCEPT ![t] = the_queue[Len(the_queue)]]
    /\ Goto(t, "pop")
    /\ UNCHANGED <<the_queue, the_mutex, data>>

\* Both pops: copy the front element, remove it, give the lock back and return.
Front(t) ==
    /\ pc[t] = "front"
    /\ popped_value' = [popped_value EXCEPT ![t] = Head(the_queue)]
    /\ Goto(t, "pop")
    /\ UNCHANGED <<the_queue, the_mutex, data>>

Pop(t) ==
    /\ pc[t] = "pop"
    /\ the_queue' = Tail(the_queue)
    /\ Goto(t, "unlock")
    /\ UNCHANGED <<the_mutex, data, popped_value>>

UnlockAndReturn(t) ==
    /\ pc[t] = "unlock"
    /\ the_mutex' = None
    /\ popped_value' = [popped_value EXCEPT ![t] = None]
    /\ Goto(t, "idle")
    /\ UNCHANGED <<the_queue, data>>

----------------------------------------------------------------------------
Init ==
    /\ the_queue = <<>>
    /\ the_mutex = None
    /\ pc = [t \in Threads |-> "idle"]
    /\ data = [t \in Threads |-> None]
    /\ popped_value = [t \in Threads |-> None]

\* A thread goes on with the method it has called.
Run(t) ==
    \/ Lock(t) \/ Store(t) \/ PushUnlock(t) \/ NotifyOne(t)
    \/ TryTest(t) \/ WaitTest(t) \/ Front(t) \/ Pop(t) \/ UnlockAndReturn(t)

Next == \E t \in Threads : Call(t) \/ Run(t) \/ SpuriousWakeup(t)

Spec == Init /\ [][Next]_vars

\* The scheduler runs every thread that can run.  Nobody has to call anything,
\* the lock need not be fair, and no spurious wakeup is relied upon.
LiveSpec == Spec /\ \A t \in Threads : WF_vars(Run(t))

----------------------------------------------------------------------------
(* Properties.                                                             *)

\* The variables have their types: what is in the queue was pushed.
TypeOK ==
    /\ the_queue \in Seq(Data)
    /\ the_mutex \in Threads \union {None}
    /\ pc \in [Threads -> Labels]
    /\ data \in [Threads -> Data \union {None}]
    /\ popped_value \in [Threads -> Data \union {None}]

\* The lock is held exactly while a thread is between lock and unlock, on every
\* way through the three methods, the early return of try_pop and the sleep of
\* wait_and_pop included; so two threads never touch the_queue at once.
LockDiscipline == \A t \in Threads : pc[t] \in Critical <=> the_mutex = t

\* front() and pop() of an empty std::queue are undefined: no thread gets to
\* them with an empty queue, whatever woke it and whoever was faster.
FrontExists == \A t \in Threads : pc[t] \in {"front", "pop"} => the_queue # <<>>

\* No wakeup is lost: while a thread sleeps, there are as many threads under
\* way as elements in the queue, each of which will either wake a sleeper or
\* look at the queue itself.
UnderWayLabels ==
    {"p_unlock", "p_notify", "w_lock", "w_relock", "w_test", "front", "pop"}
UnderWay == {t \in Threads : pc[t] \in UnderWayLabels}
NoLostWakeup == Waiting # {} => Len(the_queue) <= Cardinality(UnderWay)

\* The queue is a FIFO queue: a pop takes effect when it copies the front
\* element.
FIFO == INSTANCE FIFOQueue WITH
    items <- IF \E t \in Threads : pc[t] = "pop" THEN Tail(the_queue)
                                                 ELSE the_queue,
    got <- popped_value
ImplementsFIFO == FIFO!Spec

\* An element does not stay in the queue while a thread sleeps for one.
SleepersAreServed == []<>(the_queue = <<>> \/ Waiting = {})
=============================================================================
