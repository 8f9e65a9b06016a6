------------------------------ MODULE FIFOQueue ------------------------------
(***************************************************************************)
(* What ConcurrentQueueTpl promises its clients: a queue that every thread *)
(* may use at any time, and from which the elements come in the order they *)
(* were pushed in, each to one thread.  There are no locks here: each      *)
(* operation takes effect at once.                                         *)
(***************************************************************************)
EXTENDS Sequences

CONSTANTS Threads, Data, None

VARIABLES items,   \* the elements in the queue
          got      \* got[t]: the element a pop of t is about to return

Push == \E d \in Data : items' = Append(items, d) /\ UNCHANGED got

Pop(t) ==
    /\ items # <<>> /\ got[t] = None
    /\ items' = Tail(items)
    /\ got' = [got EXCEPT ![t] = Head(items)]

Return(t) ==
    /\ got[t] # None
    /\ got' = [got EXCEPT ![t] = None]
    /\ UNCHANGED items

Init == items = <<>> /\ got = [t \in Threads |-> None]

Next == Push \/ \E t \in Threads : Pop(t) \/ Return(t)

Spec == Init /\ [][Next]_<<items, got>>
=============================================================================
