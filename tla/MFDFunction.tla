---------------------------- MODULE MFDFunction ----------------------------
(***************************************************************************)
(* TransX spreads its computations over the time steps.  An object that    *)
(* wants to compute puts itself in a queue (addaction), and one time step  *)
(* in two takes the first object out and lets it run (donextaction).  The  *)
(* objects are the flight plans, which live on, and the stages of a plan:  *)
(* a stage leaves the queue when it is put aside, and once more when it is *)
(* deleted.  The queue is a doubly linked list threaded through the        *)
(* objects, with one flag per object, allowedtowrite, that is down while   *)
(* the object waits.                                                       *)
(*                                                                         *)
(* TransXStages models the plans; here are just their stages, and what the *)
(* handlers do to the queue.  Nothing in TransX asks for a high priority   *)
(* action: the list of fast actions is always empty and is left out.       *)
(***************************************************************************)
EXTENDS Naturals, SequencesExt

CONSTANTS
    Ships,   \* ships with a plan; the name stands for the transxstate of the ship
    Stages,  \* where a stage can be allocated (a bound)
    MaxNew,  \* stages that a plan gets at a time (a bound)
    None     \* the null pointer

VARIABLES
    queue,       \* the static members and the pointers and flags of the objects
    baselist,    \* baselist[s]: the stages of the plan of s
    todeletelist \* todeletelist[s]: stages of s that are to be deleted

vars == <<queue, baselist, todeletelist>>

Objects == Ships \union Stages
Allocated == UNION {Range(baselist[s] \o todeletelist[s]) : s \in Ships}

-----------------------------------------------------------------------------
(* The methods.                                                            *)

\* Before any object waits.
EmptyQueue ==
    [firstslow |-> None, lastslow |-> None,
     next |-> [o \in Objects |-> None], previous |-> [o \in Objects |-> None],
     allowedtowrite |-> [o \in Objects |-> TRUE]]

\* addaction(0), called by o.
AddAction(q, o) ==
    IF ~q.allowedtowrite[o] THEN q ELSE
    [firstslow |-> IF q.firstslow = None THEN o ELSE q.firstslow,
     lastslow  |-> o,
     next      |-> IF q.lastslow = None THEN q.next
                   ELSE [q.next EXCEPT ![q.lastslow] = o],
     previous  |-> IF q.lastslow = None THEN q.previous
                   ELSE [q.previous EXCEPT ![o] = q.lastslow],
     allowedtowrite |-> [q.allowedtowrite EXCEPT ![o] = FALSE]]

\* o leaves the queue, whether it waits or not.  Its own pointers stay.
Delist(q, o) ==
    LET n == q.next[o]
        p == q.previous[o]
    IN  [firstslow |-> IF q.firstslow = o THEN n ELSE q.firstslow,
         lastslow  |-> IF q.lastslow = o THEN p ELSE q.lastslow,
         next      |-> IF p = None THEN q.next ELSE [q.next EXCEPT ![p] = n],
         previous  |-> IF n = None THEN q.previous ELSE [q.previous EXCEPT ![n] = p],
         allowedtowrite |-> [q.allowedtowrite EXCEPT ![o] = TRUE]]

\* doslowaction up to the action itself: o, which was first, no longer waits.
TakeFirst(q, o) ==
    LET n == q.next[o]
    IN  [firstslow |-> n,
         lastslow  |-> IF q.lastslow = o THEN None ELSE q.lastslow,
         next      |-> [q.next EXCEPT ![o] = None],
         previous  |-> [x \in DOMAIN q.previous |->
                            IF x \in {n, o} THEN None ELSE q.previous[x]],
         allowedtowrite |-> [q.allowedtowrite EXCEPT ![o] = TRUE]]

\* The constructor of o, whose memory held anything.
Construct(q, o) ==
    [q EXCEPT !.next[o] = None, !.previous[o] = None, !.allowedtowrite[o] = TRUE]

\* The destructor of o.  What its memory holds no longer matters.
Destruct(q, o) == Construct(Delist(q, o), o)

\* The objects met on the way from the first.
InOrder ==
    LET at[k \in 1 .. Cardinality(Objects)] ==
            IF k = 1 THEN queue.firstslow
            ELSE IF at[k - 1] = None THEN None ELSE queue.next[at[k - 1]]
    IN  {at[k] : k \in 1 .. Cardinality(Objects)} \ {None}

-----------------------------------------------------------------------------
(* Who calls them.                                                         *)

\* A stage of plan s is computed: a plan of slingshots asks for the stage before.
Calculate(q0, s, i) == {q0} \union (IF i > 1 THEN {AddAction(q0, baselist[s][i - 1])} ELSE {})

\* The ship has left its first stage, and that is deleted.
DropFirst(s) ==
    /\ Len(baselist[s]) > 1
    /\ baselist' = [baselist EXCEPT ![s] = Tail(@)]
    /\ UNCHANGED todeletelist

\* dolowpriaction of the plan of s: nothing before the plan has been shown and at
\* the end of a pass, the deletion of a stage, the computation of one, or that of
\* the second in the place of the first.
LowPriAction(s, q0) ==
    \/ queue' = q0 /\ UNCHANGED <<baselist, todeletelist>>
    \/ /\ todeletelist[s] # <<>>
       /\ queue' = AddAction(Destruct(q0, todeletelist[s][1]), s)
       /\ todeletelist' = [todeletelist EXCEPT ![s] = Tail(@)]
       /\ UNCHANGED baselist
    \/ /\ todeletelist[s] = <<>>
       /\ \E i \in DOMAIN baselist[s] : \E q1 \in Calculate(q0, s, i) :
            queue' = AddAction(q1, s)
       /\ UNCHANGED <<baselist, todeletelist>>
    \/ /\ todeletelist[s] = <<>>
       /\ DropFirst(s)
       /\ queue' = AddAction(Destruct(q0, baselist[s][1]), s)

\* The action of a stage is its computation.
StageAction(x, q0) ==
    /\ \E s \in Ships : \E i \in DOMAIN baselist[s] :
        baselist[s][i] = x /\ queue' \in Calculate(q0, s, i)
    /\ UNCHANGED <<baselist, todeletelist>>

\* donextaction.
DoNextAction ==
    /\ queue.firstslow # None
    /\ LET o  == queue.firstslow
           q0 == TakeFirst(queue, o)
       IN  IF o \in Ships THEN LowPriAction(o, q0) ELSE StageAction(o, q0)

\* backgroundaction, in the other time steps.
BackgroundAction(s) == DropFirst(s) /\ queue' = Destruct(queue, baselist[s][1])

\* An MFD that shows the plan of s asks for its computation,
Update(s) == queue' = AddAction(queue, s) /\ UNCHANGED <<baselist, todeletelist>>

\* and one that optimises a variable of a stage computes the plan at once.
Optimise(s) == baselist[s] # <<>> /\ LowPriAction(s, queue)

\* The plan of s from here on: its first k stages, and the new stages xs.  The
\* stages that came after the k-th are put aside.  (TransXStages tells the cases.)
Replan(s, k, xs) ==
    LET cut == SubSeq(baselist[s], k + 1, Len(baselist[s]))
    IN  /\ baselist' = [baselist EXCEPT ![s] = SubSeq(@, 1, k) \o xs]
        /\ todeletelist' = [todeletelist EXCEPT ![s] = @ \o cut]
        /\ LET q1 == FoldLeft(Construct, FoldLeft(Delist, queue, cut), xs)
           IN  queue' \in {AddAction(q1, s)} \union (IF cut = <<>> THEN {q1} ELSE {})

NewStages == {xs \in BoundedSeq(Stages \ Allocated, MaxNew) : IsInjective(xs)}

Init ==
    /\ queue = EmptyQueue
    /\ baselist = [s \in Ships |-> <<>>]
    /\ todeletelist = [s \in Ships |-> <<>>]

Next ==
    \/ DoNextAction
    \/ \E s \in Ships :
        \/ BackgroundAction(s)
        \/ Update(s)
        \/ Optimise(s)
        \/ \E k \in 0 .. Len(baselist[s]) : \E xs \in NewStages : Replan(s, k, xs)

Spec == Init /\ [][Next]_vars

-----------------------------------------------------------------------------
(* Claims.                                                                 *)

\* The flag tells that an action is outstanding (mfdfunction.h:34): an object whose
\* flag is down waits in the queue.
OneOutstanding == \A o \in Objects : ~queue.allowedtowrite[o] => o \in InOrder
=============================================================================
