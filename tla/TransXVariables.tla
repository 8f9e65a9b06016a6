-------------------------- MODULE TransXVariables --------------------------
(***************************************************************************)
(* TransX's doubly linked lists (doublelink) and their two users: the      *)
(* handler of a stage's variables (MFDvarhandler), shared by all MFDs that *)
(* show the stage, and the list of ships to inherit from (MFDvarshiplist). *)
(*                                                                         *)
(* The elements of a list are members of other objects.  When one is       *)
(* destroyed it takes itself out of its list, and the list tells its       *)
(* iterators.  What is left in the memory of an element that is destroyed  *)
(* stays as it was until a new element takes its place.  The iterator that *)
(* loadallvariables leaks is left out: it is told, and never used.         *)
(***************************************************************************)
EXTENDS StageVariables

VARIABLES
    listhead,     \* the variables of the stage, with variterator
    planpointer,  \* the variables of the plan, in the order of the plan's init
    showvariable, \* variables of the stage that are not hidden
    currvariable, \* currvariable[v]: what view v has shown last
    currviewmode, \* the view of the last button or search; not initialised
    shiplisthead  \* the ships to inherit from, with their iterator

vars == <<listhead, planpointer, showvariable, currvariable, currviewmode, shiplisthead>>

-----------------------------------------------------------------------------
(* doublelink.  A list of elements: its ends, the links of the elements,   *)
(* the elements whose head it is, and the place of its iterator.           *)

NewList(elements) ==
    [first |-> None, last |-> None, curpos |-> None, members |-> {},
     next |-> [x \in elements |-> None], previous |-> [x \in elements |-> None]]

\* listelement's constructor.
NewElement(l, x) ==
    [l EXCEPT !.next[x] = None, !.previous[x] = None, !.members = @ \ {x}]

\* Slip: the end of the list stays where it was.
UncoupleKeepsLast(l, x) ==
    LET before == l.previous[x]
        behind == l.next[x]
    IN  [l EXCEPT !.next     = IF before = None THEN @ ELSE [@ EXCEPT ![before] = behind],
                  !.previous = IF behind = None THEN @ ELSE [@ EXCEPT ![behind] = before],
                  !.first    = IF x \in l.members /\ @ = x THEN behind ELSE @,
                  !.curpos   = IF x \in l.members /\ @ = x THEN None ELSE @]

\* x leaves its neighbours, and its list if it is in one.  Its own links stay.
Uncouple(l, x) ==
    LET before == l.previous[x]
        behind == l.next[x]
    IN  [l EXCEPT !.next     = IF before = None THEN @ ELSE [@ EXCEPT ![before] = behind],
                  !.previous = IF behind = None THEN @ ELSE [@ EXCEPT ![behind] = before],
                  !.first    = IF x \in l.members /\ @ = x THEN behind ELSE @,
                  !.last     = IF x \in l.members /\ @ = x THEN before ELSE @,
                  !.curpos   = IF x \in l.members /\ @ = x THEN None ELSE @]

AddEnd(l, x) ==
    LET u == Uncouple(l, x)
    IN  [u EXCEPT !.next     = [(IF u.last = None THEN @ ELSE [@ EXCEPT ![u.last] = x])
                                EXCEPT ![x] = None],
                  !.previous[x] = u.last,
                  !.first    = IF @ = None THEN x ELSE @,
                  !.last     = x,
                  !.members  = @ \union {x}]

AddFront(l, x) ==
    LET u == Uncouple(l, x)
    IN  [u EXCEPT !.previous = [(IF u.first = None THEN @ ELSE [@ EXCEPT ![u.first] = x])
                                EXCEPT ![x] = None],
                  !.next[x]  = u.first,
                  !.last     = IF @ = None THEN x ELSE @,
                  !.first    = x,
                  !.members  = @ \union {x}]

\* l after Op for each of xs in turn.
InTurn(Op(_, _), l, xs) ==
    LET after[i \in 0 .. Len(xs)] == IF i = 0 THEN l ELSE Op(after[i - 1], xs[i])
    IN  after[Len(xs)]

\* Elements are made, added and destroyed one by one.
NewElements(l, xs) == InTurn(NewElement, l, xs)
AddEnds(l, xs)     == InTurn(AddEnd, l, xs)
AddFronts(l, xs)   == InTurn(AddFront, l, xs)
Uncouples(l, xs)   == InTurn(Uncouple, l, xs)

\* The elements of the list, taken from the first on, along next.  No list is
\* longer than there are elements.
Elements(l) ==
    LET grow == [w \in Seq(DOMAIN l.next) |->
                   LET x == IF w = <<>> THEN l.first ELSE l.next[w[Len(w)]]
                   IN  IF x = None THEN w ELSE Append(w, x)]
        walk[n \in 0 .. Cardinality(DOMAIN l.next)] ==
            IF n = 0 THEN <<>> ELSE grow[walk[n - 1]]
    IN  walk[Cardinality(DOMAIN l.next)]

IsInList(l, x) == x \in Range(Elements(l))

\* empty: every element is deleted, its next one having been read before.
Empty(l) == Uncouples(l, Elements(l))

\* Where an iterator at x goes: from nowhere to an end, past an end to nowhere.
StepOn(l, x)   == IF x = None THEN l.first ELSE l.next[x]
StepBack(l, x) == IF x = None THEN l.last ELSE l.previous[x]

-----------------------------------------------------------------------------
(* MFDvarhandler.                                                          *)

\* The loop of setnextcurrent and setprevcurrent: an element that is offered ends
\* it, or being back at startpos.  loop[n] is where it is after n + 1 steps; no way
\* back is longer than there are places.
Search(step, startpos, v) ==
    LET size   == Cardinality(DOMAIN step)
        onward == [x \in DOMAIN step |->
                     IF x = startpos \/ (x # None /\ Offered(x, v, showvariable)) THEN x ELSE step[x]]
        loop[n \in 0 .. size] == IF n = 0 THEN step[startpos] ELSE onward[loop[n - 1]]
    IN  IF Offered(startpos, v, showvariable) THEN startpos ELSE loop[size]

\* Slip: the search does not note its view.
SearchKeepsView(step, v) ==
    LET neighbour == step[listhead.curpos]
        startpos  == IF neighbour = None THEN step[None] ELSE neighbour
        found     == Search(step, startpos, v)
    IN  /\ startpos # None
        /\ listhead' = [listhead EXCEPT !.curpos = found]
        /\ currvariable' = [currvariable EXCEPT ![v] = found]
        /\ UNCHANGED <<planpointer, showvariable, currviewmode, shiplisthead>>

\* The search from the neighbour of the iterator on, or past an end from the other:
\* step leads there from None.  Where it ends is where the iterator and view v are
\* then.
SearchFrom(step, v) ==
    LET neighbour == step[listhead.curpos]
        startpos  == IF neighbour = None THEN step[None] ELSE neighbour
        found     == Search(step, startpos, v)
    IN  /\ currviewmode' = v
        /\ startpos # None
        /\ listhead' = [listhead EXCEPT !.curpos = found]
        /\ currvariable' = [currvariable EXCEPT ![v] = found]
        /\ UNCHANGED <<planpointer, showvariable, shiplisthead>>

Places == Range(Base) \union Cells \union {None}
SetNextCurrent(v) == SearchFrom([x \in Places |-> StepOn(listhead, x)], v)
SetPrevCurrent(v) == SearchFrom([x \in Places |-> StepBack(listhead, x)], v)

\* Slip: the view's last variable is taken without looking for it in the list.
ShownUnchecked(v) == IF v = currviewmode THEN listhead.curpos ELSE currvariable[v]

\* What getcurrent returns for view v before it looks for another one.
Shown(v) == IF v = currviewmode THEN listhead.curpos
            ELSE IF IsInList(listhead, currvariable[v]) THEN currvariable[v]
            ELSE None

\* getcurrent(v): only one that finds nothing changes the state.
GetCurrent(v) == v # currviewmode /\ Shown(v) = None /\ SetNextCurrent(v)

\* plan::init: the variables xs are added.
InitPlan(l, xs) == AddEnds(l, xs)

\* updateplan, where the plan has changed: the old one is destroyed, its last
\* member first, and a new one is made, whose variables are at xs, perhaps where
\* the old ones were.
UpdatePlan(xs) ==
    LET without == Uncouples(listhead, Reverse(planpointer))
        made    == NewElements(without, xs)
    IN  /\ listhead' = InitPlan(made, xs)
        /\ planpointer' = xs
        /\ UNCHANGED <<showvariable, currvariable, currviewmode, shiplisthead>>

\* switchadvanced, switchmanoeuvremode: the variables of g are shown or hidden.
SetShow(g, show) ==
    /\ showvariable' = IF show THEN showvariable \union g ELSE showvariable \ g
    /\ UNCHANGED <<listhead, planpointer, currvariable, currviewmode, shiplisthead>>

-----------------------------------------------------------------------------
(* MFDvarshiplist.                                                         *)

\* initbybody: the list is emptied and made of n entries, each put in front.
InitByBody(n) ==
    LET made == NewElements(Empty(shiplisthead), SubSeq(Ships, 1, n))
        full == AddFronts(made, SubSeq(Ships, 1, n))
    IN  /\ shiplisthead' = [full EXCEPT !.curpos = full.first]
        /\ UNCHANGED <<listhead, planpointer, showvariable, currvariable, currviewmode>>

\* inc_variable and dec_variable.
TurnShips ==
    /\ \E to \in {StepOn(shiplisthead, shiplisthead.curpos),
                  StepBack(shiplisthead, shiplisthead.curpos)} :
          shiplisthead' = [shiplisthead EXCEPT !.curpos = to]
    /\ UNCHANGED <<listhead, planpointer, showvariable, currvariable, currviewmode>>

-----------------------------------------------------------------------------
\* A stage that is new, one that is restored with a plan, and a copy of another
\* stage, whose plan is initialised by clone and then once more.
Init ==
    /\ planpointer \in PlanLists
    /\ \E times \in 1 .. 2 :
          LET own == AddEnds(NewList(Range(Base) \union Cells), Base)
          IN  listhead = IF times = 1 THEN InitPlan(own, planpointer)
                         ELSE InitPlan(InitPlan(own, planpointer), planpointer)
    /\ showvariable = AlwaysShown
    /\ currvariable = [v \in Views |-> None]
    /\ currviewmode \in Views \union {None}
    /\ shiplisthead = NewList(Range(Ships))

Next ==
    \/ \E v \in Views : SetNextCurrent(v) \/ SetPrevCurrent(v) \/ GetCurrent(v)
    \/ \E xs \in PlanLists : UpdatePlan(xs)
    \/ \E g \in Groups, show \in BOOLEAN : SetShow(g, show)
    \/ \E n \in 0 .. Len(Ships) : InitByBody(n)
    \/ TurnShips

Spec == Init /\ [][Next]_vars

-----------------------------------------------------------------------------
(* What the lists promise.                                                 *)

\* The pointers as sequences and places.
Lists == INSTANCE VariableList WITH
    list     <- Elements(listhead),
    curpos   <- listhead.curpos,
    shiplist <- Elements(shiplisthead),
    shippos  <- shiplisthead.curpos

\* Every operation on the pointers (addend, addfront, uncouple, the iterators,
\* the searches, an element added twice) does to the sequences what it promises.
ListsArePointedTo == Lists!Spec

\* A view's variable is another's business neither while buttons are pressed in
\* other views nor, if it is the stage's own, while the plan is replaced.
OwnCurrent == Lists!OwnCurrent

\* getcurrent returns no pointer to a variable that is destroyed, however often
\* the plan is replaced, and whatever stale pointers the views keep.
ShownIsAlive ==
    \A v \in Views : Shown(v) \in Range(Base) \union Range(planpointer) \union {None}
=============================================================================
