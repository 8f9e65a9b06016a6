---------------------------- MODULE VariableList ----------------------------
(***************************************************************************)
(* What TransX's lists of variables promise.  A stage of a flight plan has *)
(* variables of its own and those of its plan, behind them.  Each view of  *)
(* the MFD shows one of them, and two buttons move on to the next and to   *)
(* the previous one of the view, around the list.  All MFDs that show the  *)
(* stage share this state.  The plan is replaced at any time, also by an   *)
(* MFD in another view.  On the ship's own page a list of ships takes the  *)
(* place of the stage.  Lists are sequences here and places in them are    *)
(* elements; TransXVariables has the pointers.                             *)
(***************************************************************************)
EXTENDS StageVariables

VARIABLES
    list,         \* the variables in their order
    showvariable, \* variables of the stage that are not hidden
    curpos,       \* where variterator is, None if it is nowhere
    currvariable, \* currvariable[v]: what view v has shown last
    currviewmode, \* the view that variterator belongs to
    shiplist,     \* the ships to inherit from
    shippos       \* where the ship list's iterator is

handler == <<list, showvariable, curpos, currvariable, currviewmode>>
vars    == <<handler, shiplist, shippos>>

-----------------------------------------------------------------------------
\* What view v shows, None for nothing.
Shown(v) == IF v = currviewmode THEN curpos
            ELSE IF currvariable[v] \in Range(list) THEN currvariable[v]
            ELSE None

\* The place of p in xs.
PlaceOf(xs, p) == CHOOSE i \in DOMAIN xs : xs[i] = p

\* All of xs once, from the neighbour of p on, or from an end if p is nowhere,
\* and at an end on to the other.
Onwards(xs, p) ==
    LET i == IF p = None THEN 0 ELSE PlaceOf(xs, p)
    IN  [k \in DOMAIN xs |-> xs[IF i + k <= Len(xs) THEN i + k ELSE i + k - Len(xs)]]
Backwards(xs, p) ==
    LET i == IF p = None THEN Len(xs) + 1 ELSE PlaceOf(xs, p)
    IN  [k \in DOMAIN xs |-> xs[IF i - k >= 1 THEN i - k ELSE i - k + Len(xs)]]

\* The first of xs that is offered in v; the first of all if none is.
FirstOffered(xs, v) ==
    LET hits == {k \in DOMAIN xs : Offered(xs[k], v, showvariable)}
    IN  IF hits = {} THEN xs[1] ELSE xs[CHOOSE k \in hits : \A j \in hits : k <= j]

\* View v moves to the first of ring that it offers.
MoveTo(v, ring) ==
    /\ curpos' = FirstOffered(ring, v)
    /\ currvariable' = [currvariable EXCEPT ![v] = FirstOffered(ring, v)]
    /\ currviewmode' = v
    /\ UNCHANGED <<list, showvariable, shiplist, shippos>>

\* The buttons of an MFD in view v.
SetNextCurrent(v) == MoveTo(v, Onwards(list, curpos))
SetPrevCurrent(v) == MoveTo(v, Backwards(list, curpos))

\* An MFD in view v draws, or looks which variable a button is for: a view that
\* has none looks for one.
GetCurrent(v) == v # currviewmode /\ Shown(v) = None /\ SetNextCurrent(v)

\* The plan is replaced by one with the variables xs, or deleted.
UpdatePlan(xs) ==
    /\ list' = Base \o xs
    /\ curpos' = IF curpos \in Range(Base) THEN curpos ELSE None
    /\ UNCHANGED <<showvariable, currvariable, currviewmode, shiplist, shippos>>

\* The variables of g are shown or hidden.
SetShow(g, show) ==
    /\ showvariable' = IF show THEN showvariable \union g ELSE showvariable \ g
    /\ UNCHANGED <<list, curpos, currvariable, currviewmode, shiplist, shippos>>

\* The ship list is made anew, of n ships, each put in front.
InitByBody(n) ==
    /\ shiplist' = Reverse(SubSeq(Ships, 1, n))
    /\ shippos' = IF n = 0 THEN None ELSE Ships[n]
    /\ UNCHANGED handler

\* The next or previous ship, or, past an end, none: a new plan.
TurnShips ==
    /\ LET n == Len(shiplist)
           at == IF shippos = None THEN 0 ELSE PlaceOf(shiplist, shippos)
       IN  \E to \in {IF at = n THEN 0 ELSE at + 1, IF at = 0 THEN n ELSE at - 1} :
              shippos' = IF to = 0 THEN None ELSE shiplist[to]
    /\ UNCHANGED <<handler, shiplist>>

Init ==
    /\ \E xs \in PlanLists : list = Base \o xs
    /\ showvariable = AlwaysShown
    /\ curpos = None
    /\ currvariable = [v \in Views |-> None]
    /\ currviewmode \in Views \union {None}
    /\ shiplist = <<>> /\ shippos = None

Next ==
    \/ \E v \in Views : SetNextCurrent(v) \/ SetPrevCurrent(v) \/ GetCurrent(v)
    \/ \E xs \in PlanLists : UpdatePlan(xs)
    \/ \E g \in Groups, show \in BOOLEAN : SetShow(g, show)
    \/ \E n \in 0 .. Len(Ships) : InitByBody(n)
    \/ TurnShips

Spec == Init /\ [][Next]_vars

-----------------------------------------------------------------------------
\* A step changes what at most one view shows.  A view that shows something goes
\* on showing it while the pilot presses buttons in other views, and while the
\* plan is replaced unless it shows a variable of the plan.
OwnCurrent ==
    [][\E v \in Views : \A w \in Views \ {v} :
          Shown(w) # None /\ (list' = list \/ Shown(w) \in Range(Base))
              => Shown(w)' = Shown(w)]_vars
=============================================================================
