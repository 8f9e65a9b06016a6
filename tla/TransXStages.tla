---------------------------- MODULE TransXStages ----------------------------
(***************************************************************************)
(* TransX's flight plans.  Each ship with a plan has a transxstate: the    *)
(* stages of the plan in order (baselist) and the stages that are put      *)
(* aside until a quiet moment to delete them (todeletelist).  Stages are   *)
(* linked to their neighbours.  An MFD shows one stage of its ship's plan, *)
(* the pilot moves forward and back, which creates and removes stages, or  *)
(* inherits the plan of another ship.  After every time step TransX either *)
(* runs an action that waits in a queue (donextaction) or looks whether    *)
(* one ship has left the stage it was in (backgroundaction).               *)
(*                                                                         *)
(* Where the ships are, and so what the functions that ask the simulator   *)
(* return, is chosen freely, and so is the waiting action that is run:     *)
(* MFDFunction models the queue.  A null pointer or a place outside of a   *)
(* list that is read is a `fault': the program is gone.                    *)
(***************************************************************************)
EXTENDS Integers, SequencesExt

CONSTANTS
    Ships,       \* vessels that can have a plan
    Stages,      \* where a basefunction can be allocated (a bound)
    MaxRestored, \* stages a restored plan can have (a bound)
    Screens,     \* MFDs that can be open at the same time
    None         \* the null pointer

ASSUME StagesAssumption ==
    /\ IsFiniteSet(Ships) /\ MaxRestored \in Nat
    /\ None \notin Ships \union Stages \union Nat

VARIABLES
    mapinit,      \* the map of the solar system has been initialised
    ships,        \* shipptrs: the ships that have a plan, the latest first
    current,      \* shipptrs::current, where the background task is
    choose,       \* the next time step belongs to the background task
    baselist,     \* baselist[s]: the stages of the plan of s
    todeletelist, \* todeletelist[s]: stages of s that are to be deleted
    previousfunc, \* links from stage to stage
    nextfunc,
    initflag,     \* initflag[s]: the plan of s has been shown
    currcalcfunction,  \* the index, from 0, of the stage to compute next, or -1
    mfd,          \* mfd[p]: the ship whose plan the MFD at p shows, or None
    valid,        \* MFDs that have shown their plan, and now take buttons
    view,         \* view[s][p]: the stage of s shown at p, 0 for the ship's own
                  \* settings, None if s has never been shown at p
    m_ships,      \* m_ships[s]: the ships s may inherit from, None before the first look
    fault         \* how the program has died, or None

lists == <<baselist, todeletelist, previousfunc, nextfunc>>
calc  == <<initflag, currcalcfunction>>
steps == <<mapinit, ships, current, choose>>
mfds  == <<mfd, valid, view, m_ships>>
vars  == <<lists, calc, steps, mfds, fault>>

Plans == UNION {Range(baselist[s]) : s \in Ships}
Aside == UNION {Range(todeletelist[s]) : s \in Ships}
Free  == Stages \ (Plans \union Aside)

\* Everything in its type.
TypeOK ==
    /\ mapinit \in BOOLEAN
    /\ ships \in Seq(Ships)
    /\ current \in Ships \union {None}
    /\ choose \in BOOLEAN
    /\ baselist \in [Ships -> Seq(Stages)]
    /\ todeletelist \in [Ships -> Seq(Stages)]
    /\ previousfunc \in [Stages -> Stages \union {None}]
    /\ nextfunc \in [Stages -> Stages \union {None}]
    /\ initflag \in [Ships -> BOOLEAN]
    /\ currcalcfunction \in [Ships -> Nat \union {-1}]
    /\ mfd \in [Screens -> Ships \union {None}]
    /\ valid \subseteq Screens
    /\ view \in [Ships -> [Screens -> Nat \union {None}]]
    /\ m_ships \in [Ships -> (SUBSET Ships) \union {None}]
    /\ fault \in {None, "no first stage", "no such stage", "no plan to inherit"}

-----------------------------------------------------------------------------
(* Plans and links.                                                        *)

\* The neighbours of y in xs, None where there is none.
Position(xs, y) == CHOOSE i \in DOMAIN xs : xs[i] = y
Before(xs, y) == IF Position(xs, y) = 1 THEN None ELSE xs[Position(xs, y) - 1]
Behind(xs, y) == IF Position(xs, y) = Len(xs) THEN None ELSE xs[Position(xs, y) + 1]

\* Slip: the stage before keeps its link.
NextWithoutOwn(xs) == [y \in Stages |-> IF y \in xs THEN None ELSE nextfunc[y]]

\* The links once the stages of xs are taken out, by onplaceindeletebuffer or
\* their destructor: each resets the links its own links lead to.
PreviousWithout(xs) ==
    [y \in Stages |-> IF y \in xs \/ (\E x \in xs : nextfunc[x] = y) THEN None ELSE previousfunc[y]]

NextWithout(xs) ==
    [y \in Stages |-> IF y \in xs \/ (\E x \in xs : previousfunc[x] = y) THEN None ELSE nextfunc[y]]

\* Slip: the stages that are put aside stay in the plan.
ReplanKeepsCut(s, k, xs) ==
    LET cut == SubSeq(baselist[s], k + 1, Len(baselist[s]))
    IN  /\ baselist' = [baselist EXCEPT ![s] = IF xs = <<>> THEN @ ELSE SubSeq(@, 1, k) \o xs]
        /\ todeletelist' = [todeletelist EXCEPT ![s] = @ \o cut]
        /\ previousfunc' = PreviousWithout(Range(cut))
        /\ nextfunc' = NextWithout(Range(cut))

\* The plan of s from here on: its first k stages, and the new stages xs, each
\* linked to the one before it.  The stages that came after the k-th are put aside.
Replan(s, k, xs) ==
    LET kept == SubSeq(baselist[s], 1, k)
        cut  == SubSeq(baselist[s], k + 1, Len(baselist[s]))
        plan == kept \o xs
        last == IF k = 0 \/ xs = <<>> THEN {} ELSE {kept[k]}
    IN  /\ baselist' = [baselist EXCEPT ![s] = plan]
        /\ todeletelist' = [todeletelist EXCEPT ![s] = @ \o cut]
        /\ previousfunc' = [y \in Stages |->
               IF y \in Range(xs) THEN Before(plan, y) ELSE PreviousWithout(Range(cut))[y]]
        /\ nextfunc' = [y \in Stages |->
               IF y \in Range(xs) \union last THEN Behind(plan, y)
               ELSE NextWithout(Range(cut))[y]]

\* (A bound.)  Memory is left for a stage of each ship whose plan has none.
MemoryLeft == Cardinality(Free) >= Cardinality({s \in Range(ships) : baselist[s] = <<>>})

\* n new stages.
NewStages(n) == {xs \in [1 .. n -> Free] : IsInjective(xs)}

\* initfunctions: the plan of s becomes one new stage, which every MFD shows.
InitFunctions(s) ==
    /\ \E xs \in NewStages(1) : Replan(s, 0, xs)
    /\ view' = [view EXCEPT ![s] =
                    [p \in Screens |-> IF view[s][p] = None THEN None ELSE 1]]
    /\ currcalcfunction' = [currcalcfunction EXCEPT ![s] = -1]

\* A null pointer is followed, or a place outside of a list is read.
Crash(how) ==
    /\ fault' = how
    /\ UNCHANGED <<lists, calc, steps, mfds>>

-----------------------------------------------------------------------------
(* Has the ship left its first stage?  checkbasefunction.                  *)

\* A plan that has no stage gets one, and one whose only stage the ship has left
\* begins anew (restartallfunctions).
BeginAnew(s) == Len(baselist[s]) < 2 /\ InitFunctions(s)

\* Slip: a plan that has no stage is left alone.
KeepAny(s) == UNCHANGED <<lists, view>>

\* The ship is where the plan says, or at least not yet where the next stage says.
Keep(s) == baselist[s] # <<>> /\ UNCHANGED <<lists, view>>

\* Slip: without downshift.
DropFirstOnly(s) ==
    LET first == baselist[s][1]
    IN  /\ Len(baselist[s]) > 1
        /\ baselist' = [baselist EXCEPT ![s] = Tail(@)]
        /\ previousfunc' = PreviousWithout({first})
        /\ nextfunc' = NextWithout({first})
        /\ UNCHANGED <<todeletelist, view>>

\* The ship has come to its second stage: the first is deleted, and what every
\* MFD shows moves down (downshift).
DropFirst(s) ==
    LET first == baselist[s][1]
    IN  /\ Len(baselist[s]) > 1
        /\ baselist' = [baselist EXCEPT ![s] = Tail(@)]
        /\ previousfunc' = PreviousWithout({first})
        /\ nextfunc' = NextWithout({first})
        /\ view' = [view EXCEPT ![s] =
                        [p \in Screens |-> IF view[s][p] \in {None, 0, 1} THEN view[s][p]
                                           ELSE view[s][p] - 1]]
        /\ UNCHANGED todeletelist

\* The background task looks at one ship at a time, in the order of the list.
BackgroundAction ==
    IF ~mapinit \/ ships = <<>> THEN UNCHANGED <<lists, view, currcalcfunction, current>>
    ELSE LET s == IF current = None THEN ships[1] ELSE current
             i == Position(ships, s)
         IN  /\ current' = IF i = Len(ships) THEN None ELSE ships[i + 1]
             /\ \/ BeginAnew(s)
                \/ (Keep(s) \/ DropFirst(s)) /\ UNCHANGED currcalcfunction

-----------------------------------------------------------------------------
(* The computation of a plan, which is spread over many steps.             *)

\* One stage that was put aside is deleted.
CheckDelete(s) ==
    LET x == todeletelist[s][1]
    IN  /\ todeletelist[s] # <<>>
        /\ todeletelist' = [todeletelist EXCEPT ![s] = Tail(@)]
        /\ previousfunc' = PreviousWithout({x})
        /\ nextfunc' = NextWithout({x})
        /\ UNCHANGED <<baselist, view, currcalcfunction, fault>>

\* A new pass over the plan begins with a look where the ship is, then its
\* first stage is computed.
BeginPass(s) ==
    /\ Keep(s) \/ DropFirst(s)
    /\ currcalcfunction' = [currcalcfunction EXCEPT ![s] = 1]
    /\ UNCHANGED fault

\* When that look begins the plan anew it leaves -1 in currcalcfunction, and
\* the plan is read there.
BeginPassAnew(s) ==
    /\ Len(baselist[s]) < 2
    /\ fault' = "no such stage"
    /\ UNCHANGED <<lists, view, currcalcfunction>>

\* The pass goes on, or has come to its end.
ContinuePass(s) ==
    /\ currcalcfunction' = [currcalcfunction EXCEPT ![s] =
                                IF @ < Len(baselist[s]) THEN @ + 1 ELSE -1]
    /\ UNCHANGED <<lists, view, fault>>

\* dolowpriaction.
DoLowPriAction(s) ==
    \/ ~initflag[s] /\ UNCHANGED <<lists, view, currcalcfunction, fault>>
    \/ /\ initflag[s]
       /\ \/ CheckDelete(s)
          \/ /\ todeletelist[s] = <<>>
             /\ IF currcalcfunction[s] < 0 THEN BeginPass(s) \/ BeginPassAnew(s)
                ELSE ContinuePass(s)

\* A waiting action is run: the map's, that of a plan, or that of a single
\* stage, which changes nothing here.
DoNextAction ==
    \/ mapinit' = TRUE /\ UNCHANGED <<lists, view, currcalcfunction, fault>>
    \/ UNCHANGED <<lists, view, currcalcfunction, mapinit, fault>>
    \/ \E s \in Range(ships) : DoLowPriAction(s) /\ UNCHANGED mapinit

\* opcPostStep, after every time step.
PostStep ==
    /\ choose' = ~choose
    /\ IF choose THEN BackgroundAction /\ UNCHANGED <<mapinit, fault>>
       ELSE DoNextAction /\ UNCHANGED current
    /\ UNCHANGED <<ships, initflag, mfd, valid, m_ships>>

-----------------------------------------------------------------------------
(* MFDs and the pilot.                                                     *)

\* An MFD opens for ship s, which gets a plan if it has none, and shows what
\* it showed there last time.
OpenMFD(p, s) ==
    /\ mfd[p] = None
    /\ mfd' = [mfd EXCEPT ![p] = s]
    /\ IF s \in Range(ships) \/ ~mapinit THEN UNCHANGED <<lists, currcalcfunction>>
       ELSE /\ \E xs \in NewStages(1) : Replan(s, 0, xs)
            /\ currcalcfunction' = [currcalcfunction EXCEPT ![s] = -1]
    /\ ships' = IF s \in Range(ships) THEN ships ELSE <<s>> \o ships
    /\ view' = IF view[s][p] # None THEN view ELSE [view EXCEPT ![s][p] = 1]
    /\ UNCHANGED <<mapinit, current, choose, initflag, valid, m_ships, fault>>

CloseMFD(p) ==
    /\ mfd[p] # None
    /\ mfd' = [mfd EXCEPT ![p] = None]
    /\ valid' = valid \ {p}
    /\ UNCHANGED <<lists, calc, steps, view, m_ships, fault>>

\* initbybody: the other ships of the list that are at the same body, which is
\* seen from the first stages of their plans.
InitByBody(s) ==
    LET others == Range(ships) \ {s}
    IN  IF \E t \in others : baselist[t] = <<>>
        THEN fault' = "no first stage" /\ UNCHANGED m_ships
        ELSE /\ \E c \in SUBSET others : m_ships' = [m_ships EXCEPT ![s] = c]
             /\ UNCHANGED fault

\* The MFD at p is redrawn with the ship's own settings,
UpdateSettings(p) ==
    LET s == mfd[p]
    IN  /\ view[s][p] = 0
        /\ IF m_ships[s] = None THEN InitByBody(s) ELSE UNCHANGED <<m_ships, fault>>
        /\ UNCHANGED <<lists, view, calc>>

\* or with a stage of the plan, the last if there are fewer than it showed,
UpdateStage(p) ==
    LET s == mfd[p]
        n == Len(baselist[s])
    IN  /\ view[s][p] > 0
        /\ initflag' = [initflag EXCEPT ![s] = TRUE]
        /\ \/ /\ n > 0
              /\ view' = [view EXCEPT ![s][p] = IF @ > n THEN n ELSE @]
              /\ UNCHANGED <<lists, currcalcfunction>>
           \/ n = 0 /\ InitFunctions(s)
        /\ UNCHANGED <<m_ships, fault>>

\* after which it takes buttons.
Update(p) ==
    /\ mfd[p] # None /\ mapinit
    /\ valid' = valid \union {p}
    /\ UpdateSettings(p) \/ UpdateStage(p)
    /\ UNCHANGED <<steps, mfd>>

Shows(s, p, v) == view' = [view EXCEPT ![s][p] = v]

\* The button FWD, when stage v is the last or its successor no longer agrees
\* with its target: what comes after is put aside, and if there is a target a
\* stage is made for it.
ForwardAnew(s, p, v) ==
    \/ Replan(s, v, <<>>) /\ Shows(s, p, v)
    \/ (\E xs \in NewStages(1) : Replan(s, v, xs)) /\ Shows(s, p, v + 1)

Forward(p) ==
    LET s == mfd[p]
        v == view[s][p]
        n == Len(baselist[s])
    IN  /\ p \in valid
        /\ \/ n = 0 /\ InitByBody(s) /\ Shows(s, p, 0) /\ UNCHANGED lists
           \/ /\ \/ n > 0 /\ v \notin 1 .. n /\ Shows(s, p, 1) /\ UNCHANGED lists
                 \/ v \in 1 .. n - 1 /\ Shows(s, p, v + 1) /\ UNCHANGED lists
                 \/ v \in 1 .. n /\ ForwardAnew(s, p, v)
              /\ UNCHANGED <<m_ships, fault>>
        /\ UNCHANGED <<calc, steps, mfd, valid>>

\* Slip: BCK does not ask where it is.
BackUnchecked(p) ==
    LET s == mfd[p]
    IN  /\ p \in valid
        /\ Shows(s, p, view[s][p] - 1)
        /\ UNCHANGED <<lists, calc, steps, mfd, valid, m_ships, fault>>

\* The button BCK.  Before the first stage are the ship's own settings.
Back(p) ==
    LET s == mfd[p]
        v == view[s][p]
        n == Len(baselist[s])
    IN  /\ p \in valid
        /\ \/ v = 1 /\ n > 0 /\ InitByBody(s) /\ Shows(s, p, 0)
           \/ /\ v # 1 \/ n = 0
              /\ Shows(s, p, IF v \in 1 .. n THEN v - 1 ELSE 1)
              /\ UNCHANGED <<m_ships, fault>>
        /\ UNCHANGED <<lists, calc, steps, mfd, valid>>

\* The command among the ship's settings: its plan is put aside, and replaced by
\* a copy of the plan of t if the two ships are at the same body.
Inherit(p) ==
    LET s == mfd[p]
    IN  /\ p \in valid /\ view[s][p] = 0 /\ m_ships[s] # None
        /\ \E t \in m_ships[s] :
            \/ baselist[t] = <<>> /\ Crash("no plan to inherit")
            \/ /\ baselist[t] # <<>>
               /\ \/ Replan(s, 0, <<>>) /\ UNCHANGED currcalcfunction
                  \/ /\ \E xs \in NewStages(Len(baselist[t])) : Replan(s, 0, xs)
                     /\ currcalcfunction' = [currcalcfunction EXCEPT ![s] = -1]
               /\ UNCHANGED <<initflag, steps, mfds, fault>>

\* A variable of a stage is optimised, for which the plan is computed again and again.
Optimise(p) ==
    LET s == mfd[p]
    IN  /\ p \in valid /\ view[s][p] > 0 /\ baselist[s] # <<>>
        /\ DoLowPriAction(s)
        /\ UNCHANGED <<initflag, steps, mfd, valid, m_ships>>

-----------------------------------------------------------------------------
\* The plans in the scenario are restored before the first time step.
Init ==
    /\ ships \in {q \in BoundedSeq(Ships, Cardinality(Ships)) : IsInjective(q)}
    /\ baselist \in {b \in [Ships -> {xs \in BoundedSeq(Stages, MaxRestored) : IsInjective(xs)}] :
                        /\ \A s \in Ships \ Range(ships) : b[s] = <<>>
                        /\ \A s, t \in Ships : s # t => Range(b[s]) \intersect Range(b[t]) = {}}
    /\ todeletelist = [s \in Ships |-> <<>>]
    /\ previousfunc = [y \in Stages |-> IF y \notin Plans THEN None ELSE
            LET s == CHOOSE s \in Ships : y \in Range(baselist[s]) IN Before(baselist[s], y)]
    /\ nextfunc = [y \in Stages |-> IF y \notin Plans THEN None ELSE
            LET s == CHOOSE s \in Ships : y \in Range(baselist[s]) IN Behind(baselist[s], y)]
    /\ mapinit = FALSE /\ current = None /\ choose = FALSE
    /\ initflag = [s \in Ships |-> FALSE]
    /\ currcalcfunction = [s \in Ships |-> IF baselist[s] = <<>> THEN 0 ELSE -1]
    /\ mfd = [p \in Screens |-> None] /\ valid = {}
    /\ view = [s \in Ships |-> [p \in Screens |-> None]]
    /\ m_ships = [s \in Ships |-> None]
    /\ fault = None
    /\ MemoryLeft

Next ==
    /\ fault = None
    /\ \/ PostStep
       \/ \E p \in Screens :
            \/ \E s \in Ships : OpenMFD(p, s)
            \/ CloseMFD(p)
            \/ Update(p)
            \/ Forward(p)
            \/ Back(p)
            \/ Inherit(p)
            \/ Optimise(p)
    /\ MemoryLeft'

Spec == Init /\ [][Next]_vars

\* Orbiter calls opcPostStep after every time step, as long as the program lives.
LiveSpec == Spec /\ WF_vars(fault = None /\ PostStep /\ MemoryLeft')

-----------------------------------------------------------------------------
(* Properties.                                                             *)

\* A stage is in one plan or waits to be deleted, once: no stage is deleted
\* twice, and none that a plan still has.
StagesOnce ==
    /\ \A s \in Ships : IsInjective(baselist[s] \o todeletelist[s])
    /\ \A s, t \in Ships : s # t =>
        Range(baselist[s] \o todeletelist[s]) \intersect Range(baselist[t] \o todeletelist[t]) = {}

\* Stages are linked to their neighbours in the plan, and others to nothing:
\* a stage is never computed from one that has been deleted.
LinksMatch ==
    /\ \A s \in Ships : \A i \in DOMAIN baselist[s] :
        /\ previousfunc[baselist[s][i]] = IF i = 1 THEN None ELSE baselist[s][i - 1]
        /\ nextfunc[baselist[s][i]] = IF i = Len(baselist[s]) THEN None ELSE baselist[s][i + 1]
    /\ \A y \in Stages \ Plans : previousfunc[y] = None /\ nextfunc[y] = None

\* An MFD goes on showing the stage it shows for as long as its plan has that
\* stage, whatever happens to the plan, unless its own buttons are pushed.
Shown(s, p) == IF view[s][p] \in DOMAIN baselist[s] THEN baselist[s][view[s][p]] ELSE None
ViewsFollow ==
    [][\A s \in Ships, p \in Screens :
        Shown(s, p) # None /\ Shown(s, p) \in Range(baselist'[s])
            => Shown(s, p)' = Shown(s, p) \/ Forward(p) \/ Back(p)]_vars

\* A ship with a plan that has no stage gets one again (or the program dies).
PlansComeBack ==
    \A s \in Ships : mapinit /\ s \in Range(ships) ~> baselist[s] # <<>> \/ fault # None
=============================================================================
