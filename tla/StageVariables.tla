--------------------------- MODULE StageVariables ---------------------------
(***************************************************************************)
(* The variables of a TransX stage, for VariableList and TransXVariables:  *)
(* which there are, which view each belongs to, and what a plan may add.   *)
(***************************************************************************)
EXTENDS Integers, SequencesExt

CONSTANTS
    Base,      \* the variables of the stage, in the order of initialisevars
    BaseView,  \* BaseView[x]: the view x belongs to
    Groups,    \* sets of variables that are shown and hidden together
    Cells,     \* where variables of a plan can be allocated (a bound)
    PlanSizes, \* how many variables a plan can have, 0 for no plan
    Ships,     \* where entries of the ship list can be allocated (a bound)
    Views,     \* views an MFD can be in
    PlanView,  \* the view the variables of a plan belong to
    None       \* the null pointer

ASSUME VariablesAssumption ==
    /\ Base \in Seq(Range(Base)) /\ Base # <<>> /\ IsInjective(Base)
    /\ BaseView \in [Range(Base) -> Views]
    /\ IsFiniteSet(Cells) /\ Range(Base) \intersect Cells = {}
    /\ None \notin Range(Base) \union Cells \union Range(Ships) \union Views
    /\ PlanSizes \subseteq Nat
    /\ Ships \in Seq(Range(Ships)) /\ IsInjective(Ships)

\* The variables a plan can have: distinct ones, anywhere in the memory.
PlanLists == UNION {{xs \in [1 .. n -> Cells] : IsInjective(xs)} : n \in PlanSizes}

\* View v is to offer x, where the variables in visible are not hidden.
Offered(x, v, visible) ==
    IF x \in Range(Base) THEN BaseView[x] = v /\ x \in visible ELSE v = PlanView

\* The variables that no one hides.
AlwaysShown == Range(Base) \ UNION Groups
=============================================================================
