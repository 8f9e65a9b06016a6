---------------------------- MODULE MessageNames ----------------------------
(***************************************************************************)
(* What the modules of the simulator tell each other, for Mailbox and      *)
(* ModuleMessagingExt: names, values, and structures given by reference.   *)
(* A name is of a vessel, a module and a variable.  None contains the      *)
(* character that ModuleMessagingExt puts between the three.               *)
(***************************************************************************)
EXTENDS Integers

CONSTANTS
    VesselNames, ModuleNames, VarNames,
    Fold,         \* Fold[x]: x in lower case
    Kinds,        \* the types of the values
    Values,       \* Values[k]: the values of kind k
    basepointers, \* the kind of what is given by reference
    Structs,      \* where structures can be allocated (a bound)
    Layouts,      \* definitions of structures: version, size and type
    Freed,        \* what such a place looks like when it is used for something else
    IVers,        \* versions of the interface that callers ask for
    None          \* the null pointer

Words == VesselNames \union ModuleNames \union VarNames
Names == VesselNames \X ModuleNames \X VarNames
IDs   == Words \X Words \X Words

ASSUME MessagesAssumption ==
    /\ Fold \in [Words -> Words]
    /\ basepointers \notin Kinds
    /\ None \notin Structs
    /\ Layouts \union {Freed} \subseteq [version : Nat, size : Nat, type : STRING]
    /\ Freed \notin Layouts
    /\ IVers \subseteq Int
=============================================================================
