------------------------- MODULE ModuleMessagingExt -------------------------
(***************************************************************************)
(* ModuleMessagingExt: the library through which modules of the simulator  *)
(* read each other's variables.  The store has a map for each type, from   *)
(* names folded to lower case.  What is given by reference is a pointer,   *)
(* and the library looks at what it points to.                             *)
(*                                                                         *)
(* The modules are the library's environment.  A sender calls with a       *)
(* structure that is alive, and may destroy it at any time, with the       *)
(* vessel class it is part of or by itself: the library is not told.  The  *)
(* memory is then as it was, or used for something else, or in time taken  *)
(* by another structure.                                                   *)
(***************************************************************************)
EXTENDS MessageNames, Functions

VARIABLES
    maps,     \* m_bools, m_ints, ..., m_basepointers, by the kind of their values
    memory,   \* what is where structures are or have been
    live,     \* the structures that are not destroyed
    vessels   \* the vessels that exist

vars == <<maps, memory, live, vessels>>

-----------------------------------------------------------------------------
(* ModuleMessagingExtStor.                                                 *)

\* Slip: names are kept as they are spelled.
MakeIDAsSpelled(n) == n

MakeID(n) == <<Fold[n[1]], Fold[n[2]], Fold[n[3]]>>

\* SearchMap: whether it finds something.
InMap(k, n) == MakeID(n) \in DOMAIN maps[k]

PutInMap(k, n, c) ==
    maps' = [maps EXCEPT ![k] = [id \in DOMAIN @ \union {MakeID(n)} |->
                                    IF id = MakeID(n) THEN c ELSE @[id]]]

\* Whatever there is under the name goes.
SearchMapDelete(k, n) ==
    maps' = [maps EXCEPT ![k] = Restrict(@, DOMAIN @ \ {MakeID(n)})]

-----------------------------------------------------------------------------
(* ModuleMessagingExtPut.  A call that is refused returns false.           *)

ModMsgPut(k, n, c, iVer) ==
    /\ iVer = 1 /\ PutInMap(k, n, c)
    /\ UNCHANGED <<memory, live, vessels>>

ModMsgDelete(k, n, iVer) ==
    /\ iVer = 1 /\ SearchMapDelete(k, n)
    /\ UNCHANGED <<memory, live, vessels>>

\* IsCorrectVersion and IsCorrectSize, on what s points to.
Matches(s, l) == memory[s].version = l.version /\ memory[s].size = l.size

IsCorrectPtr(s, l, iVer) == iVer = 1 /\ Matches(s, l)

\* A sender that takes its structure s to be of definition l.
PutBasePtr(s, n, l, iVer) ==
    /\ IsCorrectPtr(s, l, iVer)
    /\ PutInMap(basepointers, n, s)
    /\ UNCHANGED <<memory, live, vessels>>

DeleteBasePtr(s, n, l, iVer) ==
    /\ IsCorrectPtr(s, l, iVer)
    /\ SearchMapDelete(basepointers, n)
    /\ UNCHANGED <<memory, live, vessels>>

-----------------------------------------------------------------------------
(* ModuleMessagingExt: what a reader gets, None where it is told `false'.  *)

ModMsgGet(k, n, iVer) == IF iVer = 1 /\ InMap(k, n) THEN maps[k][MakeID(n)] ELSE None

\* The reader has been built for definition l.  The type is looked at last.
ModMsgGetByRef(n, l, iVer) ==
    LET s == ModMsgGet(basepointers, n, iVer)
    IN  IF s # None /\ Matches(s, l) /\ memory[s].type = l.type THEN s ELSE None

-----------------------------------------------------------------------------
(* The modules' structures, and the simulator's vessels.                   *)

New(s, l) ==
    /\ s \notin live
    /\ live' = live \union {s}
    /\ memory' = [memory EXCEPT ![s] = l]
    /\ UNCHANGED <<maps, vessels>>

\* What is there may stay as it was: the compiler may drop a destructor's writes.
Destroy(s) ==
    /\ s \in live
    /\ live' = live \ {s}
    /\ memory' \in {memory, [memory EXCEPT ![s] = Freed]}
    /\ UNCHANGED <<maps, vessels>>

\* A vessel is deleted, or one of that name is made.
ChangeVessels ==
    /\ \E v \in VesselNames : vessels' \in {vessels \ {v}, vessels \union {v}}
    /\ UNCHANGED <<maps, memory, live>>

-----------------------------------------------------------------------------
Init ==
    /\ maps = [k \in Kinds \union {basepointers} |-> [id \in {} |-> None]]
    /\ memory \in [Structs -> Layouts]
    /\ live = {}
    /\ vessels = VesselNames

\* Calls for variables of the vessel n[1].
Call(n, iVer) ==
    \/ \E k \in Kinds : (\E c \in Values[k] : ModMsgPut(k, n, c, iVer)) \/ ModMsgDelete(k, n, iVer)
    \/ \E l \in Layouts, s \in live : PutBasePtr(s, n, l, iVer) \/ DeleteBasePtr(s, n, l, iVer)

Next ==
    \/ \E n \in Names, iVer \in IVers : n[1] \in vessels /\ Call(n, iVer)
    \/ \E s \in Structs : (\E l \in Layouts : New(s, l)) \/ Destroy(s)
    \/ ChangeVessels

Spec == Init /\ [][Next]_vars

-----------------------------------------------------------------------------
Contents(k) == IF k = basepointers THEN Structs ELSE Values[k]

TypeOK ==
    /\ DOMAIN maps = Kinds \union {basepointers}
    /\ \A k \in DOMAIN maps :
          maps[k] \in [DOMAIN maps[k] -> Contents(k)] /\ DOMAIN maps[k] \subseteq IDs
    /\ memory \in [Structs -> Layouts \union {Freed}]
    /\ live \subseteq Structs
    /\ vessels \subseteq VesselNames

-----------------------------------------------------------------------------
Board == INSTANCE Mailbox WITH
    values <- [k \in Kinds |-> [n \in Names |-> ModMsgGet(k, n, 1)]],
    sent   <- [n \in Names |-> ModMsgGet(basepointers, n, 1)],
    given  <- [n \in Names |-> [l \in Layouts |-> ModMsgGetByRef(n, l, 1)]]

\* Whoever asks for a name, in whatever spelling, gets what was put under it last
\* until it is deleted; a reader by reference gets it if what is there now, which
\* the library cannot tell from what was there, is of the definition the reader
\* was built for; and nothing but calls for that name, and what happens to the
\* memory of the structure put under it, changes what readers get.
StoreIsMailbox == Board!Spec
=============================================================================
