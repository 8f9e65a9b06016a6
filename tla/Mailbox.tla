------------------------------ MODULE Mailbox ------------------------------
(***************************************************************************)
(* What the modules of the simulator promise each other: whoever asks for  *)
(* a name gets what was put under it last, however the two spell it, until *)
(* it is deleted; also when its vessel is deleted in the meantime.  Values *)
(* are copied.  A structure is given by reference, to those that have been *)
(* built for the definition of what is at its place when they ask.  That   *)
(* the structure which was put is still there is not promised.             *)
(***************************************************************************)
EXTENDS MessageNames

VARIABLES
    values,  \* values[k][n]: what whoever asks for n of kind k gets
    sent,    \* sent[n]: the structure that was put under n
    memory,  \* what is at the places of structures
    given,   \* given[n][l]: the structure that whoever is built for l gets
    vessels  \* the vessels that exist

vars == <<values, sent, memory, given, vessels>>

Alike(n, m) == \A part \in 1 .. 3 : Fold[n[part]] = Fold[m[part]]

\* Who is given what, of what was sent and what is there.
Answers(s, mem) ==
    [n \in Names |-> [l \in Layouts |-> IF s[n] # None /\ mem[s[n]] = l THEN s[n] ELSE None]]

Put(k, n, c) ==
    /\ values' = [values EXCEPT ![k] = [m \in Names |-> IF Alike(n, m) THEN c ELSE @[m]]]
    /\ UNCHANGED <<sent, memory, given, vessels>>

Delete(k, n) == Put(k, n, None)

PutByRef(s, n) ==
    /\ sent' = [m \in Names |-> IF Alike(n, m) THEN s ELSE sent[m]]
    /\ given' = Answers(sent', memory)
    /\ UNCHANGED <<values, memory, vessels>>

DeleteByRef(n) == PutByRef(None, n)

\* Another structure, or something else, takes the place of s.
TakePlace(s, x) ==
    /\ memory' = [memory EXCEPT ![s] = x]
    /\ given' = Answers(sent, memory')
    /\ UNCHANGED <<values, sent, vessels>>

ChangeVessels ==
    /\ vessels' \subseteq VesselNames
    /\ UNCHANGED <<values, sent, memory, given>>

Init ==
    /\ values = [k \in Kinds |-> [n \in Names |-> None]]
    /\ sent = [n \in Names |-> None]
    /\ memory \in [Structs -> Layouts]
    /\ given = Answers(sent, memory)
    /\ vessels = VesselNames

Next ==
    \/ \E n \in Names :
          /\ n[1] \in vessels
          /\ \/ \E k \in Kinds : (\E c \in Values[k] : Put(k, n, c)) \/ Delete(k, n)
             \/ (\E s \in Structs : PutByRef(s, n)) \/ DeleteByRef(n)
    \/ \E s \in Structs, x \in Layouts \union {Freed} : TakePlace(s, x)
    \/ ChangeVessels

Spec == Init /\ [][Next]_vars
=============================================================================
