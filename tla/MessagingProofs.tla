--------------------------- MODULE MessagingProofs ---------------------------
(***************************************************************************)
(* Theorems about ModuleMessagingExt, for any names, values, structures    *)
(* and definitions of structures.                                          *)
(***************************************************************************)
EXTENDS ModuleMessagingExt, TLAPS

LEMMA InitTypeOK == Init => TypeOK
  BY DEF Init, TypeOK, Contents

LEMMA IDsAreMade == ASSUME NEW n \in Names PROVE MakeID(n) \in IDs
<1>1. n[1] \in Words /\ n[2] \in Words /\ n[3] \in Words
  BY DEF Names, Words
<1> QED
  BY <1>1, MessagesAssumption DEF MakeID, IDs

-----------------------------------------------------------------------------
(* What the store's operations do to its maps.                             *)

LEMMA PutFacts ==
    ASSUME TypeOK, NEW k \in Kinds \union {basepointers}, NEW n \in Names,
           NEW c \in Contents(k), PutInMap(k, n, c)
    PROVE  /\ DOMAIN maps' = DOMAIN maps
           /\ \A j \in DOMAIN maps : j # k => maps'[j] = maps[j]
           /\ DOMAIN maps'[k] = DOMAIN maps[k] \union {MakeID(n)}
           /\ \A id \in DOMAIN maps'[k] :
                 maps'[k][id] = IF id = MakeID(n) THEN c ELSE maps[k][id]
           /\ \A j \in DOMAIN maps' :
                 maps'[j] \in [DOMAIN maps'[j] -> Contents(j)] /\ DOMAIN maps'[j] \subseteq IDs
<1>1. MakeID(n) \in IDs
  BY IDsAreMade
<1>2. k \in DOMAIN maps
  BY DEF TypeOK
<1>3. maps[k] \in [DOMAIN maps[k] -> Contents(k)] /\ DOMAIN maps[k] \subseteq IDs
  BY <1>2 DEF TypeOK
<1>4. /\ DOMAIN maps' = DOMAIN maps
      /\ \A j \in DOMAIN maps : j # k => maps'[j] = maps[j]
      /\ maps'[k] = [id \in DOMAIN maps[k] \union {MakeID(n)} |->
                        IF id = MakeID(n) THEN c ELSE maps[k][id]]
  BY <1>2 DEF PutInMap
<1>5. maps'[k] \in [DOMAIN maps'[k] -> Contents(k)] /\ DOMAIN maps'[k] \subseteq IDs
  BY <1>1, <1>3, <1>4
<1> QED
  BY <1>4, <1>5 DEF TypeOK

LEMMA DeleteFacts ==
    ASSUME TypeOK, NEW k \in Kinds \union {basepointers}, NEW n \in Names, SearchMapDelete(k, n)
    PROVE  /\ DOMAIN maps' = DOMAIN maps
           /\ \A j \in DOMAIN maps : j # k => maps'[j] = maps[j]
           /\ DOMAIN maps'[k] = DOMAIN maps[k] \ {MakeID(n)}
           /\ \A id \in DOMAIN maps'[k] : maps'[k][id] = maps[k][id]
           /\ \A j \in DOMAIN maps' :
                 maps'[j] \in [DOMAIN maps'[j] -> Contents(j)] /\ DOMAIN maps'[j] \subseteq IDs
<1>1. k \in DOMAIN maps
  BY DEF TypeOK
<1>2. maps[k] \in [DOMAIN maps[k] -> Contents(k)] /\ DOMAIN maps[k] \subseteq IDs
  BY <1>1 DEF TypeOK
<1>3. /\ DOMAIN maps' = DOMAIN maps
      /\ \A j \in DOMAIN maps : j # k => maps'[j] = maps[j]
      /\ maps'[k] = [id \in DOMAIN maps[k] \ {MakeID(n)} |-> maps[k][id]]
  BY <1>1 DEF SearchMapDelete, Restrict
<1>4. maps'[k] \in [DOMAIN maps'[k] -> Contents(k)] /\ DOMAIN maps'[k] \subseteq IDs
  BY <1>2, <1>3
<1> QED
  BY <1>3, <1>4 DEF TypeOK

-----------------------------------------------------------------------------
(* Types.                                                                  *)

\* A call for the names of the vessel n[1].
LEMMA CallPreserves ==
    ASSUME TypeOK, NEW n \in Names, NEW iVer \in IVers, Call(n, iVer)
    PROVE  TypeOK'
<1>1. ASSUME NEW k \in Kinds, NEW c \in Values[k], ModMsgPut(k, n, c, iVer) PROVE TypeOK'
  <2>1. c \in Contents(k)
    BY MessagesAssumption DEF Contents
  <2> QED
    BY <1>1, <2>1, PutFacts DEF TypeOK, ModMsgPut, Contents
<1>2. ASSUME NEW k \in Kinds, ModMsgDelete(k, n, iVer) PROVE TypeOK'
  BY <1>2, DeleteFacts DEF TypeOK, ModMsgDelete, Contents
<1>3. ASSUME NEW l \in Layouts, NEW s \in live, PutBasePtr(s, n, l, iVer) PROVE TypeOK'
  <2>1. s \in Contents(basepointers)
    BY DEF TypeOK, Contents
  <2> QED
    BY <1>3, <2>1, PutFacts DEF PutBasePtr, TypeOK, Contents
<1>4. ASSUME NEW l \in Layouts, NEW s \in live, DeleteBasePtr(s, n, l, iVer) PROVE TypeOK'
  BY <1>4, DeleteFacts DEF DeleteBasePtr, TypeOK, Contents
<1> QED
  BY <1>1, <1>2, <1>3, <1>4 DEF Call

LEMMA NextTypeOK == TypeOK /\ [Next]_vars => TypeOK'
<1> SUFFICES ASSUME TypeOK, [Next]_vars PROVE TypeOK'
  OBVIOUS
<1>1. CASE UNCHANGED vars
  BY <1>1 DEF vars, TypeOK
<1>2. ASSUME NEW n \in Names, NEW iVer \in IVers, Call(n, iVer) PROVE TypeOK'
  BY <1>2, CallPreserves
<1>3. ASSUME NEW s \in Structs, NEW l \in Layouts, New(s, l) PROVE TypeOK'
  BY <1>3 DEF New, TypeOK
<1>4. ASSUME NEW s \in Structs, Destroy(s) PROVE TypeOK'
  BY <1>4 DEF Destroy, TypeOK
<1>5. CASE ChangeVessels
  BY <1>5 DEF ChangeVessels, TypeOK
<1> QED
  BY <1>1, <1>2, <1>3, <1>4, <1>5 DEF Next

\* The maps are of folded names and of contents of their own kind, pointers lead to
\* places of structures, and these hold a definition or something else, whatever
\* senders put, delete and destroy.
THEOREM TypeCorrect == Spec => []TypeOK
<1> QED
  BY InitTypeOK, NextTypeOK, PTL DEF Spec

-----------------------------------------------------------------------------
(* The store implements the mailbox.  The mailbox's variables, by name:    *)

Read  == [k \in Kinds |-> [n \in Names |-> ModMsgGet(k, n, 1)]]
Sent  == [n \in Names |-> ModMsgGet(basepointers, n, 1)]
Given == [n \in Names |-> [l \in Layouts |-> ModMsgGetByRef(n, l, 1)]]

\* Two spellings of a name make one ID.
LEMMA AlikeAreOne == \A n, m \in Names : Board!Alike(n, m) <=> MakeID(n) = MakeID(m)
  BY DEF Board!Alike, MakeID

\* What readers get after a map has been changed.
LEMMA ReadAfterPut ==
    ASSUME TypeOK, NEW k \in Kinds \union {basepointers}, NEW n \in Names,
           NEW c \in Contents(k), PutInMap(k, n, c)
    PROVE  \A j \in Kinds \union {basepointers}, m \in Names :
              ModMsgGet(j, m, 1)' = IF j = k /\ Board!Alike(n, m) THEN c ELSE ModMsgGet(j, m, 1)
<1> TAKE j \in Kinds \union {basepointers}, m \in Names
<1>1. /\ j # k => maps'[j] = maps[j]
      /\ DOMAIN maps'[k] = DOMAIN maps[k] \union {MakeID(n)}
      /\ \A id \in DOMAIN maps'[k] : maps'[k][id] = IF id = MakeID(n) THEN c ELSE maps[k][id]
  BY PutFacts DEF TypeOK
<1> QED
  BY <1>1, AlikeAreOne DEF ModMsgGet, InMap, MakeID

LEMMA ReadAfterDelete ==
    ASSUME TypeOK, NEW k \in Kinds \union {basepointers}, NEW n \in Names, SearchMapDelete(k, n)
    PROVE  \A j \in Kinds \union {basepointers}, m \in Names :
              ModMsgGet(j, m, 1)' = IF j = k /\ Board!Alike(n, m) THEN None ELSE ModMsgGet(j, m, 1)
<1> TAKE j \in Kinds \union {basepointers}, m \in Names
<1>1. /\ j # k => maps'[j] = maps[j]
      /\ DOMAIN maps'[k] = DOMAIN maps[k] \ {MakeID(n)}
      /\ \A id \in DOMAIN maps'[k] : maps'[k][id] = maps[k][id]
  BY DeleteFacts DEF TypeOK
<1> QED
  BY <1>1, AlikeAreOne DEF ModMsgGet, InMap, MakeID

\* The checks of version, size and type amount to one of the definition, and the
\* library answers as the mailbox does: its pointers and the memory say it all.
LEMMA GivenIsAnswered == TypeOK => Given = Board!Answers(Sent, memory)
<1> SUFFICES ASSUME TypeOK, NEW n \in Names, NEW l \in Layouts
             PROVE  ModMsgGetByRef(n, l, 1) = IF Sent[n] # None /\ memory[Sent[n]] = l THEN Sent[n] ELSE None
  BY DEF Given, Board!Answers, Board!Names, Names
<1>1. Sent[n] = ModMsgGet(basepointers, n, 1)
  BY DEF Sent
<1>2. CASE Sent[n] = None
  BY <1>1, <1>2 DEF ModMsgGetByRef
<1>3. CASE Sent[n] # None
  <2>1. Sent[n] \in Structs
    BY <1>1, <1>3 DEF TypeOK, ModMsgGet, InMap, Contents
  <2>2. /\ memory[Sent[n]] \in [version : Nat, size : Nat, type : STRING]
        /\ l \in [version : Nat, size : Nat, type : STRING]
    <3>1. memory[Sent[n]] \in Layouts \union {Freed}
      BY <2>1 DEF TypeOK
    <3> QED
      BY <3>1, MessagesAssumption
  <2>3. (Matches(Sent[n], l) /\ memory[Sent[n]].type = l.type) <=> memory[Sent[n]] = l
    BY <2>2 DEF Matches
  <2> QED
    BY <1>1, <2>3 DEF ModMsgGetByRef
<1> QED
  BY <1>2, <1>3

LEMMA InitImplements == Init => Board!Init
<1> SUFFICES ASSUME Init PROVE Board!Init
  OBVIOUS
<1>1. \A k \in Kinds \union {basepointers}, n \in Names : ModMsgGet(k, n, 1) = None
  BY DEF Init, ModMsgGet, InMap
<1>2. Read = [k \in Kinds |-> [n \in Names |-> None]] /\ Sent = [n \in Names |-> None]
  BY <1>1 DEF Read, Sent
<1>3. Given = Board!Answers(Sent, memory)
  BY InitTypeOK, GivenIsAnswered
<1> QED
  BY <1>2, <1>3 DEF Init, Board!Init, Board!Names, Names, Read, Sent, Given

\* The same of the next state.
LEMMA GivenAnsweredNext == TypeOK' => Given' = Board!Answers(Sent', memory')
<1>1. (TypeOK => Given = Board!Answers(Sent, memory))'
  BY GivenIsAnswered, PTL
<1> QED
  BY <1>1 DEF Board!Answers

\* A step that leaves memory and what was sent alone leaves what is given alone.
LEMMA GivenUnchanged ==
    ASSUME TypeOK, TypeOK', Sent' = Sent, memory' = memory
    PROVE  Given' = Given
  BY GivenIsAnswered, GivenAnsweredNext

\* Each step of the store is one of the mailbox.
LEMMA CallImplements ==
    ASSUME TypeOK, TypeOK', NEW n \in Names, NEW iVer \in IVers, n[1] \in vessels, Call(n, iVer)
    PROVE  Board!Next
<1>1. ASSUME NEW k \in Kinds, NEW c \in Values[k], ModMsgPut(k, n, c, iVer) PROVE Board!Put(k, n, c)
  <2>1. k # basepointers /\ c \in Contents(k)
    BY MessagesAssumption DEF Contents
  <2>2. \A j \in Kinds \union {basepointers}, m \in Names :
            ModMsgGet(j, m, 1)' = IF j = k /\ Board!Alike(n, m) THEN c ELSE ModMsgGet(j, m, 1)
    BY <1>1, <2>1, ReadAfterPut DEF ModMsgPut
  <2>3. Sent' = Sent
    BY <2>1, <2>2 DEF Sent
  <2>4. Given' = Given
    BY <1>1, <2>3, GivenUnchanged DEF ModMsgPut
  <2>5. Read' = [Read EXCEPT ![k] = [m \in Names |-> IF Board!Alike(n, m) THEN c ELSE @[m]]]
    BY <2>2 DEF Read
  <2> QED
    BY <1>1, <2>3, <2>4, <2>5 DEF Board!Put, Board!Names, Names, ModMsgPut, Read, Sent, Given
<1>2. ASSUME NEW k \in Kinds, ModMsgDelete(k, n, iVer) PROVE Board!Delete(k, n)
  <2>1. k # basepointers
    BY MessagesAssumption
  <2>2. \A j \in Kinds \union {basepointers}, m \in Names :
            ModMsgGet(j, m, 1)' = IF j = k /\ Board!Alike(n, m) THEN None ELSE ModMsgGet(j, m, 1)
    BY <1>2, ReadAfterDelete DEF ModMsgDelete
  <2>3. Sent' = Sent
    BY <2>1, <2>2 DEF Sent
  <2>4. Given' = Given
    BY <1>2, <2>3, GivenUnchanged DEF ModMsgDelete
  <2>5. Read' = [Read EXCEPT ![k] = [m \in Names |-> IF Board!Alike(n, m) THEN None ELSE @[m]]]
    BY <2>2 DEF Read
  <2> QED
    BY <1>2, <2>3, <2>4, <2>5
    DEF Board!Delete, Board!Put, Board!Names, Names, ModMsgDelete, Read, Sent, Given
<1>3. ASSUME NEW l \in Layouts, NEW s \in live, PutBasePtr(s, n, l, iVer)
      PROVE  s \in Structs /\ Board!PutByRef(s, n)
  <2>1. s \in Structs /\ s \in Contents(basepointers)
    BY DEF TypeOK, Contents
  <2>2. \A j \in Kinds \union {basepointers}, m \in Names :
            ModMsgGet(j, m, 1)' =
                IF j = basepointers /\ Board!Alike(n, m) THEN s ELSE ModMsgGet(j, m, 1)
    BY <1>3, <2>1, ReadAfterPut DEF PutBasePtr
  <2>3. Read' = Read
    BY <2>2, MessagesAssumption DEF Read
  <2>4. Sent' = [m \in Names |-> IF Board!Alike(n, m) THEN s ELSE Sent[m]]
    BY <2>2 DEF Sent
  <2>5. Given' = Board!Answers(Sent', memory) /\ UNCHANGED <<memory, vessels>>
    BY <1>3, GivenAnsweredNext DEF PutBasePtr
  <2> QED
    BY <2>1, <2>3, <2>4, <2>5 DEF Board!PutByRef, Board!Names, Names, Read, Sent, Given
<1>4. ASSUME NEW l \in Layouts, NEW s \in live, DeleteBasePtr(s, n, l, iVer) PROVE Board!DeleteByRef(n)
  <2>1. \A j \in Kinds \union {basepointers}, m \in Names :
            ModMsgGet(j, m, 1)' =
                IF j = basepointers /\ Board!Alike(n, m) THEN None ELSE ModMsgGet(j, m, 1)
    BY <1>4, ReadAfterDelete DEF DeleteBasePtr
  <2>2. Read' = Read
    BY <2>1, MessagesAssumption DEF Read
  <2>3. Sent' = [m \in Names |-> IF Board!Alike(n, m) THEN None ELSE Sent[m]]
    BY <2>1 DEF Sent
  <2>4. Given' = Board!Answers(Sent', memory) /\ UNCHANGED <<memory, vessels>>
    BY <1>4, GivenAnsweredNext DEF DeleteBasePtr
  <2> QED
    BY <2>2, <2>3, <2>4 DEF Board!DeleteByRef, Board!PutByRef, Board!Names, Names, Read, Sent, Given
<1> QED
  BY <1>1, <1>2, <1>3, <1>4 DEF Call, Board!Next, Board!Names, Names

LEMMA NextImplements ==
    ASSUME TypeOK, TypeOK', [Next]_vars
    PROVE  [Board!Next]_(Board!vars)
<1>1. CASE UNCHANGED vars
  BY <1>1 DEF vars, Board!vars, ModMsgGet, ModMsgGetByRef, InMap, Matches
<1>2. ASSUME NEW n \in Names, NEW iVer \in IVers, n[1] \in vessels, Call(n, iVer) PROVE Board!Next
  BY <1>2, CallImplements
<1>3. ASSUME UNCHANGED maps PROVE Read' = Read /\ Sent' = Sent
  BY <1>3 DEF Read, Sent, ModMsgGet, InMap
<1>4. ASSUME NEW s \in Structs, NEW x \in Layouts \union {Freed},
             memory' = [memory EXCEPT ![s] = x], UNCHANGED <<maps, vessels>>
      PROVE  Board!TakePlace(s, x)
  BY <1>3, <1>4, GivenAnsweredNext DEF Board!TakePlace, Read, Sent, Given
<1>5. ASSUME NEW s \in Structs, NEW l \in Layouts, New(s, l) PROVE Board!Next
  BY <1>4, <1>5 DEF New, Board!Next
<1>6. ASSUME NEW s \in Structs, Destroy(s) PROVE [Board!Next]_(Board!vars)
  <2>1. CASE memory' = memory
    BY <1>6, <2>1, <1>3, GivenUnchanged DEF Destroy, Board!vars, Read, Sent, Given
  <2>2. CASE memory' = [memory EXCEPT ![s] = Freed]
    BY <1>4, <1>6, <2>2 DEF Destroy, Board!Next
  <2> QED
    BY <1>6, <2>1, <2>2 DEF Destroy
<1>7. CASE ChangeVessels
  <2>1. vessels' \subseteq VesselNames
    BY <1>7 DEF ChangeVessels, TypeOK
  <2>2. Read' = Read /\ Sent' = Sent /\ memory' = memory
    BY <1>3, <1>7 DEF ChangeVessels
  <2>3. Given' = Given
    BY <2>2, GivenUnchanged
  <2> QED
    BY <2>1, <2>2, <2>3 DEF Board!Next, Board!ChangeVessels, Read, Sent, Given
<1> QED
  BY <1>1, <1>2, <1>5, <1>6, <1>7 DEF Next

\* The library is a mailbox, whatever its senders do: readers get what was put
\* last and not deleted, in any spelling, and a pointer if what it points to at the
\* time, alive or not, is of the definition they expect.
THEOREM StoreImplementsMailbox == Spec => StoreIsMailbox
<1> QED
  BY InitTypeOK, NextTypeOK, InitImplements, NextImplements, PTL DEF Spec, StoreIsMailbox, Board!Spec
=============================================================================
