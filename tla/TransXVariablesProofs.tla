----------------------- MODULE TransXVariablesProofs -----------------------
(***************************************************************************)
(* The pointers of TransX's lists implement the lists of VariableList, and *)
(* no view shows a variable that is gone or is disturbed by another view,  *)
(* for any stage, plans, views and ships.                                  *)
(***************************************************************************)
EXTENDS TransXVariables, SequenceTheorems, FiniteSetTheorems, WellFoundedInduction, TLAPS

----------------------------------------------------------------------------
(* Induction, and functions that are defined by recursion.                 *)

\* A set of natural numbers that is not empty has a least one.
LEMMA LeastNumber ==
    ASSUME NEW T \in SUBSET Nat, T # {}
    PROVE  \E k \in T : \A j \in T : k <= j
<1>1. \E R : IsWellFoundedOn(R, Nat) /\ \A x, y \in Nat : <<x, y>> \in R <=> x < y
  <2> DEFINE Q == OpToRel(<, Nat)
  <2>1. Q = {ss \in Nat \X Nat : ss[1] < ss[2]}
    BY DEF OpToRel
  <2>2. \A x, y \in Nat : <<x, y>> \in Q <=> x < y
    BY <2>1
  <2>3. IsWellFoundedOn(Q, Nat)
    BY NatLessThanWellFounded
  <2> HIDE DEF Q
  <2> QED BY <2>2, <2>3
<1>2. PICK R : IsWellFoundedOn(R, Nat) /\ \A x, y \in Nat : <<x, y>> \in R <=> x < y
  BY <1>1
<1>3. PICK k \in T : \A j \in T : ~ (<<j, k>> \in R)
  <2>1. IsWellFoundedOn(R, Nat) /\ T \subseteq Nat /\ T # {}
    BY <1>2
  <2> QED BY <2>1, WFMin
<1>4. ASSUME NEW j \in T PROVE k <= j
  <2>1. j \in Nat /\ k \in Nat
    OBVIOUS
  <2>2. <<j, k>> \in R <=> j < k
    BY <1>2, <2>1
  <2>3. ~ (<<j, k>> \in R)
    BY <1>3
  <2>4. ~ (j < k)
    BY <2>2, <2>3
  <2> QED BY <2>1, <2>4
<1> QED BY <1>4

\* What holds of 0, and of n + 1 with n, holds of every number.
LEMMA InductionOverSets ==
    ASSUME NEW T \in SUBSET Nat, 0 \in T, \A n \in T : n + 1 \in T
    PROVE  \A n \in Nat : n \in T
<1> SUFFICES ASSUME Nat \ T # {} PROVE FALSE
  OBVIOUS
<1>1. PICK k \in Nat \ T : \A j \in Nat \ T : k <= j
  BY LeastNumber
<1>2. k - 1 \in Nat /\ ~(k <= k - 1) /\ (k - 1) + 1 = k
  BY <1>1
<1>3. k - 1 \in T
  BY <1>1, <1>2
<1> QED BY <1>1, <1>2, <1>3

\* A function can be applied again and again.
LEMMA Iterates ==
    ASSUME NEW S, NEW x \in S, NEW n \in Nat, NEW h \in [1 .. n -> [S -> S]]
    PROVE  \E g \in [0 .. n -> S] : g[0] = x /\ \A i \in 1 .. n : g[i] = h[i][g[i - 1]]
<1> DEFINE Some(k) == \E g \in [0 .. k -> S] : g[0] = x /\ \A i \in 1 .. k : g[i] = h[i][g[i - 1]]
           T == {k \in Nat : k <= n => Some(k)}
<1>1. 0 \in T
  <2> DEFINE g == [i \in 0 .. 0 |-> x]
  <2>1. g \in [0 .. 0 -> S] /\ g[0] = x /\ \A i \in 1 .. 0 : g[i] = h[i][g[i - 1]]
    OBVIOUS
  <2> QED BY <2>1
<1>2. ASSUME NEW k \in T PROVE k + 1 \in T
  <2> SUFFICES ASSUME k + 1 <= n PROVE Some(k + 1)
    <3> HIDE DEF Some
    <3> QED OBVIOUS
  <2>0. Some(k)
    <3> HIDE DEF Some
    <3> QED OBVIOUS
  <2>1. PICK f \in [0 .. k -> S] : f[0] = x /\ \A i \in 1 .. k : f[i] = h[i][f[i - 1]]
    BY <2>0
  <2> DEFINE g == [i \in 0 .. k + 1 |-> IF i <= k THEN f[i] ELSE h[k + 1][f[k]]]
  <2>2. k \in 0 .. k /\ f[k] \in S /\ k + 1 \in 1 .. n
    BY <2>1
  <2>3. h[k + 1] \in [S -> S]
    BY <2>2
  <2>4. h[k + 1][f[k]] \in S
    BY <2>2, <2>3
  <2>5. g \in [0 .. k + 1 -> S]
    BY <2>1, <2>4
  <2>6. g[0] = x
    BY <2>1
  <2>7. ASSUME NEW i \in 1 .. k + 1 PROVE g[i] = h[i][g[i - 1]]
    <3>1. CASE i <= k
      BY <2>1, <3>1
    <3>2. CASE i = k + 1
      BY <2>2, <3>2
    <3> QED BY <3>1, <3>2
  <2> QED BY <2>5, <2>6, <2>7
<1> HIDE DEF T, Some
<1>3. \A k \in Nat : k \in T
  <2>1. T \in SUBSET Nat
    BY DEF T
  <2> QED BY <1>1, <1>2, <2>1, InductionOverSets
<1> QED BY <1>3 DEF T, Some

----------------------------------------------------------------------------
(* One step on the pointers of a list, and what it does to the sequence.   *)

\* Lists whose elements are of E.
ListsOf(E) == [first : E \union {None}, last : E \union {None}, curpos : E \union {None},
               members : SUBSET E, next : [E -> E \union {None}], previous : [E -> E \union {None}]]

\* The pointers of l are those of the sequence q, and its iterator is in q.
Linked(l, q, E) ==
    /\ None \notin E /\ l \in ListsOf(E)
    /\ q \in Seq(E) /\ IsInjective(q) /\ Range(q) \subseteq l.members
    /\ l.first = IF Len(q) = 0 THEN None ELSE q[1]
    /\ l.last = IF Len(q) = 0 THEN None ELSE q[Len(q)]
    /\ \A i \in 1 .. Len(q) :
        /\ l.next[q[i]] = IF i = Len(q) THEN None ELSE q[i + 1]
        /\ l.previous[q[i]] = IF i = 1 THEN None ELSE q[i - 1]
    /\ l.curpos \in Range(q) \union {None}

\* x is linked to nothing, and in no list.
Single(l, x) == l.next[x] = None /\ l.previous[x] = None /\ x \notin l.members

\* q without its j-th element.
Without(q, j) == [i \in 1 .. Len(q) - 1 |-> IF i < j THEN q[i] ELSE q[i + 1]]

\* What there is to know of a sequence of elements of E.
LEMMA SequenceFacts ==
    ASSUME NEW E, NEW q \in Seq(E)
    PROVE  /\ Len(q) \in Nat /\ DOMAIN q = 1 .. Len(q) /\ q \in [1 .. Len(q) -> E]
           /\ Range(q) \subseteq E
           /\ \A x : x \in Range(q) <=> \E i \in 1 .. Len(q) : x = q[i]
BY LenProperties DEF Range

\* A function on 1 .. n is a sequence.
LEMMA ASequence ==
    ASSUME NEW E, NEW n \in Nat, NEW q, DOMAIN q = 1 .. n, q = [i \in 1 .. n |-> q[i]],
           \A i \in 1 .. n : q[i] \in E
    PROVE  q \in Seq(E) /\ Len(q) = n
<1>1. q \in [1 .. n -> E]
  OBVIOUS
<1> QED BY <1>1, LenProperties

\* The others stay, in their order.
LEMMA WithoutFacts ==
    ASSUME NEW E, NEW q \in Seq(E), IsInjective(q), NEW j \in 1 .. Len(q)
    PROVE  /\ Without(q, j) \in Seq(E) /\ Len(Without(q, j)) = Len(q) - 1
           /\ \A i \in 1 .. Len(q) - 1 : Without(q, j)[i] = IF i < j THEN q[i] ELSE q[i + 1]
           /\ IsInjective(Without(q, j))
           /\ Range(Without(q, j)) = Range(q) \ {q[j]}
<1> DEFINE w == Without(q, j)
           n == Len(q)
<1>1. n \in Nat /\ DOMAIN q = 1 .. n /\ (\A i \in 1 .. n : q[i] \in E) /\ j \in 1 .. n
  BY LenProperties
<1>2. w = [i \in 1 .. n - 1 |-> IF i < j THEN q[i] ELSE q[i + 1]]
  BY DEF Without
<1>3. \A x : x \in Range(q) <=> \E i \in 1 .. n : x = q[i]
  BY SequenceFacts
<1>4. \A a, b \in 1 .. n : q[a] = q[b] => a = b
  BY <1>1 DEF IsInjective
<1> HIDE DEF w, n
<1>5. n - 1 \in Nat /\ \A i \in 1 .. n - 1 : i \in 1 .. n /\ i + 1 \in 1 .. n
  BY <1>1
<1>6. w \in Seq(E) /\ Len(w) = n - 1
  BY <1>1, <1>2, <1>5, ASequence
<1>7. \A i \in 1 .. n - 1 : w[i] = IF i < j THEN q[i] ELSE q[i + 1]
  BY <1>2
<1>8. DOMAIN w = 1 .. n - 1
  BY <1>2
<1>9. ASSUME NEW a \in 1 .. n - 1, NEW b \in 1 .. n - 1, w[a] = w[b] PROVE a = b
  BY <1>1, <1>4, <1>5, <1>7, <1>9
<1>10. IsInjective(w)
  BY <1>8, <1>9 DEF IsInjective
<1>11. \A x : x \in Range(w) <=> \E i \in 1 .. n - 1 : x = w[i]
  BY <1>6, SequenceFacts
<1>12. ASSUME NEW x \in Range(w) PROVE x \in Range(q) \ {q[j]}
  <2>1. PICK i \in 1 .. n - 1 : x = w[i]
    BY <1>11
  <2> QED BY <1>1, <1>3, <1>4, <1>5, <1>7, <2>1
<1>13. ASSUME NEW x \in Range(q) \ {q[j]} PROVE x \in Range(w)
  <2>1. PICK i \in 1 .. n : x = q[i]
    BY <1>3
  <2>2. CASE i < j
    <3>1. i \in 1 .. n - 1
      BY <1>1, <2>2
    <3> QED BY <1>7, <1>11, <2>1, <2>2, <3>1
  <2>3. CASE i > j
    <3>1. i - 1 \in 1 .. n - 1 /\ ~(i - 1 < j) /\ (i - 1) + 1 = i
      BY <1>1, <2>3
    <3> QED BY <1>7, <1>11, <2>1, <3>1
  <2> QED BY <1>1, <2>1, <2>2, <2>3
<1> QED BY <1>6, <1>7, <1>10, <1>12, <1>13 DEF w, n

\* Uncouple keeps to the elements, wherever its links lead.
LEMMA UncoupleType ==
    ASSUME NEW E, None \notin E, NEW l \in ListsOf(E), NEW x \in E
    PROVE  Uncouple(l, x) \in ListsOf(E)
<1>1. l.previous[x] \in E \union {None} /\ l.next[x] \in E \union {None}
  BY DEF ListsOf
<1> QED BY <1>1 DEF ListsOf, Uncouple

\* An element leaves the list.
LEMMA UncoupleLinked ==
    ASSUME NEW E, NEW l, NEW q, Linked(l, q, E), NEW j \in 1 .. Len(q)
    PROVE  LET u == Uncouple(l, q[j])
           IN  /\ Linked(u, Without(q, j), E)
               /\ u.curpos = IF l.curpos = q[j] THEN None ELSE l.curpos
               /\ u.members = l.members
               /\ \A y \in E \ Range(q) : u.next[y] = l.next[y] /\ u.previous[y] = l.previous[y]
<1> DEFINE n == Len(q)
           x == q[j]
           w == Without(q, j)
           u == Uncouple(l, x)
           before == l.previous[x]
           behind == l.next[x]
<1>1. /\ None \notin E /\ l \in ListsOf(E) /\ q \in Seq(E) /\ IsInjective(q)
      /\ Range(q) \subseteq l.members
  BY DEF Linked
<1>2. /\ n \in Nat /\ DOMAIN q = 1 .. n /\ j \in 1 .. n
      /\ \A i \in 1 .. n : q[i] \in E /\ q[i] \in l.members /\ q[i] # None
  BY <1>1, SequenceFacts
<1>3. \A a, b \in 1 .. n : q[a] = q[b] => a = b
  BY <1>1, <1>2 DEF IsInjective
<1>4. /\ l.first = IF n = 0 THEN None ELSE q[1]
      /\ l.last = IF n = 0 THEN None ELSE q[n]
      /\ \A i \in 1 .. n : /\ l.next[q[i]] = IF i = n THEN None ELSE q[i + 1]
                           /\ l.previous[q[i]] = IF i = 1 THEN None ELSE q[i - 1]
      /\ l.curpos \in Range(q) \union {None}
  BY DEF Linked
<1>5. /\ w \in Seq(E) /\ Len(w) = n - 1 /\ IsInjective(w) /\ Range(w) = Range(q) \ {x}
      /\ \A i \in 1 .. n - 1 : w[i] = IF i < j THEN q[i] ELSE q[i + 1]
  BY <1>1, <1>2, WithoutFacts
<1>6. /\ l.next \in [E -> E \union {None}] /\ l.previous \in [E -> E \union {None}]
      /\ l.members \subseteq E
  BY <1>1 DEF ListsOf
<1>7. /\ before = IF j = 1 THEN None ELSE q[j - 1]
      /\ behind = IF j = n THEN None ELSE q[j + 1]
      /\ x \in l.members /\ x \in E
  BY <1>2, <1>4
<1>8. /\ u.next = IF before = None THEN l.next ELSE [l.next EXCEPT ![before] = behind]
      /\ u.previous = IF behind = None THEN l.previous ELSE [l.previous EXCEPT ![behind] = before]
      /\ u.first = IF l.first = x THEN behind ELSE l.first
      /\ u.last = IF l.last = x THEN before ELSE l.last
      /\ u.curpos = IF l.curpos = x THEN None ELSE l.curpos
      /\ u.members = l.members
  BY <1>1, <1>7 DEF Uncouple, ListsOf
<1>9. u \in ListsOf(E)
  BY <1>1, <1>7, UncoupleType
<1> HIDE DEF n, x, w, u, before, behind
<1>10. /\ j > 1 => before = q[j - 1] /\ before # None /\ before \in E
       /\ j < n => behind = q[j + 1] /\ behind # None /\ behind \in E
       /\ j = 1 => before = None
       /\ j = n => behind = None
  <2>1. j > 1 => j - 1 \in 1 .. n
    BY <1>2
  <2>2. j < n => j + 1 \in 1 .. n
    BY <1>2
  <2> QED BY <1>2, <1>7, <2>1, <2>2
<1>11. u.first = IF n - 1 = 0 THEN None ELSE w[1]
  <2>1. l.first = q[1]
    BY <1>2, <1>4
  <2>2. CASE j = 1
    <3>1. u.first = behind
      BY <1>8, <2>1, <2>2 DEF x
    <3>2. n > 1 => w[1] = q[2] /\ behind = q[2]
      BY <1>2, <1>5, <1>10, <2>2
    <3> QED BY <1>2, <1>10, <2>2, <3>1, <3>2
  <2>3. CASE j > 1
    <3>1. l.first # x
      BY <1>2, <1>3, <2>1, <2>3 DEF x
    <3>2. w[1] = q[1] /\ n - 1 # 0
      BY <1>2, <1>5, <2>3
    <3> QED BY <1>8, <2>1, <3>1, <3>2
  <2> QED BY <1>2, <2>2, <2>3
<1>12. u.last = IF n - 1 = 0 THEN None ELSE w[n - 1]
  <2>1. l.last = q[n] /\ n \in 1 .. n
    BY <1>2, <1>4
  <2>2. CASE j = n
    <3>1. u.last = before
      BY <1>8, <2>1, <2>2 DEF x
    <3>2. n > 1 => w[n - 1] = q[n - 1] /\ before = q[n - 1]
      BY <1>2, <1>5, <1>10, <2>2
    <3> QED BY <1>2, <1>10, <2>2, <3>1, <3>2
  <2>3. CASE j < n
    <3>1. l.last # x
      BY <1>2, <1>3, <2>1, <2>3 DEF x
    <3>2. n - 1 \in 1 .. n - 1 /\ ~(n - 1 < j) /\ (n - 1) + 1 = n
      BY <1>2, <2>3
    <3>3. w[n - 1] = q[n] /\ n - 1 # 0
      BY <1>2, <1>5, <2>3, <3>2
    <3> QED BY <1>8, <2>1, <3>1, <3>3
  <2> QED BY <1>2, <2>2, <2>3
<1>13. \A i \in 1 .. n : i # j - 1 => u.next[q[i]] = l.next[q[i]]
  BY <1>2, <1>3, <1>6, <1>8, <1>10
<1>14. \A i \in 1 .. n : i # j + 1 => u.previous[q[i]] = l.previous[q[i]]
  BY <1>2, <1>3, <1>6, <1>8, <1>10
<1>15. j > 1 => u.next[q[j - 1]] = behind
  BY <1>6, <1>8, <1>10
<1>16. j < n => u.previous[q[j + 1]] = before
  BY <1>6, <1>8, <1>10
<1>17. ASSUME NEW i \in 1 .. n - 1
       PROVE  /\ u.next[w[i]] = IF i = n - 1 THEN None ELSE w[i + 1]
              /\ u.previous[w[i]] = IF i = 1 THEN None ELSE w[i - 1]
  <2>1. i \in 1 .. n /\ i + 1 \in 1 .. n
    BY <1>2
  <2>2. i # n - 1 => i + 1 \in 1 .. n - 1 /\ (i + 1) + 1 \in 1 .. n
    BY <1>2
  <2>3. i # 1 => i - 1 \in 1 .. n - 1 /\ (i - 1) + 1 = i
    BY <1>2
  <2>4. CASE i < j
    <3>1. w[i] = q[i]
      BY <1>5, <2>4
    <3>2. u.previous[q[i]] = IF i = 1 THEN None ELSE q[i - 1]
      BY <1>2, <1>4, <1>14, <2>1, <2>4
    <3>3. i # 1 => w[i - 1] = q[i - 1]
      BY <1>2, <1>5, <2>3, <2>4
    <3>4. CASE i = j - 1
      <4>1. u.next[q[i]] = behind
        BY <1>2, <1>15, <2>4, <3>4
      <4>2. i # n - 1 => w[i + 1] = q[j + 1] /\ behind = q[j + 1]
        BY <1>2, <1>5, <1>10, <2>2, <3>4
      <4>3. i = n - 1 => behind = None
        BY <1>2, <1>10, <3>4
      <4> QED BY <3>1, <3>2, <3>3, <4>1, <4>2, <4>3
    <3>5. CASE i # j - 1
      <4>1. u.next[q[i]] = q[i + 1] /\ i # n - 1
        BY <1>2, <1>4, <1>13, <2>1, <2>4, <3>5
      <4>2. i + 1 < j /\ i + 1 \in 1 .. n - 1
        BY <1>2, <2>2, <2>4, <3>5, <4>1
      <4>3. w[i + 1] = q[i + 1]
        BY <1>5, <4>2
      <4> QED BY <3>1, <3>2, <3>3, <4>1, <4>3
    <3> QED BY <3>4, <3>5
  <2>5. CASE ~(i < j)
    <3>1. w[i] = q[i + 1]
      BY <1>5, <2>5
    <3>2. u.next[q[i + 1]] = IF i = n - 1 THEN None ELSE q[(i + 1) + 1]
      BY <1>2, <1>4, <1>13, <2>1, <2>5
    <3>3. i # n - 1 => w[i + 1] = q[(i + 1) + 1]
      BY <1>2, <1>5, <2>2, <2>5
    <3>4. CASE i = j
      <4>1. u.previous[q[i + 1]] = before
        BY <1>2, <1>16, <3>4
      <4>2. i # 1 => w[i - 1] = q[j - 1] /\ before = q[j - 1]
        BY <1>2, <1>5, <1>10, <2>3, <3>4
      <4>3. i = 1 => before = None
        BY <1>10, <3>4
      <4> QED BY <3>1, <3>2, <3>3, <4>1, <4>2, <4>3
    <3>5. CASE i # j
      <4>1. u.previous[q[i + 1]] = q[i] /\ i # 1
        BY <1>2, <1>4, <1>14, <2>1, <2>5, <3>5
      <4>2. w[i - 1] = q[i]
        BY <1>2, <1>5, <2>3, <2>5, <3>5, <4>1
      <4> QED BY <3>1, <3>2, <3>3, <4>1, <4>2
    <3> QED BY <3>4, <3>5
  <2> QED BY <2>4, <2>5
<1>18. u.curpos \in Range(w) \union {None}
  BY <1>4, <1>5, <1>8
<1>19. Linked(u, w, E)
  <2>1. Range(w) \subseteq u.members
    BY <1>1, <1>5, <1>8
  <2> QED BY <1>1, <1>5, <1>9, <1>11, <1>12, <1>17, <1>18, <2>1 DEF Linked
<1>20. ASSUME NEW y \in E \ Range(q) PROVE u.next[y] = l.next[y] /\ u.previous[y] = l.previous[y]
  <2>1. y # before /\ y # behind
    <3>1. \A i \in 1 .. n : q[i] \in Range(q)
      BY <1>1, SequenceFacts DEF n
    <3>2. (j > 1 => j - 1 \in 1 .. n) /\ (j < n => j + 1 \in 1 .. n)
      BY <1>2
    <3> QED BY <1>1, <1>2, <1>10, <1>20, <3>1, <3>2
  <2> QED BY <1>6, <1>8, <2>1
<1> QED BY <1>8, <1>19, <1>20 DEF u, w, x

\* x is put behind, or in front of, a list that it is not in.
AtEnd(l, x) ==
    [l EXCEPT !.next     = [(IF l.last = None THEN @ ELSE [@ EXCEPT ![l.last] = x]) EXCEPT ![x] = None],
              !.previous[x] = l.last,
              !.first    = IF @ = None THEN x ELSE @,
              !.last     = x,
              !.members  = @ \union {x}]
AtFront(l, x) ==
    [l EXCEPT !.previous = [(IF l.first = None THEN @ ELSE [@ EXCEPT ![l.first] = x]) EXCEPT ![x] = None],
              !.next[x]  = l.first,
              !.last     = IF @ = None THEN x ELSE @,
              !.first    = x,
              !.members  = @ \union {x}]

\* Both adds take the element out of the list first.
LEMMA AddsAtEnds == \A l, x : /\ AddEnd(l, x) = AtEnd(Uncouple(l, x), x)
                             /\ AddFront(l, x) = AtFront(Uncouple(l, x), x)
BY DEF AddEnd, AddFront, AtEnd, AtFront

\* A sequence of distinct elements grows by one.
LEMMA AppendFacts ==
    ASSUME NEW E, NEW q \in Seq(E), IsInjective(q), NEW x \in E, x \notin Range(q)
    PROVE  /\ Append(q, x) \in Seq(E) /\ Len(Append(q, x)) = Len(q) + 1
           /\ \A i \in 1 .. Len(q) + 1 : Append(q, x)[i] = IF i <= Len(q) THEN q[i] ELSE x
           /\ IsInjective(Append(q, x))
           /\ Range(Append(q, x)) = Range(q) \union {x}
<1> DEFINE w == Append(q, x)
           n == Len(q)
<1>1. n \in Nat /\ DOMAIN q = 1 .. n /\ \A i \in 1 .. n : q[i] \in E /\ q[i] # x
  BY SequenceFacts
<1>2. w \in Seq(E) /\ Len(w) = n + 1 /\ \A i \in 1 .. n + 1 : w[i] = IF i <= n THEN q[i] ELSE x
  BY AppendProperties
<1> HIDE DEF w
<1>3. \A y : y \in Range(q) <=> \E i \in 1 .. n : y = q[i]
  BY SequenceFacts
<1> HIDE DEF n
<1>4. DOMAIN w = 1 .. n + 1 /\ \A y : y \in Range(w) <=> \E i \in 1 .. n + 1 : y = w[i]
  BY <1>2, SequenceFacts
<1>5. \A a, b \in 1 .. n : q[a] = q[b] => a = b
  BY <1>1 DEF IsInjective
<1>6. ASSUME NEW a \in 1 .. n + 1, NEW b \in 1 .. n + 1, w[a] = w[b] PROVE a = b
  BY <1>1, <1>2, <1>5, <1>6
<1>7. \A i \in 1 .. n : i \in 1 .. n + 1 /\ w[i] = q[i]
  BY <1>1, <1>2
<1>8. n + 1 \in 1 .. n + 1 /\ w[n + 1] = x
  BY <1>1, <1>2
<1>9. Range(w) = Range(q) \union {x}
  <2>1. \A i \in 1 .. n + 1 : i \in 1 .. n \/ i = n + 1
    BY <1>1
  <2> QED BY <1>3, <1>4, <1>7, <1>8, <2>1
<1> QED BY <1>2, <1>4, <1>6, <1>9 DEF w, n, IsInjective

\* An element joins the list at its end.
LEMMA AtEndLinked ==
    ASSUME NEW E, NEW l, NEW q, Linked(l, q, E), NEW x \in E, x \notin Range(q)
    PROVE  LET u == AtEnd(l, x)
           IN  /\ Linked(u, Append(q, x), E)
               /\ u.curpos = l.curpos
               /\ u.members = l.members \union {x}
               /\ \A y \in E \ Range(Append(q, x)) :
                      u.next[y] = l.next[y] /\ u.previous[y] = l.previous[y]
<1> DEFINE n == Len(q)
           w == Append(q, x)
           u == AtEnd(l, x)
<1>1. /\ None \notin E /\ l \in ListsOf(E) /\ q \in Seq(E) /\ IsInjective(q)
      /\ Range(q) \subseteq l.members
  BY DEF Linked
<1>2. /\ n \in Nat /\ DOMAIN q = 1 .. n
      /\ \A i \in 1 .. n : q[i] \in E /\ q[i] \in Range(q) /\ q[i] # None /\ q[i] # x
  BY <1>1, SequenceFacts
<1>3. \A a, b \in 1 .. n : q[a] = q[b] => a = b
  BY <1>1, <1>2 DEF IsInjective
<1>4. /\ l.first = IF n = 0 THEN None ELSE q[1]
      /\ l.last = IF n = 0 THEN None ELSE q[n]
      /\ \A i \in 1 .. n : /\ l.next[q[i]] = IF i = n THEN None ELSE q[i + 1]
                           /\ l.previous[q[i]] = IF i = 1 THEN None ELSE q[i - 1]
      /\ l.curpos \in Range(q) \union {None}
  BY DEF Linked
<1>5. /\ w \in Seq(E) /\ Len(w) = n + 1 /\ IsInjective(w) /\ Range(w) = Range(q) \union {x}
      /\ \A i \in 1 .. n + 1 : w[i] = IF i <= n THEN q[i] ELSE x
  BY <1>1, AppendFacts
<1>6. /\ l.next \in [E -> E \union {None}] /\ l.previous \in [E -> E \union {None}]
      /\ l.members \subseteq E /\ l.last \in E \union {None} /\ l.first \in E \union {None}
      /\ l.curpos \in E \union {None}
  BY <1>1 DEF ListsOf
<1>7. /\ u.next = [(IF l.last = None THEN l.next ELSE [l.next EXCEPT ![l.last] = x]) EXCEPT ![x] = None]
      /\ u.previous = [l.previous EXCEPT ![x] = l.last]
      /\ u.first = IF l.first = None THEN x ELSE l.first
      /\ u.last = x
      /\ u.curpos = l.curpos
      /\ u.members = l.members \union {x}
  BY <1>1 DEF AtEnd, ListsOf
<1>8. u \in ListsOf(E)
  BY <1>1, <1>6 DEF AtEnd, ListsOf
<1> HIDE DEF n, w, u
<1>9. /\ n > 0 => l.last = q[n] /\ l.last # None /\ l.last \in E /\ l.last # x
      /\ n = 0 => l.last = None
      /\ n > 0 => l.first = q[1] /\ l.first # None
      /\ n = 0 => l.first = None
  BY <1>2, <1>4
<1>10. u.first = w[1]
  BY <1>2, <1>5, <1>7, <1>9
<1>11. u.last = w[n + 1]
  BY <1>2, <1>5, <1>7
<1>12. u.next[x] = None /\ u.previous[x] = l.last
  BY <1>6, <1>7
<1>13. \A y \in E : y # x /\ y # l.last => u.next[y] = l.next[y]
  BY <1>6, <1>7
<1>14. \A y \in E : y # x => u.previous[y] = l.previous[y]
  BY <1>6, <1>7
<1>15. n > 0 => u.next[q[n]] = x
  BY <1>6, <1>7, <1>9
<1>16. ASSUME NEW i \in 1 .. n + 1
       PROVE  /\ u.next[w[i]] = IF i = n + 1 THEN None ELSE w[i + 1]
              /\ u.previous[w[i]] = IF i = 1 THEN None ELSE w[i - 1]
  <2>1. CASE i = n + 1
    <3>1. w[i] = x
      BY <1>2, <1>5, <2>1
    <3>2. i # 1 => w[i - 1] = q[n] /\ n > 0
      BY <1>2, <1>5, <2>1
    <3> QED BY <1>2, <1>9, <1>12, <2>1, <3>1, <3>2
  <2>2. CASE i # n + 1
    <3>1. i \in 1 .. n /\ w[i] = q[i] /\ i + 1 \in 1 .. n + 1
      BY <1>2, <1>5, <2>2
    <3>2. u.previous[q[i]] = IF i = 1 THEN None ELSE q[i - 1]
      BY <1>2, <1>4, <1>14, <3>1
    <3>3. i # 1 => w[i - 1] = q[i - 1]
      BY <1>2, <1>5, <3>1
    <3>4. CASE i = n
      BY <1>2, <1>5, <1>15, <3>1, <3>2, <3>3, <3>4
    <3>5. CASE i # n
      <4>1. q[i] # l.last
        BY <1>2, <1>3, <1>9, <3>1, <3>5
      <4>2. u.next[q[i]] = q[i + 1]
        BY <1>2, <1>4, <1>13, <3>1, <3>5, <4>1
      <4>3. w[i + 1] = q[i + 1]
        BY <1>2, <1>5, <3>1, <3>5
      <4> QED BY <3>1, <3>2, <3>3, <4>2, <4>3
    <3> QED BY <3>4, <3>5
  <2> QED BY <2>1, <2>2
<1>17. Linked(u, w, E)
  <2>1. Range(w) \subseteq u.members
    BY <1>1, <1>5, <1>7
  <2>2. n + 1 # 0 /\ u.curpos \in Range(w) \union {None}
    BY <1>2, <1>4, <1>5, <1>7
  <2> QED BY <1>1, <1>5, <1>8, <1>10, <1>11, <1>16, <2>1, <2>2 DEF Linked
<1>18. ASSUME NEW y \in E \ Range(w) PROVE u.next[y] = l.next[y] /\ u.previous[y] = l.previous[y]
  <2>1. y # x /\ y # l.last
    <3>1. n > 0 => n \in 1 .. n /\ q[n] \in Range(q)
      BY <1>2
    <3> QED BY <1>1, <1>2, <1>5, <1>9, <1>18, <3>1
  <2> QED BY <1>13, <1>14, <2>1
<1> QED BY <1>7, <1>17, <1>18 DEF u, w

\* x in front of q.
InFront(x, q) == [i \in 1 .. Len(q) + 1 |-> IF i = 1 THEN x ELSE q[i - 1]]

\* A sequence of distinct elements grows by one in front.
LEMMA InFrontFacts ==
    ASSUME NEW E, NEW q \in Seq(E), IsInjective(q), NEW x \in E, x \notin Range(q)
    PROVE  /\ InFront(x, q) \in Seq(E) /\ Len(InFront(x, q)) = Len(q) + 1
           /\ \A i \in 1 .. Len(q) + 1 : InFront(x, q)[i] = IF i = 1 THEN x ELSE q[i - 1]
           /\ IsInjective(InFront(x, q))
           /\ Range(InFront(x, q)) = Range(q) \union {x}
<1> DEFINE w == InFront(x, q)
           n == Len(q)
<1>1. n \in Nat /\ DOMAIN q = 1 .. n /\ \A i \in 1 .. n : q[i] \in E /\ q[i] # x
  BY SequenceFacts
<1>2. w = [i \in 1 .. n + 1 |-> IF i = 1 THEN x ELSE q[i - 1]]
  BY DEF InFront
<1>3. \A y : y \in Range(q) <=> \E i \in 1 .. n : y = q[i]
  BY SequenceFacts
<1> HIDE DEF w, n
<1>4. n + 1 \in Nat /\ \A i \in 1 .. n + 1 : i # 1 => i - 1 \in 1 .. n
  BY <1>1
<1>5. w \in Seq(E) /\ Len(w) = n + 1
  BY <1>1, <1>2, <1>4, ASequence
<1>6. \A i \in 1 .. n + 1 : w[i] = IF i = 1 THEN x ELSE q[i - 1]
  BY <1>2
<1>7. DOMAIN w = 1 .. n + 1 /\ \A y : y \in Range(w) <=> \E i \in 1 .. n + 1 : y = w[i]
  BY <1>5, SequenceFacts
<1>8. \A a, b \in 1 .. n : q[a] = q[b] => a = b
  BY <1>1 DEF IsInjective
<1>9. ASSUME NEW a \in 1 .. n + 1, NEW b \in 1 .. n + 1, w[a] = w[b] PROVE a = b
  BY <1>1, <1>4, <1>6, <1>8, <1>9
<1>10. \A i \in 1 .. n : i + 1 \in 1 .. n + 1 /\ w[i + 1] = q[i]
  BY <1>1, <1>6
<1>11. Range(w) = Range(q) \union {x}
  <2>1. 1 \in 1 .. n + 1 /\ w[1] = x
    BY <1>1, <1>6
  <2>2. \A i \in 1 .. n + 1 : i # 1 => w[i] = q[i - 1]
    BY <1>6
  <2> QED BY <1>3, <1>4, <1>7, <1>10, <2>1, <2>2
<1> QED BY <1>5, <1>6, <1>7, <1>9, <1>11 DEF w, n, IsInjective

\* An element joins the list in front.
LEMMA AtFrontLinked ==
    ASSUME NEW E, NEW l, NEW q, Linked(l, q, E), NEW x \in E, x \notin Range(q)
    PROVE  LET u == AtFront(l, x)
           IN  /\ Linked(u, InFront(x, q), E)
               /\ u.curpos = l.curpos
               /\ u.members = l.members \union {x}
               /\ \A y \in E \ Range(InFront(x, q)) :
                      u.next[y] = l.next[y] /\ u.previous[y] = l.previous[y]
<1> DEFINE n == Len(q)
           w == InFront(x, q)
           u == AtFront(l, x)
<1>1. /\ None \notin E /\ l \in ListsOf(E) /\ q \in Seq(E) /\ IsInjective(q)
      /\ Range(q) \subseteq l.members
  BY DEF Linked
<1>2. /\ n \in Nat /\ DOMAIN q = 1 .. n
      /\ \A i \in 1 .. n : q[i] \in E /\ q[i] \in Range(q) /\ q[i] # None /\ q[i] # x
  BY <1>1, SequenceFacts
<1>3. \A a, b \in 1 .. n : q[a] = q[b] => a = b
  BY <1>1, <1>2 DEF IsInjective
<1>4. /\ l.first = IF n = 0 THEN None ELSE q[1]
      /\ l.last = IF n = 0 THEN None ELSE q[n]
      /\ \A i \in 1 .. n : /\ l.next[q[i]] = IF i = n THEN None ELSE q[i + 1]
                           /\ l.previous[q[i]] = IF i = 1 THEN None ELSE q[i - 1]
      /\ l.curpos \in Range(q) \union {None}
  BY DEF Linked
<1>5. /\ w \in Seq(E) /\ Len(w) = n + 1 /\ IsInjective(w) /\ Range(w) = Range(q) \union {x}
      /\ \A i \in 1 .. n + 1 : w[i] = IF i = 1 THEN x ELSE q[i - 1]
  BY <1>1, InFrontFacts
<1>6. /\ l.next \in [E -> E \union {None}] /\ l.previous \in [E -> E \union {None}]
      /\ l.members \subseteq E /\ l.last \in E \union {None} /\ l.first \in E \union {None}
      /\ l.curpos \in E \union {None}
  BY <1>1 DEF ListsOf
<1>7. /\ u.previous = [(IF l.first = None THEN l.previous ELSE [l.previous EXCEPT ![l.first] = x])
                       EXCEPT ![x] = None]
      /\ u.next = [l.next EXCEPT ![x] = l.first]
      /\ u.last = IF l.last = None THEN x ELSE l.last
      /\ u.first = x
      /\ u.curpos = l.curpos
      /\ u.members = l.members \union {x}
  BY <1>1 DEF AtFront, ListsOf
<1>8. u \in ListsOf(E)
  BY <1>1, <1>6 DEF AtFront, ListsOf
<1> HIDE DEF n, w, u
<1>9. /\ n > 0 => l.first = q[1] /\ l.first # None /\ l.first \in E /\ l.first # x
      /\ n = 0 => l.first = None
      /\ n > 0 => l.last = q[n] /\ l.last # None
      /\ n = 0 => l.last = None
  <2>1. n > 0 => 1 \in 1 .. n /\ n \in 1 .. n
    BY <1>2
  <2> QED BY <1>2, <1>4, <2>1
<1>10. u.last = w[n + 1]
  <2>1. n + 1 \in 1 .. n + 1 /\ (n + 1) - 1 = n /\ (n + 1 = 1 <=> n = 0)
    BY <1>2
  <2> QED BY <1>2, <1>5, <1>7, <1>9, <2>1
<1>11. u.first = w[1]
  BY <1>2, <1>5, <1>7
<1>12. u.previous[x] = None /\ u.next[x] = l.first
  BY <1>6, <1>7
<1>13. \A y \in E : y # x /\ y # l.first => u.previous[y] = l.previous[y]
  BY <1>6, <1>7
<1>14. \A y \in E : y # x => u.next[y] = l.next[y]
  BY <1>6, <1>7
<1>15. n > 0 => u.previous[q[1]] = x
  BY <1>6, <1>7, <1>9
<1>16. ASSUME NEW i \in 1 .. n + 1
       PROVE  /\ u.next[w[i]] = IF i = n + 1 THEN None ELSE w[i + 1]
              /\ u.previous[w[i]] = IF i = 1 THEN None ELSE w[i - 1]
  <2>1. CASE i = 1
    <3>1. w[i] = x
      BY <1>2, <1>5, <2>1
    <3>2. i # n + 1 => w[i + 1] = q[1] /\ n > 0
      BY <1>2, <1>5, <2>1
    <3> QED BY <1>2, <1>9, <1>12, <2>1, <3>1, <3>2
  <2>2. CASE i # 1
    <3>1. i - 1 \in 1 .. n /\ w[i] = q[i - 1] /\ (i - 1) + 1 = i
      BY <1>2, <1>5, <2>2
    <3>2. u.next[q[i - 1]] = IF i = n + 1 THEN None ELSE q[i]
      BY <1>2, <1>4, <1>14, <3>1
    <3>3. i # n + 1 => w[i + 1] = q[i]
      BY <1>2, <1>5, <3>1
    <3>4. CASE i - 1 = 1
      BY <1>2, <1>5, <1>15, <3>1, <3>2, <3>3, <3>4
    <3>5. CASE i - 1 # 1
      <4>1. q[i - 1] # l.first
        BY <1>2, <1>3, <1>9, <3>1, <3>5
      <4>2. u.previous[q[i - 1]] = q[(i - 1) - 1]
        BY <1>2, <1>4, <1>13, <3>1, <3>5, <4>1
      <4>3. w[i - 1] = q[(i - 1) - 1]
        BY <1>2, <1>5, <3>1, <3>5
      <4> QED BY <2>2, <3>1, <3>2, <3>3, <4>2, <4>3
    <3> QED BY <3>4, <3>5
  <2> QED BY <2>1, <2>2
<1>17. Linked(u, w, E)
  <2>1. Range(w) \subseteq u.members
    BY <1>1, <1>5, <1>7
  <2>2. n + 1 # 0 /\ u.curpos \in Range(w) \union {None}
    BY <1>2, <1>4, <1>5, <1>7
  <2> QED BY <1>1, <1>5, <1>8, <1>10, <1>11, <1>16, <2>1, <2>2 DEF Linked
<1>18. ASSUME NEW y \in E \ Range(w) PROVE u.next[y] = l.next[y] /\ u.previous[y] = l.previous[y]
  <2>1. y # x /\ y # l.first
    <3>1. n > 0 => 1 \in 1 .. n /\ q[1] \in Range(q)
      BY <1>2
    <3> QED BY <1>1, <1>2, <1>5, <1>9, <1>18, <3>1
  <2> QED BY <1>13, <1>14, <2>1
<1> QED BY <1>7, <1>17, <1>18 DEF u, w

\* An element that is single leaves nothing.
LEMMA UncoupleSingle ==
    ASSUME NEW E, NEW l \in ListsOf(E), NEW x \in E, Single(l, x)
    PROVE  Uncouple(l, x) = l
BY DEF Uncouple, Single, ListsOf

\* A new element takes the place of an old one.
LEMMA NewElementLinked ==
    ASSUME NEW E, NEW l, NEW q, Linked(l, q, E), NEW x \in E, x \notin Range(q)
    PROVE  LET u == NewElement(l, x)
           IN  /\ Linked(u, q, E)
               /\ u.curpos = l.curpos
               /\ Single(u, x)
               /\ \A y \in E : Single(l, y) => Single(u, y)
<1> DEFINE u == NewElement(l, x)
<1>1. l \in ListsOf(E) /\ q \in Seq(E) /\ None \notin E
  BY DEF Linked
<1>2. /\ u.next = [l.next EXCEPT ![x] = None] /\ u.previous = [l.previous EXCEPT ![x] = None]
      /\ u.members = l.members \ {x} /\ u.first = l.first /\ u.last = l.last /\ u.curpos = l.curpos
      /\ u \in ListsOf(E)
  BY <1>1 DEF NewElement, ListsOf
<1>3. l.next \in [E -> E \union {None}] /\ l.previous \in [E -> E \union {None}]
  BY <1>1 DEF ListsOf
<1> HIDE DEF u
<1>4. \A i \in 1 .. Len(q) : q[i] \in E /\ q[i] # x
  BY <1>1, SequenceFacts
<1>5. \A i \in 1 .. Len(q) : u.next[q[i]] = l.next[q[i]] /\ u.previous[q[i]] = l.previous[q[i]]
  BY <1>2, <1>3, <1>4
<1>6. Range(q) \subseteq u.members
  BY <1>2 DEF Linked
<1>7. Linked(u, q, E)
  BY <1>1, <1>2, <1>5, <1>6 DEF Linked
<1> QED BY <1>2, <1>3, <1>7 DEF u, Single
\* AddEnd keeps to the elements.
LEMMA AddEndType ==
    ASSUME NEW E, None \notin E, NEW l \in ListsOf(E), NEW x \in E
    PROVE  AddEnd(l, x) \in ListsOf(E)
<1>1. Uncouple(l, x) \in ListsOf(E)
  BY UncoupleType
<1> DEFINE u == Uncouple(l, x)
<1> HIDE DEF u
<1> QED BY <1>1 DEF ListsOf, AddEnd, u

\* AddFront keeps to the elements.
LEMMA AddFrontType ==
    ASSUME NEW E, None \notin E, NEW l \in ListsOf(E), NEW x \in E
    PROVE  AddFront(l, x) \in ListsOf(E)
<1>1. Uncouple(l, x) \in ListsOf(E)
  BY UncoupleType
<1> DEFINE u == Uncouple(l, x)
<1> HIDE DEF u
<1> QED BY <1>1 DEF ListsOf, AddFront, u

\* NewElement keeps to the elements.
LEMMA NewElementType ==
    ASSUME NEW E, None \notin E, NEW l \in ListsOf(E), NEW x \in E
    PROVE  NewElement(l, x) \in ListsOf(E)
BY DEF ListsOf, NewElement

----------------------------------------------------------------------------
(* InTurn, one lemma for each operation: the lists in between.             *)

\* Uncouples goes through the lists g[0], g[1] and so on.
LEMMA UncoupleInTurn ==
    ASSUME NEW E, None \notin E, NEW l \in ListsOf(E), NEW xs, Len(xs) \in Nat,
           \A i \in 1 .. Len(xs) : xs[i] \in E
    PROVE  \E g : /\ g[0] = l
                  /\ \A i \in 1 .. Len(xs) : g[i] = Uncouple(g[i - 1], xs[i])
                  /\ Uncouples(l, xs) = g[Len(xs)]
<1> DEFINE S == ListsOf(E)
           n == Len(xs)
           h == [i \in 1 .. n |-> [m \in S |-> Uncouple(m, xs[i])]]
           F(a) == [i \in 0 .. n |-> IF i = 0 THEN l ELSE Uncouple(a[i - 1], xs[i])]
           f == CHOOSE a : a = F(a)
<1>1. n \in Nat /\ \A i \in 1 .. n : xs[i] \in E
  OBVIOUS
<1>2. h \in [1 .. n -> [S -> S]]
  BY <1>1, UncoupleType
<1>3. PICK g \in [0 .. n -> S] : g[0] = l /\ \A i \in 1 .. n : g[i] = h[i][g[i - 1]]
  <2>1. l \in S
    OBVIOUS
  <2> HIDE DEF S, n, h
  <2> QED BY <1>1, <1>2, <2>1, Iterates
<1>4. g = F(g)
  <2> HIDE DEF S, n
  <2>1. \A i \in 0 .. n : i # 0 => i \in 1 .. n /\ g[i - 1] \in S
    BY <1>1
  <2> QED BY <1>3, <2>1
<1>5. f = F(f)
  BY <1>4
<1>6. Uncouples(l, xs) = f[n]
  BY DEF Uncouples, InTurn
<1> HIDE DEF f, n
<1>7. 0 \in 0 .. n /\ \A i \in 1 .. n : i \in 0 .. n /\ i # 0
  BY <1>1
<1> QED BY <1>5, <1>6, <1>7 DEF n

\* So does NewElements.
LEMMA NewElementInTurn ==
    ASSUME NEW E, None \notin E, NEW l \in ListsOf(E), NEW xs, Len(xs) \in Nat,
           \A i \in 1 .. Len(xs) : xs[i] \in E
    PROVE  \E g : /\ g[0] = l
                  /\ \A i \in 1 .. Len(xs) : g[i] = NewElement(g[i - 1], xs[i])
                  /\ NewElements(l, xs) = g[Len(xs)]
<1> DEFINE S == ListsOf(E)
           n == Len(xs)
           h == [i \in 1 .. n |-> [m \in S |-> NewElement(m, xs[i])]]
           F(a) == [i \in 0 .. n |-> IF i = 0 THEN l ELSE NewElement(a[i - 1], xs[i])]
           f == CHOOSE a : a = F(a)
<1>1. n \in Nat /\ \A i \in 1 .. n : xs[i] \in E
  OBVIOUS
<1>2. h \in [1 .. n -> [S -> S]]
  BY <1>1, NewElementType
<1>3. PICK g \in [0 .. n -> S] : g[0] = l /\ \A i \in 1 .. n : g[i] = h[i][g[i - 1]]
  <2>1. l \in S
    OBVIOUS
  <2> HIDE DEF S, n, h
  <2> QED BY <1>1, <1>2, <2>1, Iterates
<1>4. g = F(g)
  <2> HIDE DEF S, n
  <2>1. \A i \in 0 .. n : i # 0 => i \in 1 .. n /\ g[i - 1] \in S
    BY <1>1
  <2> QED BY <1>3, <2>1
<1>5. f = F(f)
  BY <1>4
<1>6. NewElements(l, xs) = f[n]
  BY DEF NewElements, InTurn
<1> HIDE DEF f, n
<1>7. 0 \in 0 .. n /\ \A i \in 1 .. n : i \in 0 .. n /\ i # 0
  BY <1>1
<1> QED BY <1>5, <1>6, <1>7 DEF n

\* So does AddEnds.
LEMMA AddEndInTurn ==
    ASSUME NEW E, None \notin E, NEW l \in ListsOf(E), NEW xs, Len(xs) \in Nat,
           \A i \in 1 .. Len(xs) : xs[i] \in E
    PROVE  \E g : /\ g[0] = l
                  /\ \A i \in 1 .. Len(xs) : g[i] = AddEnd(g[i - 1], xs[i])
                  /\ AddEnds(l, xs) = g[Len(xs)]
<1> DEFINE S == ListsOf(E)
           n == Len(xs)
           h == [i \in 1 .. n |-> [m \in S |-> AddEnd(m, xs[i])]]
           F(a) == [i \in 0 .. n |-> IF i = 0 THEN l ELSE AddEnd(a[i - 1], xs[i])]
           f == CHOOSE a : a = F(a)
<1>1. n \in Nat /\ \A i \in 1 .. n : xs[i] \in E
  OBVIOUS
<1>2. h \in [1 .. n -> [S -> S]]
  BY <1>1, AddEndType
<1>3. PICK g \in [0 .. n -> S] : g[0] = l /\ \A i \in 1 .. n : g[i] = h[i][g[i - 1]]
  <2>1. l \in S
    OBVIOUS
  <2> HIDE DEF S, n, h
  <2> QED BY <1>1, <1>2, <2>1, Iterates
<1>4. g = F(g)
  <2> HIDE DEF S, n
  <2>1. \A i \in 0 .. n : i # 0 => i \in 1 .. n /\ g[i - 1] \in S
    BY <1>1
  <2> QED BY <1>3, <2>1
<1>5. f = F(f)
  BY <1>4
<1>6. AddEnds(l, xs) = f[n]
  BY DEF AddEnds, InTurn
<1> HIDE DEF f, n
<1>7. 0 \in 0 .. n /\ \A i \in 1 .. n : i \in 0 .. n /\ i # 0
  BY <1>1
<1> QED BY <1>5, <1>6, <1>7 DEF n

\* So does AddFronts.
LEMMA AddFrontInTurn ==
    ASSUME NEW E, None \notin E, NEW l \in ListsOf(E), NEW xs, Len(xs) \in Nat,
           \A i \in 1 .. Len(xs) : xs[i] \in E
    PROVE  \E g : /\ g[0] = l
                  /\ \A i \in 1 .. Len(xs) : g[i] = AddFront(g[i - 1], xs[i])
                  /\ AddFronts(l, xs) = g[Len(xs)]
<1> DEFINE S == ListsOf(E)
           n == Len(xs)
           h == [i \in 1 .. n |-> [m \in S |-> AddFront(m, xs[i])]]
           F(a) == [i \in 0 .. n |-> IF i = 0 THEN l ELSE AddFront(a[i - 1], xs[i])]
           f == CHOOSE a : a = F(a)
<1>1. n \in Nat /\ \A i \in 1 .. n : xs[i] \in E
  OBVIOUS
<1>2. h \in [1 .. n -> [S -> S]]
  BY <1>1, AddFrontType
<1>3. PICK g \in [0 .. n -> S] : g[0] = l /\ \A i \in 1 .. n : g[i] = h[i][g[i - 1]]
  <2>1. l \in S
    OBVIOUS
  <2> HIDE DEF S, n, h
  <2> QED BY <1>1, <1>2, <2>1, Iterates
<1>4. g = F(g)
  <2> HIDE DEF S, n
  <2>1. \A i \in 0 .. n : i # 0 => i \in 1 .. n /\ g[i - 1] \in S
    BY <1>1
  <2> QED BY <1>3, <2>1
<1>5. f = F(f)
  BY <1>4
<1>6. AddFronts(l, xs) = f[n]
  BY DEF AddFronts, InTurn
<1> HIDE DEF f, n
<1>7. 0 \in 0 .. n /\ \A i \in 1 .. n : i \in 0 .. n /\ i # 0
  BY <1>1
<1> QED BY <1>5, <1>6, <1>7 DEF n

----------------------------------------------------------------------------
(* The loops over a list: what is done to the sequence, element by element. *)

\* Sequences with the same elements in the same places are the same.
LEMMA SequencesEqual ==
    ASSUME NEW E, NEW q \in Seq(E), NEW r \in Seq(E), Len(q) = Len(r),
           \A i \in 1 .. Len(q) : q[i] = r[i]
    PROVE  q = r
<1>1. q = [i \in 1 .. Len(q) |-> q[i]] /\ r = [i \in 1 .. Len(r) |-> r[i]]
  OBVIOUS
<1> QED BY <1>1

\* p, and behind it the first i of xs.
Joined(p, xs, i) == [k \in 1 .. Len(p) + i |-> IF k <= Len(p) THEN p[k] ELSE xs[k - Len(p)]]

\* q has the elements of p and xs, each once.
LEMMA JoinedFacts ==
    ASSUME NEW E, NEW p \in Seq(E), NEW xs \in Seq(E), IsInjective(p), IsInjective(xs),
           Range(p) \intersect Range(xs) = {}, NEW i \in 0 .. Len(xs)
    PROVE  /\ Joined(p, xs, i) \in Seq(E) /\ Len(Joined(p, xs, i)) = Len(p) + i
           /\ \A k \in 1 .. Len(p) + i :
                  Joined(p, xs, i)[k] = IF k <= Len(p) THEN p[k] ELSE xs[k - Len(p)]
           /\ IsInjective(Joined(p, xs, i))
           /\ \A k \in i + 1 .. Len(xs) : xs[k] \notin Range(Joined(p, xs, i))
           /\ Range(p) \subseteq Range(Joined(p, xs, i))
           /\ Range(Joined(p, xs, i)) \subseteq Range(p) \union Range(xs)
<1> DEFINE m == Len(p)
           n == Len(xs)
           w == Joined(p, xs, i)
<1>1. /\ m \in Nat /\ n \in Nat /\ DOMAIN p = 1 .. m /\ DOMAIN xs = 1 .. n /\ i \in 0 .. n
      /\ (\A k \in 1 .. m : p[k] \in E /\ p[k] \in Range(p))
      /\ (\A k \in 1 .. n : xs[k] \in E /\ xs[k] \in Range(xs))
  BY SequenceFacts
<1>2. w = [k \in 1 .. m + i |-> IF k <= m THEN p[k] ELSE xs[k - m]]
  BY DEF Joined
<1>3. \A x : (x \in Range(p) <=> \E k \in 1 .. m : x = p[k])
  BY SequenceFacts
<1> HIDE DEF m, n, w
<1>4. m + i \in Nat /\ \A k \in 1 .. m + i : (k <= m => k \in 1 .. m) /\ (~(k <= m) => k - m \in 1 .. i /\ k - m \in 1 .. n)
  BY <1>1
<1>5. \A k \in 1 .. m + i : w[k] \in E
  BY <1>1, <1>2, <1>4
<1>6. w \in Seq(E) /\ Len(w) = m + i /\ DOMAIN w = 1 .. m + i
  <2>1. DOMAIN w = 1 .. m + i /\ w = [k \in 1 .. m + i |-> w[k]]
    BY <1>2
  <2>2. m + i \in Nat
    BY <1>4
  <2> QED BY <1>5, <2>1, <2>2, ASequence
<1>7. \A k \in 1 .. m + i : w[k] = IF k <= m THEN p[k] ELSE xs[k - m]
  BY <1>2
<1>8. /\ \A a, b \in 1 .. m : p[a] = p[b] => a = b
      /\ \A a, b \in 1 .. n : xs[a] = xs[b] => a = b
      /\ \A a \in 1 .. m, b \in 1 .. n : p[a] # xs[b]
  BY <1>1 DEF IsInjective
<1>9. ASSUME NEW a \in 1 .. m + i, NEW b \in 1 .. m + i, w[a] = w[b] PROVE a = b
  <2>1. CASE a <= m /\ b <= m
    BY <1>4, <1>7, <1>8, <1>9, <2>1
  <2>2. CASE ~(a <= m) /\ ~(b <= m)
    <3>1. a - m = b - m
      BY <1>4, <1>7, <1>8, <1>9, <2>2
    <3> QED BY <1>1, <3>1
  <2>3. CASE a <= m /\ ~(b <= m)
    BY <1>4, <1>7, <1>8, <1>9, <2>3
  <2>4. CASE ~(a <= m) /\ b <= m
    BY <1>4, <1>7, <1>8, <1>9, <2>4
  <2> QED BY <2>1, <2>2, <2>3, <2>4
<1>10. \A x : x \in Range(w) <=> \E k \in 1 .. m + i : x = w[k]
  BY <1>6, SequenceFacts
<1>11. ASSUME NEW k \in i + 1 .. n PROVE xs[k] \notin Range(w)
  <2> SUFFICES ASSUME NEW a \in 1 .. m + i, xs[k] = w[a] PROVE FALSE
    BY <1>10
  <2>1. k \in 1 .. n
    BY <1>1
  <2>2. CASE a <= m
    BY <1>4, <1>7, <1>8, <2>1, <2>2
  <2>3. CASE ~(a <= m)
    <3>1. k = a - m
      BY <1>4, <1>7, <1>8, <2>1, <2>3
    <3> QED BY <1>1, <1>4, <2>3, <3>1
  <2> QED BY <2>2, <2>3
<1>12. ASSUME NEW x \in Range(p) PROVE x \in Range(w)
  <2>1. PICK k \in 1 .. m : x = p[k]
    BY <1>3
  <2>2. k \in 1 .. m + i /\ w[k] = p[k]
    BY <1>1, <1>7
  <2> QED BY <1>10, <2>1, <2>2
<1>13. Range(w) \subseteq Range(p) \union Range(xs)
  BY <1>1, <1>4, <1>7, <1>10
<1>14. IsInjective(w)
  BY <1>6, <1>9 DEF IsInjective
<1> QED BY <1>6, <1>7, <1>11, <1>12, <1>13, <1>14 DEF m, n, w

\* Adding xs behind p, or taking it away, goes through Joined(p, xs, i).
LEMMA JoinedSteps ==
    ASSUME NEW E, NEW p \in Seq(E), NEW xs \in Seq(E), IsInjective(p), IsInjective(xs),
           Range(p) \intersect Range(xs) = {}
    PROVE  /\ Joined(p, xs, 0) = p
           /\ Joined(p, xs, Len(xs)) = p \o xs
           /\ \A i \in 0 .. Len(xs) - 1 :
                /\ Joined(p, xs, i + 1) = Append(Joined(p, xs, i), xs[i + 1])
                /\ Joined(p, xs, i) = Without(Joined(p, xs, i + 1), Len(p) + i + 1)
                /\ Joined(p, xs, i + 1)[Len(p) + i + 1] = xs[i + 1]
<1> DEFINE m == Len(p)
           n == Len(xs)
           w(i) == Joined(p, xs, i)
<1>1. m \in Nat /\ n \in Nat /\ (\A k \in 1 .. n : xs[k] \in E)
  BY SequenceFacts
<1>2. \A i \in 0 .. n : /\ w(i) \in Seq(E) /\ Len(w(i)) = m + i /\ IsInjective(w(i))
                        /\ \A k \in 1 .. m + i : w(i)[k] = IF k <= m THEN p[k] ELSE xs[k - m]
                        /\ \A k \in i + 1 .. n : xs[k] \notin Range(w(i))
  BY JoinedFacts
<1>3. /\ p \o xs \in Seq(E) /\ Len(p \o xs) = m + n
      /\ \A k \in 1 .. m + n : (p \o xs)[k] = IF k <= m THEN p[k] ELSE xs[k - m]
  BY ConcatProperties
<1> HIDE DEF m, n, w
<1>4. w(0) = p
  <2>1. 0 \in 0 .. n /\ m + 0 = m /\ Len(p) = m
    BY <1>1 DEF m
  <2>2. w(0) \in Seq(E) /\ Len(w(0)) = Len(p) /\ \A k \in 1 .. Len(p) : w(0)[k] = p[k]
    BY <1>1, <1>2, <2>1
  <2> QED BY <2>2, SequencesEqual
<1>5. w(n) = p \o xs
  <2>1. n \in 0 .. n
    BY <1>1
  <2>2. w(n) \in Seq(E) /\ Len(w(n)) = Len(p \o xs) /\ \A k \in 1 .. Len(p \o xs) : w(n)[k] = (p \o xs)[k]
    BY <1>2, <1>3, <2>1
  <2> QED BY <1>3, <2>2, SequencesEqual
<1>6. ASSUME NEW i \in 0 .. n - 1
      PROVE  /\ w(i + 1) = Append(w(i), xs[i + 1])
             /\ w(i) = Without(w(i + 1), m + i + 1)
             /\ w(i + 1)[m + i + 1] = xs[i + 1]
  <2>1. i \in 0 .. n /\ i + 1 \in 0 .. n /\ i + 1 \in i + 1 .. n /\ i + 1 \in 1 .. n
    BY <1>1
  <2>2. m + i + 1 \in 1 .. m + (i + 1) /\ ~(m + i + 1 <= m) /\ (m + i + 1) - m = i + 1 /\ m + i \in Nat
    BY <1>1
  <2>3. w(i + 1)[m + i + 1] = xs[i + 1]
    BY <1>2, <2>1, <2>2
  <2>4. xs[i + 1] \in E /\ xs[i + 1] \notin Range(w(i))
    BY <1>1, <1>2, <2>1
  <2>5. w(i) \in Seq(E) /\ IsInjective(w(i)) /\ Len(w(i)) = m + i
    BY <1>2, <2>1
  <2>6. w(i + 1) \in Seq(E) /\ IsInjective(w(i + 1)) /\ Len(w(i + 1)) = m + (i + 1)
    BY <1>2, <2>1
  <2>7. /\ Append(w(i), xs[i + 1]) \in Seq(E) /\ Len(Append(w(i), xs[i + 1])) = Len(w(i)) + 1
        /\ \A k \in 1 .. Len(w(i)) + 1 : Append(w(i), xs[i + 1])[k] = IF k <= Len(w(i)) THEN w(i)[k] ELSE xs[i + 1]
    BY <2>4, <2>5, AppendFacts
  <2>8. /\ Without(w(i + 1), m + i + 1) \in Seq(E) /\ Len(Without(w(i + 1), m + i + 1)) = Len(w(i + 1)) - 1
        /\ \A k \in 1 .. Len(w(i + 1)) - 1 :
               Without(w(i + 1), m + i + 1)[k] = IF k < m + i + 1 THEN w(i + 1)[k] ELSE w(i + 1)[k + 1]
    <3>1. m + i + 1 \in 1 .. Len(w(i + 1))
      BY <2>2, <2>6
    <3> QED BY <2>6, <3>1, WithoutFacts
  <2>9. \A k \in 1 .. m + i : w(i + 1)[k] = w(i)[k] /\ k \in 1 .. m + (i + 1) /\ k < m + i + 1 /\ k <= m + i
    BY <1>1, <1>2, <2>1
  <2>10. w(i + 1) = Append(w(i), xs[i + 1])
    <3>1. \A k \in 1 .. Len(w(i + 1)) : w(i + 1)[k] = Append(w(i), xs[i + 1])[k]
      <4> SUFFICES ASSUME NEW k \in 1 .. m + (i + 1) PROVE w(i + 1)[k] = Append(w(i), xs[i + 1])[k]
        BY <2>6
      <4>1. CASE k \in 1 .. m + i
        BY <2>5, <2>7, <2>9, <4>1
      <4>2. CASE k = m + i + 1
        BY <2>2, <2>3, <2>5, <2>7, <4>2
      <4>3. k \in 1 .. m + i \/ k = m + i + 1
        BY <1>1
      <4> QED BY <4>1, <4>2, <4>3
    <3>2. Len(w(i + 1)) = Len(Append(w(i), xs[i + 1]))
      BY <1>1, <2>5, <2>6, <2>7
    <3> QED BY <2>6, <2>7, <3>1, <3>2, SequencesEqual
  <2>11. w(i) = Without(w(i + 1), m + i + 1)
    <3>1. Len(w(i)) = Len(Without(w(i + 1), m + i + 1)) /\ Len(w(i)) = Len(w(i + 1)) - 1
      BY <1>1, <2>5, <2>6, <2>8
    <3>2. \A k \in 1 .. Len(w(i)) : w(i)[k] = Without(w(i + 1), m + i + 1)[k]
      BY <2>5, <2>8, <2>9, <3>1
    <3> QED BY <2>5, <2>8, <3>1, <3>2, SequencesEqual
  <2> QED BY <2>3, <2>10, <2>11
<1> QED BY <1>4, <1>5, <1>6 DEF m, n, w

\* A new element is added, or one that is in the list already.
LEMMA AddEndNew ==
    ASSUME NEW E, NEW l, NEW q, Linked(l, q, E), NEW x \in E, x \notin Range(q), Single(l, x)
    PROVE  /\ Linked(AddEnd(l, x), Append(q, x), E)
           /\ AddEnd(l, x).curpos = l.curpos
           /\ \A y \in E : y # x /\ Single(l, y) => Single(AddEnd(l, x), y)
<1>1. l \in ListsOf(E) /\ q \in Seq(E) /\ IsInjective(q) /\ Range(q) \subseteq l.members
  BY DEF Linked
<1>2. AddEnd(l, x) = AtEnd(l, x)
  BY <1>1, AddsAtEnds, UncoupleSingle
<1>3. Range(Append(q, x)) = Range(q) \union {x}
  BY <1>1, AppendFacts
<1>4. /\ Linked(AtEnd(l, x), Append(q, x), E)
      /\ AtEnd(l, x).curpos = l.curpos
      /\ AtEnd(l, x).members = l.members \union {x}
      /\ \A y \in E \ Range(Append(q, x)) :
             AtEnd(l, x).next[y] = l.next[y] /\ AtEnd(l, x).previous[y] = l.previous[y]
  BY AtEndLinked
<1>5. ASSUME NEW y \in E, y # x, Single(l, y) PROVE Single(AtEnd(l, x), y)
  BY <1>1, <1>3, <1>4, <1>5 DEF Single
<1> QED BY <1>2, <1>4, <1>5

\* An element that is in the list already goes to its end.
LEMMA AddEndAgain ==
    ASSUME NEW E, NEW l, NEW q, Linked(l, q, E), NEW j \in 1 .. Len(q)
    PROVE  /\ Linked(AddEnd(l, q[j]), Append(Without(q, j), q[j]), E)
           /\ l.curpos = None => AddEnd(l, q[j]).curpos = None
<1>1. q \in Seq(E) /\ IsInjective(q) /\ q[j] \in E
  BY SequenceFacts DEF Linked
<1> DEFINE u == Uncouple(l, q[j])
           w == Without(q, j)
<1>2. Linked(u, w, E) /\ (u.curpos = IF l.curpos = q[j] THEN None ELSE l.curpos)
  BY UncoupleLinked
<1>3. q[j] \notin Range(w)
  BY <1>1, WithoutFacts
<1>4. AddEnd(l, q[j]) = AtEnd(u, q[j])
  BY AddsAtEnds
<1> HIDE DEF u, w
<1>5. Linked(AtEnd(u, q[j]), Append(w, q[j]), E) /\ AtEnd(u, q[j]).curpos = u.curpos
  BY <1>1, <1>2, <1>3, AtEndLinked
<1> QED BY <1>2, <1>4, <1>5 DEF u, w

\* New elements are added one by one.
LEMMA AddNewLinked ==
    ASSUME NEW E, NEW l, NEW p, Linked(l, p, E), NEW xs \in Seq(E), IsInjective(xs),
           Range(p) \intersect Range(xs) = {}, \A x \in Range(xs) : Single(l, x)
    PROVE  /\ Linked(AddEnds(l, xs), p \o xs, E) /\ AddEnds(l, xs).curpos = l.curpos
           /\ \A y \in E : y \notin Range(xs) /\ Single(l, y) => Single(AddEnds(l, xs), y)
<1> DEFINE n == Len(xs)
           w(i) == Joined(p, xs, i)
<1>1. p \in Seq(E) /\ IsInjective(p) /\ l \in ListsOf(E) /\ None \notin E
  BY DEF Linked
<1>2. n \in Nat /\ \A k \in 1 .. n : xs[k] \in E /\ xs[k] \in Range(xs)
  BY SequenceFacts
<1>3. PICK g : /\ g[0] = l /\ \A i \in 1 .. n : g[i] = AddEnd(g[i - 1], xs[i])
               /\ AddEnds(l, xs) = g[n]
  BY <1>1, <1>2, AddEndInTurn
<1>4. \A i \in 0 .. n : \A k \in i + 1 .. n : xs[k] \notin Range(w(i))
  BY <1>1, JoinedFacts
<1>5. w(0) = p /\ w(n) = p \o xs /\ \A i \in 0 .. n - 1 : w(i + 1) = Append(w(i), xs[i + 1])
  BY <1>1, JoinedSteps
<1>6. \A a, b \in 1 .. n : xs[a] = xs[b] => a = b
  BY <1>2 DEF IsInjective
<1> HIDE DEF n, w
<1> DEFINE Fine(i) == /\ Linked(g[i], w(i), E) /\ g[i].curpos = l.curpos
                      /\ \A k \in i + 1 .. n : Single(g[i], xs[k])
                      /\ \A y \in E : y \notin Range(xs) /\ Single(l, y) => Single(g[i], y)
           T == {i \in Nat : i <= n => Fine(i)}
<1>7. Fine(0)
  BY <1>2, <1>3, <1>5
<1>8. ASSUME NEW i \in Nat, i + 1 <= n, Fine(i) PROVE Fine(i + 1)
  <2>1. i \in 0 .. n /\ i \in 0 .. n - 1 /\ i + 1 \in 1 .. n /\ (i + 1) - 1 = i /\ i + 1 \in i + 1 .. n
    BY <1>2, <1>8
  <2>2. g[i + 1] = AddEnd(g[i], xs[i + 1])
    BY <1>3, <2>1
  <2>3. xs[i + 1] \in E /\ xs[i + 1] \notin Range(w(i)) /\ Single(g[i], xs[i + 1])
    BY <1>2, <1>4, <1>8, <2>1
  <2>4. /\ Linked(AddEnd(g[i], xs[i + 1]), Append(w(i), xs[i + 1]), E)
        /\ AddEnd(g[i], xs[i + 1]).curpos = g[i].curpos
        /\ \A y \in E : y # xs[i + 1] /\ Single(g[i], y) => Single(AddEnd(g[i], xs[i + 1]), y)
    BY <1>8, <2>3, AddEndNew
  <2>5. ASSUME NEW k \in (i + 1) + 1 .. n PROVE Single(g[i + 1], xs[k])
    <3>1. k \in 1 .. n /\ k \in i + 1 .. n /\ k # i + 1
      OBVIOUS
    <3> QED BY <1>2, <1>6, <1>8, <2>1, <2>2, <2>4, <3>1
  <2>6. ASSUME NEW y \in E, y \notin Range(xs), Single(l, y) PROVE Single(g[i + 1], y)
    <3>1. y # xs[i + 1] /\ Single(g[i], y)
      BY <1>2, <1>8, <2>1, <2>6
    <3> QED BY <2>2, <2>4, <3>1
  <2> QED BY <1>5, <1>8, <2>1, <2>2, <2>4, <2>5, <2>6
<1> HIDE DEF Fine
<1>9. \A i \in Nat : i \in T
  <2>1. 0 \in T /\ \A i \in T : i + 1 \in T
    BY <1>2, <1>7, <1>8
  <2> HIDE DEF T
  <2>2. T \in SUBSET Nat
    BY DEF T
  <2> QED BY <2>1, <2>2, InductionOverSets
<1>10. Fine(n)
  BY <1>2, <1>9
<1> QED BY <1>3, <1>5, <1>10 DEF Fine, n

\* A plan's variables are destroyed, the last one first.
LEMMA TakeBackLinked ==
    ASSUME NEW E, NEW l, NEW p \in Seq(E), NEW xs \in Seq(E), Linked(l, p \o xs, E),
           IsInjective(p), IsInjective(xs), Range(p) \intersect Range(xs) = {}
    PROVE  LET u == Uncouples(l, Reverse(xs))
           IN  Linked(u, p, E) /\ u.curpos = IF l.curpos \in Range(p) THEN l.curpos ELSE None
<1> DEFINE n == Len(xs)
           m == Len(p)
           w(i) == Joined(p, xs, i)
           r == Reverse(xs)
<1>1. l \in ListsOf(E) /\ None \notin E
  BY DEF Linked
<1>2. /\ n \in Nat /\ m \in Nat
      /\ \A k \in 1 .. n : xs[k] \in E /\ xs[k] \in Range(xs)
  BY SequenceFacts
<1>3. Len(r) = n /\ \A i \in 1 .. n : r[i] = xs[(n - i) + 1]
  BY <1>2 DEF Reverse
<1>4. PICK g : /\ g[0] = l /\ \A i \in 1 .. Len(r) : g[i] = Uncouple(g[i - 1], r[i])
               /\ Uncouples(l, r) = g[Len(r)]
  <2>1. \A i \in 1 .. n : (n - i) + 1 \in 1 .. n
    BY <1>2
  <2>2. \A i \in 1 .. Len(r) : r[i] \in E
    BY <1>2, <1>3, <2>1
  <2>3. Len(r) \in Nat
    BY <1>2, <1>3
  <2> HIDE DEF r, n, m, w
  <2> QED BY <1>1, <2>2, <2>3, UncoupleInTurn
<1>5. \A i \in 0 .. n : Len(w(i)) = m + i /\ Range(p) \subseteq Range(w(i))
  BY JoinedFacts
<1>6. /\ w(0) = p /\ w(n) = p \o xs
      /\ \A i \in 0 .. n - 1 : w(i) = Without(w(i + 1), m + i + 1) /\ w(i + 1)[m + i + 1] = xs[i + 1]
  BY JoinedSteps
<1> HIDE DEF n, m, w, r
<1> DEFINE Fine(i) == /\ Linked(g[i], w(n - i), E)
                      /\ g[i].curpos \in {l.curpos, None}
                      /\ l.curpos \in Range(p) => g[i].curpos = l.curpos
           T == {i \in Nat : i <= n => Fine(i)}
<1>7. Fine(0)
  <2>1. n - 0 = n
    BY <1>2
  <2>2. Linked(g[0], w(n - 0), E)
    BY <1>4, <1>6, <2>1
  <2> QED BY <1>4, <2>2
<1>8. ASSUME NEW i \in Nat, i + 1 <= n, Fine(i) PROVE Fine(i + 1)
  <2> DEFINE k == n - (i + 1)
  <2>1. /\ k \in 0 .. n - 1 /\ k \in 0 .. n /\ k + 1 \in 0 .. n /\ k + 1 = n - i /\ k + 1 \in 1 .. n
        /\ i + 1 \in 1 .. n /\ (i + 1) - 1 = i /\ (n - (i + 1)) + 1 = k + 1
    BY <1>2, <1>8
  <2>2. g[i + 1] = Uncouple(g[i], xs[k + 1])
    BY <1>3, <1>4, <2>1
  <2> HIDE DEF k
  <2>3. m + k + 1 \in 1 .. Len(w(k + 1)) /\ w(k + 1)[m + k + 1] = xs[k + 1]
    <3>1. m + k + 1 \in 1 .. m + (k + 1) /\ Len(w(k + 1)) = m + (k + 1)
      BY <1>2, <1>5, <2>1
    <3> QED BY <1>6, <2>1, <3>1
  <2>4. /\ Linked(Uncouple(g[i], xs[k + 1]), Without(w(k + 1), m + k + 1), E)
        /\ Uncouple(g[i], xs[k + 1]).curpos = IF g[i].curpos = xs[k + 1] THEN None ELSE g[i].curpos
    BY <1>8, <2>1, <2>3, UncoupleLinked
  <2>5. Without(w(k + 1), m + k + 1) = w(k)
    BY <1>6, <2>1
  <2>6. xs[k + 1] \notin Range(p)
    BY <1>2, <2>1
  <2> QED BY <1>8, <2>2, <2>4, <2>5, <2>6 DEF k
<1> HIDE DEF Fine
<1>9. \A i \in Nat : i \in T
  <2>1. 0 \in T /\ \A i \in T : i + 1 \in T
    BY <1>2, <1>7, <1>8
  <2> HIDE DEF T
  <2>2. T \in SUBSET Nat
    BY DEF T
  <2> QED BY <2>1, <2>2, InductionOverSets
<1>10. Fine(n)
  BY <1>2, <1>9
<1>11. Linked(g[n], p, E)
  BY <1>2, <1>6, <1>10 DEF Fine
<1>12. g[n].curpos = IF l.curpos \in Range(p) THEN l.curpos ELSE None
  BY <1>10, <1>11 DEF Fine, Linked
<1> QED BY <1>3, <1>4, <1>11, <1>12 DEF r

\* p, and behind it xs, whose first i elements have gone to its end.
Turned(p, xs, i) ==
    [k \in 1 .. Len(p) + Len(xs) |->
        IF k <= Len(p) THEN p[k]
        ELSE IF k - Len(p) + i <= Len(xs) THEN xs[k - Len(p) + i]
        ELSE xs[k - Len(p) + i - Len(xs)]]

\* The elements of Turned(p, xs, i), place by place.
LEMMA TurnedFacts ==
    ASSUME NEW E, NEW p \in Seq(E), NEW xs \in Seq(E), NEW i \in 0 .. Len(xs)
    PROVE  /\ Turned(p, xs, i) \in Seq(E) /\ Len(Turned(p, xs, i)) = Len(p) + Len(xs)
           /\ \A k \in 1 .. Len(p) + Len(xs) :
                Turned(p, xs, i)[k] = IF k <= Len(p) THEN p[k]
                                      ELSE IF k - Len(p) + i <= Len(xs) THEN xs[k - Len(p) + i]
                                      ELSE xs[k - Len(p) + i - Len(xs)]
<1> DEFINE m == Len(p)
           n == Len(xs)
           w == Turned(p, xs, i)
<1>1. /\ m \in Nat /\ n \in Nat /\ i \in 0 .. n
      /\ (\A k \in 1 .. m : p[k] \in E) /\ (\A k \in 1 .. n : xs[k] \in E)
  BY SequenceFacts
<1>2. w = [k \in 1 .. m + n |-> IF k <= m THEN p[k]
                                ELSE IF k - m + i <= n THEN xs[k - m + i] ELSE xs[k - m + i - n]]
  BY DEF Turned
<1> HIDE DEF m, n, w
<1>3. ASSUME NEW k \in 1 .. m + n PROVE w[k] \in E
  <2>1. CASE k <= m
    BY <1>1, <1>2, <2>1
  <2>2. CASE ~(k <= m) /\ k - m + i <= n
    <3>1. k - m + i \in 1 .. n
      BY <1>1, <2>2
    <3> QED BY <1>1, <1>2, <2>2, <3>1
  <2>3. CASE ~(k <= m) /\ ~(k - m + i <= n)
    <3>1. k - m + i - n \in 1 .. n
      BY <1>1, <2>3
    <3> QED BY <1>1, <1>2, <2>3, <3>1
  <2> QED BY <2>1, <2>2, <2>3
<1>4. w \in Seq(E) /\ Len(w) = m + n
  <2>1. DOMAIN w = 1 .. m + n /\ w = [k \in 1 .. m + n |-> w[k]]
    BY <1>2
  <2>2. m + n \in Nat
    BY <1>1
  <2> QED BY <1>3, <2>1, <2>2, ASequence
<1> QED BY <1>2, <1>4 DEF m, n, w

\* Adding xs once more behind p goes through Turned(p, xs, i), back to p \o xs.
LEMMA TurnedSteps ==
    ASSUME NEW E, NEW p \in Seq(E), NEW xs \in Seq(E)
    PROVE  /\ Turned(p, xs, 0) = p \o xs
           /\ Turned(p, xs, Len(xs)) = p \o xs
           /\ \A i \in 0 .. Len(xs) - 1 :
                /\ Len(p) + 1 \in 1 .. Len(Turned(p, xs, i))
                /\ Turned(p, xs, i)[Len(p) + 1] = xs[i + 1]
                /\ IsInjective(Turned(p, xs, i))
                      => Turned(p, xs, i + 1) = Append(Without(Turned(p, xs, i), Len(p) + 1), xs[i + 1])
<1> DEFINE m == Len(p)
           n == Len(xs)
           w(i) == Turned(p, xs, i)
<1>1. m \in Nat /\ n \in Nat /\ \A k \in 1 .. n : xs[k] \in E
  BY SequenceFacts
<1>2. \A i \in 0 .. n : /\ w(i) \in Seq(E) /\ Len(w(i)) = m + n
                        /\ \A k \in 1 .. m + n :
                               w(i)[k] = IF k <= m THEN p[k] ELSE IF k - m + i <= n THEN xs[k - m + i]
                                         ELSE xs[k - m + i - n]
  BY TurnedFacts
<1>3. /\ p \o xs \in Seq(E) /\ Len(p \o xs) = m + n
      /\ \A k \in 1 .. m + n : (p \o xs)[k] = IF k <= m THEN p[k] ELSE xs[k - m]
  BY ConcatProperties
<1> HIDE DEF m, n, w
<1>4. ASSUME NEW i \in {0, n} PROVE w(i) = p \o xs
  <2>1. i \in 0 .. n
    BY <1>1
  <2>2. \A k \in 1 .. m + n : w(i)[k] = (p \o xs)[k]
    <3> SUFFICES ASSUME NEW k \in 1 .. m + n PROVE w(i)[k] = (p \o xs)[k]
      OBVIOUS
    <3>1. i = 0 => k - m + i <= n /\ k - m + i = k - m
      BY <1>1
    <3>2. i = n => k - m + i - n = k - m /\ (~(k <= m) => ~(k - m + i <= n))
      BY <1>1
    <3> QED BY <1>2, <1>3, <2>1, <3>1, <3>2
  <2> QED BY <1>2, <1>3, <2>1, <2>2, SequencesEqual
<1>5. ASSUME NEW i \in 0 .. n - 1
      PROVE  /\ m + 1 \in 1 .. Len(w(i)) /\ w(i)[m + 1] = xs[i + 1]
             /\ IsInjective(w(i)) => w(i + 1) = Append(Without(w(i), m + 1), xs[i + 1])
  <2>1. i \in 0 .. n /\ i + 1 \in 0 .. n /\ i + 1 \in 1 .. n
    BY <1>1
  <2>2. m + 1 \in 1 .. m + n /\ ~(m + 1 <= m) /\ (m + 1) - m + i = i + 1 /\ i + 1 <= n
    BY <1>1
  <2>3. Len(w(i)) = m + n /\ w(i)[m + 1] = xs[i + 1]
    BY <1>2, <2>1, <2>2
  <2>4. ASSUME IsInjective(w(i)) PROVE w(i + 1) = Append(Without(w(i), m + 1), xs[i + 1])
    <3> DEFINE v == Without(w(i), m + 1)
               a == Append(v, xs[i + 1])
    <3>1. /\ v \in Seq(E) /\ Len(v) = (m + n) - 1
          /\ \A k \in 1 .. (m + n) - 1 : v[k] = IF k < m + 1 THEN w(i)[k] ELSE w(i)[k + 1]
      <4>1. w(i) \in Seq(E) /\ IsInjective(w(i)) /\ m + 1 \in 1 .. Len(w(i))
        BY <1>2, <2>1, <2>2, <2>3, <2>4
      <4>2. /\ v \in Seq(E) /\ Len(v) = Len(w(i)) - 1
            /\ \A k \in 1 .. Len(w(i)) - 1 : v[k] = IF k < m + 1 THEN w(i)[k] ELSE w(i)[k + 1]
        BY <4>1, WithoutFacts
      <4> HIDE DEF v
      <4> QED BY <2>3, <4>2
    <3> HIDE DEF v
    <3>2. /\ a \in Seq(E) /\ Len(a) = Len(v) + 1
          /\ \A k \in 1 .. Len(v) + 1 : a[k] = IF k <= Len(v) THEN v[k] ELSE xs[i + 1]
      BY <1>1, <2>1, <3>1, AppendProperties
    <3>3. Len(v) + 1 = m + n
      BY <1>1, <3>1
    <3> HIDE DEF a
    <3>4. ASSUME NEW k \in 1 .. m + n PROVE w(i + 1)[k] = a[k]
      <4>0. w(i + 1)[k] = IF k <= m THEN p[k] ELSE IF k - m + (i + 1) <= n THEN xs[k - m + (i + 1)]
                          ELSE xs[k - m + (i + 1) - n]
        BY <1>2, <2>1
      <4>1. CASE k = m + n
        <5>1. a[k] = xs[i + 1]
          BY <1>1, <3>1, <3>2, <3>3, <4>1
        <5>2. ~(k <= m) /\ ~(k - m + (i + 1) <= n) /\ k - m + (i + 1) - n = i + 1
          BY <1>1, <4>1
        <5> QED BY <4>0, <5>1, <5>2
      <4>2. CASE k # m + n
        <5>1. k \in 1 .. (m + n) - 1 /\ k <= (m + n) - 1 /\ k + 1 \in 1 .. m + n
          BY <1>1, <4>2
        <5>2. a[k] = IF k < m + 1 THEN w(i)[k] ELSE w(i)[k + 1]
          BY <3>1, <3>2, <3>3, <5>1
        <5>3. CASE k <= m
          <6>1. k < m + 1
            BY <1>1, <5>3
          <6>2. w(i)[k] = p[k]
            BY <1>2, <2>1, <5>3
          <6> QED BY <4>0, <5>2, <5>3, <6>1, <6>2
        <5>4. CASE ~(k <= m)
          <6>1. ~(k < m + 1) /\ ~(k + 1 <= m) /\ (k + 1) - m + i = k - m + (i + 1)
            BY <1>1, <5>4
          <6>2. w(i)[k + 1] = IF k - m + (i + 1) <= n THEN xs[k - m + (i + 1)] ELSE xs[k - m + (i + 1) - n]
            <7>1. w(i)[k + 1] = IF k + 1 <= m THEN p[k + 1]
                                ELSE IF (k + 1) - m + i <= n THEN xs[(k + 1) - m + i]
                                ELSE xs[(k + 1) - m + i - n]
              BY <1>2, <2>1, <5>1
            <7>2. ~(k + 1 <= m) /\ (k + 1) - m + i - n = k - m + (i + 1) - n
              BY <1>1, <5>4
            <7>3. (k + 1) - m + i = k - m + (i + 1)
              BY <6>1
            <7> HIDE DEF w
            <7> QED BY <7>1, <7>2, <7>3
          <6> QED BY <4>0, <5>2, <5>4, <6>1, <6>2
        <5> QED BY <5>3, <5>4
      <4> QED BY <4>1, <4>2
    <3>5. w(i + 1) \in Seq(E) /\ Len(w(i + 1)) = m + n /\ Len(a) = m + n
      BY <1>2, <2>1, <3>2, <3>3
    <3>6. w(i + 1) = a
      BY <3>2, <3>4, <3>5, SequencesEqual
    <3> QED BY <3>6 DEF a, v
  <2> QED BY <2>2, <2>3, <2>4
<1>6. 0 \in {0, n} /\ n \in {0, n}
  OBVIOUS
<1> QED BY <1>4, <1>5, <1>6 DEF m, n, w

\* A copied plan's variables are added once more.
LEMMA AddAgainLinked ==
    ASSUME NEW E, NEW l, NEW p \in Seq(E), NEW xs \in Seq(E), Linked(l, p \o xs, E), l.curpos = None
    PROVE  Linked(AddEnds(l, xs), p \o xs, E) /\ AddEnds(l, xs).curpos = None
<1> DEFINE n == Len(xs)
           m == Len(p)
           w(i) == Turned(p, xs, i)
<1>1. l \in ListsOf(E) /\ None \notin E
  BY DEF Linked
<1>2. n \in Nat /\ \A k \in 1 .. n : xs[k] \in E
  BY SequenceFacts
<1>3. PICK g : /\ g[0] = l /\ \A i \in 1 .. n : g[i] = AddEnd(g[i - 1], xs[i])
               /\ AddEnds(l, xs) = g[n]
  BY <1>1, <1>2, AddEndInTurn
<1> HIDE DEF n, m, w
<1>9. /\ Turned(p, xs, 0) = p \o xs
      /\ Turned(p, xs, Len(xs)) = p \o xs
      /\ \A i \in 0 .. Len(xs) - 1 :
            /\ Len(p) + 1 \in 1 .. Len(Turned(p, xs, i))
            /\ Turned(p, xs, i)[Len(p) + 1] = xs[i + 1]
            /\ IsInjective(Turned(p, xs, i))
                  => Turned(p, xs, i + 1) = Append(Without(Turned(p, xs, i), Len(p) + 1), xs[i + 1])
  BY TurnedSteps, ZenonT(60)
<1>4. /\ w(0) = p \o xs /\ w(n) = p \o xs
      /\ \A i \in 0 .. n - 1 :
            /\ m + 1 \in 1 .. Len(w(i)) /\ w(i)[m + 1] = xs[i + 1]
            /\ IsInjective(w(i)) => w(i + 1) = Append(Without(w(i), m + 1), xs[i + 1])
  BY <1>9 DEF n, m, w
<1> DEFINE Fine(i) == Linked(g[i], w(i), E) /\ g[i].curpos = None
           T == {i \in Nat : i <= n => Fine(i)}
<1>5. Fine(0)
  BY <1>3, <1>4
<1>6. ASSUME NEW i \in Nat, i + 1 <= n, Fine(i) PROVE Fine(i + 1)
  <2>1. i \in 0 .. n - 1 /\ i + 1 \in 1 .. n /\ (i + 1) - 1 = i
    BY <1>2, <1>6
  <2>2. g[i + 1] = AddEnd(g[i], w(i)[m + 1]) /\ m + 1 \in 1 .. Len(w(i))
    BY <1>3, <1>4, <2>1
  <2>3. IsInjective(w(i)) /\ Linked(g[i], w(i), E)
    BY <1>6 DEF Linked
  <2>4. /\ Linked(g[i + 1], Append(Without(w(i), m + 1), w(i)[m + 1]), E)
        /\ g[i + 1].curpos = None
    BY <1>6, <2>2, <2>3, AddEndAgain
  <2> QED BY <1>4, <2>1, <2>3, <2>4
<1> HIDE DEF Fine
<1>7. \A i \in Nat : i \in T
  <2>1. 0 \in T /\ \A i \in T : i + 1 \in T
    BY <1>2, <1>5, <1>6
  <2> HIDE DEF T
  <2>2. T \in SUBSET Nat
    BY DEF T
  <2> QED BY <2>1, <2>2, InductionOverSets
<1>8. Fine(n)
  BY <1>2, <1>7
<1> QED BY <1>3, <1>4, <1>8 DEF Fine

----------------------------------------------------------------------------
(* Elements are made, put in front and destroyed in turn.                  *)

\* New elements take the places of old ones that are not in the list.
LEMMA NewElementsLinked ==
    ASSUME NEW E, NEW l, NEW p, Linked(l, p, E), NEW xs \in Seq(E), Range(p) \intersect Range(xs) = {}
    PROVE  /\ Linked(NewElements(l, xs), p, E) /\ NewElements(l, xs).curpos = l.curpos
           /\ \A x \in Range(xs) : Single(NewElements(l, xs), x)
<1> DEFINE n == Len(xs)
<1>1. l \in ListsOf(E) /\ None \notin E
  BY DEF Linked
<1>2. n \in Nat /\ \A k \in 1 .. n : xs[k] \in E /\ xs[k] \in Range(xs) /\ xs[k] \notin Range(p)
  BY SequenceFacts
<1>3. PICK g : /\ g[0] = l /\ \A i \in 1 .. n : g[i] = NewElement(g[i - 1], xs[i])
               /\ NewElements(l, xs) = g[n]
  BY <1>1, <1>2, NewElementInTurn
<1>4. \A x \in Range(xs) : \E k \in 1 .. n : x = xs[k]
  BY SequenceFacts
<1> HIDE DEF n
<1> DEFINE Fine(i) == /\ Linked(g[i], p, E) /\ g[i].curpos = l.curpos
                      /\ \A k \in 1 .. i : Single(g[i], xs[k])
           T == {i \in Nat : i <= n => Fine(i)}
<1>5. Fine(0)
  BY <1>3
<1>6. ASSUME NEW i \in Nat, i + 1 <= n, Fine(i) PROVE Fine(i + 1)
  <2>1. i + 1 \in 1 .. n /\ (i + 1) - 1 = i /\ \A k \in 1 .. i + 1 : k \in 1 .. n /\ (k # i + 1 => k \in 1 .. i)
    BY <1>2, <1>6
  <2>2. g[i + 1] = NewElement(g[i], xs[i + 1]) /\ xs[i + 1] \in E /\ xs[i + 1] \notin Range(p)
    BY <1>2, <1>3, <2>1
  <2>3. /\ Linked(g[i + 1], p, E) /\ g[i + 1].curpos = g[i].curpos /\ Single(g[i + 1], xs[i + 1])
        /\ \A y \in E : Single(g[i], y) => Single(g[i + 1], y)
    BY <1>6, <2>2, NewElementLinked
  <2> QED BY <1>2, <1>6, <2>1, <2>3
<1> HIDE DEF Fine
<1>7. \A i \in Nat : i \in T
  <2>1. 0 \in T /\ \A i \in T : i + 1 \in T
    BY <1>2, <1>5, <1>6
  <2> HIDE DEF T
  <2>2. T \in SUBSET Nat
    BY DEF T
  <2> QED BY <2>1, <2>2, InductionOverSets
<1>8. Fine(n)
  BY <1>2, <1>7
<1> QED BY <1>3, <1>4, <1>8 DEF Fine

\* A new element is put in front.
LEMMA AddFrontNew ==
    ASSUME NEW E, NEW l, NEW q, Linked(l, q, E), NEW x \in E, x \notin Range(q), Single(l, x)
    PROVE  /\ Linked(AddFront(l, x), InFront(x, q), E)
           /\ AddFront(l, x).curpos = l.curpos
           /\ \A y \in E : y # x /\ y \notin Range(q) /\ Single(l, y) => Single(AddFront(l, x), y)
<1>1. l \in ListsOf(E) /\ q \in Seq(E) /\ IsInjective(q)
  BY DEF Linked
<1>2. AddFront(l, x) = AtFront(l, x)
  BY <1>1, AddsAtEnds, UncoupleSingle
<1>3. Range(InFront(x, q)) = Range(q) \union {x}
  BY <1>1, InFrontFacts
<1>4. /\ Linked(AtFront(l, x), InFront(x, q), E)
      /\ AtFront(l, x).curpos = l.curpos
      /\ AtFront(l, x).members = l.members \union {x}
      /\ \A y \in E \ Range(InFront(x, q)) :
             AtFront(l, x).next[y] = l.next[y] /\ AtFront(l, x).previous[y] = l.previous[y]
  BY AtFrontLinked
<1>5. ASSUME NEW y \in E, y # x, y \notin Range(q), Single(l, y) PROVE Single(AtFront(l, x), y)
  BY <1>3, <1>4, <1>5 DEF Single
<1> QED BY <1>2, <1>4, <1>5

\* The first i of xs, the last one of them first.
Backed(xs, i) == [k \in 1 .. i |-> xs[(i + 1) - k]]

\* Putting xs in front one by one goes through Backed(xs, i).
LEMMA BackedFacts ==
    ASSUME NEW E, NEW xs \in Seq(E), IsInjective(xs)
    PROVE  /\ Backed(xs, 0) = <<>> /\ Backed(xs, Len(xs)) = Reverse(xs)
           /\ \A i \in 0 .. Len(xs) - 1 : Backed(xs, i + 1) = InFront(xs[i + 1], Backed(xs, i))
           /\ \A i \in 0 .. Len(xs) : \A k \in i + 1 .. Len(xs) : xs[k] \notin Range(Backed(xs, i))
<1> DEFINE n == Len(xs)
<1>1. n \in Nat /\ DOMAIN xs = 1 .. n /\ (\A k \in 1 .. n : xs[k] \in E) /\ \A a, b \in 1 .. n : xs[a] = xs[b] => a = b
  BY SequenceFacts DEF IsInjective
<1> HIDE DEF n
<1>2. Backed(xs, 0) = <<>>
  <2>1. Backed(xs, 0) = [k \in 1 .. 0 |-> xs[(0 + 1) - k]] /\ \A k \in 1 .. 0 : xs[(0 + 1) - k] \in E
    BY DEF Backed
  <2>2. Backed(xs, 0) \in Seq(E) /\ Len(Backed(xs, 0)) = 0
    <3>1. DOMAIN Backed(xs, 0) = 1 .. 0 /\ Backed(xs, 0) = [k \in 1 .. 0 |-> Backed(xs, 0)[k]]
      BY <2>1
    <3>2. \A i \in 1 .. 0 : Backed(xs, 0)[i] \in E
      OBVIOUS
    <3> QED BY <3>1, <3>2, ASequence
  <2> QED BY <2>2, EmptySeq
<1>3. Backed(xs, n) = Reverse(xs)
  <2>1. Reverse(xs) = [k \in 1 .. n |-> xs[(n - k) + 1]]
    BY DEF Reverse, n
  <2>2. \A k \in 1 .. n : (n - k) + 1 = (n + 1) - k
    BY <1>1
  <2> QED BY <2>1, <2>2 DEF Backed
<1>4. ASSUME NEW i \in 0 .. n
      PROVE  /\ Backed(xs, i) \in Seq(E) /\ Len(Backed(xs, i)) = i
             /\ \A k \in i + 1 .. n : xs[k] \notin Range(Backed(xs, i))
  <2>1. Backed(xs, i) = [k \in 1 .. i |-> xs[(i + 1) - k]]
    BY DEF Backed
  <2>2. \A k \in 1 .. i : (i + 1) - k \in 1 .. n /\ (i + 1) - k < i + 1
    BY <1>1
  <2>3. Backed(xs, i) \in Seq(E) /\ Len(Backed(xs, i)) = i
    BY <1>1, <2>1, <2>2, ASequence
  <2>4. \A y : y \in Range(Backed(xs, i)) <=> \E k \in 1 .. i : y = Backed(xs, i)[k]
    BY <2>3, SequenceFacts
  <2>5. \A k \in i + 1 .. n : k \in 1 .. n /\ ~(k < i + 1)
    BY <1>1
  <2> QED BY <1>1, <2>1, <2>2, <2>3, <2>4, <2>5
<1>5. ASSUME NEW i \in 0 .. n - 1 PROVE Backed(xs, i + 1) = InFront(xs[i + 1], Backed(xs, i))
  <2>1. Len(Backed(xs, i)) = i /\ i \in Nat
    BY <1>1, <1>4
  <2>2. Backed(xs, i + 1) = [k \in 1 .. i + 1 |-> xs[((i + 1) + 1) - k]]
    BY DEF Backed
  <2>3. InFront(xs[i + 1], Backed(xs, i)) = [k \in 1 .. i + 1 |-> IF k = 1 THEN xs[i + 1] ELSE Backed(xs, i)[k - 1]]
    BY <2>1 DEF InFront
  <2>4. ASSUME NEW k \in 1 .. i + 1
        PROVE  xs[((i + 1) + 1) - k] = IF k = 1 THEN xs[i + 1] ELSE Backed(xs, i)[k - 1]
    <3>1. CASE k = 1
      <4>1. ((i + 1) + 1) - k = i + 1
        BY <2>1, <3>1
      <4> QED BY <3>1, <4>1
    <3>2. CASE k # 1
      <4>1. k - 1 \in 1 .. i /\ ((i + 1) + 1) - k = (i + 1) - (k - 1)
        BY <2>1, <3>2
      <4> QED BY <3>2, <4>1 DEF Backed
    <3> QED BY <3>1, <3>2
  <2> QED BY <2>2, <2>3, <2>4
<1> QED BY <1>2, <1>3, <1>4, <1>5 DEF n

\* An empty list is filled from the front.
LEMMA AddFrontsLinked ==
    ASSUME NEW E, NEW l, Linked(l, <<>>, E), NEW xs \in Seq(E), IsInjective(xs),
           \A x \in Range(xs) : Single(l, x)
    PROVE  Linked(AddFronts(l, xs), Reverse(xs), E)
<1> DEFINE n == Len(xs)
           w(i) == Backed(xs, i)
<1>1. l \in ListsOf(E) /\ None \notin E
  BY DEF Linked
<1>2. n \in Nat /\ (\A k \in 1 .. n : xs[k] \in E /\ xs[k] \in Range(xs)) /\ \A a, b \in 1 .. n : xs[a] = xs[b] => a = b
  BY SequenceFacts DEF IsInjective
<1>3. PICK g : /\ g[0] = l /\ \A i \in 1 .. n : g[i] = AddFront(g[i - 1], xs[i])
               /\ AddFronts(l, xs) = g[n]
  BY <1>1, <1>2, AddFrontInTurn
<1>4. /\ w(0) = <<>> /\ w(n) = Reverse(xs)
      /\ \A i \in 0 .. n - 1 : w(i + 1) = InFront(xs[i + 1], w(i))
      /\ \A i \in 0 .. n : \A k \in i + 1 .. n : xs[k] \notin Range(w(i))
  BY BackedFacts
<1> HIDE DEF n, w
<1> DEFINE Fine(i) == /\ Linked(g[i], w(i), E)
                      /\ \A k \in i + 1 .. n : Single(g[i], xs[k])
           T == {i \in Nat : i <= n => Fine(i)}
<1>7. Fine(0)
  BY <1>2, <1>3, <1>4
<1>8. ASSUME NEW i \in Nat, i + 1 <= n, Fine(i) PROVE Fine(i + 1)
  <2>1. i \in 0 .. n /\ i \in 0 .. n - 1 /\ i + 1 \in 1 .. n /\ (i + 1) - 1 = i /\ i + 1 \in i + 1 .. n
    BY <1>2, <1>8
  <2>2. g[i + 1] = AddFront(g[i], xs[i + 1])
    BY <1>3, <2>1
  <2>3. xs[i + 1] \in E /\ xs[i + 1] \notin Range(w(i)) /\ Single(g[i], xs[i + 1])
    BY <1>2, <1>4, <1>8, <2>1
  <2>4. /\ Linked(AddFront(g[i], xs[i + 1]), InFront(xs[i + 1], w(i)), E)
        /\ \A y \in E : y # xs[i + 1] /\ y \notin Range(w(i)) /\ Single(g[i], y) => Single(AddFront(g[i], xs[i + 1]), y)
    BY <1>8, <2>3, AddFrontNew
  <2>5. ASSUME NEW k \in (i + 1) + 1 .. n PROVE Single(g[i + 1], xs[k])
    <3>1. k \in 1 .. n /\ k \in i + 1 .. n /\ k # i + 1
      OBVIOUS
    <3>2. xs[k] \in E /\ xs[k] # xs[i + 1] /\ xs[k] \notin Range(w(i)) /\ Single(g[i], xs[k])
      BY <1>2, <1>4, <1>8, <2>1, <3>1
    <3> QED BY <2>2, <2>4, <3>2
  <2> QED BY <1>4, <1>8, <2>1, <2>2, <2>4, <2>5
<1> HIDE DEF Fine
<1>9. \A i \in Nat : i \in T
  <2>1. 0 \in T /\ \A i \in T : i + 1 \in T
    BY <1>2, <1>7, <1>8
  <2> HIDE DEF T
  <2>2. T \in SUBSET Nat
    BY DEF T
  <2> QED BY <2>1, <2>2, InductionOverSets
<1>10. Fine(n)
  BY <1>2, <1>9
<1> QED BY <1>3, <1>4, <1>10 DEF Fine

\* q without its first i elements.
Dropped(q, i) == [k \in 1 .. Len(q) - i |-> q[k + i]]

\* Emptying q goes through Dropped(q, i).
LEMMA DroppedFacts ==
    ASSUME NEW E, NEW q \in Seq(E)
    PROVE  /\ Dropped(q, 0) = q /\ Dropped(q, Len(q)) = <<>>
           /\ \A i \in 0 .. Len(q) - 1 :
                 /\ 1 \in 1 .. Len(Dropped(q, i)) /\ Dropped(q, i)[1] = q[i + 1]
                 /\ Dropped(q, i + 1) = Without(Dropped(q, i), 1)
           /\ \A i \in 0 .. Len(q) : Dropped(q, i) \in Seq(E) /\ Len(Dropped(q, i)) = Len(q) - i
<1> DEFINE n == Len(q)
<1>1. n \in Nat /\ DOMAIN q = 1 .. n /\ (\A k \in 1 .. n : q[k] \in E) /\ q = [k \in 1 .. n |-> q[k]]
  BY SequenceFacts
<1> HIDE DEF n
<1>2. ASSUME NEW i \in 0 .. n
      PROVE  /\ Dropped(q, i) \in Seq(E) /\ Len(Dropped(q, i)) = n - i
             /\ \A k \in 1 .. n - i : Dropped(q, i)[k] = q[k + i]
  <2>1. Dropped(q, i) = [k \in 1 .. n - i |-> q[k + i]]
    BY DEF Dropped, n
  <2>2. n - i \in Nat /\ \A k \in 1 .. n - i : k + i \in 1 .. n
    BY <1>1
  <2> DEFINE d == Dropped(q, i)
  <2>3. Dropped(q, i) \in Seq(E) /\ Len(Dropped(q, i)) = n - i
    <3>1. DOMAIN d = 1 .. n - i /\ d = [k \in 1 .. n - i |-> d[k]] /\ \A k \in 1 .. n - i : d[k] \in E
      BY <1>1, <2>1, <2>2
    <3> HIDE DEF d
    <3>2. d \in Seq(E) /\ Len(d) = n - i
      BY <2>2, <3>1, ASequence
    <3> QED BY <3>2 DEF d
  <2> QED BY <2>1, <2>3
<1>3. Dropped(q, 0) = q
  <2>1. Dropped(q, 0) = [k \in 1 .. n - 0 |-> q[k + 0]]
    BY DEF Dropped, n
  <2>2. 1 .. n - 0 = 1 .. n /\ \A k \in 1 .. n : k + 0 = k
    BY <1>1
  <2> QED BY <1>1, <2>1, <2>2
<1>4. Dropped(q, n) = <<>>
  <2>1. n \in 0 .. n /\ n - n = 0
    BY <1>1
  <2> QED BY <1>2, <2>1, EmptySeq
<1>5. ASSUME NEW i \in 0 .. n - 1
      PROVE  /\ 1 \in 1 .. Len(Dropped(q, i)) /\ Dropped(q, i)[1] = q[i + 1]
             /\ Dropped(q, i + 1) = Without(Dropped(q, i), 1)
  <2>1. i \in 0 .. n /\ i + 1 \in 0 .. n /\ 1 \in 1 .. n - i /\ 1 + i = i + 1 /\ (n - i) - 1 = n - (i + 1)
    BY <1>1
  <2>2. 1 \in 1 .. Len(Dropped(q, i)) /\ Dropped(q, i)[1] = q[i + 1]
    BY <1>2, <2>1
  <2>3. Without(Dropped(q, i), 1)
          = [k \in 1 .. n - (i + 1) |-> IF k < 1 THEN Dropped(q, i)[k] ELSE Dropped(q, i)[k + 1]]
    BY <1>2, <2>1 DEF Without
  <2>4. Dropped(q, i + 1) = [k \in 1 .. n - (i + 1) |-> q[k + (i + 1)]]
    BY DEF Dropped, n
  <2>5. ASSUME NEW k \in 1 .. n - (i + 1)
        PROVE  q[k + (i + 1)] = IF k < 1 THEN Dropped(q, i)[k] ELSE Dropped(q, i)[k + 1]
    <3>1. ~(k < 1) /\ k + 1 \in 1 .. n - i /\ (k + 1) + i = k + (i + 1)
      BY <1>1
    <3> QED BY <1>2, <2>1, <3>1
  <2> QED BY <2>2, <2>3, <2>4, <2>5
<1> QED BY <1>2, <1>3, <1>4, <1>5 DEF n

\* A list is emptied, the first element first.
LEMMA EmptyLinked ==
    ASSUME NEW E, NEW l, NEW q, Linked(l, q, E)
    PROVE  Linked(Uncouples(l, q), <<>>, E)
<1> DEFINE n == Len(q)
           w(i) == Dropped(q, i)
<1>1. l \in ListsOf(E) /\ None \notin E /\ q \in Seq(E)
  BY DEF Linked
<1>2. n \in Nat /\ \A k \in 1 .. n : q[k] \in E
  BY <1>1, SequenceFacts
<1>3. PICK g : /\ g[0] = l /\ \A i \in 1 .. n : g[i] = Uncouple(g[i - 1], q[i])
               /\ Uncouples(l, q) = g[n]
  BY <1>1, <1>2, UncoupleInTurn
<1>4. /\ w(0) = q /\ w(n) = <<>>
      /\ \A i \in 0 .. n - 1 :
            1 \in 1 .. Len(w(i)) /\ w(i)[1] = q[i + 1] /\ w(i + 1) = Without(w(i), 1)
  BY <1>1, DroppedFacts
<1> HIDE DEF n, w
<1> DEFINE T == {i \in Nat : i <= n => Linked(g[i], w(i), E)}
<1>5. Linked(g[0], w(0), E)
  BY <1>3, <1>4
<1>6. ASSUME NEW i \in Nat, i + 1 <= n, Linked(g[i], w(i), E) PROVE Linked(g[i + 1], w(i + 1), E)
  <2>1. i \in 0 .. n - 1 /\ i + 1 \in 1 .. n /\ (i + 1) - 1 = i
    BY <1>2, <1>6
  <2>2. g[i + 1] = Uncouple(g[i], w(i)[1]) /\ 1 \in 1 .. Len(w(i))
    BY <1>3, <1>4, <2>1
  <2>3. Linked(Uncouple(g[i], w(i)[1]), Without(w(i), 1), E)
    BY <1>6, <2>2, UncoupleLinked
  <2> QED BY <1>4, <2>1, <2>2, <2>3
<1>7. \A i \in Nat : i \in T
  <2>1. 0 \in T /\ \A i \in T : i + 1 \in T
    BY <1>2, <1>5, <1>6
  <2> HIDE DEF T
  <2>2. T \in SUBSET Nat
    BY DEF T
  <2> QED BY <2>1, <2>2, InductionOverSets
<1> QED BY <1>2, <1>3, <1>4, <1>7

----------------------------------------------------------------------------
(* What is found by walking along the pointers.                            *)

\* x, p[x], p[p[x]] and so on, n times.
Repeated(S, x, n, p) ==
    CHOOSE g : g \in [0 .. n -> S] /\ g[0] = x /\ \A i \in 1 .. n : g[i] = p[g[i - 1]]

\* Repeated(S, x, n, p) is what it says.
LEMMA Repeats ==
    ASSUME NEW S, NEW x \in S, NEW n \in Nat, NEW p \in [S -> S]
    PROVE  /\ Repeated(S, x, n, p) \in [0 .. n -> S]
           /\ Repeated(S, x, n, p)[0] = x
           /\ \A i \in 1 .. n : Repeated(S, x, n, p)[i] = p[Repeated(S, x, n, p)[i - 1]]
<1> DEFINE h == [i \in 1 .. n |-> p]
<1>1. h \in [1 .. n -> [S -> S]] /\ \A i \in 1 .. n : h[i] = p
  OBVIOUS
<1> HIDE DEF h
<1>2. PICK g \in [0 .. n -> S] : g[0] = x /\ \A i \in 1 .. n : g[i] = h[i][g[i - 1]]
  BY <1>1, Iterates
<1>3. g \in [0 .. n -> S] /\ g[0] = x /\ \A i \in 1 .. n : g[i] = p[g[i - 1]]
  BY <1>1, <1>2
<1> QED BY <1>3 DEF Repeated

\* No sequence of distinct elements is longer than there are elements.
LEMMA NoLongerThanElements ==
    ASSUME NEW E, IsFiniteSet(E), NEW q \in Seq(E), IsInjective(q)
    PROVE  Len(q) <= Cardinality(E) /\ Len(q) \in Nat /\ Cardinality(E) \in Nat
<1> DEFINE n == Len(q)
<1>1. n \in Nat /\ q \in [1 .. n -> E]
  BY SequenceFacts
<1>2. q \in Injection(1 .. n, E)
  BY <1>1 DEF Injection
<1> HIDE DEF n
<1>3. Cardinality(1 .. n) <= Cardinality(E)
  BY <1>2, FS_Injection
<1>4. Cardinality(1 .. n) = n
  <2>1. Cardinality(1 .. n) = IF 1 > n THEN 0 ELSE n - 1 + 1
    BY <1>1, FS_Interval
  <2> QED BY <1>1, <2>1
<1>5. Cardinality(E) \in Nat
  BY FS_CardinalityType
<1> QED BY <1>1, <1>3, <1>4, <1>5 DEF n

\* Walking along next finds the sequence.
LEMMA ElementsLinked ==
    ASSUME NEW E, IsFiniteSet(E), NEW l, NEW q, Linked(l, q, E)
    PROVE  Elements(l) = q
<1> DEFINE size == Cardinality(E)
           L == Len(q)
           next(w) == IF w = <<>> THEN l.first ELSE l.next[w[Len(w)]]
           grow == [w \in Seq(E) |-> IF next(w) = None THEN w ELSE Append(w, next(w))]
           F(a) == [n \in 0 .. size |-> IF n = 0 THEN <<>> ELSE grow[a[n - 1]]]
           f == CHOOSE a : a = F(a)
           w(i) == Joined(<<>>, q, i)
<1>1. l \in ListsOf(E) /\ None \notin E /\ q \in Seq(E) /\ IsInjective(q)
  BY DEF Linked
<1>2. L <= size /\ L \in Nat /\ size \in Nat
  BY <1>1, NoLongerThanElements
<1>3. /\ \A i \in 1 .. L : q[i] \in E /\ q[i] # None
      /\ L > 0 => l.first = q[1]
      /\ L = 0 => l.first = None
      /\ \A i \in 1 .. L : l.next[q[i]] = IF i = L THEN None ELSE q[i + 1]
  <2>1. \A i \in 1 .. L : q[i] \in E /\ q[i] # None
    BY <1>1, SequenceFacts
  <2> QED BY <1>2, <2>1 DEF Linked
<1>4. l.first \in E \union {None} /\ l.next \in [E -> E \union {None}] /\ DOMAIN l.next = E
  BY <1>1 DEF ListsOf
<1>5. Elements(l) = f[size]
  BY <1>4 DEF Elements
<1> HIDE DEF size, L
<1>6. grow \in [Seq(E) -> Seq(E)]
  <2> SUFFICES ASSUME NEW s \in Seq(E) PROVE (IF next(s) = None THEN s ELSE Append(s, next(s))) \in Seq(E)
    OBVIOUS
  <2>1. s # <<>> => s[Len(s)] \in E
    <3>1. s # <<>> => Len(s) # 0
      BY EmptySeq
    <3>2. Len(s) \in Nat /\ \A i \in 1 .. Len(s) : s[i] \in E
      BY SequenceFacts
    <3> QED BY <3>1, <3>2
  <2>2. next(s) \in E \union {None}
    BY <1>4, <2>1
  <2> HIDE DEF next
  <2> QED BY <2>2, AppendProperties
<1> HIDE DEF grow
<1> DEFINE S == Seq(E)
           e == <<>>
           g == Repeated(S, e, size, grow)
<1>7. g \in [0 .. size -> S] /\ g[0] = e /\ \A i \in 1 .. size : g[i] = grow[g[i - 1]]
  <2>1. e \in S /\ grow \in [S -> S]
    BY <1>6
  <2> HIDE DEF S, e, F, f
  <2> QED BY <1>2, <2>1, Repeats
<1> HIDE DEF g
<1>8. g = F(g)
  <2>1. \A i \in 0 .. size : i # 0 => i \in 1 .. size
    BY <1>2
  <2>2. \A i \in 0 .. size : g[i] = IF i = 0 THEN <<>> ELSE grow[g[i - 1]]
    BY <1>7, <2>1
  <2> QED BY <1>7, <2>2
<1>9. f = F(f)
  BY <1>8
<1> HIDE DEF f
<1>10. f[0] = <<>> /\ \A n \in 1 .. size : f[n] = grow[f[n - 1]]
  <2>1. 0 \in 0 .. size /\ \A n \in 1 .. size : n \in 0 .. size /\ n # 0
    BY <1>2
  <2> QED BY <1>9, <2>1
<1> HIDE DEF F
<1>11. <<>> \in Seq(E) /\ Len(<<>>) = 0 /\ IsInjective(<<>>) /\ Range(<<>>) = {}
  BY DEF IsInjective, Range
<1>12. /\ w(0) = <<>> /\ w(L) = q
       /\ \A i \in 0 .. L - 1 : w(i + 1) = Append(w(i), q[i + 1])
  <2> DEFINE z == <<>>
  <2>1. z \o q = q
    BY <1>1, ConcatEmptySeq
  <2>2. z \in Seq(E) /\ IsInjective(z) /\ Range(z) \intersect Range(q) = {}
    BY <1>11
  <2> HIDE DEF z
  <2>3. /\ Joined(z, q, 0) = z /\ Joined(z, q, Len(q)) = z \o q
        /\ \A i \in 0 .. Len(q) - 1 : Joined(z, q, i + 1) = Append(Joined(z, q, i), q[i + 1])
    BY <1>1, <2>2, JoinedSteps
  <2> QED BY <2>1, <2>3 DEF L, z
<1>13. \A i \in 0 .. L : /\ w(i) \in Seq(E) /\ Len(w(i)) = i
                         /\ \A k \in 1 .. i : w(i)[k] = q[k]
  <2> SUFFICES ASSUME NEW i \in 0 .. L
               PROVE  w(i) \in Seq(E) /\ Len(w(i)) = i /\ \A k \in 1 .. i : w(i)[k] = q[k]
    OBVIOUS
  <2>1. w(i) = [k \in 1 .. Len(<<>>) + i |-> IF k <= Len(<<>>) THEN <<>>[k] ELSE q[k - Len(<<>>)]]
    BY DEF Joined
  <2>2. Len(<<>>) + i = i /\ \A k \in 1 .. i : ~(k <= Len(<<>>)) /\ k - Len(<<>>) = k /\ k \in 1 .. L
    BY <1>2, <1>11
  <2> HIDE DEF w
  <2>3. DOMAIN w(i) = 1 .. i /\ \A k \in 1 .. i : w(i)[k] = q[k]
    BY <2>1, <2>2
  <2> DEFINE d == w(i)
  <2>4. DOMAIN d = 1 .. i /\ d = [k \in 1 .. i |-> d[k]] /\ \A k \in 1 .. i : d[k] \in E
    BY <1>3, <2>1, <2>2, <2>3
  <2>5. i \in Nat
    BY <1>2
  <2> HIDE DEF d
  <2>6. d \in Seq(E) /\ Len(d) = i
    BY <2>4, <2>5, ASequence
  <2> QED BY <2>3, <2>6 DEF d
<1> HIDE DEF w
<1> DEFINE T == {i \in Nat : i <= size => f[i] = IF i <= L THEN w(i) ELSE q}
<1>14. ASSUME NEW i \in Nat, i + 1 <= size, f[i] = IF i <= L THEN w(i) ELSE q
       PROVE  f[i + 1] = IF i + 1 <= L THEN w(i + 1) ELSE q
  <2>1. f[i + 1] = grow[f[i]]
    <3>1. i + 1 \in 1 .. size /\ (i + 1) - 1 = i
      BY <1>2, <1>14
    <3> QED BY <1>10, <3>1
  <2>2. \A s \in Seq(E) : grow[s] = IF next(s) = None THEN s ELSE Append(s, next(s))
    BY DEF grow
  <2>3. CASE i + 1 <= L
    <3>1. i \in 0 .. L /\ i \in 0 .. L - 1 /\ i <= L /\ i + 1 \in 1 .. L
      BY <1>2, <2>3
    <3>2. f[i] = w(i) /\ w(i) \in Seq(E) /\ Len(w(i)) = i
      BY <1>13, <1>14, <3>1
    <3>3. next(w(i)) = q[i + 1]
      <4>1. CASE i = 0
        BY <1>2, <1>3, <1>12, <2>3, <4>1
      <4>2. CASE i # 0
        <5>1. w(i) # <<>>
          BY <1>11, <3>2, <4>2
        <5>2. i \in 1 .. L /\ i \in 1 .. i /\ i # L
          BY <1>2, <2>3, <4>2
        <5>3. w(i)[Len(w(i))] = q[i] /\ l.next[q[i]] = q[i + 1]
          BY <1>3, <1>13, <3>1, <3>2, <5>2
        <5> QED BY <5>1, <5>3
      <4> QED BY <4>1, <4>2
    <3>4. q[i + 1] # None
      BY <1>3, <3>1
    <3> HIDE DEF next
    <3> QED BY <1>12, <2>1, <2>2, <2>3, <3>1, <3>2, <3>3, <3>4
  <2>4. CASE ~(i + 1 <= L)
    <3>1. f[i] = q
      <4>1. i <= L => i = L
        BY <1>2, <2>4
      <4> QED BY <1>12, <1>14, <4>1
    <3>2. next(q) = None
      <4>1. CASE L = 0
        <5>1. q = <<>>
          BY <1>1, <4>1, EmptySeq DEF L
        <5> QED BY <1>3, <4>1, <5>1
      <4>2. CASE L # 0
        <5>1. q # <<>> /\ L \in 1 .. L
          BY <1>2, <1>11, <4>2 DEF L
        <5>2. l.next[q[L]] = None
          BY <1>3, <5>1
        <5> QED BY <5>1, <5>2 DEF L
      <4> QED BY <4>1, <4>2
    <3> HIDE DEF next
    <3> QED BY <1>1, <2>1, <2>2, <2>4, <3>1, <3>2
  <2> QED BY <2>3, <2>4
<1>15. \A i \in Nat : i \in T
  <2>1. 0 \in T
    BY <1>2, <1>10, <1>12
  <2>2. \A i \in T : i + 1 \in T
    BY <1>2, <1>14
  <2> HIDE DEF T
  <2>3. T \in SUBSET Nat
    BY DEF T
  <2> QED BY <2>1, <2>2, <2>3, InductionOverSets
<1>16. f[size] = q
  <2>1. size \in T
    BY <1>2, <1>15
  <2>2. size <= L => size = L
    BY <1>2
  <2> QED BY <1>2, <1>12, <2>1, <2>2
<1> QED BY <1>5, <1>16

----------------------------------------------------------------------------
(* A search goes round the list.                                           *)

\* The ring of places that a search goes round: r, then perhaps nowhere, between
\* its d-th element and the next.
Ring(step, r, d) ==
    \A k \in 1 .. Len(r) :
        LET after == IF k = Len(r) THEN r[1] ELSE r[k + 1]
        IN  IF k = d THEN step[r[k]] = None /\ step[None] = after ELSE step[r[k]] = after

\* The loop of a search: where it is after n steps.
LEMMA SearchSteps ==
    ASSUME NEW E, IsFiniteSet(E), None \notin E, NEW step \in [E \union {None} -> E \union {None}],
           NEW s \in E, NEW v, ~Offered(s, v, showvariable)
    PROVE  LET Stops(x) == x = s \/ (x # None /\ Offered(x, v, showvariable))
               size == Cardinality(E) + 1
           IN  \E pos : /\ pos[0] = s /\ pos[1] = step[s]
                        /\ \A n \in 1 .. size : pos[n + 1] = IF Stops(pos[n]) THEN pos[n] ELSE step[pos[n]]
                        /\ Search(step, s, v) = pos[size + 1]
<1> DEFINE D == DOMAIN step
           size == Cardinality(D)
           Stops(x) == x = s \/ (x # None /\ Offered(x, v, showvariable))
           onward == [x \in D |-> IF Stops(x) THEN x ELSE step[x]]
           F(a) == [n \in 0 .. size |-> IF n = 0 THEN step[s] ELSE onward[a[n - 1]]]
           f == CHOOSE a : a = F(a)
<1>1. size \in Nat /\ size = Cardinality(E) + 1 /\ D = E \union {None}
  <2>1. Cardinality(E \union {None}) = Cardinality(E) + 1
    BY FS_AddElement
  <2>2. Cardinality(E) \in Nat
    BY FS_CardinalityType
  <2>3. D = E \union {None}
    OBVIOUS
  <2> HIDE DEF D
  <2> QED BY <2>1, <2>2, <2>3
<1>2. Search(step, s, v) = f[size]
  BY DEF Search
<1>3. onward \in [D -> D] /\ step[s] \in D
  OBVIOUS
<1> HIDE DEF size, onward, D
<1> DEFINE g == Repeated(D, step[s], size, onward)
<1>4. g \in [0 .. size -> D] /\ g[0] = step[s] /\ \A i \in 1 .. size : g[i] = onward[g[i - 1]]
  <2>1. size \in Nat
    BY <1>1
  <2> QED BY <1>3, <2>1, Repeats
<1> HIDE DEF g
<1>5. g = F(g)
  <2>1. \A i \in 0 .. size : i # 0 => i \in 1 .. size
    BY <1>1
  <2>2. \A i \in 0 .. size : g[i] = IF i = 0 THEN step[s] ELSE onward[g[i - 1]]
    BY <1>4, <2>1
  <2> QED BY <1>4, <2>2
<1>6. f = F(f)
  BY <1>5
<1> HIDE DEF f
<1>7. f[0] = step[s] /\ f \in [0 .. size -> D] /\ \A n \in 1 .. size : f[n] = onward[f[n - 1]]
  <2>1. 0 \in 0 .. size /\ \A n \in 1 .. size : n \in 0 .. size /\ n # 0
    BY <1>1
  <2>2. DOMAIN f = 0 .. size /\ f = [n \in 0 .. size |-> f[n]]
    BY <1>6
  <2>3. f[0] = step[s] /\ \A n \in 1 .. size : f[n] = onward[f[n - 1]]
    BY <1>6, <2>1
  <2> DEFINE T == {n \in Nat : n <= size => f[n] \in D}
  <2>4. 0 \in T
    BY <1>3, <2>3
  <2>5. ASSUME NEW n \in T PROVE n + 1 \in T
    <3>1. n + 1 <= size => n + 1 \in 1 .. size /\ (n + 1) - 1 = n /\ n <= size
      BY <1>1
    <3> QED BY <1>3, <2>3, <3>1
  <2>6. \A n \in Nat : n \in T
    <3>1. T \in SUBSET Nat
      OBVIOUS
    <3> HIDE DEF T
    <3> QED BY <2>4, <2>5, <3>1, InductionOverSets
  <2>7. \A n \in 0 .. size : f[n] \in D
    BY <1>1, <2>6
  <2> HIDE DEF T
  <2> QED BY <2>2, <2>3, <2>7
<1> DEFINE pos == [n \in 0 .. size + 1 |-> IF n = 0 THEN s ELSE f[n - 1]]
<1>8. pos[0] = s /\ \A n \in 1 .. size + 1 : pos[n] = f[n - 1]
  BY <1>1
<1>9. ASSUME NEW n \in 1 .. size PROVE pos[n + 1] = IF Stops(pos[n]) THEN pos[n] ELSE step[pos[n]]
  <2>1. n \in 1 .. size + 1 /\ n + 1 \in 1 .. size + 1 /\ (n + 1) - 1 = n /\ n - 1 \in 0 .. size
    BY <1>1
  <2>2. pos[n] = f[n - 1] /\ pos[n + 1] = onward[f[n - 1]] /\ f[n - 1] \in D
    BY <1>7, <1>8, <2>1
  <2> HIDE DEF pos
  <2>3. \A x \in D : onward[x] = IF Stops(x) THEN x ELSE step[x]
    BY DEF onward
  <2> HIDE DEF Stops
  <2> QED BY <2>2, <2>3
<1>10. pos[1] = step[s] /\ pos[size + 1] = f[size]
  <2>1. 1 \in 1 .. size + 1 /\ 1 - 1 = 0 /\ size + 1 \in 1 .. size + 1 /\ (size + 1) - 1 = size
    BY <1>1
  <2> HIDE DEF pos
  <2> QED BY <1>7, <1>8, <2>1
<1> HIDE DEF pos
<1> QED BY <1>1, <1>2, <1>8, <1>9, <1>10

\* A search that goes round the ring finds what is offered first.
LEMMA SearchRing ==
    ASSUME NEW E, IsFiniteSet(E), None \notin E, NEW step \in [E \union {None} -> E \union {None}],
           NEW v, NEW r \in Seq(E), IsInjective(r), NEW d \in 1 .. Len(r), Ring(step, r, d)
    PROVE  Search(step, r[1], v) = Lists!FirstOffered(r, v)
<1> DEFINE L == Len(r)
           s == r[1]
           O(x) == Offered(x, v, showvariable)
           size == Cardinality(E) + 1
           hits == {k \in DOMAIN r : Lists!Offered(r[k], v, showvariable)}
<1>1. /\ L \in Nat /\ DOMAIN r = 1 .. L /\ size \in Nat /\ L + 1 <= size /\ L >= 1
      /\ \A k \in 1 .. L : r[k] \in E /\ r[k] # None
      /\ \A a, b \in 1 .. L : r[a] = r[b] => a = b
  <2>1. Len(r) <= Cardinality(E) /\ Len(r) \in Nat /\ Cardinality(E) \in Nat
    BY NoLongerThanElements
  <2> QED BY <2>1, SequenceFacts DEF IsInjective
<1>2. Lists!FirstOffered(r, v) = IF hits = {} THEN r[1] ELSE r[CHOOSE k \in hits : \A j \in hits : k <= j]
  BY DEF Lists!FirstOffered
<1>8. \A k : k \in hits <=> k \in 1 .. L /\ O(r[k])
  <2>1. \A x : Lists!Offered(x, v, showvariable) <=> O(x)
    BY DEF Lists!Offered, Lists!Range, Offered, Range
  <2> HIDE DEF O
  <2> QED BY <1>1, <2>1
<1>3. \A k \in 1 .. L : /\ k # d => step[r[k]] = IF k = L THEN s ELSE r[k + 1]
                        /\ k = d => step[r[k]] = None /\ step[None] = IF k = L THEN s ELSE r[k + 1]
  BY <1>1 DEF Ring
<1>4. d \in 1 .. L
  OBVIOUS
<1> HIDE DEF L, s, size, hits, O
<1>5. s \in E /\ s = r[1] /\ 1 \in 1 .. L /\ s # None
  BY <1>1 DEF s
<1>6. CASE O(s)
  <2>1. 1 \in hits /\ \A j \in hits : j \in Nat /\ 1 <= j
    BY <1>1, <1>5, <1>6, <1>8
  <2>2. (CHOOSE k \in hits : \A j \in hits : k <= j) = 1
    <3> DEFINE c == CHOOSE k \in hits : \A j \in hits : k <= j
    <3>1. c \in hits /\ \A j \in hits : c <= j
      BY <2>1
    <3> HIDE DEF c
    <3>2. c <= 1 /\ c \in Nat /\ 1 <= c
      BY <2>1, <3>1
    <3>3. c = 1
      BY <3>2
    <3> QED BY <3>3 DEF c
  <2>3. Lists!FirstOffered(r, v) = s
    BY <1>2, <1>5, <2>1, <2>2
  <2>4. Search(step, s, v) = s
    BY <1>6 DEF Search, O
  <2> QED BY <1>5, <2>3, <2>4
<1>7. CASE ~O(s)
  <2> DEFINE Stops(x) == x = s \/ (x # None /\ O(x))
  <2>1. PICK pos : /\ pos[0] = s /\ pos[1] = step[s]
                   /\ \A n \in 1 .. size : pos[n + 1] = IF Stops(pos[n]) THEN pos[n] ELSE step[pos[n]]
                   /\ Search(step, s, v) = pos[size + 1]
    BY <1>5, <1>7, SearchSteps DEF size, O
  <2>2. ASSUME NEW n \in 0 .. size, n = 0 \/ pos[n] # s, pos[n] # None => ~O(pos[n])
        PROVE  pos[n + 1] = step[pos[n]]
    <3>1. n # 0 => n \in 1 .. size
      BY <1>1
    <3>2. n = 0 => n + 1 = 1
      OBVIOUS
    <3> QED BY <2>1, <2>2, <3>1, <3>2
  <2>3. ASSUME NEW n \in 1 .. size + 1, Stops(pos[n]) PROVE pos[size + 1] = pos[n]
    <3> DEFINE T == {m \in Nat : n + m <= size + 1 => pos[n + m] = pos[n]}
    <3>1. 0 \in T
      <4>1. n + 0 = n
        BY <1>1
      <4> QED BY <4>1
    <3>2. ASSUME NEW m \in T PROVE m + 1 \in T
      <4> SUFFICES ASSUME n + (m + 1) <= size + 1 PROVE pos[n + (m + 1)] = pos[n]
        OBVIOUS
      <4>1. m \in Nat /\ n + m \in 1 .. size /\ n + m <= size + 1 /\ (n + m) + 1 = n + (m + 1)
        BY <1>1
      <4>2. pos[n + m] = pos[n]
        BY <4>1
      <4> HIDE DEF Stops
      <4>3. pos[(n + m) + 1] = IF Stops(pos[n + m]) THEN pos[n + m] ELSE step[pos[n + m]]
        BY <2>1, <4>1
      <4> QED BY <2>3, <4>1, <4>2, <4>3
    <3>3. \A m \in Nat : m \in T
      <4>1. T \in SUBSET Nat
        OBVIOUS
      <4> HIDE DEF T
      <4> QED BY <3>1, <3>2, <4>1, InductionOverSets
    <3>4. (size + 1) - n \in T /\ n + ((size + 1) - n) = size + 1
      <4>1. (size + 1) - n \in Nat /\ n + ((size + 1) - n) = size + 1
        BY <1>1
      <4> HIDE DEF T
      <4> QED BY <3>3, <4>1
    <3>5. size + 1 <= size + 1
      BY <1>1
    <3> QED BY <3>4, <3>5
  <2> DEFINE c(k) == IF k > d THEN k ELSE k - 1
             Fine(k) == (\A j \in 1 .. k - 1 : ~O(r[j])) => pos[c(k)] = r[k]
             T == {k \in Nat : k + 1 <= L => Fine(k + 1)}
  <2>4. Fine(1)
    <3>1. c(1) = 0
      BY <1>1
    <3> HIDE DEF c
    <3> QED BY <1>5, <2>1, <3>1
  <2>5. ASSUME NEW k \in 1 .. L - 1, Fine(k) PROVE Fine(k + 1)
    <3> SUFFICES ASSUME \A j \in 1 .. (k + 1) - 1 : ~O(r[j]) PROVE pos[c(k + 1)] = r[k + 1]
      OBVIOUS
    <3>1. /\ k \in 1 .. (k + 1) - 1 /\ k \in 1 .. L /\ k # L /\ c(k) \in 0 .. size /\ c(k) + 1 \in 1 .. size
          /\ (c(k) = 0 <=> k = 1) /\ \A j \in 1 .. k - 1 : j \in 1 .. (k + 1) - 1
      BY <1>1
    <3>2. pos[c(k)] = r[k] /\ ~O(r[k])
      <4> HIDE DEF c
      <4> QED BY <2>5, <3>1
    <3>3. c(k) = 0 \/ r[k] # s
      <4>1. r[k] = s => k = 1
        BY <1>1, <1>5, <3>1
      <4> HIDE DEF c
      <4> QED BY <3>1, <4>1
    <3>4. pos[c(k) + 1] = step[r[k]]
      <4> HIDE DEF c
      <4> QED BY <2>2, <3>1, <3>2, <3>3
    <3>5. CASE k # d
      <4>1. c(k + 1) = c(k) + 1
        BY <1>1, <3>5
      <4> HIDE DEF c
      <4> QED BY <1>3, <3>1, <3>4, <3>5, <4>1
    <3>6. CASE k = d
      <4>1. c(k + 1) = (c(k) + 1) + 1 /\ c(k) + 1 # 0 /\ c(k) + 1 \in 0 .. size
        BY <1>1, <3>1, <3>6
      <4> HIDE DEF c
      <4>2. pos[c(k) + 1] = None /\ step[None] = r[k + 1]
        BY <1>3, <3>1, <3>4, <3>6
      <4>3. pos[(c(k) + 1) + 1] = step[None]
        BY <1>5, <2>2, <4>1, <4>2
      <4> QED BY <4>1, <4>2, <4>3
    <3> QED BY <3>5, <3>6
  <2>6. \A k \in Nat : k \in T
    <3> HIDE DEF Fine
    <3>1. 0 \in T
      BY <2>4
    <3>2. ASSUME NEW k \in T PROVE k + 1 \in T
      <4> SUFFICES ASSUME (k + 1) + 1 <= L PROVE Fine((k + 1) + 1)
        OBVIOUS
      <4>1. k + 1 \in 1 .. L - 1 /\ k + 1 <= L
        BY <1>1
      <4>2. Fine(k + 1)
        BY <4>1
      <4> QED BY <2>5, <4>1, <4>2
    <3>3. T \in SUBSET Nat
      OBVIOUS
    <3> HIDE DEF T
    <3> QED BY <3>1, <3>2, <3>3, InductionOverSets
  <2>7. ASSUME NEW k \in 1 .. L PROVE Fine(k)
    <3>1. k - 1 \in Nat /\ (k - 1) + 1 = k /\ k <= L
      BY <1>1
    <3>2. k - 1 \in T
      BY <2>6, <3>1
    <3> HIDE DEF Fine
    <3> QED BY <3>1, <3>2
  <2>8. CASE hits = {}
    <3>1. \A j \in 1 .. L : ~O(r[j])
      BY <1>8, <2>8
    <3>2. L \in 1 .. L /\ \A j \in 1 .. L - 1 : j \in 1 .. L
      BY <1>1
    <3>3. pos[c(L)] = r[L]
      BY <2>7, <3>1, <3>2
    <3>4. c(L) \in 0 .. size /\ (c(L) = 0 => L = 1)
      BY <1>1
    <3>5. c(L) = 0 \/ r[L] # s
      <4>1. r[L] = s => L = 1
        BY <1>1, <1>5, <3>2
      <4>2. L = 1 => c(L) = 0
        BY <1>1
      <4> HIDE DEF c
      <4> QED BY <4>1, <4>2
    <3>6. pos[c(L) + 1] = step[r[L]]
      <4> HIDE DEF c
      <4> QED BY <2>2, <3>1, <3>2, <3>3, <3>4, <3>5
    <3>7. pos[L + 1] = s
      <4>1. CASE L # d
        <5>1. c(L) = L
          BY <1>1, <4>1
        <5> HIDE DEF c
        <5> QED BY <1>3, <3>2, <3>6, <4>1, <5>1
      <4>2. CASE L = d
        <5>1. c(L) + 1 = L /\ L \in 0 .. size /\ L # 0
          BY <1>1, <4>2
        <5> HIDE DEF c
        <5>2. pos[L] = None /\ step[None] = s
          BY <1>3, <3>2, <3>6, <4>2, <5>1
        <5> QED BY <1>5, <2>2, <5>1, <5>2
      <4> QED BY <4>1, <4>2
    <3>8. L + 1 \in 1 .. size + 1
      BY <1>1
    <3>9. pos[size + 1] = s
      BY <2>3, <3>7, <3>8
    <3> QED BY <1>2, <1>5, <2>1, <2>8, <3>9
  <2>9. CASE hits # {}
    <3> DEFINE b == CHOOSE k \in hits : \A j \in hits : k <= j
    <3>1. b \in hits /\ \A j \in hits : b <= j
      <4>1. hits \in SUBSET Nat
        BY <1>1, <1>8
      <4>2. \E k \in hits : \A j \in hits : k <= j
        BY <2>9, <4>1, LeastNumber
      <4> QED BY <4>2
    <3> HIDE DEF b
    <3>2. b \in 1 .. L /\ O(r[b]) /\ b # 1
      BY <1>5, <1>7, <1>8, <3>1
    <3>3. \A j \in 1 .. b - 1 : ~O(r[j])
      <4>1. \A j \in 1 .. b - 1 : j \in 1 .. L /\ ~(b <= j)
        BY <1>1, <3>2
      <4> QED BY <1>8, <3>1, <4>1
    <3>4. pos[c(b)] = r[b] /\ c(b) \in 1 .. size + 1
      <4>1. c(b) \in 1 .. size + 1
        BY <1>1, <3>2
      <4> HIDE DEF c
      <4> QED BY <2>7, <3>2, <3>3, <4>1
    <3>5. pos[size + 1] = r[b]
      <4> HIDE DEF c
      <4> QED BY <1>1, <2>3, <3>2, <3>4
    <3> QED BY <1>2, <1>5, <2>1, <2>9, <3>5 DEF b
  <2> QED BY <2>8, <2>9
<1> QED BY <1>6, <1>7

\* An iterator moves in its list.
LEMMA MoveLinked ==
    ASSUME NEW E, NEW l, NEW q, Linked(l, q, E), NEW x \in Range(q) \union {None}
    PROVE  Linked([l EXCEPT !.curpos = x], q, E) /\ [l EXCEPT !.curpos = x].curpos = x
<1>1. l \in ListsOf(E) /\ q \in Seq(E)
  BY DEF Linked
<1>2. x \in E \union {None}
  BY <1>1, SequenceFacts
<1> DEFINE m == [l EXCEPT !.curpos = x]
<1>3. /\ m \in ListsOf(E) /\ m.curpos = x /\ m.first = l.first /\ m.last = l.last
      /\ m.next = l.next /\ m.previous = l.previous /\ m.members = l.members
  BY <1>1, <1>2 DEF ListsOf
<1> HIDE DEF m
<1>4. Linked(m, q, E)
  BY <1>3 DEF Linked
<1> QED BY <1>3, <1>4 DEF m

\* The place of p in q.
LEMMA PlaceOfFact ==
    ASSUME NEW E, NEW q \in Seq(E), NEW p \in Range(q)
    PROVE  Lists!PlaceOf(q, p) \in 1 .. Len(q) /\ q[Lists!PlaceOf(q, p)] = p
<1>1. DOMAIN q = 1 .. Len(q) /\ \E i \in 1 .. Len(q) : p = q[i]
  BY SequenceFacts
<1> QED BY <1>1 DEF Lists!PlaceOf

\* The pointers of a list that is not empty.
LEMMA LinkedFacts ==
    ASSUME NEW E, NEW l, NEW q, Linked(l, q, E), q # <<>>
    PROVE  /\ None \notin E /\ q \in Seq(E) /\ Len(q) \in Nat /\ Len(q) > 0 /\ DOMAIN q = 1 .. Len(q)
           /\ \A i \in 1 .. Len(q) : q[i] \in E /\ q[i] # None /\ q[i] \in Range(q)
           /\ \A a, b \in 1 .. Len(q) : q[a] = q[b] => a = b
           /\ l.first = q[1] /\ l.last = q[Len(q)]
           /\ \A i \in 1 .. Len(q) :
                /\ l.next[q[i]] = IF i = Len(q) THEN None ELSE q[i + 1]
                /\ l.previous[q[i]] = IF i = 1 THEN None ELSE q[i - 1]
           /\ \A x \in E : l.next[x] \in E \union {None} /\ l.previous[x] \in E \union {None}
<1>1. None \notin E /\ q \in Seq(E) /\ IsInjective(q) /\ l \in ListsOf(E)
  BY DEF Linked
<1>2. Len(q) \in Nat /\ DOMAIN q = 1 .. Len(q) /\ \A i \in 1 .. Len(q) : q[i] \in E /\ q[i] \in Range(q)
  BY <1>1, SequenceFacts
<1>3. Len(q) > 0
  BY <1>1, <1>2, EmptySeq
<1>4. \A a, b \in 1 .. Len(q) : q[a] = q[b] => a = b
  BY <1>1, <1>2 DEF IsInjective
<1>5. /\ l.first = q[1] /\ l.last = q[Len(q)]
      /\ \A i \in 1 .. Len(q) :
           /\ l.next[q[i]] = IF i = Len(q) THEN None ELSE q[i + 1]
           /\ l.previous[q[i]] = IF i = 1 THEN None ELSE q[i - 1]
  BY <1>3 DEF Linked
<1>6. \A x \in E : l.next[x] \in E \union {None} /\ l.previous[x] \in E \union {None}
  BY <1>1 DEF ListsOf
<1>7. \A i \in 1 .. Len(q) : q[i] # None
  BY <1>1, <1>2
<1>8. Len(q) \in Nat /\ Len(q) > 0 /\ DOMAIN q = 1 .. Len(q) /\ \A i \in 1 .. Len(q) : q[i] \in E /\ q[i] \in Range(q)
  BY <1>2, <1>3
<1> HIDE DEF Linked
<1> QED BY <1>1, <1>4, <1>5, <1>6, <1>7, <1>8

\* The elements of q in another order.
Round(q, idx) == [k \in 1 .. Len(q) |-> q[idx[k]]]

\* They are the same elements, each once.
LEMMA RoundFacts ==
    ASSUME NEW E, NEW q \in Seq(E), IsInjective(q), NEW idx \in [1 .. Len(q) -> 1 .. Len(q)],
           IsInjective(idx)
    PROVE  /\ Round(q, idx) \in Seq(E) /\ Len(Round(q, idx)) = Len(q) /\ IsInjective(Round(q, idx))
           /\ \A k \in 1 .. Len(q) : Round(q, idx)[k] = q[idx[k]] /\ Round(q, idx)[k] \in Range(q)
<1> DEFINE n == Len(q)
           r == Round(q, idx)
<1>1. n \in Nat /\ DOMAIN q = 1 .. n /\ \A i \in 1 .. n : q[i] \in E /\ q[i] \in Range(q)
  BY SequenceFacts
<1>2. \A a, b \in 1 .. n : q[a] = q[b] => a = b
  BY <1>1 DEF IsInjective
<1>3. r = [k \in 1 .. n |-> q[idx[k]]] /\ \A k \in 1 .. n : idx[k] \in 1 .. n
  BY DEF Round
<1>4. \A a, b \in 1 .. n : idx[a] = idx[b] => a = b
  BY DEF IsInjective
<1> HIDE DEF n, r
<1>5. DOMAIN r = 1 .. n /\ r = [k \in 1 .. n |-> r[k]] /\ \A k \in 1 .. n : r[k] = q[idx[k]]
  BY <1>3
<1>6. r \in Seq(E) /\ Len(r) = n
  <2>1. \A k \in 1 .. n : r[k] \in E
    BY <1>1, <1>3, <1>5
  <2> QED BY <1>1, <1>5, <2>1, ASequence
<1>7. ASSUME NEW a \in 1 .. n, NEW b \in 1 .. n, r[a] = r[b] PROVE a = b
  BY <1>2, <1>3, <1>4, <1>5, <1>7
<1>8. IsInjective(r)
  BY <1>5, <1>7 DEF IsInjective
<1>9. \A k \in 1 .. n : r[k] = q[idx[k]] /\ r[k] \in Range(q)
  BY <1>1, <1>3, <1>5
<1> QED BY <1>6, <1>8, <1>9 DEF n, r

\* The way round n places from place i on, forwards and backwards.
Forth(n, i) == [k \in 1 .. n |-> IF i + k <= n THEN i + k ELSE i + k - n]
Back(n, i)  == [k \in 1 .. n |-> IF i - k >= 1 THEN i - k ELSE i - k + n]

\* w goes once round n places, upwards or downwards, from beside place i on; from
\* w[d] it goes on at the other end.
GoesForth(n, i, w, d) ==
    /\ w \in [1 .. n -> 1 .. n] /\ IsInjective(w)
    /\ d \in 1 .. n /\ w[d] = n /\ w[IF d = n THEN 1 ELSE d + 1] = 1
    /\ \A k \in 1 .. n : k # d => w[k] # n /\ w[IF k = n THEN 1 ELSE k + 1] = w[k] + 1
    /\ w[1] = IF i = n THEN 1 ELSE i + 1
GoesBack(n, i, w, d) ==
    /\ w \in [1 .. n -> 1 .. n] /\ IsInjective(w)
    /\ d \in 1 .. n /\ w[d] = 1 /\ w[IF d = n THEN 1 ELSE d + 1] = n
    /\ \A k \in 1 .. n : k # d => w[k] # 1 /\ w[IF k = n THEN 1 ELSE k + 1] = w[k] - 1
    /\ w[1] = IF i = 1 THEN n ELSE i - 1

\* Forth goes once round all places, and behind place n comes place 1.
LEMMA ForthFacts ==
    ASSUME NEW n \in Nat, n > 0, NEW i \in 0 .. n
    PROVE  GoesForth(n, i, Forth(n, i), IF i = n THEN n ELSE n - i)
<1> DEFINE w == Forth(n, i)
           d == IF i = n THEN n ELSE n - i
<1>1. \A k \in 1 .. n : w[k] = IF i + k <= n THEN i + k ELSE i + k - n
  BY DEF Forth
<1>2. w \in [1 .. n -> 1 .. n]
  BY DEF Forth
<1> HIDE DEF w
<1>3. \A a, b \in 1 .. n : w[a] = w[b] => a = b
  BY <1>1
<1>4. IsInjective(w)
  BY <1>2, <1>3 DEF IsInjective
<1>5. d \in 1 .. n /\ 1 \in 1 .. n
  OBVIOUS
<1>6. w[d] = n
  BY <1>1, <1>5
<1>7. w[1] = IF i = n THEN 1 ELSE i + 1
  BY <1>1, <1>5
<1>8. w[IF d = n THEN 1 ELSE d + 1] = 1
  <2>1. CASE d = n
    BY <1>7, <2>1
  <2>2. CASE d # n
    <3>1. d + 1 \in 1 .. n /\ i + (d + 1) = n + 1
      BY <2>2
    <3> QED BY <1>1, <2>2, <3>1
  <2> QED BY <2>1, <2>2
<1>9. ASSUME NEW k \in 1 .. n, k # d PROVE w[k] # n /\ w[IF k = n THEN 1 ELSE k + 1] = w[k] + 1
  <2>1. w[k] = IF i + k <= n THEN i + k ELSE i + k - n
    BY <1>1
  <2>2. w[k] # n
    BY <1>9, <2>1
  <2>3. CASE k = n
    BY <1>7, <1>9, <2>1, <2>3
  <2>4. CASE k # n
    <3>1. k + 1 \in 1 .. n
      BY <2>4
    <3>2. w[k + 1] = IF i + (k + 1) <= n THEN i + (k + 1) ELSE i + (k + 1) - n
      BY <1>1, <3>1
    <3> QED BY <1>9, <2>1, <2>4, <3>2
  <2> QED BY <2>2, <2>3, <2>4
<1> QED BY <1>2, <1>4, <1>5, <1>6, <1>7, <1>8, <1>9 DEF w, GoesForth

\* Back goes once round all places, and behind place 1 comes place n.
LEMMA BackFacts ==
    ASSUME NEW n \in Nat, n > 0, NEW i \in 1 .. n + 1
    PROVE  GoesBack(n, i, Back(n, i), IF i = 1 THEN n ELSE i - 1)
<1> DEFINE w == Back(n, i)
           d == IF i = 1 THEN n ELSE i - 1
<1>1. \A k \in 1 .. n : w[k] = IF i - k >= 1 THEN i - k ELSE i - k + n
  BY DEF Back
<1>2. w \in [1 .. n -> 1 .. n]
  BY DEF Back
<1> HIDE DEF w
<1>3. \A a, b \in 1 .. n : w[a] = w[b] => a = b
  <2> SUFFICES ASSUME NEW a \in 1 .. n, NEW b \in 1 .. n, w[a] = w[b] PROVE a = b
    OBVIOUS
  <2>1. /\ w[a] = IF i - a >= 1 THEN i - a ELSE i - a + n
        /\ w[b] = IF i - b >= 1 THEN i - b ELSE i - b + n
    BY <1>1
  <2>2. i \in Int /\ a \in Int /\ b \in Int /\ n \in Int /\ a >= 1 /\ a <= n /\ b >= 1 /\ b <= n
    OBVIOUS
  <2>3. (IF i - a >= 1 THEN i - a ELSE i - a + n) = (IF i - b >= 1 THEN i - b ELSE i - b + n)
    BY <2>1
  <2> HIDE DEF d
  <2> QED BY <2>2, <2>3
<1>4. IsInjective(w)
  BY <1>2, <1>3 DEF IsInjective
<1>5. d \in 1 .. n /\ 1 \in 1 .. n
  OBVIOUS
<1>6. w[d] = 1
  BY <1>1, <1>5
<1>7. w[1] = IF i = 1 THEN n ELSE i - 1
  BY <1>1, <1>5
<1>8. w[IF d = n THEN 1 ELSE d + 1] = n
  <2>1. CASE d = n
    BY <1>7, <2>1
  <2>2. CASE d # n
    <3>1. d + 1 \in 1 .. n /\ i - (d + 1) = 0
      BY <2>2
    <3> QED BY <1>1, <2>2, <3>1
  <2> QED BY <2>1, <2>2
<1>9. ASSUME NEW k \in 1 .. n, k # d PROVE w[k] # 1 /\ w[IF k = n THEN 1 ELSE k + 1] = w[k] - 1
  <2>1. w[k] = IF i - k >= 1 THEN i - k ELSE i - k + n
    BY <1>1
  <2>2. w[k] # 1
    BY <1>9, <2>1
  <2>3. CASE k = n
    BY <1>7, <1>9, <2>1, <2>3
  <2>4. CASE k # n
    <3>1. k + 1 \in 1 .. n
      BY <2>4
    <3>2. w[k + 1] = IF i - (k + 1) >= 1 THEN i - (k + 1) ELSE i - (k + 1) + n
      BY <1>1, <3>1
    <3> QED BY <1>9, <2>1, <2>4, <3>2
  <2> QED BY <2>2, <2>3, <2>4
<1> QED BY <1>2, <1>4, <1>5, <1>6, <1>7, <1>8, <1>9 DEF w, GoesBack

\* One way round q, that leads from q[last] nowhere and from nowhere to q[first].
LEMMA RoundRing ==
    ASSUME NEW E, None \notin E, NEW q \in Seq(E), IsInjective(q), NEW step,
           NEW idx \in [1 .. Len(q) -> 1 .. Len(q)], IsInjective(idx), NEW d \in 1 .. Len(q),
           step[q[idx[d]]] = None,
           step[None] = q[idx[IF d = Len(q) THEN 1 ELSE d + 1]],
           \A k \in 1 .. Len(q) :
               k # d => step[q[idx[k]]] = q[idx[IF k = Len(q) THEN 1 ELSE k + 1]]
    PROVE  Ring(step, Round(q, idx), d)
<1> DEFINE n == Len(q)
           r == Round(q, idx)
<1>1. n \in Nat /\ Len(r) = n /\ \A k \in 1 .. n : r[k] = q[idx[k]]
  BY SequenceFacts, RoundFacts
<1> HIDE DEF r
<1>2. ASSUME NEW k \in 1 .. n
      PROVE  LET after == IF k = n THEN r[1] ELSE r[k + 1]
             IN  IF k = d THEN step[r[k]] = None /\ step[None] = after ELSE step[r[k]] = after
  <2>1. (IF k = n THEN r[1] ELSE r[k + 1]) = q[idx[IF k = n THEN 1 ELSE k + 1]]
    <3>1. 1 \in 1 .. n /\ (k # n => k + 1 \in 1 .. n)
      BY <1>1
    <3> QED BY <1>1, <3>1
  <2>2. r[k] = q[idx[k]]
    BY <1>1
  <2> QED BY <2>1, <2>2
<1> QED BY <1>1, <1>2 DEF Ring, r

\* StepOn goes round the list the way Onwards does.
LEMMA OnwardsRing ==
    ASSUME NEW E, None \notin E, NEW q \in Seq(E), IsInjective(q), q # <<>>,
           NEW p \in Range(q) \union {None}, NEW step, step[None] = q[1],
           \A k \in 1 .. Len(q) : step[q[k]] = IF k = Len(q) THEN None ELSE q[k + 1]
    PROVE  LET r == Lists!Onwards(q, p)
           IN  /\ r \in Seq(E) /\ Len(r) = Len(q) /\ IsInjective(r)
               /\ \A k \in 1 .. Len(q) : r[k] \in Range(q)
               /\ \E d \in 1 .. Len(q) : Ring(step, r, d)
               /\ r[1] = IF step[p] = None THEN step[None] ELSE step[p]
<1> DEFINE n == Len(q)
           i == IF p = None THEN 0 ELSE Lists!PlaceOf(q, p)
           w == Forth(n, i)
           d == IF i = n THEN n ELSE n - i
           r == Lists!Onwards(q, p)
<1>1. n \in Nat /\ DOMAIN q = 1 .. n /\ \A k \in 1 .. n : q[k] \in E /\ q[k] # None
  BY SequenceFacts
<1>2. n > 0
  <2>1. Len(q) # 0 /\ Len(q) \in Nat
    BY EmptySeq
  <2> HIDE DEF i, w, d, r
  <2> QED BY <2>1
<1>3. p # None => Lists!PlaceOf(q, p) \in 1 .. n /\ q[Lists!PlaceOf(q, p)] = p
  BY PlaceOfFact
<1>4. i \in 0 .. n /\ (p = None => i = 0) /\ (p # None => i \in 1 .. n /\ q[i] = p)
  <2> HIDE DEF n
  <2> QED BY <1>1, <1>3
<1>5. step[None] = q[1] /\ \A k \in 1 .. n : step[q[k]] = IF k = n THEN None ELSE q[k + 1]
  OBVIOUS
<1>6. r = Round(q, w)
  <2>1. r = [k \in 1 .. n |-> q[IF i + k <= n THEN i + k ELSE i + k - n]]
    BY <1>1 DEF Lists!Onwards
  <2>2. Round(q, w) = [k \in 1 .. n |-> q[w[k]]] /\ \A k \in 1 .. n : w[k] = IF i + k <= n THEN i + k ELSE i + k - n
    BY DEF Round, Forth
  <2> HIDE DEF r, n, i, w
  <2> QED BY <2>1, <2>2
<1> HIDE DEF n, i, r
<1>7. /\ w \in [1 .. n -> 1 .. n] /\ IsInjective(w)
      /\ d \in 1 .. n /\ w[d] = n /\ w[IF d = n THEN 1 ELSE d + 1] = 1
      /\ \A k \in 1 .. n : k # d => w[k] # n /\ w[IF k = n THEN 1 ELSE k + 1] = w[k] + 1
      /\ w[1] = IF i = n THEN 1 ELSE i + 1
  <2>1. n \in Nat /\ n > 0 /\ i \in 0 .. n
    BY <1>1, <1>2, <1>4
  <2>2. GoesForth(n, i, w, d)
    BY ONLY <2>1, ForthFacts
  <2> QED BY ONLY <2>2 DEF GoesForth
<1> HIDE DEF d, w
<1>8. /\ r \in Seq(E) /\ Len(r) = n /\ IsInjective(r)
      /\ \A k \in 1 .. n : r[k] = q[w[k]] /\ r[k] \in Range(q)
  BY <1>6, <1>7, RoundFacts DEF n
<1>9. Ring(step, r, d)
  <2>1. step[q[w[d]]] = None
    BY <1>2, <1>5, <1>7
  <2>2. step[None] = q[w[IF d = n THEN 1 ELSE d + 1]]
    BY <1>5, <1>7
  <2>3. \A k \in 1 .. n : k # d => step[q[w[k]]] = q[w[IF k = n THEN 1 ELSE k + 1]]
    <3> SUFFICES ASSUME NEW k \in 1 .. n, k # d
                 PROVE  step[q[w[k]]] = q[w[IF k = n THEN 1 ELSE k + 1]]
      OBVIOUS
    <3>1. w[k] \in 1 .. n /\ w[k] # n /\ w[IF k = n THEN 1 ELSE k + 1] = w[k] + 1
      BY <1>7
    <3>2. step[q[w[k]]] = q[w[k] + 1]
      BY <1>5, <3>1
    <3> QED BY <3>1, <3>2
  <2> QED BY <1>6, <1>7, <2>1, <2>2, <2>3, RoundRing DEF n
<1>10. r[1] = IF step[p] = None THEN step[None] ELSE step[p]
  <2>1. 1 \in 1 .. n /\ n \in 1 .. n
    BY <1>1, <1>2
  <2>2. r[1] = q[IF i = n THEN 1 ELSE i + 1]
    BY <1>7, <1>8, <2>1
  <2>3. CASE p = None
    <3>1. i # n /\ i + 1 = 1 /\ q[1] # None
      BY <1>1, <1>2, <1>4, <2>1, <2>3
    <3> QED BY <1>5, <2>2, <2>3, <3>1
  <2>4. CASE p # None /\ i = n
    BY <1>4, <1>5, <2>2, <2>4
  <2>5. CASE p # None /\ i # n
    <3>1. i \in 1 .. n /\ q[i] = p /\ i + 1 \in 1 .. n
      BY <1>1, <1>4, <2>5
    <3>2. step[p] = q[i + 1] /\ q[i + 1] # None
      BY <1>1, <1>5, <2>5, <3>1
    <3> QED BY <2>2, <2>5, <3>2
  <2> QED BY <2>3, <2>4, <2>5
<1> QED BY <1>7, <1>8, <1>9, <1>10 DEF n, r

\* StepBack goes round the list the way Backwards does.
LEMMA BackwardsRing ==
    ASSUME NEW E, None \notin E, NEW q \in Seq(E), IsInjective(q), q # <<>>,
           NEW p \in Range(q) \union {None}, NEW step, step[None] = q[Len(q)],
           \A k \in 1 .. Len(q) : step[q[k]] = IF k = 1 THEN None ELSE q[k - 1]
    PROVE  LET r == Lists!Backwards(q, p)
           IN  /\ r \in Seq(E) /\ Len(r) = Len(q) /\ IsInjective(r)
               /\ \A k \in 1 .. Len(q) : r[k] \in Range(q)
               /\ \E d \in 1 .. Len(q) : Ring(step, r, d)
               /\ r[1] = IF step[p] = None THEN step[None] ELSE step[p]
<1> DEFINE n == Len(q)
           i == IF p = None THEN n + 1 ELSE Lists!PlaceOf(q, p)
           w == Back(n, i)
           d == IF i = 1 THEN n ELSE i - 1
           r == Lists!Backwards(q, p)
<1>1. n \in Nat /\ DOMAIN q = 1 .. n /\ \A k \in 1 .. n : q[k] \in E /\ q[k] # None
  BY SequenceFacts
<1>2. n > 0
  <2>1. Len(q) # 0 /\ Len(q) \in Nat
    BY EmptySeq
  <2> HIDE DEF i, w, d, r
  <2> QED BY <2>1
<1>3. p # None => Lists!PlaceOf(q, p) \in 1 .. n /\ q[Lists!PlaceOf(q, p)] = p
  BY PlaceOfFact
<1>4. i \in 1 .. n + 1 /\ (p = None => i = n + 1) /\ (p # None => i \in 1 .. n /\ q[i] = p)
  <2> HIDE DEF n
  <2> QED BY <1>1, <1>3
<1>5. step[None] = q[n] /\ \A k \in 1 .. n : step[q[k]] = IF k = 1 THEN None ELSE q[k - 1]
  OBVIOUS
<1>6. r = Round(q, w)
  <2>1. r = [k \in 1 .. n |-> q[IF i - k >= 1 THEN i - k ELSE i - k + n]]
    BY <1>1 DEF Lists!Backwards
  <2>2. Round(q, w) = [k \in 1 .. n |-> q[w[k]]] /\ \A k \in 1 .. n : w[k] = IF i - k >= 1 THEN i - k ELSE i - k + n
    BY DEF Round, Back
  <2> HIDE DEF r, n, i, w
  <2> QED BY <2>1, <2>2
<1> HIDE DEF n, i, r
<1>7. /\ w \in [1 .. n -> 1 .. n] /\ IsInjective(w)
      /\ d \in 1 .. n /\ w[d] = 1 /\ w[IF d = n THEN 1 ELSE d + 1] = n
      /\ \A k \in 1 .. n : k # d => w[k] # 1 /\ w[IF k = n THEN 1 ELSE k + 1] = w[k] - 1
      /\ w[1] = IF i = 1 THEN n ELSE i - 1
  <2>1. n \in Nat /\ n > 0 /\ i \in 1 .. n + 1
    BY <1>1, <1>2, <1>4
  <2>2. GoesBack(n, i, w, d)
    BY ONLY <2>1, BackFacts
  <2> QED BY ONLY <2>2 DEF GoesBack
<1> HIDE DEF d, w
<1>8. /\ r \in Seq(E) /\ Len(r) = n /\ IsInjective(r)
      /\ \A k \in 1 .. n : r[k] = q[w[k]] /\ r[k] \in Range(q)
  BY <1>6, <1>7, RoundFacts DEF n
<1>9. Ring(step, r, d)
  <2>1. step[q[w[d]]] = None
    <3>1. 1 \in 1 .. n
      BY <1>1, <1>2
    <3> QED BY <1>5, <1>7, <3>1
  <2>2. step[None] = q[w[IF d = n THEN 1 ELSE d + 1]]
    BY <1>5, <1>7
  <2>3. \A k \in 1 .. n : k # d => step[q[w[k]]] = q[w[IF k = n THEN 1 ELSE k + 1]]
    <3> SUFFICES ASSUME NEW k \in 1 .. n, k # d
                 PROVE  step[q[w[k]]] = q[w[IF k = n THEN 1 ELSE k + 1]]
      OBVIOUS
    <3>1. w[k] \in 1 .. n /\ w[k] # 1 /\ w[IF k = n THEN 1 ELSE k + 1] = w[k] - 1
      BY <1>7
    <3>2. step[q[w[k]]] = q[w[k] - 1]
      BY <1>5, <3>1
    <3> QED BY <3>1, <3>2
  <2> QED BY <1>6, <1>7, <2>1, <2>2, <2>3, RoundRing DEF n
<1>10. r[1] = IF step[p] = None THEN step[None] ELSE step[p]
  <2>1. 1 \in 1 .. n /\ n \in 1 .. n
    BY <1>1, <1>2
  <2>2. r[1] = q[IF i = 1 THEN n ELSE i - 1]
    BY <1>7, <1>8, <2>1
  <2>3. CASE p = None
    <3>1. i # 1 /\ i - 1 = n /\ q[n] # None
      BY <1>1, <1>2, <1>4, <2>1, <2>3
    <3> QED BY <1>5, <2>2, <2>3, <3>1
  <2>4. CASE p # None /\ i = 1
    <3>1. step[p] = None
      BY <1>4, <1>5, <2>1, <2>4
    <3> QED BY <1>5, <2>2, <2>4, <3>1
  <2>5. CASE p # None /\ i # 1
    <3>1. i \in 1 .. n /\ q[i] = p /\ i - 1 \in 1 .. n
      BY <1>1, <1>4, <2>5
    <3>2. step[p] = q[i - 1] /\ q[i - 1] # None
      BY <1>1, <1>5, <2>5, <3>1
    <3> QED BY <2>2, <2>5, <3>2
  <2> QED BY <2>3, <2>4, <2>5
<1> QED BY <1>7, <1>8, <1>9, <1>10 DEF n, r

----------------------------------------------------------------------------
(* The constants.                                                          *)

\* Where the variables of a stage can be.
Memory == Range(Base) \union Cells

\* What is assumed of a stage's own variables.
LEMMA BaseFacts ==
    /\ Base \in Seq(Memory) /\ Base # <<>> /\ IsInjective(Base)
    /\ Range(Base) \subseteq Memory /\ Range(Base) # {}
    /\ None \notin Memory /\ None \notin Views /\ None \notin Range(Ships)
    /\ Places = Memory \union {None} /\ Views # {}
<1>1. Base \in Seq(Range(Base)) /\ Base # <<>> /\ IsInjective(Base)
  BY VariablesAssumption
<1>2. Len(Base) \in Nat /\ Len(Base) # 0 /\ DOMAIN Base = 1 .. Len(Base)
  BY <1>1, EmptySeq, SequenceFacts
<1>3. Base[1] \in Range(Base)
  BY <1>1, <1>2, SequenceFacts
<1>4. Range(Base) \subseteq Memory
  BY DEF Memory
<1>5. Base \in Seq(Memory)
  <2>1. \A i \in 1 .. Len(Base) : Base[i] \in Memory
    BY <1>1, <1>4, SequenceFacts
  <2>2. Base = [i \in 1 .. Len(Base) |-> Base[i]]
    BY <1>1, SequenceFacts
  <2> QED BY <1>2, <2>1, <2>2, ASequence
<1>6. BaseView \in [Range(Base) -> Views]
  BY VariablesAssumption
<1>7. BaseView[Base[1]] \in Views
  BY <1>3, <1>6
<1>8. None \notin Memory /\ None \notin Views /\ None \notin Range(Ships)
  BY VariablesAssumption DEF Memory
<1>9. Places = Memory \union {None}
  BY DEF Places, Memory
<1> QED BY <1>1, <1>3, <1>4, <1>5, <1>7, <1>8, <1>9

\* The elements of a sequence of distinct ones are finitely many.
LEMMA RangeFinite ==
    ASSUME NEW q, q \in Seq(Range(q))
    PROVE  IsFiniteSet(Range(q))
<1>1. Len(q) \in Nat /\ q \in [1 .. Len(q) -> Range(q)]
      /\ \A x \in Range(q) : \E i \in 1 .. Len(q) : x = q[i]
  BY SequenceFacts
<1>2. q \in Surjection(1 .. Len(q), Range(q))
  BY <1>1 DEF Surjection
<1>3. IsFiniteSet(1 .. Len(q))
  <2>1. Cardinality(1 .. Len(q)) = Cardinality(1 .. Len(q)) /\ 1 \in Int /\ Len(q) \in Int
    BY <1>1
  <2> QED BY ONLY <2>1, FS_Interval
<1> QED BY <1>2, <1>3, FS_Surjection

\* The memory is finite.
LEMMA Finite == IsFiniteSet(Memory) /\ IsFiniteSet(Range(Ships))
<1>1. IsFiniteSet(Range(Base)) /\ IsFiniteSet(Range(Ships))
  BY VariablesAssumption, RangeFinite
<1>2. IsFiniteSet(Cells)
  BY VariablesAssumption
<1>3. IsFiniteSet(Range(Base) \union Cells)
  BY <1>1, <1>2, FS_Union
<1> QED BY <1>1, <1>3 DEF Memory

\* The variables of a plan are none of the stage's own.
LEMMA PlanFacts ==
    ASSUME NEW xs \in PlanLists
    PROVE  /\ xs \in Seq(Memory) /\ IsInjective(xs) /\ Range(xs) \subseteq Cells
           /\ Range(Base) \intersect Range(xs) = {}
<1>1. PICK n \in PlanSizes : xs \in [1 .. n -> Cells] /\ IsInjective(xs)
  BY DEF PlanLists
<1>2. n \in Nat
  BY VariablesAssumption
<1>3. \A i \in 1 .. n : xs[i] \in Cells
  BY <1>1
<1>4. Range(xs) \subseteq Cells
  BY <1>1 DEF Range
<1>5. xs \in Seq(Memory)
  <2>1. \A i \in 1 .. n : xs[i] \in Memory
    BY <1>3 DEF Memory
  <2> QED BY <1>1, <1>2, <2>1, ASequence
<1>6. Range(Base) \intersect Cells = {}
  BY VariablesAssumption
<1> QED BY <1>1, <1>4, <1>5, <1>6

\* The list of a stage.
LEMMA StageFacts ==
    ASSUME NEW xs \in PlanLists
    PROVE  /\ Base \o xs \in Seq(Memory) /\ Base \o xs # <<>>
           /\ Range(Base \o xs) = Range(Base) \union Range(xs)
<1> DEFINE l == Base \o xs
<1>1. /\ xs \in Seq(Memory) /\ Base \in Seq(Memory) /\ Base # <<>>
      /\ Len(Base) \in Nat /\ Len(Base) # 0 /\ Len(xs) \in Nat
  BY PlanFacts, BaseFacts, SequenceFacts, EmptySeq
<1>2. /\ l \in Seq(Memory) /\ Len(l) = Len(Base) + Len(xs)
      /\ \A i \in 1 .. Len(Base) + Len(xs) : l[i] = IF i <= Len(Base) THEN Base[i] ELSE xs[i - Len(Base)]
  BY <1>1, ConcatProperties
<1> HIDE DEF l
<1>3. l # <<>>
  <2>1. Len(l) # 0
    BY <1>1, <1>2
  <2> QED BY <1>2, <2>1, EmptySeq
<1>4. \A x : x \in Range(l) <=> \E i \in 1 .. Len(l) : x = l[i]
  BY <1>2, SequenceFacts
<1>5. \A x : x \in Range(Base) <=> \E i \in 1 .. Len(Base) : x = Base[i]
  BY <1>1, SequenceFacts
<1>6. \A x : x \in Range(xs) <=> \E i \in 1 .. Len(xs) : x = xs[i]
  BY <1>1, SequenceFacts
<1>7. ASSUME NEW x \in Range(l) PROVE x \in Range(Base) \union Range(xs)
  <2>1. PICK i \in 1 .. Len(Base) + Len(xs) : x = l[i]
    BY <1>2, <1>4
  <2>2. CASE i <= Len(Base)
    <3>1. i \in 1 .. Len(Base) /\ x = Base[i]
      BY <1>1, <1>2, <2>1, <2>2
    <3> QED BY <1>5, <3>1
  <2>3. CASE ~(i <= Len(Base))
    <3>1. i - Len(Base) \in 1 .. Len(xs) /\ x = xs[i - Len(Base)]
      BY <1>1, <1>2, <2>1, <2>3
    <3> QED BY <1>6, <3>1
  <2> QED BY <2>2, <2>3
<1>8. ASSUME NEW x \in Range(Base) PROVE x \in Range(l)
  <2>1. PICK i \in 1 .. Len(Base) : x = Base[i]
    BY <1>5
  <2>2. i \in 1 .. Len(l) /\ x = l[i]
    BY <1>1, <1>2, <2>1
  <2> QED BY <1>4, <2>2
<1>9. ASSUME NEW x \in Range(xs) PROVE x \in Range(l)
  <2>1. PICK i \in 1 .. Len(xs) : x = xs[i]
    BY <1>6
  <2>2. /\ Len(Base) + i \in 1 .. Len(Base) + Len(xs) /\ ~(Len(Base) + i <= Len(Base))
        /\ (Len(Base) + i) - Len(Base) = i
    BY <1>1
  <2>3. x = l[Len(Base) + i]
    BY <1>2, <2>1, <2>2
  <2> QED BY <1>2, <1>4, <2>2, <2>3
<1> QED BY <1>2, <1>3, <1>7, <1>8, <1>9 DEF l

\* The ships that there are, the first n of them.
LEMMA ShipsFacts ==
    ASSUME NEW n \in 0 .. Len(Ships)
    PROVE  /\ SubSeq(Ships, 1, n) \in Seq(Range(Ships)) /\ IsInjective(SubSeq(Ships, 1, n))
           /\ Len(SubSeq(Ships, 1, n)) = n
           /\ \A i \in 1 .. n : SubSeq(Ships, 1, n)[i] = Ships[i]
<1> DEFINE s == SubSeq(Ships, 1, n)
<1>1. Ships \in Seq(Range(Ships)) /\ IsInjective(Ships)
  BY VariablesAssumption
<1>2. Len(Ships) \in Nat /\ DOMAIN Ships = 1 .. Len(Ships) /\ \A i \in 1 .. Len(Ships) : Ships[i] \in Range(Ships)
  BY <1>1, SequenceFacts
<1>3. s = [i \in 1 .. n |-> Ships[i]]
  BY <1>2
<1>4. \A a, b \in 1 .. Len(Ships) : Ships[a] = Ships[b] => a = b
  BY <1>1, <1>2 DEF IsInjective
<1> HIDE DEF s
<1>5. DOMAIN s = 1 .. n /\ s = [i \in 1 .. n |-> s[i]] /\ \A i \in 1 .. n : s[i] = Ships[i]
  BY <1>3
<1>6. \A i \in 1 .. n : i \in 1 .. Len(Ships)
  BY <1>2
<1>7. s \in Seq(Range(Ships)) /\ Len(s) = n
  <2>1. \A i \in 1 .. n : s[i] \in Range(Ships)
    BY <1>2, <1>5, <1>6
  <2>2. n \in Nat
    BY <1>2
  <2> QED BY <1>5, <2>1, <2>2, ASequence
<1>8. IsInjective(s)
  BY <1>4, <1>5, <1>6 DEF IsInjective
<1> QED BY <1>5, <1>7, <1>8 DEF s

----------------------------------------------------------------------------
(* The pointers of the two lists.                                          *)

\* A new list is empty.
LEMMA NewListLinked ==
    ASSUME NEW E, None \notin E
    PROVE  /\ Linked(NewList(E), <<>>, E) /\ NewList(E).curpos = None
           /\ \A x \in E : Single(NewList(E), x)
<1> DEFINE l == NewList(E)
<1>1. /\ l.first = None /\ l.last = None /\ l.curpos = None /\ l.members = {}
      /\ \A x \in E : l.next[x] = None /\ l.previous[x] = None
  BY DEF NewList
<1>2. l \in ListsOf(E)
  BY DEF NewList, ListsOf
<1> HIDE DEF l
<1>3. <<>> \in Seq(E) /\ Len(<<>>) = 0 /\ DOMAIN <<>> = {}
  OBVIOUS
<1>4. Range(<<>>) = {} /\ IsInjective(<<>>)
  BY <1>3 DEF Range, IsInjective
<1>5. Linked(l, <<>>, E)
  BY <1>1, <1>2, <1>3, <1>4 DEF Linked
<1> QED BY <1>1, <1>5 DEF l, Single

\* A stage's variables are in its list, its plan's behind them; the ships to
\* inherit from are in theirs.
StageLinked == Linked(listhead, Base \o planpointer, Memory)
ShipsLinked == \E q : Linked(shiplisthead, q, Range(Ships))

\* The iterator is where the view that used it last has been, or nowhere.
OneIterator ==
    /\ currviewmode \in Views \union {None}
    /\ currvariable \in [Views -> Memory \union {None}]
    /\ currviewmode \in Views /\ listhead.curpos # None
           => currvariable[currviewmode] = listhead.curpos

PInv == planpointer \in PlanLists /\ StageLinked /\ ShipsLinked /\ OneIterator

\* What the lists are as sequences.
LEMMA StageSequence ==
    ASSUME NEW l, NEW xs \in PlanLists, Linked(l, Base \o xs, Memory)
    PROVE  /\ Elements(l) = Base \o xs
           /\ l.curpos \in Range(Base \o xs) \union {None} /\ l.curpos \in Memory \union {None}
<1>1. Elements(l) = Base \o xs
  BY Finite, ElementsLinked
<1>2. l \in ListsOf(Memory) /\ l.curpos \in Range(Base \o xs) \union {None}
  BY DEF Linked
<1>3. l.curpos \in Memory \union {None}
  BY <1>2 DEF ListsOf
<1> QED BY <1>1, <1>2, <1>3

\* The same for the list of ships.
LEMMA ShipSequence ==
    ASSUME NEW l, NEW q, Linked(l, q, Range(Ships))
    PROVE  Elements(l) = q
BY Finite, ElementsLinked

\* The plan of a new stage.
LEMMA OwnLinked ==
    LET own == AddEnds(NewList(Memory), Base)
    IN  /\ Linked(own, Base, Memory) /\ own.curpos = None
        /\ \A x \in Cells : Single(own, x)
<1> DEFINE l == NewList(Memory)
           own == AddEnds(l, Base)
<1>1. Linked(l, <<>>, Memory) /\ l.curpos = None /\ \A x \in Memory : Single(l, x)
  BY BaseFacts, NewListLinked
<1>2. Base \in Seq(Memory) /\ IsInjective(Base) /\ Range(Base) \subseteq Memory
  BY BaseFacts
<1>3. Range(<<>>) = {} /\ <<>> \o Base = Base
  BY <1>2, ConcatEmptySeq DEF Range
<1> HIDE DEF l
<1>4. /\ Linked(own, <<>> \o Base, Memory) /\ own.curpos = l.curpos
      /\ \A y \in Memory : y \notin Range(Base) /\ Single(l, y) => Single(own, y)
  <2>1. Range(<<>>) \intersect Range(Base) = {} /\ \A x \in Range(Base) : Single(l, x)
    BY <1>1, <1>2, <1>3
  <2> QED BY <1>1, <1>2, <2>1, AddNewLinked
<1> HIDE DEF own
<1>5. \A x \in Cells : x \in Memory /\ x \notin Range(Base)
  BY VariablesAssumption DEF Memory
<1>6. Linked(own, Base, Memory) /\ own.curpos = None /\ \A x \in Cells : Single(own, x)
  BY <1>1, <1>3, <1>4, <1>5
<1> QED BY <1>6 DEF own, l

\* A plan that is initialised once or twice is behind the stage's variables.
LEMMA InitPlanLinked ==
    ASSUME NEW xs \in PlanLists
    PROVE  LET own  == AddEnds(NewList(Memory), Base)
               one  == InitPlan(own, xs)
               two  == InitPlan(one, xs)
           IN  /\ Linked(one, Base \o xs, Memory) /\ one.curpos = None
               /\ Linked(two, Base \o xs, Memory) /\ two.curpos = None
<1> DEFINE own == AddEnds(NewList(Memory), Base)
           one == AddEnds(own, xs)
           two == AddEnds(one, xs)
<1>1. Linked(own, Base, Memory) /\ own.curpos = None /\ \A x \in Cells : Single(own, x)
  BY OwnLinked
<1> HIDE DEF own
<1>2. /\ xs \in Seq(Memory) /\ IsInjective(xs) /\ Range(xs) \subseteq Cells
      /\ Range(Base) \intersect Range(xs) = {} /\ Base \in Seq(Memory)
  BY PlanFacts, BaseFacts
<1>3. \A x \in Range(xs) : Single(own, x)
  BY <1>1, <1>2
<1>4. Linked(one, Base \o xs, Memory) /\ one.curpos = own.curpos
  BY <1>1, <1>2, <1>3, AddNewLinked
<1> HIDE DEF one
<1>5. one.curpos = None
  BY <1>1, <1>4
<1>6. Linked(two, Base \o xs, Memory) /\ two.curpos = None
  BY <1>2, <1>4, <1>5, AddAgainLinked
<1> HIDE DEF two
<1> QED BY <1>4, <1>5, <1>6 DEF two, one, own, InitPlan

\* A new stage's list is the stage's and its plan's.
LEMMA InitPInv == Init => PInv /\ Elements(listhead) = Base \o planpointer /\ listhead.curpos = None
<1> SUFFICES ASSUME Init PROVE PInv /\ Elements(listhead) = Base \o planpointer /\ listhead.curpos = None
  OBVIOUS
<1>1. planpointer \in PlanLists
  BY DEF Init
<1>2. Linked(listhead, Base \o planpointer, Memory) /\ listhead.curpos = None
  <2> DEFINE own == AddEnds(NewList(Memory), Base)
  <2>1. \/ listhead = InitPlan(own, planpointer)
        \/ listhead = InitPlan(InitPlan(own, planpointer), planpointer)
    BY DEF Init, Memory
  <2> HIDE DEF own
  <2>2. /\ Linked(InitPlan(own, planpointer), Base \o planpointer, Memory)
        /\ InitPlan(own, planpointer).curpos = None
        /\ Linked(InitPlan(InitPlan(own, planpointer), planpointer), Base \o planpointer, Memory)
        /\ InitPlan(InitPlan(own, planpointer), planpointer).curpos = None
    BY <1>1, InitPlanLinked DEF own
  <2> QED BY <2>1, <2>2
<1>3. ShipsLinked
  <2>1. shiplisthead = NewList(Range(Ships))
    BY DEF Init
  <2>2. Linked(shiplisthead, <<>>, Range(Ships))
    BY <2>1, BaseFacts, NewListLinked
  <2> QED BY <2>2 DEF ShipsLinked
<1>4. OneIterator
  BY <1>2 DEF Init, OneIterator
<1>5. Elements(listhead) = Base \o planpointer
  BY <1>1, <1>2, StageSequence
<1> QED BY <1>1, <1>2, <1>3, <1>4, <1>5 DEF PInv, StageLinked

----------------------------------------------------------------------------
(* The searches.                                                           *)

\* The first that is offered is one of them.
LEMMA FirstOfferedFact ==
    ASSUME NEW n \in Nat, n > 0, NEW ring, DOMAIN ring = 1 .. n, NEW v,
           NEW T, \A k \in 1 .. n : ring[k] \in T
    PROVE  Lists!FirstOffered(ring, v) \in T
<1> DEFINE hits == {k \in DOMAIN ring : Lists!Offered(ring[k], v, showvariable)}
<1>1. Lists!FirstOffered(ring, v) = IF hits = {} THEN ring[1]
                                    ELSE ring[CHOOSE k \in hits : \A j \in hits : k <= j]
  BY DEF Lists!FirstOffered
<1>2. hits \subseteq 1 .. n /\ hits \in SUBSET Nat
  OBVIOUS
<1> HIDE DEF hits
<1>3. CASE hits = {}
  <2>1. 1 \in 1 .. n
    OBVIOUS
  <2> QED BY <1>1, <1>3, <2>1
<1>4. CASE hits # {}
  <2>1. \E k \in hits : \A j \in hits : k <= j
    BY <1>2, <1>4, LeastNumber
  <2>2. (CHOOSE k \in hits : \A j \in hits : k <= j) \in hits
    BY <2>1
  <2> QED BY <1>1, <1>2, <1>4, <2>2
<1> QED BY <1>3, <1>4

\* Where a search from the neighbour of the iterator ends.
Found(step, p, v) == Search(step, IF step[p] = None THEN step[None] ELSE step[p], v)

\* A search round the ring r ends where the list's move does.
LEMMA RingSearch ==
    ASSUME NEW E, IsFiniteSet(E), None \notin E, NEW q \in Seq(E), q # <<>>,
           NEW step \in [E \union {None} -> E \union {None}], NEW p, NEW v, NEW r \in Seq(E),
           Len(r) = Len(q), IsInjective(r), \A k \in 1 .. Len(q) : r[k] \in Range(q),
           \E d \in 1 .. Len(q) : Ring(step, r, d),
           r[1] = IF step[p] = None THEN step[None] ELSE step[p]
    PROVE  /\ Found(step, p, v) = Lists!FirstOffered(r, v)
           /\ Lists!FirstOffered(r, v) \in Range(q)
<1>1. Len(q) \in Nat /\ Len(q) > 0
  <2>1. Len(q) \in Nat /\ Len(q) # 0
    BY EmptySeq, SequenceFacts
  <2> QED BY <2>1
<1>2. PICK d \in 1 .. Len(r) : Ring(step, r, d)
  OBVIOUS
<1>3. Search(step, r[1], v) = Lists!FirstOffered(r, v)
  BY <1>2, SearchRing
<1>4. DOMAIN r = 1 .. Len(q)
  BY SequenceFacts
<1>5. Lists!FirstOffered(r, v) \in Range(q)
  BY <1>1, <1>4, FirstOfferedFact
<1> QED BY <1>3, <1>5 DEF Found

\* A search onwards, and one backwards, along the pointers of q.
LEMMA SearchOn ==
    ASSUME NEW E, IsFiniteSet(E), NEW l, NEW q, Linked(l, q, E), q # <<>>, NEW v
    PROVE  LET step == [x \in E \union {None} |-> StepOn(l, x)]
               found == Lists!FirstOffered(Lists!Onwards(q, l.curpos), v)
           IN  Found(step, l.curpos, v) = found /\ found \in Range(q)
<1> DEFINE step == [x \in E \union {None} |-> StepOn(l, x)]
           p == l.curpos
           r == Lists!Onwards(q, p)
<1>1. /\ None \notin E /\ q \in Seq(E) /\ l.first = q[1] /\ q[1] \in E
      /\ \A i \in 1 .. Len(q) : q[i] \in E /\ l.next[q[i]] = IF i = Len(q) THEN None ELSE q[i + 1]
      /\ \A x \in E : l.next[x] \in E \union {None}
  BY LinkedFacts
<1>2. IsInjective(q) /\ p \in Range(q) \union {None}
  BY DEF Linked
<1>3. step \in [E \union {None} -> E \union {None}]
  <2>1. ASSUME NEW x \in E \union {None} PROVE StepOn(l, x) \in E \union {None}
    BY <1>1 DEF StepOn
  <2> QED BY <2>1
<1>4. step[None] = q[1] /\ \A i \in 1 .. Len(q) : step[q[i]] = IF i = Len(q) THEN None ELSE q[i + 1]
  BY <1>1 DEF StepOn
<1> HIDE DEF step, p, r
<1>5. /\ r \in Seq(E) /\ Len(r) = Len(q) /\ IsInjective(r)
      /\ \A k \in 1 .. Len(q) : r[k] \in Range(q)
      /\ \E d \in 1 .. Len(q) : Ring(step, r, d)
      /\ r[1] = IF step[p] = None THEN step[None] ELSE step[p]
  BY <1>1, <1>2, <1>4, OnwardsRing DEF r
<1>6. /\ Found(step, p, v) = Lists!FirstOffered(r, v)
      /\ Lists!FirstOffered(r, v) \in Range(q)
  BY <1>1, <1>3, <1>5, RingSearch
<1> QED BY <1>6 DEF step, p, r

\* The same backwards.
LEMMA SearchBack ==
    ASSUME NEW E, IsFiniteSet(E), NEW l, NEW q, Linked(l, q, E), q # <<>>, NEW v
    PROVE  LET step == [x \in E \union {None} |-> StepBack(l, x)]
               found == Lists!FirstOffered(Lists!Backwards(q, l.curpos), v)
           IN  Found(step, l.curpos, v) = found /\ found \in Range(q)
<1> DEFINE step == [x \in E \union {None} |-> StepBack(l, x)]
           p == l.curpos
           r == Lists!Backwards(q, p)
<1>1. /\ None \notin E /\ q \in Seq(E) /\ l.last = q[Len(q)] /\ q[Len(q)] \in E
      /\ \A i \in 1 .. Len(q) : q[i] \in E /\ l.previous[q[i]] = IF i = 1 THEN None ELSE q[i - 1]
      /\ \A x \in E : l.previous[x] \in E \union {None}
  BY LinkedFacts
<1>2. IsInjective(q) /\ p \in Range(q) \union {None}
  BY DEF Linked
<1>3. step \in [E \union {None} -> E \union {None}]
  <2>1. ASSUME NEW x \in E \union {None} PROVE StepBack(l, x) \in E \union {None}
    BY <1>1 DEF StepBack
  <2> QED BY <2>1
<1>4. step[None] = q[Len(q)] /\ \A i \in 1 .. Len(q) : step[q[i]] = IF i = 1 THEN None ELSE q[i - 1]
  BY <1>1 DEF StepBack
<1> HIDE DEF step, p, r
<1>5. /\ r \in Seq(E) /\ Len(r) = Len(q) /\ IsInjective(r)
      /\ \A k \in 1 .. Len(q) : r[k] \in Range(q)
      /\ \E d \in 1 .. Len(q) : Ring(step, r, d)
      /\ r[1] = IF step[p] = None THEN step[None] ELSE step[p]
  BY <1>1, <1>2, <1>4, BackwardsRing DEF r
<1>6. /\ Found(step, p, v) = Lists!FirstOffered(r, v)
      /\ Lists!FirstOffered(r, v) \in Range(q)
  BY <1>1, <1>3, <1>5, RingSearch
<1> QED BY <1>6 DEF step, p, r

\* What the buttons and the searches of view v do, where they end at x.
Moved(v, x) ==
    /\ listhead' = [listhead EXCEPT !.curpos = x]
    /\ currvariable' = [currvariable EXCEPT ![v] = x]
    /\ currviewmode' = v
    /\ UNCHANGED <<planpointer, showvariable, shiplisthead>>

\* Where the button for the next variable leads.
LEMMA SetNextCurrentFacts ==
    ASSUME PInv, NEW v, SetNextCurrent(v)
    PROVE  LET x == Lists!FirstOffered(Lists!Onwards(Base \o planpointer, listhead.curpos), v)
           IN  Moved(v, x) /\ x \in Range(Base \o planpointer)
<1> DEFINE step == [x \in Memory \union {None} |-> StepOn(listhead, x)]
           q == Base \o planpointer
<1>1. SearchFrom(step, v)
  BY BaseFacts DEF SetNextCurrent
<1>2. Linked(listhead, q, Memory) /\ q # <<>>
  BY StageFacts DEF PInv, StageLinked
<1> HIDE DEF step
<1>3. Moved(v, Found(step, listhead.curpos, v))
  BY <1>1 DEF SearchFrom, Moved, Found
<1> HIDE DEF q
<1>4. /\ Found(step, listhead.curpos, v) = Lists!FirstOffered(Lists!Onwards(q, listhead.curpos), v)
      /\ Lists!FirstOffered(Lists!Onwards(q, listhead.curpos), v) \in Range(q)
  BY <1>2, Finite, SearchOn DEF step
<1> QED BY <1>3, <1>4 DEF q

\* Where the button for the previous variable leads.
LEMMA SetPrevCurrentFacts ==
    ASSUME PInv, NEW v, SetPrevCurrent(v)
    PROVE  LET x == Lists!FirstOffered(Lists!Backwards(Base \o planpointer, listhead.curpos), v)
           IN  Moved(v, x) /\ x \in Range(Base \o planpointer)
<1> DEFINE step == [x \in Memory \union {None} |-> StepBack(listhead, x)]
           q == Base \o planpointer
<1>1. SearchFrom(step, v)
  BY BaseFacts DEF SetPrevCurrent
<1>2. Linked(listhead, q, Memory) /\ q # <<>>
  BY StageFacts DEF PInv, StageLinked
<1> HIDE DEF step
<1>3. Moved(v, Found(step, listhead.curpos, v))
  BY <1>1 DEF SearchFrom, Moved, Found
<1> HIDE DEF q
<1>4. /\ Found(step, listhead.curpos, v) = Lists!FirstOffered(Lists!Backwards(q, listhead.curpos), v)
      /\ Lists!FirstOffered(Lists!Backwards(q, listhead.curpos), v) \in Range(q)
  BY <1>2, Finite, SearchBack DEF step
<1> QED BY <1>3, <1>4 DEF q

\* A move keeps the lists.
LEMMA MovedFacts ==
    ASSUME PInv, NEW v \in Views, NEW x \in Range(Base \o planpointer), Moved(v, x)
    PROVE  /\ PInv' /\ Elements(listhead)' = Elements(listhead)
           /\ listhead'.curpos = x /\ x # None /\ x \in Memory
<1> DEFINE q == Base \o planpointer
<1>1. planpointer \in PlanLists /\ planpointer' = planpointer
  BY DEF PInv, Moved
<1>2. q \in Seq(Memory) /\ Range(q) \subseteq Memory
  BY <1>1, StageFacts, SequenceFacts
<1>3. x \in Memory /\ x # None
  BY <1>2, BaseFacts
<1>4. Linked(listhead, q, Memory)
  BY DEF PInv, StageLinked
<1> HIDE DEF q
<1>5. Linked(listhead', q, Memory) /\ listhead'.curpos = x
  <2>1. x \in Range(q) \union {None}
    BY DEF q
  <2>2. listhead' = [listhead EXCEPT !.curpos = x]
    BY DEF Moved
  <2> QED BY <1>4, <2>1, <2>2, MoveLinked
<1>6. Elements(listhead') = q /\ Elements(listhead) = q
  BY <1>1, <1>4, <1>5, StageSequence DEF q
<1>7. StageLinked'
  BY <1>1, <1>5 DEF StageLinked, q
<1>8. ShipsLinked'
  BY DEF PInv, ShipsLinked, Moved
<1>9. OneIterator'
  <2>1. /\ currvariable \in [Views -> Memory \union {None}]
        /\ currvariable' = [currvariable EXCEPT ![v] = x] /\ currviewmode' = v
    BY DEF PInv, OneIterator, Moved
  <2> QED BY <1>3, <1>5, <2>1 DEF OneIterator
<1> QED BY <1>1, <1>3, <1>5, <1>6, <1>7, <1>8, <1>9 DEF PInv

----------------------------------------------------------------------------
(* The other operations.                                                   *)

\* A plan takes the place of another.
LEMMA UpdatePlanFacts ==
    ASSUME PInv, NEW xs \in PlanLists, UpdatePlan(xs)
    PROVE  /\ PInv' /\ Elements(listhead)' = Base \o xs
           /\ listhead'.curpos = IF listhead.curpos \in Range(Base) THEN listhead.curpos ELSE None
<1> DEFINE without == Uncouples(listhead, Reverse(planpointer))
           made == NewElements(without, xs)
           full == AddEnds(made, xs)
<1>1. /\ planpointer \in PlanLists /\ Linked(listhead, Base \o planpointer, Memory)
      /\ Base \in Seq(Memory) /\ IsInjective(Base)
  BY BaseFacts DEF PInv, StageLinked
<1>2. /\ planpointer \in Seq(Memory) /\ IsInjective(planpointer)
      /\ Range(Base) \intersect Range(planpointer) = {}
  BY <1>1, PlanFacts
<1>3. xs \in Seq(Memory) /\ IsInjective(xs) /\ Range(Base) \intersect Range(xs) = {}
  BY PlanFacts
<1>4. /\ Linked(without, Base, Memory)
      /\ without.curpos = IF listhead.curpos \in Range(Base) THEN listhead.curpos ELSE None
  BY <1>1, <1>2, TakeBackLinked
<1> HIDE DEF without
<1>5. /\ Linked(made, Base, Memory) /\ made.curpos = without.curpos
      /\ \A x \in Range(xs) : Single(made, x)
  BY <1>3, <1>4, NewElementsLinked
<1> HIDE DEF made
<1>6. Linked(full, Base \o xs, Memory) /\ full.curpos = made.curpos
  BY <1>3, <1>5, AddNewLinked
<1> HIDE DEF full
<1>7. /\ listhead' = full /\ planpointer' = xs
      /\ UNCHANGED <<showvariable, currvariable, currviewmode, shiplisthead>>
  BY DEF UpdatePlan, InitPlan, full, made, without
<1>8. Elements(listhead') = Base \o xs
  BY <1>6, <1>7, StageSequence
<1>9. StageLinked'
  BY <1>6, <1>7 DEF StageLinked
<1>10. ShipsLinked'
  BY <1>7 DEF PInv, ShipsLinked
<1>11. listhead'.curpos = IF listhead.curpos \in Range(Base) THEN listhead.curpos ELSE None
  BY <1>4, <1>5, <1>6, <1>7
<1>12. OneIterator'
  <2>1. listhead'.curpos # None => listhead'.curpos = listhead.curpos
    BY <1>11
  <2> QED BY <1>7, <2>1 DEF PInv, OneIterator
<1> QED BY <1>7, <1>8, <1>9, <1>10, <1>11, <1>12 DEF PInv

\* The ship list is made anew.
LEMMA InitByBodyFacts ==
    ASSUME PInv, NEW n \in 0 .. Len(Ships), InitByBody(n)
    PROVE  /\ ShipsLinked' /\ Elements(shiplisthead)' = Reverse(SubSeq(Ships, 1, n))
           /\ shiplisthead'.curpos = IF n = 0 THEN None ELSE Ships[n]
<1> DEFINE s == SubSeq(Ships, 1, n)
           E == Range(Ships)
           empty == Empty(shiplisthead)
           made == NewElements(empty, s)
           full == AddFronts(made, s)
           r == Reverse(s)
<1>1. s \in Seq(E) /\ IsInjective(s) /\ Len(s) = n /\ \A i \in 1 .. n : s[i] = Ships[i]
  BY ShipsFacts
<1>2. PICK q : Linked(shiplisthead, q, E)
  BY DEF PInv, ShipsLinked
<1>3. shiplisthead' = [full EXCEPT !.curpos = full.first]
  BY DEF InitByBody
<1> HIDE DEF s, E
<1>4. Linked(empty, <<>>, E)
  <2>1. Elements(shiplisthead) = q
    BY <1>2, ShipSequence DEF E
  <2>2. Linked(Uncouples(shiplisthead, q), <<>>, E)
    BY <1>2, EmptyLinked
  <2> QED BY <2>1, <2>2 DEF Empty
<1> HIDE DEF empty
<1>5. Linked(made, <<>>, E) /\ \A x \in Range(s) : Single(made, x)
  <2>1. Range(<<>>) \intersect Range(s) = {}
    BY DEF Range
  <2> QED BY <1>1, <1>4, <2>1, NewElementsLinked
<1> HIDE DEF made
<1>6. Linked(full, r, E)
  BY <1>1, <1>5, AddFrontsLinked
<1> HIDE DEF full
<1>7. n \in Nat /\ r = [i \in 1 .. n |-> s[(n - i) + 1]]
  BY <1>1 DEF Reverse
<1>8. r \in Seq(E) /\ Len(r) = n
  <2>1. r \in Seq(E)
    BY <1>6 DEF Linked
  <2>2. DOMAIN r = 1 .. n
    BY <1>7
  <2> HIDE DEF r
  <2> QED BY <1>7, <2>1, <2>2
<1>9. n # 0 => r[1] = Ships[n] /\ r[1] \in Range(r)
  <2> SUFFICES ASSUME n # 0 PROVE r[1] = Ships[n] /\ r[1] \in Range(r)
    OBVIOUS
  <2>1. 1 \in 1 .. n /\ n \in 1 .. n /\ (n - 1) + 1 = n
    BY <1>7
  <2>2. r[1] = s[n] /\ s[n] = Ships[n]
    BY <1>1, <1>7, <2>1
  <2> HIDE DEF r
  <2>3. r[1] \in Range(r)
    BY <1>8, <2>1, SequenceFacts
  <2> QED BY <2>2, <2>3
<1> HIDE DEF r
<1>10. full.first = IF n = 0 THEN None ELSE r[1]
  BY <1>6, <1>8 DEF Linked
<1>11. Linked(shiplisthead', r, E) /\ shiplisthead'.curpos = full.first
  <2>1. full.first \in Range(r) \union {None}
    BY <1>9, <1>10
  <2> QED BY <1>3, <1>6, <2>1, MoveLinked
<1>12. Elements(shiplisthead') = r
  BY <1>11, ShipSequence DEF E
<1>13. ShipsLinked'
  BY <1>11 DEF ShipsLinked, E
<1> QED BY <1>9, <1>10, <1>11, <1>12, <1>13 DEF r, s

\* The pilot goes on to the next or the previous ship.
LEMMA TurnLinked ==
    ASSUME NEW E, NEW l, NEW q, Linked(l, q, E)
    PROVE  LET n == Len(q)
               at == IF l.curpos = None THEN 0 ELSE Lists!PlaceOf(q, l.curpos)
           IN  /\ n \in Nat /\ at \in 0 .. n
               /\ StepOn(l, l.curpos) = IF at = n THEN None ELSE q[at + 1]
               /\ StepBack(l, l.curpos) = IF at = 0 THEN (IF n = 0 THEN None ELSE q[n])
                                          ELSE IF at = 1 THEN None ELSE q[at - 1]
               /\ \A i \in 1 .. n : q[i] \in Range(q)
<1> DEFINE n == Len(q)
           c == l.curpos
           at == IF c = None THEN 0 ELSE Lists!PlaceOf(q, c)
<1>1. /\ None \notin E /\ q \in Seq(E) /\ c \in Range(q) \union {None}
      /\ l.first = (IF n = 0 THEN None ELSE q[1]) /\ l.last = (IF n = 0 THEN None ELSE q[n])
      /\ \A i \in 1 .. n : /\ l.next[q[i]] = IF i = n THEN None ELSE q[i + 1]
                           /\ l.previous[q[i]] = IF i = 1 THEN None ELSE q[i - 1]
  BY DEF Linked
<1>2. n \in Nat /\ \A i \in 1 .. n : q[i] \in Range(q)
  BY <1>1, SequenceFacts
<1>3. c # None => Lists!PlaceOf(q, c) \in 1 .. n /\ q[Lists!PlaceOf(q, c)] = c
  BY <1>1, PlaceOfFact
<1>4. (c = None => at = 0) /\ (c # None => at \in 1 .. n /\ q[at] = c)
  BY <1>3
<1>5. /\ StepOn(l, c) = IF c = None THEN l.first ELSE l.next[c]
      /\ StepBack(l, c) = IF c = None THEN l.last ELSE l.previous[c]
  BY DEF StepOn, StepBack
<1> HIDE DEF n, c, at
<1>6. CASE c = None
  <2>1. at = 0 /\ 0 \in 0 .. n /\ 0 + 1 = 1
    BY <1>2, <1>4, <1>6
  <2>2. StepOn(l, c) = IF at = n THEN None ELSE q[at + 1]
    BY <1>1, <1>2, <1>5, <1>6, <2>1
  <2>3. StepBack(l, c) = IF at = 0 THEN (IF n = 0 THEN None ELSE q[n])
                         ELSE IF at = 1 THEN None ELSE q[at - 1]
    BY <1>1, <1>5, <1>6, <2>1
  <2> QED BY <1>2, <2>1, <2>2, <2>3 DEF n, c, at
<1>7. CASE c # None
  <2>1. at \in 1 .. n /\ q[at] = c /\ at \in 0 .. n /\ at # 0
    BY <1>2, <1>4, <1>7
  <2>2. /\ StepOn(l, c) = IF at = n THEN None ELSE q[at + 1]
        /\ StepBack(l, c) = IF at = 1 THEN None ELSE q[at - 1]
    BY <1>1, <1>5, <1>7, <2>1
  <2> QED BY <1>2, <2>1, <2>2 DEF n, c, at
<1> QED BY <1>6, <1>7

\* The ship list's iterator goes where the list promises.
LEMMA TurnShipsFacts ==
    ASSUME PInv, TurnShips
    PROVE  ShipsLinked' /\ Elements(shiplisthead)' = Elements(shiplisthead) /\ Lists!TurnShips
<1>1. PICK q : Linked(shiplisthead, q, Range(Ships))
  BY DEF PInv, ShipsLinked
<1> DEFINE n == Len(q)
           c == shiplisthead.curpos
           at == IF c = None THEN 0 ELSE Lists!PlaceOf(q, c)
<1>2. Elements(shiplisthead) = q
  BY <1>1, ShipSequence
<1>3. PICK x \in {StepOn(shiplisthead, c), StepBack(shiplisthead, c)} :
          shiplisthead' = [shiplisthead EXCEPT !.curpos = x]
  BY DEF TurnShips
<1>4. /\ n \in Nat /\ at \in 0 .. n
      /\ StepOn(shiplisthead, c) = IF at = n THEN None ELSE q[at + 1]
      /\ StepBack(shiplisthead, c) = IF at = 0 THEN (IF n = 0 THEN None ELSE q[n])
                                     ELSE IF at = 1 THEN None ELSE q[at - 1]
      /\ \A i \in 1 .. n : q[i] \in Range(q)
  BY <1>1, TurnLinked
<1> HIDE DEF n, at
<1>5. PICK to \in {IF at = n THEN 0 ELSE at + 1, IF at = 0 THEN n ELSE at - 1} :
          x = IF to = 0 THEN None ELSE q[to]
  <2>1. CASE x = StepOn(shiplisthead, c)
    <3>1. at # n => at + 1 # 0
      BY <1>4
    <3> QED BY <1>4, <2>1, <3>1
  <2>2. CASE x = StepBack(shiplisthead, c)
    <3>1. at # 0 => (at = 1 <=> at - 1 = 0)
      BY <1>4
    <3> QED BY <1>4, <2>2, <3>1
  <2> QED BY <1>3, <2>1, <2>2
<1>6. to \in 0 .. n
  BY <1>4
<1>7. x \in Range(q) \union {None}
  <2>1. to # 0 => to \in 1 .. n
    BY <1>4, <1>6
  <2> QED BY <1>4, <1>5, <2>1
<1>8. Linked(shiplisthead', q, Range(Ships)) /\ shiplisthead'.curpos = x
  BY <1>1, <1>3, <1>7, MoveLinked
<1>9. Elements(shiplisthead') = q
  BY <1>8, ShipSequence
<1>10. ShipsLinked'
  BY <1>8 DEF ShipsLinked
<1>11. UNCHANGED <<listhead, showvariable, currvariable, currviewmode>>
  BY DEF TurnShips
<1>12. Lists!TurnShips
  BY <1>2, <1>5, <1>8, <1>9, <1>11 DEF Lists!TurnShips, Lists!handler, n, at
<1> QED BY <1>2, <1>9, <1>10, <1>12

----------------------------------------------------------------------------
(* The pointers implement the lists.                                       *)

\* The instance's names for what both modules share.
LEMMA SameNames ==
    /\ Lists!PlanLists = PlanLists /\ Lists!AlwaysShown = AlwaysShown
    /\ \A q : Lists!Range(q) = Range(q)
    /\ \A v : Lists!Shown(v) = Shown(v)
<1>1. Lists!PlanLists = PlanLists
  BY DEF Lists!PlanLists, PlanLists, Lists!IsInjective, IsInjective
<1>2. \A q : Lists!Range(q) = Range(q)
  BY DEF Lists!Range, Range
<1>3. Lists!AlwaysShown = AlwaysShown
  BY DEF Lists!AlwaysShown, AlwaysShown, Lists!Range, Range
<1>4. ASSUME NEW v PROVE Lists!Shown(v) = Shown(v)
  BY <1>2 DEF Lists!Shown, Shown, IsInList
<1> QED BY <1>1, <1>2, <1>3, <1>4

\* A new stage is a new list.
LEMMA InitRefines == Init => Lists!Init
<1> SUFFICES ASSUME Init PROVE Lists!Init
  OBVIOUS
<1>1. Elements(listhead) = Base \o planpointer /\ listhead.curpos = None
  BY InitPInv
<1>2. shiplisthead = NewList(Range(Ships)) /\ planpointer \in PlanLists
  BY DEF Init
<1>3. Linked(shiplisthead, <<>>, Range(Ships)) /\ shiplisthead.curpos = None
  BY <1>2, BaseFacts, NewListLinked
<1>4. Elements(shiplisthead) = <<>>
  BY <1>3, ShipSequence
<1>5. /\ showvariable = AlwaysShown /\ currvariable = [v \in Views |-> None]
      /\ currviewmode \in Views \union {None}
  BY DEF Init
<1> QED BY <1>1, <1>2, <1>3, <1>4, <1>5, SameNames DEF Lists!Init

\* A button or a search moves as the list does.
LEMMA SetNextRefines ==
    ASSUME PInv, NEW v \in Views, SetNextCurrent(v)
    PROVE  PInv' /\ Lists!SetNextCurrent(v)
<1> DEFINE x == Lists!FirstOffered(Lists!Onwards(Base \o planpointer, listhead.curpos), v)
<1>1. Moved(v, x) /\ x \in Range(Base \o planpointer)
  BY SetNextCurrentFacts
<1>2. Elements(listhead) = Base \o planpointer
  BY StageSequence DEF PInv, StageLinked
<1>3. x = Lists!FirstOffered(Lists!Onwards(Elements(listhead), listhead.curpos), v)
  BY <1>2
<1> HIDE DEF x
<1>4. PInv' /\ Elements(listhead)' = Elements(listhead) /\ listhead'.curpos = x
  BY <1>1, MovedFacts
<1>5. /\ currvariable' = [currvariable EXCEPT ![v] = x] /\ currviewmode' = v
      /\ showvariable' = showvariable /\ shiplisthead' = shiplisthead
  BY <1>1 DEF Moved
<1> QED BY <1>3, <1>4, <1>5 DEF Lists!SetNextCurrent, Lists!MoveTo

\* The same for the previous variable.
LEMMA SetPrevRefines ==
    ASSUME PInv, NEW v \in Views, SetPrevCurrent(v)
    PROVE  PInv' /\ Lists!SetPrevCurrent(v)
<1> DEFINE x == Lists!FirstOffered(Lists!Backwards(Base \o planpointer, listhead.curpos), v)
<1>1. Moved(v, x) /\ x \in Range(Base \o planpointer)
  BY SetPrevCurrentFacts
<1>2. Elements(listhead) = Base \o planpointer
  BY StageSequence DEF PInv, StageLinked
<1>3. x = Lists!FirstOffered(Lists!Backwards(Elements(listhead), listhead.curpos), v)
  BY <1>2
<1> HIDE DEF x
<1>4. PInv' /\ Elements(listhead)' = Elements(listhead) /\ listhead'.curpos = x
  BY <1>1, MovedFacts
<1>5. /\ currvariable' = [currvariable EXCEPT ![v] = x] /\ currviewmode' = v
      /\ showvariable' = showvariable /\ shiplisthead' = shiplisthead
  BY <1>1 DEF Moved
<1> QED BY <1>3, <1>4, <1>5 DEF Lists!SetPrevCurrent, Lists!MoveTo

\* A view that finds nothing looks for a variable as the list promises.
LEMMA GetCurrentRefines ==
    ASSUME PInv, NEW v \in Views, GetCurrent(v)
    PROVE  PInv' /\ Lists!GetCurrent(v)
BY SetNextRefines, SameNames DEF GetCurrent, Lists!GetCurrent

\* A plan is replaced as the list promises.
LEMMA UpdatePlanRefines ==
    ASSUME PInv, NEW xs \in PlanLists, UpdatePlan(xs)
    PROVE  PInv' /\ Lists!UpdatePlan(xs)
<1>1. /\ PInv' /\ Elements(listhead)' = Base \o xs
      /\ listhead'.curpos = IF listhead.curpos \in Range(Base) THEN listhead.curpos ELSE None
  BY UpdatePlanFacts
<1>2. UNCHANGED <<showvariable, currvariable, currviewmode, shiplisthead>>
  BY DEF UpdatePlan
<1> QED BY <1>1, <1>2, SameNames DEF Lists!UpdatePlan

\* What leaves a list alone leaves the invariant's part about it alone.
LEMMA StageUnchanged ==
    ASSUME PInv, UNCHANGED <<listhead, planpointer, currvariable, currviewmode>>, ShipsLinked'
    PROVE  PInv'
BY DEF PInv, StageLinked, OneIterator

\* Showing and hiding touches no list.
LEMMA SetShowRefines ==
    ASSUME PInv, NEW g \in Groups, NEW show \in BOOLEAN, SetShow(g, show)
    PROVE  PInv' /\ Lists!SetShow(g, show)
<1>1. UNCHANGED <<listhead, planpointer, currvariable, currviewmode, shiplisthead>>
  BY DEF SetShow
<1>2. ShipsLinked'
  BY <1>1 DEF PInv, ShipsLinked
<1>3. showvariable' = IF show THEN showvariable \union g ELSE showvariable \ g
  BY DEF SetShow
<1> QED BY <1>1, <1>2, <1>3, StageUnchanged DEF Lists!SetShow

\* The ship list is made as promised, and touches no variable.
LEMMA InitByBodyRefines ==
    ASSUME PInv, NEW n \in 0 .. Len(Ships), InitByBody(n)
    PROVE  PInv' /\ Lists!InitByBody(n)
<1>1. /\ ShipsLinked' /\ Elements(shiplisthead)' = Reverse(SubSeq(Ships, 1, n))
      /\ shiplisthead'.curpos = IF n = 0 THEN None ELSE Ships[n]
  BY InitByBodyFacts
<1>2. UNCHANGED <<listhead, planpointer, showvariable, currvariable, currviewmode>>
  BY DEF InitByBody
<1>3. \A s : Lists!Reverse(s) = Reverse(s)
  BY DEF Lists!Reverse, Reverse
<1>4. Lists!InitByBody(n)
  BY <1>1, <1>2, <1>3 DEF Lists!InitByBody, Lists!handler
<1> QED BY <1>1, <1>2, <1>4, StageUnchanged

\* Turning the ships touches no variable.
LEMMA TurnShipsRefines ==
    ASSUME PInv, TurnShips
    PROVE  PInv' /\ Lists!TurnShips
<1>1. ShipsLinked' /\ Lists!TurnShips
  BY TurnShipsFacts
<1>2. UNCHANGED <<listhead, planpointer, currvariable, currviewmode>>
  BY DEF TurnShips
<1> QED BY <1>1, <1>2, StageUnchanged

\* Every step keeps the invariant and is a step of the lists, or none.
LEMMA NextRefines ==
    ASSUME PInv, [Next]_vars
    PROVE  PInv' /\ [Lists!Next]_Lists!vars
<1>1. ASSUME NEW v \in Views, SetNextCurrent(v) PROVE PInv' /\ Lists!Next
  BY <1>1, SetNextRefines DEF Lists!Next
<1>2. ASSUME NEW v \in Views, SetPrevCurrent(v) PROVE PInv' /\ Lists!Next
  BY <1>2, SetPrevRefines DEF Lists!Next
<1>3. ASSUME NEW v \in Views, GetCurrent(v) PROVE PInv' /\ Lists!Next
  BY <1>3, GetCurrentRefines DEF Lists!Next
<1>4. ASSUME NEW xs \in PlanLists, UpdatePlan(xs) PROVE PInv' /\ Lists!Next
  BY <1>4, UpdatePlanRefines, SameNames DEF Lists!Next
<1>5. ASSUME NEW g \in Groups, NEW show \in BOOLEAN, SetShow(g, show) PROVE PInv' /\ Lists!Next
  BY <1>5, SetShowRefines DEF Lists!Next
<1>6. ASSUME NEW n \in 0 .. Len(Ships), InitByBody(n) PROVE PInv' /\ Lists!Next
  BY <1>6, InitByBodyRefines DEF Lists!Next
<1>7. CASE TurnShips
  BY <1>7, TurnShipsRefines DEF Lists!Next
<1>8. CASE UNCHANGED vars
  <2>1. UNCHANGED <<listhead, planpointer, showvariable, currvariable, currviewmode, shiplisthead>>
    BY <1>8 DEF vars
  <2>2. PInv'
    BY <2>1, StageUnchanged DEF PInv, ShipsLinked
  <2>3. UNCHANGED Lists!vars
    BY <2>1 DEF Lists!vars, Lists!handler
  <2> QED BY <2>2, <2>3
<1> QED BY <1>1, <1>2, <1>3, <1>4, <1>5, <1>6, <1>7, <1>8 DEF Next

\* The invariant holds in every reachable state: the pointers of both lists are
\* those of a sequence, each iterator is in its list, and the view of the last
\* button has the iterator's place.
THEOREM PointersInOrder == Spec => []PInv
<1>1. Init => PInv
  BY InitPInv
<1>2. PInv /\ [Next]_vars => PInv'
  BY NextRefines
<1> QED BY <1>1, <1>2, PTL DEF Spec

\* The doubly linked lists implement the sequences, whatever the stage, the plans
\* and the ships: every operation on the pointers does what the list promises.
THEOREM PointersImplementLists == Spec => ListsArePointedTo
<1>1. Init => Lists!Init
  BY InitRefines
<1>2. PInv /\ [Next]_vars => [Lists!Next]_Lists!vars
  BY NextRefines
<1> QED BY <1>1, <1>2, PointersInOrder, PTL DEF Spec, ListsArePointedTo, Lists!Spec

\* In every reachable state a view shows a variable of the stage or of its plan,
\* or nothing: none that has been destroyed.
THEOREM ShownVariablesAlive == Spec => []ShownIsAlive
<1>1. ASSUME PInv, NEW v \in Views
      PROVE  Shown(v) \in Range(Base) \union Range(planpointer) \union {None}
  <2>1. /\ Elements(listhead) = Base \o planpointer
        /\ listhead.curpos \in Range(Base \o planpointer) \union {None}
    BY <1>1, StageSequence DEF PInv, StageLinked
  <2>2. Range(Base \o planpointer) = Range(Base) \union Range(planpointer)
    BY <1>1, StageFacts DEF PInv
  <2> QED BY <2>1, <2>2 DEF Shown, IsInList
<1>2. PInv => ShownIsAlive
  BY <1>1 DEF ShownIsAlive
<1> QED BY <1>2, PointersInOrder, PTL

\* One step changes what one view shows.
StepKeepsOthers ==
    \E v \in Views : \A w \in Views \ {v} :
        Lists!Shown(w) # None
        /\ (Elements(listhead)' = Elements(listhead) \/ Lists!Shown(w) \in Lists!Range(Base))
            => Lists!Shown(w)' = Lists!Shown(w)

\* A move of view v leaves the others alone.
LEMMA MoveKeepsOthers ==
    ASSUME PInv, NEW v \in Views, NEW x \in Range(Base \o planpointer), Moved(v, x)
    PROVE  StepKeepsOthers
<1>1. /\ Elements(listhead)' = Elements(listhead) /\ currviewmode' = v
      /\ currvariable' = [currvariable EXCEPT ![v] = x]
  BY MovedFacts DEF Moved
<1>2. /\ Elements(listhead) = Base \o planpointer
      /\ listhead.curpos \in Range(Base \o planpointer) \union {None}
  BY StageSequence DEF PInv, StageLinked
<1>3. /\ currvariable \in [Views -> Memory \union {None}]
      /\ currviewmode \in Views /\ listhead.curpos # None => currvariable[currviewmode] = listhead.curpos
  BY DEF PInv, OneIterator
<1>4. ASSUME NEW w \in Views \ {v}, Shown(w) # None PROVE Lists!Shown(w)' = Shown(w)
  <2>1. currvariable'[w] = currvariable[w] /\ w # currviewmode'
    BY <1>1, <1>3
  <2>2. Lists!Shown(w)' = IF currvariable[w] \in Range(Elements(listhead)) THEN currvariable[w] ELSE None
    BY <1>1, <2>1, SameNames DEF Lists!Shown
  <2>3. CASE w = currviewmode
    BY <1>2, <1>3, <1>4, <2>2, <2>3 DEF Shown
  <2>4. CASE w # currviewmode
    BY <2>2, <2>4 DEF Shown, IsInList
  <2> QED BY <2>3, <2>4
<1> QED BY <1>4, SameNames DEF StepKeepsOthers

\* No step changes what two views show.
LEMMA NextKeepsOthers == ASSUME PInv, [Next]_vars PROVE StepKeepsOthers
<1>1. ASSUME NEW v \in Views, SetNextCurrent(v) \/ SetPrevCurrent(v) \/ GetCurrent(v)
      PROVE  StepKeepsOthers
  <2>1. CASE SetNextCurrent(v)
    BY <2>1, SetNextCurrentFacts, MoveKeepsOthers
  <2>2. CASE SetPrevCurrent(v)
    BY <2>2, SetPrevCurrentFacts, MoveKeepsOthers
  <2> QED BY <1>1, <2>1, <2>2 DEF GetCurrent
<1>2. ASSUME NEW xs \in PlanLists, UpdatePlan(xs) PROVE StepKeepsOthers
  <2>1. PICK v \in Views : currviewmode \in Views => v = currviewmode
    BY BaseFacts
  <2>2. Elements(listhead)' = Base \o xs /\ Elements(listhead) = Base \o planpointer
    BY <1>2, UpdatePlanFacts, StageSequence DEF PInv, StageLinked
  <2>3. Range(Base) \subseteq Range(Base \o xs) /\ None \notin Range(Base)
    BY StageFacts, BaseFacts
  <2>4. currviewmode' = currviewmode /\ currvariable' = currvariable
    BY <1>2 DEF UpdatePlan
  <2>5. ASSUME NEW w \in Views \ {v}, Shown(w) # None,
               Elements(listhead)' = Elements(listhead) \/ Shown(w) \in Range(Base)
        PROVE  Lists!Shown(w)' = Shown(w)
    <3>1. w # currviewmode
      BY <2>1
    <3>2. Shown(w) = currvariable[w] /\ currvariable[w] \in Range(Elements(listhead))
      BY <2>5, <3>1 DEF Shown, IsInList
    <3>3. currvariable[w] \in Range(Base \o xs)
      BY <2>2, <2>3, <2>5, <3>2
    <3>4. Lists!Shown(w)' = IF currvariable[w] \in Range(Base \o xs) THEN currvariable[w] ELSE None
      BY <2>2, <2>4, <3>1, SameNames DEF Lists!Shown
    <3> QED BY <3>2, <3>3, <3>4
  <2> QED BY <2>5, SameNames DEF StepKeepsOthers
<1>3. CASE UNCHANGED <<listhead, currvariable, currviewmode>>
  <2>1. PICK v \in Views : TRUE
    BY BaseFacts
  <2>2. \A w \in Views \ {v} : Lists!Shown(w)' = Lists!Shown(w)
    BY <1>3 DEF Lists!Shown
  <2> QED BY <2>2 DEF StepKeepsOthers
<1>4. ASSUME NEW g \in Groups, NEW show \in BOOLEAN, SetShow(g, show) PROVE StepKeepsOthers
  BY <1>3, <1>4 DEF SetShow
<1>5. ASSUME NEW n \in 0 .. Len(Ships), InitByBody(n) PROVE StepKeepsOthers
  BY <1>3, <1>5 DEF InitByBody
<1>6. CASE TurnShips
  BY <1>3, <1>6 DEF TurnShips
<1>7. CASE UNCHANGED vars
  BY <1>3, <1>7 DEF vars
<1> QED BY <1>1, <1>2, <1>4, <1>5, <1>6, <1>7 DEF Next

\* A button, a search or a new plan changes what one view shows, and no other.
THEOREM OwnCurrents == Spec => OwnCurrent
<1>1. PInv /\ [Next]_vars => [StepKeepsOthers]_Lists!vars
  BY NextKeepsOthers
<1>2. OwnCurrent <=> [][StepKeepsOthers]_Lists!vars
  BY PTL DEF OwnCurrent, Lists!OwnCurrent, StepKeepsOthers
<1> QED BY <1>1, <1>2, PointersInOrder, PTL DEF Spec
============================================================================
