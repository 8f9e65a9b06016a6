------------------------- MODULE TransXStagesProofs -------------------------
(***************************************************************************)
(* Stages of the flight plans are linked, put aside and deleted as they    *)
(* should, and MFDs go on showing what they show, for any number of ships, *)
(* stages and MFDs.                                                        *)
(***************************************************************************)
EXTENDS TransXStages, FiniteSetTheorems, SequenceTheorems, TLAPS

----------------------------------------------------------------------------
(* Sequences without repetition, cut and put together.                     *)

LEMMA RangeOf ==
    ASSUME NEW S, NEW q \in Seq(S)
    PROVE  /\ Len(q) \in Nat /\ DOMAIN q = 1 .. Len(q)
           /\ Range(q) \subseteq S
           /\ \A x : x \in Range(q) <=> \E i \in 1 .. Len(q) : x = q[i]
BY LenProperties DEF Range

LEMMA EmptySequence ==
    ASSUME NEW S
    PROVE  <<>> \in Seq(S) /\ Len(<<>>) = 0 /\ IsInjective(<<>>) /\ Range(<<>>) = {}
BY DEF IsInjective, Range

\* The elements of two sequences put together.
LEMMA ConcatRange ==
    ASSUME NEW S, NEW q \in Seq(S), NEW r \in Seq(S)
    PROVE  Range(q \o r) = Range(q) \union Range(r)
<1> DEFINE qr == q \o r
<1>1. /\ qr \in Seq(S) /\ Len(qr) = Len(q) + Len(r)
      /\ \A i \in 1 .. Len(q) + Len(r) : qr[i] = IF i <= Len(q) THEN q[i] ELSE r[i - Len(q)]
  BY ConcatProperties
<1> HIDE DEF qr
<1>2. Len(q) \in Nat /\ Len(r) \in Nat
  BY LenProperties
<1>3. ASSUME NEW x \in Range(q) PROVE x \in Range(qr)
  <2>1. PICK i \in 1 .. Len(q) : x = q[i]
    BY RangeOf
  <2>2. i \in 1 .. Len(qr) /\ qr[i] = x
    BY <1>1, <1>2, <2>1
  <2> QED BY <1>1, <2>2, RangeOf
<1>4. ASSUME NEW x \in Range(r) PROVE x \in Range(qr)
  <2>1. PICK i \in 1 .. Len(r) : x = r[i]
    BY RangeOf
  <2>2. Len(q) + i \in 1 .. Len(q) + Len(r) /\ ~(Len(q) + i <= Len(q)) /\ (Len(q) + i) - Len(q) = i
    BY <1>2
  <2>3. qr[Len(q) + i] = x
    BY <1>1, <2>1, <2>2
  <2> QED BY <1>1, <2>2, <2>3, RangeOf
<1>5. ASSUME NEW x \in Range(qr) PROVE x \in Range(q) \union Range(r)
  <2>1. PICK i \in 1 .. Len(q) + Len(r) : x = qr[i]
    BY <1>1, RangeOf
  <2>2. CASE i <= Len(q)
    BY <1>1, <1>2, <2>1, <2>2, RangeOf
  <2>3. CASE ~(i <= Len(q))
    <3>1. i - Len(q) \in 1 .. Len(r)
      BY <1>2, <2>3
    <3> QED BY <1>1, <2>1, <2>3, <3>1, RangeOf
  <2> QED BY <2>2, <2>3
<1> QED BY <1>3, <1>4, <1>5 DEF qr

\* They have no repetition if neither has one and they have no element in common.
LEMMA ConcatInjective ==
    ASSUME NEW S, NEW q \in Seq(S), NEW r \in Seq(S)
    PROVE  IsInjective(q \o r) <=> /\ IsInjective(q) /\ IsInjective(r)
                                   /\ Range(q) \intersect Range(r) = {}
<1> DEFINE qr == q \o r
           m == Len(q)
           n == Len(r)
<1>1. /\ qr \in Seq(S) /\ Len(qr) = m + n
      /\ \A i \in 1 .. m + n : qr[i] = IF i <= m THEN q[i] ELSE r[i - m]
  BY ConcatProperties
<1>2. m \in Nat /\ n \in Nat /\ DOMAIN q = 1 .. m /\ DOMAIN r = 1 .. n /\ DOMAIN qr = 1 .. m + n
  BY <1>1, LenProperties
<1> HIDE DEF qr, m, n
<1>3. \A i \in 1 .. m : i \in 1 .. m + n /\ qr[i] = q[i]
  BY <1>1, <1>2
<1>4. \A i \in 1 .. n : m + i \in 1 .. m + n /\ qr[m + i] = r[i]
  <2> SUFFICES ASSUME NEW i \in 1 .. n PROVE m + i \in 1 .. m + n /\ qr[m + i] = r[i]
    OBVIOUS
  <2>1. m + i \in 1 .. m + n /\ ~(m + i <= m) /\ (m + i) - m = i
    BY <1>2
  <2> QED BY <1>1, <2>1
<1>5. ASSUME IsInjective(qr)
      PROVE  IsInjective(q) /\ IsInjective(r) /\ Range(q) \intersect Range(r) = {}
  <2>1. \A i, j \in 1 .. m + n : qr[i] = qr[j] => i = j
    BY <1>2, <1>5 DEF IsInjective
  <2>2. IsInjective(q)
    BY <1>2, <1>3, <2>1 DEF IsInjective
  <2>3. ASSUME NEW i \in 1 .. n, NEW j \in 1 .. n, r[i] = r[j] PROVE i = j
    <3>1. m + i = m + j
      BY <1>4, <2>1, <2>3
    <3> QED BY <1>2, <3>1
  <2>4. ASSUME NEW i \in 1 .. m, NEW j \in 1 .. n PROVE q[i] # r[j]
    <3>1. i # m + j
      BY <1>2
    <3> QED BY <1>3, <1>4, <2>1, <3>1
  <2>5. IsInjective(r)
    BY <1>2, <2>3 DEF IsInjective
  <2> QED BY <1>2, <2>2, <2>4, <2>5 DEF Range
<1>6. ASSUME IsInjective(q), IsInjective(r), Range(q) \intersect Range(r) = {},
             NEW i \in 1 .. m + n, NEW j \in 1 .. m + n, qr[i] = qr[j]
      PROVE  i = j
  <2>1. \A k \in 1 .. m, l \in 1 .. n : q[k] # r[l]
    BY <1>2, <1>6 DEF Range
  <2>2. \A k \in 1 .. m + n : ~(k <= m) => k - m \in 1 .. n
    BY <1>2
  <2>3. \A k \in 1 .. m + n : k <= m => k \in 1 .. m
    BY <1>2
  <2>4. CASE i <= m /\ j <= m
    BY <1>1, <1>2, <1>6, <2>3, <2>4 DEF IsInjective
  <2>5. CASE ~(i <= m) /\ ~(j <= m)
    <3>1. i - m = j - m
      BY <1>1, <1>2, <1>6, <2>2, <2>5 DEF IsInjective
    <3> QED BY <1>2, <3>1
  <2>6. ~(i <= m /\ ~(j <= m)) /\ ~(j <= m /\ ~(i <= m))
    BY <1>1, <1>6, <2>1, <2>2, <2>3
  <2> QED BY <2>4, <2>5, <2>6
<1>7. ASSUME IsInjective(q), IsInjective(r), Range(q) \intersect Range(r) = {}
      PROVE  IsInjective(qr)
  BY <1>2, <1>6, <1>7 DEF IsInjective
<1> QED BY <1>5, <1>7 DEF qr

\* A sequence and what is kept and cut of it.
LEMMA SplitSequence ==
    ASSUME NEW S, NEW q \in Seq(S), NEW k \in 0 .. Len(q)
    PROVE  LET kept == SubSeq(q, 1, k)
               cut  == SubSeq(q, k + 1, Len(q))
           IN  /\ kept \in Seq(S) /\ Len(kept) = k /\ \A i \in 1 .. k : kept[i] = q[i]
               /\ cut \in Seq(S) /\ Len(cut) = Len(q) - k
               /\ \A i \in 1 .. Len(q) - k : cut[i] = q[k + i]
               /\ q = kept \o cut
<1> DEFINE n == Len(q)
           kept == SubSeq(q, 1, k)
           cut == SubSeq(q, k + 1, n)
<1>1. n \in Nat /\ k \in Nat /\ k <= n /\ DOMAIN q = 1 .. n /\ \A i \in 1 .. n : q[i] \in S
  BY LenProperties
<1>2. kept \in Seq(S) /\ Len(kept) = k /\ \A i \in 1 .. k : kept[i] = q[i]
  BY <1>1
<1>3. /\ cut \in Seq(S)
      /\ Len(cut) = IF k + 1 <= n THEN n - (k + 1) + 1 ELSE 0
      /\ \A i \in 1 .. n - (k + 1) + 1 : cut[i] = q[(k + 1) + i - 1]
  <2>1. k + 1 \in Int /\ n \in Int /\ \A i \in k + 1 .. n : q[i] \in S
    BY <1>1
  <2> QED BY <2>1, SubSeqProperties
<1>4. Len(cut) = n - k /\ \A i \in 1 .. n - k : cut[i] = q[k + i]
  <2> HIDE DEF cut, n
  <2>1. n - (k + 1) + 1 = n - k /\ (IF k + 1 <= n THEN n - (k + 1) + 1 ELSE 0) = n - k
    BY <1>1
  <2>2. \A i \in 1 .. n - k : (k + 1) + i - 1 = k + i
    BY <1>1
  <2> QED BY <1>3, <2>1, <2>2
<1> HIDE DEF kept, cut, n
<1>5. /\ kept \o cut \in Seq(S)
      /\ Len(kept \o cut) = Len(kept) + Len(cut)
      /\ \A i \in 1 .. Len(kept) + Len(cut) :
            (kept \o cut)[i] = IF i <= Len(kept) THEN kept[i] ELSE cut[i - Len(kept)]
  BY <1>2, <1>3, ConcatProperties
<1>6. Len(kept) + Len(cut) = n
  BY <1>1, <1>2, <1>4
<1>7. ASSUME NEW i \in 1 .. n PROVE (kept \o cut)[i] = q[i]
  <2>1. CASE i <= k
    BY <1>1, <1>2, <1>5, <1>6, <2>1
  <2>2. CASE ~(i <= k)
    <3>1. i - k \in 1 .. n - k /\ k + (i - k) = i
      BY <1>1, <2>2
    <3> QED BY <1>2, <1>4, <1>5, <1>6, <2>2, <3>1
  <2> QED BY <2>1, <2>2
<1>8. q = kept \o cut
  BY <1>1, <1>5, <1>6, <1>7, SeqEqual DEF n
<1> QED BY <1>2, <1>3, <1>4, <1>8 DEF kept, cut, n

\* The neighbours of the i-th element of a sequence without repetition.
LEMMA Neighbours ==
    ASSUME NEW S, NEW q \in Seq(S), IsInjective(q), NEW i \in DOMAIN q
    PROVE  /\ Position(q, q[i]) = i
           /\ Before(q, q[i]) = IF i = 1 THEN None ELSE q[i - 1]
           /\ Behind(q, q[i]) = IF i = Len(q) THEN None ELSE q[i + 1]
<1>1. Position(q, q[i]) = i
  BY DEF Position, IsInjective
<1> QED BY <1>1 DEF Before, Behind

----------------------------------------------------------------------------
(* The inductive invariant.  To the properties it adds that only an MFD    *)
(* that is open takes buttons, and that the background task is at a ship   *)
(* of the list.  What it says of the lists is taken apart here: Once and   *)
(* Linked are StagesOnce and LinksMatch, of any lists.                     *)

OpenAndListed ==
    /\ \A p \in valid : mfd[p] # None
    /\ current # None => current \in Range(ships)

Inv == TypeOK /\ StagesOnce /\ LinksMatch /\ OpenAndListed

ListsTypeOK ==
    /\ baselist \in [Ships -> Seq(Stages)]
    /\ todeletelist \in [Ships -> Seq(Stages)]
    /\ previousfunc \in [Stages -> Stages \union {None}]
    /\ nextfunc \in [Stages -> Stages \union {None}]

\* What the handlers of a plan's lists keep.
ListsInv == ListsTypeOK /\ StagesOnce /\ LinksMatch

Once(b, d) ==
    /\ \A s \in Ships : /\ IsInjective(b[s]) /\ IsInjective(d[s])
                        /\ Range(b[s]) \intersect Range(d[s]) = {}
    /\ \A s, t \in Ships : s # t =>
          (Range(b[s]) \union Range(d[s])) \intersect (Range(b[t]) \union Range(d[t])) = {}

LEMMA OnceMeans ==
    ASSUME NEW b \in [Ships -> Seq(Stages)], NEW d \in [Ships -> Seq(Stages)]
    PROVE  (/\ \A s \in Ships : IsInjective(b[s] \o d[s])
            /\ \A s, t \in Ships : s # t =>
                  Range(b[s] \o d[s]) \intersect Range(b[t] \o d[t]) = {}) <=> Once(b, d)
<1>1. \A s \in Ships : b[s] \in Seq(Stages) /\ d[s] \in Seq(Stages)
  OBVIOUS
<1>2. \A s \in Ships : Range(b[s] \o d[s]) = Range(b[s]) \union Range(d[s])
  BY <1>1, ConcatRange
<1>3. \A s \in Ships : IsInjective(b[s] \o d[s]) <=>
          IsInjective(b[s]) /\ IsInjective(d[s]) /\ Range(b[s]) \intersect Range(d[s]) = {}
  BY <1>1, ConcatInjective
<1> QED BY <1>2, <1>3 DEF Once

Linked(pf, nf, q) ==
    \A i \in DOMAIN q : /\ pf[q[i]] = IF i = 1 THEN None ELSE q[i - 1]
                        /\ nf[q[i]] = IF i = Len(q) THEN None ELSE q[i + 1]

LEMMA LinkedMeans ==
    LinksMatch <=> /\ \A s \in Ships : Linked(previousfunc, nextfunc, baselist[s])
                   /\ \A y \in Stages \ Plans : previousfunc[y] = None /\ nextfunc[y] = None
BY DEF LinksMatch, Linked

\* None is no stage, so that a link that leads nowhere leads to no stage.
LEMMA NoStage == None \notin Stages /\ None \notin Ships /\ \A n \in Nat : n # None
BY StagesAssumption

\* A stage of the plan is in no other plan, none of the new ones, and was not put aside.
LEMMA StagesApart ==
    ASSUME ListsInv
    PROVE  /\ Once(baselist, todeletelist)
           /\ \A s \in Ships : /\ Range(baselist[s]) \subseteq Stages \intersect Plans
                               /\ Range(baselist[s]) \intersect Free = {}
                               /\ Range(todeletelist[s]) \intersect Free = {}
                               /\ Range(todeletelist[s]) \intersect Plans = {}
           /\ Free \subseteq Stages
<1>1. Once(baselist, todeletelist)
  BY OnceMeans DEF ListsInv, ListsTypeOK, StagesOnce
<1>2. \A s \in Ships : Range(baselist[s]) \subseteq Stages
  BY RangeOf DEF ListsInv, ListsTypeOK
<1> QED BY <1>1, <1>2 DEF Once, Free, Plans, Aside

\* Where the links lead, and that they lead back.
LEMMA LinksLead ==
    ASSUME ListsInv, NEW s \in Ships, NEW y \in Range(baselist[s])
    PROVE  /\ previousfunc[y] \in Range(baselist[s]) \union {None}
           /\ nextfunc[y] \in Range(baselist[s]) \union {None}
<1> DEFINE n == Len(baselist[s])
<1>1. baselist[s] \in Seq(Stages) /\ n \in Nat /\ DOMAIN baselist[s] = 1 .. n
  BY RangeOf DEF ListsInv, ListsTypeOK
<1>2. PICK i \in 1 .. n : y = baselist[s][i]
  BY <1>1, RangeOf
<1>3. Linked(previousfunc, nextfunc, baselist[s])
  BY LinkedMeans DEF ListsInv
<1>4. /\ previousfunc[y] = IF i = 1 THEN None ELSE baselist[s][i - 1]
      /\ nextfunc[y] = IF i = n THEN None ELSE baselist[s][i + 1]
  BY <1>1, <1>2, <1>3 DEF Linked
<1> HIDE DEF n
<1>5. (i # 1 => i - 1 \in 1 .. n) /\ (i # n => i + 1 \in 1 .. n)
  BY <1>1
<1> QED BY <1>1, <1>4, <1>5, RangeOf DEF n

----------------------------------------------------------------------------
(* The three handlers of the lists.                                        *)

\* The plan that Replan leaves behind, and what it puts aside.
Replanned(s, k, xs) ==
    LET q    == baselist[s]
        cut  == SubSeq(q, k + 1, Len(q))
        plan == baselist'[s]
    IN  /\ plan \in Seq(Stages) /\ IsInjective(plan) /\ Len(plan) = k + Len(xs)
        /\ plan = SubSeq(q, 1, k) \o xs
        /\ \A i \in 1 .. k : plan[i] = q[i]
        /\ \A i \in 1 .. Len(xs) : plan[k + i] = xs[i]
        /\ cut \in Seq(Stages) /\ IsInjective(cut)
        /\ \A x : x \in Range(cut) <=> \E i \in k + 1 .. Len(q) : x = q[i]
        /\ Range(plan) \intersect Range(cut) = {}
        /\ Range(plan) \subseteq Range(q) \union Range(xs)
        /\ Range(q) \subseteq Range(plan) \union Range(cut)
        /\ Range(cut) \subseteq Range(q)
        /\ Range(xs) \subseteq Free \intersect Range(plan)
        /\ todeletelist'[s] = todeletelist[s] \o cut
        /\ \A t \in Ships : t # s => /\ baselist'[t] = baselist[t]
                                     /\ todeletelist'[t] = todeletelist[t]

LEMMA ReplanLists ==
    ASSUME ListsInv, NEW s \in Ships, NEW k \in 0 .. Len(baselist[s]),
           NEW xs \in Seq(Free), IsInjective(xs), Replan(s, k, xs)
    PROVE  Replanned(s, k, xs)
<1> DEFINE q == baselist[s]
           n == Len(q)
           kept == SubSeq(q, 1, k)
           cut == SubSeq(q, k + 1, n)
           plan == kept \o xs
<1>1. /\ q \in Seq(Stages) /\ n \in Nat /\ k \in 0 .. n /\ IsInjective(q)
      /\ Free \subseteq Stages /\ Range(q) \intersect Free = {}
      /\ xs \in Seq(Stages) /\ Range(xs) \subseteq Free
  BY StagesApart, RangeOf DEF ListsInv, ListsTypeOK, Once
<1>2. /\ baselist' = [baselist EXCEPT ![s] = plan]
      /\ todeletelist' = [todeletelist EXCEPT ![s] = @ \o cut]
  BY DEF Replan
<1>3. /\ baselist'[s] = plan /\ todeletelist'[s] = todeletelist[s] \o cut
      /\ \A t \in Ships : t # s => baselist'[t] = baselist[t] /\ todeletelist'[t] = todeletelist[t]
  BY <1>2 DEF ListsInv, ListsTypeOK
<1> HIDE DEF n, kept, cut, plan, q
<1>4. /\ kept \in Seq(Stages) /\ Len(kept) = k /\ \A i \in 1 .. k : kept[i] = q[i]
      /\ cut \in Seq(Stages) /\ Len(cut) = n - k /\ \A i \in 1 .. n - k : cut[i] = q[k + i]
      /\ q = kept \o cut
  <2>1. q \in Seq(Stages) /\ k \in 0 .. Len(q)
    BY <1>1 DEF n
  <2> QED BY <2>1, SplitSequence DEF n, kept, cut
<1>5. /\ IsInjective(kept) /\ IsInjective(cut) /\ Range(kept) \intersect Range(cut) = {}
      /\ Range(q) = Range(kept) \union Range(cut)
  BY <1>1, <1>4, ConcatInjective, ConcatRange
<1>6. /\ plan \in Seq(Stages) /\ IsInjective(plan)
      /\ Range(plan) = Range(kept) \union Range(xs)
  <2>1. plan \in Seq(Stages) /\ Range(plan) = Range(kept) \union Range(xs)
    BY <1>1, <1>4, ConcatRange, ConcatProperties DEF plan
  <2>2. Range(kept) \intersect Range(xs) = {}
    BY <1>1, <1>5
  <2>3. IsInjective(plan)
    BY <1>1, <1>4, <1>5, <2>2, ConcatInjective DEF plan
  <2> QED BY <2>1, <2>3
<1>7. /\ Len(plan) = k + Len(xs) /\ \A i \in 1 .. k : plan[i] = q[i]
      /\ \A i \in 1 .. Len(xs) : plan[k + i] = xs[i]
  <2>1. /\ Len(plan) = k + Len(xs)
        /\ \A i \in 1 .. k + Len(xs) : plan[i] = IF i <= k THEN kept[i] ELSE xs[i - k]
    <3>1. kept \in Seq(Stages) /\ Len(kept) = k /\ xs \in Seq(Stages)
      BY <1>1, <1>4
    <3> QED BY <3>1, ConcatProperties DEF plan
  <2>2. Len(xs) \in Nat
    BY <1>1, LenProperties
  <2>3. \A i \in 1 .. k : plan[i] = q[i]
    <3>1. \A i \in 1 .. k : i \in 1 .. k + Len(xs) /\ i <= k
      BY <1>1, <2>2
    <3> QED BY <1>4, <2>1, <3>1
  <2>4. ASSUME NEW i \in 1 .. Len(xs) PROVE plan[k + i] = xs[i]
    <3>1. k + i \in 1 .. k + Len(xs) /\ ~(k + i <= k) /\ (k + i) - k = i
      BY <1>1, <2>2
    <3> QED BY <2>1, <3>1
  <2> QED BY <2>1, <2>3, <2>4
<1>8. ASSUME NEW x PROVE x \in Range(cut) <=> \E i \in k + 1 .. n : x = q[i]
  <2>1. x \in Range(cut) <=> \E j \in 1 .. n - k : x = cut[j]
    <3>1. cut \in Seq(Stages) /\ Len(cut) = n - k
      BY <1>4
    <3> QED BY <3>1, RangeOf
  <2>2. ASSUME NEW i \in k + 1 .. n, x = q[i] PROVE \E j \in 1 .. n - k : x = cut[j]
    <3>1. i - k \in 1 .. n - k /\ k + (i - k) = i
      BY <1>1
    <3> QED BY <1>4, <2>2, <3>1
  <2>3. \A j \in 1 .. n - k : k + j \in k + 1 .. n
    BY <1>1
  <2> QED BY <1>4, <2>1, <2>2, <2>3
<1> QED BY <1>1, <1>3, <1>4, <1>5, <1>6, <1>7, <1>8 DEF Replanned, plan, kept, cut, n, q

LEMMA ReplanOnce ==
    ASSUME ListsInv, NEW s \in Ships, NEW k \in 0 .. Len(baselist[s]),
           NEW xs \in Seq(Free), IsInjective(xs), Replan(s, k, xs)
    PROVE  /\ baselist' \in [Ships -> Seq(Stages)]
           /\ todeletelist' \in [Ships -> Seq(Stages)]
           /\ StagesOnce'
<1> DEFINE q == baselist[s]
           cut == SubSeq(q, k + 1, Len(q))
           plan == baselist'[s]
           aside == todeletelist'[s]
<1>1. /\ plan \in Seq(Stages) /\ IsInjective(plan)
      /\ cut \in Seq(Stages) /\ IsInjective(cut) /\ Range(plan) \intersect Range(cut) = {}
      /\ Range(plan) \subseteq Range(q) \union Range(xs) /\ Range(cut) \subseteq Range(q)
      /\ Range(xs) \subseteq Free
      /\ aside = todeletelist[s] \o cut
      /\ \A t \in Ships : t # s => baselist'[t] = baselist[t] /\ todeletelist'[t] = todeletelist[t]
  BY ReplanLists DEF Replanned
<1>2. /\ Once(baselist, todeletelist)
      /\ todeletelist[s] \in Seq(Stages)
      /\ \A t \in Ships : /\ Range(baselist[t]) \intersect Free = {}
                          /\ Range(todeletelist[t]) \intersect Free = {}
  BY StagesApart DEF ListsInv, ListsTypeOK
<1> HIDE DEF q, cut, plan, aside
<1>3. baselist' \in [Ships -> Seq(Stages)] /\ todeletelist' \in [Ships -> Seq(Stages)]
  <2>1. aside \in Seq(Stages)
    BY <1>1, <1>2, ConcatProperties
  <2>2. /\ baselist' = [baselist EXCEPT ![s] = plan]
        /\ todeletelist' = [todeletelist EXCEPT ![s] = aside]
    BY <1>1 DEF Replan, plan, aside, ListsInv, ListsTypeOK
  <2> QED BY <1>1, <2>1, <2>2 DEF ListsInv, ListsTypeOK
<1>4. /\ Range(aside) = Range(todeletelist[s]) \union Range(cut)
      /\ IsInjective(aside)
  <2>1. Range(todeletelist[s]) \intersect Range(cut) = {} /\ IsInjective(todeletelist[s])
    BY <1>1, <1>2 DEF Once, q
  <2> QED BY <1>1, <1>2, <2>1, ConcatRange, ConcatInjective
<1>5. Range(plan) \intersect Range(aside) = {}
  BY <1>1, <1>2, <1>4 DEF Once, q
<1>6. Range(plan) \union Range(aside) \subseteq
          Range(baselist[s]) \union Range(todeletelist[s]) \union Free
  BY <1>1, <1>4 DEF q
<1>7. Once(baselist', todeletelist')
  <2>1. ASSUME NEW t \in Ships
        PROVE  /\ IsInjective(baselist'[t]) /\ IsInjective(todeletelist'[t])
               /\ Range(baselist'[t]) \intersect Range(todeletelist'[t]) = {}
    BY <1>1, <1>2, <1>4, <1>5 DEF Once, plan, aside
  <2>2. ASSUME NEW t \in Ships, t # s
        PROVE  (Range(plan) \union Range(aside))
                  \intersect (Range(baselist'[t]) \union Range(todeletelist'[t])) = {}
    <3>1. (Range(baselist[s]) \union Range(todeletelist[s]))
              \intersect (Range(baselist[t]) \union Range(todeletelist[t])) = {}
      BY <1>2, <2>2 DEF Once
    <3> QED BY <1>1, <1>2, <1>6, <2>2, <3>1
  <2>3. ASSUME NEW t \in Ships, NEW u \in Ships, t # u
        PROVE  (Range(baselist'[t]) \union Range(todeletelist'[t]))
                  \intersect (Range(baselist'[u]) \union Range(todeletelist'[u])) = {}
    <3>1. CASE t = s
      BY <2>2, <2>3, <3>1 DEF plan, aside
    <3>2. CASE u = s
      BY <2>2, <2>3, <3>2 DEF plan, aside
    <3>3. CASE t # s /\ u # s
      BY <1>1, <1>2, <2>3, <3>3 DEF Once
    <3> QED BY <3>1, <3>2, <3>3
  <2> QED BY <2>1, <2>3 DEF Once
<1> QED BY <1>3, <1>7, OnceMeans DEF StagesOnce

LEMMA ReplanLinks ==
    ASSUME ListsInv, NEW s \in Ships, NEW k \in 0 .. Len(baselist[s]),
           NEW xs \in Seq(Free), IsInjective(xs), Replan(s, k, xs)
    PROVE  /\ previousfunc' \in [Stages -> Stages \union {None}]
           /\ nextfunc' \in [Stages -> Stages \union {None}]
           /\ LinksMatch'
<1> DEFINE q == baselist[s]
           n == Len(q)
           cut == SubSeq(q, k + 1, n)
           C == Range(cut)
           plan == baselist'[s]
           m == Len(xs)
           last == IF k = 0 \/ xs = <<>> THEN {} ELSE {q[k]}
<1>0. Replanned(s, k, xs)
  BY ReplanLists
<1>1. /\ plan \in Seq(Stages) /\ IsInjective(plan) /\ Len(plan) = k + m
      /\ \A i \in 1 .. k : plan[i] = q[i]
      /\ \A i \in 1 .. m : plan[k + i] = xs[i]
      /\ \A x : x \in C <=> \E i \in k + 1 .. n : x = q[i]
      /\ Range(plan) \intersect C = {} /\ Range(q) \subseteq Range(plan) \union C
      /\ C \subseteq Range(q) /\ Range(xs) \subseteq Free \intersect Range(plan)
      /\ \A t \in Ships : t # s => baselist'[t] = baselist[t]
  <2>1. plan \in Seq(Stages) /\ IsInjective(plan) /\ Len(plan) = k + m
    BY <1>0 DEF Replanned
  <2>2. (\A i \in 1 .. k : plan[i] = q[i]) /\ (\A i \in 1 .. m : plan[k + i] = xs[i])
    BY <1>0 DEF Replanned
  <2>3. \A x : x \in C <=> \E i \in k + 1 .. n : x = q[i]
    BY <1>0 DEF Replanned
  <2>4. /\ Range(plan) \intersect C = {} /\ Range(q) \subseteq Range(plan) \union C
        /\ C \subseteq Range(q) /\ Range(xs) \subseteq Free \intersect Range(plan)
    BY <1>0 DEF Replanned
  <2>5. \A t \in Ships : t # s => baselist'[t] = baselist[t]
    BY <1>0 DEF Replanned
  <2> QED BY <2>1, <2>2, <2>3, <2>4, <2>5
<1>2. /\ Once(baselist, todeletelist) /\ Free \subseteq Stages
      /\ \A t \in Ships : /\ Range(baselist[t]) \subseteq Stages \intersect Plans
                          /\ Range(baselist[t]) \intersect Free = {}
  BY StagesApart
<1>3. /\ \A t \in Ships : Linked(previousfunc, nextfunc, baselist[t])
      /\ \A y \in Stages \ Plans : previousfunc[y] = None /\ nextfunc[y] = None
  BY LinkedMeans DEF ListsInv
<1>4. /\ q \in Seq(Stages) /\ n \in Nat /\ k \in 0 .. n /\ DOMAIN q = 1 .. n /\ IsInjective(q)
      /\ m \in Nat /\ xs \in Seq(Free) /\ DOMAIN xs = 1 .. m /\ DOMAIN plan = 1 .. k + m
      /\ Range(q) = {q[i] : i \in 1 .. n} /\ Range(xs) = {xs[i] : i \in 1 .. m}
  BY <1>1, <1>2, RangeOf DEF ListsInv, ListsTypeOK, Once, Range
<1>5. ASSUME NEW y \in Stages
      PROVE  /\ previousfunc'[y] = IF y \in Range(xs) THEN Before(plan, y)
                                   ELSE PreviousWithout(C)[y]
             /\ nextfunc'[y] = IF y \in Range(xs) \union last THEN Behind(plan, y)
                               ELSE NextWithout(C)[y]
  <2>1. plan = SubSeq(q, 1, k) \o xs /\ (k # 0 => SubSeq(q, 1, k)[k] = q[k])
    <3>1. k \in 0 .. Len(q)
      BY <1>4
    <3>2. \A i \in 1 .. k : SubSeq(q, 1, k)[i] = q[i]
      BY <1>4, <3>1, SplitSequence
    <3>3. k # 0 => k \in 1 .. k
      BY <1>4
    <3>4. plan = SubSeq(q, 1, k) \o xs
      BY <1>0 DEF Replanned
    <3> QED BY <3>2, <3>3, <3>4
  <2> QED BY <2>1 DEF Replan
<1>6. ASSUME NEW y \in Stages
      PROVE  /\ PreviousWithout(C)[y] = IF y \in C \/ (\E x \in C : nextfunc[x] = y) THEN None
                                        ELSE previousfunc[y]
             /\ NextWithout(C)[y] = IF y \in C \/ (\E x \in C : previousfunc[x] = y) THEN None
                                    ELSE nextfunc[y]
  BY DEF PreviousWithout, NextWithout
<1> HIDE DEF q, n, cut, C, plan, m
<1>7. ASSUME NEW i \in 1 .. k + m
      PROVE  /\ plan[i] \in Stages
             /\ Before(plan, plan[i]) = IF i = 1 THEN None ELSE plan[i - 1]
             /\ Behind(plan, plan[i]) = IF i = k + m THEN None ELSE plan[i + 1]
  <2>1. plan \in Seq(Stages) /\ IsInjective(plan) /\ i \in DOMAIN plan /\ Len(plan) = k + m
    BY <1>1, <1>4
  <2>2. plan[i] \in Stages
    BY <1>1, ElementOfSeq
  <2> QED BY <2>1, <2>2, Neighbours
<1>8. ASSUME NEW i \in k + 1 .. k + m PROVE i \in 1 .. k + m /\ plan[i] \in Range(xs)
  <2>1. i - k \in 1 .. m /\ k + (i - k) = i /\ i \in 1 .. k + m
    BY <1>4
  <2>2. plan[i] = xs[i - k]
    BY <1>1, <2>1
  <2> QED BY <1>4, <2>1, <2>2
<1>9. \A i \in 1 .. k : i \in 1 .. n /\ i \in 1 .. k + m /\ q[i] \notin C /\ q[i] \notin Range(xs)
                        /\ q[i] \in Stages
  <2>1. \A i \in 1 .. k : i \in 1 .. n /\ i \in 1 .. k + m /\ q[i] \in Range(q)
    BY <1>4
  <2>2. \A i \in 1 .. k, j \in k + 1 .. n : j \in 1 .. n /\ i # j
    BY <1>4
  <2>3. \A i \in 1 .. k : q[i] \notin C
    <3>1. \A i, j \in 1 .. n : q[i] = q[j] => i = j
      BY <1>4 DEF IsInjective
    <3> QED BY <1>1, <2>1, <2>2, <3>1
  <2>4. \A i \in 1 .. k : q[i] \notin Range(xs) /\ q[i] \in Stages
    BY <1>1, <1>2, <2>1 DEF q
  <2> QED BY <2>1, <2>3, <2>4
\* The new stages.
<1>10. ASSUME NEW i \in k + 1 .. k + m
       PROVE  /\ previousfunc'[plan[i]] = IF i = 1 THEN None ELSE plan[i - 1]
              /\ nextfunc'[plan[i]] = IF i = k + m THEN None ELSE plan[i + 1]
  BY <1>5, <1>7, <1>8
\* The stages that are kept.
<1>11. ASSUME NEW i \in 1 .. k
       PROVE  /\ previousfunc'[plan[i]] = IF i = 1 THEN None ELSE plan[i - 1]
              /\ nextfunc'[plan[i]] = IF i = k + m THEN None ELSE plan[i + 1]
  <2>1. /\ plan[i] = q[i] /\ i \in 1 .. n /\ i \in 1 .. k + m /\ i <= k /\ k <= n
        /\ q[i] \notin C /\ q[i] \notin Range(xs) /\ q[i] \in Stages
    BY <1>1, <1>4, <1>9
  <2>2. \A j \in 1 .. n : /\ previousfunc[q[j]] = IF j = 1 THEN None ELSE q[j - 1]
                          /\ nextfunc[q[j]] = IF j = n THEN None ELSE q[j + 1]
    BY <1>3, <1>4 DEF Linked, q, n
  <2>3. \A j, l \in 1 .. n : q[j] = q[l] => j = l
    BY <1>4 DEF IsInjective
  <2>4. \A x \in C : nextfunc[x] # q[i]
    <3> SUFFICES ASSUME NEW x \in C, nextfunc[x] = q[i] PROVE FALSE
      OBVIOUS
    <3>1. PICK j \in k + 1 .. n : x = q[j]
      BY <1>1
    <3>2. j \in 1 .. n /\ (j # n => j + 1 \in 1 .. n /\ j + 1 # i)
      BY <1>4, <2>1
    <3> QED BY <2>1, <2>2, <2>3, <3>1, <3>2, NoStage
  <2>5. previousfunc'[plan[i]] = IF i = 1 THEN None ELSE plan[i - 1]
    <3>1. i # 1 => i - 1 \in 1 .. k
      BY <1>4
    <3>2. previousfunc'[q[i]] = previousfunc[q[i]]
      BY <1>5, <1>6, <2>1, <2>4
    <3> QED BY <1>1, <2>1, <2>2, <3>1, <3>2
  <2>6. CASE i = k /\ xs # <<>>
    <3>1. q[i] \in last
      BY <1>4, <2>6
    <3> QED BY <1>5, <1>7, <2>1, <2>5, <3>1
  <2>7. CASE i = k /\ xs = <<>>
    <3>1. m = 0 /\ last = {}
      BY <1>4, <2>7, EmptySequence DEF m
    <3>2. nextfunc'[q[i]] = NextWithout(C)[q[i]]
      BY <1>5, <2>1, <3>1
    <3>3. k # n => k + 1 \in k + 1 .. n /\ k + 1 \in 1 .. n /\ (k + 1) - 1 = k /\ k + 1 # 1
      BY <1>4, <2>7
    <3>4. k # n => q[k + 1] \in C /\ previousfunc[q[k + 1]] = q[i]
      BY <1>1, <2>2, <2>7, <3>3
    <3>5. k = n => nextfunc[q[i]] = None
      BY <2>1, <2>2, <2>7
    <3>6. nextfunc'[q[i]] = None
      BY <1>6, <2>1, <3>2, <3>4, <3>5
    <3> QED BY <1>4, <2>1, <2>5, <2>7, <3>1, <3>6
  <2>8. CASE i # k
    <3>1. i + 1 \in 1 .. k /\ i # n /\ i # k + m /\ k # 0 /\ k \in 1 .. n
      BY <1>4, <2>1, <2>8
    <3>2. q[i] \notin last
      BY <2>1, <2>3, <2>8, <3>1
    <3>3. \A x \in C : previousfunc[x] # q[i]
      <4> SUFFICES ASSUME NEW x \in C, previousfunc[x] = q[i] PROVE FALSE
        OBVIOUS
      <4>1. PICK j \in k + 1 .. n : x = q[j]
        BY <1>1
      <4>2. j \in 1 .. n /\ j # 1 /\ j - 1 \in 1 .. n /\ j - 1 # i
        BY <1>4, <2>1, <2>8, <4>1
      <4> QED BY <2>1, <2>2, <2>3, <4>1, <4>2
    <3>4. nextfunc'[q[i]] = nextfunc[q[i]]
      BY <1>5, <1>6, <2>1, <3>2, <3>3
    <3> QED BY <1>1, <2>1, <2>2, <2>5, <3>1, <3>4
  <2> QED BY <2>6, <2>7, <2>8
<1>12. Linked(previousfunc', nextfunc', plan)
  <2>1. \A i \in 1 .. k + m : i \in 1 .. k \/ i \in k + 1 .. k + m
    BY <1>4
  <2> QED BY <1>1, <1>4, <1>10, <1>11, <2>1 DEF Linked
\* The other plans.
<1>13. ASSUME NEW t \in Ships, t # s PROVE Linked(previousfunc', nextfunc', baselist'[t])
  <2>1. /\ Range(baselist[t]) \intersect (Range(xs) \union Range(q)) = {}
        /\ last \subseteq Range(q) /\ Range(baselist[t]) \subseteq Stages
    <3>1. Range(baselist[t]) \intersect Range(q) = {}
      BY <1>2, <1>13 DEF Once, q
    <3>2. k # 0 => k \in 1 .. n
      BY <1>4
    <3> QED BY <1>1, <1>2, <1>4, <3>1, <3>2
  <2>2. \A x \in C : nextfunc[x] \in Range(q) \union {None}
                     /\ previousfunc[x] \in Range(q) \union {None}
    BY <1>1, LinksLead DEF q
  <2>3. ASSUME NEW y \in Range(baselist[t])
        PROVE  previousfunc'[y] = previousfunc[y] /\ nextfunc'[y] = nextfunc[y]
    BY <1>1, <1>5, <1>6, <2>1, <2>2, NoStage
  <2>4. \A i \in DOMAIN baselist[t] : baselist[t][i] \in Range(baselist[t])
    BY DEF Range
  <2> QED BY <1>1, <1>3, <1>13, <2>3, <2>4 DEF Linked
\* The stages that are in no plan.
<1>14. ASSUME NEW y \in Stages \ Plans' PROVE previousfunc'[y] = None /\ nextfunc'[y] = None
  <2>1. y \notin Range(plan) /\ \A t \in Ships : t # s => y \notin Range(baselist[t])
    BY <1>1, <1>14 DEF Plans, plan
  <2>2. y \notin Range(xs) /\ (y \in C \/ y \notin Plans)
    BY <1>1, <2>1 DEF Plans, q
  <2>3. y \notin last
    <3>1. k # 0 => k \in 1 .. k /\ k \in 1 .. k + m
      BY <1>4
    <3>2. k # 0 => q[k] \in Range(plan)
      BY <1>1, <1>4, <3>1 DEF Range
    <3> QED BY <2>1, <3>2
  <2> QED BY <1>3, <1>5, <1>6, <2>2, <2>3
<1>15. /\ previousfunc' \in [Stages -> Stages \union {None}]
       /\ nextfunc' \in [Stages -> Stages \union {None}]
  <2>1. ASSUME NEW y \in Stages
        PROVE  previousfunc'[y] \in Stages \union {None} /\ nextfunc'[y] \in Stages \union {None}
    <3>1. ASSUME y \in Range(plan)
          PROVE  Before(plan, y) \in Stages \union {None} /\ Behind(plan, y) \in Stages \union {None}
      <4>1. PICK i \in 1 .. k + m : y = plan[i]
        BY <1>4, <3>1 DEF Range
      <4>2. (i # 1 => i - 1 \in 1 .. k + m) /\ (i # k + m => i + 1 \in 1 .. k + m)
        BY <1>4
      <4> QED BY <1>7, <4>1, <4>2
    <3>2. Range(xs) \union last \subseteq Range(plan)
      <4>1. k # 0 => k \in 1 .. k /\ k \in 1 .. k + m
        BY <1>4
      <4>2. k # 0 => q[k] \in Range(plan)
        BY <1>1, <1>4, <4>1 DEF Range
      <4> QED BY <1>1, <4>2
    <3>3. previousfunc[y] \in Stages \union {None} /\ nextfunc[y] \in Stages \union {None}
      BY DEF ListsInv, ListsTypeOK
    <3> QED BY <1>5, <1>6, <3>1, <3>2, <3>3
  <2>2. /\ previousfunc' = [y \in Stages |-> previousfunc'[y]]
        /\ nextfunc' = [y \in Stages |-> nextfunc'[y]]
    BY DEF Replan
  <2> QED BY <2>1, <2>2
<1>16. \A t \in Ships : Linked(previousfunc', nextfunc', baselist'[t])
  BY <1>12, <1>13 DEF plan
<1> QED BY <1>14, <1>15, <1>16 DEF LinksMatch, Linked

LEMMA ReplanKeepsLists ==
    ASSUME ListsInv, NEW s \in Ships, NEW k \in 0 .. Len(baselist[s]),
           NEW xs \in Seq(Free), IsInjective(xs), Replan(s, k, xs)
    PROVE  ListsInv'
BY ReplanOnce, ReplanLinks DEF ListsInv, ListsTypeOK

\* A sequence without its first element.
LEMMA TailProperties ==
    ASSUME NEW S, NEW q \in Seq(S), IsInjective(q), q # <<>>
    PROVE  /\ Tail(q) \in Seq(S) /\ Len(Tail(q)) = Len(q) - 1 /\ IsInjective(Tail(q))
           /\ Len(q) \in Nat /\ Len(q) > 0
           /\ \A i \in 1 .. Len(q) - 1 : Tail(q)[i] = q[i + 1]
           /\ q[1] \in S /\ Range(q) = Range(Tail(q)) \union {q[1]} /\ q[1] \notin Range(Tail(q))
<1> DEFINE n == Len(q)
           t == Tail(q)
<1>1. /\ t \in Seq(S) /\ Len(t) = n - 1 /\ \A i \in 1 .. n - 1 : t[i] = q[i + 1]
      /\ n \in Nat /\ n > 0 /\ DOMAIN q = 1 .. n
  BY HeadTailProperties, EmptySeq, LenProperties
<1>2. DOMAIN t = 1 .. n - 1
  BY <1>1, LenProperties
<1>3. \A i, j \in 1 .. n : q[i] = q[j] => i = j
  BY <1>1 DEF IsInjective
<1> HIDE DEF n, t
<1>4. \A i \in 1 .. n - 1 : i + 1 \in 1 .. n /\ i + 1 # 1
  BY <1>1
<1>5. \A i \in 1 .. n : i # 1 => i - 1 \in 1 .. n - 1 /\ (i - 1) + 1 = i
  BY <1>1
<1>6. 1 \in 1 .. n
  BY <1>1
<1>7. IsInjective(t)
  <2> SUFFICES ASSUME NEW i \in 1 .. n - 1, NEW j \in 1 .. n - 1, t[i] = t[j] PROVE i = j
    BY <1>2 DEF IsInjective
  <2>1. i + 1 = j + 1
    BY <1>1, <1>3, <1>4
  <2> QED BY <2>1
<1>8. q[1] \notin Range(t)
  BY <1>1, <1>2, <1>3, <1>4, <1>6 DEF Range
<1>9. Range(t) \subseteq Range(q)
  BY <1>1, <1>2, <1>4 DEF Range
<1>10. ASSUME NEW x \in Range(q) PROVE x \in Range(t) \union {q[1]}
  <2>1. PICK i \in 1 .. n : x = q[i]
    BY <1>1 DEF Range
  <2>2. i # 1 => x = t[i - 1]
    BY <1>1, <1>5, <2>1
  <2> QED BY <1>2, <1>5, <2>1, <2>2 DEF Range
<1>11. q[1] \in S /\ q[1] \in Range(q)
  BY <1>1, <1>6, ElementOfSeq DEF n, Range
<1> QED BY <1>1, <1>7, <1>8, <1>9, <1>10, <1>11 DEF n, t

LEMMA DropFirstOnce ==
    ASSUME ListsInv, NEW s \in Ships, DropFirst(s)
    PROVE  /\ baselist' \in [Ships -> Seq(Stages)]
           /\ todeletelist' \in [Ships -> Seq(Stages)]
           /\ StagesOnce'
<1> DEFINE q == baselist[s]
<1>1. q \in Seq(Stages) /\ IsInjective(q) /\ Once(baselist, todeletelist)
  BY StagesApart DEF ListsInv, ListsTypeOK, Once
<1>2. q # <<>>
  BY EmptySequence DEF DropFirst
<1>3. Tail(q) \in Seq(Stages) /\ IsInjective(Tail(q)) /\ Range(Tail(q)) \subseteq Range(q)
  BY <1>1, <1>2, TailProperties
<1>4. baselist' = [baselist EXCEPT ![s] = Tail(q)] /\ todeletelist' = todeletelist
  BY DEF DropFirst
<1>5. /\ baselist' \in [Ships -> Seq(Stages)] /\ todeletelist' \in [Ships -> Seq(Stages)]
      /\ \A t \in Ships : baselist'[t] = IF t = s THEN Tail(q) ELSE baselist[t]
  BY <1>3, <1>4 DEF ListsInv, ListsTypeOK
<1>6. \A t \in Ships : IsInjective(baselist'[t]) /\ Range(baselist'[t]) \subseteq Range(baselist[t])
  BY <1>1, <1>3, <1>5 DEF Once
<1>7. Once(baselist', todeletelist')
  BY <1>1, <1>4, <1>6 DEF Once
<1> QED BY <1>5, <1>7, OnceMeans DEF StagesOnce

LEMMA DropFirstLinks ==
    ASSUME ListsInv, NEW s \in Ships, DropFirst(s)
    PROVE  /\ previousfunc' \in [Stages -> Stages \union {None}]
           /\ nextfunc' \in [Stages -> Stages \union {None}]
           /\ LinksMatch'
<1> DEFINE q == baselist[s]
           n == Len(q)
           first == q[1]
<1>1. /\ q \in Seq(Stages) /\ IsInjective(q) /\ Once(baselist, todeletelist)
      /\ DOMAIN q = 1 .. n /\ n \in Nat /\ n > 1 /\ q # <<>>
  BY StagesApart, RangeOf, EmptySequence DEF ListsInv, ListsTypeOK, Once, DropFirst
<1>2. /\ Tail(q) \in Seq(Stages) /\ Len(Tail(q)) = n - 1 /\ DOMAIN Tail(q) = 1 .. n - 1
      /\ \A i \in 1 .. n - 1 : Tail(q)[i] = q[i + 1]
      /\ Range(q) = Range(Tail(q)) \union {first}
  BY <1>1, TailProperties, LenProperties
<1>3. \A t \in Ships : baselist'[t] = IF t = s THEN Tail(q) ELSE baselist[t]
  BY DEF DropFirst, ListsInv, ListsTypeOK
<1>4. /\ \A t \in Ships : Linked(previousfunc, nextfunc, baselist[t])
      /\ \A y \in Stages \ Plans : previousfunc[y] = None /\ nextfunc[y] = None
  BY LinkedMeans DEF ListsInv
<1>5. ASSUME NEW y \in Stages
      PROVE  /\ previousfunc'[y] = IF y = first \/ nextfunc[first] = y THEN None ELSE previousfunc[y]
             /\ nextfunc'[y] = IF y = first \/ previousfunc[first] = y THEN None ELSE nextfunc[y]
  BY DEF DropFirst, PreviousWithout, NextWithout
<1>6. /\ previousfunc' \in [Stages -> Stages \union {None}]
      /\ nextfunc' \in [Stages -> Stages \union {None}]
  BY DEF DropFirst, PreviousWithout, NextWithout, ListsInv, ListsTypeOK
<1> HIDE DEF q, n, first
<1>7. \A i \in 1 .. n : /\ previousfunc[q[i]] = IF i = 1 THEN None ELSE q[i - 1]
                        /\ nextfunc[q[i]] = IF i = n THEN None ELSE q[i + 1]
  BY <1>1, <1>4 DEF Linked, q, n
<1>8. previousfunc[first] = None /\ nextfunc[first] = q[2]
  <2>1. 1 \in 1 .. n /\ 1 # n /\ 1 + 1 = 2
    BY <1>1
  <2> QED BY <1>7, <2>1 DEF first
<1>9. Linked(previousfunc', nextfunc', Tail(q))
  <2> SUFFICES ASSUME NEW i \in 1 .. n - 1
               PROVE  /\ previousfunc'[Tail(q)[i]] = IF i = 1 THEN None ELSE Tail(q)[i - 1]
                      /\ nextfunc'[Tail(q)[i]] = IF i = n - 1 THEN None ELSE Tail(q)[i + 1]
    BY <1>2 DEF Linked
  <2>1. /\ i + 1 \in 1 .. n /\ i + 1 # 1 /\ (i + 1) - 1 = i /\ (i = n - 1 <=> i + 1 = n)
        /\ 1 \in 1 .. n /\ 2 \in 1 .. n /\ (i = 1 <=> i + 1 = 2)
        /\ (i # 1 => i - 1 \in 1 .. n - 1 /\ (i - 1) + 1 = i)
        /\ (i # n - 1 => i + 1 \in 1 .. n - 1)
    BY <1>1
  <2>2. Tail(q)[i] = q[i + 1] /\ q[i + 1] \in Stages
    BY <1>1, <1>2, <2>1, ElementOfSeq DEF n
  <2>3. q[i + 1] # first /\ (q[i + 1] = q[2] <=> i = 1)
    BY <1>1, <2>1 DEF IsInjective, first
  <2>4. previousfunc'[q[i + 1]] = IF i = 1 THEN None ELSE q[i]
    BY <1>5, <1>7, <1>8, <2>1, <2>2, <2>3
  <2>5. nextfunc'[q[i + 1]] = nextfunc[q[i + 1]]
    BY <1>5, <1>8, <2>2, <2>3, NoStage
  <2>6. i # 1 => Tail(q)[i - 1] = q[i]
    BY <1>2, <2>1
  <2>7. i # n - 1 => Tail(q)[i + 1] = q[(i + 1) + 1]
    BY <1>2, <2>1
  <2> QED BY <1>7, <2>1, <2>2, <2>4, <2>5, <2>6, <2>7
<1>10. ASSUME NEW t \in Ships, t # s PROVE Linked(previousfunc', nextfunc', baselist[t])
  <2>1. Range(baselist[t]) \intersect Range(q) = {} /\ Range(baselist[t]) \subseteq Stages
    BY <1>1, <1>10, StagesApart DEF Once, q
  <2>2. first \in Range(q) /\ q[2] \in Range(q)
    BY <1>1 DEF Range, first
  <2>3. \A y \in Range(baselist[t]) :
            previousfunc'[y] = previousfunc[y] /\ nextfunc'[y] = nextfunc[y]
    BY <1>5, <1>8, <2>1, <2>2, NoStage
  <2>4. \A i \in DOMAIN baselist[t] : baselist[t][i] \in Range(baselist[t])
    BY DEF Range
  <2> QED BY <1>4, <2>3, <2>4 DEF Linked
<1>11. ASSUME NEW y \in Stages \ Plans' PROVE previousfunc'[y] = None /\ nextfunc'[y] = None
  <2>1. y \notin Plans \/ y = first
    BY <1>2, <1>3, <1>11 DEF Plans, q
  <2> QED BY <1>4, <1>5, <2>1
<1>12. \A t \in Ships : Linked(previousfunc', nextfunc', baselist'[t])
  BY <1>3, <1>9, <1>10
<1> QED BY <1>6, <1>11, <1>12 DEF LinksMatch, Linked

LEMMA DropFirstKeepsLists ==
    ASSUME ListsInv, NEW s \in Ships, DropFirst(s)
    PROVE  ListsInv'
BY DropFirstOnce, DropFirstLinks DEF ListsInv, ListsTypeOK

LEMMA CheckDeleteKeepsLists ==
    ASSUME ListsInv, NEW s \in Ships, CheckDelete(s)
    PROVE  ListsInv'
<1> DEFINE d == todeletelist[s]
           x == d[1]
<1>1. /\ d \in Seq(Stages) /\ IsInjective(d) /\ d # <<>> /\ Once(baselist, todeletelist)
      /\ todeletelist' = [todeletelist EXCEPT ![s] = Tail(d)] /\ baselist' = baselist
  BY StagesApart DEF ListsInv, ListsTypeOK, Once, CheckDelete
<1>2. /\ Tail(d) \in Seq(Stages) /\ IsInjective(Tail(d))
      /\ Range(Tail(d)) \subseteq Range(d) /\ x \in Range(d) /\ x \in Stages
  BY <1>1, TailProperties
<1>3. /\ baselist' \in [Ships -> Seq(Stages)] /\ todeletelist' \in [Ships -> Seq(Stages)]
      /\ \A t \in Ships : todeletelist'[t] = IF t = s THEN Tail(d) ELSE todeletelist[t]
  BY <1>1, <1>2 DEF ListsInv, ListsTypeOK
<1>4. \A t \in Ships : IsInjective(todeletelist'[t])
                       /\ Range(todeletelist'[t]) \subseteq Range(todeletelist[t])
  BY <1>1, <1>2, <1>3 DEF Once
<1>5. Once(baselist', todeletelist')
  BY <1>1, <1>4 DEF Once
<1>6. StagesOnce'
  BY <1>3, <1>5, OnceMeans DEF StagesOnce
\* A stage that was put aside is linked to nothing.
<1>7. previousfunc[x] = None /\ nextfunc[x] = None
  BY <1>2, StagesApart DEF ListsInv, LinksMatch
<1>8. previousfunc' = previousfunc /\ nextfunc' = nextfunc
  <2>1. ASSUME NEW y \in Stages
        PROVE  previousfunc'[y] = previousfunc[y] /\ nextfunc'[y] = nextfunc[y]
    BY <1>7, NoStage DEF CheckDelete, PreviousWithout, NextWithout
  <2>2. /\ previousfunc' = [y \in Stages |-> previousfunc'[y]]
        /\ nextfunc' = [y \in Stages |-> nextfunc'[y]]
    BY DEF CheckDelete, PreviousWithout, NextWithout
  <2>3. /\ previousfunc = [y \in Stages |-> previousfunc[y]]
        /\ nextfunc = [y \in Stages |-> nextfunc[y]]
    BY DEF ListsInv, ListsTypeOK
  <2> QED BY <2>1, <2>2, <2>3
<1>9. LinksMatch'
  BY <1>1, <1>8 DEF ListsInv, LinksMatch, Plans
<1> QED BY <1>3, <1>6, <1>8, <1>9 DEF ListsInv, ListsTypeOK

LEMMA UnchangedKeepsLists == ListsInv /\ UNCHANGED lists => ListsInv'
BY DEF lists, ListsInv, ListsTypeOK, StagesOnce, LinksMatch, Plans

----------------------------------------------------------------------------
(* What the actions are made of keeps the lists, and the types of what     *)
(* MFDs show and of where the computation of a plan is.                    *)

ViewTypeOK == view \in [Ships -> [Screens -> Nat \union {None}]]
CalcTypeOK == currcalcfunction \in [Ships -> Nat \union {-1}]
FaultTypeOK == fault \in {None, "no first stage", "no such stage", "no plan to inherit"}

PlanInv == ListsInv /\ ViewTypeOK /\ CalcTypeOK

LEMMA NewStagesProperties ==
    ASSUME NEW n \in Nat, NEW xs \in NewStages(n)
    PROVE  xs \in Seq(Free) /\ IsInjective(xs) /\ Len(xs) = n
BY DEF NewStages

LEMMA NoNewStages == <<>> \in Seq(Free) /\ IsInjective(<<>>)
BY EmptySequence

LEMMA FromTheStart ==
    ASSUME ListsInv, NEW s \in Ships
    PROVE  0 \in 0 .. Len(baselist[s]) /\ Len(baselist[s]) \in Nat
           /\ (baselist[s] # <<>> => Len(baselist[s]) > 0)
BY RangeOf, EmptySeq DEF ListsInv, ListsTypeOK

LEMMA InitFunctionsKeeps ==
    ASSUME PlanInv, NEW s \in Ships, InitFunctions(s)
    PROVE  PlanInv'
<1>1. ListsInv
  BY DEF PlanInv
<1>2. ListsInv'
  <2>1. PICK xs \in NewStages(1) : Replan(s, 0, xs)
    BY DEF InitFunctions
  <2>2. xs \in Seq(Free) /\ IsInjective(xs) /\ 0 \in 0 .. Len(baselist[s])
    BY <1>1, FromTheStart, NewStagesProperties
  <2> QED BY <1>1, <2>1, <2>2, ReplanKeepsLists
<1>3. ViewTypeOK'
  BY DEF InitFunctions, PlanInv, ViewTypeOK
<1>4. CalcTypeOK'
  BY DEF InitFunctions, PlanInv, CalcTypeOK
<1> QED BY <1>2, <1>3, <1>4 DEF PlanInv

LEMMA DropFirstKeeps ==
    ASSUME PlanInv, NEW s \in Ships, DropFirst(s)
    PROVE  ListsInv' /\ ViewTypeOK'
<1>1. ListsInv'
  BY DropFirstKeepsLists DEF PlanInv
<1>2. ViewTypeOK'
  <2>1. view \in [Ships -> [Screens -> Nat \union {None}]]
    BY DEF PlanInv, ViewTypeOK
  <2>2. ASSUME NEW v \in Nat \union {None}
        PROVE  (IF v \in {None, 0, 1} THEN v ELSE v - 1) \in Nat \union {None}
    OBVIOUS
  <2>3. \A p \in Screens : view[s][p] \in Nat \union {None}
    BY <2>1
  <2>4. [p \in Screens |-> IF view[s][p] \in {None, 0, 1} THEN view[s][p] ELSE view[s][p] - 1]
          \in [Screens -> Nat \union {None}]
    BY <2>2, <2>3
  <2> QED BY <2>1, <2>4 DEF DropFirst, ViewTypeOK
<1> QED BY <1>1, <1>2

LEMMA KeepKeeps ==
    ASSUME PlanInv, NEW s \in Ships, Keep(s) \/ UNCHANGED <<lists, view>>
    PROVE  ListsInv' /\ ViewTypeOK'
BY UnchangedKeepsLists DEF PlanInv, ViewTypeOK, Keep

LEMMA DoLowPriActionKeeps ==
    ASSUME PlanInv, FaultTypeOK, NEW s \in Ships, DoLowPriAction(s)
    PROVE  PlanInv' /\ FaultTypeOK'
<1>1. CASE UNCHANGED <<lists, view, currcalcfunction, fault>>
  BY <1>1, KeepKeeps DEF PlanInv, CalcTypeOK, FaultTypeOK
<1>2. CASE CheckDelete(s)
  <2>1. ListsInv'
    BY <1>2, CheckDeleteKeepsLists DEF PlanInv
  <2> QED BY <1>2, <2>1 DEF CheckDelete, PlanInv, ViewTypeOK, CalcTypeOK, FaultTypeOK
<1>3. CASE BeginPass(s)
  <2>1. ListsInv' /\ ViewTypeOK'
    BY <1>3, KeepKeeps, DropFirstKeeps DEF BeginPass
  <2> QED BY <1>3, <2>1 DEF BeginPass, PlanInv, CalcTypeOK, FaultTypeOK
<1>4. CASE BeginPassAnew(s)
  <2>1. ListsInv' /\ ViewTypeOK'
    BY <1>4, KeepKeeps DEF BeginPassAnew
  <2> QED BY <1>4, <2>1 DEF BeginPassAnew, PlanInv, CalcTypeOK, FaultTypeOK
<1>5. CASE ContinuePass(s) /\ ~(currcalcfunction[s] < 0)
  <2>1. ListsInv' /\ ViewTypeOK'
    BY <1>5, KeepKeeps DEF ContinuePass
  <2>2. currcalcfunction[s] \in Nat
    BY <1>5 DEF PlanInv, CalcTypeOK
  <2>3. CalcTypeOK'
    BY <1>5, <2>2 DEF ContinuePass, PlanInv, CalcTypeOK
  <2> QED BY <1>5, <2>1, <2>3 DEF ContinuePass, PlanInv, FaultTypeOK
<1> QED BY <1>1, <1>2, <1>3, <1>4, <1>5 DEF DoLowPriAction

----------------------------------------------------------------------------
(* Each action keeps the invariant.                                        *)

\* What is not about plans.
AroundInv ==
    /\ mapinit \in BOOLEAN
    /\ ships \in Seq(Ships)
    /\ current \in Ships \union {None}
    /\ choose \in BOOLEAN
    /\ initflag \in [Ships -> BOOLEAN]
    /\ mfd \in [Screens -> Ships \union {None}]
    /\ valid \subseteq Screens
    /\ m_ships \in [Ships -> (SUBSET Ships) \union {None}]
    /\ OpenAndListed

LEMMA InvMeans == Inv <=> PlanInv /\ FaultTypeOK /\ AroundInv
BY DEF Inv, TypeOK, PlanInv, ListsInv, ListsTypeOK, ViewTypeOK, CalcTypeOK, FaultTypeOK, AroundInv

LEMMA InvMeansPrimed == PlanInv' /\ FaultTypeOK' /\ AroundInv' => Inv'
BY DEF Inv, TypeOK, PlanInv, ListsInv, ListsTypeOK, ViewTypeOK, CalcTypeOK, FaultTypeOK, AroundInv

\* The background task goes from one ship of the list to the next.
LEMMA BackgroundKeeps ==
    ASSUME Inv, BackgroundAction
    PROVE  PlanInv' /\ current' \in Range(ships) \union {None}
<1>1. PlanInv /\ AroundInv
  BY InvMeans
<1>2. CASE ~mapinit \/ ships = <<>>
  <2>1. UNCHANGED <<lists, view, currcalcfunction, current>>
    BY <1>2 DEF BackgroundAction
  <2> QED BY <1>1, <2>1, UnchangedKeepsLists DEF PlanInv, ViewTypeOK, CalcTypeOK, AroundInv, OpenAndListed
<1>3. CASE ~(~mapinit \/ ships = <<>>)
  <2> DEFINE s == IF current = None THEN ships[1] ELSE current
             i == Position(ships, s)
  <2>1. /\ current' = IF i = Len(ships) THEN None ELSE ships[i + 1]
        /\ \/ BeginAnew(s)
           \/ (Keep(s) \/ DropFirst(s)) /\ UNCHANGED currcalcfunction
    BY <1>3 DEF BackgroundAction
  <2>2. /\ ships \in Seq(Ships) /\ Len(ships) \in Nat /\ Len(ships) > 0
        /\ DOMAIN ships = 1 .. Len(ships) /\ Range(ships) \subseteq Ships
    BY <1>1, <1>3, RangeOf, EmptySeq DEF AroundInv
  <2>3. s \in Range(ships)
    <3>1. 1 \in 1 .. Len(ships)
      BY <2>2
    <3> QED BY <1>1, <2>2, <3>1 DEF AroundInv, OpenAndListed, Range
  <2>4. i \in 1 .. Len(ships)
    BY <2>2, <2>3 DEF Position, Range
  <2>5. i # Len(ships) => i + 1 \in 1 .. Len(ships)
    BY <2>2, <2>4
  <2> HIDE DEF s, i
  <2>6. current' \in Range(ships) \union {None}
    BY <2>1, <2>2, <2>5 DEF Range
  <2>7. CASE BeginAnew(s)
    BY <1>1, <2>2, <2>3, <2>6, <2>7, InitFunctionsKeeps DEF BeginAnew
  <2>8. CASE (Keep(s) \/ DropFirst(s)) /\ UNCHANGED currcalcfunction
    <3>1. ListsInv' /\ ViewTypeOK'
      BY <1>1, <2>2, <2>3, <2>8, KeepKeeps, DropFirstKeeps
    <3> QED BY <1>1, <2>6, <2>8, <3>1 DEF PlanInv, CalcTypeOK
  <2> QED BY <2>1, <2>7, <2>8
<1> QED BY <1>2, <1>3

LEMMA NextActionKeeps ==
    ASSUME Inv, DoNextAction
    PROVE  PlanInv' /\ FaultTypeOK' /\ mapinit' \in BOOLEAN
<1>1. PlanInv /\ FaultTypeOK /\ AroundInv
  BY InvMeans
<1>2. CASE UNCHANGED <<lists, view, currcalcfunction, fault>> /\ mapinit' \in {mapinit, TRUE}
  BY <1>1, <1>2, UnchangedKeepsLists DEF PlanInv, ViewTypeOK, CalcTypeOK, FaultTypeOK, AroundInv
<1>3. CASE \E s \in Range(ships) : DoLowPriAction(s) /\ UNCHANGED mapinit
  <2>1. PICK s \in Range(ships) : DoLowPriAction(s) /\ UNCHANGED mapinit
    BY <1>3
  <2>2. s \in Ships
    BY <1>1, RangeOf DEF AroundInv
  <2> QED BY <1>1, <2>1, <2>2, DoLowPriActionKeeps DEF AroundInv
<1> QED BY <1>2, <1>3 DEF DoNextAction

LEMMA PostStepKeeps == Inv /\ PostStep => Inv'
<1> SUFFICES ASSUME Inv, PostStep PROVE Inv'
  OBVIOUS
<1>1. PlanInv /\ FaultTypeOK /\ AroundInv
  BY InvMeans
<1>2. choose' = ~choose /\ UNCHANGED <<ships, initflag, mfd, valid, m_ships>>
  BY DEF PostStep
<1>3. CASE BackgroundAction /\ UNCHANGED <<mapinit, fault>>
  <2>1. PlanInv' /\ current' \in Range(ships) \union {None}
    BY <1>3, BackgroundKeeps
  <2>2. Range(ships) \subseteq Ships
    BY <1>1, RangeOf DEF AroundInv
  <2>3. FaultTypeOK'
    BY <1>1, <1>3 DEF FaultTypeOK
  <2>4. AroundInv'
    BY <1>1, <1>2, <1>3, <2>1, <2>2 DEF AroundInv, OpenAndListed
  <2> QED BY <2>1, <2>3, <2>4, InvMeansPrimed
<1>4. CASE DoNextAction /\ UNCHANGED current
  <2>1. PlanInv' /\ FaultTypeOK' /\ mapinit' \in BOOLEAN
    BY <1>4, NextActionKeeps
  <2>2. AroundInv'
    BY <1>1, <1>2, <1>4, <2>1 DEF AroundInv, OpenAndListed
  <2> QED BY <2>1, <2>2, InvMeansPrimed
<1> QED BY <1>3, <1>4 DEF PostStep

LEMMA OpenKeeps == ASSUME NEW p \in Screens, NEW s \in Ships PROVE Inv /\ OpenMFD(p, s) => Inv'
<1> SUFFICES ASSUME Inv, OpenMFD(p, s) PROVE Inv'
  OBVIOUS
<1>1. PlanInv /\ FaultTypeOK /\ AroundInv /\ ListsInv
  BY InvMeans DEF PlanInv
<1>2. ListsInv' /\ CalcTypeOK'
  <2>1. CASE UNCHANGED <<lists, currcalcfunction>>
    BY <1>1, <2>1, UnchangedKeepsLists DEF PlanInv, CalcTypeOK
  <2>2. CASE /\ \E xs \in NewStages(1) : Replan(s, 0, xs)
             /\ currcalcfunction' = [currcalcfunction EXCEPT ![s] = -1]
    <3>1. PICK xs \in NewStages(1) : Replan(s, 0, xs)
      BY <2>2
    <3>2. xs \in Seq(Free) /\ IsInjective(xs) /\ 0 \in 0 .. Len(baselist[s])
      BY <1>1, FromTheStart, NewStagesProperties
    <3>3. ListsInv'
      BY <1>1, <3>1, <3>2, ReplanKeepsLists
    <3> QED BY <1>1, <2>2, <3>3 DEF PlanInv, CalcTypeOK
  <2> QED BY <2>1, <2>2 DEF OpenMFD
<1>3. ViewTypeOK' /\ FaultTypeOK'
  BY <1>1 DEF OpenMFD, PlanInv, ViewTypeOK, FaultTypeOK
<1>4. ships' \in Seq(Ships) /\ Range(ships) \subseteq Range(ships')
  <2>1. ships \in Seq(Ships) /\ <<s>> \in Seq(Ships)
    BY <1>1 DEF AroundInv
  <2>2. <<s>> \o ships \in Seq(Ships) /\ Range(ships) \subseteq Range(<<s>> \o ships)
    <3>1. <<s>> \o ships \in Seq(Ships)
      BY <2>1, ConcatProperties
    <3>2. Range(<<s>> \o ships) = Range(<<s>>) \union Range(ships)
      BY <2>1, ConcatRange
    <3> QED BY <3>1, <3>2
  <2> QED BY <2>1, <2>2 DEF OpenMFD
<1>5. AroundInv'
  <2>1. mfd' \in [Screens -> Ships \union {None}] /\ \A o \in valid : mfd'[o] # None
    BY <1>1, NoStage DEF OpenMFD, AroundInv, OpenAndListed
  <2> QED BY <1>1, <1>4, <2>1 DEF OpenMFD, AroundInv, OpenAndListed
<1> QED BY <1>2, <1>3, <1>5, InvMeansPrimed DEF PlanInv

LEMMA CloseKeeps == ASSUME NEW p \in Screens PROVE Inv /\ CloseMFD(p) => Inv'
<1> SUFFICES ASSUME Inv, CloseMFD(p) PROVE Inv'
  OBVIOUS
<1>1. PlanInv /\ FaultTypeOK /\ AroundInv
  BY InvMeans
<1>2. PlanInv' /\ FaultTypeOK'
  BY <1>1, UnchangedKeepsLists DEF CloseMFD, calc, PlanInv, ViewTypeOK, CalcTypeOK, FaultTypeOK
<1>3. AroundInv'
  BY <1>1 DEF CloseMFD, calc, steps, AroundInv, OpenAndListed
<1> QED BY <1>2, <1>3, InvMeansPrimed

ChoicesTypeOK == m_ships \in [Ships -> (SUBSET Ships) \union {None}]

LEMMA InitByBodyKeeps ==
    ASSUME Inv, NEW s \in Ships, InitByBody(s)
    PROVE  ChoicesTypeOK' /\ FaultTypeOK'
<1>1. ChoicesTypeOK /\ FaultTypeOK /\ Range(ships) \subseteq Ships
  BY InvMeans, RangeOf DEF AroundInv, ChoicesTypeOK
<1>2. CASE fault' = "no first stage" /\ UNCHANGED m_ships
  BY <1>1, <1>2 DEF ChoicesTypeOK, FaultTypeOK
<1>3. CASE /\ \E c \in SUBSET (Range(ships) \ {s}) : m_ships' = [m_ships EXCEPT ![s] = c]
           /\ UNCHANGED fault
  BY <1>1, <1>3 DEF ChoicesTypeOK, FaultTypeOK
<1> QED BY <1>2, <1>3 DEF InitByBody

\* The ship of an MFD, and what it may be made to show.
LEMMA ShipOfMFD ==
    ASSUME Inv, NEW p \in Screens, p \in valid \/ mfd[p] # None
    PROVE  /\ mfd[p] \in Ships
           /\ view[mfd[p]][p] \in Nat \union {None}
           /\ baselist[mfd[p]] \in Seq(Stages) /\ Len(baselist[mfd[p]]) \in Nat
           /\ \A v \in Nat \union {None} : Shows(mfd[p], p, v) => ViewTypeOK'
<1>1. mfd[p] \in Ships
  BY InvMeans DEF AroundInv, OpenAndListed
<1>2. view \in [Ships -> [Screens -> Nat \union {None}]] /\ baselist \in [Ships -> Seq(Stages)]
  BY DEF Inv, TypeOK
<1>3. baselist[mfd[p]] \in Seq(Stages) /\ Len(baselist[mfd[p]]) \in Nat
  BY <1>1, <1>2, LenProperties
<1>4. \A v \in Nat \union {None} : Shows(mfd[p], p, v) => ViewTypeOK'
  BY <1>1, <1>2 DEF Shows, ViewTypeOK
<1> QED BY <1>1, <1>2, <1>3, <1>4

LEMMA UpdateKeeps == ASSUME NEW p \in Screens PROVE Inv /\ Update(p) => Inv'
<1> SUFFICES ASSUME Inv, Update(p) PROVE Inv'
  OBVIOUS
<1> DEFINE s == mfd[p]
           n == Len(baselist[s])
<1>1. PlanInv /\ FaultTypeOK /\ AroundInv /\ ChoicesTypeOK
  BY InvMeans DEF AroundInv, ChoicesTypeOK
<1>2. mfd[p] # None /\ valid' = valid \union {p} /\ UNCHANGED <<steps, mfd>>
  BY DEF Update
<1>3. s \in Ships /\ n \in Nat /\ view[s][p] \in Nat \union {None}
  BY <1>2, ShipOfMFD
<1>4. CASE UpdateSettings(p)
  <2>1. UNCHANGED <<lists, view, calc>>
    BY <1>4 DEF UpdateSettings
  <2>2. PlanInv'
    BY <1>1, <2>1, UnchangedKeepsLists DEF PlanInv, ViewTypeOK, CalcTypeOK, calc
  <2>3. ChoicesTypeOK' /\ FaultTypeOK'
    BY <1>1, <1>3, <1>4, InitByBodyKeeps DEF UpdateSettings, ChoicesTypeOK, FaultTypeOK
  <2>4. AroundInv'
    BY <1>1, <1>2, <2>1, <2>3 DEF AroundInv, OpenAndListed, ChoicesTypeOK, steps, calc
  <2> QED BY <2>2, <2>3, <2>4, InvMeansPrimed
<1>5. CASE UpdateStage(p)
  <2>1. /\ initflag' = [initflag EXCEPT ![s] = TRUE] /\ UNCHANGED <<m_ships, fault>>
        /\ \/ n > 0 /\ view' = [view EXCEPT ![s][p] = IF @ > n THEN n ELSE @]
              /\ UNCHANGED <<lists, currcalcfunction>>
           \/ n = 0 /\ InitFunctions(s)
    BY <1>5 DEF UpdateStage
  <2> HIDE DEF s, n
  <2>2. PlanInv'
    <3>1. CASE InitFunctions(s)
      BY <1>1, <1>3, <3>1, InitFunctionsKeeps
    <3>2. CASE view' = [view EXCEPT ![s][p] = IF @ > n THEN n ELSE @]
               /\ UNCHANGED <<lists, currcalcfunction>>
      BY <1>1, <1>3, <3>2, UnchangedKeepsLists DEF PlanInv, ViewTypeOK, CalcTypeOK
    <3> QED BY <2>1, <3>1, <3>2
  <2>3. AroundInv' /\ FaultTypeOK'
    BY <1>1, <1>2, <2>1 DEF AroundInv, OpenAndListed, steps, FaultTypeOK
  <2> QED BY <2>2, <2>3, InvMeansPrimed
<1> QED BY <1>4, <1>5 DEF Update

LEMMA ForwardKeeps == ASSUME NEW p \in Screens PROVE Inv /\ Forward(p) => Inv'
<1> SUFFICES ASSUME Inv, Forward(p) PROVE Inv'
  OBVIOUS
<1> DEFINE s == mfd[p]
           v == view[s][p]
           n == Len(baselist[s])
<1>1. PlanInv /\ FaultTypeOK /\ AroundInv /\ ChoicesTypeOK /\ ListsInv
  BY InvMeans DEF AroundInv, ChoicesTypeOK, PlanInv
<1>2. p \in valid /\ UNCHANGED <<calc, steps, mfd, valid>>
  BY DEF Forward
<1>3. s \in Ships /\ n \in Nat /\ \A w \in Nat : Shows(s, p, w) => ViewTypeOK'
  BY <1>2, ShipOfMFD
<1>4. \/ n = 0 /\ InitByBody(s) /\ Shows(s, p, 0) /\ UNCHANGED lists
      \/ /\ \/ n > 0 /\ v \notin 1 .. n /\ Shows(s, p, 1) /\ UNCHANGED lists
            \/ v \in 1 .. n - 1 /\ Shows(s, p, v + 1) /\ UNCHANGED lists
            \/ v \in 1 .. n /\ ForwardAnew(s, p, v)
         /\ UNCHANGED <<m_ships, fault>>
  BY DEF Forward
<1> HIDE DEF s, v, n
<1>5. ChoicesTypeOK' /\ FaultTypeOK'
  BY <1>1, <1>3, <1>4, InitByBodyKeeps DEF ChoicesTypeOK, FaultTypeOK
<1>6. ListsInv' /\ ViewTypeOK'
  <2>1. CASE \E w \in {0, 1} : Shows(s, p, w) /\ UNCHANGED lists
    BY <1>1, <1>3, <2>1, UnchangedKeepsLists
  <2>2. CASE v \in 1 .. n - 1 /\ Shows(s, p, v + 1) /\ UNCHANGED lists
    <3>1. v + 1 \in Nat
      BY <1>3, <2>2
    <3> QED BY <1>1, <1>3, <2>2, <3>1, UnchangedKeepsLists
  <2>3. CASE v \in 1 .. n /\ ForwardAnew(s, p, v)
    <3>1. v \in 0 .. Len(baselist[s]) /\ v \in Nat /\ v + 1 \in Nat
      BY <1>3, <2>3 DEF n
    <3>2. CASE Replan(s, v, <<>>) /\ Shows(s, p, v)
      BY <1>1, <1>3, <3>1, <3>2, NoNewStages, ReplanKeepsLists
    <3>3. CASE (\E xs \in NewStages(1) : Replan(s, v, xs)) /\ Shows(s, p, v + 1)
      <4>1. PICK xs \in NewStages(1) : Replan(s, v, xs)
        BY <3>3
      <4> QED BY <1>1, <1>3, <3>1, <3>3, <4>1, NewStagesProperties, ReplanKeepsLists
    <3> QED BY <2>3, <3>2, <3>3 DEF ForwardAnew
  <2> QED BY <1>4, <2>1, <2>2, <2>3
<1>7. PlanInv'
  BY <1>1, <1>2, <1>6 DEF PlanInv, CalcTypeOK, calc
<1>8. AroundInv'
  BY <1>1, <1>2, <1>5 DEF AroundInv, OpenAndListed, ChoicesTypeOK, calc, steps
<1> QED BY <1>5, <1>7, <1>8, InvMeansPrimed

LEMMA BackKeeps == ASSUME NEW p \in Screens PROVE Inv /\ Back(p) => Inv'
<1> SUFFICES ASSUME Inv, Back(p) PROVE Inv'
  OBVIOUS
<1> DEFINE s == mfd[p]
           v == view[s][p]
           n == Len(baselist[s])
<1>1. PlanInv /\ FaultTypeOK /\ AroundInv /\ ChoicesTypeOK
  BY InvMeans DEF AroundInv, ChoicesTypeOK
<1>2. p \in valid /\ UNCHANGED <<lists, calc, steps, mfd, valid>>
  BY DEF Back
<1>3. s \in Ships /\ n \in Nat /\ \A w \in Nat : Shows(s, p, w) => ViewTypeOK'
  BY <1>2, ShipOfMFD
<1>4. \/ v = 1 /\ n > 0 /\ InitByBody(s) /\ Shows(s, p, 0)
      \/ /\ v # 1 \/ n = 0
         /\ Shows(s, p, IF v \in 1 .. n THEN v - 1 ELSE 1)
         /\ UNCHANGED <<m_ships, fault>>
  BY DEF Back
<1> HIDE DEF s, v, n
<1>5. ChoicesTypeOK' /\ FaultTypeOK'
  BY <1>1, <1>3, <1>4, InitByBodyKeeps DEF ChoicesTypeOK, FaultTypeOK
<1>6. ViewTypeOK'
  <2>1. (IF v \in 1 .. n THEN v - 1 ELSE 1) \in Nat
    BY <1>3
  <2> QED BY <1>3, <1>4, <2>1
<1>7. PlanInv'
  BY <1>1, <1>2, <1>6, UnchangedKeepsLists DEF PlanInv, CalcTypeOK, calc
<1>8. AroundInv'
  BY <1>1, <1>2, <1>5 DEF AroundInv, OpenAndListed, ChoicesTypeOK, calc, steps
<1> QED BY <1>5, <1>7, <1>8, InvMeansPrimed

LEMMA InheritKeeps == ASSUME NEW p \in Screens PROVE Inv /\ Inherit(p) => Inv'
<1> SUFFICES ASSUME Inv, Inherit(p) PROVE Inv'
  OBVIOUS
<1> DEFINE s == mfd[p]
<1>1. PlanInv /\ FaultTypeOK /\ AroundInv /\ ListsInv
  BY InvMeans DEF PlanInv
<1>2. s \in Ships /\ p \in valid
  BY ShipOfMFD DEF Inherit
<1>3. PICK t \in m_ships[s] :
        \/ Crash("no plan to inherit")
        \/ /\ baselist[t] # <<>>
           /\ \/ Replan(s, 0, <<>>) /\ UNCHANGED currcalcfunction
              \/ /\ \E xs \in NewStages(Len(baselist[t])) : Replan(s, 0, xs)
                 /\ currcalcfunction' = [currcalcfunction EXCEPT ![s] = -1]
           /\ UNCHANGED <<initflag, steps, mfds, fault>>
  BY DEF Inherit
<1>4. t \in Ships
  BY <1>1, <1>2 DEF AroundInv, Inherit
<1> HIDE DEF s
<1>5. CASE Crash("no plan to inherit")
  <2>1. PlanInv' /\ FaultTypeOK'
    BY <1>1, <1>5, UnchangedKeepsLists
       DEF Crash, calc, mfds, PlanInv, ViewTypeOK, CalcTypeOK, FaultTypeOK
  <2>2. AroundInv'
    BY <1>1, <1>5 DEF Crash, calc, steps, mfds, AroundInv, OpenAndListed
  <2> QED BY <2>1, <2>2, InvMeansPrimed
<1>6. CASE ~Crash("no plan to inherit")
  <2>1. UNCHANGED <<initflag, steps, mfds, fault>>
    BY <1>3, <1>6
  <2>2. ListsInv' /\ CalcTypeOK'
    <3>1. CASE Replan(s, 0, <<>>) /\ UNCHANGED currcalcfunction
      <4>1. ListsInv'
        BY <1>1, <1>2, <3>1, FromTheStart, NoNewStages, ReplanKeepsLists
      <4> QED BY <1>1, <3>1, <4>1 DEF PlanInv, CalcTypeOK
    <3>2. CASE /\ \E xs \in NewStages(Len(baselist[t])) : Replan(s, 0, xs)
               /\ currcalcfunction' = [currcalcfunction EXCEPT ![s] = -1]
      <4>1. PICK xs \in NewStages(Len(baselist[t])) : Replan(s, 0, xs)
        BY <3>2
      <4>2. xs \in Seq(Free) /\ IsInjective(xs) /\ 0 \in 0 .. Len(baselist[s])
        BY <1>1, <1>2, <1>4, FromTheStart, NewStagesProperties
      <4>3. ListsInv'
        BY <1>1, <1>2, <4>1, <4>2, ReplanKeepsLists
      <4> QED BY <1>1, <3>2, <4>3 DEF PlanInv, CalcTypeOK
    <3> QED BY <1>3, <1>6, <3>1, <3>2
  <2>3. PlanInv' /\ FaultTypeOK'
    BY <1>1, <2>1, <2>2 DEF mfds, PlanInv, ViewTypeOK, FaultTypeOK
  <2>4. AroundInv'
    BY <1>1, <2>1 DEF steps, mfds, AroundInv, OpenAndListed
  <2> QED BY <2>3, <2>4, InvMeansPrimed
<1> QED BY <1>5, <1>6

LEMMA OptimiseKeeps == ASSUME NEW p \in Screens PROVE Inv /\ Optimise(p) => Inv'
<1> SUFFICES ASSUME Inv, Optimise(p) PROVE Inv'
  OBVIOUS
<1>1. PlanInv /\ FaultTypeOK /\ AroundInv
  BY InvMeans
<1>2. p \in valid /\ DoLowPriAction(mfd[p]) /\ UNCHANGED <<initflag, steps, mfd, valid, m_ships>>
  BY DEF Optimise
<1>3. PlanInv' /\ FaultTypeOK'
  BY <1>1, <1>2, ShipOfMFD, DoLowPriActionKeeps
<1>4. AroundInv'
  BY <1>1, <1>2 DEF steps, AroundInv, OpenAndListed
<1> QED BY <1>3, <1>4, InvMeansPrimed

\* The plans that are restored.
LEMMA BoundedAreSequences ==
    ASSUME NEW S, NEW n \in Nat
    PROVE  BoundedSeq(S, n) \subseteq Seq(S)
BY DEF BoundedSeq, SeqOf

LEMMA InitInv == Init => Inv
<1> SUFFICES ASSUME Init PROVE Inv
  OBVIOUS
<1>1. ships \in Seq(Ships)
  <2>1. Cardinality(Ships) \in Nat
    BY StagesAssumption, FS_CardinalityType
  <2> QED BY <2>1, BoundedAreSequences DEF Init
<1>2. \A s \in Ships : baselist[s] \in Seq(Stages) /\ IsInjective(baselist[s])
  <2>1. baselist \in [Ships -> {xs \in BoundedSeq(Stages, MaxRestored) : IsInjective(xs)}]
    BY DEF Init
  <2>2. MaxRestored \in Nat
    BY StagesAssumption
  <2> QED BY <2>1, <2>2, BoundedAreSequences
<1>3. baselist \in [Ships -> Seq(Stages)] /\ todeletelist \in [Ships -> Seq(Stages)]
      /\ \A s \in Ships : todeletelist[s] = <<>>
  <2>1. baselist = [s \in Ships |-> baselist[s]] /\ todeletelist = [s \in Ships |-> <<>>]
    BY DEF Init
  <2> QED BY <1>2, <2>1, EmptySequence
<1>4. Once(baselist, todeletelist)
  BY <1>2, <1>3, EmptySequence DEF Init, Once
<1>5. ASSUME NEW s \in Ships, NEW i \in DOMAIN baselist[s]
      PROVE  /\ baselist[s][i] \in Stages \intersect Plans
             /\ previousfunc[baselist[s][i]] = IF i = 1 THEN None ELSE baselist[s][i - 1]
             /\ nextfunc[baselist[s][i]] = IF i = Len(baselist[s]) THEN None ELSE baselist[s][i + 1]
  <2> DEFINE y == baselist[s][i]
  <2>1. y \in Range(baselist[s])
    BY DEF Range
  <2>2. y \in Stages \intersect Plans
    BY <1>2, <2>1, RangeOf DEF Plans
  <2>3. \A t \in Ships : y \in Range(baselist[t]) => t = s
    BY <1>4, <2>1 DEF Once
  <2>4. (CHOOSE t \in Ships : y \in Range(baselist[t])) = s
    BY <2>1, <2>3
  <2>5. previousfunc[y] = Before(baselist[s], y) /\ nextfunc[y] = Behind(baselist[s], y)
    BY <2>2, <2>4 DEF Init
  <2> QED BY <1>2, <2>2, <2>5, Neighbours
<1>6. ASSUME NEW y \in Stages \ Plans PROVE previousfunc[y] = None /\ nextfunc[y] = None
  BY DEF Init
<1>7. ASSUME NEW y \in Stages
      PROVE  previousfunc[y] \in Stages \union {None} /\ nextfunc[y] \in Stages \union {None}
  <2>1. CASE y \in Plans
    <3>1. PICK s \in Ships : y \in Range(baselist[s])
      BY <2>1 DEF Plans
    <3> DEFINE n == Len(baselist[s])
    <3>2. /\ n \in Nat /\ DOMAIN baselist[s] = 1 .. n
          /\ \A j \in 1 .. n : baselist[s][j] \in Stages
      BY <1>2, RangeOf, ElementOfSeq
    <3> HIDE DEF n
    <3>3. PICK i \in 1 .. n : y = baselist[s][i]
      BY <3>1, <3>2 DEF Range
    <3>4. (i # 1 => i - 1 \in 1 .. n) /\ (i # n => i + 1 \in 1 .. n)
      BY <3>2
    <3>5. /\ previousfunc[y] = IF i = 1 THEN None ELSE baselist[s][i - 1]
          /\ nextfunc[y] = IF i = n THEN None ELSE baselist[s][i + 1]
      BY <1>5, <3>2, <3>3 DEF n
    <3> QED BY <3>2, <3>4, <3>5
  <2> QED BY <1>6, <2>1
<1>8. /\ previousfunc \in [Stages -> Stages \union {None}]
      /\ nextfunc \in [Stages -> Stages \union {None}]
  <2>1. /\ previousfunc = [y \in Stages |-> previousfunc[y]]
        /\ nextfunc = [y \in Stages |-> nextfunc[y]]
    BY DEF Init
  <2> QED BY <1>7, <2>1
<1>9. ListsInv
  <2>1. StagesOnce
    BY <1>3, <1>4, OnceMeans DEF StagesOnce
  <2>2. LinksMatch
    BY <1>5, <1>6 DEF LinksMatch
  <2> QED BY <1>3, <1>8, <2>1, <2>2 DEF ListsInv, ListsTypeOK
<1>10. ViewTypeOK /\ CalcTypeOK /\ FaultTypeOK /\ AroundInv
  BY <1>1 DEF Init, ViewTypeOK, CalcTypeOK, FaultTypeOK, AroundInv, OpenAndListed
<1> QED BY <1>9, <1>10, InvMeans DEF PlanInv

LEMMA NextInv == Inv /\ [Next]_vars => Inv'
<1>1. Inv /\ UNCHANGED vars => Inv'
  <2> SUFFICES ASSUME Inv, UNCHANGED vars PROVE Inv'
    OBVIOUS
  <2>1. PlanInv' /\ FaultTypeOK'
    BY InvMeans, UnchangedKeepsLists
       DEF vars, calc, mfds, PlanInv, ViewTypeOK, CalcTypeOK, FaultTypeOK
  <2>2. AroundInv'
    BY InvMeans DEF vars, calc, steps, mfds, AroundInv, OpenAndListed
  <2> QED BY <2>1, <2>2, InvMeansPrimed
<1> QED BY <1>1, PostStepKeeps, OpenKeeps, CloseKeeps, UpdateKeeps, ForwardKeeps, BackKeeps,
           InheritKeeps, OptimiseKeeps DEF Next

LEMMA Invariance == Spec => []Inv
BY InitInv, NextInv, PTL DEF Spec

----------------------------------------------------------------------------
(* The theorems.                                                           *)

\* Every variable of the plans and of the MFDs stays in its type.
THEOREM TypeCorrect == Spec => []TypeOK
BY Invariance, PTL DEF Inv

\* checkdelete and the background task delete a stage once, and never one that
\* a plan still has.
THEOREM StagesDeletedOnce == Spec => []StagesOnce
BY Invariance, PTL DEF Inv

\* Whatever is put aside, deleted or replaced, the stages of a plan lead to
\* their neighbours and the others to nothing.
THEOREM LinksFollowPlans == Spec => []LinksMatch
BY Invariance, PTL DEF Inv

----------------------------------------------------------------------------
(* What an MFD shows.                                                      *)

\* The MFD at p goes on showing the stage of s that it shows, if s still has it.
Follows(s, p) ==
    Shown(s, p) # None /\ Shown(s, p) \in Range(baselist'[s]) => Shown(s, p)' = Shown(s, p)

LEMMA ShownMeans ==
    ASSUME ListsInv, NEW s \in Ships, NEW p \in Screens, Shown(s, p) # None
    PROVE  /\ view[s][p] \in 1 .. Len(baselist[s])
           /\ Shown(s, p) = baselist[s][view[s][p]]
           /\ Len(baselist[s]) \in Nat /\ DOMAIN baselist[s] = 1 .. Len(baselist[s])
BY RangeOf DEF Shown, ListsInv, ListsTypeOK

LEMMA SamePlanFollows ==
    ASSUME NEW s \in Ships, NEW p \in Screens, baselist'[s] = baselist[s],
           view'[s][p] = view[s][p] \/ view[s][p] \notin DOMAIN baselist[s]
    PROVE  Follows(s, p)
BY DEF Follows, Shown

\* What is kept of a plan keeps its place.
LEMMA ReplanFollows ==
    ASSUME ListsInv, NEW s \in Ships, NEW k \in 0 .. Len(baselist[s]),
           NEW xs \in Seq(Free), IsInjective(xs), Replan(s, k, xs),
           NEW t \in Ships, NEW p \in Screens, view'[t][p] = view[t][p] \/ (t = s /\ k = 0)
    PROVE  Follows(t, p)
<1>1. Replanned(s, k, xs)
  BY ReplanLists
<1>2. CASE t # s
  <2>1. baselist'[t] = baselist[t]
    BY <1>1, <1>2 DEF Replanned
  <2> QED BY <1>2, <2>1, SamePlanFollows
<1>3. CASE t = s
  <2> SUFFICES ASSUME Shown(s, p) # None, Shown(s, p) \in Range(baselist'[s])
               PROVE  Shown(s, p)' = Shown(s, p)
    BY <1>3 DEF Follows
  <2> DEFINE q == baselist[s]
             n == Len(q)
             v == view[s][p]
             C == Range(SubSeq(q, k + 1, n))
             plan == baselist'[s]
  <2>1. v \in 1 .. n /\ Shown(s, p) = q[v] /\ n \in Nat
    BY ShownMeans
  <2>2. \A x : x \in C <=> \E i \in k + 1 .. n : x = q[i]
    BY <1>1 DEF Replanned
  <2>3. Range(plan) \intersect C = {}
    BY <1>1 DEF Replanned
  <2>4. plan \in Seq(Stages) /\ Len(plan) = k + Len(xs) /\ \A i \in 1 .. k : plan[i] = q[i]
    BY <1>1 DEF Replanned
  <2>5. Len(xs) \in Nat /\ DOMAIN plan = 1 .. k + Len(xs)
    BY <2>4, LenProperties
  <2> HIDE DEF q, n, C, plan, v
  <2>6. v \notin k + 1 .. n
    BY <2>1, <2>2, <2>3 DEF plan
  <2>7. v \in 1 .. k /\ v \in 1 .. k + Len(xs) /\ k # 0
    BY <2>1, <2>5, <2>6
  <2>8. view'[s][p] = v
    BY <1>3, <2>7 DEF v
  <2> QED BY <2>1, <2>4, <2>5, <2>7, <2>8 DEF Shown, plan
<1> QED BY <1>2, <1>3

LEMMA InitFunctionsFollow ==
    ASSUME PlanInv, NEW s \in Ships, InitFunctions(s), NEW t \in Ships, NEW p \in Screens
    PROVE  Follows(t, p)
<1>1. PICK xs \in NewStages(1) : Replan(s, 0, xs)
  BY DEF InitFunctions
<1>2. xs \in Seq(Free) /\ IsInjective(xs) /\ 0 \in 0 .. Len(baselist[s]) /\ ListsInv
  BY FromTheStart, NewStagesProperties DEF PlanInv
<1>3. t # s => view'[t][p] = view[t][p]
  BY DEF InitFunctions, PlanInv, ViewTypeOK
<1> QED BY <1>1, <1>2, <1>3, ReplanFollows

\* downshift moves what is shown as far as the plan has moved.
LEMMA DropFirstFollows ==
    ASSUME PlanInv, NEW s \in Ships, DropFirst(s), NEW t \in Ships, NEW p \in Screens
    PROVE  Follows(t, p)
<1>1. ListsInv /\ view \in [Ships -> [Screens -> Nat \union {None}]]
  BY DEF PlanInv, ViewTypeOK
<1>2. /\ \A u \in Ships : baselist'[u] = IF u = s THEN Tail(baselist[s]) ELSE baselist[u]
      /\ \A u \in Ships : u # s => view'[u] = view[u]
      /\ view'[s][p] = IF view[s][p] \in {None, 0, 1} THEN view[s][p] ELSE view[s][p] - 1
  BY <1>1 DEF DropFirst, ListsInv, ListsTypeOK
<1>3. CASE t # s
  BY <1>2, <1>3, SamePlanFollows
<1>4. CASE t = s
  <2> SUFFICES ASSUME Shown(s, p) # None, Shown(s, p) \in Range(baselist'[s])
               PROVE  Shown(s, p)' = Shown(s, p)
    BY <1>4 DEF Follows
  <2> DEFINE q == baselist[s]
             n == Len(q)
             v == view[s][p]
  <2>1. v \in 1 .. n /\ Shown(s, p) = q[v] /\ n \in Nat
    BY <1>1, ShownMeans
  <2>2. q \in Seq(Stages) /\ IsInjective(q) /\ q # <<>>
    BY <1>1, StagesApart, EmptySequence DEF Once, DropFirst, ListsInv, ListsTypeOK
  <2>3. /\ q[1] \notin Range(Tail(q)) /\ DOMAIN Tail(q) = 1 .. n - 1
        /\ \A i \in 1 .. n - 1 : Tail(q)[i] = q[i + 1]
    BY <2>2, TailProperties, LenProperties
  <2> HIDE DEF q, n, v
  <2>4. v # 1
    BY <1>2, <2>1, <2>3 DEF q
  <2>5. v \notin {None, 0, 1} /\ v - 1 \in 1 .. n - 1 /\ (v - 1) + 1 = v
    BY <2>1, <2>4, NoStage
  <2>6. view'[s][p] = v - 1 /\ baselist'[s] = Tail(q)
    BY <1>2, <2>5 DEF v, q
  <2> QED BY <2>1, <2>3, <2>5, <2>6 DEF Shown
<1> QED BY <1>3, <1>4

LEMMA DoLowPriActionFollows ==
    ASSUME PlanInv, NEW s \in Ships, DoLowPriAction(s), NEW t \in Ships, NEW p \in Screens
    PROVE  Follows(t, p)
<1>1. CASE UNCHANGED <<baselist, view>>
  BY <1>1, SamePlanFollows
<1>2. CASE DropFirst(s)
  BY <1>2, DropFirstFollows
<1> QED BY <1>1, <1>2
        DEF DoLowPriAction, CheckDelete, BeginPass, BeginPassAnew, ContinuePass, Keep, lists

LEMMA PostStepFollows ==
    ASSUME Inv, PostStep, NEW t \in Ships, NEW p \in Screens
    PROVE  Follows(t, p)
<1>1. PlanInv /\ AroundInv
  BY InvMeans
<1>2. CASE UNCHANGED <<baselist, view>>
  BY <1>2, SamePlanFollows
<1>3. CASE \E s \in Ships : InitFunctions(s) \/ DropFirst(s) \/ DoLowPriAction(s)
  BY <1>1, <1>3, InitFunctionsFollow, DropFirstFollows, DoLowPriActionFollows
<1>4. CASE BackgroundAction
  <2>1. CASE ~mapinit \/ ships = <<>>
    BY <1>2, <1>4, <2>1 DEF BackgroundAction, lists
  <2>2. CASE ~(~mapinit \/ ships = <<>>)
    <3> DEFINE s == IF current = None THEN ships[1] ELSE current
    <3>1. BeginAnew(s) \/ Keep(s) \/ DropFirst(s)
      BY <1>4, <2>2 DEF BackgroundAction
    <3>2. s \in Ships
      <4>1. ships \in Seq(Ships) /\ current \in Ships \union {None}
        BY <1>1 DEF AroundInv
      <4>2. 1 \in 1 .. Len(ships)
        BY <2>2, <4>1, EmptySeq
      <4> QED BY <4>1, <4>2, ElementOfSeq
    <3> HIDE DEF s
    <3> QED BY <1>2, <1>3, <3>1, <3>2 DEF BeginAnew, Keep, lists
  <2> QED BY <2>1, <2>2
<1>5. CASE DoNextAction
  <2>1. Range(ships) \subseteq Ships
    BY <1>1, RangeOf DEF AroundInv
  <2> QED BY <1>2, <1>3, <1>5, <2>1 DEF DoNextAction, lists
<1> QED BY <1>4, <1>5 DEF PostStep

LEMMA OpenFollows ==
    ASSUME Inv, NEW o \in Screens, NEW s \in Ships, OpenMFD(o, s), NEW t \in Ships, NEW p \in Screens
    PROVE  Follows(t, p)
<1>1. ListsInv /\ view \in [Ships -> [Screens -> Nat \union {None}]]
  BY InvMeans DEF PlanInv, ViewTypeOK
<1>2. view'[t][p] = view[t][p] \/ view[t][p] = None
  BY <1>1 DEF OpenMFD
<1>3. view[t][p] = None => Follows(t, p)
  <2>1. view[t][p] = None => view[t][p] \notin DOMAIN baselist[t]
    <3>1. DOMAIN baselist[t] = 1 .. Len(baselist[t]) /\ Len(baselist[t]) \in Nat
      BY <1>1, RangeOf DEF ListsInv, ListsTypeOK
    <3> QED BY <3>1, NoStage
  <2> QED BY <2>1 DEF Follows, Shown
<1>4. CASE UNCHANGED lists
  BY <1>2, <1>3, <1>4, SamePlanFollows DEF lists
<1>5. CASE \E xs \in NewStages(1) : Replan(s, 0, xs)
  <2>1. PICK xs \in NewStages(1) : Replan(s, 0, xs)
    BY <1>5
  <2>2. xs \in Seq(Free) /\ IsInjective(xs) /\ 0 \in 0 .. Len(baselist[s])
    BY <1>1, FromTheStart, NewStagesProperties
  <2> QED BY <1>1, <1>2, <1>3, <2>1, <2>2, ReplanFollows
<1> QED BY <1>4, <1>5 DEF OpenMFD

LEMMA UpdateFollows ==
    ASSUME Inv, NEW o \in Screens, Update(o), NEW t \in Ships, NEW p \in Screens
    PROVE  Follows(t, p)
<1> DEFINE s == mfd[o]
           n == Len(baselist[s])
<1>1. PlanInv /\ ListsInv /\ view \in [Ships -> [Screens -> Nat \union {None}]]
  BY InvMeans DEF PlanInv, ViewTypeOK
<1>2. s \in Ships /\ n \in Nat /\ DOMAIN baselist[s] = 1 .. n
  BY ShipOfMFD, RangeOf DEF Update
<1>3. CASE UNCHANGED <<lists, view>>
  BY <1>3, SamePlanFollows DEF lists
<1>4. CASE InitFunctions(s)
  BY <1>1, <1>2, <1>4, InitFunctionsFollow
<1>5. CASE /\ view' = [view EXCEPT ![s][o] = IF @ > n THEN n ELSE @]
           /\ UNCHANGED lists
  <2>1. view'[t][p] = view[t][p] \/ view[t][p] \notin DOMAIN baselist[t]
    <3>1. CASE t = s /\ p = o
      <4>1. view'[s][o] = IF view[s][o] > n THEN n ELSE view[s][o]
        BY <1>1, <1>2, <1>5
      <4>2. view[s][o] \in 1 .. n => ~(view[s][o] > n)
        BY <1>2
      <4> HIDE DEF s, n
      <4> QED BY <1>2, <3>1, <4>1, <4>2
    <3>2. CASE ~(t = s /\ p = o)
      BY <1>1, <1>5, <3>2
    <3> QED BY <3>1, <3>2
  <2> QED BY <1>5, <2>1, SamePlanFollows DEF lists
<1> QED BY <1>3, <1>4, <1>5 DEF Update, UpdateSettings, UpdateStage

\* The buttons of one MFD leave alone what the others show.
LEMMA ButtonsFollow ==
    ASSUME Inv, NEW o \in Screens, Forward(o) \/ Back(o),
           NEW t \in Ships, NEW p \in Screens, p # o
    PROVE  Follows(t, p)
<1> DEFINE s == mfd[o]
           v == view[s][o]
           n == Len(baselist[s])
<1>1. ListsInv /\ view \in [Ships -> [Screens -> Nat \union {None}]]
  BY InvMeans DEF PlanInv, ViewTypeOK
<1>2. s \in Ships /\ n \in Nat
  BY ShipOfMFD DEF Forward, Back
<1>3. ASSUME NEW w, Shows(s, o, w) PROVE view'[t][p] = view[t][p]
  BY <1>1, <1>2, <1>3 DEF Shows
<1>4. CASE UNCHANGED lists /\ \E w : Shows(s, o, w)
  BY <1>3, <1>4, SamePlanFollows DEF lists
<1>5. CASE v \in 1 .. n /\ ForwardAnew(s, o, v)
  <2>1. v \in 0 .. Len(baselist[s])
    BY <1>2, <1>5
  <2>2. CASE Replan(s, v, <<>>) /\ Shows(s, o, v)
    BY <1>1, <1>2, <1>3, <2>1, <2>2, NoNewStages, ReplanFollows
  <2>3. CASE (\E xs \in NewStages(1) : Replan(s, v, xs)) /\ Shows(s, o, v + 1)
    <3>1. PICK xs \in NewStages(1) : Replan(s, v, xs)
      BY <2>3
    <3>2. xs \in Seq(Free) /\ IsInjective(xs)
      BY <3>1, NewStagesProperties
    <3>3. view'[t][p] = view[t][p]
      BY <1>3, <2>3
    <3> QED BY <1>1, <1>2, <2>1, <3>1, <3>2, <3>3, ReplanFollows
  <2> QED BY <1>5, <2>2, <2>3 DEF ForwardAnew
<1> HIDE DEF s, v, n
<1>6. CASE Forward(o)
  BY <1>4, <1>5, <1>6 DEF Forward, s, v, n
<1>7. CASE Back(o)
  BY <1>4, <1>7 DEF Back, s, v, n
<1> QED BY <1>6, <1>7

LEMMA InheritFollows ==
    ASSUME Inv, NEW o \in Screens, Inherit(o), NEW t \in Ships, NEW p \in Screens
    PROVE  Follows(t, p)
<1> DEFINE s == mfd[o]
<1>1. ListsInv /\ AroundInv
  BY InvMeans DEF PlanInv
<1>2. s \in Ships /\ UNCHANGED view
  BY ShipOfMFD DEF Inherit, Crash, mfds
<1>3. CASE UNCHANGED lists
  BY <1>2, <1>3, SamePlanFollows DEF lists
<1>4. CASE Replan(s, 0, <<>>)
  BY <1>1, <1>2, <1>4, FromTheStart, NoNewStages, ReplanFollows
<1>5. ASSUME NEW u \in Ships, NEW xs \in NewStages(Len(baselist[u])), Replan(s, 0, xs)
      PROVE  Follows(t, p)
  <2>1. xs \in Seq(Free) /\ IsInjective(xs) /\ 0 \in 0 .. Len(baselist[s])
    BY <1>1, <1>2, FromTheStart, NewStagesProperties
  <2> QED BY <1>1, <1>2, <1>5, <2>1, ReplanFollows
<1>6. m_ships[s] \subseteq Ships
  BY <1>1, <1>2 DEF AroundInv, Inherit
<1> QED BY <1>3, <1>4, <1>5, <1>6 DEF Inherit, Crash

\* Stages are deleted, put aside and made again, by the background task, by the
\* computation and by other MFDs: an MFD whose own buttons nobody pushes goes on
\* showing the stage it shows for as long as there is one.
THEOREM ShownStageStays == Spec => ViewsFollow
<1>1. ASSUME Inv, Next, NEW s \in Ships, NEW p \in Screens
      PROVE  Follows(s, p) \/ Forward(p) \/ Back(p)
  <2>1. CASE PostStep
    BY <1>1, <2>1, PostStepFollows
  <2>2. ASSUME NEW o \in Screens, (\E u \in Ships : OpenMFD(o, u)) \/ Update(o) \/ Inherit(o)
        PROVE  Follows(s, p)
    BY <1>1, <2>2, OpenFollows, UpdateFollows, InheritFollows
  <2>3. ASSUME NEW o \in Screens, CloseMFD(o) PROVE Follows(s, p)
    BY <2>3, SamePlanFollows DEF CloseMFD, lists
  <2>4. ASSUME NEW o \in Screens, Optimise(o) PROVE Follows(s, p)
    BY <1>1, <2>4, InvMeans, ShipOfMFD, DoLowPriActionFollows DEF Optimise
  <2>5. ASSUME NEW o \in Screens, Forward(o) \/ Back(o) PROVE Follows(s, p) \/ Forward(p) \/ Back(p)
    BY <1>1, <2>5, ButtonsFollow
  <2> QED BY <1>1, <2>1, <2>2, <2>3, <2>4, <2>5 DEF Next
<1>2. Inv /\ [Next]_vars =>
        [\A s \in Ships, p \in Screens :
            Shown(s, p) # None /\ Shown(s, p) \in Range(baselist'[s])
                => Shown(s, p)' = Shown(s, p) \/ Forward(p) \/ Back(p)]_vars
  BY <1>1 DEF Follows
<1> QED BY <1>2, Invariance, PTL DEF Spec, ViewsFollow
=============================================================================
