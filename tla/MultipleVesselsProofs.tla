------------------------ MODULE MultipleVesselsProofs ------------------------
(***************************************************************************)
(* Theorems about the registry of MFDData objects, for any number of       *)
(* vessels, objects and MFDs.                                              *)
(***************************************************************************)
EXTENDS MultipleVessels, SequenceTheorems, TLAPS

----------------------------------------------------------------------------
(* Lists of pointers: sequences without repetition.                         *)

\* Removing a position from such a sequence removes its element, and only it.
LEMMA RemoveAtProperties ==
    ASSUME NEW S, NEW s \in Seq(S), IsInjective(s), NEW i \in DOMAIN s
    PROVE  /\ RemoveAt(s, i) \in Seq(S)
           /\ IsInjective(RemoveAt(s, i))
           /\ Range(RemoveAt(s, i)) = Range(s) \ {s[i]}
<1> DEFINE n == Len(s)
           l == SubSeq(s, 1, i - 1)
           r == SubSeq(s, i + 1, n)
           t == RemoveAt(s, i)
<1>1. n \in Nat /\ DOMAIN s = 1 .. n /\ i \in 1 .. n /\ \A k \in 1 .. n : s[k] \in S
  BY LenProperties
<1>2. l \in Seq(S) /\ Len(l) = i - 1 /\ \A k \in 1 .. i - 1 : l[k] = s[k]
  BY <1>1
<1>3. r \in Seq(S) /\ Len(r) = n - i
  BY <1>1
<1>4. \A k \in 1 .. n - i : r[k] = s[i + k]
  BY <1>1
<1>5. t = l \o r
  BY DEF RemoveAt
<1> HIDE DEF l, r, n, t
<1>6. /\ t \in Seq(S) /\ Len(t) = n - 1
      /\ \A k \in 1 .. n - 1 : t[k] = IF k <= i - 1 THEN l[k] ELSE r[k - (i - 1)]
  <2>1. Len(l) + Len(r) = n - 1
    BY <1>1, <1>2, <1>3
  <2>2. /\ t \in Seq(S) /\ Len(t) = Len(l) + Len(r)
        /\ \A k \in 1 .. Len(l) + Len(r) : t[k] = IF k <= Len(l) THEN l[k] ELSE r[k - Len(l)]
    BY <1>2, <1>3, <1>5, ConcatProperties
  <2> QED BY <1>2, <2>1, <2>2
<1>7. DOMAIN t = 1 .. n - 1 /\ \A k \in 1 .. n - 1 : t[k] = IF k < i THEN s[k] ELSE s[k + 1]
  <2>1. ASSUME NEW k \in 1 .. n - 1, ~(k < i) PROVE t[k] = s[k + 1]
    <3>1. k - (i - 1) \in 1 .. n - i /\ ~(k <= i - 1) /\ i + (k - (i - 1)) = k + 1
      BY <1>1, <2>1
    <3> QED BY <1>4, <1>6, <3>1
  <2> QED BY <1>1, <1>2, <1>6, <2>1, LenProperties
<1>8. \A j, k \in 1 .. n : s[j] = s[k] => j = k
  BY <1>1 DEF IsInjective
<1>9. IsInjective(t)
  BY <1>1, <1>7, <1>8 DEF IsInjective
<1>10. ASSUME NEW x \in Range(t) PROVE x \in Range(s) \ {s[i]}
    BY <1>1, <1>7, <1>8 DEF Range
<1>11. ASSUME NEW x \in Range(s) \ {s[i]} PROVE x \in Range(t)
  <2>1. PICK k \in 1 .. n : x = s[k] /\ k # i
    BY <1>1 DEF Range
  <2>2. t[IF k < i THEN k ELSE k - 1] = x /\ (IF k < i THEN k ELSE k - 1) \in 1 .. n - 1
    BY <1>1, <1>7, <2>1
  <2> QED BY <1>7, <2>2 DEF Range
<1> QED BY <1>6, <1>9, <1>10, <1>11 DEF t

\* Appending a new element to one keeps it one.
LEMMA AppendNew ==
    ASSUME NEW S, NEW s \in Seq(S), IsInjective(s), NEW e \in S, e \notin Range(s)
    PROVE  /\ Append(s, e) \in Seq(S)
           /\ IsInjective(Append(s, e))
           /\ Range(Append(s, e)) = Range(s) \union {e}
<1> DEFINE n == Len(s)
           t == Append(s, e)
<1>1. n \in Nat /\ DOMAIN s = 1 .. n
  BY LenProperties
<1>2. /\ t \in Seq(S) /\ DOMAIN t = 1 .. n + 1 /\ t[n + 1] = e
      /\ \A k \in 1 .. n : t[k] = s[k]
  BY <1>1
<1> HIDE DEF n, t
<1>3. \A k \in 1 .. n : s[k] # e
  BY <1>1 DEF Range
<1>4. IsInjective(t)
  BY <1>1, <1>2, <1>3 DEF IsInjective
<1>5. Range(t) = Range(s) \union {e}
  BY <1>1, <1>2 DEF Range
<1> QED BY <1>2, <1>4, <1>5 DEF t

LEMMA EmptySequence ==
    ASSUME NEW S
    PROVE  <<>> \in Seq(S) /\ IsInjective(<<>>) /\ Range(<<>>) = {}
BY DEF IsInjective, Range

----------------------------------------------------------------------------
(* The inductive invariant.  To the properties it adds that vessels are    *)
(* numbered in the order of their births, so that a vessel created later   *)
(* is never taken for the one an object was made for.                      *)

Numbered ==
    /\ \A a \in Addresses : vessel[a] <= births
    /\ \A d \in allocated : born[d] # 0 /\ born[d] <= births

Inv == /\ TypeOK /\ EachOnce /\ ListedAreAlive /\ InvalidAreDead
       /\ NoDanglingMFD /\ MFDsAgree /\ Numbered

LEMMA Zero == 0 \in Births /\ <<>> \in Seq(Objects)
BY EmptySequence, RegistryAssumption DEF Births

LEMMA InitInv == Init => Inv
<1> SUFFICES ASSUME Init PROVE Inv
  OBVIOUS
<1>1. TypeOK
  BY Zero DEF Init, TypeOK
<1>2. Listed = {} /\ Invalid = {}
  BY EmptySequence DEF Init, Listed, Invalid
<1>3. EachOnce
  BY <1>2, EmptySequence DEF Init, EachOnce
<1>4. ListedAreAlive /\ InvalidAreDead
  BY <1>2 DEF ListedAreAlive, InvalidAreDead
<1>5. NoDanglingMFD /\ MFDsAgree
  BY DEF Init, NoDanglingMFD, MFDsAgree
<1>6. Numbered
  BY DEF Init, Numbered
<1> QED BY <1>1, <1>3, <1>4, <1>5, <1>6 DEF Inv

LEMMA StartInv == Inv /\ SimulationStart => Inv'
<1> SUFFICES ASSUME Inv, SimulationStart PROVE Inv'
  OBVIOUS
<1> USE DEF SimulationStart, registry, mfds, Inv
<1>1. TypeOK' /\ EachOnce' /\ ListedAreAlive' /\ InvalidAreDead' /\ Numbered'
  BY DEF TypeOK, EachOnce, ListedAreAlive, InvalidAreDead, Numbered, Listed, Invalid
<1>2. NoDanglingMFD' /\ MFDsAgree'
  BY DEF NoDanglingMFD, MFDsAgree, Open
<1> QED BY <1>1, <1>2

LEMMA CreateInv == Inv /\ CreateVessel => Inv'
<1> SUFFICES ASSUME Inv, CreateVessel PROVE Inv'
  OBVIOUS
<1>1. PICK a \in Addresses : vessel[a] = 0 /\ vessel' = [vessel EXCEPT ![a] = births + 1]
  BY DEF CreateVessel
<1>2. births \in Nat /\ births' = births + 1 /\ births + 1 \in Births
  BY RegistryAssumption DEF CreateVessel, Inv, TypeOK, Births
<1>3. UNCHANGED <<running, registry, burning, mfds>>
  BY DEF CreateVessel
<1> USE DEF registry, mfds, Inv
<1>4. TypeOK'
  BY <1>1, <1>2, <1>3 DEF TypeOK
<1>5. EachOnce' /\ NoDanglingMFD' /\ MFDsAgree'
  BY <1>3 DEF EachOnce, NoDanglingMFD, MFDsAgree, Listed, Invalid, Open
<1>6. Numbered'
  BY <1>1, <1>2, <1>3 DEF Numbered, TypeOK, Births
<1>7. ListedAreAlive'
  BY <1>1, <1>3 DEF ListedAreAlive, Listed, TypeOK
<1>8. InvalidAreDead'
  <2> SUFFICES ASSUME NEW d \in Invalid
               PROVE  ~m_isValid[d] /\ vessel'[m_vessel[d]] # born[d]
    BY <1>3 DEF InvalidAreDead, Invalid
  <2>1. d \in allocated /\ d \in Objects /\ m_vessel[d] \in Addresses
    BY DEF EachOnce, TypeOK
  <2>2. born[d] \in Nat /\ born[d] <= births
    BY <2>1 DEF Numbered, TypeOK, Births
  <2> QED BY <1>1, <1>2, <2>1, <2>2 DEF InvalidAreDead, TypeOK
<1> QED BY <1>4, <1>5, <1>6, <1>7, <1>8

LEMMA CloseInv == Inv /\ CloseMFD => Inv'
<1> SUFFICES ASSUME Inv, CloseMFD PROVE Inv'
  OBVIOUS
<1>1. PICK s \in Open : /\ m_data' = [m_data EXCEPT ![s] = NULL]
                        /\ shows' = [shows EXCEPT ![s] = 0]
  BY DEF CloseMFD
<1>2. UNCHANGED <<simulator, registry, burning>>
  BY DEF CloseMFD
<1> USE DEF simulator, registry, Inv
<1>3. TypeOK'
  BY <1>1, <1>2, Zero DEF TypeOK
<1>4. EachOnce' /\ ListedAreAlive' /\ InvalidAreDead' /\ Numbered'
  BY <1>2 DEF EachOnce, ListedAreAlive, InvalidAreDead, Numbered, Listed, Invalid
<1>5. \A t \in Open' : t \in Open /\ m_data'[t] = m_data[t] /\ shows'[t] = shows[t]
  BY <1>1 DEF Open, TypeOK
<1>6. NoDanglingMFD' /\ MFDsAgree'
  BY <1>2, <1>5 DEF NoDanglingMFD, MFDsAgree
<1> QED BY <1>3, <1>4, <1>6

LEMMA BurnInv == Inv /\ (PreStep \/ Operate) => Inv'
<1> SUFFICES ASSUME Inv, PreStep \/ Operate PROVE Inv'
  OBVIOUS
<1> USE DEF simulator, registry, mfds, Inv
<1>1. UNCHANGED <<simulator, registry, mfds>>
  BY DEF PreStep, Operate
<1>2. Listed \subseteq Objects
  BY LenProperties DEF Listed, TypeOK, Range
<1>3. burning' \subseteq Objects
  BY <1>2 DEF PreStep, Operate, TypeOK, Open
<1>4. TypeOK'
  BY <1>1, <1>3 DEF TypeOK
<1> QED BY <1>1, <1>4 DEF EachOnce, ListedAreAlive, InvalidAreDead, Numbered,
                       NoDanglingMFD, MFDsAgree, Listed, Invalid, Open

LEMMA EndInv == Inv /\ SimulationEnd => Inv'
<1> SUFFICES ASSUME Inv, SimulationEnd PROVE Inv'
  OBVIOUS
<1> USE DEF SimulationEnd, CleanVectors, mfds, Inv
<1>1. TypeOK'
  BY Zero DEF TypeOK
<1>2. Listed' = {} /\ Invalid' = {} /\ allocated' = {}
  BY EmptySequence DEF Listed, Invalid, EachOnce
<1>3. EachOnce'
  BY <1>2, EmptySequence DEF EachOnce
<1>4. ListedAreAlive' /\ InvalidAreDead'
  BY <1>2 DEF ListedAreAlive, InvalidAreDead
<1>5. NoDanglingMFD' /\ MFDsAgree'
  BY DEF NoDanglingMFD, MFDsAgree
<1>6. Numbered'
  BY <1>2 DEF Numbered
<1> QED BY <1>1, <1>3, <1>4, <1>5, <1>6

LEMMA OpenInv == Inv /\ OpenMFD => Inv'
<1> SUFFICES ASSUME Inv, OpenMFD PROVE Inv'
  OBVIOUS
<1>1. PICK s \in Screens \ Open, a \in Addresses, d \in Objects :
         /\ running /\ vessel[a] # 0
         /\ AssociateMFDData(a, d)
         /\ m_data' = [m_data EXCEPT ![s] = d]
         /\ shows' = [shows EXCEPT ![s] = vessel[a]]
         /\ UNCHANGED <<simulator, burning>>
  BY DEF OpenMFD
<1> USE DEF simulator, Inv
<1>2. m_data' \in [Screens -> Objects \union {NULL}] /\ shows' \in [Screens -> Births]
  BY <1>1 DEF TypeOK
<1>3. \A t \in Open' : \/ t = s /\ m_data'[t] = d /\ shows'[t] = vessel[a]
                       \/ t \in Open /\ m_data'[t] = m_data[t] /\ shows'[t] = shows[t]
  BY <1>1 DEF Open, TypeOK
<1>4. CASE /\ \E i \in DOMAIN m_vMFDData : FoundAt(i, a) /\ d = m_vMFDData[i]
           /\ UNCHANGED registry
  <2>1. d \in Listed /\ m_vessel[d] = a
    BY <1>4 DEF FoundAt, Listed, Range
  <2>2. d \in allocated /\ born[d] = vessel[a]
    BY <2>1 DEF EachOnce, ListedAreAlive
  <2>3. TypeOK' /\ EachOnce' /\ ListedAreAlive' /\ InvalidAreDead' /\ Numbered'
    BY <1>1, <1>2, <1>4 DEF TypeOK, EachOnce, ListedAreAlive, InvalidAreDead, Numbered,
                            Listed, Invalid, registry
  <2>4. NoDanglingMFD' /\ MFDsAgree'
    BY <1>1, <1>3, <1>4, <2>2 DEF NoDanglingMFD, MFDsAgree, registry
  <2> QED BY <2>3, <2>4
<1>5. CASE /\ \A i \in DOMAIN m_vMFDData : m_vessel[m_vMFDData[i]] # a
           /\ d \notin allocated
           /\ ConstructNewMFDData(d, a)
           /\ m_vMFDData' = Append(m_vMFDData, d)
           /\ UNCHANGED m_vMFDDataInvalid
  <2>1. \A e \in Listed : m_vessel[e] # a
    BY <1>5 DEF Listed, Range
  <2>2. d \notin Listed /\ d \notin Invalid
    BY <1>5 DEF EachOnce
  <2>3. /\ m_vMFDData' \in Seq(Objects) /\ IsInjective(m_vMFDData')
        /\ Listed' = Listed \union {d}
    BY <1>5, <2>2, AppendNew DEF TypeOK, EachOnce, Listed
  <2>4. /\ allocated' = allocated \union {d}
        /\ m_vessel' = [m_vessel EXCEPT ![d] = a]
        /\ m_isValid' = [m_isValid EXCEPT ![d] = TRUE]
        /\ born' = [born EXCEPT ![d] = vessel[a]]
        /\ Invalid' = Invalid
    BY <1>5 DEF ConstructNewMFDData, Invalid
  <2>5. Listed \subseteq Objects /\ Invalid \subseteq Objects
    BY DEF EachOnce, TypeOK
  <2>6. TypeOK'
    BY <1>1, <1>2, <1>5, <2>3, <2>4 DEF TypeOK
  <2>7. EachOnce'
    BY <1>5, <2>2, <2>3, <2>4 DEF EachOnce
  <2>8. ListedAreAlive'
    <3>1. m_isValid'[d] /\ born'[d] = vessel[a] /\ m_vessel'[d] = a
      BY <2>4 DEF TypeOK
    <3>2. \A e \in Listed : /\ m_isValid'[e] = m_isValid[e] /\ born'[e] = born[e]
                            /\ m_vessel'[e] = m_vessel[e]
      BY <2>2, <2>4, <2>5 DEF TypeOK
    <3> QED BY <1>1, <2>1, <2>3, <3>1, <3>2 DEF ListedAreAlive
  <2>9. InvalidAreDead'
    <3>1. \A e \in Invalid : /\ m_isValid'[e] = m_isValid[e] /\ born'[e] = born[e]
                             /\ m_vessel'[e] = m_vessel[e]
      BY <2>2, <2>4, <2>5 DEF TypeOK
    <3> QED BY <1>1, <2>4, <3>1 DEF InvalidAreDead
  <2>10. \A t \in Open : m_data[t] \in allocated /\ born'[m_data[t]] = born[m_data[t]]
    BY <1>1, <1>5, <2>4 DEF NoDanglingMFD, TypeOK
  <2>11. NoDanglingMFD' /\ MFDsAgree'
    BY <1>1, <1>3, <2>4, <2>10 DEF NoDanglingMFD, MFDsAgree, TypeOK
  <2>12. Numbered'
    BY <1>1, <1>5, <2>4 DEF Numbered, TypeOK
  <2> QED BY <2>6, <2>7, <2>8, <2>9, <2>11, <2>12
<1> QED BY <1>1, <1>4, <1>5 DEF AssociateMFDData

LEMMA DeleteInv == Inv /\ VesselDeleted => Inv'
<1> SUFFICES ASSUME Inv, VesselDeleted PROVE Inv'
  OBVIOUS
<1>1. PICK a \in Addresses : /\ vessel[a] # 0
                             /\ DeleteVessel(a)
                             /\ vessel' = [vessel EXCEPT ![a] = 0]
                             /\ UNCHANGED <<running, births, burning, mfds>>
  BY DEF VesselDeleted
<1> USE DEF mfds, Inv
<1>2. vessel' \in [Addresses -> Births]
  BY <1>1, Zero DEF TypeOK
<1>3. \A b \in Addresses : vessel'[b] = IF b = a THEN 0 ELSE vessel[b]
  BY <1>1 DEF TypeOK
<1>4. Listed \subseteq Objects /\ Invalid \subseteq Objects
  BY DEF EachOnce, TypeOK
<1>5. \A d \in Invalid : vessel'[m_vessel[d]] # born[d]
  BY <1>3, <1>4 DEF InvalidAreDead, Numbered, EachOnce, TypeOK
<1>6. \A b \in Addresses : vessel'[b] <= births
  <2>1. 0 <= births
    BY RegistryAssumption DEF TypeOK, Births
  <2>2. \A b \in Addresses : vessel[b] <= births
    BY DEF Numbered
  <2> SUFFICES ASSUME NEW b \in Addresses PROVE vessel'[b] <= births
    OBVIOUS
  <2>3. CASE b = a
    BY <1>3, <2>1, <2>3
  <2>4. CASE b # a
    BY <1>3, <2>2, <2>4
  <2> QED BY <2>3, <2>4
<1>7. CASE \E i \in DOMAIN m_vMFDData :
              /\ FoundAt(i, a)
              /\ m_isValid' = [m_isValid EXCEPT ![m_vMFDData[i]] = FALSE]
              /\ m_vMFDDataInvalid' = Append(m_vMFDDataInvalid, m_vMFDData[i])
              /\ m_vMFDData' = RemoveAt(m_vMFDData, i)
              /\ UNCHANGED <<allocated, m_vessel, born>>
  <2>1. PICK i \in DOMAIN m_vMFDData :
              /\ FoundAt(i, a)
              /\ m_isValid' = [m_isValid EXCEPT ![m_vMFDData[i]] = FALSE]
              /\ m_vMFDDataInvalid' = Append(m_vMFDDataInvalid, m_vMFDData[i])
              /\ m_vMFDData' = RemoveAt(m_vMFDData, i)
              /\ UNCHANGED <<allocated, m_vessel, born>>
    BY <1>7
  <2> DEFINE d == m_vMFDData[i]
  <2>2. d \in Listed /\ d \in Objects /\ d \notin Invalid /\ m_vessel[d] = a
    BY <1>4, <2>1 DEF FoundAt, Listed, Range, EachOnce
  <2>3. /\ m_vMFDData' \in Seq(Objects) /\ IsInjective(m_vMFDData')
        /\ Listed' = Listed \ {d}
    BY <2>1, RemoveAtProperties DEF TypeOK, EachOnce, Listed
  <2>4. /\ m_vMFDDataInvalid' \in Seq(Objects) /\ IsInjective(m_vMFDDataInvalid')
        /\ Invalid' = Invalid \union {d}
    BY <2>1, <2>2, AppendNew DEF TypeOK, EachOnce, Invalid
  <2>5. UNCHANGED <<allocated, m_vessel, born>>
        /\ m_isValid' = [m_isValid EXCEPT ![d] = FALSE]
    BY <2>1
  <2> HIDE DEF d
  <2>6. TypeOK'
    BY <1>1, <1>2, <2>3, <2>4, <2>5 DEF TypeOK
  <2>7. EachOnce'
    BY <2>2, <2>3, <2>4, <2>5 DEF EachOnce
  <2>8. ListedAreAlive'
    <3>1. \A e \in Listed' : m_isValid'[e] = m_isValid[e] /\ m_vessel[e] # a
      BY <1>4, <2>2, <2>3, <2>5 DEF ListedAreAlive, TypeOK
    <3> QED BY <1>3, <1>4, <2>3, <2>5, <3>1 DEF ListedAreAlive, TypeOK
  <2>9. InvalidAreDead'
    <3>1. ~m_isValid'[d] /\ born[d] # 0 /\ vessel'[m_vessel[d]] = 0
      BY <1>3, <2>2, <2>5 DEF ListedAreAlive, TypeOK
    <3>2. \A e \in Invalid : m_isValid'[e] = m_isValid[e]
      BY <1>4, <2>2, <2>5 DEF TypeOK
    <3> QED BY <1>5, <2>4, <2>5, <3>1, <3>2 DEF InvalidAreDead
  <2>10. NoDanglingMFD' /\ MFDsAgree' /\ Numbered'
    BY <1>1, <1>6, <2>5 DEF NoDanglingMFD, MFDsAgree, Numbered, Open
  <2> QED BY <2>6, <2>7, <2>8, <2>9, <2>10
<1>8. CASE /\ \A i \in DOMAIN m_vMFDData : m_vessel[m_vMFDData[i]] # a
           /\ UNCHANGED registry
  <2> USE DEF registry
  <2>1. \A e \in Listed : m_vessel[e] # a
    BY <1>8 DEF Listed, Range
  <2>2. TypeOK' /\ EachOnce'
    BY <1>1, <1>2, <1>8 DEF TypeOK, EachOnce, Listed, Invalid
  <2>3. ListedAreAlive'
    BY <1>3, <1>4, <1>8, <2>1 DEF ListedAreAlive, Listed, TypeOK
  <2>4. InvalidAreDead'
    BY <1>5, <1>8 DEF InvalidAreDead, Invalid
  <2>5. NoDanglingMFD' /\ MFDsAgree' /\ Numbered'
    BY <1>1, <1>6, <1>8 DEF NoDanglingMFD, MFDsAgree, Numbered, Open
  <2> QED BY <2>2, <2>3, <2>4, <2>5
<1> QED BY <1>1, <1>7, <1>8 DEF DeleteVessel

\* The registry is consistent in every reachable state.
LEMMA Invariance == Spec => []Inv
<1>1. Inv /\ UNCHANGED vars => Inv'
  BY DEF Inv, vars, simulator, registry, mfds, TypeOK, EachOnce, ListedAreAlive,
         InvalidAreDead, NoDanglingMFD, MFDsAgree, Numbered, Listed, Invalid, Open
<1>2. Inv /\ [Next]_vars => Inv'
  BY <1>1, StartInv, EndInv, CreateInv, DeleteInv, OpenInv, CloseInv, BurnInv DEF Next
<1> QED BY <1>2, InitInv, PTL DEF Spec

\* Pointers lead to where objects can be, and vessels have numbers that were given.
THEOREM TypeCorrect == Spec => []TypeOK
BY Invariance, PTL DEF Inv

\* Whatever the simulator calls, in whatever order, every MFDData object is
\* owned exactly once, so it is freed once and none is lost.
THEOREM OwnedOnce == Spec => []EachOnce
BY Invariance, PTL DEF Inv

\* The time steps update the objects of living vessels only, one per vessel.
THEOREM OnlyTheLivingAreListed == Spec => []ListedAreAlive
BY Invariance, PTL DEF Inv

\* No living vessel's object, hence no running burn of one, is put aside.
THEOREM OnlyTheDeadAreInvalid == Spec => []InvalidAreDead
BY Invariance, PTL DEF Inv

\* While the simulation runs the pointers of the MFDs are good ...
THEOREM PointersAreGood == Spec => []NoDanglingMFD
BY Invariance, PTL DEF Inv

\* ... and lead to the object of the MFD's own vessel, even when its address
\* has belonged to another.
THEOREM MFDsShowTheirVessel == Spec => []MFDsAgree
BY Invariance, PTL DEF Inv
=============================================================================
