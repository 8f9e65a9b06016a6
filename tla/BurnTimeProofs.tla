--------------------------- MODULE BurnTimeProofs ---------------------------
(***************************************************************************)
(* Theorems about the autoburn state machine, for every number of engines, *)
(* every burn rate, every bound and any set of vessels.                    *)
(***************************************************************************)
EXTENDS BurnTime, TLAPS

----------------------------------------------------------------------------
(* What the operators of Update return.                                    *)

\* Instants and durations remain numbers.
LEMMA NumTypes ==
    /\ \A t \in Num, dt \in Nat : Age(t, dt) \in Num
    /\ \A e \in Engines, v \in Num : BurnTimeOf(e, v) \in Num
    /\ \A e \in Engines, t \in Num : VelocityLeft(e, t) \in Num
    /\ DVs \subseteq Num /\ Times \subseteq Num
    /\ \A m \in Modes, h \in BOOLEAN : CircularDV(m, h) \subseteq Num
<1>1. \A t \in Num, dt \in Nat : Age(t, dt) \in Num
  BY ConstantsAssumption DEF Age, Num, Clamp
<1>2. \A e \in Engines, v \in Num : BurnTimeOf(e, v) \in Num
  BY ConstantsAssumption DEF BurnTimeOf, Num
<1>3. \A e \in Engines, t \in Num : VelocityLeft(e, t) \in Num
  BY ConstantsAssumption DEF VelocityLeft, Num, Clamp
<1>4. DVs \subseteq Num /\ Times \subseteq Num
  BY ConstantsAssumption DEF DVs, Times, Num
<1>5. \A m \in Modes, h \in BOOLEAN : CircularDV(m, h) \subseteq Num
  BY <1>4, ConstantsAssumption DEF CircularDV, Num
<1> QED BY <1>1, <1>2, <1>3, <1>4, <1>5

\* Forgetting what is not read again keeps the type.
LEMMA LiveType == ASSUME NEW d \in Data PROVE Live(d) \in Data
<1> DEFINE cutoff == IF d.IsEngaged THEN d.ECutoff ELSE -1
           reference == IF d.IsArmed THEN d.EReference ELSE -1
<1>1. cutoff \in Num /\ reference \in Num
  BY DEF Data, Num
<1>2. Live(d) = [d EXCEPT !.ECutoff = cutoff, !.EReference = reference]
  BY DEF Live
<1> HIDE DEF cutoff, reference
<1> QED BY <1>1, <1>2 DEF Data

LEMMA AgedType ==
    ASSUME NEW d \in Data, NEW dt \in Nat PROVE Aged(d, dt) \in Data
BY NumTypes DEF Aged, Data

LEMMA CalcType ==
    ASSUME NEW d \in Data, NEW h \in BOOLEAN, NEW e \in CalcIBurn(CalcApses(d, h))
    PROVE  e \in Data
<1> DEFINE c == CalcApses(d, h)
<1>1. c \in Data
  BY DEF CalcApses, Data, Modes
<1>2. c.Sel_eng \in Engines /\ c.dv \in Num
  BY <1>1 DEF Data
<1>3. PICK v \in Num : e = [c EXCEPT !.IBurn = BurnTimeOf(c.Sel_eng, v)]
  BY <1>2, NumTypes DEF CalcIBurn
<1>4. BurnTimeOf(c.Sel_eng, v) \in Num
  BY <1>2, NumTypes
<1> HIDE DEF c
<1> QED BY <1>1, <1>3, <1>4 DEF Data

LEMMA TrackType ==
    ASSUME NEW d \in Data, NEW h \in BOOLEAN
    PROVE  /\ Countdown(d) \in Data
           /\ TrackEngaged(d) \in Data
           /\ TrackArmed(d, h) \subseteq Data
           /\ TrackTarget(d) \subseteq Data
<1>1. Countdown(d) \in Data
  BY DEF Countdown, Data
<1>2. TrackEngaged(d) \in Data
  BY NumTypes DEF TrackEngaged, Data
<1>3. TrackArmed(d, h) \subseteq Data
  <2> SUFFICES ASSUME NEW e \in TrackArmed(d, h) PROVE e \in Data
    OBVIOUS
  <2>1. CASE ~(d.IsArmed /\ d.IsCircular)
    BY <2>1 DEF TrackArmed
  <2>2. CASE d.IsArmed /\ d.IsCircular
    <3> DEFINE instants == IF d.mode = BURNMODE_MAN THEN {d.IManual} ELSE Times
               velocities == CircularDV(d.mode, h)
    <3>1. instants \subseteq Num /\ velocities \subseteq Num
      BY NumTypes DEF Data
    <3>2. e \in UNION {{[d EXCEPT !.dv = v, !.EReference = t] : t \in instants} :
                       v \in velocities}
      BY <2>2 DEF TrackArmed
    <3> HIDE DEF instants, velocities
    <3>3. PICK v \in velocities :
             e \in {[d EXCEPT !.dv = v, !.EReference = t] : t \in instants}
      BY <3>2
    <3>4. PICK t \in instants : e = [d EXCEPT !.dv = v, !.EReference = t]
      BY <3>3
    <3>5. v \in Num /\ t \in Num
      BY <3>1
    <3> QED BY <3>4, <3>5 DEF Data
  <2> QED BY <2>1, <2>2
<1>4. TrackTarget(d) \subseteq Data
  <2> SUFFICES ASSUME NEW e \in TrackTarget(d) PROVE e \in Data
    OBVIOUS
  <2>1. CASE d.mode # BURNMODE_TGT
    BY <2>1 DEF TrackTarget
  <2>2. CASE d.mode = BURNMODE_TGT
    <3>1. PICK t \in Num : e = [d EXCEPT !.EReference = t]
      BY <2>2, NumTypes DEF TrackTarget, Num
    <3> QED BY <3>1 DEF Data
  <2> QED BY <2>1, <2>2
<1> QED BY <1>1, <1>2, <1>3, <1>4

LEMMA CutoffType == ASSUME NEW d \in Data PROVE Cutoff(d) \in Data
<1> DEFINE manual == IF d.mode = BURNMODE_TGT THEN d.IManual ELSE 0
<1>1. manual \in Num /\ 0 \in Num
  BY DEF Data, Num
<1>2. Cutoff(d) = [d EXCEPT !.IsEngaged = FALSE, !.dv = 0, !.IManual = manual]
  BY DEF Cutoff
<1> HIDE DEF manual
<1> QED BY <1>1, <1>2 DEF Data

LEMMA SwitchType ==
    ASSUME NEW d \in Data
    PROVE  /\ Live(Ignition(d)) \in Data
           /\ Live(Cutoff(d)) \in Data
<1>1. Ignition(d) \in Data
  BY DEF Ignition, Data
<1> QED BY <1>1, CutoffType, LiveType

LEMMA ArmType ==
    ASSUME NEW d \in Data PROVE ArmAutoBurn(d) \subseteq Data
<1> SUFFICES ASSUME NEW e \in ArmAutoBurn(d) PROVE e \in Data
  OBVIOUS
<1>1. d.IManual \in Num
  BY DEF Data
<1>2. ReferenceInstants(d) \subseteq Num
  BY <1>1, NumTypes DEF ReferenceInstants, Num
<1>3. PICK t \in Num : e = [d EXCEPT !.IsArmed = TRUE, !.EReference = t]
  BY <1>2 DEF ArmAutoBurn
<1> QED BY <1>3 DEF Data

----------------------------------------------------------------------------
(* Type correctness.                                                       *)

LEMMA UpdateType ==
    ASSUME TypeOK, NEW dt \in Nat, Update(dt) PROVE TypeOK'
<1>1. Aged(data, dt) \in Data
  BY AgedType DEF TypeOK
<1>2. PICK h \in BOOLEAN : \E d1 \in CalcIBurn(CalcApses(Aged(data, dt), h)) :
         \E d2 \in TrackArmed(Countdown(d1), h) :
           \E d3 \in TrackTarget(TrackEngaged(d2)) : SwitchEngine(d3)
  BY DEF Update
<1>3. PICK d1 \in Data : \E d2 \in TrackArmed(Countdown(d1), h) :
           \E d3 \in TrackTarget(TrackEngaged(d2)) : SwitchEngine(d3)
  BY <1>1, <1>2, CalcType
<1>4. PICK d2 \in Data : \E d3 \in TrackTarget(TrackEngaged(d2)) : SwitchEngine(d3)
  BY <1>3, TrackType
<1>5. PICK d3 \in Data : SwitchEngine(d3)
  BY <1>4, TrackType
<1>6. d3.Sel_eng \in Engines /\ Own \in Vessels
  BY ConstantsAssumption DEF Data
<1>7. data' \in Data
  BY <1>5, SwitchType, LiveType DEF SwitchEngine
<1>8. thrust' \in [Vessels -> SUBSET Engines]
  BY <1>5, <1>6 DEF SwitchEngine, Light, Douse, TypeOK
<1>9. focus' \in Vessels
  BY DEF Update, TypeOK
<1> QED BY <1>7, <1>8, <1>9 DEF TypeOK

LEMMA AutoBurnType ==
    ASSUME TypeOK, NEW d \in Data, AutoBurn(d)
    PROVE  data' \in Data /\ thrust' \in [Vessels -> SUBSET Engines]
<1>1. Disarmed(d) \in Data
  BY DEF Disarmed, Data
<1>2. [d EXCEPT !.IsEngaged = FALSE] \in Data
  BY DEF Data
<1>3. CASE d.IsArmed
  BY <1>1, <1>3, LiveType DEF AutoBurn, TypeOK
<1>4. CASE ~d.IsArmed
  <2>1. \E armed \in ArmAutoBurn([d EXCEPT !.IsEngaged = FALSE]) : data' = Live(armed)
    BY <1>4 DEF AutoBurn
  <2>2. data' \in Data
    BY <2>1, <1>2, ArmType, LiveType
  <2>3. Douse(focus, d.Sel_eng)
    BY <1>4 DEF AutoBurn
  <2> QED BY <2>2, <2>3 DEF Douse, TypeOK
<1> QED BY <1>3, <1>4

LEMMA OpenBoxType ==
    ASSUME NEW d \in Data, NEW kind \in InputModes PROVE OpenBox(d, kind) \in Data
<1> DEFINE m == CASE kind \in {"DV", "TIME"}       -> BURNMODE_MAN
                  [] kind \in {"OFFSET", "TARGET"} -> BURNMODE_TGT
                  [] OTHER                         -> d.mode
<1>1. m \in Modes
  BY DEF Data, Modes
<1>2. OpenBox(d, kind) = [d EXCEPT !.inputmode = kind, !.mode = m]
  BY DEF OpenBox
<1> HIDE DEF m
<1> QED BY <1>1, <1>2 DEF Data

LEMMA SourceType ==
    ASSUME TypeOK, NEW v \in DVs, NEW ibt \in Times,
           SetOtherMFDBurnVars(v, ibt)
    PROVE  data' \in Data /\ thrust' \in [Vessels -> SUBSET Engines]
<1> DEFINE d == [data EXCEPT !.IsArmed = FALSE, !.IsEngaged = FALSE,
                             !.mode = BURNMODE_MAN]
<1>1. d \in Data
  BY DEF TypeOK, Data, Modes
<1>2. v \in Num /\ ibt \in Num
  BY NumTypes, ConstantsAssumption
<1>3. CASE v > 0 /\ ibt > 0
  <2>1. AutoBurn([d EXCEPT !.dv = v, !.IManual = ibt])
    BY <1>3 DEF SetOtherMFDBurnVars
  <2> HIDE DEF d
  <2>2. [d EXCEPT !.dv = v, !.IManual = ibt] \in Data
    BY <1>1, <1>2 DEF Data
  <2> QED BY <2>1, <2>2, AutoBurnType
<1>4. CASE ~(v > 0 /\ ibt > 0)
  <2>1. data' = Live(d) /\ UNCHANGED thrust
    BY <1>4 DEF SetOtherMFDBurnVars
  <2> HIDE DEF d
  <2>2. d \in Data
    BY <1>1 DEF Data
  <2> QED BY <2>1, <2>2, LiveType DEF TypeOK
<1> QED BY <1>3, <1>4

LEMMA AutoCircType ==
    ASSUME TypeOK, HandlerAimAutoCirc PROVE TypeOK'
<1> DEFINE m == IF data.mode > BURNMODE_APO THEN BURNMODE_PERI ELSE data.mode
<1>1. m \in Modes /\ data.Sel_eng \in Engines
  BY DEF TypeOK, Data, Modes
<1>2. CASE data.IsArmed
  <2>1. data' = Live([data EXCEPT !.mode = m, !.IsArmed = FALSE, !.IsCircular = FALSE])
        /\ UNCHANGED <<thrust, focus>>
    BY <1>2 DEF HandlerAimAutoCirc
  <2> HIDE DEF m
  <2>2. [data EXCEPT !.mode = m, !.IsArmed = FALSE, !.IsCircular = FALSE] \in Data
    BY <1>1 DEF Data, TypeOK
  <2> QED BY <2>1, <2>2, LiveType DEF TypeOK
<1>3. CASE ~data.IsArmed
  <2>1. PICK v \in UNION {CircularDV(m, h) : h \in BOOLEAN} :
           \E armed \in ArmAutoBurn([data EXCEPT !.mode = m, !.IsEngaged = FALSE,
                                                 !.IsCircular = TRUE, !.dv = v]) :
             data' = Live(armed)
    BY <1>3 DEF HandlerAimAutoCirc
  <2>2. thrust' \in [Vessels -> SUBSET Engines] /\ focus' \in Vessels
    BY <1>3, <1>1 DEF HandlerAimAutoCirc, Douse, TypeOK
  <2> HIDE DEF m
  <2>3. v \in Num
    BY <1>1, <2>1, NumTypes
  <2>4. [data EXCEPT !.mode = m, !.IsEngaged = FALSE, !.IsCircular = TRUE,
                     !.dv = v] \in Data
    BY <1>1, <2>3 DEF Data, TypeOK
  <2> QED BY <2>1, <2>2, <2>4, ArmType, LiveType DEF TypeOK
<1> QED BY <1>2, <1>3

LEMMA AnsweredType ==
    ASSUME NEW d \in Data, NEW x \in Num, NEW prefix
    PROVE  Answered(d, x, prefix) \in Data
<1> DEFINE v == IF d.inputmode = "DV" THEN x ELSE d.dv
           r == IF d.inputmode = "TIME" /\ prefix = "none" THEN x ELSE d.EReference
           i == IF \/ d.inputmode = "TIME"
                   \/ d.inputmode = "EXTRA" /\ prefix # "none"
                THEN x ELSE d.IManual
<1>1. v \in Num /\ r \in Num /\ i \in Num
  BY DEF Data
<1>2. Answered(d, x, prefix) = [d EXCEPT !.inputmode = "NONE", !.dv = v,
                                         !.EReference = r, !.IManual = i]
  BY DEF Answered
<1> HIDE DEF v, r, i
<1> QED BY <1>1, <1>2 DEF Data, InputModes

\* Every reachable object is well typed: the modes, the engine and the MFD
\* selected stay in their ranges whatever the pilot presses.
THEOREM TypeCorrect == Spec => []TypeOK
<1>1. Init => TypeOK
  <2> SUFFICES ASSUME Init PROVE TypeOK
    OBVIOUS
  <2>1. DVs \union {NaN} \subseteq Num
    BY NumTypes DEF Num
  <2>2. 0 \in Num /\ -1 \in Num /\ 0 \in Engines /\ Own \in Vessels
    BY ConstantsAssumption DEF Engines, Num
  <2> QED BY <2>1, <2>2 DEF Init, TypeOK, Data, Modes, InputModes
<1>2. TypeOK /\ [Next]_vars => TypeOK'
  <2> SUFFICES ASSUME TypeOK, [Next]_vars PROVE TypeOK'
    OBVIOUS
  <2>1. CASE PreStep
    BY <2>1, UpdateType, ConstantsAssumption DEF PreStep
  <2>2. CASE Redraw
    BY <2>2, UpdateType DEF Redraw
  <2>3. CASE HandlerOpenBox
    BY <2>3, OpenBoxType, ConstantsAssumption DEF HandlerOpenBox, TypeOK, InputModes
  <2>4. CASE HandlerReset
    <3>1. 0 \in Num /\ -1 \in Num
      BY DEF Num
    <3>2. [data EXCEPT !.dv = 0, !.ECutoff = -1, !.IsEngaged = FALSE,
                       !.IsArmed = FALSE, !.mode = BURNMODE_PERI,
                       !.IManual = 0, !.IsCircular = FALSE] \in Data
      BY <3>1 DEF TypeOK, Data, Modes
    <3> QED BY <2>4, <3>2, LiveType DEF HandlerReset, TypeOK
  <2>5. CASE HandlerChangeMode
    <3>1. (IF data.mode + 1 >= BURNMODE_TGT THEN 0 ELSE data.mode + 1) \in Modes
      BY DEF TypeOK, Data, Modes, BURNMODE_PERI, BURNMODE_APO, BURNMODE_MAN, BURNMODE_TGT
    <3> QED BY <2>5, <3>1 DEF HandlerChangeMode, TypeOK, Data
  <2>6. CASE HandlerAutoBurn
    BY <2>6, AutoBurnType DEF HandlerAutoBurn, TypeOK
  <2>7. CASE HandlerBurnNow
    <3>1. [data EXCEPT !.IsArmed = FALSE, !.IsEngaged = TRUE,
                       !.ECutoff = data.IBurn] \in Data
      BY DEF TypeOK, Data
    <3> QED BY <2>7, <3>1, LiveType DEF HandlerBurnNow, Light, TypeOK, Data
  <2>8. CASE HandlerAimAutoCirc
    BY <2>8, AutoCircType
  <2>9. CASE HandlerSelectEngine
    <3>1. data.Sel_eng \in Engines
      BY DEF TypeOK, Data
    <3>2. (IF data.Sel_eng + 1 = NumEngines THEN 0 ELSE data.Sel_eng + 1) \in Engines
      BY <3>1, ConstantsAssumption DEF Engines
    <3> QED BY <2>9, <3>2 DEF HandlerSelectEngine, TypeOK, Data
  <2>10. CASE GetFromOneMFD
    BY <2>10, SourceType DEF GetFromOneMFD, TypeOK
  <2>11. CASE GetFromManyMFDs
    BY <2>11 DEF GetFromManyMFDs, TypeOK, Data, InputModes
  <2>12. CASE InputChoice
    BY <2>12, SourceType DEF InputChoice, TypeOK
  <2>13. CASE InputNumber
    BY <2>13, NumTypes, AnsweredType, LiveType DEF InputNumber, TypeOK
  <2>14. CASE InputTarget
    BY <2>14 DEF InputTarget, TypeOK, Data, InputModes
  <2>15. CASE FocusChanged
    BY <2>15 DEF FocusChanged, TypeOK
  <2>16. CASE UNCHANGED vars
    BY <2>16 DEF vars, TypeOK
  <2> QED BY <2>1, <2>2, <2>3, <2>4, <2>5, <2>6, <2>7, <2>8, <2>9, <2>10, <2>11,
             <2>12, <2>13, <2>14, <2>15, <2>16 DEF Next, Pilot
<1> QED BY <1>1, <1>2, PTL DEF Spec

----------------------------------------------------------------------------
(* What the steps do to the flags, to the engine selected and to the       *)
(* engines lit.  The blocks of Update before the switching of the engine   *)
(* leave the flags alone, so that the whole of Update is one of the three  *)
(* disjuncts of SwitchEngine on an object with the flags of `data'.        *)

SameFlags(d, e) ==
    /\ e.IsArmed = d.IsArmed
    /\ e.IsEngaged = d.IsEngaged
    /\ e.Sel_eng = d.Sel_eng

LEMMA LiveFlags == ASSUME NEW d \in Data PROVE SameFlags(d, Live(d))
BY DEF Live, SameFlags, Data

LEMMA CalcFlags ==
    ASSUME NEW d \in Data, NEW h \in BOOLEAN, NEW e \in CalcIBurn(CalcApses(d, h))
    PROVE  SameFlags(d, e)
<1> DEFINE c == CalcApses(d, h)
<1>1. c \in Data /\ SameFlags(d, c)
  BY DEF CalcApses, Data, Modes, SameFlags
<1>2. PICK v : e = [c EXCEPT !.IBurn = BurnTimeOf(c.Sel_eng, v)]
  BY DEF CalcIBurn
<1> HIDE DEF c
<1> QED BY <1>1, <1>2 DEF SameFlags, Data

LEMMA TrackArmedFlags ==
    ASSUME NEW d \in Data, NEW h \in BOOLEAN, NEW e \in TrackArmed(d, h)
    PROVE  SameFlags(d, e)
<1>1. CASE ~(d.IsArmed /\ d.IsCircular)
  BY <1>1 DEF TrackArmed, SameFlags
<1>2. CASE d.IsArmed /\ d.IsCircular
  <2>1. PICK v \in CircularDV(d.mode, h) :
           e \in {[d EXCEPT !.dv = v, !.EReference = t] :
                    t \in IF d.mode = BURNMODE_MAN THEN {d.IManual} ELSE Times}
    BY <1>2 DEF TrackArmed
  <2>2. PICK t : e = [d EXCEPT !.dv = v, !.EReference = t]
    BY <2>1
  <2> QED BY <2>2 DEF Data, SameFlags
<1> QED BY <1>1, <1>2

LEMMA TrackFlags ==
    ASSUME NEW d \in Data
    PROVE  /\ SameFlags(d, Countdown(d))
           /\ SameFlags(d, TrackEngaged(d))
           /\ \A e \in TrackTarget(d) : SameFlags(d, e)
<1>1. SameFlags(d, Countdown(d))
  BY DEF Countdown, Data, SameFlags
<1>2. SameFlags(d, TrackEngaged(d))
  BY DEF TrackEngaged, Data, SameFlags
<1>3. ASSUME NEW e \in TrackTarget(d) PROVE SameFlags(d, e)
  <2>1. e = d \/ \E t \in Num \union Times : e = [d EXCEPT !.EReference = t]
    BY <1>3 DEF TrackTarget, Num
  <2> QED BY <2>1 DEF Data, SameFlags
<1> QED BY <1>1, <1>2, <1>3

LEMMA UpdateSwitches ==
    ASSUME TypeOK, NEW dt \in Nat, Update(dt)
    PROVE  \E d \in Data : SameFlags(data, d) /\ SwitchEngine(d)
<1>1. Aged(data, dt) \in Data /\ SameFlags(data, Aged(data, dt))
  BY AgedType DEF TypeOK, Aged, Data, SameFlags
<1>2. PICK h \in BOOLEAN : \E d1 \in CalcIBurn(CalcApses(Aged(data, dt), h)) :
         \E d2 \in TrackArmed(Countdown(d1), h) :
           \E d3 \in TrackTarget(TrackEngaged(d2)) : SwitchEngine(d3)
  BY DEF Update
<1>3. PICK d1 \in Data : /\ SameFlags(data, d1)
                         /\ \E d2 \in TrackArmed(Countdown(d1), h) :
                              \E d3 \in TrackTarget(TrackEngaged(d2)) : SwitchEngine(d3)
  BY <1>1, <1>2, CalcType, CalcFlags DEF SameFlags
<1>4. Countdown(d1) \in Data /\ SameFlags(data, Countdown(d1))
  BY <1>3, TrackType, TrackFlags DEF SameFlags
<1>5. PICK d2 \in Data : /\ SameFlags(data, d2)
                         /\ \E d3 \in TrackTarget(TrackEngaged(d2)) : SwitchEngine(d3)
  BY <1>3, <1>4, TrackType, TrackArmedFlags DEF SameFlags
<1>6. TrackEngaged(d2) \in Data /\ SameFlags(data, TrackEngaged(d2))
  BY <1>5, TrackType, TrackFlags DEF SameFlags
<1> QED BY <1>5, <1>6, TrackType, TrackFlags DEF SameFlags

LEMMA ArmEffect ==
    ASSUME NEW d \in Data, NEW e \in ArmAutoBurn(d)
    PROVE  /\ Live(e).IsArmed /\ Live(e).IsEngaged = d.IsEngaged
           /\ Live(e).Sel_eng = d.Sel_eng
<1>1. PICK t : e = [d EXCEPT !.IsArmed = TRUE, !.EReference = t]
  BY DEF ArmAutoBurn
<1>2. e \in Data
  BY ArmType
<1> QED BY <1>1, <1>2, LiveFlags DEF SameFlags, Data

LEMMA AutoBurnEffect ==
    ASSUME NEW d \in Data, AutoBurn(d)
    PROVE  /\ data'.Sel_eng = d.Sel_eng
           /\ \/ /\ d.IsArmed /\ ~data'.IsArmed
                 /\ data'.IsEngaged = d.IsEngaged /\ UNCHANGED thrust
              \/ /\ ~d.IsArmed /\ data'.IsArmed
                 /\ ~data'.IsEngaged /\ Douse(focus, d.Sel_eng)
<1>1. CASE d.IsArmed
  <2>1. Disarmed(d) \in Data
    BY DEF Disarmed, Data
  <2> QED BY <1>1, <2>1, LiveFlags DEF AutoBurn, SameFlags, Disarmed, Data
<1>2. CASE ~d.IsArmed
  <2> DEFINE idle == [d EXCEPT !.IsEngaged = FALSE]
  <2>1. idle \in Data /\ ~idle.IsEngaged /\ idle.Sel_eng = d.Sel_eng
    BY DEF Data
  <2>2. PICK armed \in ArmAutoBurn(idle) : data' = Live(armed)
    BY <1>2 DEF AutoBurn
  <2>3. Douse(focus, d.Sel_eng)
    BY <1>2 DEF AutoBurn
  <2> HIDE DEF idle
  <2> QED BY <1>2, <2>1, <2>2, <2>3, ArmEffect
<1> QED BY <1>1, <1>2

LEMMA SourceEffect ==
    ASSUME TypeOK, NEW v \in DVs, NEW ibt \in Times,
           SetOtherMFDBurnVars(v, ibt)
    PROVE  ~data'.IsEngaged
<1> DEFINE d == [data EXCEPT !.IsArmed = FALSE, !.IsEngaged = FALSE,
                             !.mode = BURNMODE_MAN]
<1>1. d \in Data /\ ~d.IsEngaged
  BY DEF TypeOK, Data, Modes
<1>2. v \in Num /\ ibt \in Num
  BY NumTypes, ConstantsAssumption
<1>3. CASE v > 0 /\ ibt > 0
  <2> DEFINE e == [d EXCEPT !.dv = v, !.IManual = ibt]
  <2>1. AutoBurn(e)
    BY <1>3 DEF SetOtherMFDBurnVars
  <2> HIDE DEF d
  <2>2. e \in Data /\ ~e.IsEngaged
    BY <1>1, <1>2 DEF Data
  <2> HIDE DEF e
  <2> QED BY <2>1, <2>2, AutoBurnEffect
<1>4. CASE ~(v > 0 /\ ibt > 0)
  <2>1. data' = Live(d)
    BY <1>4 DEF SetOtherMFDBurnVars
  <2> HIDE DEF d
  <2>2. d \in Data /\ ~d.IsEngaged
    BY <1>1 DEF Data
  <2> QED BY <2>1, <2>2, LiveFlags DEF SameFlags
<1> QED BY <1>3, <1>4

LEMMA AutoCircEffect ==
    ASSUME TypeOK, HandlerAimAutoCirc
    PROVE  /\ data'.Sel_eng = data.Sel_eng
           /\ \/ /\ data.IsArmed /\ ~data'.IsArmed
                 /\ data'.IsEngaged = data.IsEngaged /\ UNCHANGED thrust
              \/ /\ ~data.IsArmed /\ ~data'.IsEngaged
                 /\ IF data.IsEngaged THEN Douse(focus, data.Sel_eng)
                    ELSE UNCHANGED thrust
<1> DEFINE m == IF data.mode > BURNMODE_APO THEN BURNMODE_PERI ELSE data.mode
<1>1. m \in Modes
  BY DEF TypeOK, Data, Modes
<1>2. CASE data.IsArmed
  <2> DEFINE e == [data EXCEPT !.mode = m, !.IsArmed = FALSE, !.IsCircular = FALSE]
  <2>1. data' = Live(e) /\ UNCHANGED thrust
    BY <1>2 DEF HandlerAimAutoCirc
  <2> HIDE DEF m
  <2>2. e \in Data /\ ~e.IsArmed /\ e.IsEngaged = data.IsEngaged
        /\ e.Sel_eng = data.Sel_eng
    BY <1>1 DEF Data, TypeOK
  <2> HIDE DEF e
  <2> QED BY <1>2, <2>1, <2>2, LiveFlags DEF SameFlags
<1>3. CASE ~data.IsArmed
  <2>1. PICK v \in UNION {CircularDV(m, h) : h \in BOOLEAN} :
           \E armed \in ArmAutoBurn([data EXCEPT !.mode = m, !.IsEngaged = FALSE,
                                                 !.IsCircular = TRUE, !.dv = v]) :
             data' = Live(armed)
    BY <1>3 DEF HandlerAimAutoCirc
  <2>2. IF data.IsEngaged THEN Douse(focus, data.Sel_eng) ELSE UNCHANGED thrust
    BY <1>3 DEF HandlerAimAutoCirc
  <2> HIDE DEF m
  <2> DEFINE idle == [data EXCEPT !.mode = m, !.IsEngaged = FALSE,
                                  !.IsCircular = TRUE, !.dv = v]
  <2>3. v \in Num
    BY <1>1, <2>1, NumTypes
  <2>4. idle \in Data /\ ~idle.IsEngaged /\ idle.Sel_eng = data.Sel_eng
    BY <1>1, <2>3 DEF Data, TypeOK
  <2>5. PICK armed \in ArmAutoBurn(idle) : data' = Live(armed)
    BY <2>1
  <2> HIDE DEF idle
  <2>6. data'.Sel_eng = data.Sel_eng /\ ~data'.IsEngaged
    BY <2>4, <2>5, ArmEffect
  <2> QED BY <1>3, <2>2, <2>6
<1> QED BY <1>2, <1>3

LEMMA BurnNowEffect ==
    ASSUME TypeOK, HandlerBurnNow
    PROVE  /\ data'.Sel_eng = data.Sel_eng /\ ~data'.IsArmed /\ data'.IsEngaged
           /\ Light(focus, data.Sel_eng)
<1> DEFINE e == [data EXCEPT !.IsArmed = FALSE, !.IsEngaged = TRUE,
                             !.ECutoff = data.IBurn]
<1>1. e \in Data /\ ~e.IsArmed /\ e.IsEngaged /\ e.Sel_eng = data.Sel_eng
  BY DEF TypeOK, Data
<1>2. data' = Live(e) /\ Light(focus, data.Sel_eng)
  BY DEF HandlerBurnNow
<1> HIDE DEF e
<1> QED BY <1>1, <1>2, LiveFlags DEF SameFlags

LEMMA ResetEffect ==
    ASSUME TypeOK, HandlerReset PROVE ~data'.IsArmed /\ ~data'.IsEngaged
<1> DEFINE e == [data EXCEPT !.dv = 0, !.ECutoff = -1, !.IsEngaged = FALSE,
                             !.IsArmed = FALSE, !.mode = BURNMODE_PERI,
                             !.IManual = 0, !.IsCircular = FALSE]
<1>1. 0 \in Num /\ -1 \in Num
  BY DEF Num
<1>2. e \in Data /\ ~e.IsArmed /\ ~e.IsEngaged
  BY <1>1 DEF TypeOK, Data, Modes
<1>3. data' = Live(e)
  BY DEF HandlerReset
<1> HIDE DEF e
<1> QED BY <1>2, <1>3, LiveFlags DEF SameFlags

\* The buttons that touch neither the flags nor the engines.
LEMMA OtherEffect ==
    ASSUME TypeOK, HandlerOpenBox \/ HandlerChangeMode \/ GetFromManyMFDs
                   \/ InputNumber \/ InputTarget \/ FocusChanged \/ UNCHANGED vars
    PROVE  SameFlags(data, data') /\ UNCHANGED thrust
<1>1. CASE HandlerOpenBox
  BY <1>1 DEF HandlerOpenBox, OpenBox, TypeOK, Data, SameFlags
<1>2. CASE HandlerChangeMode
  BY <1>2 DEF HandlerChangeMode, TypeOK, Data, SameFlags
<1>3. CASE GetFromManyMFDs
  BY <1>3 DEF GetFromManyMFDs, TypeOK, Data, SameFlags
<1>4. CASE InputNumber
  <2>1. PICK x \in Num, prefix \in {"none", "kilo"} : data' = Live(Answered(data, x, prefix))
    BY <1>4, NumTypes DEF InputNumber
  <2>2. Answered(data, x, prefix) \in Data
    BY AnsweredType DEF TypeOK
  <2>3. SameFlags(data, Answered(data, x, prefix))
    BY DEF Answered, SameFlags, TypeOK, Data
  <2> QED BY <1>4, <2>1, <2>2, <2>3, LiveFlags DEF SameFlags, InputNumber
<1>5. CASE InputTarget
  BY <1>5 DEF InputTarget, TypeOK, Data, SameFlags
<1>6. CASE FocusChanged \/ UNCHANGED vars
  BY <1>6 DEF FocusChanged, vars, SameFlags
<1> QED BY <1>1, <1>2, <1>3, <1>4, <1>5, <1>6

----------------------------------------------------------------------------
(* The flags and the engines.                                              *)

Inv == TypeOK /\ ArmedXorEngaged /\ EngagedMeansLit

LEMMA UpdatePreserves ==
    ASSUME Inv, NEW dt \in Nat, Update(dt) PROVE ArmedXorEngaged' /\ EngagedMeansLit'
<1>1. PICK d \in Data : SameFlags(data, d) /\ SwitchEngine(d)
  BY UpdateSwitches DEF Inv
<1>2. CASE Ignites(d) /\ data' = Live(Ignition(d)) /\ Light(Own, d.Sel_eng)
  <2>1. Ignition(d) \in Data /\ ~Ignition(d).IsArmed
    BY DEF Ignition, Data
  <2>2. ~data'.IsArmed
    BY <1>2, <2>1, LiveFlags DEF SameFlags
  <2>3. thrust'[Own] # {}
    BY <1>2, ConstantsAssumption DEF Light, Inv, TypeOK
  <2> QED BY <2>2, <2>3, ConstantsAssumption DEF ArmedXorEngaged, EngagedMeansLit
<1>3. CASE data' = Live(Cutoff(d)) /\ Douse(Own, d.Sel_eng)
  <2>1. Cutoff(d) \in Data /\ ~Cutoff(d).IsEngaged
    BY SwitchType, CutoffType DEF Cutoff, Data
  <2>2. ~data'.IsEngaged
    BY <1>3, <2>1, LiveFlags DEF SameFlags
  <2> QED BY <2>2 DEF ArmedXorEngaged, EngagedMeansLit
<1>4. CASE data' = Live(d) /\ UNCHANGED thrust
  BY <1>1, <1>4, LiveFlags DEF SameFlags, Inv, ArmedXorEngaged, EngagedMeansLit
<1> QED BY <1>1, <1>2, <1>3, <1>4 DEF SwitchEngine

LEMMA PilotPreserves ==
    ASSUME Inv, Pilot \/ FocusChanged \/ UNCHANGED vars
    PROVE  ArmedXorEngaged' /\ EngagedMeansLit'
<1> USE DEF Inv, ArmedXorEngaged, EngagedMeansLit
<1>1. CASE \/ HandlerOpenBox \/ HandlerChangeMode \/ GetFromManyMFDs
           \/ InputNumber \/ InputTarget \/ FocusChanged \/ UNCHANGED vars
  BY <1>1, OtherEffect DEF SameFlags
<1>2. CASE HandlerReset
  BY <1>2, ResetEffect
<1>3. CASE HandlerAutoBurn
  BY <1>3, AutoBurnEffect DEF HandlerAutoBurn, TypeOK
<1>4. CASE HandlerBurnNow
  <2>1. focus \in Vessels /\ thrust'[focus] # {}
    BY <1>4, BurnNowEffect DEF Light, TypeOK
  <2> QED BY <1>4, <2>1, BurnNowEffect
<1>5. CASE HandlerAimAutoCirc
  BY <1>5, AutoCircEffect
<1>6. CASE HandlerSelectEngine
  BY <1>6 DEF HandlerSelectEngine, TypeOK, Data
<1>7. CASE GetFromOneMFD \/ InputChoice
  BY <1>7, SourceEffect DEF GetFromOneMFD, InputChoice
<1> QED BY <1>1, <1>2, <1>3, <1>4, <1>5, <1>6, <1>7 DEF Pilot

LEMMA Invariance == Spec => []Inv
<1>1. TypeOK /\ Init => Inv
  BY DEF Inv, Init, ArmedXorEngaged, EngagedMeansLit
<1>2. Inv /\ [Next]_vars /\ TypeOK' => Inv'
  BY UpdatePreserves, PilotPreserves, ConstantsAssumption DEF Inv, Next, PreStep, Redraw
<1> QED BY <1>1, <1>2, TypeCorrect, PTL DEF Spec

\* No order of buttons, redraws and time steps leaves a burn both waiting and
\* running.
THEOREM NeverArmedAndEngaged == Spec => []ArmedXorEngaged
BY Invariance, PTL DEF Inv

\* Whenever the MFD displays a running burn it has an engine lit.
THEOREM DisplayIsTrue == Spec => []EngagedMeansLit
BY Invariance, PTL DEF Inv

----------------------------------------------------------------------------
(* The engines nobody will switch off.                                     *)

LEMMA UpdateAttends ==
    ASSUME TypeOK, NEW dt \in Nat, Update(dt) PROVE Unattended' \subseteq Unattended
<1>1. PICK d \in Data : SameFlags(data, d) /\ SwitchEngine(d)
  BY UpdateSwitches
<1>2. CASE Ignites(d) /\ data' = Live(Ignition(d)) /\ Light(Own, d.Sel_eng)
  <2>1. /\ Ignition(d) \in Data /\ Ignition(d).IsEngaged
        /\ Ignition(d).Sel_eng = d.Sel_eng
    BY DEF Ignition, Data
  <2>2. data'.IsEngaged /\ data'.Sel_eng = data.Sel_eng
    BY <1>1, <1>2, <2>1, LiveFlags DEF SameFlags
  <2>3. Attended' = {<<Own, data.Sel_eng>>} /\ Attended \subseteq Attended'
    BY <2>2 DEF Attended
  <2>4. Light(Own, data.Sel_eng)
    BY <1>1, <1>2 DEF SameFlags
  <2> QED BY <2>3, <2>4 DEF Unattended, Light, TypeOK
<1>3. CASE /\ TimeCutoff(d) \/ MayTargetCutoff(d)
           /\ data' = Live(Cutoff(d)) /\ Douse(Own, d.Sel_eng)
  <2>1. data.IsEngaged
    BY <1>1, <1>3 DEF TimeCutoff, MayTargetCutoff, SameFlags
  <2>2. Cutoff(d) \in Data /\ ~Cutoff(d).IsEngaged
    BY CutoffType DEF Cutoff, Data
  <2>3. ~data'.IsEngaged
    BY <1>3, <2>2, LiveFlags DEF SameFlags
  <2>4. Attended = {<<Own, data.Sel_eng>>} /\ Attended' = {}
    BY <2>1, <2>3 DEF Attended
  <2>5. Douse(Own, data.Sel_eng)
    BY <1>1, <1>3 DEF SameFlags
  <2> QED BY <2>4, <2>5 DEF Unattended, Douse, TypeOK
<1>4. CASE data' = Live(d) /\ UNCHANGED thrust
  BY <1>1, <1>4, LiveFlags DEF SameFlags, Unattended, Attended
<1> QED BY <1>1, <1>2, <1>3, <1>4 DEF SwitchEngine

LEMMA PilotAttends ==
    ASSUME TypeOK, Pilot \/ FocusChanged \/ UNCHANGED vars, ~Abandons
    PROVE  Unattended' \subseteq Unattended
<1>1. CASE \/ HandlerOpenBox \/ HandlerChangeMode \/ GetFromManyMFDs
           \/ InputNumber \/ InputTarget \/ FocusChanged \/ UNCHANGED vars
  BY <1>1, OtherEffect DEF SameFlags, Unattended, Attended
<1>2. CASE focus = Own /\ HandlerAutoBurn
  <2>1. AutoBurn(data) /\ data \in Data
    BY <1>2 DEF HandlerAutoBurn, TypeOK
  <2> QED BY <1>2, <2>1, AutoBurnEffect DEF Unattended, Attended, Douse, TypeOK
<1>3. CASE focus = Own /\ HandlerBurnNow
  BY <1>3, BurnNowEffect DEF Unattended, Attended, Light, TypeOK
<1>4. CASE focus = Own /\ HandlerAimAutoCirc
  BY <1>4, AutoCircEffect DEF Unattended, Attended, Douse, TypeOK
<1> QED BY <1>1, <1>2, <1>3, <1>4 DEF Pilot, Abandons

\* Only a reset, a change of engine, a burn fetched from another MFD, or a
\* button pressed with another vessel in focus, can leave an engine burning
\* that no cutoff will stop; the time steps never do.
THEOREM EnginesAttended == Spec => OnlyTheseAbandon
<1>1. TypeOK /\ [Next]_vars => [Unattended' \subseteq Unattended \/ Abandons]_vars
  BY UpdateAttends, PilotAttends, ConstantsAssumption DEF Next, PreStep, Redraw
<1> QED BY <1>1, TypeCorrect, PTL DEF Spec, OnlyTheseAbandon

----------------------------------------------------------------------------
(* No burn outlives its cutoff.                                            *)

Overburn == data.IsEngaged /\ data'.IsEngaged /\ Less(data'.ECutoff, 0)

\* A burn that is running when Update begins is not lit anew, for it is not
\* armed; and one that is not cut off has time left, or a target.
LEMMA UpdateCuts ==
    ASSUME Inv, NEW dt \in Nat, Update(dt), Overburn
    PROVE  data'.mode = BURNMODE_TGT
<1>1. PICK d \in Data : SameFlags(data, d) /\ SwitchEngine(d)
  BY UpdateSwitches DEF Inv
<1>2. d.IsEngaged /\ ~Ignites(d)
  BY <1>1 DEF SameFlags, Overburn, Inv, ArmedXorEngaged, Ignites
<1>3. CASE data' = Live(Cutoff(d))
  <2>1. Cutoff(d) \in Data /\ ~Cutoff(d).IsEngaged
    BY CutoffType DEF Cutoff, Data
  <2>2. ~data'.IsEngaged
    BY <1>3, <2>1, LiveFlags DEF SameFlags
  <2> QED BY <2>2 DEF Overburn
<1>4. CASE ~TimeCutoff(d) /\ data' = Live(d)
  <2>1. data'.ECutoff = d.ECutoff /\ data'.mode = d.mode
    BY <1>2, <1>4 DEF Live, Data
  <2>2. Less(d.ECutoff, 0)
    BY <2>1 DEF Overburn
  <2> QED BY <1>2, <1>4, <2>1, <2>2 DEF TimeCutoff
<1> QED BY <1>1, <1>2, <1>3, <1>4 DEF SwitchEngine

\* Neither a time step nor a redraw that finds a burn running leaves it running
\* past the cutoff that its own arithmetic has set, unless the target decides.
THEOREM BurnsEndInTime == Spec => NoOverburn
<1>1. Inv /\ [Next]_vars
          => [Overburn => data'.mode = BURNMODE_TGT \/ Pilot \/ FocusChanged]_vars
  BY UpdateCuts, ConstantsAssumption DEF Next, PreStep, Redraw
<1> QED BY <1>1, Invariance, PTL DEF Spec, NoOverburn, Overburn
=============================================================================
