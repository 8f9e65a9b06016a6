---------------------------- MODULE LaunchProofs ----------------------------
(***************************************************************************)
(* What LaunchMFD promises for any autopilots, targets and sides: types,   *)
(* that an autopilot lets go and forgets, that the flags are of this       *)
(* flight, that the azimuth stays locked, and that no end leaves the       *)
(* engine lit.                                                             *)
(***************************************************************************)
EXTENDS LaunchMFD, TLAPS

\* What ReactOnShipStatus changes, and what it leaves alone.
LEMMA ReactFacts ==
    ASSUME NEW d \in MFDDataLaunchMFD
    PROVE  LET r == ReactOnShipStatus(d) IN
           /\ r \in MFDDataLaunchMFD
           /\ r.autopilotType = d.autopilotType
           /\ r.drawPitchError = d.drawPitchError
           /\ r.pegDAS = d.pegDAS
           /\ r.AzimuthLock = d.AzimuthLock
           /\ r.launched = ~d.landed
           /\ (d.half_ov_reached => d.launched) => (r.half_ov_reached => r.launched)
  <1>1. CASE d.landed
    BY <1>1 DEF ReactOnShipStatus, MFDDataLaunchMFD
  <1>2. CASE ~d.landed
    BY <1>2 DEF ReactOnShipStatus, MFDDataLaunchMFD
  <1> QED BY <1>1, <1>2 DEF MFDDataLaunchMFD

\* In flight a lock stays what it is.
LEMMA LockFacts ==
    ASSUME NEW d \in MFDDataLaunchMFD
    PROVE  LET l == CalcAzimuthLock(d) IN
           /\ l \in MFDDataLaunchMFD
           /\ l.autopilotType = d.autopilotType
           /\ l.drawPitchError = d.drawPitchError
           /\ l.pegDAS = d.pegDAS
           /\ l.landed = d.landed
           /\ l.launched = d.launched
           /\ l.half_ov_reached = d.half_ov_reached
           /\ d.launched /\ d.AzimuthLock # "BOTH" => l.AzimuthLock = d.AzimuthLock
  <1>1. CASE ~d.launched
    BY <1>1 DEF CalcAzimuthLock, MFDDataLaunchMFD
  <1>2. CASE d.launched /\ d.AzimuthLock # "BOTH"
    BY <1>2 DEF CalcAzimuthLock, MFDDataLaunchMFD
  <1>3. CASE d.launched /\ d.AzimuthLock = "BOTH"
    BY <1>3 DEF CalcAzimuthLock, MFDDataLaunchMFD
  <1> QED BY <1>1, <1>2, <1>3

\* What an answer of the simulator is.
LEMMA AnswerFacts ==
    ASSUME TypeOK, NEW o \in Answers
    PROVE  o.landed \in BOOLEAN /\ o.fast \in BOOLEAN /\ o.reached \in BOOLEAN
           /\ o.side \in {"NORTHERN", "SOUTHERN", "BOTH"}
  BY LaunchAssumption DEF Answers, Fast, TypeOK, Vessel, LaunchAssumption

\* What Update changes, and what it leaves alone.
LEMMA UpdateFacts ==
    ASSUME NEW d \in MFDDataLaunchMFD, NEW o,
           o.landed \in BOOLEAN, o.fast \in BOOLEAN, o.reached \in BOOLEAN,
           o.side \in {"NORTHERN", "SOUTHERN", "BOTH"}
    PROVE  LET u == Update(d, o) IN
           /\ u \in MFDDataLaunchMFD
           /\ u.autopilotType = d.autopilotType
           /\ u.drawPitchError = d.drawPitchError
           /\ u.pegDAS = d.pegDAS
           /\ (d.half_ov_reached => d.launched) => (u.half_ov_reached => u.launched)
           /\ d.launched /\ d.AzimuthLock # "BOTH" => u.AzimuthLock = d.AzimuthLock
  <1> DEFINE mov == [d EXCEPT !.landed = o.landed, !.fast = o.fast]
             tgt == IF o.reached THEN mov ELSE [mov EXCEPT !.target = "MANUAL"]
             flag == [tgt EXCEPT !.azFlag = IF tgt.target = "MANUAL" THEN "BOTH" ELSE o.side]
             lock == CalcAzimuthLock(flag)
             Same(e) == /\ e \in MFDDataLaunchMFD
                        /\ e.autopilotType = d.autopilotType
                        /\ e.drawPitchError = d.drawPitchError
                        /\ e.pegDAS = d.pegDAS
                        /\ e.launched = d.launched
                        /\ e.half_ov_reached = d.half_ov_reached
  <1>1. Same(mov) /\ mov.AzimuthLock = d.AzimuthLock
    BY DEF MFDDataLaunchMFD
  <1>2. Same(tgt) /\ tgt.AzimuthLock = d.AzimuthLock
    <2> HIDE DEF mov
    <2>1. CASE o.reached
      BY <1>1, <2>1
    <2>2. CASE ~o.reached
      BY <1>1, <2>2 DEF MFDDataLaunchMFD
    <2> QED BY <2>1, <2>2
  <1>3. Same(flag) /\ flag.AzimuthLock = d.AzimuthLock
    <2> HIDE DEF tgt
    <2>1. (IF tgt.target = "MANUAL" THEN "BOTH" ELSE o.side) \in {"NORTHERN", "SOUTHERN", "BOTH"}
      OBVIOUS
    <2> QED BY <1>2, <2>1 DEF MFDDataLaunchMFD
  <1>4. Same(lock) /\ (d.launched /\ d.AzimuthLock # "BOTH" => lock.AzimuthLock = d.AzimuthLock)
    <2> HIDE DEF flag
    <2> QED BY <1>3, LockFacts
  <1>5. Update(d, o) = ReactOnShipStatus(lock)
    BY DEF Update
  <1> HIDE DEF lock
  <1> QED BY <1>4, <1>5, ReactFacts

-----------------------------------------------------------------------------
(* The vessel's side of a step.                                            *)

\* The autopilot that lets go leaves nothing on the axes, the rudder's trim and the
\* ailerons.
LEMMA ReleasedFacts ==
    ASSUME NEW v \in Vessel, NEW d
    PROVE  /\ Released(v, d) \in Vessel
           /\ Released(v, d).rot = {}
           /\ Released(v, d).surfaces \intersect {"RUDDERTRIM", "AILERON"} = {}
           /\ Released(v, d).engine = v.engine
  <1> DEFINE gone == {"RUDDERTRIM", "AILERON"} \union (IF d.drawPitchError THEN {"ELEVATORTRIM"} ELSE {})
  <1>1. Released(v, d) = [v EXCEPT !.rot = {}, !.killrot = TRUE, !.surfaces = v.surfaces \ gone]
    BY DEF Released
  <1>2. {"RUDDERTRIM", "AILERON"} \subseteq gone
    OBVIOUS
  <1> HIDE DEF gone
  <1>3. v.surfaces \ gone \in SUBSET Surfaces
    BY DEF Vessel
  <1> QED BY <1>1, <1>2, <1>3 DEF Vessel

\* Steering leaves the engine alone.
LEMMA SteeredFacts ==
    ASSUME NEW v \in Vessel, NEW d
    PROVE  /\ AtmoAutopilot(v, d) \in Vessel /\ AtmoAutopilot(v, d).engine = v.engine
           /\ SpaceAutopilot(v, d) \in Vessel /\ SpaceAutopilot(v, d).engine = v.engine
  <1>1. Rudder \in Surfaces /\ Elevator \in Surfaces /\ "AILERON" \in Surfaces /\ "ELEVATOR" \in Surfaces
    BY DEF Rudder, Elevator, Surfaces
  <1>2. {"YAW", "BANK"} \subseteq Axes /\ {"PITCH"} \subseteq Axes
    BY DEF Axes
  <1>3. AtmoAutopilot(v, d) \in Vessel /\ AtmoAutopilot(v, d).engine = v.engine
    <2> DEFINE pullUp == IF d.autopilotType = "DIRECT_ASCENT_STD" THEN {"ELEVATOR"} ELSE {}
               flown  == [v EXCEPT !.rot = v.rot \union {"YAW", "BANK"},
                                   !.surfaces = v.surfaces \union {Rudder, "AILERON"}]
    <2>1. flown \in Vessel /\ flown.engine = v.engine
      BY <1>1, <1>2 DEF Vessel
    <2>2. pullUp \subseteq Surfaces
      BY <1>1
    <2>3. AtmoAutopilot(v, d) =
             IF NeedPitchMain(d)
             THEN [flown EXCEPT !.rot = Axes, !.surfaces = flown.surfaces \union {Elevator} \union pullUp]
             ELSE IF m_pidAP.prevNeededPitch
             THEN [flown EXCEPT !.rot = {"YAW", "BANK"}, !.surfaces = flown.surfaces \ {Elevator}]
             ELSE flown
      BY DEF AtmoAutopilot
    <2> HIDE DEF flown, pullUp
    <2>4. [flown EXCEPT !.rot = Axes, !.surfaces = flown.surfaces \union {Elevator} \union pullUp] \in Vessel
      BY <1>1, <2>1, <2>2 DEF Vessel
    <2>5. [flown EXCEPT !.rot = {"YAW", "BANK"}, !.surfaces = flown.surfaces \ {Elevator}] \in Vessel
      BY <1>2, <2>1 DEF Vessel
    <2> QED BY <2>1, <2>3, <2>4, <2>5 DEF Vessel
  <1>4. SpaceAutopilot(v, d) \in Vessel /\ SpaceAutopilot(v, d).engine = v.engine
    <2> DEFINE axes == v.rot \union {"YAW", "BANK"} \union (IF NeedPitchMain(d) THEN {"PITCH"} ELSE {})
    <2>1. axes \in SUBSET Axes
      BY <1>2 DEF Vessel
    <2>2. SpaceAutopilot(v, d) = [v EXCEPT !.rot = axes]
      BY DEF SpaceAutopilot
    <2> HIDE DEF axes
    <2> QED BY <2>1, <2>2 DEF Vessel
  <1> QED BY <1>3, <1>4

-----------------------------------------------------------------------------
(* The invariant.                                                          *)

IInv == TypeOK /\ SilentWhenOff /\ MemoryIsOwn /\ HalfIsOfThisFlight

\* No autopilot has a memory when none is engaged, and it is well typed.
LEMMA MemoryFacts == Memory0 \in PIDAP
  BY DEF Memory0, PIDAP

\* A new data object.
LEMMA NewFacts ==
    ASSUME vessel \in Vessel, NEW g \in BOOLEAN, NEW w \in BOOLEAN, NEW f \in BOOLEAN
    PROVE  /\ New(g, w, f) \in MFDDataLaunchMFD
           /\ New(g, w, f).autopilotType = "NONE"
           /\ New(g, w, f).half_ov_reached => New(g, w, f).launched
  <1> DEFINE blank == [autopilotType |-> "NONE", drawPitchError |-> TRUE,
                       landed |-> vessel.landed, fast |-> f, launched |-> g,
                       half_ov_reached |-> FALSE, target |-> "MANUAL", azFlag |-> "BOTH",
                       AzimuthLock |-> "BOTH", pegDA |-> FALSE, pegDAS |-> FALSE, due |-> w]
             o == [landed |-> vessel.landed, fast |-> f, side |-> "BOTH", reached |-> TRUE]
  <1>1. blank \in MFDDataLaunchMFD /\ blank.autopilotType = "NONE" /\ ~blank.half_ov_reached
    BY DEF MFDDataLaunchMFD, Vessel
  <1>2. /\ o.landed \in BOOLEAN /\ o.fast \in BOOLEAN /\ o.reached \in BOOLEAN
        /\ o.side \in {"NORTHERN", "SOUTHERN", "BOTH"}
    BY DEF Vessel
  <1>3. New(g, w, f) = Update(blank, o)
    BY DEF New
  <1> HIDE DEF blank, o
  <1> QED BY <1>1, <1>2, <1>3, UpdateFacts

LEMMA InitIInv == Init => IInv
  <1> SUFFICES ASSUME Init PROVE IInv
    OBVIOUS
  <1>1. vessel \in Vessel /\ vessel.rot = {} /\ vessel.surfaces = {}
    BY DEF Init, Vessel
  <1>2. PICK g \in BOOLEAN, w \in Dues, f \in Fast : data = New(g, w, f)
    BY DEF Init
  <1>3. w \in BOOLEAN /\ f \in BOOLEAN
    BY LaunchAssumption DEF Fast, LaunchAssumption
  <1>4. data \in MFDDataLaunchMFD /\ data.autopilotType = "NONE" /\ HalfIsOfThisFlight
    BY <1>1, <1>2, <1>3, NewFacts DEF HalfIsOfThisFlight
  <1>5. m_pidAP = Memory0
    BY DEF Init
  <1> QED BY <1>1, <1>4, <1>5, MemoryFacts DEF IInv, TypeOK, SilentWhenOff, MemoryIsOwn, Memory0

\* The steps of the pilot and of the world that change one thing.
LEMMA SwitchOffStep ==
    ASSUME IInv, NEW d \in MFDDataLaunchMFD, NEW v \in Vessel, SwitchOff(d, v),
           d.half_ov_reached => d.launched
    PROVE  /\ IInv'
           /\ data' = [d EXCEPT !.autopilotType = "NONE"]
           /\ vessel'.engine = v.engine
  <1>1. data' = [d EXCEPT !.autopilotType = "NONE"] /\ m_pidAP' = Memory0 /\ vessel' = Released(v, d)
    BY DEF SwitchOff, ResetMemory
  <1>2. /\ vessel' \in Vessel /\ vessel'.rot = {} /\ vessel'.engine = v.engine
        /\ vessel'.surfaces \intersect {"RUDDERTRIM", "AILERON"} = {}
    BY <1>1, ReleasedFacts
  <1>3. data' \in MFDDataLaunchMFD /\ data'.autopilotType = "NONE"
    BY <1>1 DEF MFDDataLaunchMFD
  <1>4. data'.half_ov_reached => data'.launched
    BY <1>1 DEF MFDDataLaunchMFD
  <1> QED BY <1>1, <1>2, <1>3, <1>4, MemoryFacts DEF IInv, TypeOK, SilentWhenOff, MemoryIsOwn,
                                                     HalfIsOfThisFlight, Memory0

\* Guide, from the fresh copy d on.
LEMMA SteerStep ==
    ASSUME IInv, NEW d \in MFDDataLaunchMFD, Steer(d),
           d.autopilotType = data.autopilotType, d.autopilotType # "NONE",
           d.pegDAS = data.pegDAS, d.half_ov_reached => d.launched
    PROVE  /\ IInv'
           /\ data'.autopilotType # "NONE"
           /\ data'.launched = d.launched /\ data'.AzimuthLock = d.AzimuthLock
           /\ vessel.engine /\ ~vessel'.engine => data'.pegDA
  <1> DEFINE m == [m_pidAP EXCEPT !.prevNeededPitch = NeedPitchMain(d)]
  <1>1. PICK v \in {AtmoAutopilot(vessel, d), SpaceAutopilot(vessel, d)} :
            CASE d.autopilotType = "STANDARD" -> data' = d /\ vessel' = v /\ m_pidAP' = m
              [] d.autopilotType = "DIRECT_ASCENT_STD" -> GuideDirectAscent(d, v, m)
              [] OTHER -> GuideSynchro(d, v, m)
    BY DEF Steer
  <1>2. v \in Vessel /\ v.engine = vessel.engine
    BY <1>1, SteeredFacts DEF IInv, TypeOK
  <1>3. NeedPitchMain(d) \in BOOLEAN
    BY DEF NeedPitchMain, NeedPitch, MFDDataLaunchMFD
  <1>4. /\ m \in PIDAP /\ m.prevDeltaT = m_pidAP.prevDeltaT
        /\ m.timeOfSynchroBurn = m_pidAP.timeOfSynchroBurn
        /\ m.dvReallyUsedSynchro = m_pidAP.dvReallyUsedSynchro
    BY <1>3 DEF IInv, TypeOK, PIDAP
  <1> HIDE DEF m
  \* It suffices to say what becomes of the data, the engine and the memory.
  <1>5. SUFFICES /\ data' \in MFDDataLaunchMFD /\ vessel' \in Vessel /\ m_pidAP' \in PIDAP
                 /\ data'.autopilotType = d.autopilotType
                 /\ data'.launched = d.launched /\ data'.AzimuthLock = d.AzimuthLock
                 /\ data'.half_ov_reached = d.half_ov_reached
                 /\ m_pidAP'.prevDeltaT => d.autopilotType = "DIRECT_ASCENT_STD"
                 /\ m_pidAP'.timeOfSynchroBurn # "zero" =>
                        d.autopilotType = "DIRECT_ASCENT_SYNCHRO" /\ data'.pegDAS
                 /\ vessel.engine /\ ~vessel'.engine => data'.pegDA
    BY DEF IInv, TypeOK, SilentWhenOff, MemoryIsOwn, HalfIsOfThisFlight
  <1>6. CASE data' = d /\ vessel' = v /\ m_pidAP' = m
    BY <1>2, <1>4, <1>6 DEF IInv, MemoryIsOwn
  <1>7. CASE d.autopilotType = "DIRECT_ASCENT_STD" /\ GuideDirectAscent(d, v, m)
    <2>1. CASE d.target = "MANUAL"
      BY <1>6, <1>7, <2>1 DEF GuideDirectAscent
    <2>2. CASE d.target # "MANUAL"
      <3>1. PICK deltaT \in {"positive", "crossed", "other"} :
               /\ m_pidAP' = [m EXCEPT !.prevDeltaT = deltaT = "positive"]
               /\ IF d.pegDA THEN data' = d /\ \E e \in BOOLEAN : vessel' = [v EXCEPT !.engine = e]
                  ELSE /\ vessel' = v
                       /\ data' = IF deltaT = "crossed" /\ m.prevDeltaT
                                  THEN [d EXCEPT !.pegDA = TRUE, !.drawPitchError = TRUE] ELSE d
        BY <1>7, <2>2 DEF GuideDirectAscent
      <3>2. (deltaT = "positive") \in BOOLEAN
        OBVIOUS
      <3>3. m_pidAP' \in PIDAP /\ m_pidAP'.timeOfSynchroBurn = m_pidAP.timeOfSynchroBurn
        BY <1>4, <3>1, <3>2 DEF PIDAP
      <3>4. m_pidAP.timeOfSynchroBurn = "zero"
        BY <1>7 DEF IInv, MemoryIsOwn
      <3>5. CASE d.pegDA
        BY <1>2, <1>7, <3>1, <3>3, <3>4, <3>5 DEF Vessel
      <3>6. CASE ~d.pegDA
        <4>1. CASE data' = d
          BY <1>2, <1>7, <3>1, <3>3, <3>4, <3>6, <4>1
        <4>2. CASE data' = [d EXCEPT !.pegDA = TRUE, !.drawPitchError = TRUE]
          <5>1. /\ data' \in MFDDataLaunchMFD /\ data'.autopilotType = d.autopilotType
                /\ data'.launched = d.launched /\ data'.AzimuthLock = d.AzimuthLock
                /\ data'.half_ov_reached = d.half_ov_reached
            BY <4>2 DEF MFDDataLaunchMFD
          <5> QED BY <1>2, <1>7, <3>1, <3>3, <3>4, <3>6, <5>1
        <4> QED BY <3>1, <3>6, <4>1, <4>2
      <3> QED BY <3>5, <3>6
    <2> QED BY <2>1, <2>2
  <1>8. CASE d.autopilotType = "DIRECT_ASCENT_SYNCHRO" /\ GuideSynchro(d, v, m)
    <2>1. ~m_pidAP.prevDeltaT
      BY <1>8 DEF IInv, MemoryIsOwn
    <2>2. CASE d.pegDAS /\ data' = d /\ vessel' = v
               /\ m_pidAP' = [m EXCEPT !.timeOfSynchroBurn = "other", !.dvReallyUsedSynchro = v.engine]
      <3>1. m_pidAP' \in PIDAP /\ m_pidAP'.prevDeltaT = m_pidAP.prevDeltaT
        BY <1>2, <1>4, <2>2 DEF PIDAP, Vessel
      <3> QED BY <1>2, <1>8, <2>1, <2>2, <3>1
    <2>3. CASE ~d.pegDAS /\ data' = [d EXCEPT !.pegDAS = TRUE, !.drawPitchError = FALSE]
               /\ vessel' = [v EXCEPT !.engine = TRUE]
               /\ m_pidAP' = [m EXCEPT !.timeOfSynchroBurn = "ignition"]
      <3>1. m_pidAP' \in PIDAP /\ m_pidAP'.prevDeltaT = m_pidAP.prevDeltaT
        BY <1>4, <2>3 DEF PIDAP
      <3>2. vessel' \in Vessel /\ vessel'.engine
        BY <1>2, <2>3 DEF Vessel
      <3>3. /\ data' \in MFDDataLaunchMFD /\ data'.autopilotType = d.autopilotType
            /\ data'.launched = d.launched /\ data'.AzimuthLock = d.AzimuthLock
            /\ data'.half_ov_reached = d.half_ov_reached /\ data'.pegDAS
        BY <2>3 DEF MFDDataLaunchMFD
      <3> QED BY <1>8, <2>1, <3>1, <3>2, <3>3
    <2>4. \/ data' = d /\ vessel' = v /\ m_pidAP' = m
          \/ d.pegDAS /\ data' = d /\ vessel' = v
               /\ m_pidAP' = [m EXCEPT !.timeOfSynchroBurn = "other", !.dvReallyUsedSynchro = v.engine]
          \/ ~d.pegDAS /\ data' = [d EXCEPT !.pegDAS = TRUE, !.drawPitchError = FALSE]
               /\ vessel' = [v EXCEPT !.engine = TRUE]
               /\ m_pidAP' = [m EXCEPT !.timeOfSynchroBurn = "ignition"]
      BY <1>8 DEF GuideSynchro
    <2> QED BY <1>6, <2>2, <2>3, <2>4
  <1>9. d.autopilotType \in {"STANDARD", "DIRECT_ASCENT_STD", "DIRECT_ASCENT_SYNCHRO"}
    BY LaunchAssumption DEF LaunchAssumption, MFDDataLaunchMFD
  <1> QED BY <1>1, <1>6, <1>7, <1>8, <1>9

LockKept == data.launched /\ data'.launched /\ data.AzimuthLock # "BOTH"
                => data'.AzimuthLock = data.AzimuthLock

\* A time step: its three ways, by what the copy says.
LEMMA GuideStep ==
    ASSUME IInv, PreStep
    PROVE  /\ IInv' /\ LockKept
           /\ data'.autopilotType = "NONE" => ~vessel'.engine
           /\ vessel.engine /\ ~vessel'.engine => data'.autopilotType = "NONE" \/ data'.pegDA
  <1> DEFINE d == ReactOnShipStatus(data)
  <1>1. /\ d \in MFDDataLaunchMFD /\ d.autopilotType = data.autopilotType
        /\ d.drawPitchError = data.drawPitchError /\ d.pegDAS = data.pegDAS
        /\ d.AzimuthLock = data.AzimuthLock
        /\ d.half_ov_reached => d.launched
    BY ReactFacts DEF IInv, TypeOK, HalfIsOfThisFlight
  <1>2. data.autopilotType # "NONE"
    BY DEF PreStep
  <1>3. \/ ~d.launched /\ data' = d /\ UNCHANGED <<vessel, m_pidAP>>
        \/ /\ d.launched
           /\ \E o \in Answers : LET u == Update(d, o) IN IF MustStop(u) THEN Stop(u) ELSE Steer(u)
    BY DEF PreStep
  <1> HIDE DEF d
  <1>4. CASE ~d.launched /\ data' = d /\ UNCHANGED <<vessel, m_pidAP>>
    BY <1>1, <1>2, <1>4 DEF IInv, TypeOK, SilentWhenOff, MemoryIsOwn, HalfIsOfThisFlight, LockKept
  <1>5. CASE d.launched /\ \E o \in Answers : LET u == Update(d, o) IN
                                                  IF MustStop(u) THEN Stop(u) ELSE Steer(u)
    <2>1. PICK o \in Answers : IF MustStop(Update(d, o)) THEN Stop(Update(d, o)) ELSE Steer(Update(d, o))
      BY <1>5
    <2>2. /\ o.landed \in BOOLEAN /\ o.fast \in BOOLEAN /\ o.reached \in BOOLEAN
          /\ o.side \in {"NORTHERN", "SOUTHERN", "BOTH"}
      BY AnswerFacts DEF IInv
    <2> DEFINE u == Update(d, o)
    <2>3. /\ u \in MFDDataLaunchMFD /\ u.autopilotType = data.autopilotType
          /\ u.pegDAS = data.pegDAS
          /\ u.half_ov_reached => u.launched
          /\ data.AzimuthLock # "BOTH" => u.AzimuthLock = data.AzimuthLock
      BY <1>1, <1>5, <2>2, UpdateFacts
    <2>4. IF MustStop(u) THEN Stop(u) ELSE Steer(u)
      BY <2>1
    <2> HIDE DEF u
    <2>5. CASE Stop(u)
      <3>1. SwitchOff(u, [vessel EXCEPT !.engine = FALSE])
        BY <2>5 DEF Stop
      <3>2. [vessel EXCEPT !.engine = FALSE] \in Vessel /\ ~[vessel EXCEPT !.engine = FALSE].engine
        BY DEF IInv, TypeOK, Vessel
      <3>3. IInv' /\ data' = [u EXCEPT !.autopilotType = "NONE"] /\ ~vessel'.engine
        BY <2>3, <3>1, <3>2, SwitchOffStep
      <3>4. data'.autopilotType = "NONE" /\ data'.AzimuthLock = u.AzimuthLock
        BY <2>3, <3>3 DEF MFDDataLaunchMFD
      <3> QED BY <2>3, <3>3, <3>4 DEF LockKept
    <2>6. CASE Steer(u)
      BY <1>2, <2>3, <2>6, SteerStep DEF LockKept
    <2> QED BY <2>4, <2>5, <2>6
  <1> QED BY <1>3, <1>4, <1>5

\* A redraw makes the copy anew and changes nothing else that the invariant is about.
LEMMA RedrawStep ==
    ASSUME IInv, Redraw \/ RedrawDirectAscent PROVE IInv' /\ LockKept
  <1>1. /\ UNCHANGED <<vessel, m_pidAP>>
        /\ \E o \in Answers :
               \/ data' = Update(data, o)
               \/ \E w \in Dues : data' = [Update(data, o) EXCEPT !.due = w]
    BY DEF Redraw, RedrawDirectAscent
  <1>2. PICK o \in Answers : \/ data' = Update(data, o)
                             \/ \E w \in Dues : data' = [Update(data, o) EXCEPT !.due = w]
    BY <1>1
  <1> DEFINE u == Update(data, o)
  <1>3. /\ o.landed \in BOOLEAN /\ o.fast \in BOOLEAN /\ o.reached \in BOOLEAN
        /\ o.side \in {"NORTHERN", "SOUTHERN", "BOTH"}
    BY AnswerFacts DEF IInv
  <1>4. /\ u \in MFDDataLaunchMFD /\ u.autopilotType = data.autopilotType
        /\ u.pegDAS = data.pegDAS
        /\ u.half_ov_reached => u.launched
        /\ data.launched /\ data.AzimuthLock # "BOTH" => u.AzimuthLock = data.AzimuthLock
    BY <1>3, UpdateFacts DEF IInv, TypeOK, HalfIsOfThisFlight
  <1>5. data' = u \/ \E w \in Dues : data' = [u EXCEPT !.due = w]
    BY <1>2
  <1> HIDE DEF u
  <1>6. /\ data' \in MFDDataLaunchMFD /\ data'.autopilotType = u.autopilotType
        /\ data'.pegDAS = u.pegDAS /\ data'.half_ov_reached = u.half_ov_reached
        /\ data'.launched = u.launched /\ data'.AzimuthLock = u.AzimuthLock
    <2>1. CASE data' = u
      BY <1>4, <2>1
    <2>2. CASE \E w \in Dues : data' = [u EXCEPT !.due = w]
      BY <1>4, <2>2, LaunchAssumption DEF LaunchAssumption, MFDDataLaunchMFD
    <2> QED BY <1>5, <2>1, <2>2
  <1> QED BY <1>1, <1>4, <1>6 DEF IInv, TypeOK, SilentWhenOff, MemoryIsOwn, HalfIsOfThisFlight, LockKept

\* The pilot's buttons and the input box.
LEMMA PilotStep ==
    ASSUME IInv, Pilot PROVE IInv' /\ (LockKept \/ SwitchAzimuth)
  <1>1. CASE \E type \in Autopilots : PressAutopilot(type)
    <2>1. PICK type \in Autopilots : PressAutopilot(type)
      BY <1>1
    <2>2. CASE data.autopilotType = "NONE"
      <3>1. SwitchOn(type)
        BY <2>1, <2>2 DEF PressAutopilot
      <3>2. (data.drawPitchError /\ type \notin DirectAscents) \in BOOLEAN
        OBVIOUS
      <3>3. /\ data' \in MFDDataLaunchMFD /\ data'.autopilotType = type
            /\ data'.half_ov_reached = data.half_ov_reached /\ data'.launched = data.launched
            /\ data'.AzimuthLock = data.AzimuthLock
        BY <3>1, <3>2 DEF SwitchOn, IInv, TypeOK, MFDDataLaunchMFD
      <3>4. vessel' \in Vessel /\ m_pidAP' = Memory0
        BY <2>2, <3>1 DEF SwitchOn, IInv, TypeOK, Vessel, MemoryIsOwn
      <3>5. type # "NONE"
        BY LaunchAssumption DEF LaunchAssumption
      <3> QED BY <3>3, <3>4, <3>5, MemoryFacts
              DEF IInv, TypeOK, SilentWhenOff, MemoryIsOwn, HalfIsOfThisFlight, LockKept, Memory0
    <2>3. CASE data.autopilotType # "NONE"
      <3>1. SwitchOff(data, vessel)
        BY <2>1, <2>3 DEF PressAutopilot
      <3>2. IInv' /\ data' = [data EXCEPT !.autopilotType = "NONE"]
        BY <3>1, SwitchOffStep DEF IInv, TypeOK, HalfIsOfThisFlight
      <3> QED BY <3>2 DEF IInv, TypeOK, MFDDataLaunchMFD, LockKept
    <2> QED BY <2>2, <2>3
  <1>2. CASE SwitchPitchGuidance
    BY <1>2 DEF SwitchPitchGuidance, IInv, TypeOK, SilentWhenOff, MemoryIsOwn, HalfIsOfThisFlight,
                LockKept, MFDDataLaunchMFD
  <1>3. CASE SwitchAzimuth
    <2>1. PICK l \in {"NORTHERN", "SOUTHERN", "BOTH"} :
             data' = [data EXCEPT !.AzimuthLock = l] /\ UNCHANGED <<vessel, m_pidAP>>
      BY <1>3 DEF SwitchAzimuth
    <2> QED BY <1>3, <2>1 DEF IInv, TypeOK, SilentWhenOff, MemoryIsOwn, HalfIsOfThisFlight, MFDDataLaunchMFD
  <1>4. CASE \E t \in Targets \union {"MANUAL"} : SetTarget(t)
    BY <1>4 DEF SetTarget, IInv, TypeOK, SilentWhenOff, MemoryIsOwn, HalfIsOfThisFlight, LockKept,
                MFDDataLaunchMFD
  <1>5. CASE Throttle
    BY <1>5 DEF Throttle, IInv, TypeOK, SilentWhenOff, MemoryIsOwn, HalfIsOfThisFlight, LockKept, Vessel
  <1> QED BY <1>1, <1>2, <1>3, <1>4, <1>5 DEF Pilot

\* What happens outside of the MFD.
LEMMA WorldStep ==
    ASSUME IInv, World PROVE IInv' /\ LockKept
  <1>1. CASE TakeOff
    BY <1>1 DEF TakeOff, IInv, TypeOK, SilentWhenOff, MemoryIsOwn, HalfIsOfThisFlight, LockKept, Vessel
  <1>2. CASE Land
    BY <1>2 DEF Land, IInv, TypeOK, SilentWhenOff, MemoryIsOwn, HalfIsOfThisFlight, LockKept, Vessel
  <1>3. CASE OrbitChanges
    BY <1>3 DEF OrbitChanges, IInv, TypeOK, SilentWhenOff, MemoryIsOwn, HalfIsOfThisFlight, LockKept, Vessel
  <1>4. CASE TargetVanishes
    BY <1>4 DEF TargetVanishes, IInv, TypeOK, SilentWhenOff, MemoryIsOwn, HalfIsOfThisFlight, LockKept,
                MFDDataLaunchMFD
  <1>5. CASE Reload
    <2>1. PICK g \in BOOLEAN, w \in Dues, f \in Fast : data' = ReadStatus(New(g, w, f))
      BY <1>5 DEF Reload
    <2>2. w \in BOOLEAN /\ f \in BOOLEAN
      BY LaunchAssumption DEF Fast, LaunchAssumption
    <2> DEFINE n == New(g, w, f)
    <2>3. n \in MFDDataLaunchMFD /\ n.autopilotType = "NONE"
      BY <2>2, NewFacts DEF IInv, TypeOK
    <2>4. data' = [n EXCEPT !.launched = data.launched, !.half_ov_reached = data.half_ov_reached,
                            !.target = data.target, !.AzimuthLock = data.AzimuthLock,
                            !.drawPitchError = data.drawPitchError]
      BY <2>1 DEF ReadStatus
    <2> HIDE DEF n
    <2>5. /\ data' \in MFDDataLaunchMFD /\ data'.autopilotType = "NONE"
          /\ data'.launched = data.launched /\ data'.half_ov_reached = data.half_ov_reached
          /\ data'.AzimuthLock = data.AzimuthLock
      BY <2>3, <2>4 DEF IInv, TypeOK, MFDDataLaunchMFD
    <2>6. vessel' \in Vessel /\ vessel'.rot = {} /\ vessel'.surfaces = {}
      BY <1>5 DEF Reload, IInv, TypeOK, Vessel
    <2>7. m_pidAP' = Memory0
      BY <1>5 DEF Reload
    <2> QED BY <2>5, <2>6, <2>7, MemoryFacts
            DEF IInv, TypeOK, SilentWhenOff, MemoryIsOwn, HalfIsOfThisFlight, LockKept, Memory0
  <1> QED BY <1>1, <1>2, <1>3, <1>4, <1>5 DEF World

\* The invariant is inductive, and the lock is kept in every step.
LEMMA NextIInv == ASSUME IInv, [Next]_vars PROVE IInv' /\ (LockKept \/ SwitchAzimuth)
  <1>1. CASE UNCHANGED vars
    BY <1>1 DEF vars, IInv, TypeOK, SilentWhenOff, MemoryIsOwn, HalfIsOfThisFlight, LockKept
  <1> QED BY <1>1, GuideStep, RedrawStep, PilotStep, WorldStep DEF Next

LEMMA SpecIInv == Spec => []IInv
  <1>1. IInv /\ [Next]_vars => IInv'
    BY NextIInv
  <1> QED BY InitIInv, <1>1, PTL DEF Spec

-----------------------------------------------------------------------------
(* The theorems.                                                           *)

\* Everything keeps its type.
THEOREM TypesHold == Spec => []TypeOK
  <1>1. IInv => TypeOK
    BY DEF IInv
  <1> QED BY SpecIInv, <1>1, PTL

\* The autopilot that is off has let go of the vessel, whoever switched it off.
THEOREM LetsGo == Spec => []SilentWhenOff
  <1>1. IInv => SilentWhenOff
    BY DEF IInv
  <1> QED BY SpecIInv, <1>1, PTL

\* No engagement remembers another's ascent.
THEOREM Forgets == Spec => []MemoryIsOwn
  <1>1. IInv => MemoryIsOwn
    BY DEF IInv
  <1> QED BY SpecIInv, <1>1, PTL

\* Half of the orbital velocity is that of the flight that goes on.
THEOREM HalfOfFlight == Spec => []HalfIsOfThisFlight
  <1>1. IInv => HalfIsOfThisFlight
    BY DEF IInv
  <1> QED BY SpecIInv, <1>1, PTL

\* In flight only the pilot's button changes the locked azimuth.
THEOREM AzimuthStaysLocked == Spec => LockIsKept
  <1>1. IInv /\ [Next]_vars =>
            [data.launched /\ data'.launched /\ data.AzimuthLock # "BOTH"
               => data'.AzimuthLock = data.AzimuthLock \/ SwitchAzimuth]_vars
    BY NextIInv DEF LockKept
  <1> QED BY SpecIInv, <1>1, PTL DEF Spec, LockIsKept

\* An autopilot that ends of itself has switched the engine off, and only the
\* direct ascent on its way to the target stops the engine and goes on.
THEOREM EndsWithEngineOff == Spec => CutsAndEnds
  <1>1. IInv /\ [Next]_vars =>
            [PreStep => /\ data'.autopilotType = "NONE" => ~vessel'.engine
                        /\ vessel.engine /\ ~vessel'.engine =>
                               data'.autopilotType = "NONE" \/ data'.pegDA]_vars
    BY GuideStep
  <1> QED BY SpecIInv, <1>1, PTL DEF Spec, CutsAndEnds
=============================================================================
