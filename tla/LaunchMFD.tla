------------------------------ MODULE LaunchMFD ------------------------------
(***************************************************************************)
(* Launch MFD's data of one vessel, which the MFD, the head-up display and *)
(* the autopilot share, and the autopilot's three modes.  The simulator    *)
(* makes time steps; the autopilot, if one is engaged, guides in each of   *)
(* them.  The data are a copy of what the simulator knows, taken by Update *)
(* when the MFD is redrawn, when the HUD is drawn and when the autopilot   *)
(* guides a vessel that it believes has been launched.                     *)
(*                                                                         *)
(* Continuous guidance is abstracted: where the vessel and its target are, *)
(* and so every angle, velocity and time, is chosen freely at each step    *)
(* among the cases the code tells apart; a deflection is a surface or an   *)
(* axis that has been given a command.                                     *)
(***************************************************************************)
EXTENDS Naturals

CONSTANTS
    Autopilots,     \* the autopilots the pilot uses
    Targets,        \* what a target's name can stand for
    Sides,          \* the azimuths that lead to the orbit of a target
    Speeds,         \* whether half of the final velocity is reached
    Dues,           \* whether a synchronised burn is due
    oldAtmosphericModel \* the vessel is steered by its surfaces, not by their trim

ASSUME LaunchAssumption ==
    /\ Autopilots \subseteq {"STANDARD", "DIRECT_ASCENT_STD", "DIRECT_ASCENT_SYNCHRO"}
    /\ Targets \subseteq {"VESSEL", "BODY"}
    /\ Sides \subseteq {"NORTHERN", "SOUTHERN"}
    /\ Speeds \subseteq BOOLEAN /\ FALSE \in Speeds
    /\ Dues \subseteq BOOLEAN /\ Dues # {}
    /\ oldAtmosphericModel \in BOOLEAN

VARIABLES
    vessel, \* the vessel in the simulator
    data,   \* its MFDDataLaunchMFD
    m_pidAP \* the memory of its autopilots from step to step

vars == <<vessel, data, m_pidAP>>

DirectAscents == {"DIRECT_ASCENT_STD", "DIRECT_ASCENT_SYNCHRO"}
Surfaces == {"RUDDER", "RUDDERTRIM", "AILERON", "ELEVATOR", "ELEVATORTRIM"}
Axes == {"PITCH", "YAW", "BANK"}

\* The vessel: the orbit is reached when no time is left to the cutoff, rot are the
\* axes it is turned about, surfaces those that are deflected.
Vessel == [landed : BOOLEAN, orbit : BOOLEAN, engine : BOOLEAN, killrot : BOOLEAN,
           rot : SUBSET Axes, surfaces : SUBSET Surfaces]

\* The data.  landed and fast are m_mov: the vessel, when last looked at, had landed,
\* was above half of the final velocity.  drawPitchError is pitch guidance.  pegDA and
\* pegDAS: the direct ascent is on its way to the target, the synchronised one has
\* begun its burn; due: it was due when its page was last drawn.
MFDDataLaunchMFD ==
    [autopilotType : Autopilots \union {"NONE"}, drawPitchError : BOOLEAN,
     landed : BOOLEAN, fast : BOOLEAN, launched : BOOLEAN, half_ov_reached : BOOLEAN,
     target : Targets \union {"MANUAL"},
     azFlag : {"NORTHERN", "SOUTHERN", "BOTH"},
     AzimuthLock : {"NORTHERN", "SOUTHERN", "BOTH"},
     pegDA : BOOLEAN, pegDAS : BOOLEAN, due : BOOLEAN]

\* The memory: prevDeltaT is whether it was positive, timeOfSynchroBurn whether it is
\* an instant or a length, dvReallyUsedSynchro whether it is not 0.
PIDAP == [prevNeededPitch : BOOLEAN, prevDeltaT : BOOLEAN,
          timeOfSynchroBurn : {"zero", "ignition", "other"}, dvReallyUsedSynchro : BOOLEAN]

\* Everything in its type: the lock is one of three, whatever button is pressed and
\* whatever scenario is read.
TypeOK ==
    /\ vessel \in Vessel
    /\ data \in MFDDataLaunchMFD
    /\ m_pidAP \in PIDAP

-----------------------------------------------------------------------------
(* The copy of the flight: Update and ReactOnShipStatus.                   *)

\* Slip: a landing does not end what the flight has reached.
ReactKeepsHalf(d) ==
    IF d.landed
    THEN [d EXCEPT !.launched = FALSE, !.pegDA = FALSE]
    ELSE [d EXCEPT !.launched = TRUE, !.half_ov_reached = @ \/ (d.launched /\ d.fast)]

\* What launching, reaching half of the final velocity and landing change, as far
\* as the copy shows them.  (The times that are noted then are left out.)
ReactOnShipStatus(d) ==
    IF d.landed
    THEN [d EXCEPT !.launched = FALSE, !.half_ov_reached = FALSE, !.pegDA = FALSE]
    ELSE [d EXCEPT !.launched = TRUE, !.half_ov_reached = @ \/ (d.launched /\ d.fast)]

\* Slip: the lock follows the flag in flight, too.
LockFollows(d) == [d EXCEPT !.AzimuthLock = IF d.launched THEN d.azFlag ELSE "BOTH"]

\* In flight the azimuth is locked to the first that is chosen.
CalcAzimuthLock(d) ==
    IF ~d.launched THEN [d EXCEPT !.AzimuthLock = "BOTH"]
    ELSE IF d.AzimuthLock # "BOTH" THEN [d EXCEPT !.azFlag = d.AzimuthLock]
    ELSE [d EXCEPT !.AzimuthLock = d.azFlag]

Fast == IF vessel.landed THEN {FALSE} ELSE Speeds

\* What the simulator may answer in one Update: besides the vessel's state, the
\* side the target's orbit is met on, and whether the target is in reach: whether
\* the latitude allows its inclination.
Answers ==
    [landed : {vessel.landed}, fast : Fast,
     side : IF data.target = "MANUAL" THEN {"BOTH"} ELSE Sides,
     reached : IF data.target = "MANUAL" THEN {TRUE} ELSE BOOLEAN]

\* The whole copy is made anew, in this order.  (DetectStaging returns at once for
\* a vessel without a pitch program, and only such vessels are modelled.)
Update(d, o) ==
    LET mov    == [d EXCEPT !.landed = o.landed, !.fast = o.fast]
        tgt    == IF o.reached THEN mov ELSE [mov EXCEPT !.target = "MANUAL"]
        flag   == [tgt EXCEPT !.azFlag = IF tgt.target = "MANUAL" THEN "BOTH" ELSE o.side]
    IN  ReactOnShipStatus(CalcAzimuthLock(flag))

-----------------------------------------------------------------------------
(* The autopilot is switched.                                              *)

\* PIDAP::Reset.
Memory0 == [prevNeededPitch |-> FALSE, prevDeltaT |-> FALSE,
            timeOfSynchroBurn |-> "zero", dvReallyUsedSynchro |-> FALSE]

\* Slip: what the ascents have noted is kept.
MemoryKept == [m_pidAP EXCEPT !.prevNeededPitch = FALSE]

\* What is left of the memory when the autopilot is switched off.
ResetMemory == Memory0

\* The vessel when the autopilot lets go of it: the trim of the elevator is reset
\* only with pitch guidance, and rudder and elevator never.
Released(v, d) ==
    [v EXCEPT !.rot = {}, !.killrot = TRUE,
              !.surfaces = @ \ ({"RUDDERTRIM", "AILERON"}
                  \union (IF d.drawPitchError THEN {"ELEVATORTRIM"} ELSE {}))]

\* SwitchAutopilot with an autopilot engaged: off, no matter which.
SwitchOff(d, v) ==
    /\ data' = [d EXCEPT !.autopilotType = "NONE"]
    /\ m_pidAP' = ResetMemory
    /\ vessel' = Released(v, d)

\* SwitchAutopilot with none engaged.  A direct ascent begins without pitch guidance.
SwitchOn(type) ==
    /\ data' = [data EXCEPT !.autopilotType = type,
                            !.drawPitchError = @ /\ type \notin DirectAscents]
    /\ vessel' = [vessel EXCEPT !.killrot = FALSE]
    /\ UNCHANGED m_pidAP

\* The button.  Which autopilot it engages depends on the page of the MFD, and
\* on the kind of direct ascent chosen there.
PressAutopilot(type) ==
    IF data.autopilotType = "NONE" THEN SwitchOn(type) ELSE SwitchOff(data, vessel)

-----------------------------------------------------------------------------
(* The autopilot guides.                                                   *)

\* The mode's own part of NeedPitchMain: the standard mode always asks for
\* pitch, the direct ascent on its way to the target, the synchronised never.
NeedPitch(d) == d.autopilotType = "STANDARD" \/ (d.autopilotType = "DIRECT_ASCENT_STD" /\ d.pegDA)

NeedPitchMain(d) == d.drawPitchError /\ NeedPitch(d)

\* Slip: the stop condition is asked for only while the pitch is guided.
MustStopGuided(d) ==
    \/ vessel.orbit /\ NeedPitchMain(d)
    \/ d.autopilotType = "DIRECT_ASCENT_SYNCHRO" /\ m_pidAP.dvReallyUsedSynchro

\* Guide ends the mode: in orbit, or when the synchronised ascent's burn is over.
MustStop(d) ==
    \/ vessel.orbit
    \/ d.autopilotType = "DIRECT_ASCENT_SYNCHRO" /\ m_pidAP.dvReallyUsedSynchro

Rudder   == IF oldAtmosphericModel THEN "RUDDER" ELSE "RUDDERTRIM"
Elevator == IF oldAtmosphericModel THEN "ELEVATOR" ELSE "ELEVATORTRIM"

\* AtmoAutopilot: the axes and surfaces after its commands.  A pitch command that
\* is no longer needed is taken back.
AtmoAutopilot(v, d) ==
    LET pullUp == IF d.autopilotType = "DIRECT_ASCENT_STD" THEN {"ELEVATOR"} ELSE {}
        flown  == [v EXCEPT !.rot = @ \union {"YAW", "BANK"},
                            !.surfaces = @ \union {Rudder, "AILERON"}]
    IN  IF NeedPitchMain(d)
        THEN [flown EXCEPT !.rot = Axes, !.surfaces = @ \union {Elevator} \union pullUp]
        ELSE IF m_pidAP.prevNeededPitch
        THEN [flown EXCEPT !.rot = {"YAW", "BANK"}, !.surfaces = @ \ {Elevator}]
        ELSE flown

\* SpaceAutopilot: here the pitch command stays when it is no longer needed.
SpaceAutopilot(v, d) ==
    [v EXCEPT !.rot = @ \union {"YAW", "BANK"} \union (IF NeedPitchMain(d) THEN {"PITCH"} ELSE {})]

\* AutopilotDirectAscentStd after AutopilotBase: the ascent to the target begins
\* when the difference of the arrival times has just changed its sign; from then
\* on the engine is set such that it stays at 0.
GuideDirectAscent(d, v, m) ==
    IF d.target = "MANUAL" THEN data' = d /\ vessel' = v /\ m_pidAP' = m
    ELSE \E deltaT \in {"positive", "crossed", "other"} :
             /\ m_pidAP' = [m EXCEPT !.prevDeltaT = deltaT = "positive"]
             /\ IF d.pegDA THEN data' = d /\ \E e \in BOOLEAN : vessel' = [v EXCEPT !.engine = e]
                ELSE /\ vessel' = v
                     /\ data' = IF deltaT = "crossed" /\ m.prevDeltaT
                                THEN [d EXCEPT !.pegDA = TRUE, !.drawPitchError = TRUE] ELSE d

\* AutopilotDirectAscentSynchro after AutopilotBase: the burn begins when the MFD's
\* direct ascent page has last shown that it is due; when the apoapsis has passed
\* the target, the burn's length is measured with the thrust of that moment.
GuideSynchro(d, v, m) ==
    IF d.target # "VESSEL" THEN data' = d /\ vessel' = v /\ m_pidAP' = m
    ELSE \/ /\ d.pegDAS
            /\ \/ m_pidAP' = m
               \/ /\ ~m.dvReallyUsedSynchro     \* high enough
                  /\ m_pidAP' = [m EXCEPT !.timeOfSynchroBurn = "other",
                                          !.dvReallyUsedSynchro = v.engine]
            /\ data' = d /\ vessel' = v
         \/ /\ ~d.pegDAS
            /\ IF d.due
               THEN /\ data' = [d EXCEPT !.pegDAS = TRUE, !.drawPitchError = FALSE]
                    /\ vessel' = [v EXCEPT !.engine = TRUE]
                    /\ m_pidAP' = [m EXCEPT !.timeOfSynchroBurn = "ignition"]
               ELSE data' = d /\ vessel' = v /\ m_pidAP' = m

\* A step of the mode, once the data d are fresh and nothing ends it.
Steer(d) ==
    \E v \in {AtmoAutopilot(vessel, d), SpaceAutopilot(vessel, d)} :
        LET m == [m_pidAP EXCEPT !.prevNeededPitch = NeedPitchMain(d)]
        IN  CASE d.autopilotType = "STANDARD" -> data' = d /\ vessel' = v /\ m_pidAP' = m
              [] d.autopilotType = "DIRECT_ASCENT_STD" -> GuideDirectAscent(d, v, m)
              [] OTHER -> GuideSynchro(d, v, m)

\* Slip: the guidance goes on after it has switched itself off.
StopAndSteer(d) ==
    /\ data' = [d EXCEPT !.autopilotType = "NONE"]
    /\ m_pidAP' = ResetMemory
    /\ vessel' = AtmoAutopilot([Released(vessel, d) EXCEPT !.engine = FALSE], d)

\* Slip: the autopilot lets go of the vessel, but not of the engine.
StopOnly(d) == SwitchOff(d, vessel)

\* The end of a mode: it is switched off, and so is the engine.
Stop(d) == SwitchOff(d, [vessel EXCEPT !.engine = FALSE])

\* One time step with an autopilot engaged: Guide.  A vessel that has not been
\* launched, going by a copy that may be old, is not guided, nor is the copy
\* made anew.
PreStep ==
    /\ data.autopilotType # "NONE"
    /\ LET d == ReactOnShipStatus(data)
       IN  IF ~d.launched THEN data' = d /\ UNCHANGED <<vessel, m_pidAP>>
           ELSE \E o \in Answers : LET u == Update(d, o) IN
                    IF MustStop(u) THEN Stop(u) ELSE Steer(u)

-----------------------------------------------------------------------------
(* The MFD and the HUD, which may be shown or not.                         *)

\* A redraw of the MFD's azimuth and compass pages, or of the HUD.
Redraw ==
    /\ \E o \in Answers : data' = Update(data, o)
    /\ UNCHANGED <<vessel, m_pidAP>>

\* A redraw of the direct ascent page also computes the ascents.
RedrawDirectAscent ==
    /\ \E o \in Answers, w \in Dues :
           LET d == Update(data, o)
           IN  data' = IF d.target = "MANUAL" THEN d ELSE [d EXCEPT !.due = w]
    /\ UNCHANGED <<vessel, m_pidAP>>

\* PTC, and DEF on the azimuth page.
SwitchPitchGuidance ==
    /\ data' = [data EXCEPT !.drawPitchError = ~@]
    /\ UNCHANGED <<vessel, m_pidAP>>

\* Slip: the flag counts on.
SwitchAzimuthOn ==
    /\ data' = [data EXCEPT !.AzimuthLock =
                    CASE @ = "BOTH" -> "NORTHERN" [] @ = "NORTHERN" -> "SOUTHERN" [] OTHER -> "NONE"]
    /\ UNCHANGED <<vessel, m_pidAP>>

\* AZI.
SwitchAzimuth ==
    /\ data' = [data EXCEPT !.AzimuthLock =
                    CASE @ = "BOTH" -> "NORTHERN" [] @ = "NORTHERN" -> "SOUTHERN" [] OTHER -> "BOTH"]
    /\ UNCHANGED <<vessel, m_pidAP>>

\* The answer to the input box for a target, or the buttons for an inclination.
SetTarget(t) ==
    /\ data' = [data EXCEPT !.target = t]
    /\ UNCHANGED <<vessel, m_pidAP>>

-----------------------------------------------------------------------------
(* The simulator and the pilot's own controls.                             *)

TakeOff ==
    /\ vessel.landed
    /\ vessel' = [vessel EXCEPT !.landed = FALSE]
    /\ UNCHANGED <<data, m_pidAP>>

Land ==
    /\ ~vessel.landed
    /\ vessel' = [vessel EXCEPT !.landed = TRUE, !.orbit = FALSE]
    /\ UNCHANGED <<data, m_pidAP>>

\* The time to the cutoff runs out, or it is computed to be positive again.
OrbitChanges ==
    /\ ~vessel.landed
    /\ vessel' = [vessel EXCEPT !.orbit = ~@]
    /\ UNCHANGED <<data, m_pidAP>>

Throttle ==
    /\ vessel' = [vessel EXCEPT !.engine = ~@]
    /\ UNCHANGED <<data, m_pidAP>>

\* The target is deleted: its name stands for nothing any more.
TargetVanishes ==
    /\ data.target = "VESSEL"
    /\ data' = [data EXCEPT !.target = "MANUAL"]
    /\ UNCHANGED <<vessel, m_pidAP>>

\* The constructor leaves `launched' (here g) and the times of the
\* synchronised burn (w) to chance, and updates the copy.  No target is set yet.
New(g, w, f) ==
    Update([autopilotType |-> "NONE", drawPitchError |-> TRUE,
            landed |-> vessel.landed, fast |-> f, launched |-> g,
            half_ov_reached |-> FALSE,
            target |-> "MANUAL", azFlag |-> "BOTH",
            AzimuthLock |-> "BOTH", pegDA |-> FALSE, pegDAS |-> FALSE, due |-> w],
           [landed |-> vessel.landed, fast |-> f, side |-> "BOTH", reached |-> TRUE])

\* What the MFD has written to the scenario and reads again: not the autopilot,
\* nor the phase of its ascent.
ReadStatus(d) ==
    [d EXCEPT !.launched = data.launched, !.half_ov_reached = data.half_ov_reached,
              !.target = data.target, !.AzimuthLock = data.AzimuthLock,
              !.drawPitchError = data.drawPitchError]

\* The scenario is saved and run again.  The vessel's controls are neutral.
Reload ==
    /\ \E g \in BOOLEAN, w \in Dues, f \in Fast :
           data' = ReadStatus(New(g, w, f))
    /\ m_pidAP' = Memory0
    /\ vessel' = [vessel EXCEPT !.rot = {}, !.surfaces = {}]

-----------------------------------------------------------------------------

\* The MFD is opened for the first time on a vessel on the ground or in flight.
Init ==
    /\ vessel \in [landed : BOOLEAN, orbit : {FALSE}, engine : {FALSE}, killrot : {FALSE},
                   rot : {{}}, surfaces : {{}}]
    /\ m_pidAP = Memory0
    /\ \E g \in BOOLEAN, w \in Dues, f \in Fast : data = New(g, w, f)

Pilot ==
    \/ \E type \in Autopilots : PressAutopilot(type)
    \/ SwitchPitchGuidance
    \/ SwitchAzimuth
    \/ \E t \in Targets \union {"MANUAL"} : SetTarget(t)
    \/ Throttle

World == TakeOff \/ Land \/ OrbitChanges \/ TargetVanishes \/ Reload

Next == PreStep \/ Redraw \/ RedrawDirectAscent \/ Pilot \/ World

Spec == Init /\ [][Next]_vars

\* The simulator never stops making time steps; whether the MFD or the HUD is
\* shown, and what the pilot does, is open.
LiveSpec == Spec /\ WF_vars(PreStep)

-----------------------------------------------------------------------------
(* What holds.                                                             *)

\* When no autopilot is engaged, no command of one is left on the axes, on the
\* trim of the rudder or on the ailerons: neither Guide, which switches itself
\* off in the middle of a step, nor the button, nor a reload leaves one.
SilentWhenOff ==
    data.autopilotType = "NONE" =>
        /\ vessel.rot = {}
        /\ vessel.surfaces \intersect {"RUDDERTRIM", "AILERON"} = {}

\* What an autopilot remembers from step to step is of its own engagement: a
\* change of sign is never seen between two direct ascents, and the clock of a
\* synchronised burn runs in a synchronised ascent that has begun, only.
MemoryIsOwn ==
    /\ data.autopilotType = "NONE" => m_pidAP = Memory0
    /\ m_pidAP.prevDeltaT => data.autopilotType = "DIRECT_ASCENT_STD"
    /\ m_pidAP.timeOfSynchroBurn # "zero" =>
           data.autopilotType = "DIRECT_ASCENT_SYNCHRO" /\ data.pegDAS

\* The half of the orbital velocity that is announced, and whose time is kept for
\* the next launch, is of the flight that is going on, whatever is reloaded.
HalfIsOfThisFlight == data.half_ov_reached => data.launched

\* In flight the azimuth, once locked, is changed by the pilot's button only, no
\* matter what side the target's orbit is then met on, or whether it is still there.
LockIsKept ==
    [][data.launched /\ data'.launched /\ data.AzimuthLock # "BOTH"
           => data'.AzimuthLock = data.AzimuthLock \/ SwitchAzimuth]_vars

\* An autopilot that ends of itself leaves the engine off, and no autopilot but
\* the direct ascent on its way to the target ever stops the engine and stays on.
CutsAndEnds ==
    [][PreStep =>
          /\ data'.autopilotType = "NONE" => ~vessel'.engine
          /\ vessel.engine /\ ~vessel'.engine =>
                 data'.autopilotType = "NONE" \/ data'.pegDA]_vars

\* In orbit the autopilot does not stay engaged, provided that the vessel is known
\* to have been launched: each time step suffices.
EndsInOrbit ==
    []<>(data.autopilotType = "NONE" \/ ~data.launched \/ ~vessel.orbit)
=============================================================================
