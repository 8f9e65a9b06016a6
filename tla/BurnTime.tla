------------------------------ MODULE BurnTime ------------------------------
(***************************************************************************)
(* BurnTimeCalcMFD: the autoburn state machine of one vessel.              *)
(*                                                                         *)
(* `data' is the MFDDataBurnTime object of the vessel Own.  The simulator  *)
(* calls Update on every time step (PluginBurnTime::UpdateClientPreStep)   *)
(* and again whenever an open MFD is redrawn (BurnTimeMFD::Update).        *)
(* Between two such calls the pilot presses the buttons of the MFD         *)
(* (BurnTimeMFD::Handler...) and answers the input box (ObjectInput).      *)
(*                                                                         *)
(* `thrust' is what these calls have made of the engines: the thruster     *)
(* groups of each vessel that the MFD has set to full power and not yet    *)
(* set to zero.  Update drives the vessel the data belongs to; the buttons *)
(* drive the vessel that has the input focus, which need not be the same.  *)
(*                                                                         *)
(* Instants are kept relative to the current simulation time: the model's  *)
(* ECutoff is the code's ECutoff - oapiGetSimTime(), so it goes down as    *)
(* time goes by; same for EReference.  Quantities are integers, or NaN     *)
(* when the code's double is.                                              *)
(***************************************************************************)
EXTENDS Integers

CONSTANTS
    NumEngines,  \* number of selectable thruster groups (6 in the code)
    BurnRate,    \* BurnRate[e]: time group e needs for one unit of velocity,
                 \* 0 when the vessel has no such thruster, or no tank on it
    MaxDV,       \* largest velocity change (a bound)
    MaxTime,     \* furthest instant of the future (a bound)
    MaxPast,     \* instants further back are not told apart (a bound)
    MaxStep,     \* longest time step of the simulator
    NumSources,  \* number of MFDs a burn can be read from (4 in the code)
    Boxes,       \* input boxes the pilot opens (all of them in the code)
    Vessels,     \* vessels of the simulation
    Own,         \* the vessel `data' belongs to
    NaN          \* not a number

Engines == 0 .. NumEngines - 1

ASSUME ConstantsAssumption ==
    /\ NumEngines \in Nat \ {0}
    /\ BurnRate \in [Engines -> Nat]
    /\ {MaxDV, MaxTime, MaxPast} \subseteq Nat /\ MaxStep \in Nat \ {0}
    /\ NumSources \in Nat
    /\ Boxes \subseteq {"DV", "TARGET", "OFFSET", "TIME", "EXTRA"}
    /\ Own \in Vessels
    /\ NaN \notin Int

BURNMODE_PERI == 0  \* the burn is centred on the next periapsis
BURNMODE_APO  == 1  \* ... on the next apoapsis
BURNMODE_MAN  == 2  \* ... on a manual countdown
BURNMODE_TGT  == 3  \* ... on the distance to a target
Modes == {BURNMODE_PERI, BURNMODE_APO, BURNMODE_MAN, BURNMODE_TGT}

InputModes == {"NONE", "DV", "TARGET", "OFFSET", "TIME", "EXTRA", "MFDSEL"}

DVs   == 0 .. MaxDV      \* velocity changes that can be entered or computed
Times == -1 .. MaxTime   \* delays that can be entered or computed
Num   == Int \union {NaN}

VARIABLES
    data,    \* the MFDDataBurnTime object
    thrust,  \* thrust[v]: groups of v that the MFD has lit
    focus    \* the vessel with the input focus

vars == <<data, thrust, focus>>

Data == [mode : Modes, IsArmed : BOOLEAN, IsEngaged : BOOLEAN,
         IsCircular : BOOLEAN, dv : Num, IBurn : Num, ECutoff : Num,
         EReference : Num, IManual : Num, Sel_eng : Engines,
         inputmode : InputModes]

\* Everything in its type.
TypeOK ==
    /\ data \in Data
    /\ thrust \in [Vessels -> SUBSET Engines]
    /\ focus \in Vessels

----------------------------------------------------------------------------
(* Arithmetic of the code's doubles: a comparison with NaN is false.       *)

Less(x, y) == x # NaN /\ y # NaN /\ x < y

Clamp(x, lo, hi) == IF x < lo THEN lo ELSE IF x > hi THEN hi ELSE x

\* An instant seen dt later.
Age(t, dt) == IF t = NaN THEN NaN ELSE Clamp(t - dt, -MaxPast, t)

Half(t) == IF t = NaN THEN NaN ELSE t \div 2

\* CalcIBurn's rocket equation: the time group e takes to change the speed by
\* v; zero when the group cannot burn.
BurnTimeOf(e, v) ==
    IF BurnRate[e] = 0 THEN 0 ELSE IF v = NaN THEN NaN ELSE BurnRate[e] * v

\* Its inverse: the velocity still to be gained when t is left of the burn.
VelocityLeft(e, t) ==
    IF BurnRate[e] = 0 THEN 0
    ELSE IF t = NaN THEN NaN ELSE Clamp(t \div BurnRate[e], -1, MaxDV)

\* What CalcCircular may make of dv in mode m.  An apoapsis that does not
\* exist (Rapo = 0) gives inf - inf; in target mode Rapse is uninitialised.
CircularDV(m, hyperbolic) ==
    CASE m = BURNMODE_TGT                      -> DVs \union {NaN}
      [] m # BURNMODE_PERI /\ m # BURNMODE_TGT
           /\ hyperbolic                       -> {NaN}
      [] OTHER                                 -> DVs

\* The object without what the code does not read again before writing it:
\* ECutoff unless a burn is engaged, EReference unless one is armed.
Live(d) == [d EXCEPT !.ECutoff    = IF d.IsEngaged THEN @ ELSE -1,
                     !.EReference = IF d.IsArmed THEN @ ELSE -1]

----------------------------------------------------------------------------
(* MFDDataBurnTime::Update, block by block.  A block that measures the     *)
(* orbit or the target is the set of the objects it may leave.             *)

\* The object dt later.
Aged(d, dt) ==
    [d EXCEPT !.ECutoff = Age(@, dt), !.EReference = Age(@, dt)]

\* CalcApses: a hyperbolic orbit has no apoapsis to burn at.
CalcApses(d, hyperbolic) ==
    [d EXCEPT !.mode = IF hyperbolic /\ @ = BURNMODE_APO
                       THEN BURNMODE_PERI ELSE @]

\* CalcIBurn: in target mode the mean of dv and of the relative speed counts.
CalcIBurn(d) ==
    {[d EXCEPT !.IBurn = BurnTimeOf(d.Sel_eng, v)] :
        v \in IF d.mode = BURNMODE_TGT /\ d.dv # NaN THEN DVs ELSE {d.dv}}

\* Slip: the assignment the other way round.
CountdownSwapped(d) ==
    IF d.IsArmed /\ d.mode = BURNMODE_MAN
    THEN [d EXCEPT !.EReference = d.IManual] ELSE d

\* The block under `if (IsArmed)': the manual countdown runs ...
Countdown(d) ==
    IF d.IsArmed /\ d.mode = BURNMODE_MAN
    THEN [d EXCEPT !.IManual = d.EReference] ELSE d

\* ... and an autocirc is computed anew (CalcCircular).
TrackArmed(d, hyperbolic) ==
    IF d.IsArmed /\ d.IsCircular
    THEN UNION {{[d EXCEPT !.dv = v, !.EReference = t] :
                    t \in IF d.mode = BURNMODE_MAN THEN {d.IManual} ELSE Times} :
                    v \in CircularDV(d.mode, hyperbolic)}
    ELSE {d}

\* The block under `if (IsEngaged)': dv becomes what is left of the burn.
TrackEngaged(d) ==
    IF d.IsEngaged
    THEN [d EXCEPT !.dv = VelocityLeft(d.Sel_eng, d.ECutoff)] ELSE d

\* The target block: the instant of the burn follows the target's approach.
TrackTarget(d) ==
    IF d.mode = BURNMODE_TGT
    THEN {[d EXCEPT !.EReference = t] :
             t \in IF d.dv = NaN THEN {NaN} ELSE Times}
    ELSE {d}

\* Slip: a mode is forgotten.
TimeCutoffManualOnly(d) ==
    d.IsEngaged /\ Less(d.ECutoff, 0) /\ d.mode = BURNMODE_MAN

\* Cutoff by time, in every mode but the target's ...
TimeCutoff(d) ==
    d.IsEngaged /\ Less(d.ECutoff, 0) /\ d.mode # BURNMODE_TGT

\* ... and, in target mode, possible whenever the relative speed has grown.
MayTargetCutoff(d) == d.IsEngaged /\ d.mode = BURNMODE_TGT

\* Slip: the flag stays on.
CutoffStaysEngaged(d) ==
    [d EXCEPT !.dv = 0, !.IManual = IF d.mode = BURNMODE_TGT THEN @ ELSE 0]

Cutoff(d) ==
    [d EXCEPT !.IsEngaged = FALSE, !.dv = 0,
              !.IManual = IF d.mode = BURNMODE_TGT THEN @ ELSE 0]

\* Ignition, half the burn time before the reference instant.
Ignites(d) == d.IsArmed /\ Less(d.EReference, Half(d.IBurn))

\* Slip: the flag stays on.
IgnitionStaysArmed(d) ==
    [d EXCEPT !.IsEngaged = TRUE, !.IsCircular = FALSE, !.ECutoff = d.IBurn]

Ignition(d) ==
    [d EXCEPT !.IsEngaged = TRUE, !.IsArmed = FALSE, !.IsCircular = FALSE,
              !.ECutoff = d.IBurn]

\* SetThrusterGroupLevel on a vessel, to one and to zero.
Light(v, e) == thrust' = [thrust EXCEPT ![v] = @ \union {e}]
Douse(v, e) == thrust' = [thrust EXCEPT ![v] = @ \ {e}]

\* Slip: the engine of the vessel in focus is driven.
SwitchEngineInFocus(d) ==
    \/ Ignites(d) /\ data' = Live(Ignition(d)) /\ Light(focus, d.Sel_eng)
    \/ /\ ~Ignites(d)
       /\ TimeCutoff(d) \/ MayTargetCutoff(d)
       /\ data' = Live(Cutoff(d)) /\ Douse(focus, d.Sel_eng)
    \/ ~Ignites(d) /\ ~TimeCutoff(d) /\ data' = Live(d) /\ UNCHANGED thrust

\* The end of Update, on what the blocks have left of the object.  A burn
\* that was just cut off is not armed, so it cannot be ignited as well.
SwitchEngine(d) ==
    \/ /\ Ignites(d)
       /\ data' = Live(Ignition(d))
       /\ Light(Own, d.Sel_eng)
    \/ /\ ~Ignites(d)
       /\ TimeCutoff(d) \/ MayTargetCutoff(d)
       /\ data' = Live(Cutoff(d))
       /\ Douse(Own, d.Sel_eng)
    \/ /\ ~Ignites(d) /\ ~TimeCutoff(d)
       /\ data' = Live(d)
       /\ UNCHANGED thrust

\* One call of Update, dt after the last call or button.
Update(dt) ==
    /\ \E hyperbolic \in BOOLEAN :
         \E d1 \in CalcIBurn(CalcApses(Aged(data, dt), hyperbolic)) :
           \E d2 \in TrackArmed(Countdown(d1), hyperbolic) :
             \E d3 \in TrackTarget(TrackEngaged(d2)) :
               SwitchEngine(d3)
    /\ UNCHANGED focus

\* A time step of the simulator: clbkPreStep updates every vessel's data.
PreStep == \E dt \in 1 .. MaxStep : Update(dt)

\* An open MFD is drawn again.
Redraw == Update(0)

----------------------------------------------------------------------------
(* The buttons (BurnTimeMFD::Handler...).                                  *)

\* ArmAutoBurn: the reference instant is taken from the mode; what the orbit
\* or the target decides is left open.
ReferenceInstants(d) ==
    CASE d.mode = BURNMODE_MAN                 -> {d.IManual}
      [] d.mode = BURNMODE_TGT /\ d.dv = 0     -> {0}
      [] d.mode = BURNMODE_TGT /\ d.dv = NaN   -> {NaN}
      [] OTHER                                 -> Times

ArmAutoBurn(d) ==
    {[d EXCEPT !.IsArmed = TRUE, !.EReference = t] : t \in ReferenceInstants(d)}

\* DV, DT, OS, ST, EXT: open the input box.
OpenBox(d, kind) ==
    [d EXCEPT
       !.inputmode = kind,
       !.mode      = CASE kind \in {"DV", "TIME"}       -> BURNMODE_MAN
                       [] kind \in {"OFFSET", "TARGET"} -> BURNMODE_TGT
                       [] OTHER                         -> @]

HandlerOpenBox ==
    \E kind \in Boxes :
        /\ data' = OpenBox(data, kind)
        /\ UNCHANGED <<thrust, focus>>

HandlerReset ==
    /\ data' = Live([data EXCEPT !.dv = 0, !.ECutoff = -1,
                                 !.IsEngaged = FALSE, !.IsArmed = FALSE,
                                 !.mode = BURNMODE_PERI,
                                 !.IManual = 0, !.IsCircular = FALSE])
    /\ UNCHANGED <<thrust, focus>>

HandlerChangeMode ==
    /\ ~(data.IsArmed /\ data.IsEngaged)
    /\ data' = [data EXCEPT !.mode = IF @ + 1 >= BURNMODE_TGT THEN 0 ELSE @ + 1]
    /\ UNCHANGED <<thrust, focus>>

Disarmed(d) == [d EXCEPT !.IsArmed = FALSE]

\* Slip: arming does not stop the engine.
AutoBurnKeepsThrust(d) ==
    /\ IF d.IsArmed
       THEN data' = Live(Disarmed(d))
       ELSE \E armed \in ArmAutoBurn([d EXCEPT !.IsEngaged = FALSE]) :
               data' = Live(armed)
    /\ UNCHANGED thrust

\* The body of HandlerAutoBurn on an object d: what it leaves of d, and
\* whether it switched the selected group off.
AutoBurn(d) ==
    IF d.IsArmed
    THEN data' = Live(Disarmed(d)) /\ UNCHANGED thrust
    ELSE /\ \E armed \in ArmAutoBurn([d EXCEPT !.IsEngaged = FALSE]) :
               data' = Live(armed)
         /\ Douse(focus, d.Sel_eng)

HandlerAutoBurn == AutoBurn(data) /\ UNCHANGED focus

\* Slip: a burn that was waiting goes on waiting.
BurnNowStaysArmed ==
    /\ data' = Live([data EXCEPT !.IsEngaged = TRUE, !.ECutoff = data.IBurn])
    /\ Light(focus, data.Sel_eng)
    /\ UNCHANGED focus

HandlerBurnNow ==
    /\ data' = Live([data EXCEPT !.IsArmed = FALSE, !.IsEngaged = TRUE,
                                 !.ECutoff = data.IBurn])
    /\ Light(focus, data.Sel_eng)
    /\ UNCHANGED focus

\* Autocirc: disarm, or compute the circularisation and arm.
HandlerAimAutoCirc ==
    LET m == IF data.mode > BURNMODE_APO THEN BURNMODE_PERI ELSE data.mode
    IN  /\ IF data.IsArmed
           THEN /\ data' = Live([data EXCEPT !.mode = m, !.IsArmed = FALSE,
                                             !.IsCircular = FALSE])
                /\ UNCHANGED thrust
           ELSE /\ \E v \in UNION {CircularDV(m, h) : h \in BOOLEAN} :
                     \E armed \in ArmAutoBurn([data EXCEPT
                                    !.mode = m, !.IsEngaged = FALSE,
                                    !.IsCircular = TRUE, !.dv = v]) :
                       data' = Live(armed)
                /\ IF data.IsEngaged THEN Douse(focus, data.Sel_eng)
                   ELSE UNCHANGED thrust
        /\ UNCHANGED focus

\* Slip: off by one at the last engine.
SelectEngineNoWrap ==
    /\ data' = [data EXCEPT !.Sel_eng = IF @ = NumEngines THEN 0 ELSE @ + 1]
    /\ UNCHANGED <<thrust, focus>>

HandlerSelectEngine ==
    /\ data' = [data EXCEPT !.Sel_eng = IF @ + 1 = NumEngines THEN 0 ELSE @ + 1]
    /\ UNCHANGED <<thrust, focus>>

\* Comms::SetOtherMFDBurnVars with what a source offers, then, when the offer
\* is a burn to come, HandlerAutoBurn.
SetOtherMFDBurnVars(v, ibt) ==
    LET d == [data EXCEPT !.IsArmed = FALSE, !.IsEngaged = FALSE,
                          !.mode = BURNMODE_MAN]
    IN  IF v > 0 /\ ibt > 0
        THEN AutoBurn([d EXCEPT !.dv = v, !.IManual = ibt])
        ELSE data' = Live(d) /\ UNCHANGED thrust

\* GET when exactly one MFD offers a burn.
GetFromOneMFD ==
    /\ NumSources > 0
    /\ \E v \in DVs, ibt \in Times : SetOtherMFDBurnVars(v, ibt)
    /\ UNCHANGED focus

\* GET when several do: the pilot is asked.
GetFromManyMFDs ==
    /\ NumSources > 1
    /\ data' = [data EXCEPT !.inputmode = "MFDSEL"]
    /\ UNCHANGED <<thrust, focus>>

\* The pilot names the MFD (Comms::ParseInput): a source that offered nothing
\* holds zeroes.
InputChoice ==
    /\ data.inputmode = "MFDSEL"
    /\ \E v \in DVs, ibt \in Times : SetOtherMFDBurnVars(v, ibt)
    /\ UNCHANGED focus

\* ObjectInput: a number x, with or without a unit prefix, for the box that is
\* open.  With a prefix the last branch is taken by every box but those of dv
\* and of the offset.
Answered(d, x, prefix) ==
    [d EXCEPT
       !.inputmode  = "NONE",
       !.dv         = IF d.inputmode = "DV" THEN x ELSE @,
       !.EReference = IF d.inputmode = "TIME" /\ prefix = "none" THEN x ELSE @,
       !.IManual    = IF \/ d.inputmode = "TIME"
                         \/ d.inputmode = "EXTRA" /\ prefix # "none"
                      THEN x ELSE @]

InputNumber ==
    \E x \in DVs \union (Times \ {-1}), prefix \in {"none", "kilo"} :
        /\ data.inputmode \in {"DV", "TIME", "OFFSET", "EXTRA"}
        /\ data.inputmode = "DV" => x \in DVs
        /\ data' = Live(Answered(data, x, prefix))
        /\ UNCHANGED <<thrust, focus>>

\* ObjectInput: the name of a target.
InputTarget ==
    /\ data.inputmode = "TARGET"
    /\ data' = [data EXCEPT !.inputmode = "NONE"]
    /\ UNCHANGED <<thrust, focus>>

\* Another vessel gets the input focus.
FocusChanged ==
    /\ \E v \in Vessels \ {focus} : focus' = v
    /\ UNCHANGED <<data, thrust>>

----------------------------------------------------------------------------
\* The constructor.  It leaves IBurn uninitialised.
Init ==
    /\ \E garbage \in DVs \union {NaN} :
         data = [mode |-> BURNMODE_PERI, IsArmed |-> FALSE, IsEngaged |-> FALSE,
                 IsCircular |-> FALSE, dv |-> 0, IBurn |-> garbage,
                 ECutoff |-> -1, EReference |-> -1, IManual |-> 0,
                 Sel_eng |-> 0, inputmode |-> "NONE"]
    /\ thrust = [v \in Vessels |-> {}]
    /\ focus = Own

\* What the pilot does with the MFD.
Pilot ==
    \/ HandlerOpenBox \/ HandlerReset \/ HandlerChangeMode
    \/ HandlerAutoBurn \/ HandlerBurnNow \/ HandlerAimAutoCirc
    \/ HandlerSelectEngine \/ GetFromOneMFD \/ GetFromManyMFDs
    \/ InputChoice \/ InputNumber \/ InputTarget

Next == PreStep \/ Redraw \/ Pilot \/ FocusChanged

Spec == Init /\ [][Next]_vars

----------------------------------------------------------------------------
(* Properties.                                                             *)

\* A burn is either waiting or running: the flags IsArmed and IsEngaged, set
\* and cleared in nine places, are never both on (HandlerChangeMode and the
\* two blocks of Update take it for granted).
ArmedXorEngaged == ~(data.IsArmed /\ data.IsEngaged)

\* While the display says "Autoburn Engaged" an engine that the MFD lit is
\* burning on some vessel.
EngagedMeansLit == data.IsEngaged => \E v \in Vessels : thrust[v] # {}

\* The group the next cutoff of Update will switch off.
Attended == IF data.IsEngaged THEN {<<Own, data.Sel_eng>>} ELSE {}

\* Lit groups that no cutoff is going to switch off.
Unattended ==
    {g \in Vessels \X Engines : g[2] \in thrust[g[1]] /\ g \notin Attended}

\* The buttons that can leave a lit group without a cutoff: resetting or
\* fetching another burn drops IsEngaged without touching the engine, choosing
\* another engine redirects the cutoff, and the buttons that switch engines
\* do so on the vessel in focus.
Abandons ==
    \/ HandlerReset \/ HandlerSelectEngine \/ GetFromOneMFD \/ InputChoice
    \/ focus # Own /\ (HandlerAutoBurn \/ HandlerBurnNow \/ HandlerAimAutoCirc)

\* No time step, and none of the other buttons, ever leaves a lit group
\* without a cutoff.
OnlyTheseAbandon ==
    [][Unattended' \subseteq Unattended \/ Abandons]_vars

\* A time step or a redraw that finds a burn running never leaves it running
\* past its cutoff, except in target mode, where the cutoff is not by time.
NoOverburn ==
    [][data.IsEngaged /\ data'.IsEngaged /\ Less(data'.ECutoff, 0)
          => data'.mode = BURNMODE_TGT \/ Pilot \/ FocusChanged]_vars
=============================================================================
