--------------------------- MODULE MCBurnTimeLive ---------------------------
(***************************************************************************)
(* What the time steps achieve once the pilot leaves the MFD alone.        *)
(***************************************************************************)
EXTENDS MCBurnTime

\* The simulator never stops making time steps.
LiveSpec == Spec /\ WF_vars(PreStep)

\* From some moment on nobody touches the MFD.
PilotRests == <>[][PreStep \/ Redraw]_vars

\* Left alone, a running burn is cut off: except in target mode, where the
\* cutoff waits for the target, and except when its length came out as NaN,
\* because the clock never becomes greater than NaN.
CutoffHappens ==
    PilotRests =>
        []<>(~data.IsEngaged \/ data.mode = BURNMODE_TGT \/ data.ECutoff = NaN)

\* Left alone, an armed burn whose reference instant stands still is ignited
\* (an autocirc and a burn at a target follow the orbit instead).
IgnitionHappens ==
    PilotRests =>
        []<>(\/ ~data.IsArmed \/ data.IsCircular \/ data.mode = BURNMODE_TGT
             \/ NaN \in {data.EReference, data.IBurn})
=============================================================================
