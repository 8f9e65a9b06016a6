------------------------ MODULE MCTransXVariables ------------------------
EXTENDS TransXVariables

CONSTANTS target, manoeuvremode, prograde, scale, c1, c2, s1, s2

\* Variables of view 2 around those of view 4, of which one may be hidden.
MCBase == <<target, manoeuvremode, prograde, scale>>
MCBaseView == (target :> 2) @@ (manoeuvremode :> 4) @@ (prograde :> 4) @@ (scale :> 2)
MCGroups == {{prograde}}
MCShips == <<s1, s2>>
==========================================================================
