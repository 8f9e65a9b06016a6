----------------------------- MODULE MCBurnTime -----------------------------
EXTENDS BurnTime

CONSTANT Other   \* a vessel that is not Own

\* The first group burns two units of time per unit of velocity, the others
\* have no thruster.
MCBurnRate == [e \in Engines |-> IF e = 0 THEN 2 ELSE 0]
=============================================================================
