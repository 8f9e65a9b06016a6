--------------------------- MODULE MCVesselHooking ---------------------------
EXTENDS VesselHooking

CONSTANTS v1, v2, v3, v4, A, B, C, d1, d2, d3, d4

\* Two vessels of one class, one of another, one of an incompatible one.
MCClassOf == (v1 :> A) @@ (v2 :> A) @@ (v3 :> B) @@ (v4 :> C)

\* Two drawers of one module, one of a module that sorts before it, one that
\* gives no name.
MCNameOf == (d1 :> 2) @@ (d2 :> 2) @@ (d3 :> 1) @@ (d4 :> 0)

Interchangeable == Permutations({v1, v2}) \union Permutations({d1, d2})
=============================================================================
