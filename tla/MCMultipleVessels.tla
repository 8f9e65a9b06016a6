------------------------- MODULE MCMultipleVessels -------------------------
EXTENDS MultipleVessels

CONSTANTS a1, a2, d1, d2, d3, s1, s2

\* Where vessels and objects are put, and which MFD is which, is all the same.
Interchangeable ==
    Permutations({d1, d2, d3}) \union Permutations({s1, s2})
=============================================================================
