--------------------------- MODULE MCTransXStages ---------------------------
EXTENDS TransXStages

CONSTANTS sa, sb, x1, x2, x3, x4, p1

\* Where stages are allocated, which ship and which MFD is which, is all the same.
Interchangeable ==
    Permutations({x1, x2, x3, x4}) \union Permutations({p1})
        \union Permutations({sa, sb})
=============================================================================
