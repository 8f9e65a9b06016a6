----------------------- MODULE MCModuleMessagingExt -----------------------
EXTENDS ModuleMessagingExt, TLC

\* One vessel and module, two variables, one of them in two spellings.
MCFold == [x \in Words |-> IF x = "Burn" THEN "burn" ELSE x]
MCValues == "ints" :> {1, 2}
\* A structure, its next version, and another of the same version and size.
MCLayouts == {[version |-> 1, size |-> 8, type |-> "A"], [version |-> 2, size |-> 8, type |-> "A"],
              [version |-> 1, size |-> 8, type |-> "B"]}
MCFreed == [version |-> 0, size |-> 0, type |-> "none"]
\* Where a structure is makes no difference.
Interchangeable == Permutations(Structs)
===========================================================================
