------------------------------ MODULE MCBudget -------------------------------
\* Instances of Budget for TLC.
EXTENDS Budget, TLC
CONSTANTS nightly, manual, gauntlet
Containers == {nightly, manual, gauntlet}
Interchangeable == Permutations(Containers)
=============================================================================
