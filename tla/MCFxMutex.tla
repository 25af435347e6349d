----------------------------- MODULE MCFxMutex -----------------------------
EXTENDS FxCond

CONSTANTS m1, m2, cv
OneCeiling == m1 :> 2 @@ m2 :> NoCeiling

CondAndMutex == {{m1, cv}, {m1, m2}}

Symmetry == Permutations(Thread)
=============================================================================
