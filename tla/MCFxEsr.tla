------------------------------ MODULE MCFxEsr ------------------------------
EXTENDS FxEsr, TLC

CONSTANTS e1, e2, e3
Levels == e1 :> 0 @@ e2 :> 1 @@ e3 :> 2 @@ IdleEsr :> 3
=============================================================================
