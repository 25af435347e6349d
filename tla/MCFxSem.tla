------------------------------ MODULE MCFxSem ------------------------------
EXTENDS FxSem
=============================================================================
