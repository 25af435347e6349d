---------------------------- MODULE MCFxTimeslice ----------------------------
EXTENDS FxTimeslice
=============================================================================
