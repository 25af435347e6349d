----------------------------- MODULE MCFxSched -----------------------------
(***************************************************************************)
(* Instances of FxSched for TLC: three items and IDLE, three priorities of *)
(* their own (one to be boosted to, one to fall back to and one between)   *)
(* over words of two bits, so that both levels of the bitmap are in use.   *)
(***************************************************************************)
EXTENDS FxSched

=============================================================================
