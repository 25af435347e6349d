------------------------------ MODULE MCFxMsgq ------------------------------
EXTENDS FxMsgq

CONSTANTS send, recv
Queues == {send, recv}
BothEnds == {TRUE, FALSE}

Symmetry == Permutations(Thread) \cup Permutations(Msg)
=============================================================================
