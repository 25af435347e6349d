------------------------------ MODULE MCFxTimer ------------------------------
EXTENDS FxTimer

Now == {0}
Later == {1, 2}
JustGone == {-1}
OnceOrTwice == {0, 2}
=============================================================================
