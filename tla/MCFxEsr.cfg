SPECIFICATION Spec
CONSTANTS
  e1 = e1
  e2 = e2
  e3 = e3
  Esr = {e1, e2, e3}
  IdleEsr = idle
  NoEsr = none
  Epl <- Levels
  Msg = {a, b}
  Order = {o}
  NoMsg = zero
  ItemsMax = 1
INVARIANTS FramesNest NoLostPreemption MessagesKept
\* All routines may be destroyed while the idle one runs.
CHECK_DEADLOCK FALSE
