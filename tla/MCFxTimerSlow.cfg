SPECIFICATION TimerFairSpec
CONSTANTS
  Timer = {a, b}
  NoTimer = none
  NoRequest = norequest
  TickMod = 10
  Delay <- Later
  SlowDelay <- Now
  Offset <- JustGone
  Period <- OnceOrTwice
  MaxLate = 1
PROPERTIES TimersOnTime TickEnds
