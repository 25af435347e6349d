SPECIFICATION SliceSpec
CONSTANTS
  Item = {a, b, c, idle}
  Idle = idle
  PRIO_NUM = 3
  WORD_BITS = 2
  Timeslice = {TRUE, FALSE}
PROPERTY DispatchSetsTimer
