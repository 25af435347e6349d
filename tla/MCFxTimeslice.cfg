SPECIFICATION FairSlices
CONSTANTS
  Item = {a, b, c, idle}
  Idle = idle
  PRIO_NUM = 3
  WORD_BITS = 2
  Timeslice = {TRUE}
INVARIANTS SliceOfActive PeersShare EndedStaysOut
PROPERTY SlicedRoundRobin
