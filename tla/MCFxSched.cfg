SPECIFICATION FairSpec
CONSTANTS
  Item = {a, b, c, idle}
  Idle = idle
  PRIO_NUM = 4
  WORD_BITS = 2
INVARIANTS TypeOK QueuesConsistent NoLostResched
PROPERTY PriorityScheduling RoundRobin
