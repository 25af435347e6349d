SPECIFICATION Spec
CONSTANTS
  Thread = {t1, t2, t3}
  AbortEvent = {}
  NoEvent = none
  NoObject = none
  Prio = {1}
  NewPrio = {}
  rd = rd
  wr = wr
  barr = barr
  pool = pool
  evf = evf
  ev = ev
  f1 = f1
  f2 = f2
  WaitQueue <- MCWaitQueue
  RdWtbl = rd
  WrWtbl = wr
  NoWriter = none
  RwPolicy = {"FIFO"}
  MaxReaders = 4
  Barr = barr
  Barrier = 2
  Pool = pool
  BlkNum = 2
  Evf = evf
  Ev = ev
  MaxAsking = 2
  Flag = {f1, f2}
  Request <- MCRequest
  NoRequest = none
SYMMETRY Symmetry
PROPERTY KickSparesOwner
\* All threads may have ended.
CHECK_DEADLOCK FALSE
