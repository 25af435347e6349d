SPECIFICATION CondSpec
CONSTANTS
  Thread = {t1, t2}
  AbortEvent = {}
  NoEvent = none
  NoObject = none
  m1 = m1
  m2 = m2
  cv = cv
  WaitQueue = {m1, m2, cv}
  Mutex = {m1, m2}
  Cond = cv
  NoMutex = none
  InUse <- CondAndMutex
  Prio = {1, 2, 3}
  NewPrio = {3}
  NoOwner = nobody
  NoCeiling = disabled
  Ceiling <- OneCeiling
  Policy = {"FIFO", "PRIO"}
  MaxLocks = 1
SYMMETRY Symmetry
INVARIANTS CeilingExact OwnershipKnown NoIdleMutex NoSignalTooEarly
PROPERTIES CondRestoresMutex
\* All threads may have ended and all mutexes may be destroyed.
CHECK_DEADLOCK FALSE
