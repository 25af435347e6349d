SPECIFICATION FairSpec
CONSTANTS
  Thread = {t1, t2}
  AbortEvent = {ev}
  NoEvent = none
  NoObject = none
  WaitQueue = {sem}
  Sem = sem
  Prio = {1, 2}
  NewPrio = {1}
  MaxCount = 1
  Policy = {"FIFO", "PRIO"}
INVARIANTS TypeOK LinksConsistent SleeperCanWake WokenForReason NoIdleToken
PROPERTIES TokensConserved GrantOrder TimedWaitReturns NoStarvation
