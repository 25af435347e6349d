SPECIFICATION Spec
CONSTANTS
  Thread = {t1, t2}
  AbortEvent = {}
  NoEvent = none
  NoObject = none
  send = send
  recv = recv
  WaitQueue <- Queues
  SendQ = send
  RecvQ = recv
  Prio = {1}
  NewPrio = {}
  Msg = {a, b}
  NoMsg = nomsg
  ToBack <- BothEnds
  ItemsMax = 2
  Policy = "FIFO"
SYMMETRY Symmetry
INVARIANT NoIdleWaiters
PROPERTY MessagesConserved
\* All threads may have ended and the queue may be destroyed.
CHECK_DEADLOCK FALSE
