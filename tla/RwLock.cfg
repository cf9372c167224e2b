SPECIFICATION FairSpec
CONSTANTS
  Threads = {t1, t2, t3, t4}
  NoThread = NoThread
  MaxTicket = 3
  MaxDepth = 2
INVARIANT WakeupsAreNotLost
PROPERTIES ImplementsFifoLock EveryoneGetsIn
