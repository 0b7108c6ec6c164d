CONSTANTS
  Threads = {t1}
  NoThread = NoThread
  NumSlots = 1
  Calls = {"request", "close_null"}
  Numbered = {}
  NumSeqs = 1
  Preempt = FALSE
SPECIFICATION FairSpec
PROPERTIES EveryCallReturns
CHECK_DEADLOCK FALSE
