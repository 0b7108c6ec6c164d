CONSTANTS
  Threads = {t1, t2}
  NoThread = NoThread
  NumSlots = 2
  Calls = {"request"}
  Numbered = {t1}
  NumSeqs = 2
  Preempt = FALSE
SPECIFICATION FairSpec
INVARIANTS IInv QueueNeverFull ReplyMatches WakesOwner NoLostRequest NoLostSignal
PROPERTIES CallReturns
