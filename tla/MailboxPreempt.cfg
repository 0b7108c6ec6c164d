CONSTANTS
  Threads = {t1, t2}
  NoThread = NoThread
  NumSlots = 2
  Calls = {"request"}
  Numbered = {}
  NumSeqs = 1
  Preempt = TRUE
SPECIFICATION Spec
INVARIANTS SlotExclusive
