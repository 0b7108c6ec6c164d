CONSTANTS
  NumBlocks = 5
  SwapMod = 4
  EraseVal = 3
  Values = {v1, v2}
  Refusals = TRUE
  Reprogram = {"overwrite", "merge"}
  EmptyFs = EmptyFs
  Erased = Erased
  Marked = Marked
  Damaged = Damaged
  Torn = Torn
SPECIFICATION FairSpec
INVARIANTS IInv TypeOK ScratchErased ScratchUnmapped SwappedIsCommitted
PROPERTIES AtomicUpdates OnlyFormatLoses BootCompletes
