CONSTANTS
  NumBlocks = 4
  SwapMod = 4
  EraseVal = 3
  Values = {v1}
  Refusals = TRUE
  Reprogram = {"overwrite"}
  EmptyFs = EmptyFs
  Erased = Erased
  Marked = Marked
  Damaged = Damaged
  Torn = Torn
SPECIFICATION SpecWithErrors
INVARIANTS ScratchUnmapped
