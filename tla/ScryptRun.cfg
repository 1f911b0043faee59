\* Two batches on three pipes of seven slots; the scratchpad takes a block of
\* 16 cells and one of 12.
SPECIFICATION FairSpec
CONSTANTS
  NumPipes = 3
  Cslow = 7
  Iters = 4
  MaxDepth = 16
  NumScrypt = 42
  FifoDepth = 3
  Junk = Junk
INVARIANTS RunInv ScratchpadOwned ResultsInOrder CyclesExact
PROPERTY RunReturns
