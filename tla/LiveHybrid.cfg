\* Both kernels in the bitstream, NUM_WORKERS = 2 as in main.c.
SPECIFICATION Spec
CONSTANTS
  NumWorkers = 2
  Kernels = {"bc", "s"}
  Jobs = {j1, j2}
  None = None
SYMMETRY JobSymmetry
INVARIANT
  IInv
  RunUsesOwnJobs
  AnswersMatchJobs
  ActionsOwned
  BuffersOwned
PROPERTY
  AnswersStable
  ImplementsRounds
