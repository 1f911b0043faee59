\* Liveness with both kernels; one job, since progress does not depend on
\* which job it is (and symmetry is unsound for liveness).
SPECIFICATION FairSpec
CONSTANTS
  NumWorkers = 2
  Kernels = {"bc", "s"}
  Jobs = {j1}
  None = None
PROPERTY
  JobAnswered
  EveryWorkerServed
