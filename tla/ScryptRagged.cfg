\* A number of jobs that is not a multiple of the compute unit, as a build with
\* scrypt only can have (2000000 / Scrypt_ComputeUnit).
SPECIFICATION FairSpec
CONSTANTS
  NumPipes = 2
  Cslow = 3
  Iters = 2
  MaxDepth = 4
  NumScrypt = 7
  FifoDepth = 2
  Junk = Junk
PROPERTY RunReturns
CHECK_DEADLOCK FALSE
