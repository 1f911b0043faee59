\* The same instance, against the class comment of BitcoinMinerKernel.
SPECIFICATION Spec
CONSTANTS
  NumPipes = 3
  NumRecords = 2
  NonceSpace = 10
  Base = 0
  Limit = 10
  Stale = Stale
INVARIANT AllMatchesSentBack
