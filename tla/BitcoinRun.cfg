\* Ten nonces on three pipes: the length is rounded up to twelve, two more than
\* there are nonces.  Up to four matches in a pipe meet a RAM of two.
SPECIFICATION Spec
CONSTANTS
  NumPipes = 3
  NumRecords = 2
  NonceSpace = 10
  Base = 0
  Limit = 10
  Stale = Stale
INVARIANTS RunInv OnlyHitsSubmitted RunEndsDrained NoHitMissed ReportedModulo SubmittedOnce
