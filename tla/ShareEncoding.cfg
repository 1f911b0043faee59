\* One attempt of either coin; it ends with the share or without one.
SPECIFICATION Spec
CONSTANTS
  Digit = 2
  DataWords = 3
  HashWords = 3
  DataTexts <- MCDataTexts
  TargetTexts <- MCTargetTexts
  Nonces <- MCNonces
  Digests <- MCDigests
INVARIANT
  SentIsHashed
  FoundIsBelow
CHECK_DEADLOCK FALSE
