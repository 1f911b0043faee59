\* One call, or a run or two, which end.
SPECIFICATION HostSpec
CONSTANTS
  Width = 6
  Modulus = 64
  K <- MCK
  Bit <- MCBit
  And <- MCAnd
  Or <- MCOr
  Xor <- MCXor
  Not <- MCNot
  BigSigma0 <- MCBigSigma0
  BigSigma1 <- MCBigSigma1
  SmallSigma0 <- MCSmallSigma0
  SmallSigma1 <- MCSmallSigma1
  Blocks <- MCBlocks
  Hashes <- MCHashes
  Rotl <- RotateLeft
  Halves <- MCHalves
  CompressWord <- MCCompressWord
  SalsaWord <- MCSalsaWord
  Swab <- MCSwab
  InitialHash <- MCInitialHash
  LengthWord <- MCLengthWord
  Ipad = 54
  Opad = 28
  Iterations = 4
  NumScrypt = 2
  Headers <- MCHeaders
  TestHeader <- MCTestHeader
  BlockNonces = {0, 27, 44}
  Garbage <- MCGarbage
  MaxRuns = 2
INVARIANTS OutputIsScrypt BlockIsHashedTwice FaultsAreLogged
PROPERTIES SameAsKernel SalsaAsKernel
CHECK_DEADLOCK FALSE
