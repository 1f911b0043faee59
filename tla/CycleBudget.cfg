\* The length of the test mode and the source's number of iterations.
SPECIFICATION Spec
CONSTANTS
  Builds <- MCBuilds
  TestMode = TRUE
  Limit = 10000000
  Iters = 1024
INVARIANTS ScryptFits NoRoomForMore LengthNear
