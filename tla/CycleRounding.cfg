\* Does create_limits round up?
SPECIFICATION Spec
CONSTANTS
  Builds <- MCBuilds
  TestMode = TRUE
  Limit = 10000000
  Iters = 1024
INVARIANT RoundedUp
