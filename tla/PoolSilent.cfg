\* Against the comment of send_getwork_completion.
SPECIFICATION Spec
CONSTANTS
  Jobs = {j1, j2}
  NoJob = NoJob
  NumResults = 2
  NumNonces = 2
  MaxTries = 5
  MaxRounds = 3
INVARIANT CountedIsResponse
