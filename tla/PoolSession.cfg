\* Both coins, two jobs with any matches, and enough rounds to mine one again.
SPECIFICATION FairSpec
CONSTANTS
  Jobs = {j1, j2}
  NoJob = NoJob
  NumResults = 2
  NumNonces = 2
  MaxTries = 5
  MaxRounds = 3
INVARIANTS SessionInv BooksAgree SentOncePerResult NoMatchForgotten NoneCounts
PROPERTY FetchEnds
