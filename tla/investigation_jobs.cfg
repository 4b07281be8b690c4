SPECIFICATION FairSpec
CONSTANTS
  Text <- MCText
  Judgment <- MCJudgment
  Log <- MCLog
  MaxJobs = 2
  MaxReviews = 2
  MaxSearches = 2
INVARIANTS SlotsTrue ReviewsKept ViewHonest
PROPERTIES CompleteIsSaved ServerEnds
\* The server was closed.
CHECK_DEADLOCK FALSE
