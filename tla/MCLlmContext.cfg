SPECIFICATION FairSpec
CONSTANTS
  t1 = t1
  t2 = t2
  w1 = w1
  w2 = w2
  Threads <- MCThreads
  Workers <- MCWorkers
  Lengths <- MCLengths
  MaxCommits = 5
  MaxChars = 3
  Nobody = Nobody
INVARIANTS
  NoCommitLost
  ContextIsTail
  ScoringSeesCommits
PROPERTIES
  CommitReturns
