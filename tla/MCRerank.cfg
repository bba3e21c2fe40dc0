SPECIFICATION FairSpec
CONSTANTS
  j1 = j1
  j2 = j2
  Jobs <- MCJobs
  NoJob = NoJob
  MaxGen = 4
INVARIANTS
  NoStaleResult
  FlagHasPass
  PassHasFlag
PROPERTIES
  ImplementsPassService
  PassSettles
CHECK_DEADLOCK FALSE
