SPECIFICATION Spec
CONSTANTS
  Segments = 2
  Candidates = 2
  Cooldown = 3
  MaxTime = 7
  MaxLag = 2
  ClockSteps = 1
INVARIANTS
  NoMixedRanking
  EverySegmentAnswered
  OneLateRequest
