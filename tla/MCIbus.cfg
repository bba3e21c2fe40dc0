\* One context behind the gate and the clock of the grace window; in the
\* frontend every key, one call at a time and one refresh task.
SPECIFICATION MCFairSpec
CONSTANTS
  Parts <- MCParts
  MaxEngines = 1
  MaxTime = 3
  GraceTicks = 1
  WindowTicks = 2
  Never = Never
  c1 = c1
  r1 = r1
  Calls <- MCOneCall
  Tasks <- MCOneTask
  KeyKinds <- MCAllKinds
  MaxEvents = 5
  MaxLetters = 2
  MaxPolls = 1
  NoConversion = NoConversion
  Untracked = Untracked
  Nasals = {1}
INVARIANTS
  ReleaseFollowsPress
  OffHoldsNothing
  ScreenIsEngine
  FlagMirrorsEngine
  EveryLetterOnce
PROPERTIES
  GuardCatchesEnd
  ResultTaken
CHECK_DEADLOCK FALSE
