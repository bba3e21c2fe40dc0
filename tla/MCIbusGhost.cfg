\* A few kinds of keys are enough for a preedit that comes too late.
SPECIFICATION MCSpec
CONSTANTS
  Parts <- MCFrontendOnly
  MaxEngines = 1
  MaxTime = 3
  GraceTicks = 1
  WindowTicks = 2
  Never = Never
  c1 = c1
  r1 = r1
  Calls <- MCOneCall
  Tasks <- MCOneTask
  KeyKinds <- MCRefreshKinds
  MaxEvents = 5
  MaxLetters = 2
  MaxPolls = 1
  NoConversion = NoConversion
  Untracked = Untracked
  Nasals = {1}
INVARIANTS
  InsertedOnce
CHECK_DEADLOCK FALSE
