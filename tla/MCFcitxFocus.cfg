\* A few kinds of keys are enough for a Space conversion that loses the focus.
SPECIFICATION MCSpec
CONSTANTS
  Parts <- MCFrontendOnly
  MaxSegments = 2
  MaxCandidates = 3
  Sizes <- MCSizes
  Totals <- MCTotals
  MaxText = 4
  KeyKinds <- MCFewKinds
  MaxEvents = 6
  MaxLetters = 3
  MaxTicks = 2
  NoTimer = NoTimer
  NoConversion = NoConversion
  Untracked = Untracked
  Nasals = {1, 3}
PROPERTIES
  FocusLossKeepsText
CHECK_DEADLOCK FALSE
