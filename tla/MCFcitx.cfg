\* Every key, three letters and a timer of two ticks; up to three segments
\* in two slots, up to five candidates in a window of three.
SPECIFICATION MCFairSpec
CONSTANTS
  Parts <- MCParts
  MaxSegments = 2
  MaxCandidates = 3
  Sizes <- MCSizes
  Totals <- MCTotals
  MaxText = 4
  KeyKinds <- MCAllKinds
  MaxEvents = 6
  MaxLetters = 3
  MaxTicks = 2
  NoTimer = NoTimer
  NoConversion = NoConversion
  Untracked = Untracked
  Nasals = {1, 3}
INVARIANTS
  WindowShowsSelection
  PreeditShowsText
  PanelIsEngine
  EveryLetterOnce
PROPERTIES
  TimerStops
  ResultShown
CHECK_DEADLOCK FALSE
