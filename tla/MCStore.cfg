\* Migration: two processes, one mishap and one write of version 1.
\* Learning: one process, three choices for two rows, two phrases for one, one layout.
\* Dictionary: two processes with a dialog each, two homophones.
SPECIFICATION MCSpec
CONSTANTS
  Parts <- MCParts
  w1 = w1
  w2 = w2
  f1 = f1
  f2 = f2
  l1 = l1
  Procs = {ibus, fcitx}
  Words = {w1, w2}
  LegacyWords = {w1}
  LegacyCounts <- MCLegacyCounts
  MaxCount = 2
  Mishaps = 1
  V1Writes = 1
  V1Overlaps = FALSE
  Learners = {ibus}
  Choices = {c1, c2, c3}
  Phrases <- MCPhrases
  Layouts <- MCLayouts
  NoLayout = NoLayout
  ScoreCap = 2
  LayoutCap = 1
  TopCount = 2
  ReadingOf <- MCReadingOf
  Users = {ibus, fcitx}
  Builtin <- MCBuiltin
  Typed = 2
  Files <- MCFiles
  Dialogs = {d1}
  None = None
  StoreMayFail = TRUE
INVARIANTS
  LegacyKept
  NotCountedTwice
  NoPhantomLearning
  MemoryIsStore
  LookupByFrequency
PROPERTIES
  EvictsWeakest
  OthersWordsSurvive
