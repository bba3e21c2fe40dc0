SPECIFICATION Spec
CONSTANTS
  Untracked = Untracked
  NoConversion = NoConversion
  Letters <- MCLetters
  KanaForms <- MCRomaji
  Orders <- MCKanaOnly
  k1 = k1
  k2 = k2
  k3 = k3
  Ids <- MCIds
  StoreOutcomes <- MCReadOnly
  MaxLearned = 1
PROPERTIES
  CancelRestoresPreedit
CHECK_DEADLOCK FALSE
