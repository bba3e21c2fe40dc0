SPECIFICATION Spec
CONSTANTS
  Untracked = Untracked
  NoConversion = NoConversion
  Letters <- MCVowels
  KanaForms <- MCKatakana
  Orders <- MCTwoOrders
  k1 = k1
  k2 = k2
  k3 = k3
  Ids <- MCIds
  StoreOutcomes <- MCStore
  MaxLearned = 1
SYMMETRY MCSymmetry
INVARIANTS
  TypeOK
  SegmentsTile
  UserChoiceStands
PROPERTIES
  LearnedLayoutShown
CHECK_DEADLOCK FALSE
