CONSTANTS
  First = 1
  Last = 5
  Cards <- AllCards
  TagSlots = 3
  U16 = 5
SPECIFICATION Spec
INVARIANTS DisagreeOnlyOn FreshSequence
PROPERTY RecoveryEnds
CHECK_DEADLOCK FALSE
