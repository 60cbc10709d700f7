CONSTANTS
  MaxOrder = 2
  NPages = 12
  Size <- SizeOf
SPECIFICATION AnyCallers
CONSTRAINT Unmet
INVARIANTS SharedOnlyByHeldMerge LostOnlyByHeldMerge WellFormedUntilHeldMerge CoalescedUntilHeldMerge
PROPERTIES HeldMergeShares PromiseUntilHeldMerge
CHECK_DEADLOCK FALSE
