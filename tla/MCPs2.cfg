CONSTANTS
  N = 2
  MaxKeys = 4
SPECIFICATION FairSpec
INVARIANTS EveryKeyOnce AsTyped
PROPERTY EveryKeyAppears
CHECK_DEADLOCK FALSE
