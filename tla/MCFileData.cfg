CONSTANTS
  NBuf = 2
  Clusters = 3
  CSize = 2
  None = none
  MaxCount = 4
  MaxTrans = 4
SPECIFICATION Spec
INVARIANTS NoByteLost HandlesAgree RunningList
PROPERTY ReadsBack
CHECK_DEADLOCK FALSE
