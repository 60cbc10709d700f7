CONSTANTS
  NBuf = 2
  Sectors = {s1, s2, s3}
  Values = {blank, other}
  None = none
  Blank = blank
  MaxCrashes = 1
  Faults = FALSE
SPECIFICATION Spec
INVARIANTS OneBufferPerSector CopiesAgree
PROPERTIES FlushReachesCard TableSpec
CHECK_DEADLOCK FALSE
