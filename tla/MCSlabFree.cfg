CONSTANTS
  MaxOrder = 2
  NPages = 4
  Size <- SizeOf
  PageSize = 64
  Word = 4
  Header = 8
  SizeKmem <- SizesOfKmem
  Requests <- SizesAsked
SPECIFICATION KfreeSpec
INVARIANT NrObjsIsAllocated
CHECK_DEADLOCK FALSE
