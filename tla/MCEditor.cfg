SPECIFICATION MyviSpec
CONSTANTS
  BUFFER_SIZE = 5
  ROW_LEN = 2
  COLUMN_LEN = 3
  TabWidth = 3
  Letters = {"a"}
  Files <- MCFiles
INVARIANT CursorShown
PROPERTIES LeavesOnlyUnbounded TextSpec
CHECK_DEADLOCK FALSE
