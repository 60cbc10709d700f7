CONSTANTS
  NBuf = 2
  Base = 3
  FirstData = 4
  Spc = 2
  PerSector = 3
  Total = 11
  FirstCard <- Card
  FirstFat <- Table
  NextFree = 7
  EntryNames <- NamesHere
  Commands <- CommandsHere
  Directories = {2, 3}
  MaxCrashes = 1
SPECIFICATION CarefulSpec
INVARIANTS DanglingBounded ListsAll
PROPERTIES NamesSpec ReturnsStored
CHECK_DEADLOCK FALSE
