CONSTANTS
  N = 5
  MaxProc = 6
  Commands = {"proc", "time", "kill", "suicide"}
  Faults = TRUE
SPECIFICATION FairSpec
INVARIANTS SchedulerFindsProcess ContextsIntact
PROPERTIES NoResurrection EverySlotRuns
CHECK_DEADLOCK FALSE
