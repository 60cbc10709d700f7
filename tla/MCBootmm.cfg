SPECIFICATION Spec
CONSTANTS
  MaxPfn = 12
  KernelPages = 3
  MaxInfo = 3
  Types = {"kernel", "dynamic"}
  MM_KERNEL = "kernel"
  Requests = {1, 2, 3}
  Aligns = {1, 2}
  PageArray = 2
  Group = 4
INVARIANTS TableIsMap BuddyTakesFree
PROPERTIES NeverTwice FailsOnlyWhenFull
CHECK_DEADLOCK FALSE
