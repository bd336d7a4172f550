CONSTANTS
  Programs <- CountingImage
  PortBytes <- QuietPort
  InterruptOps <- OnlyRST7
  PortsRaise = FALSE
  HiFirst = TRUE
  RamBase = 16480
  ClockSize = 65536
  MaxRaises = 2
  MaxStarts = 2
SPECIFICATION CountedSpec
INVARIANT CountingResult
INVARIANT LeavesStack
PROPERTY GateSpec
PROPERTY StackSpec
PROPERTY HaltsAtLast
CHECK_DEADLOCK FALSE
