CONSTANTS
  Programs <- WaitingImage
  PortBytes <- QuietPort
  InterruptOps <- OnlyRST7
  PortsRaise = TRUE
  HiFirst = TRUE
  RamBase = 16480
  ClockSize = 1
  MaxRaises = 2
  MaxStarts = 1
SPECIFICATION FairSpec
PROPERTY AnswerEndsWait
CHECK_DEADLOCK FALSE
