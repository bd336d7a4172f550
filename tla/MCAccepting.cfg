CONSTANTS
  Programs <- AcceptingImage
  PortBytes <- QuietPort
  InterruptOps <- AnyKind
  PortsRaise = TRUE
  HiFirst = TRUE
  RamBase = 16480
  ClockSize = 1
  MaxRaises = 2
  MaxStarts = 1
SPECIFICATION Spec
PROPERTY NoRequestDropped
INVARIANT PromptDelivery
PROPERTY GateSpec
CHECK_DEADLOCK FALSE
