CONSTANTS
  Programs <- ExampleImage
  PortBytes <- ExamplePort
  InterruptOps <- NoOps
  PortsRaise = FALSE
  HiFirst = TRUE
  RamBase = 16480
  ClockSize = 65536
  MaxRaises = 0
  MaxStarts = 2
SPECIFICATION Spec
INVARIANT ExampleResult
CHECK_DEADLOCK FALSE
