CONSTANTS
  Programs <- MCPrograms
  PortBytes <- MCPortBytes
  InterruptOps <- MCInterruptOps
  PortsRaise = FALSE
  HiFirst = TRUE
  RamBase = 16480
  ClockSize = 65536
  MaxRaises = 0
  MaxStarts = 1
SPECIFICATION Spec
INVARIANT TypeOK
PROPERTY PcFollowsLength
PROPERTY FlagsWithinTable
PROPERTY WritesAreAddressed
CHECK_DEADLOCK FALSE
