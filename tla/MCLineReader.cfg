CONSTANTS
  Files <- SmallFiles
  Names <- SomeNames
  DefaultCapacity = 18
  BlockSizes <- SomeSizes
  LineCapacity = 2
  TokensCapacity = 2
  LabelsCapacity = 1
  IfCapacity = 2
  TokenSize = 2
  LabelSize = 2
  AddressSize = 1
  SubstituteSize = 1
  Capacities <- SomeCapacities
SPECIFICATION Spec
INVARIANTS
  BlocksApart
  LineIntact
  TokensKept
  NumbersRemain
  QueuesKept
CHECK_DEADLOCK FALSE
