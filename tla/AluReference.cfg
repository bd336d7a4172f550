CONSTANT Operands = {0, 1, 9, 15, 16, 127, 128, 154, 255}
SPECIFICATION Spec
INVARIANT AddIsSum
INVARIANT SubUndoesAdd
INVARIANT CmpCompares
INVARIANT RotatesInvert
INVARIANT LogicAgrees
INVARIANT DadIsSum
