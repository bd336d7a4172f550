CONSTANTS
  Programs <- Instructions
  Leftovers <- NoLeftovers
  Numerals <- SmallNumbers
  HexTails = {"B", "C"}
  CharCodes <- NoTexts
SPECIFICATION Spec
INVARIANT EncodesAsCommented
CHECK_DEADLOCK FALSE
