CONSTANTS
  Parsed <- Redefinitions
  Numerals <- SmallNumbers
  HexTails = {"B", "X"}
  CharCodes <- NoTexts
SPECIFICATION FairSpec
PROPERTY SetRedefines
CHECK_DEADLOCK FALSE
