CONSTANTS
  Sources <- AllSources
  Statements <- AllStatements
  Programs = {}
  Leftovers <- SomeLeftovers
  Numerals <- SomeNumerals
  HexTails <- SingleLetters
  CharCodes <- SomeCharCodes
SPECIFICATION FairToolSpec
INVARIANTS
  NamesExpand
  FileIsLaidOut
  ClosedIsComplete
  ReferencesInFile
  LoadedWhole
  ListingTiles
  ListingShowsProgram
  ExampleAssembles
PROPERTIES
  ParserRecovers
  ToolsEnd
CHECK_DEADLOCK FALSE
