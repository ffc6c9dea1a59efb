SPECIFICATION FairFrontSpec
CONSTANTS
  StaleDigits <- OneDigit
  Scripts <- PieceScripts
  InitPeriods <- Two
  MaxAge = 3
  LinePace = FALSE
  Fronts <- Streams
  StaleTexts <- Stale
PROPERTIES
  QuietIsNoCommand
  EndsWithoutServer
  ReportsAgain
