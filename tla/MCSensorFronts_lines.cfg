SPECIFICATION FairFrontSpec
CONSTANTS
  StaleDigits <- NoDigit
  Scripts <- FrontScripts
  InitPeriods <- Two
  MaxAge = 2
  LinePace = TRUE
  Fronts <- AllFronts
  StaleTexts <- Stale
PROPERTIES
  ImplementsCommands
  SamplesSpaced
  OffInReachIsHonoured
  HeldButtonEnds
