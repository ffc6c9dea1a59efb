SPECIFICATION FairSpec
CONSTANTS
  StaleDigits <- NoDigit
  Scripts <- ScaleThenOff
  InitPeriods <- OneOrTwo
  MaxAge = 3
  LinePace = FALSE
PROPERTIES
  OffHonoured
