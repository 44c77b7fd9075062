SPECIFICATION ListingSpec
CONSTANTS
  Forms <- MCForms
  Lengths = {16, 32, 48, 64}
  HalfBits = 32
  Files <- MCFiles
  RawBases = {0, 1021}
  Gap = 16
  Word = 1024
  MaxVector = 511
  Surroundings <- MCSurroundings
  StraySections <- MCStraySections
  StraySegments <- MCStraySegments
INVARIANTS
  LinesTile
  ReadersAgree
  PlacedApart
  ReadsStayInside
CHECK_DEADLOCK FALSE
