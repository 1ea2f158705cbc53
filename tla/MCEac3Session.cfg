CONSTANTS
  Subbands = 3
  Boundaries <- SmallBoundaries
  Timeslots = 4
  Units <- SmallUnits
  Nothing = Nothing
  MaxUnits = 4
SPECIFICATION Spec
INVARIANTS
  JocCarriesOn
  SlopesJoin
  StagesTogether
