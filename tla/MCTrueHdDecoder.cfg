CONSTANTS
  AccessUnits <- EveryAccessUnit
  NoUnit = NoUnit
  Nothing = Nothing
  Asked = 3
  DefaultBlock = 1
  Capacity = 4
SPECIFICATION Spec
INVARIANTS
  TypeOK
  CopiesAgree
  RestartHeals
  PresentationDecoded
  FormatCommitted
