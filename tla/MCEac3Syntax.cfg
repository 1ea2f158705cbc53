CONSTANTS
  N = 2
  Frames <- SmallFrames
  Contents <- SmallContents
  Nothing = Nothing
  MaxFrames = 3
SPECIFICATION Spec
INVARIANTS
  TypeOK
  CouplingGate
  NothingUnread
  OffsetsOfThisFrame
  AuxNeverTorn
  ReadersInStep
