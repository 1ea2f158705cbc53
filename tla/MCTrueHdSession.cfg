CONSTANTS
  AccessUnits <- AnyAccessUnits
  Nothing = Nothing
  Views = {v1}
  MaxUnits = 3
SPECIFICATION Spec
INVARIANTS
  TypeOK
  LentFramesLive
  LabelsKnown
  SplitAsAnnounced
  FramesReportChange
