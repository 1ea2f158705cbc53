CONSTANTS
  Gains = {"g1", "g2"}
  Places = {"p1", "p2"}
  Sizes = {"s1", "s2"}
  Payloads <- SmallPayloads
  Units <- SmallUnits
  Nothing = Nothing
  MaxUnits = 3
SPECIFICATION Spec
INVARIANTS
  RetainedIsLastSent
  AnchorsTellBeds
  ClientUpToDate
