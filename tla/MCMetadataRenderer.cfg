CONSTANTS
  Timeslot = 2
  Gains = {"default", "loud", "soft"}
  DefaultGain = "default"
  Places = {"origin", "near", "far"}
  Origin = "origin"
  Between = "between"
  Unset = Unset
  Payloads <- AnyPayloads
  MaxAge = 8
  MaxDelay = 3
SPECIFICATION Spec
INVARIANTS
  NoPanic
  RampsLand
  GainsInForce
  RampsOnTime
