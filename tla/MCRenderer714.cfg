CONSTANTS
  Timeslot = 3
  SampleRates = {44100, 48000}
  NoRate = NoRate
  NoFrame = NoFrame
  Frames <- AnyFrames
  MaxStream = 7
SPECIFICATION Spec
INVARIANTS
  TypeOK
  SampleConservation
  SlotGrid
  ClockNeverBehindPayload
  UpdatesOnTime
  ObjectsHaveSources
  NoPanicWithoutFault
  AlignedRows
PROPERTY
  BlockContract
