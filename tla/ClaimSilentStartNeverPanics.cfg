CONSTANTS
  Timeslot = 3
  SampleRates = {48000}
  NoRate = NoRate
  NoFrame = NoFrame
  Frames <- LateStartFrames
  MaxStream = 8
SPECIFICATION Spec
INVARIANT SilentStartNeverPanics
