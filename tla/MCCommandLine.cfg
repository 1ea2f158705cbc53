CONSTANTS
  Runs <- SmallRuns
  Size = 4
  Claims = {0, 1, 2, 3}
  Sync = {0, 1, None}
  MinLength = 2
  Samples <- SmallSamples
  Formats <- SmallFormats
  Block = 2
  MaxWav = 10
  None = None
SPECIFICATION Spec
INVARIANT
  SuccessIsComplete
PROPERTY
  Terminates
CHECK_DEADLOCK FALSE
