CONSTANTS
  Wrap = 32
  Size = 1024
  Spa = 4
  Window = 16
  InputSteps = {0, 4}
  OutputSlips = {0, 2}
  Lengths = {6}
  Rates = {1, 2}
  Layouts = {1, 2}
  MaxUnits = 5
  MaxSyncs = 4
  MaxRefused = 1
SPECIFICATION ClockSpec
PROPERTY
  NoFalseBranch
CHECK_DEADLOCK FALSE
