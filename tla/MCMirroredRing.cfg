CONSTANTS
  Step = 2
  Steps = 3
  Values = {0, 1, 2}
  Silence = 0
SPECIFICATION RingSpec
PROPERTY
  IsShiftRegister
