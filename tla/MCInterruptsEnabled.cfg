SPECIFICATION Spec
CONSTANTS
  Bits <- SmallBits
  Hardware <- SmallHardware
  MAX_CYCLES = 3
PROPERTY OnlyEnabled
