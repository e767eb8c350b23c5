SPECIFICATION FairSpec
CONSTANTS
  Bits <- SmallBits
  Hardware <- SmallHardware
  MAX_CYCLES = 3
INVARIANTS TypeOK MaskedUntilEnabled EiDelayed ReturnAddress
PROPERTIES AckedRequest RequestServed
