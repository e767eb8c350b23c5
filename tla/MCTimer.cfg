SPECIFICATION Spec
CONSTANTS
  COUNTER_SIZE = 64
  DIV_UNIT = 16
  TIMA_SIZE = 4
  Freqs = {0, 1, 2}
INVARIANTS TypeOK DivCounts
PROPERTY TimerPeriod
