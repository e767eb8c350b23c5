SPECIFICATION FairSpec
CONSTANTS
  c1 = c1
  c2 = c2
  Callers = {c1, c2}
  NONE = NONE
  QUEUE_SIZE = 1
  Kinds = {"read"}
  Sizes = {1, 3}
  Counts = {0, 1}
  Faults = {"0 byte", "disconnect"}
  MaxFaults = 1
  MaxReqs = 2
  SockCap = 2
PROPERTIES CallsReturn Implements
