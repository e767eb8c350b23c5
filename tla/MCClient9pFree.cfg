SPECIFICATION Spec
CONSTANTS
  c1 = c1
  c2 = c2
  Callers = {c1, c2}
  NONE = NONE
  QUEUE_SIZE = 1
  Kinds = {"open"}
  Sizes = {1}
  Counts = {1}
  Faults = {}
  MaxFaults = 0
  MaxReqs = 1
  SockCap = 2
INVARIANT WaitersGone
