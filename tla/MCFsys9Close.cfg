SPECIFICATION Spec
CONSTANTS
  t1 = t1
  t2 = t2
  t3 = t3
  Threads = {t1, t2, t3}
  NONE = NONE
  MAX_OPEN_FILES = 1
  IOUNIT = 1
  Counts = {2}
  Refusals = {"walk", "open", "read", "write"}
  MaxCalls = 3
  BesideBlocked = TRUE
INVARIANT CloseWaits

