SPECIFICATION Spec
CONSTANTS
  Threads = {t1, t2}
  NONE = none
  MAX_WINS = 2
  Names = {a}
  IoFiles = {"tag"}
  EventWins = {1}
  SizeofBuf = 3
  Begins <- MCBegins
  Malformed = {3}
  MaxCalls = 6
INVARIANTS TypeOK FilesAccounted OneWindowPerName EventsWhole
PROPERTIES CallsReturn
CHECK_DEADLOCK FALSE
