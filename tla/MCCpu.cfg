\* Programs of one or two instructions from many states.
SPECIFICATION Spec
CONSTANTS
  Starts <- MCStarts
INVARIANTS TypeOK
PROPERTIES Implements SizeMatches
\* The programs end.
CHECK_DEADLOCK FALSE
