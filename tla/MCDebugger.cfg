SPECIFICATION Spec
CONSTANTS
  Addrs <- MCAddrs
  Sps = {0, 1}
  Keys = {"Up"}
  BUTTON_TIME = 2
  MAX_BREAKS = 3
  StepArgs <- MCStepArgs
  RanMax = 4
INVARIANTS TypeOK NeverRunsPast PressesEnd
CHECK_DEADLOCK FALSE
