SPECIFICATION Spec
CONSTANTS
  Backends = {"acp", "headless", "kimi", "native"}
  Tasks = {1, 2}
  MaxTalk = 2
  MaxStarts = 2
  MaxCrashes = 1
INVARIANTS NoOrphans SpentIsForgotten
PROPERTIES OnlyGrantedWorkCompletes StopIsHonored
CHECK_DEADLOCK FALSE
