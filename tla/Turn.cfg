SPECIFICATION Spec
CONSTANTS
  Tools = {"toolA", "toolB"}
  Window = 2
  Warns = {0, 2}
  Stops = {0, 3}
  Deadline = 3
  ReqTimeout = 1
  MaxRetries = 1
  MaxWals = 2
  MaxNotes = 2
  MaxSteers = 1
  MaxDeaths = 2
INVARIANTS OneChild SuccessIsReal
PROPERTIES SilenceIsReported TurnEnds
CHECK_DEADLOCK FALSE
