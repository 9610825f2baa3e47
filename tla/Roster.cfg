SPECIFICATION Spec
CONSTANTS
  Adapters = {"a"}
  Natives = {"b"}
  MaxStarts = 2
  MaxCreates = 2
  MaxCrashes = 1
  Purge = TRUE
INVARIANTS RosterTells TeardownLeavesNobody
PROPERTIES BackOnlyByLateWrite TeardownEnds
CHECK_DEADLOCK FALSE
