SPECIFICATION SetupSpec
CONSTANTS
  Entries = {"e1", "e2"}
  Providers = {"codex", "gemini", "kimi"}
  MaxCommands = 3
  MaxAsks = 1
  MaxTouches = 1
  MaxFails = 1
INVARIANTS NoTrace EditsKept
PROPERTY AllOrNothing
CHECK_DEADLOCK FALSE
