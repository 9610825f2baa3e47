SPECIFICATION TeamSpec
CONSTANTS
  a1 = a1
  a2 = a2
  a3 = a3
  n1 = n1
  n2 = n2
  r1 = r1
  Agents = {a1, a2, a3}
  Tasks = {1, 2}
  NoTask = 0
  NoOwner = NoOwner
  Notes = {}
  Requests = {r1}
  Letters <- MCLetters
  AppServer = {a1}
  Panes = {a2, a3}
  Planners = {}
  MaxSends = 1
  MaxDeletes = 1
  MaxRaises = 1
  MaxKills = 1
  MaxSignals = 0
SYMMETRY Alike
INVARIANTS OneWorker GivenUpIsReported
PROPERTY BoardSteps
CHECK_DEADLOCK FALSE
