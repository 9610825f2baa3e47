SPECIFICATION Spec
CONSTANTS
  a1 = a1
  a2 = a2
  a3 = a3
  n1 = n1
  n2 = n2
  r1 = r1
  Agents = {a1}
  Tasks = {1}
  NoTask = 0
  NoOwner = NoOwner
  Notes = {n1, n2}
  Requests = {r1}
  Letters <- MCLetters
  AppServer = {a1}
  Panes = {a1}
  Planners = {a1}
  MaxSends = 2
  MaxDeletes = 1
  MaxRaises = 1
  MaxKills = 0
  MaxSignals = 1
PROPERTIES ShutdownHonored NotesHandled FreeTaskIsTaken
CHECK_DEADLOCK FALSE
