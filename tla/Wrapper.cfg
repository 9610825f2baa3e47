SPECIFICATION MCSpec
CONSTANTS
  a1 = a1
  a2 = a2
  Agents = {a1, a2}
  NoCard = NoCard
  Askers <- MCAskers
  CardsOf <- MCCardsOf
  Workers = 1
  MaxStarts = 3
  MaxFaults = 1
  Files = {"f", "g"}
  MaxEdits = 2
  MaxCalls = 2
  MaxStalls = 1
  Lead = lead
  Tasks = {1, 2, 3}
  None = none
  MaxKids = 2
  MaxToolCalls = 2
  MaxMoves = 1
INVARIANTS KnowsItsPeers CheckpointSaves NoTaskInItself
CHECK_DEADLOCK FALSE
