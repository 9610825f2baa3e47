SPECIFICATION MCSpec
CONSTANTS
  a1 = a1
  a2 = a2
  Agents = {a1, a2}
  NoOwner = NoOwner
  MaxId = 3
  Calls <- MCCalls
  NewParents <- MCParents
  PickupAgents = {a1}
  MaxCrashes = 1
INVARIANTS NoDangling NoCircularWait LinksMirrored ParentsEnd
PROPERTIES CompletionIsFinal ImplementsBoard
