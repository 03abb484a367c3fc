\* Two operators replay the same dead letter.
SPECIFICATION Spec
CONSTANTS
  Dispatchers = {d1}
  Operators = {o1, o2}
  EventTypes <- InventoryTypes
  SeedTypes <- OrderEvents
  ConsumerOf <- InventoryHandlers
  Outcomes <- InventoryOutcomes
  Unstorable = {}
  NoEvent <- NoFollowUp
  Limit = 2
  MaxAttempts = 1
  ConnectionsFail = FALSE
  MaxSeeds = 1
  MaxReplays = 2
  MaxInterruptions = 0
  MaxFacts = 1
INVARIANTS
  ReplayedOnce
CHECK_DEADLOCK FALSE
