\* An event whose effects cannot be stored stands at the head of the queue.
SPECIFICATION FairSpec
CONSTANTS
  Dispatchers = {d1}
  Operators = {}
  EventTypes <- InventoryTypes
  SeedTypes <- OrderEvents
  ConsumerOf <- InventoryHandlers
  Outcomes <- InventoryOutcomes
  Unstorable = {"OrderCreated"}
  NoEvent <- NoFollowUp
  Limit = 2
  MaxAttempts = 2
  ConnectionsFail = FALSE
  MaxSeeds = 1
  MaxReplays = 0
  MaxInterruptions = 0
  MaxFacts = 1
PROPERTIES
  QueueDrains
CHECK_DEADLOCK FALSE
