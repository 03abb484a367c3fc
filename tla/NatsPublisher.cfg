\* Two publishers and a brokerless dispatcher drain one outbox; a batch may be cut off.
SPECIFICATION FairNatsSpec
CONSTANTS
  Dispatchers = {d1}
  Operators = {}
  EventTypes <- InventoryTypes
  SeedTypes <- OrderEvents
  ConsumerOf <- InventoryHandlers
  Outcomes <- InventoryOutcomes
  Unstorable = {}
  NoEvent <- NoFollowUp
  Limit = 2
  MaxAttempts = 1
  ConnectionsFail = FALSE
  MaxSeeds = 1
  MaxReplays = 0
  MaxInterruptions = 1
  Publishers = {p1, p2}
INVARIANTS
  NatsTypeOK
  PublishedDelivered
  MessagesBounded
PROPERTIES
  QueueDrains
CHECK_DEADLOCK FALSE
