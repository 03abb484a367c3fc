\* One dispatcher, one operator, the inventory handler only; two orders, so that
\* batches of two occur, and two replays, so that a copy is replayed as well.
SPECIFICATION Spec
CONSTANTS
  Dispatchers = {d1}
  Operators = {o1}
  EventTypes <- InventoryTypes
  SeedTypes <- OrderEvents
  ConsumerOf <- InventoryHandlers
  Outcomes <- InventoryOutcomes
  Unstorable = {"OrderCreated"}
  NoEvent <- NoFollowUp
  Limit = 2
  MaxAttempts = 2
  ConnectionsFail = FALSE
  MaxSeeds = 2
  MaxReplays = 2
  MaxInterruptions = 1
  MaxFacts = 5
INVARIANTS
  TypeOK
  DeadLettersNotApplied
  FactAppliedOnce
  ReplayedOnce
  RetryAccounting
PROPERTIES
  SettledForever
  ImplementsLifecycle
CHECK_DEADLOCK FALSE
