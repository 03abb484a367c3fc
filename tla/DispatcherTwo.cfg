\* Two dispatchers race for the same rows; a handler's look-up may find no
\* connection, and a batch may be cut off.
SPECIFICATION FairSpec
CONSTANTS
  Dispatchers = {d1, d2}
  Operators = {}
  EventTypes <- PaymentTypes
  SeedTypes <- OrderEvents
  ConsumerOf <- PaymentHandlers
  Outcomes <- PaymentOutcomes
  Unstorable = {}
  NoEvent <- NoFollowUp
  Limit = 2
  MaxAttempts = 2
  ConnectionsFail = TRUE
  MaxSeeds = 1
  MaxReplays = 0
  MaxInterruptions = 1
  MaxFacts = 3
INVARIANTS
  EffectsExactlyOnce
  NothingLost
  OneFollowUp
  RetriesBounded
PROPERTIES
  SettledStaysSettled
  QueueDrains
  FactsSettle
CHECK_DEADLOCK FALSE
