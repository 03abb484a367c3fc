\* One order with two lines for one SKU.
SPECIFICATION SagaSpec
CONSTANTS
  Dispatchers = {d1}
  Operators = {}
  EventTypes <- AllTypes
  SeedTypes <- OrderEvents
  ConsumerOf <- AllHandlers
  Outcomes <- AllOutcomes
  Unstorable = {}
  NoEvent <- NoFollowUp
  Limit = 1
  MaxAttempts = 1
  ConnectionsFail = FALSE
  MaxSeeds = 1
  MaxReplays = 0
  MaxInterruptions = 0
  Skus <- TwoSkus
  InitialStock <- Shelf
  Baskets <- TwoLines
  PaymentMayFail = TRUE
INVARIANTS
  NeverOversold
CHECK_DEADLOCK FALSE
