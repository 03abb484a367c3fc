\* Two orders compete for the stock; the second is refused.
SPECIFICATION FairSagaSpec
CONSTANTS
  Dispatchers = {d1}
  Operators = {}
  EventTypes <- AllTypes
  SeedTypes <- OrderEvents
  ConsumerOf <- AllHandlers
  Outcomes <- AllOutcomes
  Unstorable = {}
  NoEvent <- NoFollowUp
  Limit = 2
  MaxAttempts = 1
  ConnectionsFail = FALSE
  MaxSeeds = 2
  MaxReplays = 0
  MaxInterruptions = 0
  Skus <- TwoSkus
  InitialStock <- Shelf
  Baskets <- RivalBasket
  PaymentMayFail = TRUE
PROPERTIES
  RefusedOrdersCancelled
CHECK_DEADLOCK FALSE
