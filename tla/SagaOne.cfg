\* Two orders compete for the stock: retries, a replay and a batch
\* that is cut off in the way.
SPECIFICATION FairSagaSpec
CONSTANTS
  Dispatchers = {d1}
  Operators = {o1}
  EventTypes <- AllTypes
  SeedTypes <- OrderEvents
  ConsumerOf <- AllHandlers
  Outcomes <- AllOutcomes
  Unstorable = {}
  NoEvent <- NoFollowUp
  Limit = 2
  MaxAttempts = 1
  ConnectionsFail = FALSE
  MaxSeeds = 2
  MaxReplays = 1
  MaxInterruptions = 1
  Skus <- TwoSkus
  InitialStock <- Shelf
  Baskets <- RivalBasket
  PaymentMayFail = TRUE
INVARIANTS
  SagaTypeOK
  SameOrder
  StockConserved
  NeverOversold
  DecisionJustified
  ChargedOnce
PROPERTIES
  DecisionFinal
  OrdersDecided
CHECK_DEADLOCK FALSE
