\* Two requests with one key for the last ticket: a server, a dispatcher and an event
\* fail on the way, and the dead letter is replayed.
SPECIFICATION FairCheckoutSpec
CONSTANTS
  Dispatchers = {d1}
  Operators = {o1}
  EventTypes <- AllTypes
  SeedTypes <- OrderEvents
  ConsumerOf <- AllHandlers
  Outcomes <- AllOutcomes
  Unstorable = {}
  NoEvent <- NoFollowUp
  Limit = 2
  MaxAttempts = 1
  ConnectionsFail = FALSE
  MaxSeeds = 2
  MaxReplays = 1
  MaxInterruptions = 1
  Skus <- OneSku
  InitialStock <- OneLeft
  Baskets <- Ticket
  PaymentMayFail = TRUE
  Requests = {r1, r2}
  Keys = {"key"}
  NoBody = none
  MaxApiCrashes = 1
  MaxExpiries = 0
INVARIANTS
  CheckoutTypeOK
  PurchasedOnce
PROPERTIES
  ToldIsDecided
CHECK_DEADLOCK FALSE
