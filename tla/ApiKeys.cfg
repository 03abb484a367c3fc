\* Three requests with one key or two, at the same time or after each other; a key
\* row may expire and a server process may die.
SPECIFICATION FairSpec
CONSTANTS
  Requests = {r1, r2, r3}
  Keys = {"key", "other"}
  Bodies = {"tea", "coffee"}
  NoBody = none
  MaxCrashes = 1
  MaxExpiries = 1
INVARIANTS
  TypeOK
  DuplicatesOverlap
  RepliesAgree
  RowMatchesOrder
  StuckOnlyByCrash
PROPERTIES
  EveryRequestEnds
CHECK_DEADLOCK FALSE
