\* Two requests overlap on an expired key and both renew it.
SPECIFICATION Spec
CONSTANTS
  Requests = {r1, r2, r3}
  Keys = {"key"}
  Bodies = {"tea", "coffee"}
  NoBody = none
  MaxCrashes = 0
  MaxExpiries = 1
INVARIANTS
  OneOrderPerKey
CHECK_DEADLOCK FALSE
