SPECIFICATION FairSpec
CONSTANTS
  Sales = {1, 2}
  Notes = {}
  Unsent = {1}
  Requests = {r1}
  Workers = {w1}
  Hooks = {h1}
  Reconciler = rec
  reconcileBatchSize = 1
  Ops <- Automatic
  MaxOps = 1
  Faults = {"drop"}
  MaxFaults = 1
  Outcomes = {"sending", "accepted"}
  Notified = {"accepted"}
  Nil = nil
CHECK_DEADLOCK FALSE
PROPERTIES
  FallbackReachesAll
