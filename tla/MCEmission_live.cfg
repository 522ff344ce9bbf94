SPECIFICATION FairSpec
CONSTANTS
  Sales = {1, 2, 3}
  Notes = {2, 3}
  Unsent = {1}
  Requests = {r1}
  Workers = {w1}
  Hooks = {h1}
  Reconciler = rec
  reconcileBatchSize = 2
  Ops <- Resends
  MaxOps = 1
  Faults <- DeliveryFaults
  MaxFaults = 1
  Outcomes = {"sending", "accepted", "error"}
  Notified = {"accepted", "error"}
  Nil = nil
CHECK_DEADLOCK FALSE
PROPERTIES
  AcceptanceSurfaces
  JobsDrain
