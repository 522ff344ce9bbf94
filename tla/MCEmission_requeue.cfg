SPECIFICATION FairSpec
CONSTANTS
  Sales = {1}
  Notes = {}
  Unsent = {}
  Requests = {r1}
  Workers = {w1}
  Hooks = {h1}
  Reconciler = rec
  reconcileBatchSize = 1
  Ops <- Automatic
  MaxOps = 1
  Faults = {"crash"}
  MaxFaults = 1
  Outcomes = {"sending", "accepted"}
  Notified = {"accepted"}
  Nil = nil
CHECK_DEADLOCK FALSE
PROPERTIES
  StaleJobRequeued
