SPECIFICATION Spec
CONSTANTS
  Sales = {1}
  Notes = {}
  Unsent = {}
  Requests = {r1, r2}
  Workers = {w1}
  Hooks = {h1}
  Reconciler = rec
  reconcileBatchSize = 1
  Ops <- Manual
  MaxOps = 2
  Faults = {}
  MaxFaults = 0
  Outcomes = {"sending", "accepted"}
  Notified = {"accepted"}
  Nil = nil
CHECK_DEADLOCK FALSE
PROPERTIES
  NoForeignRelease
