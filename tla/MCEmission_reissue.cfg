SPECIFICATION Spec
CONSTANTS
  Sales = {1}
  Notes = {}
  Unsent = {}
  Requests = {r1}
  Workers = {w1}
  Hooks = {}
  Reconciler = rec
  reconcileBatchSize = 1
  Ops <- Reissues
  MaxOps = 2
  Faults = {}
  MaxFaults = 0
  Outcomes = {"sending", "accepted"}
  Notified = {}
  Nil = nil
CHECK_DEADLOCK FALSE
INVARIANTS
  ReissueAwaitsAnswer
