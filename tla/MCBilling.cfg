SPECIFICATION BillingSpec
CONSTANTS
  Sales = {1}
  Notes = {1}
  Unsent = {}
  Requests = {r1}
  Workers = {w1}
  Hooks = {h1}
  Reconciler = rec
  reconcileBatchSize = 1
  Ops <- AllOps
  MaxOps = 1
  Faults <- AllFaults
  MaxFaults = 2
  Outcomes = {"sending", "retrying", "accepted", "rejected", "error"}
  Notified = {"accepted"}
  Nil = nil
  q1 = q1
  q2 = q2
  Payment = {q1, q2}
  Worker = {a1, a2}
  Period = 1
  Grace = 1
  Window = 0
  StrikeMax = 2
  LastDay = 3
  LastEnd = 4
  Nobody = nobody
SYMMETRY Symmetry
CHECK_DEADLOCK FALSE
INVARIANTS
  TypeOK
  AcceptedHasEvidence
  SettledOnce
  ReviewHasReceipt
  NoFreeDays
PROPERTIES
  SuspendsOnlyLate
