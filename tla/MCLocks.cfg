SPECIFICATION LocksSpec
CONSTANTS
  Sales = {1}
  Notes = {}
  Unsent = {}
  Requests = {r1, r2}
  Workers = {w1}
  Hooks = {h1}
  Reconciler = rec
  reconcileBatchSize = 1
  Ops <- Apart
  MaxOps = 2
  Faults = {}
  MaxFaults = 0
  Outcomes = {"sending", "accepted", "rejected"}
  Notified = {"accepted"}
  Nil = nil
  Tenants = {t1, t2}
  Clients = {c1, c2, c3}
  Conns = {1, 2}
  MaxPools = 1
  MaxPins = 1
  None = none
CHECK_DEADLOCK FALSE
INVARIANTS
  MutualExclusion
  LeakOnlyByReconcile
  JobNotLost
  PoolTypeOK
  Isolation
  CountedUse
  ClosedUseOnlyShared
  LeakOnlyShared
