CONSTANTS
  Sale = {s1}
  Worker = {w1, w2}
  BillingMaxRetries = 2
  MaxPushes = 2
  MaxStops = 1
SPECIFICATION QueueSpec
CHECK_DEADLOCK FALSE
INVARIANTS
  QueueTypeOK
  OneHolder
  AcceptedNotDead
PROPERTIES
  JobsServed
