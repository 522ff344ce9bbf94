SPECIFICATION SalesSpec
CONSTANTS
  Docs = {d1, d2}
  Request = {c1, c2}
  Packages = {p1}
  Qty = 1
  Plan = plan
  Plans <- AllPlans
  Months = 2
  MaxChanges = 1
  None = none
  s1 = s1
  s2 = s2
  s3 = s3
  Doc = {s1, s2, s3}
  Advance = 2
  MaxReturns = 1
SYMMETRY Symmetry
CHECK_DEADLOCK FALSE
INVARIANTS
  TypeOK
  BookTypeOK
  PlanSlots
  PackageSlots
  UndoneOnce
  ElectronicOnce
  VoucherAgrees
PROPERTIES
  WithinLimit
  PlanFirst
