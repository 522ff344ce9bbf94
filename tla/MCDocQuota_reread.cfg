SPECIFICATION Spec
CONSTANTS
  Docs = {d1, d2}
  Request = {c1, c2}
  Packages = {p1}
  Qty = 1
  Plan = plan
  Plans <- AllPlans
  Months = 2
  MaxChanges = 1
  None = none
SYMMETRY Symmetry
CHECK_DEADLOCK FALSE
INVARIANTS
  LoserRereads
