CONSTANTS
  Order = {o1, o2}
  Request = {r1, r2}
  Pay = {p1, p2}
  MaxStock = 2
  MaxSales = 2
  Total = 2
  maxCustomerPendingPayments = 1
  None = None
SPECIFICATION ShopSpec
SYMMETRY Symmetry
CHECK_DEADLOCK FALSE
INVARIANTS
  OrdersTypeOK
  DispatchAgrees
  NoLockCycle
  HistoryChains
  ReservationCovered
  SoldOnce
  NoOverpay
  StatusFresh
  ConversionTakesAll
PROPERTIES
  JourneyForward
  PreparedReviewed
