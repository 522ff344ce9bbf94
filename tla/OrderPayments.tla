---------------------------- MODULE OrderPayments ----------------------------
(***************************************************************************)
(* The payments of one order of the shop (ecommerce/service/payments.go):  *)
(* registered by the staff or sent by the customer, validated or observed, *)
(* removed, and taken over by the sale the order becomes.  The order keeps *)
(* a payment status that every transaction recomputes from the payments it *)
(* read: its snapshot, fixed by its first plain SELECT.                    *)
(***************************************************************************)
EXTENDS Requests, Integers, FiniteSets, Sums

CONSTANTS
  Pay,        \* rows of TenantEcommerceOrderPayment, before and after they exist
  Total,      \* the order's total
  maxCustomerPendingPayments

ASSUME PaymentsAssumption ==
  /\ IsFiniteSet(Pay) /\ Total \in Nat \ {0}
  /\ maxCustomerPendingPayments \in Nat
  /\ None \notin Pay

VARIABLES
  pay,            \* the payments
  paymentStatus,  \* TenantEcommerceOrder.PaymentStatus
  closed,         \* the order is CANCELADO, RECHAZADO or DEVUELTO
  prepared,       \* it has passed EN_PREPARACION
  converted,      \* converted_sale_id IS NOT NULL
  taken,          \* the payments that went into the sale
  required,       \* the setting RequirePaymentValidation
  payLock, ordLock,
  tx,             \* the requests' transactions
  stale,          \* history: transactions whose snapshot a review or a removal has overtaken
  crossed,        \* history: one of them committed
  unseen          \* history: payments added or changed since a conversion read them

payVars == <<pay, paymentStatus, closed, prepared, converted, taken, required,
             payLock, ordLock, tx, stale, crossed, unseen>>

NoPay == [st |-> "NONE", amount |-> 0, customer |-> FALSE]
Rows == [st : {"NONE", "PENDIENTE", "VALIDADO", "OBSERVADO"},
         amount : 0..Total, customer : BOOLEAN]

Existing(rows) == {p \in Pay : rows[p].st # "NONE"}
With(rows, sts) == {p \in Pay : rows[p].st \in sts}
NotYetReviewed(rows) == With(rows, {"PENDIENTE"})
InReview(rows) == With(rows, {"PENDIENTE", "OBSERVADO"})
Amount(rows, S) == SumOf([p \in Pay |-> rows[p].amount], S)
Paid(rows) == Amount(rows, With(rows, {"VALIDADO"}))

(* summarize's status.                                                     *)
StatusOf(rows) ==
  CASE Paid(rows) >= Total -> "PAGADO"
    [] 0 < Paid(rows) /\ Paid(rows) < Total -> "ABONADO"
    [] OTHER -> "NO_APLICA"

NoRows == [p \in Pay |-> NoPay]
Free == [at |-> "idle", pay |-> None, row |-> NoPay, snap |-> NoRows, strict |-> FALSE]

PaymentsInit ==
  /\ pay = NoRows /\ paymentStatus = "NO_APLICA"
  /\ closed = FALSE /\ prepared = FALSE /\ converted = FALSE /\ taken = {}
  /\ required \in BOOLEAN
  /\ payLock = [p \in Pay |-> None] /\ ordLock = None
  /\ tx = [r \in Request |-> Free]
  /\ stale = {} /\ crossed = FALSE /\ unseen = {}

Open(r, at, p, row, strict) ==
  tx' = [tx EXCEPT ![r] = [at |-> at, pay |-> p, row |-> row, snap |-> pay, strict |-> strict]]
Close(r) == tx' = [tx EXCEPT ![r] = Free]

InProgress == {q \in Request : tx[q] # Free}
Reading(ats) == {q \in Request : tx[q].at \in ats}

(* r commits; the transactions in overtaken have read what it changes.     *)
Commit(r, overtaken) ==
  /\ crossed' = (crossed \/ r \in stale)
  /\ stale' = IF crossed' THEN {} ELSE (stale \cup overtaken) \ {r}
  /\ Close(r)
Rollback(r) == Close(r) /\ stale' = stale \ {r} /\ UNCHANGED crossed

(* A change of p that a conversion in progress has not read, or that comes *)
(* after one.                                                              *)
Unseen(p) ==
  unseen' = IF converted \/ Reading({"converting"}) # {} THEN unseen \cup {p} ELSE unseen
-----------------------------------------------------------------------------
(* AddOrderPayment, by the staff or the customer: the setting is read      *)
(* before the transaction, the payments once the order's row is locked.    *)
Unpaid == Total - Paid(pay)
Remaining == Total - Amount(pay, Existing(pay))

ReadOrder(r) == ordLock' = ordLock
LockForPayment(r) == ordLock' = r

Unused(p) == pay[p].st = "NONE" /\ \A q \in Request : tx[q].pay # p

AddBegin(r, p, n, byCustomer) ==
  LET pending  == byCustomer \/ required
      st       == IF pending THEN "PENDIENTE" ELSE "VALIDADO"
  IN  /\ tx[r] = Free /\ ordLock = None /\ ~closed
      /\ Unused(p)
      /\ n <= Remaining
      /\ byCustomer => Cardinality(With(pay, {"PENDIENTE"})) < maxCustomerPendingPayments
      /\ LockForPayment(r)
      /\ Open(r, "adding", p, [st |-> st, amount |-> n, customer |-> byCustomer], FALSE)
      /\ UNCHANGED <<pay, paymentStatus, closed, prepared, converted, taken,
                     required, payLock, stale, crossed, unseen>>

AddEnd(r) ==
  LET p == tx[r].pay
  IN  /\ tx[r].at = "adding"
      /\ pay' = [pay EXCEPT ![p] = tx[r].row]
      /\ paymentStatus' = StatusOf([tx[r].snap EXCEPT ![p] = tx[r].row])
      /\ ordLock' = None
      /\ Commit(r, Reading({"reviewing", "deleting"})) /\ Unseen(p)
      /\ UNCHANGED <<closed, prepared, converted, taken, required, payLock>>

(* ReviewOrderPayment: it locks the payment, whatever its status, and      *)
(* reads the order and its payments without a lock.                        *)
ReviewBegin(r, p, approve) ==
  /\ tx[r] = Free /\ payLock[p] = None /\ pay[p].st # "NONE" /\ ~converted
  /\ payLock' = [payLock EXCEPT ![p] = r]
  /\ Open(r, "reviewing", p,
          [pay[p] EXCEPT !.st = IF approve THEN "VALIDADO" ELSE "OBSERVADO"], FALSE)
  /\ UNCHANGED <<pay, paymentStatus, closed, prepared, converted, taken, required,
                 ordLock, stale, crossed, unseen>>

(* syncPaymentStatus updates the order: it waits for the row's lock.       *)
ReviewEnd(r) ==
  LET p == tx[r].pay
  IN  /\ tx[r].at = "reviewing" /\ ordLock = None
      /\ pay' = [pay EXCEPT ![p] = tx[r].row]
      /\ paymentStatus' = StatusOf([tx[r].snap EXCEPT ![p] = tx[r].row])
      /\ payLock' = [payLock EXCEPT ![p] = None]
      /\ Commit(r, InProgress) /\ Unseen(p)
      /\ UNCHANGED <<closed, prepared, converted, taken, required, ordLock>>

(* DeleteOrderPayment: no lock until the DELETE, which finds nothing when  *)
(* another request removed the payment; the snapshot still shows it then.  *)
DeleteBegin(r, p) ==
  /\ tx[r] = Free /\ pay[p].st # "NONE" /\ ~converted
  /\ Open(r, "deleting", p, NoPay, FALSE)
  /\ UNCHANGED <<pay, paymentStatus, closed, prepared, converted, taken, required,
                 payLock, ordLock, stale, crossed, unseen>>

DeleteEnd(r) ==
  LET p == tx[r].pay
      removed == pay[p].st # "NONE"
  IN  /\ tx[r].at = "deleting" /\ payLock[p] = None /\ ordLock = None
      /\ pay' = [pay EXCEPT ![p] = NoPay]
      /\ paymentStatus' = StatusOf(IF removed THEN [tx[r].snap EXCEPT ![p] = NoPay]
                                              ELSE tx[r].snap)
      /\ Commit(r, InProgress) /\ Unseen(p)
      /\ UNCHANGED <<closed, prepared, converted, taken, required, payLock, ordLock>>
-----------------------------------------------------------------------------
(* UpdateOrderStatus to EN_PREPARACION: with payments to validate the      *)
(* order waits (pendingReview), but it goes on when the setting or the     *)
(* payments cannot be read.                                                *)
NoPending == required => NotYetReviewed(pay) = {}
NoneInReview == required => InReview(pay) = {}

PrepareBegin(r) ==
  /\ tx[r] = Free /\ ordLock = None /\ ~closed /\ ~prepared
  /\ LockForPayment(r)
  /\ \/ NoneInReview /\ Open(r, "preparing", None, NoPay, required)
     \/ Open(r, "preparing", None, NoPay, FALSE)
  /\ UNCHANGED <<pay, paymentStatus, closed, prepared, converted, taken, required,
                 payLock, stale, crossed, unseen>>

PrepareEnd(r) ==
  /\ tx[r].at = "preparing"
  /\ prepared' = TRUE /\ ordLock' = None /\ Commit(r, {})
  /\ UNCHANGED <<pay, paymentStatus, closed, converted, taken, required, payLock, unseen>>

(* The order is cancelled, rejected or returned: the payments stay.        *)
CloseOrder ==
  /\ ordLock = None /\ ~closed /\ closed' = TRUE
  /\ UNCHANGED <<pay, paymentStatus, prepared, converted, taken, required,
                 payLock, ordLock, tx, stale, crossed, unseen>>

(* ConvertToSale: every payment validated, or it is refused; the sale is   *)
(* made of what was read, and the order marked, later.                     *)
ConversionReads(r) ==
  /\ tx[r] = Free /\ ~converted /\ InReview(pay) = {}
  /\ Open(r, "converting", None, NoPay, FALSE)
  /\ unseen' = IF Reading({"converting"}) = {} THEN {} ELSE unseen
  /\ UNCHANGED <<pay, paymentStatus, closed, prepared, converted, taken, required,
                 payLock, ordLock, stale, crossed>>

ConversionMarks(r) ==
  /\ tx[r].at = "converting" /\ ordLock = None
  /\ converted' = TRUE /\ taken' = Existing(tx[r].snap)
  /\ Close(r) /\ stale' = stale \ {r}
  /\ UNCHANGED <<pay, paymentStatus, closed, prepared, required, payLock, ordLock,
                 crossed, unseen>>

Toggle ==
  /\ required' = ~required
  /\ UNCHANGED <<pay, paymentStatus, closed, prepared, converted, taken, payLock,
                 ordLock, tx, stale, crossed, unseen>>

FailTx(r) ==
  /\ tx[r] # Free /\ Rollback(r)
  /\ payLock' = [p \in Pay |-> IF payLock[p] = r THEN None ELSE payLock[p]]
  /\ ordLock' = IF ordLock = r THEN None ELSE ordLock
  /\ UNCHANGED <<pay, paymentStatus, closed, prepared, converted, taken, required, unseen>>

PaymentsNext ==
  \/ \E r \in Request :
       \/ AddEnd(r) \/ ReviewEnd(r) \/ DeleteEnd(r) \/ PrepareEnd(r) \/ ConversionMarks(r)
       \/ PrepareBegin(r) \/ ConversionReads(r) \/ FailTx(r)
       \/ \E p \in Pay :
            \/ DeleteBegin(r, p)
            \/ \E b \in BOOLEAN : ReviewBegin(r, p, b)
            \/ \E n \in 1..Total, b \in BOOLEAN : AddBegin(r, p, n, b)
  \/ CloseOrder \/ Toggle

PaymentsSpec == PaymentsInit /\ [][PaymentsNext]_payVars
-----------------------------------------------------------------------------
(* The type of every variable of the payments' module.                     *)
PaymentsTypeOK ==
  /\ pay \in [Pay -> Rows]
  /\ paymentStatus \in {"NO_APLICA", "ABONADO", "PAGADO"}
  /\ {closed, prepared, converted, required, crossed} \subseteq BOOLEAN
  /\ taken \in SUBSET Pay /\ unseen \in SUBSET Pay /\ stale \in SUBSET Request
  /\ payLock \in [Pay -> Request \cup {None}] /\ ordLock \in Request \cup {None}
  /\ tx \in [Request ->
       [at : {"idle", "adding", "reviewing", "deleting", "preparing", "converting"},
        pay : Pay \cup {None}, row : Rows, snap : [Pay -> Rows], strict : BOOLEAN]]

(* However payments are added, reviewed and removed at once, what exists   *)
(* of them, validated or not, never exceeds the order's total, and the     *)
(* customer's vouchers without review never exceed their limit.            *)
NoOverpay ==
  /\ Amount(pay, Existing(pay)) <= Total
  /\ Cardinality({p \in With(pay, {"PENDIENTE"}) : pay[p].customer}) <= maxCustomerPendingPayments

(* The order's payment status is that of its payments, unless a review or  *)
(* a removal, which do not lock the order first, committed between the     *)
(* reading and the writing of another transaction.  Additions alone, or    *)
(* additions and reviews one after the other, keep it right.               *)
StatusFresh == ~crossed => paymentStatus = StatusOf(pay)

(* The sale of an order holds all its payments and only validated ones,    *)
(* but for those that were added or changed after the conversion read      *)
(* them: nothing in AddOrderPayment looks at the sale.                     *)
ConversionTakesAll == converted =>
  \A p \in Pay \ unseen :
    /\ p \in taken <=> pay[p].st # "NONE"
    /\ p \in taken => pay[p].st = "VALIDADO"

(* An order goes to preparation with no payment under review, if the       *)
(* request found the setting on and could read the payments: a review or   *)
(* an addition that goes on at the time waits for the order's row, and     *)
(* cannot put one under review between the look and the commit.  A request *)
(* that could not read either goes on unchecked (UpdateOrderStatus).       *)
PreparedReviewed ==
  [][\A r \in Request :
       (tx[r].at = "preparing" /\ prepared' # prepared /\ tx[r].strict)
       => InReview(pay) = {}]_payVars
=============================================================================
