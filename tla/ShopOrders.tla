----------------------------- MODULE ShopOrders -----------------------------
(***************************************************************************)
(* The orders of the shop (ecommerce/service), their dispatches, the stock *)
(* they reserve (pkg/stockreserve) and their conversion to sales.  One     *)
(* product in one branch; an order takes one unit of it.                   *)
(*                                                                         *)
(* The order and its dispatch are two rows with locks of their own.  A     *)
(* request that takes one lock only is one step; one that takes a second   *)
(* lock, or decides on what it read before, stops between the two.  A      *)
(* plain SELECT of MySQL's REPEATABLE READ sees a snapshot: what a request *)
(* read that way is kept in its record.                                    *)
(***************************************************************************)
EXTENDS Requests, Integers, Sequences, FiniteSets

CONSTANTS
  Order,      \* web orders
  MaxStock,   \* bound: units on hand
  MaxSales    \* bound: sales made of the orders

ASSUME OrdersAssumption ==
  /\ IsFiniteSet(Order)
  /\ MaxStock \in Nat /\ MaxSales \in Nat
  /\ None \notin Order

VARIABLES
  status,     \* TenantEcommerceOrder.Status
  branched,   \* branch_id IS NOT NULL
  dispatch,   \* TenantEcommerceDispatch.Status, "NONE" before it exists
  history,    \* TenantEcommerceOrderStatusHistory
  travels,    \* TenantEcommerceDispatchStatusHistory
  marked,     \* converted_sale_id IS NOT NULL
  stock,      \* TenantProductStock.Quantity
  sold,       \* sales made of each order
  sales,      \* and of all of them, for the bound
  orderLock, dispLock,
  req,        \* where a request is, on which order, and what it read
  late,       \* history: requests whose check another commit has overtaken,
              \* or that went on without one because the sums did not answer
  overtaken,  \* history: one of them committed, or stock was corrected down
  doubled     \* history: orders whose conversions overlapped or were cut

rows      == <<status, branched, dispatch, history, travels, marked, stock, sold, sales>>
orderVars == <<rows, orderLock, dispLock, req, late, overtaken, doubled>>

OrderStatuses ==
  {"PENDIENTE", "CONFIRMADO", "EN_PREPARACION", "EMPAQUETADO",
   "LISTO_PARA_DESPACHO", "DESPACHADO", "ENTREGADO", "CANCELADO",
   "RECHAZADO", "DEVUELTO"}
DispatchStatuses ==
  {"DESPACHADO", "EN_TRANSITO", "EN_AGENCIA", "ENTREGADO", "DEVUELTO"}
OnTheWay == {"DESPACHADO", "EN_TRANSITO", "EN_AGENCIA"}

PanelTransitions ==
  ({"PENDIENTE"} \X {"CONFIRMADO", "RECHAZADO", "CANCELADO"})
    \cup ({"CONFIRMADO"} \X {"RECHAZADO", "CANCELADO", "EN_PREPARACION"})
    \cup ({"EN_PREPARACION"} \X {"CANCELADO", "EMPAQUETADO"})
    \cup ({"EMPAQUETADO"} \X {"CANCELADO", "LISTO_PARA_DESPACHO"})
    \cup ({"LISTO_PARA_DESPACHO"} \X {"CANCELADO"})
    \cup ({"ENTREGADO"} \X {"DEVUELTO"})

(* Slips of that table: the row that Phase 11 took out of it, a return of  *)
(* what is on the way, a step back from the counter.                       *)
transitionsBefore11 == PanelTransitions \cup {<<"DESPACHADO", "ENTREGADO">>}
transitionsOnTheWay == PanelTransitions \cup {<<"DESPACHADO", "DEVUELTO">>}
transitionsBack == PanelTransitions \cup {<<"LISTO_PARA_DESPACHO", "EN_PREPARACION">>}

orderTransitions == PanelTransitions

reservingStatuses ==
  {"CONFIRMADO", "EN_PREPARACION", "EMPAQUETADO", "LISTO_PARA_DESPACHO",
   "DESPACHADO", "ENTREGADO"}

Reserving == {o \in Order : status[o] \in reservingStatuses /\ branched[o] /\ ~marked[o]}
Reserved(except) == Cardinality(Reserving \ except)

Idle == [at |-> "idle", order |-> None, seen |-> 0]
Points == {"idle", "confirming", "returning", "delivering", "retrieving",
           "converting", "marking", "selling", "moving"}

OrdersInit ==
  /\ status = [o \in Order |-> "NONE"] /\ branched = [o \in Order |-> FALSE]
  /\ dispatch = [o \in Order |-> "NONE"]
  /\ history = [o \in Order |-> <<>>] /\ travels = [o \in Order |-> <<>>]
  /\ marked = [o \in Order |-> FALSE] /\ sold = [o \in Order |-> 0] /\ sales = 0
  /\ stock \in 0..MaxStock
  /\ orderLock = [o \in Order |-> None] /\ dispLock = [o \in Order |-> None]
  /\ req = [r \in Request |-> Idle]
  /\ late = {} /\ overtaken = FALSE /\ doubled = {}

(* A new status and its row of history, which says what was read before.   *)
SetStatus(o, from, to) ==
  /\ status' = [status EXCEPT ![o] = to]
  /\ history' = [history EXCEPT ![o] = Append(@, <<from, to>>)]

SetDispatchTo(o, to) ==
  /\ dispatch' = [dispatch EXCEPT ![o] = to]
  /\ travels' = [travels EXCEPT ![o] = Append(@, <<dispatch[o], to>>)]

(* SELECT ... FOR UPDATE of the order, kept until the commit; and without. *)
PlainRead(r, o) == orderLock' = orderLock
LockOrder(r, o) == orderLock' = [orderLock EXCEPT ![o] = r]

At(r, point, o, n) == req' = [req EXCEPT ![r] = [at |-> point, order |-> o, seen |-> n]]
Done(r) == req' = [req EXCEPT ![r] = Idle]

(* Requests that hold the answer of a check of availability.               *)
Checked == {q \in Request : req[q].at \in {"confirming", "converting", "selling", "moving"}}

(* r commits something that leaves less to the others; its own check may   *)
(* have been overtaken in turn.                                            *)
Takes(r) ==
  /\ overtaken' = (overtaken \/ r \in late)
  /\ late' = IF overtaken' THEN {} ELSE (late \cup Checked) \ {r}
Leaves(r) == late' = late \ {r} /\ UNCHANGED overtaken

(* The reservations could not be read and r goes on without them; and r    *)
(* commits what it did not check.                                          *)
Misses(r) == late' = IF overtaken THEN late ELSE late \cup {r}
TakesUnchecked == overtaken' = TRUE /\ late' = {}
-----------------------------------------------------------------------------
(* CreateOrder.                                                            *)
CreateOrder(o) ==
  /\ status[o] = "NONE"
  /\ SetStatus(o, "NONE", "PENDIENTE")
  /\ UNCHANGED <<branched, dispatch, travels, marked, stock, sold, sales, orderLock,
                 dispLock, req, late, overtaken, doubled>>

(* UpdateOrderStatus, when it takes no second lock: every transition but   *)
(* the return and the confirmation that names a branch.  A refusal (no     *)
(* such transition, payments to review) changes nothing.                   *)
UpdateOrderStatus(o, to) ==
  /\ orderLock[o] = None
  /\ <<status[o], to>> \in orderTransitions /\ to # "DEVUELTO"
  /\ SetStatus(o, status[o], to)
  /\ UNCHANGED <<branched, dispatch, travels, marked, stock, sold, sales, orderLock,
                 dispLock, req, late, overtaken, doubled>>

(* UpdateOrderStatus to CONFIRMADO in a branch, up to CheckOrder's sum of  *)
(* what other orders reserve.  The row of the order stays locked.          *)
ConfirmBegin(r, o) ==
  /\ req[r] = Idle /\ orderLock[o] = None /\ status[o] = "PENDIENTE"
  /\ LockOrder(r, o)
  /\ At(r, "confirming", o, Reserved({o}))
  /\ UNCHANGED <<rows, dispLock, late, overtaken, doubled>>

(* The row of the stock is read last, with a lock and from the latest      *)
(* data, and compared with the sum read before.  A product that cannot be  *)
(* read counts as one without stock to manage: the order goes on.          *)
OnHandEnough(r) == stock >= 1
Enough(r) == stock - req[r].seen >= 1

ConfirmEnd(r) ==
  LET o == req[r].order
  IN  /\ req[r].at = "confirming"
      /\ orderLock' = [orderLock EXCEPT ![o] = None] /\ Done(r)
      /\ \/ /\ SetStatus(o, "PENDIENTE", "CONFIRMADO")
            /\ branched' = [branched EXCEPT ![o] = TRUE]
            /\ (Enough(r) /\ Takes(r)) \/ TakesUnchecked
         \/ /\ ~Enough(r)
            /\ UNCHANGED <<status, history, branched>> /\ Leaves(r)
      /\ UNCHANGED <<dispatch, travels, marked, stock, sold, sales, dispLock, doubled>>

(* UpdateOrderStatus to DEVUELTO: the order's lock, then the dispatch's.   *)
ReturnBegin(r, o) ==
  /\ req[r] = Idle /\ orderLock[o] = None
  /\ <<status[o], "DEVUELTO">> \in orderTransitions
  /\ LockOrder(r, o)
  /\ At(r, "returning", o, 0)
  /\ UNCHANGED <<rows, dispLock, late, overtaken, doubled>>

(* syncDispatchOnOrderReturned and the commit.                             *)
ReturnEnd(r) ==
  LET o == req[r].order
  IN  /\ req[r].at = "returning" /\ dispLock[o] = None
      /\ SetStatus(o, "ENTREGADO", "DEVUELTO")
      /\ \/ dispatch[o] = "ENTREGADO" /\ SetDispatchTo(o, "DEVUELTO")
         \/ dispatch[o] # "ENTREGADO" /\ UNCHANGED <<dispatch, travels>>
      /\ orderLock' = [orderLock EXCEPT ![o] = None] /\ Done(r)
      /\ UNCHANGED <<branched, marked, stock, sold, sales, dispLock, late, overtaken, doubled>>
-----------------------------------------------------------------------------
(* CreateDispatch: it locks the order and inserts the dispatch.  Batch     *)
(* dispatching is this step and then, maybe, the conversion.               *)
CreateDispatch(o) ==
  /\ orderLock[o] = None
  /\ status[o] = "LISTO_PARA_DESPACHO" /\ dispatch[o] = "NONE"
  /\ SetStatus(o, "LISTO_PARA_DESPACHO", "DESPACHADO")
  /\ dispatch' = [dispatch EXCEPT ![o] = "DESPACHADO"]
  /\ UNCHANGED <<branched, travels, marked, stock, sold, sales, orderLock, dispLock,
                 req, late, overtaken, doubled>>

MarkDispatchInTransit(o) ==
  /\ dispLock[o] = None /\ dispatch[o] = "DESPACHADO"
  /\ SetDispatchTo(o, "EN_TRANSITO")
  /\ UNCHANGED <<status, history, branched, marked, stock, sold, sales, orderLock,
                 dispLock, req, late, overtaken, doubled>>

MarkDispatchInAgency(o) ==
  /\ dispLock[o] = None /\ dispatch[o] \in {"DESPACHADO", "EN_TRANSITO"}
  /\ SetDispatchTo(o, "EN_AGENCIA")
  /\ UNCHANGED <<status, history, branched, marked, stock, sold, sales, orderLock,
                 dispLock, req, late, overtaken, doubled>>

(* MarkDispatchDelivered and MarkDispatchReturned: the dispatch's lock,    *)
(* then the order's.                                                       *)
EndsInStage(at) == IF at = "delivering" THEN "ENTREGADO" ELSE "RETORNO"
Ends(at) == IF at = "delivering" THEN "ENTREGADO" ELSE "DEVUELTO"

CloseBegin(r, o, at) ==
  /\ req[r] = Idle /\ dispLock[o] = None /\ dispatch[o] \in OnTheWay
  /\ dispLock' = [dispLock EXCEPT ![o] = r]
  /\ At(r, at, o, 0)
  /\ UNCHANGED <<rows, orderLock, late, overtaken, doubled>>

CloseEnd(r) ==
  LET o == req[r].order
  IN  /\ req[r].at \in {"delivering", "retrieving"} /\ orderLock[o] = None
      /\ \/ /\ status[o] = "DESPACHADO"
            /\ SetStatus(o, "DESPACHADO", Ends(req[r].at)) /\ SetDispatchTo(o, Ends(req[r].at))
         \/ /\ status[o] # "DESPACHADO"
            /\ UNCHANGED <<status, history, dispatch, travels>>
      /\ dispLock' = [dispLock EXCEPT ![o] = None] /\ Done(r)
      /\ UNCHANGED <<branched, marked, stock, sold, sales, orderLock, late, overtaken, doubled>>
-----------------------------------------------------------------------------
(* ConvertToSale, up to the check of stock of SaleService.Create: no lock, *)
(* no look at the order's status, and what is reserved counts as nothing   *)
(* when it cannot be read (checkAvailableStock).                           *)
checkAvailableStock(r, except) ==
  \/ stock - Reserved(except) >= 1 /\ UNCHANGED late
  \/ stock >= 1 /\ Misses(r)

Converting(o) == {q \in Request : req[q].order = o /\ req[q].at \in {"converting", "marking"}}

AnyOrder(o) == status[o] # "NONE"
Convertible(o) == status[o] # "NONE" /\ ~marked[o]

ConvertBegin(r, o) ==
  /\ req[r] = Idle /\ Convertible(o)
  /\ checkAvailableStock(r, {o})
  /\ doubled' = IF Converting(o) = {} THEN doubled ELSE doubled \cup {o}
  /\ At(r, "converting", o, 0)
  /\ UNCHANGED <<rows, orderLock, dispLock, overtaken>>

(* The transaction of the sale: RecordMovementTx looks at the stock alone. *)
SaleCommit(r) ==
  LET o == req[r].order
  IN  /\ req[r].at = "converting" /\ sales < MaxSales
      /\ \/ /\ stock >= 1
            /\ stock' = stock - 1 /\ sold' = [sold EXCEPT ![o] = @ + 1]
            /\ sales' = sales + 1
            /\ At(r, "marking", o, 0) /\ Takes(r)
         \/ stock < 1 /\ Done(r) /\ Leaves(r) /\ UNCHANGED <<stock, sold, sales>>
      /\ UNCHANGED <<status, branched, dispatch, history, travels, marked,
                     orderLock, dispLock, doubled>>

(* The second transaction: the order's converted_sale_id.                  *)
MarkConverted(r) ==
  LET o == req[r].order
  IN  /\ req[r].at = "marking" /\ orderLock[o] = None
      /\ marked' = [marked EXCEPT ![o] = TRUE] /\ Done(r)
      /\ UNCHANGED <<status, branched, dispatch, history, travels, stock, sold, sales,
                     orderLock, dispLock, late, overtaken, doubled>>
-----------------------------------------------------------------------------
(* A sale at the counter: checkAvailableStock, then its transaction.       *)
PosBegin(r) ==
  /\ req[r] = Idle /\ checkAvailableStock(r, {})
  /\ At(r, "selling", None, 0)
  /\ UNCHANGED <<rows, orderLock, dispLock, overtaken, doubled>>

PosCommit(r) ==
  /\ req[r].at = "selling" /\ Done(r)
  /\ \/ stock >= 1 /\ stock' = stock - 1 /\ Takes(r)
     \/ stock < 1 /\ Leaves(r) /\ UNCHANGED stock
  /\ UNCHANGED <<status, branched, dispatch, history, travels, marked, sold, sales,
                 orderLock, dispLock, doubled>>

(* RecordMovementTx of a transfer or document that respects reservations:  *)
(* the type of operation is read first and fixes the snapshot.  When the   *)
(* reservations cannot be read only the stock is looked at.                *)
MoveBegin(r) ==
  /\ req[r] = Idle /\ At(r, "moving", None, Reserved({}))
  /\ UNCHANGED <<rows, orderLock, dispLock, late, overtaken, doubled>>

MoveCommit(r) ==
  /\ req[r].at = "moving" /\ Done(r)
  /\ \/ stock >= 1 /\ stock - 1 >= req[r].seen /\ stock' = stock - 1 /\ Takes(r)
     \/ stock >= 1 /\ stock' = stock - 1 /\ TakesUnchecked
     \/ ~(stock >= 1 /\ stock - 1 >= req[r].seen) /\ Leaves(r) /\ UNCHANGED stock
  /\ UNCHANGED <<status, branched, dispatch, history, travels, marked, sold, sales,
                 orderLock, dispLock, doubled>>

(* A movement in, or a correction of the stock to what was counted: neither *)
(* looks at the reservations.                                              *)
Adjust(n) ==
  /\ stock' = n
  /\ overtaken' = (overtaken \/ n < stock)
  /\ late' = IF overtaken' THEN {} ELSE late
  /\ UNCHANGED <<status, branched, dispatch, history, travels, marked, sold, sales,
                 orderLock, dispLock, req, doubled>>

(* An error, a lost connection or a restart: the transaction is rolled     *)
(* back.  A conversion whose sale is committed leaves the order unmarked.  *)
Fail(r) ==
  LET o == req[r].order
  IN  /\ req[r] # Idle
      /\ orderLock' = [p \in Order |-> IF orderLock[p] = r THEN None ELSE orderLock[p]]
      /\ dispLock' = [p \in Order |-> IF dispLock[p] = r THEN None ELSE dispLock[p]]
      /\ doubled' = IF req[r].at = "marking" THEN doubled \cup {o} ELSE doubled
      /\ Done(r) /\ Leaves(r)
      /\ UNCHANGED rows

OrdersNext ==
  \/ \E o \in Order :
       \/ CreateOrder(o) \/ CreateDispatch(o)
       \/ MarkDispatchInTransit(o) \/ MarkDispatchInAgency(o)
       \/ \E to \in OrderStatuses : UpdateOrderStatus(o, to)
  \/ \E r \in Request, o \in Order :
       \/ ConfirmBegin(r, o) \/ ReturnBegin(r, o) \/ ConvertBegin(r, o)
       \/ \E at \in {"delivering", "retrieving"} : CloseBegin(r, o, at)
  \/ \E r \in Request :
       \/ ConfirmEnd(r) \/ ReturnEnd(r) \/ CloseEnd(r)
       \/ SaleCommit(r) \/ MarkConverted(r)
       \/ PosBegin(r) \/ PosCommit(r) \/ MoveBegin(r) \/ MoveCommit(r) \/ Fail(r)
  \/ \E n \in 0..MaxStock : Adjust(n)

OrdersSpec == OrdersInit /\ [][OrdersNext]_orderVars
-----------------------------------------------------------------------------
(* The type of every variable of the orders' module.                       *)
OrdersTypeOK ==
  /\ status \in [Order -> OrderStatuses \cup {"NONE"}]
  /\ branched \in [Order -> BOOLEAN] /\ marked \in [Order -> BOOLEAN]
  /\ dispatch \in [Order -> DispatchStatuses \cup {"NONE"}]
  /\ history \in [Order -> Seq((OrderStatuses \cup {"NONE"}) \X OrderStatuses)]
  /\ travels \in [Order -> Seq(DispatchStatuses \X DispatchStatuses)]
  /\ stock \in 0..MaxStock /\ sold \in [Order -> Nat] /\ sales \in 0..MaxSales
  /\ orderLock \in [Order -> Request \cup {None}]
  /\ dispLock \in [Order -> Request \cup {None}]
  /\ req \in [Request -> [at : Points, order : Order \cup {None}, seen : Nat]]
  /\ late \in SUBSET Request /\ doubled \in SUBSET Order /\ overtaken \in BOOLEAN

(* The order and its dispatch always agree, though each is updated by      *)
(* requests that lock the other one second: on its way exactly while the   *)
(* order is DESPACHADO, delivered exactly while it is ENTREGADO.           *)
DispatchAgrees == \A o \in Order :
  /\ status[o] = "DESPACHADO" <=> dispatch[o] \in OnTheWay
  /\ status[o] = "ENTREGADO" <=> dispatch[o] = "ENTREGADO"
  /\ dispatch[o] = "DEVUELTO" => status[o] = "DEVUELTO"

(* The return of an order locks order then dispatch, closing a dispatch    *)
(* locks dispatch then order; no two requests ever wait for each other.    *)
Waits(r, o, lock) ==
  /\ req[r].order = o
  /\ \/ lock = "order" /\ req[r].at \in {"delivering", "retrieving"}
     \/ lock = "dispatch" /\ req[r].at = "returning" /\ dispatch[o] # "NONE"

NoLockCycle == \A o \in Order, r, q \in Request :
  ~ /\ orderLock[o] = r /\ Waits(r, o, "dispatch")
    /\ dispLock[o] = q /\ Waits(q, o, "order")

(* The histories tell what happened: each entry starts where the one       *)
(* before it ended and the last one ends in the row's status.  Concurrent  *)
(* transitions on one read of the status would break the chain.            *)
Chains(h, first, now) ==
  /\ h # <<>> => h[1][1] = first /\ h[Len(h)][2] = now
  /\ \A i \in 1..(Len(h) - 1) : h[i][2] = h[i + 1][1]

HistoryChains == \A o \in Order :
  /\ Chains(history[o], "NONE", status[o])
  /\ Chains(travels[o], "DESPACHADO", dispatch[o])

(* The stock covers every confirmed order whose sale has not been made, as *)
(* long as every commit that takes stock made its check and found it still *)
(* true.  The lock of CheckOrder on the stock row does not serialise       *)
(* confirmations: the sum of reservations is read before it; and a sum or  *)
(* a product that cannot be read lets the request go on.                   *)
ReservationCovered ==
  ~overtaken => stock >= Cardinality({o \in Reserving : sold[o] = 0})

(* An order becomes a second sale only when two conversions overlapped or  *)
(* one ended between its sale and the mark.                                *)
SoldOnce == \A o \in Order : sold[o] > 1 => o \in doubled

(* The stage the buyer sees (stageOf) and its only moves.                  *)
stageOf(orderStatus, dispatchStatus) ==
  CASE orderStatus = "NONE" -> "NONE"
    [] orderStatus = "PENDIENTE" -> "POR_CONFIRMAR"
    [] orderStatus \in {"CONFIRMADO", "EN_PREPARACION", "EMPAQUETADO"} -> "POR_PREPARAR"
    [] orderStatus = "LISTO_PARA_DESPACHO" -> "LISTO"
    [] orderStatus = "DESPACHADO" ->
         IF dispatchStatus = "EN_AGENCIA" THEN "EN_AGENCIA" ELSE "EN_CAMINO"
    [] orderStatus = "ENTREGADO" -> "ENTREGADO"
    [] orderStatus = "DEVUELTO" -> "RETORNO"
    [] OTHER -> "CANCELADO"

Journey == INSTANCE OrderJourney
             WITH stage <- [o \in Order |-> stageOf(status[o], dispatch[o])]

(* Orders implement the journey: the buyer never sees a stage go back, nor *)
(* a package that has not left.                                            *)
JourneyForward == Journey!JourneySpec
=============================================================================
