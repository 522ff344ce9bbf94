----------------------------- MODULE Shop_proofs -----------------------------
(***************************************************************************)
(* Proofs about the shop: its orders, for any finite number of them, any   *)
(* requests and any stock; and the payments of an order, for any finite    *)
(* number of them, any total and any limit.                                *)
(*                                                                         *)
(* The orders first.  Under all of their proofs lies what a request may    *)
(* rely on between its steps (Held): a row it has locked stays as it found *)
(* it.                                                                     *)
(***************************************************************************)
EXTENDS ShopOrders, OrderPayments, Sums_proofs

(* The row a request has locked, and what it found there.                  *)
Held(r) ==
  LET o == req[r].order
      at == req[r].at
  IN  /\ at \in {"confirming", "returning", "delivering", "retrieving", "converting",
                 "marking"} => o \in Order
      /\ at = "confirming" => orderLock[o] = r /\ status[o] = "PENDIENTE"
      /\ at = "returning" => orderLock[o] = r /\ status[o] = "ENTREGADO"
      /\ at \in {"delivering", "retrieving"} =>
           dispLock[o] = r /\ dispatch[o] \in OnTheWay

(* Only what has been confirmed has a branch.                              *)
BranchedLate == \A o \in Order : status[o] \in {"NONE", "PENDIENTE"} => ~branched[o]

OInv == OrdersTypeOK /\ (\A r \in Request : Held(r)) /\ DispatchAgrees /\ BranchedLate

(* Names that stand for groups of updates are always expanded.             *)
USE DEF rows, orderVars, LockOrder

-----------------------------------------------------------------------------
(* The steps, one alternative per action, so that a proof can cite them.   *)
LEMMA OrdersSteps ==
  ASSUME OrdersNext
  PROVE  \/ \E o \in Order :
              \/ CreateOrder(o) \/ CreateDispatch(o)
              \/ MarkDispatchInTransit(o) \/ MarkDispatchInAgency(o)
              \/ \E to \in OrderStatuses : UpdateOrderStatus(o, to)
         \/ \E r \in Request, o \in Order :
              \/ ConfirmBegin(r, o) \/ ReturnBegin(r, o) \/ ConvertBegin(r, o)
              \/ \E at \in {"delivering", "retrieving"} : CloseBegin(r, o, at)
         \/ \E r \in Request :
              \/ ConfirmEnd(r) \/ ReturnEnd(r) \/ CloseEnd(r)
              \/ SaleCommit(r) \/ MarkConverted(r)
              \/ PosBegin(r) \/ PosCommit(r) \/ MoveBegin(r) \/ MoveCommit(r) \/ Fail(r)
         \/ \E n \in 0..MaxStock : Adjust(n)
BY DEF OrdersNext

(* The sum of the reservations is a number.                                *)
LEMMA ReservedNat == ASSUME NEW except PROVE Reserved(except) \in Nat
<1>1. Reserving \ except \subseteq Order BY DEF Reserving
<1>2. IsFiniteSet(Reserving \ except) BY <1>1, OrdersAssumption, FS_Subset
<1> QED BY <1>2, FS_CardinalityType DEF Reserved

(* A move of the panel goes from one status of an order to another.        *)
LEMMA TransitionTypes ==
  ASSUME NEW from, NEW to, <<from, to>> \in orderTransitions
  PROVE  /\ from \in {"PENDIENTE", "CONFIRMADO", "EN_PREPARACION", "EMPAQUETADO",
                      "LISTO_PARA_DESPACHO", "ENTREGADO"}
         /\ to \in {"CONFIRMADO", "RECHAZADO", "CANCELADO", "EN_PREPARACION",
                    "EMPAQUETADO", "LISTO_PARA_DESPACHO", "DEVUELTO"}
         /\ from = "ENTREGADO" <=> to = "DEVUELTO"
         /\ to = "CONFIRMADO" => from = "PENDIENTE"
BY DEF orderTransitions, PanelTransitions

LEMMA StatusTypes ==
  ASSUME OrdersTypeOK, NEW o \in Order, NEW from \in OrderStatuses \cup {"NONE"},
         NEW to \in OrderStatuses, SetStatus(o, from, to)
  PROVE  /\ status' \in [Order -> OrderStatuses \cup {"NONE"}]
         /\ history' \in [Order -> Seq((OrderStatuses \cup {"NONE"}) \X OrderStatuses)]
<1> DEFINE S == (OrderStatuses \cup {"NONE"}) \X OrderStatuses
<1>1. history \in [Order -> Seq(S)] /\ <<from, to>> \in S BY DEF OrdersTypeOK
<1>2. Append(history[o], <<from, to>>) \in Seq(S) BY <1>1
<1>3. history' = [history EXCEPT ![o] = Append(history[o], <<from, to>>)] BY DEF SetStatus
<1>4. history' \in [Order -> Seq(S)] BY <1>1, <1>2, <1>3
<1> QED BY <1>4 DEF SetStatus, OrdersTypeOK

LEMMA DispatchTypes ==
  ASSUME OrdersTypeOK, NEW o \in Order, dispatch[o] # "NONE",
         NEW to \in DispatchStatuses, SetDispatchTo(o, to)
  PROVE  /\ dispatch' \in [Order -> DispatchStatuses \cup {"NONE"}]
         /\ travels' \in [Order -> Seq(DispatchStatuses \X DispatchStatuses)]
<1> DEFINE S == DispatchStatuses \X DispatchStatuses
<1>1. travels \in [Order -> Seq(S)] /\ <<dispatch[o], to>> \in S BY DEF OrdersTypeOK
<1>2. Append(travels[o], <<dispatch[o], to>>) \in Seq(S) BY <1>1
<1>3. travels' = [travels EXCEPT ![o] = Append(travels[o], <<dispatch[o], to>>)]
  BY DEF SetDispatchTo
<1>4. travels' \in [Order -> Seq(S)] BY <1>1, <1>2, <1>3
<1> QED BY <1>4 DEF SetDispatchTo, OrdersTypeOK

-----------------------------------------------------------------------------
LEMMA InitOInv == ASSUME OrdersInit PROVE OInv
<1>1. OrdersTypeOK
  <2>1. req \in [Request -> [at : Points, order : Order \cup {None}, seen : Nat]]
    <3>1. Idle \in [at : Points, order : Order \cup {None}, seen : Nat]
      BY DEF Idle, Points
    <3> QED BY <3>1 DEF OrdersInit
  <2>2. /\ history \in [Order -> Seq((OrderStatuses \cup {"NONE"}) \X OrderStatuses)]
        /\ travels \in [Order -> Seq(DispatchStatuses \X DispatchStatuses)]
    BY DEF OrdersInit
  <2>3. /\ status \in [Order -> OrderStatuses \cup {"NONE"}]
        /\ dispatch \in [Order -> DispatchStatuses \cup {"NONE"}]
        /\ branched \in [Order -> BOOLEAN] /\ marked \in [Order -> BOOLEAN]
    BY DEF OrdersInit
  <2>4. /\ orderLock \in [Order -> Request \cup {None}]
        /\ dispLock \in [Order -> Request \cup {None}]
    BY DEF OrdersInit
  <2>5. stock \in 0..MaxStock /\ sold \in [Order -> Nat] /\ sales \in 0..MaxSales
    BY OrdersAssumption DEF OrdersInit
  <2>6. late \in SUBSET Request /\ doubled \in SUBSET Order /\ overtaken \in BOOLEAN
    BY DEF OrdersInit
  <2> QED BY <2>1, <2>2, <2>3, <2>4, <2>5, <2>6 DEF OrdersTypeOK
<1>2. \A r \in Request : Held(r) BY DEF OrdersInit, Held, Idle
<1>3. DispatchAgrees /\ BranchedLate
  BY DEF OrdersInit, DispatchAgrees, BranchedLate, OnTheWay
<1> QED BY <1>1, <1>2, <1>3 DEF OInv

LEMMA TakesTypes ==
  ASSUME OrdersTypeOK, NEW r \in Request, Takes(r) \/ Leaves(r) \/ TakesUnchecked
  PROVE  late' \in SUBSET Request /\ overtaken' \in BOOLEAN
<1>1. Checked \subseteq Request BY DEF Checked
<1> QED BY <1>1 DEF OrdersTypeOK, Takes, Leaves, TakesUnchecked

Slots == [at : Points, order : Order \cup {None}, seen : Nat]

LEMMA AtType ==
  ASSUME OrdersTypeOK, NEW r \in Request, NEW at \in Points, NEW o \in Order \cup {None},
         NEW n \in Nat, At(r, at, o, n)
  PROVE  req' \in [Request -> Slots]
BY DEF At, OrdersTypeOK, Slots

LEMMA DoneType ==
  ASSUME OrdersTypeOK, NEW r \in Request, Done(r) PROVE req' \in [Request -> Slots]
<1>1. Idle \in Slots BY DEF Idle, Slots, Points
<1> QED BY <1>1 DEF Done, OrdersTypeOK, Slots

LEMMA TypeStep == ASSUME OInv, OrdersNext PROVE OrdersTypeOK'
<1> USE OrdersAssumption, NoneIsNoRequest DEF OInv
<1>1. ASSUME NEW o \in Order, CreateOrder(o) PROVE OrdersTypeOK'
  BY <1>1, StatusTypes DEF CreateOrder, OrdersTypeOK, OrderStatuses
<1>2. ASSUME NEW o \in Order, CreateDispatch(o) PROVE OrdersTypeOK'
  BY <1>2, StatusTypes DEF CreateDispatch, OrdersTypeOK, OrderStatuses, DispatchStatuses
<1>3. ASSUME NEW o \in Order, MarkDispatchInTransit(o) \/ MarkDispatchInAgency(o)
      PROVE OrdersTypeOK'
  <2>1. dispatch[o] # "NONE" BY <1>3 DEF MarkDispatchInTransit, MarkDispatchInAgency
  <2>2. PICK to \in {"EN_TRANSITO", "EN_AGENCIA"} : SetDispatchTo(o, to)
    BY <1>3 DEF MarkDispatchInTransit, MarkDispatchInAgency
  <2>3. to \in DispatchStatuses BY DEF DispatchStatuses
  <2> QED BY <1>3, <2>1, <2>2, <2>3, DispatchTypes
          DEF MarkDispatchInTransit, MarkDispatchInAgency, OrdersTypeOK
<1>4. ASSUME NEW o \in Order, NEW to \in OrderStatuses, UpdateOrderStatus(o, to)
      PROVE OrdersTypeOK'
  <2>1. status[o] \in OrderStatuses \cup {"NONE"} BY DEF OrdersTypeOK
  <2> QED BY <1>4, <2>1, StatusTypes DEF UpdateOrderStatus, OrdersTypeOK
<1>5. ASSUME NEW r \in Request, NEW o \in Order,
             \/ ConfirmBegin(r, o) \/ ReturnBegin(r, o) \/ ConvertBegin(r, o)
             \/ \E at \in {"delivering", "retrieving"} : CloseBegin(r, o, at)
      PROVE OrdersTypeOK'
  <2>1. req' \in [Request -> Slots]
    <3>1. Reserved({o}) \in Nat /\ 0 \in Nat BY ReservedNat
    <3>2. {"confirming", "returning", "converting", "delivering", "retrieving"} \subseteq Points
      BY DEF Points
    <3>3. PICK at \in Points, n \in Nat : At(r, at, o, n)
      BY <1>5, <3>1, <3>2 DEF ConfirmBegin, ReturnBegin, ConvertBegin, CloseBegin
    <3> QED BY <3>3, AtType
  <2>2. /\ orderLock' \in [Order -> Request \cup {None}]
        /\ dispLock' \in [Order -> Request \cup {None}]
    <3>1. /\ orderLock' = orderLock \/ orderLock' = [orderLock EXCEPT ![o] = r]
          /\ dispLock' = dispLock \/ dispLock' = [dispLock EXCEPT ![o] = r]
      BY <1>5 DEF ConfirmBegin, ReturnBegin, ConvertBegin, CloseBegin
    <3>2. /\ orderLock \in [Order -> Request \cup {None}]
          /\ dispLock \in [Order -> Request \cup {None}]
      BY DEF OrdersTypeOK
    <3> QED BY <3>1, <3>2
  <2>3. doubled' \in SUBSET Order
    BY <1>5 DEF ConfirmBegin, ReturnBegin, ConvertBegin, CloseBegin, OrdersTypeOK
  <2>4. /\ UNCHANGED <<rows, overtaken>>
        /\ late' = late \/ late' = late \cup {r}
    BY <1>5 DEF ConfirmBegin, ReturnBegin, ConvertBegin, CloseBegin,
                checkAvailableStock, Misses
  <2> QED BY <2>1, <2>2, <2>3, <2>4 DEF OrdersTypeOK, Slots
<1>6. ASSUME NEW r \in Request, ConfirmEnd(r) PROVE OrdersTypeOK'
  <2> DEFINE o == req[r].order
  <2>1. o \in Order BY <1>6 DEF ConfirmEnd, Held
  <2>2. late' \in SUBSET Request /\ overtaken' \in BOOLEAN
    BY <1>6, TakesTypes DEF ConfirmEnd
  <2>3. CASE SetStatus(o, "PENDIENTE", "CONFIRMADO")
    <3>1. /\ status' \in [Order -> OrderStatuses \cup {"NONE"}]
          /\ history' \in [Order -> Seq((OrderStatuses \cup {"NONE"}) \X OrderStatuses)]
      BY <2>1, <2>3, StatusTypes DEF OrderStatuses
    <3> QED BY <1>6, <2>1, <2>2, <3>1, DoneType DEF ConfirmEnd, OrdersTypeOK, Slots
  <2>4. CASE UNCHANGED <<status, history, branched>>
    BY <1>6, <2>1, <2>2, <2>4, DoneType DEF ConfirmEnd, OrdersTypeOK, Slots
  <2> QED BY <1>6, <2>3, <2>4 DEF ConfirmEnd
<1>7. ASSUME NEW r \in Request, ReturnEnd(r) PROVE OrdersTypeOK'
  <2> DEFINE o == req[r].order
  <2>1. o \in Order BY <1>7 DEF ReturnEnd, Held
  <2>2. /\ status' \in [Order -> OrderStatuses \cup {"NONE"}]
        /\ history' \in [Order -> Seq((OrderStatuses \cup {"NONE"}) \X OrderStatuses)]
    BY <1>7, <2>1, StatusTypes DEF ReturnEnd, OrderStatuses
  <2>3. /\ dispatch' \in [Order -> DispatchStatuses \cup {"NONE"}]
        /\ travels' \in [Order -> Seq(DispatchStatuses \X DispatchStatuses)]
    BY <1>7, <2>1, DispatchTypes DEF ReturnEnd, OrdersTypeOK, DispatchStatuses
  <2> QED BY <1>7, <2>1, <2>2, <2>3, DoneType DEF ReturnEnd, OrdersTypeOK, Slots
<1>8. ASSUME NEW r \in Request, CloseEnd(r) PROVE OrdersTypeOK'
  <2> DEFINE o == req[r].order
  <2>1. o \in Order /\ dispatch[o] # "NONE" BY <1>8 DEF CloseEnd, Held, OnTheWay
  <2>2. Ends(req[r].at) \in OrderStatuses \cap DispatchStatuses
    BY <1>8 DEF CloseEnd, Ends, OrderStatuses, DispatchStatuses
  <2>3. /\ status' \in [Order -> OrderStatuses \cup {"NONE"}]
        /\ history' \in [Order -> Seq((OrderStatuses \cup {"NONE"}) \X OrderStatuses)]
    <3>1. "DESPACHADO" \in OrderStatuses BY DEF OrderStatuses
    <3> QED BY <1>8, <2>1, <2>2, <3>1, StatusTypes DEF CloseEnd, OrdersTypeOK
  <2>4. /\ dispatch' \in [Order -> DispatchStatuses \cup {"NONE"}]
        /\ travels' \in [Order -> Seq(DispatchStatuses \X DispatchStatuses)]
    BY <1>8, <2>1, <2>2, DispatchTypes DEF CloseEnd, OrdersTypeOK
  <2> QED BY <1>8, <2>1, <2>3, <2>4, DoneType DEF CloseEnd, OrdersTypeOK, Slots
<1>9. ASSUME NEW r \in Request, SaleCommit(r) PROVE OrdersTypeOK'
  <2>1. req[r].order \in Order BY <1>9 DEF SaleCommit, Held
  <2>2. late' \in SUBSET Request /\ overtaken' \in BOOLEAN
    BY <1>9, TakesTypes DEF SaleCommit
  <2>3. req' \in [Request -> Slots]
    <3>1. "marking" \in Points BY DEF Points
    <3> QED BY <1>9, <2>1, <3>1, AtType, DoneType DEF SaleCommit
  <2>4. stock' \in 0..MaxStock /\ sales' \in 0..MaxSales
    BY <1>9, OrdersAssumption DEF SaleCommit, OrdersTypeOK
  <2>5. sold' \in [Order -> Nat]
    <3> DEFINE o == req[r].order
    <3>1. sold \in [Order -> Nat] /\ sold[o] + 1 \in Nat BY <2>1 DEF OrdersTypeOK
    <3>2. sold' = sold \/ sold' = [sold EXCEPT ![o] = sold[o] + 1] BY <1>9 DEF SaleCommit
    <3> QED BY <3>1, <3>2
  <2> QED BY <1>9, <2>2, <2>3, <2>4, <2>5 DEF SaleCommit, OrdersTypeOK, Slots
<1>10. ASSUME NEW r \in Request, MarkConverted(r) PROVE OrdersTypeOK'
  BY <1>10, DoneType DEF MarkConverted, OrdersTypeOK, Slots
<1>11. ASSUME NEW r \in Request, PosBegin(r) \/ MoveBegin(r) PROVE OrdersTypeOK'
  <2>1. Reserved({}) \in Nat /\ 0 \in Nat BY ReservedNat
  <2>2. {"selling", "moving"} \subseteq Points BY DEF Points
  <2>3. req' \in [Request -> Slots]
    BY <1>11, <2>1, <2>2, AtType DEF PosBegin, MoveBegin
  <2>4. late' = late \/ late' = late \cup {r}
    BY <1>11 DEF PosBegin, MoveBegin, checkAvailableStock, Misses
  <2> QED BY <1>11, <2>3, <2>4 DEF PosBegin, MoveBegin, OrdersTypeOK, Slots
<1>12. ASSUME NEW r \in Request, PosCommit(r) \/ MoveCommit(r) PROVE OrdersTypeOK'
  <2>1. late' \in SUBSET Request /\ overtaken' \in BOOLEAN
    BY <1>12, TakesTypes DEF PosCommit, MoveCommit
  <2>2. stock' \in 0..MaxStock
    BY <1>12, OrdersAssumption DEF PosCommit, MoveCommit, OrdersTypeOK
  <2>3. req' \in [Request -> Slots] BY <1>12, DoneType DEF PosCommit, MoveCommit
  <2> QED BY <1>12, <2>1, <2>2, <2>3 DEF PosCommit, MoveCommit, OrdersTypeOK, Slots
<1>13. ASSUME NEW r \in Request, Fail(r) PROVE OrdersTypeOK'
  <2>1. late' \in SUBSET Request /\ overtaken' \in BOOLEAN
    BY <1>13, TakesTypes DEF Fail
  <2>2. doubled' \in SUBSET Order
    <3>1. req[r].at = "marking" => req[r].order \in Order BY DEF Held
    <3>2. doubled \in SUBSET Order BY DEF OrdersTypeOK
    <3> QED BY <1>13, <3>1, <3>2 DEF Fail
  <2>3. req' \in [Request -> Slots] BY <1>13, DoneType DEF Fail
  <2> QED BY <1>13, <2>1, <2>2, <2>3 DEF Fail, OrdersTypeOK, Slots
<1>14. ASSUME NEW n \in 0..MaxStock, Adjust(n) PROVE OrdersTypeOK'
  BY <1>14 DEF Adjust, OrdersTypeOK
<1> QED BY <1>1, <1>2, <1>3, <1>4, <1>5, <1>6, <1>7, <1>8, <1>9, <1>10, <1>11, <1>12,
           <1>13, <1>14, OrdersSteps

-----------------------------------------------------------------------------
(* What a request relies on survives what the others do: nobody touches a  *)
(* row that another one has locked, and the order and the dispatch agree   *)
(* again after every commit.                                               *)
LEMMA HeldOther ==
  ASSUME NEW q \in Request, Held(q), req'[q] = req[q],
         \A o \in Order : orderLock[o] = q /\ status[o] \in {"PENDIENTE", "ENTREGADO"}
                            => orderLock'[o] = q /\ status'[o] = status[o],
         \A o \in Order : dispLock[o] = q /\ dispatch[o] \in OnTheWay
                            => dispLock'[o] = q /\ dispatch'[o] \in OnTheWay
  PROVE  Held(q)'
BY DEF Held

LEMMA HeldIdle == ASSUME NEW q \in Request, req'[q] = Idle PROVE Held(q)'
BY DEF Held, Idle

Agree(o) == /\ status[o] = "DESPACHADO" <=> dispatch[o] \in OnTheWay
            /\ status[o] = "ENTREGADO" <=> dispatch[o] = "ENTREGADO"
            /\ dispatch[o] = "DEVUELTO" => status[o] = "DEVUELTO"
            /\ status[o] \in {"NONE", "PENDIENTE"} => ~branched[o]

LEMMA AgreeAll == (\A o \in Order : Agree(o)) <=> DispatchAgrees /\ BranchedLate
BY DEF Agree, DispatchAgrees, BranchedLate

LEMMA HeldStep == ASSUME OInv, OrdersNext PROVE (\A q \in Request : Held(q))'
<1> USE NoneIsNoRequest
<1> SUFFICES ASSUME NEW q \in Request PROVE Held(q)' OBVIOUS
<1>0. /\ Held(q) /\ (\A o \in Order : Agree(o))
      /\ req \in [Request -> Slots]
      /\ status \in [Order -> OrderStatuses \cup {"NONE"}]
      /\ dispatch \in [Order -> DispatchStatuses \cup {"NONE"}]
      /\ orderLock \in [Order -> Request \cup {None}]
      /\ dispLock \in [Order -> Request \cup {None}]
  BY AgreeAll DEF OInv, OrdersTypeOK, Slots
<1>1. ASSUME NEW o \in Order, CreateOrder(o) PROVE Held(q)'
  BY <1>0, <1>1, HeldOther DEF CreateOrder, SetStatus
<1>2. ASSUME NEW o \in Order, CreateDispatch(o) PROVE Held(q)'
  BY <1>0, <1>2, HeldOther DEF CreateDispatch, SetStatus, OnTheWay
<1>3. ASSUME NEW o \in Order, MarkDispatchInTransit(o) \/ MarkDispatchInAgency(o)
      PROVE Held(q)'
  BY <1>0, <1>3, HeldOther DEF MarkDispatchInTransit, MarkDispatchInAgency, SetDispatchTo
<1>4. ASSUME NEW o \in Order, NEW to \in OrderStatuses, UpdateOrderStatus(o, to)
      PROVE Held(q)'
  BY <1>0, <1>4, HeldOther DEF UpdateOrderStatus, SetStatus
<1>5. ASSUME NEW r \in Request, NEW o \in Order,
             \/ ConfirmBegin(r, o) \/ ReturnBegin(r, o) \/ ConvertBegin(r, o)
             \/ \E at \in {"delivering", "retrieving"} : CloseBegin(r, o, at)
      PROVE Held(q)'
  <2>1. CASE q # r
    <3>1. req'[q] = req[q]
      BY <1>0, <1>5, <2>1 DEF ConfirmBegin, ReturnBegin, ConvertBegin, CloseBegin, At
    <3>2. /\ UNCHANGED <<status, dispatch>>
          /\ \/ orderLock' = orderLock
             \/ orderLock[o] = None /\ orderLock' = [orderLock EXCEPT ![o] = r]
          /\ \/ dispLock' = dispLock
             \/ dispLock[o] = None /\ dispLock' = [dispLock EXCEPT ![o] = r]
      <4>1. CASE ConfirmBegin(r, o) BY <4>1 DEF ConfirmBegin
      <4>2. CASE ReturnBegin(r, o) BY <4>2 DEF ReturnBegin
      <4>3. CASE ConvertBegin(r, o) BY <4>3 DEF ConvertBegin
      <4>4. ASSUME NEW at \in {"delivering", "retrieving"}, CloseBegin(r, o, at)
            PROVE /\ UNCHANGED <<status, dispatch, orderLock>>
                  /\ dispLock[o] = None /\ dispLock' = [dispLock EXCEPT ![o] = r]
        BY <4>4 DEF CloseBegin
      <4> QED BY <1>5, <4>1, <4>2, <4>3, <4>4
    <3> QED BY <1>0, <3>1, <3>2, HeldOther
  <2>2. CASE q = r /\ ConfirmBegin(r, o)
    <3>1. req'[r] = [at |-> "confirming", order |-> o, seen |-> Reserved({o})]
      BY <1>0, <2>2 DEF ConfirmBegin, At
    <3>2. orderLock'[o] = r /\ status'[o] = "PENDIENTE"
      BY <1>0, <2>2 DEF ConfirmBegin
    <3> QED BY <2>2, <3>1, <3>2 DEF Held
  <2>3. CASE q = r /\ ReturnBegin(r, o)
    <3>1. status[o] = "ENTREGADO" BY <2>3, TransitionTypes DEF ReturnBegin
    <3>2. req'[r] = [at |-> "returning", order |-> o, seen |-> 0]
      BY <1>0, <2>3 DEF ReturnBegin, At
    <3>3. orderLock'[o] = r /\ status'[o] = "ENTREGADO"
      BY <1>0, <2>3, <3>1 DEF ReturnBegin
    <3> QED BY <2>3, <3>2, <3>3 DEF Held
  <2>4. CASE q = r /\ ConvertBegin(r, o)
    <3>1. req'[r] = [at |-> "converting", order |-> o, seen |-> 0]
      BY <1>0, <2>4 DEF ConvertBegin, At
    <3> QED BY <2>4, <3>1 DEF Held
  <2>5. ASSUME NEW how \in {"delivering", "retrieving"}, q = r, CloseBegin(r, o, how)
        PROVE Held(q)'
    <3>1. req'[q] = [at |-> how, order |-> o, seen |-> 0]
      BY <1>0, <2>5 DEF CloseBegin, At
    <3>2. dispLock'[o] = q /\ dispatch'[o] \in OnTheWay
      BY <1>0, <2>5 DEF CloseBegin
    <3> QED BY <3>1, <3>2 DEF Held
  <2> QED BY <1>5, <2>1, <2>2, <2>3, <2>4, <2>5
<1>6. ASSUME NEW r \in Request, ConfirmEnd(r) \/ ReturnEnd(r) \/ CloseEnd(r) PROVE Held(q)'
  <2> DEFINE o == req[r].order
  <2>1. CASE q = r
    BY <1>0, <1>6, <2>1, HeldIdle DEF ConfirmEnd, ReturnEnd, CloseEnd, Done
  <2>2. CASE q # r /\ ConfirmEnd(r)
    <3>1. o \in Order /\ orderLock[o] = r BY <2>2 DEF OInv, ConfirmEnd, Held
    <3>2. req'[q] = req[q] BY <1>0, <2>2 DEF ConfirmEnd, Done
    <3> QED BY <1>0, <2>2, <3>1, <3>2, HeldOther DEF ConfirmEnd, SetStatus
  <2>3. CASE q # r /\ ReturnEnd(r)
    <3>1. o \in Order /\ orderLock[o] = r BY <2>3 DEF OInv, ReturnEnd, Held
    <3>2. req'[q] = req[q] BY <1>0, <2>3 DEF ReturnEnd, Done
    <3> QED BY <1>0, <2>3, <3>1, <3>2, HeldOther DEF ReturnEnd, SetStatus, SetDispatchTo
  <2>4. CASE q # r /\ CloseEnd(r)
    <3>1. o \in Order /\ dispLock[o] = r BY <2>4 DEF OInv, CloseEnd, Held
    <3>2. req'[q] = req[q] BY <1>0, <2>4 DEF CloseEnd, Done
    <3> QED BY <1>0, <2>4, <3>1, <3>2, HeldOther DEF CloseEnd, SetStatus, SetDispatchTo
  <2> QED BY <1>6, <2>1, <2>2, <2>3, <2>4
<1>7. ASSUME NEW r \in Request,
             \/ SaleCommit(r) \/ MarkConverted(r) \/ PosBegin(r) \/ PosCommit(r)
             \/ MoveBegin(r) \/ MoveCommit(r)
      PROVE Held(q)'
  <2> DEFINE o == req[r].order
  <2>1. UNCHANGED <<status, dispatch, orderLock, dispLock>>
    BY <1>7 DEF SaleCommit, MarkConverted, PosBegin, PosCommit, MoveBegin, MoveCommit
  <2>2. \/ Done(r)
        \/ req[r].at = "converting" /\ At(r, "marking", o, 0)
        \/ \E at \in {"selling", "moving"}, n \in Nat : At(r, at, None, n)
    BY <1>7, ReservedNat
       DEF SaleCommit, MarkConverted, PosBegin, PosCommit, MoveBegin, MoveCommit
  <2>3. CASE q # r
    <3>1. req'[q] = req[q] BY <1>0, <2>2, <2>3 DEF At, Done
    <3> QED BY <1>0, <2>1, <3>1, HeldOther
  <2>4. CASE q = r /\ Done(r) BY <1>0, <2>4, HeldIdle DEF Done
  <2>5. CASE q = r /\ req[r].at = "converting" /\ At(r, "marking", o, 0)
    <3>1. o \in Order BY <1>0, <2>5 DEF Held
    <3>2. req'[r] = [at |-> "marking", order |-> o, seen |-> 0] BY <1>0, <2>5 DEF At
    <3> QED BY <2>5, <3>1, <3>2 DEF Held
  <2>6. ASSUME NEW at \in {"selling", "moving"}, NEW n \in Nat, q = r, At(r, at, None, n)
        PROVE Held(q)'
    <3>1. req'[r] = [at |-> at, order |-> None, seen |-> n] BY <1>0, <2>6 DEF At
    <3>2. req'[q].at \in {"selling", "moving"} BY <2>6, <3>1
    <3> QED BY <3>2 DEF Held
  <2> QED BY <2>2, <2>3, <2>4, <2>5, <2>6
<1>8. ASSUME NEW r \in Request, Fail(r) PROVE Held(q)'
  <2>1. CASE q = r BY <1>0, <1>8, <2>1, HeldIdle DEF Fail, Done
  <2>2. CASE q # r
    <3>1. req'[q] = req[q] BY <1>0, <1>8, <2>2 DEF Fail, Done
    <3> QED BY <1>0, <1>8, <2>2, <3>1, HeldOther DEF Fail
  <2> QED BY <2>1, <2>2
<1>9. ASSUME NEW n \in 0..MaxStock, Adjust(n) PROVE Held(q)'
  BY <1>0, <1>9, HeldOther DEF Adjust
<1> QED BY <1>1, <1>2, <1>3, <1>4, <1>5, <1>6, <1>7, <1>8, <1>9, OrdersSteps

LEMMA AgreeStep == ASSUME OInv, OrdersNext PROVE DispatchAgrees' /\ BranchedLate'
<1> SUFFICES ASSUME NEW p \in Order PROVE Agree(p)'
  BY DEF Agree, DispatchAgrees, BranchedLate
<1> USE DEF OnTheWay
<1>0. /\ Agree(p) /\ (\A r \in Request : Held(r))
      /\ status \in [Order -> OrderStatuses \cup {"NONE"}]
      /\ dispatch \in [Order -> DispatchStatuses \cup {"NONE"}]
      /\ branched \in [Order -> BOOLEAN]
  BY AgreeAll DEF OInv, OrdersTypeOK
<1>1. ASSUME NEW o \in Order, CreateOrder(o) PROVE Agree(p)'
  BY <1>0, <1>1 DEF CreateOrder, SetStatus, Agree
<1>2. ASSUME NEW o \in Order, CreateDispatch(o) PROVE Agree(p)'
  BY <1>0, <1>2 DEF CreateDispatch, SetStatus, Agree
<1>3. ASSUME NEW o \in Order, MarkDispatchInTransit(o) \/ MarkDispatchInAgency(o)
      PROVE Agree(p)'
  BY <1>0, <1>3 DEF MarkDispatchInTransit, MarkDispatchInAgency, SetDispatchTo, Agree
<1>4. ASSUME NEW o \in Order, NEW to \in OrderStatuses, UpdateOrderStatus(o, to)
      PROVE Agree(p)'
  <2>1. /\ status[o] \in {"PENDIENTE", "CONFIRMADO", "EN_PREPARACION", "EMPAQUETADO",
                          "LISTO_PARA_DESPACHO"}
        /\ to \notin {"DESPACHADO", "ENTREGADO", "DEVUELTO", "NONE", "PENDIENTE"}
    BY <1>4, TransitionTypes DEF UpdateOrderStatus
  <2> QED BY <1>0, <1>4, <2>1 DEF UpdateOrderStatus, SetStatus, Agree
<1>5. ASSUME NEW r \in Request, ConfirmEnd(r) PROVE Agree(p)'
  <2>1. req[r].order \in Order /\ status[req[r].order] = "PENDIENTE"
    BY <1>0, <1>5 DEF ConfirmEnd, Held
  <2> QED BY <1>0, <1>5, <2>1 DEF ConfirmEnd, SetStatus, Agree
<1>6. ASSUME NEW r \in Request, ReturnEnd(r) PROVE Agree(p)'
  <2>1. req[r].order \in Order /\ status[req[r].order] = "ENTREGADO"
    BY <1>0, <1>6 DEF ReturnEnd, Held
  <2> QED BY <1>0, <1>6, <2>1 DEF ReturnEnd, SetStatus, SetDispatchTo, Agree
<1>7. ASSUME NEW r \in Request, CloseEnd(r) PROVE Agree(p)'
  <2> DEFINE o == req[r].order
             to == Ends(req[r].at)
  <2>1. o \in Order /\ dispatch[o] \in OnTheWay BY <1>0, <1>7 DEF CloseEnd, Held
  <2>2. to \in {"ENTREGADO", "DEVUELTO"} BY DEF Ends
  <2>3. CASE p # o
    <3>1. status'[p] = status[p] /\ dispatch'[p] = dispatch[p] /\ branched' = branched
      BY <1>0, <1>7, <2>3 DEF CloseEnd, SetStatus, SetDispatchTo
    <3> QED BY <1>0, <3>1 DEF Agree
  <2>4. CASE p = o
    <3>1. status[o] = "DESPACHADO" BY <1>0, <2>1, <2>4 DEF Agree
    <3>2. status'[p] = to /\ dispatch'[p] = to
      BY <1>0, <1>7, <2>1, <2>4, <3>1 DEF CloseEnd, SetStatus, SetDispatchTo
    <3> QED BY <2>2, <3>2 DEF Agree
  <2> QED BY <2>3, <2>4
<1>8. ASSUME UNCHANGED <<status, branched, dispatch>> PROVE Agree(p)'
  BY <1>0, <1>8 DEF Agree
<1>9. ASSUME NEW r \in Request, NEW o \in Order,
             \/ ConfirmBegin(r, o) \/ ReturnBegin(r, o) \/ ConvertBegin(r, o)
             \/ \E at \in {"delivering", "retrieving"} : CloseBegin(r, o, at)
      PROVE UNCHANGED <<status, branched, dispatch>>
  BY <1>9 DEF ConfirmBegin, ReturnBegin, ConvertBegin, CloseBegin
<1>10. ASSUME NEW r \in Request,
              \/ SaleCommit(r) \/ MarkConverted(r) \/ PosBegin(r) \/ PosCommit(r)
              \/ MoveBegin(r) \/ MoveCommit(r) \/ Fail(r)
       PROVE UNCHANGED <<status, branched, dispatch>>
  BY <1>10 DEF SaleCommit, MarkConverted, PosBegin, PosCommit, MoveBegin, MoveCommit, Fail
<1>11. ASSUME NEW n \in 0..MaxStock, Adjust(n) PROVE UNCHANGED <<status, branched, dispatch>>
  BY <1>11 DEF Adjust
<1> QED BY <1>1, <1>2, <1>3, <1>4, <1>5, <1>6, <1>7, <1>8, <1>9, <1>10, <1>11, OrdersSteps

LEMMA Inductive == ASSUME OInv, [OrdersNext]_orderVars PROVE OInv'
<1>1. CASE OrdersNext BY <1>1, TypeStep, HeldStep, AgreeStep DEF OInv
<1>2. CASE UNCHANGED orderVars
  BY <1>2 DEF OInv, OrdersTypeOK, Held, DispatchAgrees, BranchedLate
<1> QED BY <1>1, <1>2

LEMMA OrdersInvariant == OrdersSpec => []OInv
<1>1. OrdersInit => OInv BY InitOInv
<1>2. OInv /\ [OrdersNext]_orderVars => OInv' BY Inductive
<1> QED BY <1>1, <1>2, PTL DEF OrdersSpec

(* Every variable of the orders' module keeps its type: no request of a    *)
(* row's lock, no status outside the table.                                *)
THEOREM OrdersTypeCorrect == OrdersSpec => []OrdersTypeOK
<1>1. OInv => OrdersTypeOK BY DEF OInv
<1> QED BY <1>1, OrdersInvariant, PTL

(* An order and its dispatch agree at every commit, whatever the order in  *)
(* which CreateDispatch, the marks of the dispatch and the return of the   *)
(* order take their locks.                                                 *)
THEOREM DispatchFollowsOrder == OrdersSpec => []DispatchAgrees
<1>1. OInv => DispatchAgrees BY DEF OInv
<1> QED BY <1>1, OrdersInvariant, PTL

(* The two orders of locking never meet: an order that can be returned has *)
(* a dispatch already delivered, which nobody can be closing.              *)
THEOREM LocksNeverCross == OrdersSpec => []NoLockCycle
<1>1. ASSUME OInv PROVE NoLockCycle
  <2>1. SUFFICES ASSUME NEW o \in Order, NEW r \in Request, NEW q \in Request,
                        Waits(r, o, "dispatch"), Waits(q, o, "order"), dispatch[o] # "NONE"
                 PROVE  FALSE
    BY DEF NoLockCycle, Waits
  <2>2. Held(r) /\ Held(q) /\ Agree(o) BY <1>1, AgreeAll DEF OInv
  <2>3. status[o] = "ENTREGADO" BY <2>1, <2>2 DEF Waits, Held
  <2>4. dispatch[o] \in OnTheWay BY <2>1, <2>2 DEF Waits, Held
  <2> QED BY <2>2, <2>3, <2>4 DEF Agree
<1>2. OInv => NoLockCycle BY <1>1
<1> QED BY <1>2, OrdersInvariant, PTL

-----------------------------------------------------------------------------
(* One sale of each order: of an order whose conversions never overlapped  *)
(* and were never cut, one conversion is under way at most, it started     *)
(* before there was a sale, and a sale is marked or about to be.           *)
Once(o) ==
  o \notin doubled =>
    /\ \A r, q \in Converting(o) : r = q
    /\ \A r \in Converting(o) : req[r].at = "converting" => sold[o] = 0
    /\ sold[o] \in {0, 1}
    /\ sold[o] = 1 => marked[o] \/ \E r \in Converting(o) : req[r].at = "marking"

LEMMA OnceSame ==
  ASSUME NEW o, Once(o), o \notin doubled' => o \notin doubled,
         sold'[o] = sold[o], marked'[o] = marked[o],
         \A q \in Request : (q \in Converting(o) <=> (q \in Converting(o))')
                            /\ (q \in Converting(o) => req'[q].at = req[q].at)
  PROVE  Once(o)'
<1>1. Converting(o)' = Converting(o) BY DEF Converting
<1> QED BY <1>1 DEF Once, Converting

LEMMA OnceStep ==
  ASSUME OInv, OrdersNext, \A o \in Order : Once(o)
  PROVE  \A o \in Order : Once(o)'
<1> SUFFICES ASSUME NEW p \in Order PROVE Once(p)' OBVIOUS
<1>0. /\ Once(p) /\ req \in [Request -> Slots]
      /\ sold \in [Order -> Nat] /\ marked \in [Order -> BOOLEAN]
      /\ doubled \subseteq Order
  BY DEF OInv, OrdersTypeOK, Slots
<1>1. ASSUME UNCHANGED <<sold, marked, req, doubled>> PROVE Once(p)'
  BY <1>0, <1>1, OnceSame DEF Converting
<1>2. ASSUME NEW o \in Order,
             \/ CreateOrder(o) \/ CreateDispatch(o)
             \/ MarkDispatchInTransit(o) \/ MarkDispatchInAgency(o)
             \/ \E to \in OrderStatuses : UpdateOrderStatus(o, to)
      PROVE UNCHANGED <<sold, marked, req, doubled>>
  BY <1>2 DEF CreateOrder, CreateDispatch, MarkDispatchInTransit, MarkDispatchInAgency,
              UpdateOrderStatus
<1>3. ASSUME NEW n \in 0..MaxStock, Adjust(n) PROVE UNCHANGED <<sold, marked, req, doubled>>
  BY <1>3 DEF Adjust
<1>4. ASSUME NEW r \in Request, UNCHANGED <<sold, marked, doubled>>,
             \A q \in Request \ {r} : req'[q] = req[q],
             req[r].at \notin {"converting", "marking"},
             req'[r].at \notin {"converting", "marking"}
      PROVE Once(p)'
  BY <1>0, <1>4, OnceSame DEF Converting
<1>5. ASSUME NEW r \in Request, NEW o \in Order,
             \/ ConfirmBegin(r, o) \/ ReturnBegin(r, o)
             \/ \E at \in {"delivering", "retrieving"} : CloseBegin(r, o, at)
      PROVE Once(p)'
  <2>1. /\ UNCHANGED <<sold, marked, doubled>> /\ req[r] = Idle
        /\ \E at \in Points \ {"converting", "marking"} : \E n : At(r, at, o, n)
    BY <1>5 DEF ConfirmBegin, ReturnBegin, CloseBegin, Points
  <2> QED BY <1>0, <1>4, <2>1 DEF At, Idle
<1>6. ASSUME NEW r \in Request,
             ConfirmEnd(r) \/ ReturnEnd(r) \/ CloseEnd(r) \/ PosCommit(r) \/ MoveCommit(r)
      PROVE Once(p)'
  <2>1. /\ UNCHANGED <<sold, marked, doubled>> /\ Done(r)
        /\ req[r].at \notin {"converting", "marking"}
    BY <1>6 DEF ConfirmEnd, ReturnEnd, CloseEnd, PosCommit, MoveCommit
  <2> QED BY <1>0, <1>4, <2>1 DEF Done, Idle
<1>7. ASSUME NEW r \in Request, PosBegin(r) \/ MoveBegin(r) PROVE Once(p)'
  <2>1. /\ UNCHANGED <<sold, marked, doubled>> /\ req[r] = Idle
        /\ \E at \in {"selling", "moving"} : \E n : At(r, at, None, n)
    BY <1>7 DEF PosBegin, MoveBegin
  <2> QED BY <1>0, <1>4, <2>1 DEF At, Idle
<1>8. ASSUME NEW r \in Request, NEW o \in Order, ConvertBegin(r, o) PROVE Once(p)'
  <2>1. /\ UNCHANGED <<sold, marked>> /\ req[r] = Idle /\ ~marked[o]
        /\ req' = [req EXCEPT ![r] = [at |-> "converting", order |-> o, seen |-> 0]]
    BY <1>8 DEF ConvertBegin, Convertible, At
  <2>2. CASE p # o
    <3>1. p \notin doubled' => p \notin doubled BY <1>8, <2>2 DEF ConvertBegin
    <3> QED BY <1>0, <2>1, <2>2, <3>1, OnceSame DEF Converting, Idle
  <2>3. CASE p = o /\ p \notin doubled'
    <3>1. Converting(o) = {} /\ o \notin doubled BY <1>0, <1>8, <2>3 DEF ConvertBegin
    <3>2. sold[o] = 0 BY <1>0, <2>1, <2>3, <3>1 DEF Once
    <3>3. Converting(p)' = {r} BY <1>0, <2>1, <2>3, <3>1 DEF Converting, Idle
    <3> QED BY <2>1, <2>3, <3>2, <3>3 DEF Once
  <2> QED BY <2>2, <2>3 DEF Once
<1>9. ASSUME NEW r \in Request, SaleCommit(r) PROVE Once(p)'
  <2> DEFINE o == req[r].order
  <2>1. req[r].at = "converting" /\ UNCHANGED <<marked, doubled>> /\ o \in Order
    BY <1>9 DEF SaleCommit, OInv, Held
  <2>2. \A q \in Request \ {r} : req'[q] = req[q] BY <1>0, <1>9 DEF SaleCommit, At, Done
  <2>3. r \in Converting(o) BY <2>1 DEF Converting
  <2>4. CASE p # o
    <3>1. sold'[p] = sold[p] BY <1>0, <1>9, <2>4 DEF SaleCommit
    <3>2. r \notin Converting(p) BY <2>4 DEF Converting
    <3>3. r \notin Converting(p)'
      <4>1. req'[r].order \in {o, None} BY <1>0, <1>9 DEF SaleCommit, At, Done, Idle
      <4> QED BY <2>4, <4>1, OrdersAssumption DEF Converting
    <3>4. \A q \in Request : (q \in Converting(p) <=> (q \in Converting(p))')
                             /\ (q \in Converting(p) => req'[q].at = req[q].at)
      BY <2>2, <3>2, <3>3 DEF Converting
    <3> QED BY <1>0, <2>1, <3>1, <3>4, OnceSame
  <2>5. CASE p = o /\ p \notin doubled
    <3>1. Converting(p) = {r} /\ sold[p] = 0 BY <1>0, <2>1, <2>3, <2>5 DEF Once
    <3>2. Converting(p)' \subseteq {r} BY <2>2, <3>1 DEF Converting
    <3>3. CASE At(r, "marking", o, 0) /\ sold' = [sold EXCEPT ![o] = @ + 1]
      <4>1. req'[r] = [at |-> "marking", order |-> p, seen |-> 0] /\ sold'[p] = 1
        BY <1>0, <2>1, <2>5, <3>1, <3>3 DEF At
      <4>2. Converting(p)' = {r} BY <3>2, <4>1 DEF Converting
      <4> QED BY <2>5, <4>1, <4>2 DEF Once
    <3>4. CASE Done(r) /\ sold' = sold
      <4>1. Converting(p)' = {} BY <1>0, <3>2, <3>4 DEF Converting, Done, Idle
      <4> QED BY <2>5, <3>1, <3>4, <4>1 DEF Once
    <3> QED BY <1>9, <3>3, <3>4 DEF SaleCommit
  <2>6. CASE p \in doubled BY <2>1, <2>6 DEF Once
  <2> QED BY <2>4, <2>5, <2>6
<1>10. ASSUME NEW r \in Request, MarkConverted(r) \/ Fail(r) PROVE Once(p)'
  <2> DEFINE o == req[r].order
  <2>1. /\ UNCHANGED sold /\ Done(r)
        /\ doubled' = doubled \/ doubled' = doubled \cup {o}
    BY <1>10 DEF MarkConverted, Fail
  <2>2. /\ \A q \in Request \ {r} : req'[q] = req[q]
        /\ req'[r].at = "idle"
    BY <1>0, <2>1 DEF Done, Idle
  <2>3. CASE p # o \/ req[r].at \notin {"converting", "marking"}
    <3>1. marked'[p] = marked[p] BY <1>0, <1>10, <2>3 DEF MarkConverted, Fail
    <3>2. p \notin doubled' => p \notin doubled BY <2>1
    <3>3. r \notin Converting(p) /\ r \notin Converting(p)' BY <2>2, <2>3 DEF Converting
    <3>4. \A q \in Request : (q \in Converting(p) <=> (q \in Converting(p))')
                             /\ (q \in Converting(p) => req'[q].at = req[q].at)
      BY <2>2, <3>3 DEF Converting
    <3> QED BY <1>0, <2>1, <3>1, <3>2, <3>4, OnceSame
  <2>4. CASE p = o /\ req[r].at \in {"converting", "marking"} /\ p \notin doubled'
    <3>1. p \notin doubled BY <2>1, <2>4
    <3>2. r \in Converting(p) BY <2>4 DEF Converting
    <3>3. Converting(p) = {r} BY <1>0, <3>1, <3>2 DEF Once
    <3>4. Converting(p)' = {} BY <2>2, <3>3 DEF Converting
    <3>5. sold[p] \in {0, 1} /\ (sold[p] = 1 => marked'[p])
      <4>1. CASE req[r].at = "converting"
        BY <1>0, <3>1, <3>2, <4>1 DEF Once
      <4>2. CASE req[r].at = "marking"
        <5>1. MarkConverted(r) BY <1>10, <2>4, <4>2 DEF Fail
        <5> QED BY <1>0, <2>4, <3>1, <5>1 DEF MarkConverted, Once
      <4> QED BY <2>4, <4>1, <4>2
    <3> QED BY <2>1, <3>4, <3>5 DEF Once
  <2>5. CASE p \in doubled' BY <2>5 DEF Once
  <2> QED BY <2>3, <2>4, <2>5
<1> QED BY <1>1, <1>2, <1>3, <1>5, <1>6, <1>7, <1>8, <1>9, <1>10, OrdersSteps

(* Of an order a second sale is made only if two conversions overlapped,   *)
(* or one ended between its sale and the mark, for any number of orders    *)
(* and requests.                                                           *)
THEOREM OneSaleAnOrder == OrdersSpec => []SoldOnce
<1> DEFINE Inv == OInv /\ \A o \in Order : Once(o)
<1>1. OrdersInit => Inv
  <2>1. ASSUME OrdersInit PROVE \A o \in Order : Once(o)
    BY <2>1 DEF OrdersInit, Once, Converting, Idle
  <2> QED BY <2>1, InitOInv
<1>2. Inv /\ [OrdersNext]_orderVars => Inv'
  <2>1. ASSUME Inv, OrdersNext PROVE Inv'
    BY <2>1, Inductive, OnceStep
  <2>2. ASSUME Inv, UNCHANGED orderVars PROVE Inv'
    <3>1. OInv' BY <2>2, Inductive
    <3>2. \A o \in Order : Once(o)' BY <2>2, OnceSame DEF Converting
    <3> QED BY <3>1, <3>2
  <2> QED BY <2>1, <2>2
<1>3. Inv => SoldOnce
  <2>1. ASSUME Inv PROVE SoldOnce BY <2>1 DEF SoldOnce, Once
  <2> QED BY <2>1
<1> QED BY <1>1, <1>2, <1>3, PTL DEF OrdersSpec

-----------------------------------------------------------------------------
(* A chain grows by what starts at its end.                                *)
LEMMA ChainGrows ==
  ASSUME NEW S, NEW h \in Seq(S \X S), NEW first \in S, NEW now \in S, NEW to \in S,
         Chains(h, first, now), h = <<>> => now = first
  PROVE  Chains(Append(h, <<now, to>>), first, to) /\ Append(h, <<now, to>>) # <<>>
<1> DEFINE g == Append(h, <<now, to>>)
           n == Len(h)
<1>1. /\ n \in Nat /\ Len(g) = n + 1
      /\ \A i \in 1..n : g[i] = h[i]
      /\ g[n + 1] = <<now, to>>
  OBVIOUS
<1>2. g # <<>> BY <1>1
<1>3. g[1][1] = first /\ g[Len(g)][2] = to
  <2>1. CASE h = <<>>
    <3>1. n = 0 BY <2>1
    <3> QED BY <1>1, <2>1, <3>1
  <2>2. CASE h # <<>>
    <3>1. n # 0 BY <2>2
    <3>2. 1 \in 1..n BY <1>1, <3>1
    <3> QED BY <1>1, <2>2, <3>2 DEF Chains
  <2> QED BY <2>1, <2>2
<1>4. ASSUME NEW i \in 1..(Len(g) - 1) PROVE g[i][2] = g[i + 1][1]
  <2>1. i \in 1..n BY <1>1, <1>4
  <2>2. CASE i = n
    <3>1. h # <<>> BY <1>1, <2>1
    <3>2. h[n][2] = now BY <3>1 DEF Chains
    <3> QED BY <1>1, <2>1, <2>2, <3>2
  <2>3. CASE i # n
    <3>1. i \in 1..(Len(h) - 1) /\ i + 1 \in 1..n BY <1>1, <2>1, <2>3
    <3>2. h[i][2] = h[i + 1][1] BY <3>1 DEF Chains
    <3> QED BY <1>1, <2>1, <3>1, <3>2
  <2> QED BY <2>2, <2>3
<1> QED BY <1>2, <1>3, <1>4 DEF Chains

(* The two histories of an order, and that one is empty only before the    *)
(* first move.                                                             *)
Told(o) ==
  /\ Chains(history[o], "NONE", status[o])
  /\ history[o] = <<>> => status[o] = "NONE"
  /\ Chains(travels[o], "DESPACHADO", dispatch[o])
  /\ travels[o] = <<>> => dispatch[o] \in {"NONE", "DESPACHADO"}
  /\ dispatch[o] = "NONE" => travels[o] = <<>>

LEMMA StatusTold ==
  ASSUME OInv, NEW o \in Order, NEW to \in OrderStatuses, SetStatus(o, status[o], to),
         NEW p \in Order, Told(p)
  PROVE  /\ Chains(history'[p], "NONE", status'[p])
         /\ history'[p] = <<>> => status'[p] = "NONE"
<1> DEFINE S == OrderStatuses \cup {"NONE"}
<1>1. /\ status \in [Order -> S] /\ "NONE" \in S /\ to \in S
      /\ history \in [Order -> Seq(S \X OrderStatuses)]
  BY DEF OInv, OrdersTypeOK
<1>2. Seq(S \X OrderStatuses) \subseteq Seq(S \X S) OBVIOUS
<1>3. CASE p = o
  <2>1. history'[o] = Append(history[o], <<status[o], to>>) /\ status'[o] = to
    BY <1>1 DEF SetStatus
  <2>2. history[o] \in Seq(S \X S) /\ status[o] \in S BY <1>1, <1>2
  <2> HIDE DEF S
  <2> QED BY <1>1, <1>3, <2>1, <2>2, ChainGrows DEF Told
<1>4. CASE p # o
  <2>1. history'[p] = history[p] /\ status'[p] = status[p] BY <1>1, <1>4 DEF SetStatus
  <2> QED BY <2>1 DEF Told
<1> QED BY <1>3, <1>4

LEMMA DispatchTold ==
  ASSUME OInv, NEW o \in Order, NEW to \in DispatchStatuses, SetDispatchTo(o, to),
         dispatch[o] # "NONE", NEW p \in Order, Told(p)
  PROVE  /\ Chains(travels'[p], "DESPACHADO", dispatch'[p])
         /\ travels'[p] = <<>> => dispatch'[p] \in {"NONE", "DESPACHADO"}
         /\ dispatch'[p] = "NONE" => travels'[p] = <<>>
<1> DEFINE S == DispatchStatuses
<1>1. /\ dispatch \in [Order -> S \cup {"NONE"}] /\ "DESPACHADO" \in S /\ "NONE" \notin S /\ to \in S
      /\ travels \in [Order -> Seq(S \X S)]
  BY DEF OInv, OrdersTypeOK, DispatchStatuses
<1>2. CASE p = o
  <2>1. travels'[o] = Append(travels[o], <<dispatch[o], to>>) /\ dispatch'[o] = to
    BY <1>1 DEF SetDispatchTo
  <2>2. travels[o] \in Seq(S \X S) /\ dispatch[o] \in S BY <1>1
  <2>3. travels[o] = <<>> => dispatch[o] = "DESPACHADO" BY <1>2 DEF Told
  <2>4. Chains(travels[o], "DESPACHADO", dispatch[o]) BY <1>2 DEF Told
  <2> HIDE DEF S
  <2>5. "DESPACHADO" \in S /\ to \in S BY <1>1
  <2>6. LET g == Append(travels[o], <<dispatch[o], to>>)
        IN  Chains(g, "DESPACHADO", to) /\ g # <<>>
    BY <2>2, <2>3, <2>4, <2>5, ChainGrows
  <2> QED BY <1>1, <1>2, <2>1, <2>5, <2>6
<1>3. CASE p # o
  <2>1. travels'[p] = travels[p] /\ dispatch'[p] = dispatch[p] BY <1>1, <1>3 DEF SetDispatchTo
  <2> QED BY <2>1 DEF Told
<1> QED BY <1>2, <1>3

LEMMA ToldStep ==
  ASSUME OInv, OrdersNext, \A o \in Order : Told(o) PROVE \A o \in Order : Told(o)'
<1> SUFFICES ASSUME NEW p \in Order PROVE Told(p)' OBVIOUS
<1>0. /\ Told(p) /\ (\A r \in Request : Held(r)) /\ (\A o \in Order : Agree(o))
      /\ dispatch \in [Order -> DispatchStatuses \cup {"NONE"}]
  BY AgreeAll DEF OInv, OrdersTypeOK
<1>1. ASSUME NEW o \in Order, CreateOrder(o) PROVE Told(p)'
  <2>1. "PENDIENTE" \in OrderStatuses BY DEF OrderStatuses
  <2> QED BY <1>0, <1>1, <2>1, StatusTold DEF CreateOrder, Told
<1>2. ASSUME NEW o \in Order, CreateDispatch(o) PROVE Told(p)'
  <2>1. "DESPACHADO" \in OrderStatuses BY DEF OrderStatuses
  <2>2. /\ Chains(history'[p], "NONE", status'[p])
        /\ history'[p] = <<>> => status'[p] = "NONE"
    BY <1>0, <1>2, <2>1, StatusTold DEF CreateDispatch
  <2>3. travels' = travels BY <1>2 DEF CreateDispatch
  <2>4. CASE p = o
    <3>1. dispatch'[p] = "DESPACHADO" /\ travels[p] = <<>>
      BY <1>0, <1>2, <2>4 DEF CreateDispatch, Told
    <3>2. Chains(travels'[p], "DESPACHADO", dispatch'[p]) BY <2>3, <3>1 DEF Chains
    <3> QED BY <2>2, <3>1, <3>2 DEF Told
  <2>5. CASE p # o
    <3>1. dispatch'[p] = dispatch[p] BY <1>0, <1>2, <2>5 DEF CreateDispatch
    <3> QED BY <1>0, <2>2, <2>3, <3>1 DEF Told
  <2> QED BY <2>4, <2>5
<1>3. ASSUME NEW o \in Order, MarkDispatchInTransit(o) \/ MarkDispatchInAgency(o)
      PROVE Told(p)'
  <2>1. dispatch[o] # "NONE" /\ UNCHANGED <<status, history>>
    BY <1>3 DEF MarkDispatchInTransit, MarkDispatchInAgency
  <2>2. PICK to \in {"EN_TRANSITO", "EN_AGENCIA"} : SetDispatchTo(o, to)
    BY <1>3 DEF MarkDispatchInTransit, MarkDispatchInAgency
  <2>3. to \in DispatchStatuses BY DEF DispatchStatuses
  <2> QED BY <1>0, <2>1, <2>2, <2>3, DispatchTold DEF Told
<1>4. ASSUME NEW o \in Order, NEW to \in OrderStatuses, UpdateOrderStatus(o, to)
      PROVE Told(p)'
  BY <1>0, <1>4, StatusTold DEF UpdateOrderStatus, Told
<1>5. ASSUME NEW r \in Request, ConfirmEnd(r) PROVE Told(p)'
  <2> DEFINE o == req[r].order
  <2>1. o \in Order /\ status[o] = "PENDIENTE" /\ "CONFIRMADO" \in OrderStatuses
    BY <1>0, <1>5 DEF ConfirmEnd, Held, OrderStatuses
  <2>2. UNCHANGED <<dispatch, travels>> BY <1>5 DEF ConfirmEnd
  <2>3. CASE SetStatus(o, "PENDIENTE", "CONFIRMADO")
    BY <1>0, <2>1, <2>2, <2>3, StatusTold DEF Told
  <2>4. CASE UNCHANGED <<status, history>> BY <1>0, <2>2, <2>4 DEF Told
  <2> QED BY <1>5, <2>3, <2>4 DEF ConfirmEnd
<1>6. ASSUME NEW r \in Request, ReturnEnd(r) PROVE Told(p)'
  <2> DEFINE o == req[r].order
  <2>1. /\ o \in Order /\ status[o] = "ENTREGADO" /\ dispatch[o] = "ENTREGADO"
        /\ "DEVUELTO" \in OrderStatuses /\ "DEVUELTO" \in DispatchStatuses
    BY <1>0, <1>6 DEF ReturnEnd, Held, Agree, OrderStatuses, DispatchStatuses
  <2>2. SetStatus(o, status[o], "DEVUELTO") /\ SetDispatchTo(o, "DEVUELTO")
    BY <1>6, <2>1 DEF ReturnEnd
  <2> QED BY <1>0, <2>1, <2>2, StatusTold, DispatchTold DEF Told
<1>7. ASSUME NEW r \in Request, CloseEnd(r) PROVE Told(p)'
  <2> DEFINE o == req[r].order
             to == Ends(req[r].at)
  <2>1. /\ o \in Order /\ dispatch[o] \in OnTheWay /\ status[o] = "DESPACHADO"
        /\ to \in OrderStatuses /\ to \in DispatchStatuses
    BY <1>0, <1>7 DEF CloseEnd, Held, Agree, Ends, OrderStatuses, DispatchStatuses
  <2>2. SetStatus(o, status[o], to) /\ SetDispatchTo(o, to) /\ dispatch[o] # "NONE"
    BY <1>7, <2>1 DEF CloseEnd, OnTheWay
  <2> HIDE DEF to
  <2> QED BY <1>0, <2>1, <2>2, StatusTold, DispatchTold DEF Told
<1>8. ASSUME UNCHANGED <<status, dispatch, history, travels>> PROVE Told(p)'
  BY <1>0, <1>8 DEF Told
<1>9. ASSUME NEW r \in Request, NEW o \in Order,
             \/ ConfirmBegin(r, o) \/ ReturnBegin(r, o) \/ ConvertBegin(r, o)
             \/ \E at \in {"delivering", "retrieving"} : CloseBegin(r, o, at)
      PROVE UNCHANGED <<status, dispatch, history, travels>>
  BY <1>9 DEF ConfirmBegin, ReturnBegin, ConvertBegin, CloseBegin
<1>10. ASSUME NEW r \in Request,
              \/ SaleCommit(r) \/ MarkConverted(r) \/ PosBegin(r) \/ PosCommit(r)
              \/ MoveBegin(r) \/ MoveCommit(r) \/ Fail(r)
       PROVE UNCHANGED <<status, dispatch, history, travels>>
  BY <1>10 DEF SaleCommit, MarkConverted, PosBegin, PosCommit, MoveBegin, MoveCommit, Fail
<1>11. ASSUME NEW n \in 0..MaxStock, Adjust(n)
       PROVE UNCHANGED <<status, dispatch, history, travels>>
  BY <1>11 DEF Adjust
<1> QED BY <1>1, <1>2, <1>3, <1>4, <1>5, <1>6, <1>7, <1>8, <1>9, <1>10, <1>11, OrdersSteps

(* The two status histories are chains that end in the present status: no  *)
(* transition is decided on a status that another request has changed.     *)
THEOREM HistoriesTellAll == OrdersSpec => []HistoryChains
<1> DEFINE Inv == OInv /\ \A o \in Order : Told(o)
<1>1. OrdersInit => Inv
  <2>1. ASSUME OrdersInit PROVE \A o \in Order : Told(o)
    BY <2>1 DEF OrdersInit, Told, Chains
  <2> QED BY <2>1, InitOInv
<1>2. Inv /\ [OrdersNext]_orderVars => Inv'
  <2>1. ASSUME Inv, OrdersNext PROVE Inv' BY <2>1, Inductive, ToldStep
  <2>2. ASSUME Inv, UNCHANGED orderVars PROVE Inv'
    BY <2>2, Inductive DEF Told
  <2> QED BY <2>1, <2>2
<1>3. Inv => HistoryChains BY DEF HistoryChains, Told
<1> QED BY <1>1, <1>2, <1>3, PTL DEF OrdersSpec

-----------------------------------------------------------------------------
(* Confirmed orders whose sale has not been made: what the stock must      *)
(* cover.                                                                  *)
Unsold == {o \in Reserving : sold[o] = 0}

LEMMA Counts ==
  ASSUME NEW A, NEW B, A \subseteq B, B \subseteq Order
  PROVE  /\ IsFiniteSet(A) /\ Cardinality(A) \in Nat /\ Cardinality(B) \in Nat
         /\ Cardinality(A) \leq Cardinality(B)
<1>1. IsFiniteSet(B) BY OrdersAssumption, FS_Subset
<1>2. IsFiniteSet(A) /\ Cardinality(A) \leq Cardinality(B) BY <1>1, FS_Subset
<1> QED BY <1>1, <1>2, FS_CardinalityType

LEMMA UnsoldCounts ==
  ASSUME NEW except
  PROVE  /\ Cardinality(Unsold \ except) \in Nat /\ Reserved(except) \in Nat
         /\ Cardinality(Unsold \ except) \leq Reserved(except)
<1>1. Unsold \ except \subseteq Reserving \ except /\ Reserving \ except \subseteq Order
  BY DEF Unsold, Reserving
<1> QED BY <1>1, Counts DEF Reserved

(* While nothing was overtaken, the stock covers them, and a request that  *)
(* nobody has overtaken may still rely on what it checked.                 *)
Sure(r) ==
  LET at == req[r].at
      o == req[r].order
  IN  /\ at = "confirming" => req[r].seen >= Cardinality(Unsold \ {o})
      /\ at = "converting" => stock >= 1 + Cardinality(Unsold \ {o})
      /\ at = "selling" => stock >= 1 + Cardinality(Unsold)
      /\ at = "moving" => req[r].seen >= Cardinality(Unsold)

Covered ==
  ~overtaken => /\ stock >= Cardinality(Unsold)
                /\ \A r \in Request \ late : Sure(r)

(* Nothing is lost when there is no less stock and no more to cover.       *)
LEMMA SureStays ==
  ASSUME NEW q \in Request, Sure(q), req'[q] = req[q], req[q].seen \in Nat,
         stock \in Nat, stock' \in Nat, stock' >= stock,
         Unsold' \subseteq Unsold
  PROVE  Sure(q)'
<1>1. Unsold \subseteq Order BY DEF Unsold, Reserving
<1>2. \A x : /\ Cardinality(Unsold \ {x}) \in Nat /\ Cardinality(Unsold' \ {x}) \in Nat
             /\ Cardinality(Unsold' \ {x}) \leq Cardinality(Unsold \ {x})
  <2>1. ASSUME NEW x PROVE Unsold' \ {x} \subseteq Unsold \ {x} /\ Unsold \ {x} \subseteq Order
    BY <1>1
  <2> QED BY <2>1, Counts
<1>3. /\ Cardinality(Unsold) \in Nat /\ Cardinality(Unsold') \in Nat
      /\ Cardinality(Unsold') \leq Cardinality(Unsold)
  BY <1>1, Counts
<1> HIDE DEF Unsold
<1> DEFINE now == Cardinality(Unsold \ {req[q].order})
           then == Cardinality(Unsold' \ {req[q].order})
<1>4. now \in Nat /\ then \in Nat /\ then \leq now BY <1>2
<1>5. CASE req[q].at = "confirming"
  <2>1. req[q].seen >= now BY <1>5 DEF Sure
  <2> HIDE DEF now, then
  <2>2. req[q].seen >= then BY <1>4, <2>1
  <2> QED BY <1>5, <2>2 DEF Sure, then
<1>6. CASE req[q].at = "converting"
  <2>1. stock >= 1 + now BY <1>6 DEF Sure
  <2> HIDE DEF now, then
  <2>2. stock' >= 1 + then BY <1>4, <2>1
  <2> QED BY <1>6, <2>2 DEF Sure, then
<1>7. CASE req[q].at = "selling" BY <1>3, <1>7 DEF Sure
<1>8. CASE req[q].at = "moving" BY <1>3, <1>8 DEF Sure
<1> QED BY <1>5, <1>6, <1>7, <1>8 DEF Sure

LEMMA SureUnchecked == ASSUME NEW q, q \in Request \ Checked PROVE Sure(q)
BY DEF Checked, Sure

(* Who takes without having been overtaken leaves the others' checks       *)
(* behind: what it must show is that the stock still covers.               *)
LEMMA TakesCovers ==
  ASSUME NEW r \in Request, Takes(r), \A q \in Request \ {r} : req'[q] = req[q],
         req'[r].at \notin {"confirming", "converting", "selling", "moving"},
         overtaken \in BOOLEAN,
         ~overtaken /\ r \notin late => stock' >= Cardinality(Unsold')
  PROVE  Covered'
<1>1. SUFFICES ASSUME ~overtaken' PROVE stock' >= Cardinality(Unsold')
                                        /\ \A q \in Request \ late' : Sure(q)'
  BY DEF Covered
<1>2. ~overtaken /\ r \notin late /\ late' = (late \cup Checked) \ {r}
  BY <1>1 DEF Takes
<1>3. ASSUME NEW q \in Request \ late' PROVE Sure(q)'
  <2>1. CASE q = r BY <2>1 DEF Sure
  <2>2. CASE q # r
    <3>1. q \notin Checked BY <1>2, <2>2
    <3>2. req'[q].at \notin {"confirming", "converting", "selling", "moving"}
      BY <2>2, <3>1 DEF Checked
    <3> QED BY <3>2 DEF Sure
  <2> QED BY <2>1, <2>2
<1> QED BY <1>2, <1>3

(* Who takes nothing keeps the cover, whether it made its own check or not. *)
LEMMA QuietCovers ==
  ASSUME OInv, Covered, NEW r \in Request,
         \A q \in Request \ {r} : req'[q] = req[q],
         stock \in Nat, stock' \in Nat, stock' >= stock, Unsold' \subseteq Unsold,
         overtaken' = overtaken,
         late' = late \/ late' = late \ {r} \/ late' = late \cup {r},
         ~overtaken /\ r \notin late' => Sure(r)'
  PROVE  Covered'
<1>1. SUFFICES ASSUME ~overtaken' PROVE stock' >= Cardinality(Unsold')
                                        /\ \A q \in Request \ late' : Sure(q)'
  BY DEF Covered
<1>2. Unsold \subseteq Order BY DEF Unsold, Reserving
<1>3. stock' >= Cardinality(Unsold')
  <2>1. /\ Cardinality(Unsold) \in Nat /\ Cardinality(Unsold') \in Nat
        /\ Cardinality(Unsold') \leq Cardinality(Unsold)
    BY <1>2, Counts
  <2> QED BY <1>1, <2>1 DEF Covered
<1>4. ASSUME NEW q \in Request \ late', q # r PROVE Sure(q)'
  <2>1. Sure(q) /\ req'[q] = req[q] BY <1>1, <1>4 DEF Covered
  <2>2. req[q].seen \in Nat BY DEF OInv, OrdersTypeOK
  <2> QED BY <2>1, <2>2, SureStays
<1>5. r \notin late' => Sure(r)' BY <1>1
<1> QED BY <1>3, <1>4, <1>5

LEMMA CoveredStep == ASSUME OInv, OrdersNext, Covered PROVE Covered'
<1> USE OrdersAssumption
<1>0. /\ req \in [Request -> Slots] /\ stock \in Nat /\ stock' \in Nat
      /\ status \in [Order -> OrderStatuses \cup {"NONE"}]
      /\ sold \in [Order -> Nat] /\ marked \in [Order -> BOOLEAN]
      /\ branched \in [Order -> BOOLEAN] /\ overtaken \in BOOLEAN
      /\ \A r \in Request : Held(r)
      /\ \A o \in Order : Agree(o)
  <2>1. OrdersTypeOK /\ OrdersTypeOK' BY TypeStep DEF OInv
  <2> QED BY <2>1, AgreeAll DEF OInv, OrdersTypeOK, Slots
<1>1. ASSUME Unsold' \subseteq Unsold, stock' >= stock, UNCHANGED <<req, late, overtaken>>
      PROVE Covered'
  <2>1. CASE Request = {}
    <3>1. Unsold \subseteq Order BY DEF Unsold, Reserving
    <3>2. /\ Cardinality(Unsold) \in Nat /\ Cardinality(Unsold') \in Nat
          /\ Cardinality(Unsold') \leq Cardinality(Unsold)
      BY <1>1, <3>1, Counts
    <3> QED BY <1>0, <1>1, <2>1, <3>2 DEF Covered
  <2>2. ASSUME NEW r \in Request PROVE Covered'
    <3>1. ~overtaken /\ r \notin late' => Sure(r)'
      <4>1. req[r].seen \in Nat BY <1>0 DEF Slots
      <4>2. ~overtaken /\ r \notin late' => Sure(r) BY <1>1 DEF Covered
      <4> QED BY <1>0, <1>1, <4>1, <4>2, SureStays
    <3> QED BY <1>0, <1>1, <3>1, QuietCovers
  <2> QED BY <2>1, <2>2
<1>2. ASSUME NEW o \in Order,
             \/ CreateOrder(o) \/ CreateDispatch(o)
             \/ MarkDispatchInTransit(o) \/ MarkDispatchInAgency(o)
      PROVE Covered'
  <2>1. /\ UNCHANGED <<req, late, overtaken, stock, sold, marked, branched>>
        /\ \/ status' = status
           \/ status' = [status EXCEPT ![o] = "PENDIENTE"]
           \/ /\ status[o] = "LISTO_PARA_DESPACHO"
              /\ status' = [status EXCEPT ![o] = "DESPACHADO"]
    BY <1>2 DEF CreateOrder, CreateDispatch, MarkDispatchInTransit, MarkDispatchInAgency,
                SetStatus
  <2>2. Unsold' \subseteq Unsold BY <1>0, <2>1 DEF Unsold, Reserving, reservingStatuses
  <2> QED BY <1>0, <1>1, <2>1, <2>2
<1>3. ASSUME NEW o \in Order, NEW to \in OrderStatuses, UpdateOrderStatus(o, to)
      PROVE Covered'
  <2>1. /\ UNCHANGED <<req, late, overtaken, stock, sold, marked, branched>>
        /\ status' = [status EXCEPT ![o] = to]
        /\ to = "CONFIRMADO" => status[o] = "PENDIENTE"
        /\ status[o] \in reservingStatuses \cup {"PENDIENTE"}
        /\ status[o] = "PENDIENTE" => ~branched[o]
    BY <1>0, <1>3, TransitionTypes
       DEF UpdateOrderStatus, SetStatus, Agree, reservingStatuses
  <2>2. Unsold' \subseteq Unsold BY <1>0, <2>1 DEF Unsold, Reserving
  <2> QED BY <1>0, <1>1, <2>1, <2>2
<1>4. ASSUME NEW r \in Request, NEW o \in Order, ConfirmBegin(r, o) PROVE Covered'
  <2>1. /\ UNCHANGED <<rows, late, overtaken>>
        /\ req' = [req EXCEPT ![r] = [at |-> "confirming", order |-> o, seen |-> Reserved({o})]]
    BY <1>4 DEF ConfirmBegin, At
  <2>2. Unsold' = Unsold BY <2>1 DEF Unsold, Reserving
  <2>3. Sure(r)' BY <1>0, <2>1, <2>2, UnsoldCounts DEF Sure
  <2> QED BY <1>0, <2>1, <2>2, <2>3, QuietCovers
<1>5. ASSUME NEW r \in Request, NEW o \in Order,
             \/ ReturnBegin(r, o)
             \/ \E at \in {"delivering", "retrieving"} : CloseBegin(r, o, at)
      PROVE Covered'
  <2>1. /\ UNCHANGED <<rows, late, overtaken>>
        /\ \E at \in {"returning", "delivering", "retrieving"} : At(r, at, o, 0)
    BY <1>5 DEF ReturnBegin, CloseBegin
  <2>2. Unsold' = Unsold BY <2>1 DEF Unsold, Reserving
  <2>3. Sure(r)' BY <1>0, <2>1 DEF Sure, At
  <2>4. \A q \in Request \ {r} : req'[q] = req[q] BY <1>0, <2>1 DEF At
  <2> QED BY <1>0, <2>1, <2>2, <2>3, <2>4, QuietCovers
<1>6. ASSUME NEW r \in Request, NEW o \in Order, ConvertBegin(r, o) PROVE Covered'
  <2>1. /\ UNCHANGED <<rows, overtaken>>
        /\ \/ stock - Reserved({o}) >= 1 /\ late' = late
           \/ ~overtaken /\ late' = late \cup {r}
           \/ overtaken /\ late' = late
        /\ req' = [req EXCEPT ![r] = [at |-> "converting", order |-> o, seen |-> 0]]
    BY <1>6 DEF ConvertBegin, checkAvailableStock, Misses, At
  <2>2. Unsold' = Unsold BY <2>1 DEF Unsold, Reserving
  <2>3. stock - Reserved({o}) >= 1 => stock >= 1 + Cardinality(Unsold \ {o})
    BY <1>0, <2>1, UnsoldCounts
  <2>4. stock - Reserved({o}) >= 1 => Sure(r)' BY <1>0, <2>1, <2>2, <2>3 DEF Sure
  <2>5. ~overtaken /\ r \notin late' => Sure(r)' BY <2>1, <2>4
  <2>6. late' = late \/ late' = late \cup {r} BY <2>1
  <2>7. \A q \in Request \ {r} : req'[q] = req[q] BY <1>0, <2>1
  <2>8. stock' >= stock BY <1>0, <2>1
  <2> QED BY <1>0, <2>1, <2>2, <2>5, <2>6, <2>7, <2>8, QuietCovers
<1>7. ASSUME NEW r \in Request, PosBegin(r) \/ MoveBegin(r) PROVE Covered'
  <2>1. UNCHANGED <<rows, overtaken>> BY <1>7 DEF PosBegin, MoveBegin
  <2>2. Unsold' = Unsold BY <2>1 DEF Unsold, Reserving
  <2>3. \A q \in Request \ {r} : req'[q] = req[q] BY <1>0, <1>7 DEF PosBegin, MoveBegin, At
  <2>4. Unsold \ {} = Unsold OBVIOUS
  <2>5. /\ Cardinality(Unsold) \in Nat /\ Reserved({}) \in Nat
        /\ Cardinality(Unsold) \leq Reserved({})
    BY <2>4, UnsoldCounts
  <2>6. CASE PosBegin(r)
    <3>1. /\ \/ stock - Reserved({}) >= 1 /\ late' = late
             \/ ~overtaken /\ late' = late \cup {r}
             \/ overtaken /\ late' = late
          /\ req'[r] = [at |-> "selling", order |-> None, seen |-> 0]
      BY <1>0, <2>6 DEF PosBegin, checkAvailableStock, Misses, At
    <3>2. stock - Reserved({}) >= 1 => Sure(r)' BY <1>0, <2>1, <2>2, <2>5, <3>1 DEF Sure
    <3>3. ~overtaken /\ r \notin late' => Sure(r)' BY <3>1, <3>2
    <3>4. (late' = late \/ late' = late \cup {r}) /\ stock' >= stock BY <1>0, <2>1, <3>1
    <3> QED BY <1>0, <2>1, <2>2, <2>3, <3>3, <3>4, QuietCovers
  <2>7. CASE MoveBegin(r)
    <3>1. /\ req'[r] = [at |-> "moving", order |-> None, seen |-> Reserved({})]
          /\ late' = late
      BY <1>0, <2>7 DEF MoveBegin, At
    <3>2. Sure(r)' BY <2>2, <2>5, <3>1 DEF Sure
    <3> QED BY <1>0, <2>1, <2>2, <2>3, <3>1, <3>2, QuietCovers
  <2> QED BY <1>7, <2>6, <2>7
<1>8. ASSUME NEW r \in Request, Done(r), Leaves(r), UNCHANGED <<stock, sold>>,
             Unsold' \subseteq Unsold
      PROVE Covered'
  <2>1. \A q \in Request \ {r} : req'[q] = req[q] BY <1>0, <1>8 DEF Done
  <2>2. Sure(r)' BY <1>0, <1>8 DEF Done, Idle, Sure
  <2> QED BY <1>0, <1>8, <2>1, <2>2, QuietCovers DEF Leaves
<1>t. ASSUME TakesUnchecked PROVE Covered' BY <1>t DEF TakesUnchecked, Covered
<1>9. ASSUME NEW r \in Request, ConfirmEnd(r) PROVE Covered'
  <2> DEFINE o == req[r].order
  <2>1. /\ req[r].at = "confirming" /\ Done(r) /\ o \in Order
        /\ UNCHANGED <<stock, sold, marked>>
    BY <1>0, <1>9 DEF ConfirmEnd, Held
  <2>2. CASE Enough(r) /\ SetStatus(o, "PENDIENTE", "CONFIRMADO") /\ Takes(r)
             /\ branched' = [branched EXCEPT ![o] = TRUE]
    <3>1. Unsold' \subseteq (Unsold \ {o}) \cup {o}
      BY <1>0, <2>1, <2>2 DEF Unsold, Reserving, SetStatus
    <3>2. /\ Cardinality(Unsold \ {o}) \in Nat /\ Cardinality(Unsold') \in Nat
          /\ Cardinality(Unsold') \leq Cardinality(Unsold \ {o}) + 1
      <4>1. Unsold \ {o} \subseteq Order /\ (Unsold \ {o}) \cup {o} \subseteq Order
        BY <2>1 DEF Unsold, Reserving
      <4>2. IsFiniteSet(Unsold \ {o}) /\ Cardinality(Unsold \ {o}) \in Nat BY <4>1, Counts
      <4>3. Cardinality((Unsold \ {o}) \cup {o}) = Cardinality(Unsold \ {o}) + 1
        BY <4>2, FS_AddElement
      <4>4. /\ Cardinality(Unsold') \in Nat
            /\ Cardinality(Unsold') \leq Cardinality((Unsold \ {o}) \cup {o})
        BY <3>1, <4>1, Counts
      <4> QED BY <4>2, <4>3, <4>4
    <3>3. ~overtaken /\ r \notin late => stock' >= Cardinality(Unsold')
      <4>1. ~overtaken /\ r \notin late => req[r].seen >= Cardinality(Unsold \ {o})
        BY <2>1 DEF Covered, Sure
      <4>2. req[r].seen \in Nat /\ stock - req[r].seen >= 1
        BY <1>0, <2>2 DEF Slots, Enough
      <4> QED BY <1>0, <2>1, <3>2, <4>1, <4>2
    <3>4. (\A q \in Request \ {r} : req'[q] = req[q]) /\ req'[r].at = "idle"
      BY <1>0, <2>1 DEF Done, Idle
    <3> QED BY <1>0, <2>2, <3>3, <3>4, TakesCovers
  <2>3. CASE UNCHANGED <<status, history, branched>> /\ Leaves(r)
    <3>1. Unsold' = Unsold BY <2>1, <2>3 DEF Unsold, Reserving
    <3> QED BY <1>8, <2>1, <2>3, <3>1
  <2> QED BY <1>t, <1>9, <2>2, <2>3 DEF ConfirmEnd
<1>10. ASSUME NEW r \in Request, ReturnEnd(r) \/ CloseEnd(r) \/ MarkConverted(r) PROVE Covered'
  <2> DEFINE o == req[r].order
  <2>1. /\ UNCHANGED <<stock, sold, branched, late, overtaken>> /\ Done(r)
    BY <1>10 DEF ReturnEnd, CloseEnd, MarkConverted
  <2>2. Unsold' \subseteq Unsold
    <3>1. CASE ReturnEnd(r)
      <4>1. status' = [status EXCEPT ![o] = "DEVUELTO"] /\ marked' = marked
        BY <3>1 DEF ReturnEnd, SetStatus
      <4> QED BY <1>0, <2>1, <4>1 DEF Unsold, Reserving, reservingStatuses
    <3>2. CASE CloseEnd(r)
      <4>1. /\ marked' = marked
            /\ \/ status' = status
               \/ /\ status[o] \in reservingStatuses
                  /\ \E s : status' = [status EXCEPT ![o] = s]
        BY <3>2 DEF CloseEnd, SetStatus, reservingStatuses
      <4> QED BY <1>0, <2>1, <4>1 DEF Unsold, Reserving
    <3>3. CASE MarkConverted(r)
      <4>1. status' = status /\ marked' = [marked EXCEPT ![o] = TRUE]
        BY <3>3 DEF MarkConverted
      <4> QED BY <1>0, <2>1, <4>1 DEF Unsold, Reserving
    <3> QED BY <1>10, <3>1, <3>2, <3>3
  <2>3. (\A q \in Request \ {r} : req'[q] = req[q]) /\ Sure(r)'
    BY <1>0, <2>1 DEF Done, Idle, Sure
  <2> QED BY <1>0, <2>1, <2>2, <2>3, QuietCovers
<1>11. ASSUME NEW r \in Request, SaleCommit(r) PROVE Covered'
  <2> DEFINE o == req[r].order
  <2>1. /\ req[r].at = "converting" /\ o \in Order
        /\ UNCHANGED <<status, branched, marked>>
    BY <1>0, <1>11 DEF SaleCommit, Held
  <2>2. CASE stock' = stock - 1 /\ sold' = [sold EXCEPT ![o] = @ + 1]
             /\ At(r, "marking", o, 0) /\ Takes(r)
    <3>1. sold[o] \in Nat BY <1>0, <2>1
    <3>2. Unsold' \subseteq Unsold \ {o}
      BY <1>0, <2>1, <2>2, <3>1 DEF Unsold, Reserving
    <3>3. /\ Cardinality(Unsold') \in Nat /\ Cardinality(Unsold \ {o}) \in Nat
          /\ Cardinality(Unsold') \leq Cardinality(Unsold \ {o})
      <4>1. Unsold \ {o} \subseteq Order BY DEF Unsold, Reserving
      <4> QED BY <3>2, <4>1, Counts
    <3>4. ~overtaken /\ r \notin late => stock >= 1 + Cardinality(Unsold \ {o})
      BY <2>1 DEF Covered, Sure
    <3>5. ~overtaken /\ r \notin late => stock' >= Cardinality(Unsold')
      BY <1>0, <2>2, <3>3, <3>4
    <3>6. (\A q \in Request \ {r} : req'[q] = req[q]) /\ req'[r].at = "marking"
      BY <1>0, <2>2 DEF At
    <3> QED BY <1>0, <2>2, <3>5, <3>6, TakesCovers
  <2>3. CASE Done(r) /\ Leaves(r) /\ UNCHANGED <<stock, sold, sales>>
    <3>1. Unsold' = Unsold BY <2>1, <2>3 DEF Unsold, Reserving
    <3> QED BY <1>8, <2>3, <3>1
  <2> QED BY <1>11, <2>2, <2>3 DEF SaleCommit
<1>12. ASSUME NEW r \in Request, PosCommit(r) \/ MoveCommit(r) PROVE Covered'
  <2>1. /\ UNCHANGED <<status, branched, marked, sold>> /\ Done(r)
    BY <1>12 DEF PosCommit, MoveCommit
  <2>2. Unsold' = Unsold BY <2>1 DEF Unsold, Reserving
  <2>3. Cardinality(Unsold) \in Nat
    <3>1. Unsold \subseteq Order BY DEF Unsold, Reserving
    <3> QED BY <3>1, Counts
  <2>4. CASE Leaves(r) /\ UNCHANGED stock BY <1>8, <2>1, <2>2, <2>4
  <2>5. ASSUME Takes(r), ~overtaken /\ r \notin late => stock - 1 >= Cardinality(Unsold),
               stock' = stock - 1
        PROVE Covered'
    <3>1. (\A q \in Request \ {r} : req'[q] = req[q]) /\ req'[r].at = "idle"
      BY <1>0, <2>1 DEF Done, Idle
    <3>2. ~overtaken /\ r \notin late => stock' >= Cardinality(Unsold')
      BY <2>2, <2>5
    <3> QED BY <1>0, <2>5, <3>1, <3>2, TakesCovers
  <2>6. CASE PosCommit(r)
    <3>1. ~overtaken /\ r \notin late => stock >= 1 + Cardinality(Unsold)
      BY <2>6 DEF PosCommit, Covered, Sure
    <3>2. ~overtaken /\ r \notin late => stock - 1 >= Cardinality(Unsold)
      BY <1>0, <2>3, <3>1
    <3> QED BY <2>4, <2>5, <2>6, <3>2 DEF PosCommit
  <2>7. CASE MoveCommit(r)
    <3>1. ~overtaken /\ r \notin late => req[r].seen >= Cardinality(Unsold)
      BY <2>7 DEF MoveCommit, Covered, Sure
    <3>2. req[r].seen \in Nat BY <1>0 DEF Slots
    <3>3. (~overtaken /\ r \notin late) /\ stock - 1 >= req[r].seen
             => stock - 1 >= Cardinality(Unsold)
      BY <1>0, <2>3, <3>1, <3>2
    <3> QED BY <1>t, <2>4, <2>5, <2>7, <3>3 DEF MoveCommit
  <2> QED BY <1>12, <2>6, <2>7
<1>13. ASSUME NEW r \in Request, Fail(r) PROVE Covered'
  <2>1. Done(r) /\ Leaves(r) /\ UNCHANGED rows BY <1>13 DEF Fail
  <2>2. Unsold' = Unsold BY <2>1 DEF Unsold, Reserving
  <2> QED BY <1>8, <2>1, <2>2
<1>14. ASSUME NEW n \in 0..MaxStock, Adjust(n) PROVE Covered'
  <2>1. UNCHANGED <<status, branched, marked, sold, req>> /\ stock' = n
    BY <1>14 DEF Adjust
  <2>2. Unsold' = Unsold BY <2>1 DEF Unsold, Reserving
  <2>3. CASE overtaken' BY <2>3 DEF Covered
  <2>4. CASE ~overtaken'
    <3>1. ~overtaken /\ ~(n < stock) /\ late' = late BY <2>4, <1>14 DEF Adjust
    <3>2. stock' >= stock BY <1>0, <2>1, <3>1
    <3>3. overtaken' = overtaken BY <1>0, <1>14, <2>4 DEF Adjust
    <3> QED BY <1>1, <2>1, <2>2, <3>1, <3>2, <3>3
  <2> QED BY <2>3, <2>4
<1> QED BY <1>2, <1>3, <1>4, <1>5, <1>6, <1>7, <1>9, <1>10, <1>11, <1>12, <1>13, <1>14,
           OrdersSteps

(* The stock covers every confirmed order that has no sale yet, for any    *)
(* number of orders and of concurrent confirmations, conversions, sales at *)
(* the counter and movements, as long as no commit overtook a check.       *)
THEOREM StockCoversConfirmed == OrdersSpec => []ReservationCovered
<1> DEFINE Inv == OInv /\ Covered
<1>1. OrdersInit => Inv
  <2>1. ASSUME OrdersInit PROVE Covered
    <3>1. Unsold = {} BY <2>1 DEF OrdersInit, Unsold, Reserving, reservingStatuses
    <3>2. Cardinality(Unsold) = 0 BY <3>1, FS_EmptySet
    <3>3. \A r \in Request : Sure(r) BY <2>1 DEF OrdersInit, Sure, Idle
    <3> QED BY <2>1, <3>2, <3>3, OrdersAssumption DEF OrdersInit, Covered
  <2> QED BY <2>1, InitOInv
<1>2. Inv /\ [OrdersNext]_orderVars => Inv'
  <2>1. ASSUME Inv, OrdersNext PROVE Inv' BY <2>1, Inductive, CoveredStep
  <2>2. ASSUME Inv, UNCHANGED orderVars PROVE Inv'
    BY <2>2, Inductive DEF Covered, Sure, Unsold, Reserving
  <2> QED BY <2>1, <2>2
<1>3. Inv => ReservationCovered BY DEF Covered, Unsold, ReservationCovered
<1> QED BY <1>1, <1>2, <1>3, PTL DEF OrdersSpec

-----------------------------------------------------------------------------
(* The orders implement the journey the buyer sees.  A step that changes   *)
(* the order or its dispatch moves the stage of one order, or leaves it.   *)
Stage(o) == stageOf(status[o], dispatch[o])

LEMMA StageMoves ==
  ASSUME NEW o \in Order,
         \A p \in Order \ {o} : status'[p] = status[p] /\ dispatch'[p] = dispatch[p],
         Stage(o)' = Stage(o) \/ Stage(o)' \in Journey!After[Stage(o)]
  PROVE  [Journey!JourneyNext]_(Journey!journeyVars)
<1> DEFINE now == [p \in Order |-> Stage(p)]
           then == [p \in Order |-> Stage(p)']
<1>1. \A p \in Order \ {o} : then[p] = now[p] BY DEF Stage
<1>2. then = [now EXCEPT ![o] = Stage(o)'] BY <1>1
<1>3. CASE Stage(o)' = Stage(o)
  <2>1. then = now BY <1>1, <1>3
  <2> QED BY <2>1 DEF Stage, Journey!journeyVars
<1>4. CASE Stage(o)' \in Journey!After[Stage(o)]
  <2>1. now[o] = Stage(o) OBVIOUS
  <2>2. \E s \in Journey!After[now[o]] : then = [now EXCEPT ![o] = s] BY <1>2, <1>4, <2>1
  <2>3. Journey!Advance(o) BY <2>2 DEF Journey!Advance, Stage
  <2> QED BY <2>3 DEF Journey!JourneyNext
<1> QED BY <1>3, <1>4

LEMMA JourneyStep ==
  ASSUME OInv, [OrdersNext]_orderVars
  PROVE  [Journey!JourneyNext]_(Journey!journeyVars)
<1> DEFINE Goal == [Journey!JourneyNext]_(Journey!journeyVars)
<1>0. /\ \A r \in Request : Held(r)
      /\ \A o \in Order : Agree(o)
      /\ status \in [Order -> OrderStatuses \cup {"NONE"}]
      /\ dispatch \in [Order -> DispatchStatuses \cup {"NONE"}]
  BY AgreeAll DEF OInv, OrdersTypeOK
<1>1. ASSUME UNCHANGED <<status, dispatch>> PROVE Goal
  BY <1>1 DEF Journey!journeyVars
<1>2. ASSUME NEW o \in Order, CreateOrder(o) PROVE Goal
  <2>1. status[o] = "NONE" /\ status' = [status EXCEPT ![o] = "PENDIENTE"] /\ dispatch' = dispatch
    BY <1>2 DEF CreateOrder, SetStatus
  <2>2. Stage(o) = "NONE" /\ Stage(o)' = "POR_CONFIRMAR" BY <1>0, <2>1 DEF Stage, stageOf
  <2>3. Stage(o)' \in Journey!After[Stage(o)] BY <2>2 DEF Journey!After
  <2> QED BY <1>0, <2>1, <2>3, StageMoves
<1>3. ASSUME NEW o \in Order, NEW to \in OrderStatuses, UpdateOrderStatus(o, to) PROVE Goal
  <2>1. status' = [status EXCEPT ![o] = to] /\ dispatch' = dispatch /\ to # "DEVUELTO"
    BY <1>3 DEF UpdateOrderStatus, SetStatus
  <2>2. Stage(o)' = stageOf(to, dispatch[o]) BY <1>0, <2>1 DEF Stage
  <2>3. <<status[o], to>> \in orderTransitions BY <1>3 DEF UpdateOrderStatus
  <2>4. Stage(o)' = Stage(o) \/ Stage(o)' \in Journey!After[Stage(o)]
    <3>1. CASE status[o] = "PENDIENTE"
      <4>1. Stage(o) = "POR_CONFIRMAR" BY <3>1 DEF Stage, stageOf
      <4>2. to \in {"CONFIRMADO", "RECHAZADO", "CANCELADO"}
        BY <2>3, <3>1 DEF orderTransitions, PanelTransitions
      <4>3. Stage(o)' \in {"POR_PREPARAR", "CANCELADO"} BY <2>2, <4>2 DEF stageOf
      <4> QED BY <4>1, <4>3 DEF Journey!After
    <3>2. CASE status[o] \in {"CONFIRMADO", "EN_PREPARACION"}
      <4>1. Stage(o) = "POR_PREPARAR" BY <3>2 DEF Stage, stageOf
      <4>2. to \in {"RECHAZADO", "CANCELADO", "EN_PREPARACION", "EMPAQUETADO"}
        BY <2>3, <3>2 DEF orderTransitions, PanelTransitions
      <4>3. Stage(o)' \in {"POR_PREPARAR", "CANCELADO"} BY <2>2, <4>2 DEF stageOf
      <4> QED BY <4>1, <4>3 DEF Journey!After
    <3>3. CASE status[o] = "EMPAQUETADO"
      <4>1. Stage(o) = "POR_PREPARAR" BY <3>3 DEF Stage, stageOf
      <4>2. to \in {"CANCELADO", "LISTO_PARA_DESPACHO"}
        BY <2>3, <3>3 DEF orderTransitions, PanelTransitions
      <4>3. Stage(o)' \in {"LISTO", "CANCELADO"} BY <2>2, <4>2 DEF stageOf
      <4> QED BY <4>1, <4>3 DEF Journey!After
    <3>4. CASE status[o] = "LISTO_PARA_DESPACHO"
      <4>1. Stage(o) = "LISTO" BY <3>4 DEF Stage, stageOf
      <4>2. to = "CANCELADO" BY <2>3, <3>4 DEF orderTransitions, PanelTransitions
      <4>3. Stage(o)' = "CANCELADO" BY <2>2, <4>2 DEF stageOf
      <4> QED BY <4>1, <4>3 DEF Journey!After
    <3> QED BY <2>1, <2>3, <3>1, <3>2, <3>3, <3>4, TransitionTypes
  <2>5. \A p \in Order \ {o} : status'[p] = status[p] /\ dispatch'[p] = dispatch[p]
    BY <1>0, <2>1
  <2> QED BY <2>4, <2>5, StageMoves
<1>4. ASSUME NEW o \in Order, CreateDispatch(o) PROVE Goal
  <2>1. /\ status[o] = "LISTO_PARA_DESPACHO" /\ status' = [status EXCEPT ![o] = "DESPACHADO"]
        /\ dispatch' = [dispatch EXCEPT ![o] = "DESPACHADO"]
    BY <1>4 DEF CreateDispatch, SetStatus
  <2>2. Stage(o) = "LISTO" /\ Stage(o)' = "EN_CAMINO" BY <1>0, <2>1 DEF Stage, stageOf
  <2>3. Stage(o)' \in Journey!After[Stage(o)] BY <2>2 DEF Journey!After
  <2> QED BY <1>0, <2>1, <2>3, StageMoves
<1>5. ASSUME NEW o \in Order, MarkDispatchInTransit(o) \/ MarkDispatchInAgency(o) PROVE Goal
  <2>1. /\ dispatch[o] \in {"DESPACHADO", "EN_TRANSITO"} /\ status' = status
        /\ \/ dispatch[o] = "DESPACHADO" /\ dispatch' = [dispatch EXCEPT ![o] = "EN_TRANSITO"]
           \/ dispatch' = [dispatch EXCEPT ![o] = "EN_AGENCIA"]
    BY <1>5 DEF MarkDispatchInTransit, MarkDispatchInAgency, SetDispatchTo
  <2>2. status[o] = "DESPACHADO" BY <1>0, <2>1 DEF Agree, OnTheWay
  <2>3. Stage(o) = "EN_CAMINO" /\ Stage(o)' \in {"EN_CAMINO", "EN_AGENCIA"}
    BY <1>0, <2>1, <2>2 DEF Stage, stageOf
  <2>4. Stage(o)' = Stage(o) \/ Stage(o)' \in Journey!After[Stage(o)]
    BY <2>3 DEF Journey!After
  <2> QED BY <1>0, <2>1, <2>4, StageMoves
<1>6. ASSUME NEW r \in Request, ConfirmEnd(r) PROVE Goal
  <2> DEFINE o == req[r].order
  <2>1. o \in Order /\ status[o] = "PENDIENTE" /\ dispatch' = dispatch
    BY <1>0, <1>6 DEF ConfirmEnd, Held
  <2>2. CASE SetStatus(o, "PENDIENTE", "CONFIRMADO")
    <3>1. status' = [status EXCEPT ![o] = "CONFIRMADO"] BY <2>2 DEF SetStatus
    <3>2. PICK p \in Order : p = o BY <2>1
    <3>3. Stage(p) = "POR_CONFIRMAR" /\ Stage(p)' = "POR_PREPARAR"
      BY <1>0, <2>1, <3>1, <3>2 DEF Stage, stageOf
    <3>4. Stage(p)' \in Journey!After[Stage(p)] BY <3>3 DEF Journey!After
    <3> QED BY <1>0, <2>1, <3>1, <3>2, <3>4, StageMoves
  <2>3. CASE UNCHANGED status BY <1>1, <2>1, <2>3
  <2> QED BY <1>6, <2>2, <2>3 DEF ConfirmEnd
<1>7. ASSUME NEW r \in Request, ReturnEnd(r) PROVE Goal
  <2>1. PICK o \in Order : o = req[r].order /\ status[o] = "ENTREGADO"
    BY <1>0, <1>7 DEF ReturnEnd, Held
  <2>2. /\ status' = [status EXCEPT ![o] = "DEVUELTO"]
        /\ dispatch' = dispatch \/ dispatch' = [dispatch EXCEPT ![o] = "DEVUELTO"]
    BY <1>7, <2>1 DEF ReturnEnd, SetStatus, SetDispatchTo
  <2>3. Stage(o) = "ENTREGADO" /\ Stage(o)' = "RETORNO" BY <1>0, <2>1, <2>2 DEF Stage, stageOf
  <2>4. Stage(o)' \in Journey!After[Stage(o)] BY <2>3 DEF Journey!After
  <2> QED BY <1>0, <2>2, <2>4, StageMoves
<1>8. ASSUME NEW r \in Request, CloseEnd(r) PROVE Goal
  <2>1. PICK o \in Order : /\ o = req[r].order /\ dispatch[o] \in OnTheWay
                           /\ status[o] = "DESPACHADO"
    BY <1>0, <1>8 DEF CloseEnd, Held, Agree
  <2>2. \E to \in {"ENTREGADO", "DEVUELTO"} :
          /\ status' = [status EXCEPT ![o] = to] /\ dispatch' = [dispatch EXCEPT ![o] = to]
    BY <1>8, <2>1 DEF CloseEnd, SetStatus, SetDispatchTo, Ends
  <2>3. Stage(o) \in {"EN_CAMINO", "EN_AGENCIA"} BY <2>1 DEF Stage, stageOf
  <2>4. Stage(o)' \in {"ENTREGADO", "RETORNO"} BY <1>0, <2>2 DEF Stage, stageOf
  <2>5. Stage(o)' \in Journey!After[Stage(o)] BY <2>3, <2>4 DEF Journey!After
  <2> QED BY <1>0, <2>2, <2>5, StageMoves
<1>9. ASSUME NEW r \in Request, NEW o \in Order,
             \/ ConfirmBegin(r, o) \/ ReturnBegin(r, o) \/ ConvertBegin(r, o)
             \/ \E at \in {"delivering", "retrieving"} : CloseBegin(r, o, at)
      PROVE UNCHANGED <<status, dispatch>>
  BY <1>9 DEF ConfirmBegin, ReturnBegin, ConvertBegin, CloseBegin
<1>10. ASSUME NEW r \in Request,
              \/ SaleCommit(r) \/ MarkConverted(r) \/ PosBegin(r) \/ PosCommit(r)
              \/ MoveBegin(r) \/ MoveCommit(r) \/ Fail(r)
       PROVE UNCHANGED <<status, dispatch>>
  BY <1>10 DEF SaleCommit, MarkConverted, PosBegin, PosCommit, MoveBegin, MoveCommit, Fail
<1>11. ASSUME NEW n \in 0..MaxStock, Adjust(n) PROVE UNCHANGED <<status, dispatch>>
  BY <1>11 DEF Adjust
<1>12. CASE OrdersNext
  BY <1>1, <1>2, <1>3, <1>4, <1>5, <1>6, <1>7, <1>8, <1>9, <1>10, <1>11, <1>12, OrdersSteps
<1>13. CASE UNCHANGED orderVars BY <1>1, <1>13
<1> QED BY <1>12, <1>13

(* ShopOrders implements OrderJourney: whatever requests do, the buyer sees *)
(* one stage after the other and none of them twice.                       *)
THEOREM OrdersImplementJourney == OrdersSpec => JourneyForward
<1>1. OrdersInit => Journey!JourneyInit
  BY DEF OrdersInit, Journey!JourneyInit, stageOf
<1>2. OInv /\ [OrdersNext]_orderVars
        => [Journey!JourneyNext]_(Journey!journeyVars)
  BY JourneyStep
<1> QED BY <1>1, <1>2, OrdersInvariant, PTL
        DEF OrdersSpec, JourneyForward, Journey!JourneySpec

-----------------------------------------------------------------------------
(***************************************************************************)
(* The payments of an order.  The inductive invariant says where each      *)
(* transaction stands: who adds has the order's row and therefore all its  *)
(* payments as they are; who reviews has its payment; who converts has     *)
(* read all but the unseen ones; and a snapshot is the present unless the  *)
(* transaction is stale.                                                   *)
(***************************************************************************)
(* Where a transaction stands, and what holds while it stands there.       *)
Adding(r) ==
  LET p == tx[r].pay  row == tx[r].row IN
  /\ ordLock = r /\ p \in Pay /\ pay[p].st = "NONE" /\ tx[r].snap = pay
  /\ row.st \in {"PENDIENTE", "VALIDADO"}
  /\ row.amount + Amount(pay, Existing(pay)) <= Total
  /\ row.customer => /\ row.st = "PENDIENTE"
                     /\ Cardinality(With(pay, {"PENDIENTE"})) < maxCustomerPendingPayments

Reviewing(r) ==
  LET p == tx[r].pay  row == tx[r].row IN
  /\ p \in Pay /\ payLock[p] = r /\ pay[p].st # "NONE"
  /\ row.st \in {"VALIDADO", "OBSERVADO"}
  /\ row.amount = pay[p].amount /\ row.customer = pay[p].customer

Standing(r) ==
  /\ tx[r].at = "adding" => Adding(r)
  /\ tx[r].at = "reviewing" => Reviewing(r)
  /\ tx[r].at = "deleting" => tx[r].pay \in Pay
  /\ tx[r].at = "preparing" => ordLock = r /\ (tx[r].strict => InReview(pay) = {})
  /\ tx[r].at = "converting" =>
       \A p \in Pay : /\ tx[r].snap[p].st \in {"NONE", "VALIDADO"}
                      /\ p \notin unseen => tx[r].snap[p] = pay[p]
  /\ tx[r].at \in {"reviewing", "deleting"} /\ r \notin stale /\ ~crossed => tx[r].snap = pay

AllStand == \A r \in Request : Standing(r)

(* A payment that does not exist is an empty row.                          *)
Blank == \A p \in Pay : pay[p].st = "NONE" => pay[p] = NoPay

PayInv ==
  /\ PaymentsTypeOK /\ AllStand /\ Blank
  /\ NoOverpay /\ StatusFresh /\ ConversionTakesAll

(* A request that does nothing stands where it stood, if what it holds and *)
(* what it has read of p is left alone.                                    *)
LEMMA Stands ==
  ASSUME PayInv, NEW q \in Request, NEW p,
         tx'[q] = tx[q],
         ordLock = q => ordLock' = q,
         \A x \in Pay : payLock[x] = q => payLock'[x] = q,
         tx[q].at = "converting" => unseen \subseteq unseen',
         crossed => crossed',
         \/ /\ pay' = pay
            /\ (q \in stale => q \in stale') \/ crossed'
         \/ /\ \A x \in Pay \ {p} : pay'[x] = pay[x]
            /\ tx[q].at \notin {"adding", "preparing"}
            /\ tx[q].at = "reviewing" => tx[q].pay # p
            /\ tx[q].at = "converting" => p \in unseen'
            /\ tx[q].at \in {"reviewing", "deleting"} => q \in stale' \/ crossed'
  PROVE  Standing(q)'
<1>1. Standing(q) BY DEF PayInv, AllStand
<1>2. CASE pay' = pay
  <2>1. Amount(pay', Existing(pay')) = Amount(pay, Existing(pay))
        /\ With(pay', {"PENDIENTE"}) = With(pay, {"PENDIENTE"}) /\ InReview(pay') = InReview(pay)
    BY <1>2
  <2> QED BY <1>1, <1>2, <2>1 DEF Standing, Adding, Reviewing
<1>3. CASE \A x \in Pay \ {p} : pay'[x] = pay[x]
  <2> SUFFICES ASSUME /\ tx[q].at \notin {"adding", "preparing"}
                      /\ tx[q].at = "reviewing" => tx[q].pay # p
                      /\ tx[q].at = "converting" => p \in unseen'
                      /\ tx[q].at \in {"reviewing", "deleting"} => q \in stale' \/ crossed'
               PROVE Standing(q)'
    BY <1>2
  <2>1. tx[q].at = "reviewing" => Reviewing(q)' BY <1>1, <1>3 DEF Standing, Reviewing
  <2>2. tx[q].at = "converting" =>
          \A x \in Pay : /\ tx[q].snap[x].st \in {"NONE", "VALIDADO"}
                         /\ x \notin unseen' => tx[q].snap[x] = pay'[x]
    BY <1>1, <1>3 DEF Standing
  <2> QED BY <1>1, <2>1, <2>2 DEF Standing
<1> QED BY <1>2, <1>3

-----------------------------------------------------------------------------
LEMMA StatusWord == ASSUME NEW table PROVE StatusOf(table) \in {"NO_APLICA", "ABONADO", "PAGADO"}
BY DEF StatusOf

LEMMA TxShape ==
  ASSUME PaymentsTypeOK, NEW r \in Request
  PROVE  /\ tx[r].at \in {"idle", "adding", "reviewing", "deleting", "preparing", "converting"}
         /\ tx[r].pay \in Pay \cup {None} /\ tx[r].row \in Rows
         /\ tx[r].snap \in [Pay -> Rows] /\ tx[r].strict \in BOOLEAN
BY DEF PaymentsTypeOK

LEMMA EmptyRow == NoPay \in Rows /\ NoRows \in [Pay -> Rows]
BY PaymentsAssumption DEF NoPay, NoRows, Rows

LEMMA OpenType ==
  ASSUME PaymentsTypeOK, NEW r \in Request, NEW at, NEW p \in Pay \cup {None}, NEW row \in Rows,
         NEW strict \in BOOLEAN,
         at \in {"adding", "reviewing", "deleting", "preparing", "converting"},
         Open(r, at, p, row, strict)
  PROVE  tx' \in [Request ->
           [at : {"idle", "adding", "reviewing", "deleting", "preparing", "converting"},
            pay : Pay \cup {None}, row : Rows, snap : [Pay -> Rows], strict : BOOLEAN]]
BY DEF PaymentsTypeOK, Open

LEMMA CloseType ==
  ASSUME PaymentsTypeOK, NEW r \in Request, Close(r)
  PROVE  tx' \in [Request ->
           [at : {"idle", "adding", "reviewing", "deleting", "preparing", "converting"},
            pay : Pay \cup {None}, row : Rows, snap : [Pay -> Rows], strict : BOOLEAN]]
<1>1. Free \in [at : {"idle", "adding", "reviewing", "deleting", "preparing", "converting"},
            pay : Pay \cup {None}, row : Rows, snap : [Pay -> Rows], strict : BOOLEAN]
  BY EmptyRow DEF Free
<1> QED BY <1>1 DEF PaymentsTypeOK, Close

LEMMA CommitType ==
  ASSUME PaymentsTypeOK, NEW r \in Request, NEW over \in SUBSET Request, Commit(r, over)
  PROVE  crossed' \in BOOLEAN /\ stale' \in SUBSET Request
<1>1. crossed \in BOOLEAN /\ stale \in SUBSET Request BY DEF PaymentsTypeOK
<1>2. crossed' \in BOOLEAN BY <1>1 DEF Commit
<1> QED BY <1>1, <1>2 DEF Commit

LEMMA InitInv == PaymentsInit => PayInv
<1> SUFFICES ASSUME PaymentsInit PROVE PayInv OBVIOUS
<1>1. \A sts : "NONE" \notin sts => With(pay, sts) = {}
  BY DEF PaymentsInit, With, NoRows, NoPay
<1>2. Existing(pay) = {} BY DEF PaymentsInit, Existing, NoRows, NoPay
<1>3. Amount(pay, {}) = 0 BY SumEmpty DEF Amount
<1>4. Paid(pay) = 0 BY <1>1, <1>3 DEF Paid
<1>5. StatusOf(pay) = "NO_APLICA" BY <1>4, PaymentsAssumption DEF StatusOf
<1>6. PaymentsTypeOK
  <2>1. tx \in [Request ->
           [at : {"idle", "adding", "reviewing", "deleting", "preparing", "converting"},
            pay : Pay \cup {None}, row : Rows, snap : [Pay -> Rows], strict : BOOLEAN]]
    BY EmptyRow DEF PaymentsInit, Free
  <2> QED BY <2>1, EmptyRow DEF PaymentsInit, PaymentsTypeOK
<1>7. AllStand BY DEF PaymentsInit, AllStand, Standing, Free
<1>8. Blank BY DEF PaymentsInit, Blank, NoRows
<1>9. NoOverpay
  <2>1. {p \in With(pay, {"PENDIENTE"}) : pay[p].customer} = {} BY <1>1
  <2> QED BY <1>2, <1>3, <2>1, FS_EmptySet, PaymentsAssumption DEF NoOverpay
<1>10. StatusFresh BY <1>5 DEF StatusFresh, PaymentsInit
<1>11. ConversionTakesAll BY DEF ConversionTakesAll, PaymentsInit
<1> QED BY <1>6, <1>7, <1>8, <1>9, <1>10, <1>11 DEF PayInv

LEMMA TypesKept ==
  ASSUME PayInv, PaymentsNext
  PROVE  PaymentsTypeOK'
<1>0. PaymentsTypeOK BY DEF PayInv
<1>t. /\ pay \in [Pay -> Rows] /\ paymentStatus \in {"NO_APLICA", "ABONADO", "PAGADO"}
      /\ closed \in BOOLEAN /\ prepared \in BOOLEAN /\ converted \in BOOLEAN
      /\ required \in BOOLEAN /\ crossed \in BOOLEAN
      /\ taken \in SUBSET Pay /\ unseen \in SUBSET Pay /\ stale \in SUBSET Request
      /\ payLock \in [Pay -> Request \cup {None}] /\ ordLock \in Request \cup {None}
  BY <1>0 DEF PaymentsTypeOK
<1>1. ASSUME NEW r \in Request, AddEnd(r) PROVE PaymentsTypeOK'
  <2>1. tx[r].pay \in Pay /\ tx[r].row \in Rows
    BY <1>1, <1>0, TxShape DEF PayInv, AllStand, Standing, Adding, AddEnd
  <2>2. Reading({"reviewing", "deleting"}) \in SUBSET Request BY DEF Reading
  <2> QED BY <1>t, <1>1, <1>0, <2>1, <2>2, CommitType, CloseType, StatusWord
          DEF AddEnd, Commit, Unseen, PaymentsTypeOK
<1>2. ASSUME NEW r \in Request, ReviewEnd(r) PROVE PaymentsTypeOK'
  <2>1. tx[r].pay \in Pay /\ tx[r].row \in Rows
    BY <1>2, <1>0, TxShape DEF PayInv, AllStand, Standing, Reviewing, ReviewEnd
  <2>2. InProgress \in SUBSET Request BY DEF InProgress
  <2> QED BY <1>t, <1>2, <1>0, <2>1, <2>2, CommitType, CloseType, StatusWord
          DEF ReviewEnd, Commit, Unseen, PaymentsTypeOK
<1>3. ASSUME NEW r \in Request, DeleteEnd(r) PROVE PaymentsTypeOK'
  <2>1. tx[r].pay \in Pay BY <1>3, <1>0 DEF PayInv, AllStand, Standing, DeleteEnd
  <2>2. InProgress \in SUBSET Request BY DEF InProgress
  <2> QED BY <1>t, <1>3, <1>0, <2>1, <2>2, CommitType, CloseType, StatusWord, EmptyRow
          DEF DeleteEnd, Commit, Unseen, PaymentsTypeOK
<1>4. ASSUME NEW r \in Request, PrepareEnd(r) PROVE PaymentsTypeOK'
  BY <1>t, <1>4, <1>0, CommitType, CloseType DEF PrepareEnd, Commit, PaymentsTypeOK
<1>5. ASSUME NEW r \in Request, ConversionMarks(r) PROVE PaymentsTypeOK'
  BY <1>t, <1>5, <1>0, CloseType DEF ConversionMarks, Existing, PaymentsTypeOK
<1>6. ASSUME NEW r \in Request, PrepareBegin(r) PROVE PaymentsTypeOK'
  <2>1. PICK strict \in BOOLEAN : Open(r, "preparing", None, NoPay, strict)
    BY <1>t, <1>6 DEF PrepareBegin
  <2>2. NoPay \in Rows BY EmptyRow
  <2>3. tx' \in [Request ->
           [at : {"idle", "adding", "reviewing", "deleting", "preparing", "converting"},
            pay : Pay \cup {None}, row : Rows, snap : [Pay -> Rows], strict : BOOLEAN]]
    BY <1>0, <2>1, <2>2, OpenType, Zenon
  <2> QED BY <1>t, <1>6, <2>3 DEF PrepareBegin, LockForPayment, PaymentsTypeOK
<1>7. ASSUME NEW r \in Request, ConversionReads(r) PROVE PaymentsTypeOK'
  BY <1>t, <1>7, <1>0, OpenType, EmptyRow DEF ConversionReads, PaymentsTypeOK
<1>8. ASSUME NEW r \in Request, FailTx(r) PROVE PaymentsTypeOK'
  BY <1>t, <1>8, <1>0, CloseType DEF FailTx, Rollback, PaymentsTypeOK
<1>9. ASSUME NEW r \in Request, NEW p \in Pay, DeleteBegin(r, p) PROVE PaymentsTypeOK'
  BY <1>t, <1>9, <1>0, OpenType, EmptyRow DEF DeleteBegin, PaymentsTypeOK
<1>10. ASSUME NEW r \in Request, NEW p \in Pay, NEW b \in BOOLEAN, ReviewBegin(r, p, b)
       PROVE PaymentsTypeOK'
  <2>1. [pay[p] EXCEPT !.st = IF b THEN "VALIDADO" ELSE "OBSERVADO"] \in Rows
    BY <1>t DEF Rows
  <2> QED BY <1>t, <1>10, <1>0, <2>1, OpenType DEF ReviewBegin, PaymentsTypeOK
<1>11. ASSUME NEW r \in Request, NEW p \in Pay, NEW n \in 1..Total, NEW b \in BOOLEAN,
              AddBegin(r, p, n, b)
       PROVE PaymentsTypeOK'
  <2> DEFINE st == IF b \/ required THEN "PENDIENTE" ELSE "VALIDADO"
  <2>1. [st |-> st, amount |-> n, customer |-> b] \in Rows BY PaymentsAssumption DEF Rows
  <2>2. Open(r, "adding", p, [st |-> st, amount |-> n, customer |-> b], FALSE)
    BY <1>11 DEF AddBegin
  <2> QED BY <1>t, <1>11, <1>0, <2>1, <2>2, OpenType DEF AddBegin, LockForPayment, PaymentsTypeOK
<1>12. CASE CloseOrder BY <1>t, <1>12, <1>0 DEF CloseOrder, PaymentsTypeOK
<1>13. CASE Toggle BY <1>t, <1>13, <1>0 DEF Toggle, PaymentsTypeOK
<1> QED BY <1>1, <1>2, <1>3, <1>4, <1>5, <1>6, <1>7, <1>8, <1>9, <1>10, <1>11, <1>12, <1>13
        DEF PaymentsNext

-----------------------------------------------------------------------------
(* A step that changes no payment.                                         *)
LEMMA NothingChanged ==
  ASSUME PayInv, UNCHANGED <<pay, paymentStatus>>, crossed => crossed',
         UNCHANGED <<converted, taken, unseen>> \/ ~converted'
  PROVE  Blank' /\ NoOverpay' /\ StatusFresh' /\ ConversionTakesAll'
<1>1. Blank' BY DEF PayInv, Blank
<1>2. NoOverpay' BY DEF PayInv, NoOverpay, Existing, With, Amount
<1>3. StatusFresh' BY DEF PayInv, StatusFresh
<1>4. ConversionTakesAll' BY DEF PayInv, ConversionTakesAll
<1> QED BY <1>1, <1>2, <1>3, <1>4

(* Who holds the order's row holds it alone.                               *)
LEMMA OneOrderLock ==
  ASSUME PayInv, NEW r \in Request, NEW q \in Request, ordLock = r \/ ordLock = None, q # r
  PROVE  tx[q].at \notin {"adding", "preparing"} /\ ordLock # q
BY NoneIsNoRequest DEF PayInv, AllStand, Standing, Adding

LEMMA NoIdleStands == ASSUME NEW q \in Request, tx'[q] = Free PROVE Standing(q)'
BY DEF Standing, Free

LEMMA CloseOthers ==
  ASSUME PayInv, NEW r \in Request, Close(r)
  PROVE  tx'[r] = Free /\ \A q \in Request \ {r} : tx'[q] = tx[q]
BY DEF PayInv, PaymentsTypeOK, Close

LEMMA OpenOthers ==
  ASSUME PayInv, NEW r \in Request, NEW at, NEW p, NEW row, NEW strict, Open(r, at, p, row, strict)
  PROVE  /\ tx'[r] = [at |-> at, pay |-> p, row |-> row, snap |-> pay, strict |-> strict]
         /\ \A q \in Request \ {r} : tx'[q] = tx[q]
BY DEF PayInv, PaymentsTypeOK, Open

(* What a commit tells of the others.                                      *)
LEMMA CommitMarks ==
  ASSUME PayInv, NEW r \in Request, NEW over, Commit(r, over)
  PROVE  /\ crossed => crossed'
         /\ r \in stale => crossed'
         /\ \A q \in Request \ {r} : q \in stale \cup over => q \in stale' \/ crossed'
BY DEF Commit

LEMMA AddedRow ==
  ASSUME PayInv, NEW p \in Pay, pay[p].st = "NONE", NEW row \in Rows, row.st # "NONE",
         pay' = [pay EXCEPT ![p] = row]
  PROVE  Amount(pay', Existing(pay')) = row.amount + Amount(pay, Existing(pay))
<1> DEFINE f == [x \in Pay |-> pay[x].amount]
           g == [x \in Pay |-> pay'[x].amount]
           S == Existing(pay)
<1>1. pay \in [Pay -> Rows] BY DEF PayInv, PaymentsTypeOK
<1>2. Existing(pay') = S \cup {p} /\ p \notin S /\ S \subseteq Pay BY <1>1 DEF Existing
<1>3. IsFiniteSet(S) BY <1>2, FS_Subset, PaymentsAssumption
<1>4. \A x \in S : f[x] = g[x] BY <1>1, <1>2
<1>5. Column(g, S) /\ g[p] = row.amount /\ g[p] \in Int
  BY <1>1, <1>2, PaymentsAssumption DEF Column, Rows
<1>6. Amount(pay, S) = SumOf(f, S) /\ Amount(pay', S \cup {p}) = SumOf(g, S \cup {p})
  BY DEF Amount
<1> HIDE DEF f, g, S
<1>7. SumOf(f, S) = SumOf(g, S) BY <1>3, <1>4, SumSame
<1>8. SumOf(g, S \cup {p}) = g[p] + SumOf(g, S) BY <1>2, <1>3, <1>5, SumWith
<1> QED BY <1>2, <1>5, <1>6, <1>7, <1>8 DEF S

LEMMA ReviewedRow ==
  ASSUME PayInv, NEW p \in Pay, pay[p].st # "NONE", NEW row \in Rows, row.st # "NONE",
         row.amount = pay[p].amount, pay' = [pay EXCEPT ![p] = row]
  PROVE  Amount(pay', Existing(pay')) = Amount(pay, Existing(pay))
<1> DEFINE f == [x \in Pay |-> pay[x].amount]
           g == [x \in Pay |-> pay'[x].amount]
           S == Existing(pay)
<1>1. pay \in [Pay -> Rows] BY DEF PayInv, PaymentsTypeOK
<1>2. Existing(pay') = S /\ S \subseteq Pay BY <1>1 DEF Existing
<1>3. IsFiniteSet(S) BY <1>2, FS_Subset, PaymentsAssumption
<1>4. \A x \in S : f[x] = g[x] BY <1>1, <1>2
<1>6. Amount(pay, S) = SumOf(f, S) /\ Amount(pay', S) = SumOf(g, S) BY DEF Amount
<1> HIDE DEF f, g, S
<1>7. SumOf(f, S) = SumOf(g, S) BY <1>3, <1>4, SumSame
<1> QED BY <1>2, <1>6, <1>7 DEF S

LEMMA RemovedRow ==
  ASSUME PayInv, NEW p \in Pay, pay' = [pay EXCEPT ![p] = NoPay]
  PROVE  Amount(pay', Existing(pay')) <= Total
<1> DEFINE f == [x \in Pay |-> pay[x].amount]
           g == [x \in Pay |-> pay'[x].amount]
           S == Existing(pay)
           T == S \ {p}
<1>1. pay \in [Pay -> Rows] BY DEF PayInv, PaymentsTypeOK
<1>2. Existing(pay') = T /\ S \subseteq Pay BY <1>1 DEF Existing, NoPay
<1>3. IsFiniteSet(S) /\ IsFiniteSet(T) BY <1>2, FS_Subset, FS_RemoveElement, PaymentsAssumption
<1>4. \A x \in T : f[x] = g[x] BY <1>1, <1>2
<1>5. \A x \in S : f[x] \in Nat BY <1>1, <1>2, PaymentsAssumption DEF Rows
<1>6. Amount(pay, S) = SumOf(f, S) /\ Amount(pay', T) = SumOf(g, T) BY DEF Amount
<1>7. SumOf(f, S) <= Total BY <1>6 DEF PayInv, NoOverpay
<1>8. p \notin S => T = S OBVIOUS
<1>9. \A x \in T : x \in S OBVIOUS
<1> HIDE DEF f, g, S
<1>10. SumOf(f, T) = SumOf(g, T) BY <1>3, <1>4, SumSame
<1>11. SumOf(f, T) <= Total
  <2>1. CASE p \in S
    <3>1. Column(f, S) BY <1>5 DEF Column
    <3>2. SumOf(f, S) = f[p] + SumOf(f, T) BY <2>1, <1>3, <3>1, SumWithout
    <3>3. SumOf(f, T) \in Nat BY <1>3, <1>5, <1>9, SumNatural
    <3> QED BY <1>5, <1>7, <2>1, <3>2, <3>3, PaymentsAssumption
  <2> QED BY <1>7, <1>8, <2>1
<1> QED BY <1>2, <1>6, <1>10, <1>11 DEF S

Vouchers(table) == {p \in With(table, {"PENDIENTE"}) : table[p].customer}

LEMMA VouchersFinite ==
  ASSUME NEW table
  PROVE  /\ IsFiniteSet(With(table, {"PENDIENTE"})) /\ IsFiniteSet(Vouchers(table))
         /\ Cardinality(Vouchers(table)) <= Cardinality(With(table, {"PENDIENTE"}))
         /\ Cardinality(Vouchers(table)) \in Nat
         /\ Cardinality(With(table, {"PENDIENTE"})) \in Nat
<1>1. With(table, {"PENDIENTE"}) \subseteq Pay BY DEF With
<1>2. IsFiniteSet(With(table, {"PENDIENTE"})) BY <1>1, FS_Subset, PaymentsAssumption
<1>3. Vouchers(table) \subseteq With(table, {"PENDIENTE"}) BY DEF Vouchers
<1> QED BY <1>2, <1>3, FS_Subset, FS_CardinalityType

LEMMA FewerVouchers ==
  ASSUME PayInv, Vouchers(pay') \subseteq Vouchers(pay)
  PROVE  Cardinality(Vouchers(pay')) <= maxCustomerPendingPayments
<1>1. Cardinality(Vouchers(pay')) <= Cardinality(Vouchers(pay))
  BY VouchersFinite, FS_Subset
<1>2. Cardinality(Vouchers(pay)) <= maxCustomerPendingPayments
  BY DEF PayInv, NoOverpay, Vouchers
<1> QED BY <1>1, <1>2, VouchersFinite, PaymentsAssumption

-----------------------------------------------------------------------------
LEMMA AddEndInv ==
  ASSUME PayInv, NEW r \in Request, AddEnd(r)
  PROVE  AllStand' /\ Blank' /\ NoOverpay' /\ StatusFresh' /\ ConversionTakesAll'
<1> DEFINE p == tx[r].pay  row == tx[r].row
<1>1. /\ ordLock = r /\ p \in Pay /\ pay[p].st = "NONE" /\ tx[r].snap = pay
      /\ row.st \in {"PENDIENTE", "VALIDADO"} /\ row \in Rows
      /\ row.amount + Amount(pay, Existing(pay)) <= Total
      /\ row.customer => /\ row.st = "PENDIENTE"
                         /\ Cardinality(With(pay, {"PENDIENTE"})) < maxCustomerPendingPayments
  BY TxShape DEF PayInv, AllStand, Standing, Adding, AddEnd
<1>2. /\ pay' = [pay EXCEPT ![p] = row]
      /\ paymentStatus' = StatusOf([tx[r].snap EXCEPT ![p] = row])
      /\ ordLock' = None /\ Commit(r, Reading({"reviewing", "deleting"})) /\ Unseen(p)
      /\ UNCHANGED <<converted, taken, payLock>>
  BY DEF AddEnd
<1>3. pay \in [Pay -> Rows] /\ converted \in BOOLEAN BY DEF PayInv, PaymentsTypeOK
<1> HIDE DEF p, row
<1>4. tx'[r] = Free /\ \A q \in Request \ {r} : tx'[q] = tx[q]
  BY <1>2, CloseOthers DEF Commit
<1>5. /\ crossed => crossed'
      /\ \A q \in Request \ {r} :
           q \in Reading({"reviewing", "deleting"}) => q \in stale' \/ crossed'
  BY <1>2, CommitMarks
<1>6. /\ unseen \subseteq unseen'
      /\ converted \/ (\E q \in Request : tx[q].at = "converting") => p \in unseen'
  BY <1>2 DEF Unseen, Reading
<1>7. ASSUME NEW q \in Request, q # r PROVE Standing(q)'
  <2>1. tx[q].at \notin {"adding", "preparing"} /\ ordLock # q BY <1>1, <1>7, OneOrderLock
  <2>2. tx[q].at = "reviewing" => tx[q].pay # p
    BY <1>1 DEF PayInv, AllStand, Standing, Reviewing
  <2>3. tx[q].at \in {"reviewing", "deleting"} => q \in stale' \/ crossed'
    BY <1>5, <1>7 DEF Reading
  <2>4. \A x \in Pay \ {p} : pay'[x] = pay[x] BY <1>1, <1>2, <1>3
  <2> QED BY <1>1, <1>2, <1>4, <1>5, <1>6, <1>7, <2>1, <2>2, <2>3, <2>4, Stands
<1>8. AllStand' BY <1>4, <1>7, NoIdleStands DEF AllStand
<1>9. Blank' BY <1>1, <1>2, <1>3 DEF PayInv, Blank
<1>10. NoOverpay'
  <2>1. Amount(pay', Existing(pay')) <= Total BY <1>1, <1>2, AddedRow
  <2>2. CASE row.customer
    <3>1. Vouchers(pay') = Vouchers(pay) \cup {p} /\ p \notin Vouchers(pay)
      BY <1>1, <1>2, <1>3, <2>2 DEF Vouchers, With
    <3>2. Cardinality(Vouchers(pay')) = Cardinality(Vouchers(pay)) + 1
      BY <3>1, VouchersFinite, FS_AddElement
    <3>3. Cardinality(Vouchers(pay')) <= maxCustomerPendingPayments
      BY <1>1, <2>2, <3>2, VouchersFinite, PaymentsAssumption
    <3> QED BY <2>1, <3>3 DEF NoOverpay, Vouchers
  <2>3. CASE ~row.customer
    <3>1. Vouchers(pay') \subseteq Vouchers(pay)
      BY <1>1, <1>2, <1>3, <2>3 DEF Vouchers, With
    <3> QED BY <2>1, <3>1, FewerVouchers DEF NoOverpay, Vouchers
  <2> QED BY <2>2, <2>3
<1>11. StatusFresh' BY <1>1, <1>2 DEF StatusFresh
<1>12. ConversionTakesAll'
  BY <1>1, <1>2, <1>3, <1>6 DEF PayInv, ConversionTakesAll
<1> QED BY <1>8, <1>9, <1>10, <1>11, <1>12

LEMMA ReviewEndInv ==
  ASSUME PayInv, NEW r \in Request, ReviewEnd(r)
  PROVE  AllStand' /\ Blank' /\ NoOverpay' /\ StatusFresh' /\ ConversionTakesAll'
<1> DEFINE p == tx[r].pay  row == tx[r].row
<1>1. /\ p \in Pay /\ payLock[p] = r /\ pay[p].st # "NONE" /\ ordLock = None
      /\ row.st \in {"VALIDADO", "OBSERVADO"} /\ row \in Rows
      /\ row.amount = pay[p].amount /\ row.customer = pay[p].customer
      /\ r \notin stale /\ ~crossed => tx[r].snap = pay
  BY TxShape DEF PayInv, AllStand, Standing, Reviewing, ReviewEnd
<1>2. /\ pay' = [pay EXCEPT ![p] = row]
      /\ paymentStatus' = StatusOf([tx[r].snap EXCEPT ![p] = row])
      /\ payLock' = [payLock EXCEPT ![p] = None]
      /\ Commit(r, InProgress) /\ Unseen(p)
      /\ UNCHANGED <<converted, taken, ordLock>>
  BY DEF ReviewEnd
<1>3. /\ pay \in [Pay -> Rows] /\ converted \in BOOLEAN
      /\ payLock \in [Pay -> Request \cup {None}]
  BY DEF PayInv, PaymentsTypeOK
<1> HIDE DEF p, row
<1>4. tx'[r] = Free /\ \A q \in Request \ {r} : tx'[q] = tx[q]
  BY <1>2, CloseOthers DEF Commit
<1>5. /\ crossed => crossed'
      /\ r \in stale => crossed'
      /\ \A q \in Request \ {r} : q \in InProgress => q \in stale' \/ crossed'
  BY <1>2, CommitMarks
<1>6. /\ unseen \subseteq unseen'
      /\ converted \/ (\E q \in Request : tx[q].at = "converting") => p \in unseen'
  BY <1>2 DEF Unseen, Reading
<1>7. ASSUME NEW q \in Request, q # r PROVE Standing(q)'
  <2>1. tx[q].at \notin {"adding", "preparing"} /\ ordLock # q BY <1>1, <1>7, OneOrderLock
  <2>2. tx[q].at = "reviewing" => tx[q].pay # p
    BY <1>1, <1>7 DEF PayInv, AllStand, Standing, Reviewing
  <2>3. tx[q].at \in {"reviewing", "deleting"} => q \in stale' \/ crossed'
    BY <1>5, <1>7 DEF InProgress, Free
  <2>4. \A x \in Pay \ {p} : pay'[x] = pay[x] BY <1>1, <1>2, <1>3
  <2>5. \A x \in Pay : payLock[x] = q => payLock'[x] = q BY <1>1, <1>2, <1>3, <1>7
  <2> QED BY <1>1, <1>2, <1>4, <1>5, <1>6, <1>7, <2>1, <2>2, <2>3, <2>4, <2>5, Stands
<1>8. AllStand' BY <1>4, <1>7, NoIdleStands DEF AllStand
<1>9. Blank' BY <1>1, <1>2, <1>3 DEF PayInv, Blank
<1>10. NoOverpay'
  <2>1. Amount(pay', Existing(pay')) <= Total
    BY <1>1, <1>2, ReviewedRow DEF PayInv, NoOverpay
  <2>2. Vouchers(pay') \subseteq Vouchers(pay) BY <1>1, <1>2, <1>3 DEF Vouchers, With
  <2> QED BY <2>1, <2>2, FewerVouchers DEF NoOverpay, Vouchers
<1>11. StatusFresh' BY <1>1, <1>2, <1>5 DEF StatusFresh
<1>12. ConversionTakesAll'
  BY <1>1, <1>2, <1>3, <1>6 DEF PayInv, ConversionTakesAll
<1> QED BY <1>8, <1>9, <1>10, <1>11, <1>12

LEMMA DeleteEndInv ==
  ASSUME PayInv, NEW r \in Request, DeleteEnd(r)
  PROVE  AllStand' /\ Blank' /\ NoOverpay' /\ StatusFresh' /\ ConversionTakesAll'
<1> DEFINE p == tx[r].pay
<1>1. /\ p \in Pay /\ payLock[p] = None /\ ordLock = None
      /\ r \notin stale /\ ~crossed => tx[r].snap = pay
  BY DEF PayInv, AllStand, Standing, DeleteEnd
<1>2. /\ pay' = [pay EXCEPT ![p] = NoPay]
      /\ paymentStatus' = StatusOf(IF pay[p].st # "NONE" THEN [tx[r].snap EXCEPT ![p] = NoPay]
                                                       ELSE tx[r].snap)
      /\ Commit(r, InProgress) /\ Unseen(p)
      /\ UNCHANGED <<converted, taken, ordLock, payLock>>
  BY DEF DeleteEnd
<1>3. pay \in [Pay -> Rows] /\ converted \in BOOLEAN BY DEF PayInv, PaymentsTypeOK
<1> HIDE DEF p
<1>4. tx'[r] = Free /\ \A q \in Request \ {r} : tx'[q] = tx[q]
  BY <1>2, CloseOthers DEF Commit
<1>5. /\ crossed => crossed'
      /\ r \in stale => crossed'
      /\ \A q \in Request \ {r} : q \in InProgress => q \in stale' \/ crossed'
  BY <1>2, CommitMarks
<1>6. /\ unseen \subseteq unseen'
      /\ converted \/ (\E q \in Request : tx[q].at = "converting") => p \in unseen'
  BY <1>2 DEF Unseen, Reading
<1>7. ASSUME NEW q \in Request, q # r PROVE Standing(q)'
  <2>1. tx[q].at \notin {"adding", "preparing"} /\ ordLock # q BY <1>1, <1>7, OneOrderLock
  <2>2. tx[q].at = "reviewing" => tx[q].pay # p
    BY <1>1, <1>7, NoneIsNoRequest DEF PayInv, AllStand, Standing, Reviewing
  <2>3. tx[q].at \in {"reviewing", "deleting"} => q \in stale' \/ crossed'
    BY <1>5, <1>7 DEF InProgress, Free
  <2>4. \A x \in Pay \ {p} : pay'[x] = pay[x] BY <1>1, <1>2, <1>3
  <2> QED BY <1>1, <1>2, <1>4, <1>5, <1>6, <1>7, <2>1, <2>2, <2>3, <2>4, Stands
<1>8. AllStand' BY <1>4, <1>7, NoIdleStands DEF AllStand
<1>9. Blank' BY <1>1, <1>2, <1>3 DEF PayInv, Blank
<1>10. NoOverpay'
  <2>1. Amount(pay', Existing(pay')) <= Total BY <1>1, <1>2, RemovedRow
  <2>2. Vouchers(pay') \subseteq Vouchers(pay) BY <1>1, <1>2, <1>3 DEF Vouchers, With, NoPay
  <2> QED BY <2>1, <2>2, FewerVouchers DEF NoOverpay, Vouchers
<1>11. StatusFresh'
  <2>1. CASE pay[p].st # "NONE" BY <1>1, <1>2, <1>5, <2>1 DEF StatusFresh
  <2>2. CASE pay[p].st = "NONE"
    <3>1. pay' = pay BY <1>1, <1>2, <1>3, <2>2 DEF PayInv, Blank
    <3> QED BY <1>1, <1>2, <1>5, <2>2, <3>1 DEF StatusFresh
  <2> QED BY <2>1, <2>2
<1>12. ConversionTakesAll'
  BY <1>1, <1>2, <1>3, <1>6 DEF PayInv, ConversionTakesAll
<1> QED BY <1>8, <1>9, <1>10, <1>11, <1>12

-----------------------------------------------------------------------------
(* The others, and the one that takes a step, when no payment changes.     *)
LEMMA OthersStand ==
  ASSUME PayInv, UNCHANGED <<pay, crossed>>, NEW r \in Request,
         \A q \in Request \ {r} :
           /\ tx'[q] = tx[q] /\ (ordLock = q => ordLock' = q)
           /\ \A x \in Pay : payLock[x] = q => payLock'[x] = q
           /\ tx[q].at = "converting" => unseen \subseteq unseen'
           /\ q \in stale => q \in stale' \/ crossed',
         Standing(r)'
  PROVE  AllStand'
<1>1. ASSUME NEW q \in Request, q # r PROVE Standing(q)' BY <1>1, Stands
<1> QED BY <1>1 DEF AllStand

LEMMA PrepareEndInv ==
  ASSUME PayInv, NEW r \in Request, PrepareEnd(r)
  PROVE  AllStand' /\ Blank' /\ NoOverpay' /\ StatusFresh' /\ ConversionTakesAll'
<1>1. /\ ordLock = r /\ ordLock' = None /\ Commit(r, {})
      /\ UNCHANGED <<pay, paymentStatus, converted, taken, payLock, unseen>>
  BY DEF PrepareEnd, PayInv, AllStand, Standing
<1>2. tx'[r] = Free /\ \A q \in Request \ {r} : tx'[q] = tx[q]
  BY <1>1, CloseOthers DEF Commit
<1>3. crossed => crossed' BY <1>1, CommitMarks
<1>4. \A q \in Request \ {r} : q \in stale => q \in stale' \/ crossed'
  BY <1>1, CommitMarks
<1>5. ASSUME NEW q \in Request, q # r PROVE Standing(q)'
  <2>1. tx'[q] = tx[q] /\ ordLock # q /\ (q \in stale => q \in stale' \/ crossed')
    BY <1>1, <1>2, <1>4, <1>5
  <2> QED BY <1>1, <1>3, <2>1, Stands
<1>6. AllStand' BY <1>2, <1>5, NoIdleStands DEF AllStand
<1> QED BY <1>1, <1>3, <1>6, NothingChanged

LEMMA FailTxInv ==
  ASSUME PayInv, NEW r \in Request, FailTx(r)
  PROVE  AllStand' /\ Blank' /\ NoOverpay' /\ StatusFresh' /\ ConversionTakesAll'
<1>1. /\ Close(r) /\ stale' = stale \ {r}
      /\ payLock' = [x \in Pay |-> IF payLock[x] = r THEN None ELSE payLock[x]]
      /\ ordLock' = IF ordLock = r THEN None ELSE ordLock
      /\ UNCHANGED <<pay, paymentStatus, converted, taken, unseen, crossed>>
  BY DEF FailTx, Rollback
<1>2. tx'[r] = Free /\ \A q \in Request \ {r} : tx'[q] = tx[q] BY <1>1, CloseOthers
<1>3. Standing(r)' BY <1>2, NoIdleStands
<1>4. AllStand' BY <1>1, <1>2, <1>3, OthersStand
<1> QED BY <1>1, <1>4, NothingChanged

LEMMA ConversionReadsInv ==
  ASSUME PayInv, NEW r \in Request, ConversionReads(r)
  PROVE  AllStand' /\ Blank' /\ NoOverpay' /\ StatusFresh' /\ ConversionTakesAll'
<1>1. /\ tx[r] = Free /\ ~converted' /\ InReview(pay) = {}
      /\ Open(r, "converting", None, NoPay, FALSE)
      /\ unseen' = IF Reading({"converting"}) = {} THEN {} ELSE unseen
      /\ UNCHANGED <<pay, paymentStatus, converted, payLock, ordLock, stale, crossed>>
  BY DEF ConversionReads
<1>2. /\ tx'[r] = [at |-> "converting", pay |-> None, row |-> NoPay, snap |-> pay, strict |-> FALSE]
      /\ \A q \in Request \ {r} : tx'[q] = tx[q]
  BY <1>1, OpenOthers
<1>3. \A x \in Pay : pay[x].st \in {"NONE", "VALIDADO"}
  BY <1>1 DEF PayInv, PaymentsTypeOK, Rows, InReview, With
<1>4. Standing(r)' BY <1>1, <1>2, <1>3 DEF Standing
<1>5. \A q \in Request : tx[q].at = "converting" => unseen \subseteq unseen'
  BY <1>1 DEF Reading
<1>6. AllStand' BY <1>1, <1>2, <1>4, <1>5, OthersStand
<1> QED BY <1>1, <1>6, NothingChanged

LEMMA ConversionMarksInv ==
  ASSUME PayInv, NEW r \in Request, ConversionMarks(r)
  PROVE  AllStand' /\ Blank' /\ NoOverpay' /\ StatusFresh' /\ ConversionTakesAll'
<1>1. /\ tx[r].at = "converting" /\ taken' = Existing(tx[r].snap)
      /\ Close(r) /\ stale' = stale \ {r}
      /\ UNCHANGED <<pay, paymentStatus, payLock, ordLock, unseen, crossed>>
  BY DEF ConversionMarks
<1>2. tx'[r] = Free /\ \A q \in Request \ {r} : tx'[q] = tx[q] BY <1>1, CloseOthers
<1>3. Standing(r)' BY <1>2, NoIdleStands
<1>4. AllStand' BY <1>1, <1>2, <1>3, OthersStand
<1>5. Blank' BY <1>1 DEF PayInv, Blank
<1>6. NoOverpay' BY <1>1 DEF PayInv, NoOverpay, Existing, With, Amount
<1>7. StatusFresh' BY <1>1 DEF PayInv, StatusFresh
<1>8. \A x \in Pay : /\ tx[r].snap[x].st \in {"NONE", "VALIDADO"}
                     /\ x \notin unseen => tx[r].snap[x] = pay[x]
  BY <1>1 DEF PayInv, AllStand, Standing
<1>9. ConversionTakesAll' BY <1>1, <1>8 DEF ConversionTakesAll, Existing
<1> QED BY <1>4, <1>5, <1>6, <1>7, <1>9

LEMMA PrepareBeginInv ==
  ASSUME PayInv, NEW r \in Request, PrepareBegin(r)
  PROVE  AllStand' /\ Blank' /\ NoOverpay' /\ StatusFresh' /\ ConversionTakesAll'
<1>0. PICK strict \in {required, FALSE} :
        /\ strict => InReview(pay) = {}
        /\ Open(r, "preparing", None, NoPay, strict)
  BY DEF PrepareBegin, NoneInReview
<1>1. /\ ordLock = None /\ ordLock' = r
      /\ UNCHANGED <<pay, paymentStatus, converted, taken, payLock, stale, crossed, unseen>>
  BY DEF PrepareBegin, LockForPayment
<1>2. /\ tx'[r] = [at |-> "preparing", pay |-> None, row |-> NoPay, snap |-> pay,
                   strict |-> strict]
      /\ \A q \in Request \ {r} : tx'[q] = tx[q]
  BY <1>0, OpenOthers
<1>3. Standing(r)'
  <2>1. InReview(pay') = InReview(pay) BY <1>1
  <2> QED BY <1>0, <1>1, <1>2, <2>1 DEF Standing
<1>4. AllStand' BY <1>1, <1>2, <1>3, NoneIsNoRequest, OthersStand
<1> QED BY <1>1, <1>4, NothingChanged

LEMMA DeleteBeginInv ==
  ASSUME PayInv, NEW r \in Request, NEW p \in Pay, DeleteBegin(r, p)
  PROVE  AllStand' /\ Blank' /\ NoOverpay' /\ StatusFresh' /\ ConversionTakesAll'
<1>1. /\ Open(r, "deleting", p, NoPay, FALSE)
      /\ UNCHANGED <<pay, paymentStatus, converted, taken, payLock, ordLock, stale, crossed,
                     unseen>>
  BY DEF DeleteBegin
<1>2. /\ tx'[r] = [at |-> "deleting", pay |-> p, row |-> NoPay, snap |-> pay, strict |-> FALSE]
      /\ \A q \in Request \ {r} : tx'[q] = tx[q]
  BY <1>1, OpenOthers
<1>3. Standing(r)' BY <1>1, <1>2 DEF Standing
<1>4. AllStand' BY <1>1, <1>2, <1>3, OthersStand
<1> QED BY <1>1, <1>4, NothingChanged

LEMMA ReviewBeginInv ==
  ASSUME PayInv, NEW r \in Request, NEW p \in Pay, NEW b \in BOOLEAN, ReviewBegin(r, p, b)
  PROVE  AllStand' /\ Blank' /\ NoOverpay' /\ StatusFresh' /\ ConversionTakesAll'
<1> DEFINE row == [pay[p] EXCEPT !.st = IF b THEN "VALIDADO" ELSE "OBSERVADO"]
<1>1. /\ payLock[p] = None /\ pay[p].st # "NONE"
      /\ payLock' = [payLock EXCEPT ![p] = r]
      /\ Open(r, "reviewing", p, row, FALSE)
      /\ UNCHANGED <<pay, paymentStatus, converted, taken, ordLock, stale, crossed, unseen>>
  BY DEF ReviewBegin
<1>2. pay[p] \in Rows /\ payLock \in [Pay -> Request \cup {None}]
  BY DEF PayInv, PaymentsTypeOK
<1>3. row.st \in {"VALIDADO", "OBSERVADO"} /\ row.amount = pay[p].amount
      /\ row.customer = pay[p].customer
  BY <1>2 DEF Rows
<1> HIDE DEF row
<1>4. /\ tx'[r] = [at |-> "reviewing", pay |-> p, row |-> row, snap |-> pay, strict |-> FALSE]
      /\ \A q \in Request \ {r} : tx'[q] = tx[q]
  BY <1>1, OpenOthers
<1>5. payLock'[p] = r /\ \A x \in Pay \ {p} : payLock'[x] = payLock[x] BY <1>1, <1>2
<1>6. Standing(r)'
  <2>1. Reviewing(r)' BY <1>1, <1>3, <1>4, <1>5 DEF Reviewing
  <2> QED BY <1>1, <1>4, <2>1 DEF Standing
<1>7. AllStand' BY <1>1, <1>4, <1>5, <1>6, NoneIsNoRequest, OthersStand
<1> QED BY <1>1, <1>7, NothingChanged

LEMMA AddBeginInv ==
  ASSUME PayInv, NEW r \in Request, NEW p \in Pay, NEW n \in 1..Total, NEW b \in BOOLEAN,
         AddBegin(r, p, n, b)
  PROVE  AllStand' /\ Blank' /\ NoOverpay' /\ StatusFresh' /\ ConversionTakesAll'
<1> DEFINE st == IF b \/ required THEN "PENDIENTE" ELSE "VALIDADO"
           row == [st |-> st, amount |-> n, customer |-> b]
<1>1. /\ ordLock = None /\ ordLock' = r /\ pay[p].st = "NONE"
      /\ n <= Total - Amount(pay, Existing(pay))
      /\ b => Cardinality(With(pay, {"PENDIENTE"})) < maxCustomerPendingPayments
      /\ Open(r, "adding", p, row, FALSE)
      /\ UNCHANGED <<pay, paymentStatus, converted, taken, payLock, stale, crossed, unseen>>
  BY DEF AddBegin, LockForPayment, Remaining, Unused
<1>2. row.st \in {"PENDIENTE", "VALIDADO"} /\ row.amount = n /\ row.customer = b
      /\ (b => row.st = "PENDIENTE")
  OBVIOUS
<1> HIDE DEF row
<1>3. /\ tx'[r] = [at |-> "adding", pay |-> p, row |-> row, snap |-> pay, strict |-> FALSE]
      /\ \A q \in Request \ {r} : tx'[q] = tx[q]
  BY <1>1, OpenOthers
<1>4. Amount(pay, Existing(pay)) \in Int
  <2> DEFINE f == [x \in Pay |-> pay[x].amount]
             S == Existing(pay)
  <2>1. IsFiniteSet(S) BY FS_Subset, PaymentsAssumption DEF Existing
  <2>2. Column(f, S)
    BY PaymentsAssumption DEF Column, PayInv, PaymentsTypeOK, Existing, Rows
  <2>3. Amount(pay, S) = SumOf(f, S) BY DEF Amount
  <2> HIDE DEF f, S
  <2>4. SumOf(f, S) \in Int BY <2>1, <2>2, SumType
  <2> QED BY <2>3, <2>4 DEF S
<1>5. Standing(r)'
  <2>1. n + Amount(pay, Existing(pay)) <= Total BY <1>1, <1>4, PaymentsAssumption
  <2>2. /\ Amount(pay', Existing(pay')) = Amount(pay, Existing(pay))
        /\ With(pay', {"PENDIENTE"}) = With(pay, {"PENDIENTE"})
    BY <1>1
  <2>3. Adding(r)' BY <1>1, <1>2, <1>3, <2>1, <2>2 DEF Adding
  <2> QED BY <1>3, <2>3 DEF Standing
<1>6. AllStand' BY <1>1, <1>3, <1>5, NoneIsNoRequest, OthersStand
<1> QED BY <1>1, <1>6, NothingChanged

LEMMA ElseInv ==
  ASSUME PayInv, UNCHANGED <<pay, paymentStatus, converted, taken, payLock, ordLock, tx, stale,
                             crossed, unseen>>
  PROVE  AllStand' /\ Blank' /\ NoOverpay' /\ StatusFresh' /\ ConversionTakesAll'
<1>1. ASSUME NEW q \in Request PROVE Standing(q)'
  <2>1. InReview(pay') = InReview(pay) BY DEF InReview
  <2>2. Adding(q) => Adding(q)' BY DEF Adding, With, Existing, Amount
  <2> QED BY <2>1, <2>2 DEF PayInv, AllStand, Standing, Reviewing
<1>2. AllStand' BY <1>1 DEF AllStand
<1> QED BY <1>2, NothingChanged

LEMMA NextInv ==
  ASSUME PayInv, [PaymentsNext]_payVars
  PROVE  PayInv'
<1> DEFINE Safe == AllStand /\ Blank /\ NoOverpay /\ StatusFresh /\ ConversionTakesAll
<1>1. ASSUME NEW r \in Request, AddEnd(r) PROVE Safe' BY <1>1, AddEndInv
<1>2. ASSUME NEW r \in Request, ReviewEnd(r) PROVE Safe' BY <1>2, ReviewEndInv
<1>3. ASSUME NEW r \in Request, DeleteEnd(r) PROVE Safe' BY <1>3, DeleteEndInv
<1>4. ASSUME NEW r \in Request, PrepareEnd(r) PROVE Safe' BY <1>4, PrepareEndInv
<1>5. ASSUME NEW r \in Request, ConversionMarks(r) PROVE Safe' BY <1>5, ConversionMarksInv
<1>6. ASSUME NEW r \in Request, PrepareBegin(r) PROVE Safe' BY <1>6, PrepareBeginInv
<1>7. ASSUME NEW r \in Request, ConversionReads(r) PROVE Safe' BY <1>7, ConversionReadsInv
<1>8. ASSUME NEW r \in Request, FailTx(r) PROVE Safe' BY <1>8, FailTxInv
<1>9. ASSUME NEW r \in Request, NEW p \in Pay, DeleteBegin(r, p) PROVE Safe'
  BY <1>9, DeleteBeginInv
<1>10. ASSUME NEW r \in Request, NEW p \in Pay, NEW b \in BOOLEAN, ReviewBegin(r, p, b)
       PROVE Safe'
  BY <1>10, ReviewBeginInv
<1>11. ASSUME NEW r \in Request, NEW p \in Pay, NEW n \in 1..Total, NEW b \in BOOLEAN,
              AddBegin(r, p, n, b)
       PROVE Safe'
  BY <1>11, AddBeginInv
<1>12. ASSUME CloseOrder PROVE Safe'
  <2>1. UNCHANGED <<pay, paymentStatus, converted, taken, payLock, ordLock, tx, stale,
                    crossed, unseen>>
    BY <1>12 DEF CloseOrder
  <2> QED BY <2>1, ElseInv
<1>13. ASSUME Toggle PROVE Safe'
  <2>1. UNCHANGED <<pay, paymentStatus, converted, taken, payLock, ordLock, tx, stale,
                    crossed, unseen>>
    BY <1>13 DEF Toggle
  <2> QED BY <2>1, ElseInv
<1>14. CASE PaymentsNext
  <2>1. PaymentsTypeOK' BY <1>14, TypesKept
  <2>2. Safe'
    <3> HIDE DEF Safe
    <3>1. CASE \E r \in Request :
                 \/ AddEnd(r) \/ ReviewEnd(r) \/ DeleteEnd(r) \/ PrepareEnd(r)
                 \/ ConversionMarks(r) \/ PrepareBegin(r) \/ ConversionReads(r) \/ FailTx(r)
      BY <3>1, <1>1, <1>2, <1>3, <1>4, <1>5, <1>6, <1>7, <1>8
    <3>2. CASE \E r \in Request, p \in Pay :
                 \/ DeleteBegin(r, p)
                 \/ \E b \in BOOLEAN : ReviewBegin(r, p, b)
                 \/ \E n \in 1..Total, b \in BOOLEAN : AddBegin(r, p, n, b)
      <4>1. PICK r \in Request, p \in Pay :
              \/ DeleteBegin(r, p)
              \/ \E b \in BOOLEAN : ReviewBegin(r, p, b)
              \/ \E n \in 1..Total, b \in BOOLEAN : AddBegin(r, p, n, b)
        BY <3>2
      <4>2. CASE DeleteBegin(r, p) BY <4>2, <1>9
      <4>3. CASE \E b \in BOOLEAN : ReviewBegin(r, p, b) BY <4>3, <1>10
      <4>4. CASE \E n \in 1..Total, b \in BOOLEAN : AddBegin(r, p, n, b) BY <4>4, <1>11
      <4> QED BY <4>1, <4>2, <4>3, <4>4
    <3> QED BY <3>1, <3>2, <1>14, <1>12, <1>13 DEF PaymentsNext
  <2> QED BY <2>1, <2>2 DEF PayInv
<1>15. CASE UNCHANGED payVars
  <2>1. Safe' BY <1>15, ElseInv DEF payVars
  <2>2. PaymentsTypeOK' BY <1>15 DEF payVars, PayInv, PaymentsTypeOK
  <2> QED BY <2>1, <2>2 DEF PayInv
<1> QED BY <1>14, <1>15

(* The inductive invariant of the payments.                                *)
THEOREM PaymentsInvariant == PaymentsSpec => []PayInv
<1> QED BY InitInv, NextInv, PTL DEF PaymentsSpec

(* The variables of the payments keep their types.                         *)
THEOREM PaymentsTypeCorrect == PaymentsSpec => []PaymentsTypeOK
<1>1. PayInv => PaymentsTypeOK BY DEF PayInv
<1> QED BY <1>1, PaymentsInvariant, PTL

(* However many payments and requests there are, the payments of an order  *)
(* never exceed its total, nor the customer's vouchers their limit.        *)
THEOREM NeverOverpaid == PaymentsSpec => []NoOverpay
<1>1. PayInv => NoOverpay BY DEF PayInv
<1> QED BY <1>1, PaymentsInvariant, PTL

(* The payment status of an order is that of its payments for as long as   *)
(* no transaction committed after another one changed the payments it had  *)
(* read: additions, which lock the order first, never cross one another,   *)
(* and reviews or removals that overlap them are left out.                 *)
THEOREM StatusFollowsPayments == PaymentsSpec => []StatusFresh
<1>1. PayInv => StatusFresh BY DEF PayInv
<1> QED BY <1>1, PaymentsInvariant, PTL

(* The sale of an order takes every payment the conversion read, and       *)
(* nothing but validated ones.                                             *)
THEOREM SaleTakesPayments == PaymentsSpec => []ConversionTakesAll
<1>1. PayInv => ConversionTakesAll BY DEF PayInv
<1> QED BY <1>1, PaymentsInvariant, PTL

(* No order goes to preparation with a payment under review by a request   *)
(* that found the setting on and could read the payments; one that could   *)
(* not read either goes on unchecked and is left out.                      *)
THEOREM PreparedWhenReviewed == PaymentsSpec => PreparedReviewed
<1>1. PayInv => [\A r \in Request :
        (tx[r].at = "preparing" /\ prepared' # prepared /\ tx[r].strict)
          => InReview(pay) = {}]_payVars
  BY DEF PayInv, AllStand, Standing
<1> QED BY <1>1, PaymentsInvariant, PTL DEF PreparedReviewed
=============================================================================
