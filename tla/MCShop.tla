------------------------------- MODULE MCShop -------------------------------
(***************************************************************************)
(* The shop on a small instance.  Orders and payments share no variable,   *)
(* so each is explored on its own: the component that moves is chosen in   *)
(* the first state.  The orders are explored twice: two of them, from the  *)
(* shop's window to their confirmation, where they compete for the stock;  *)
(* and one for its whole life.  The order of the payments is closed, or    *)
(* goes to preparation, or sees transactions cross: what is said of one    *)
(* says nothing of the others.                                             *)
(***************************************************************************)
EXTENDS ShopOrders, OrderPayments, TLC

VARIABLE side

Early == {"NONE", "PENDIENTE", "CONFIRMADO", "RECHAZADO", "CANCELADO"}

ShopInit ==
  /\ OrdersInit /\ PaymentsInit
  /\ side \in {"orders", "parcels", "payments"}
  /\ side = "payments" => stock = MaxStock
  /\ side # "payments" => ~required

ShopNext ==
  /\ UNCHANGED side
  /\ \/ /\ side = "orders" /\ OrdersNext /\ UNCHANGED payVars
        /\ \A o \in Order : status'[o] \in Early
     \/ /\ side = "parcels" /\ OrdersNext /\ UNCHANGED payVars
        /\ \A o, p \in Order : status'[o] # "NONE" /\ status'[p] # "NONE" => o = p
     \/ /\ side = "payments" /\ PaymentsNext /\ UNCHANGED orderVars
        /\ ~(closed' /\ prepared') /\ (crossed' => ~closed' /\ ~prepared')

ShopSpec == ShopInit /\ [][ShopNext]_<<side, orderVars, payVars>>

Symmetry == Permutations(Request) \cup Permutations(Pay) \cup Permutations(Order)
=============================================================================
