------------------------------ MODULE MCSales ------------------------------
(***************************************************************************)
(* The monthly quota and the book of sales on a small instance.  They      *)
(* share no variable, so each is explored on its own: the one that moves   *)
(* is chosen in the first state.  The rows of the sales are alike: each    *)
(* next one is the first that is free.  The book is explored twice: what   *)
(* is returned and refunded, for one sale with what is issued from it and  *)
(* no deductions; and the voucher, without refunds asked for by hand and   *)
(* with the cash open.  The tenant starts with a plan of one document and  *)
(* changes it once, to any other.                                          *)
(***************************************************************************)
EXTENDS MCDocQuota, SaleBook

CONSTANTS s1, s2, s3

VARIABLE side

Rows == <<s1, s2, s3>>
Blanks == {i \in DOMAIN Rows : Blank(Rows[i])}
InOrder == \A i \in Blanks \ Blanks', j \in Blanks : i <= j

(* One sale by itself, the others issued from it.                          *)
OneFamily ==
  /\ \A d \in Doc \ {s1} : ~Blank(d) => ~Own(d)
  /\ \A r \in Request : Is(r, "selling") => Blank(s1) /\ task[r].amount = 0

SalesInit ==
  /\ Init /\ BookInit
  /\ side \in {"quota", "returns", "voucher"}
  /\ plan = IF side = "quota" THEN Limited(1) ELSE Unlimited

SalesNext ==
  /\ UNCHANGED side
  /\ \/ side = "quota" /\ Next /\ UNCHANGED bookVars
     \/ side # "quota" /\ BookNext /\ InOrder /\ UNCHANGED vars
  /\ side = "returns" => balance' = Advance /\ OneFamily'
  /\ side = "voucher" => opened' /\ \A r \in Request : task'[r].at # "refunding"

SalesSpec == SalesInit /\ [][SalesNext]_<<side, vars, bookVars>>
=============================================================================
