----------------------------- MODULE MCBilling -----------------------------
(***************************************************************************)
(* What can go wrong while documents are billed and while the tenant is:   *)
(* one sale under faults, and one subscription under concurrent reviews,   *)
(* on small instances.  They share no variable, so each is explored on its *)
(* own; the one that moves is chosen in the first state.  The subscription *)
(* is explored three times: reviews, reverts and extensions on one day;    *)
(* reviews against the annulment of cycles; and one payment against the    *)
(* evaluation, day after day.  Payments and workers are alike: payments    *)
(* are used in order, workers are symmetric.                               *)
(***************************************************************************)
EXTENDS MCEmission, Subscriptions

CONSTANTS q1, q2

VARIABLE side

Works ==
  [reviews   |-> {"approve", "reject", "revert", "extend"},
   annulment |-> {"approve", "reject", "issue"},
   calendar  |-> {"approve", "reject", "revert", "daily", "write"}]

Evaluating(a) == work'[a].op \in {"daily", "write"}

SubscriptionNext ==
  /\ SubsNext
  /\ payment[q1] = NotSent => payment'[q2] = NotSent
  /\ \A a \in Worker : work'[a].op \in Works[side] \cup {"idle"}
  /\ \/ /\ side = "calendar" /\ payment'[q2] = NotSent
        /\ \A a, b \in Worker : Evaluating(a) /\ Evaluating(b) => a = b
     \/ /\ side # "calendar" /\ today' = 0 /\ ~Unblock
        /\ cycle'[LastEnd].status = "none" /\ sub'.end < LastEnd
  /\ side # "annulment" => \A e \in Day : ~Cancel(e)

BillingInit ==
  /\ Init /\ SubsInit
  /\ side \in {"emission"} \cup DOMAIN Works

BillingNext ==
  /\ UNCHANGED side
  /\ \/ side = "emission" /\ Next /\ UNCHANGED subsVars
     \/ side # "emission" /\ SubscriptionNext /\ UNCHANGED vars

BillingSpec == BillingInit /\ [][BillingNext]_<<side, vars, subsVars>>

Symmetry == Permutations(Worker)
=============================================================================
