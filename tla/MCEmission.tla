----------------------------- MODULE MCEmission -----------------------------
(***************************************************************************)
(* Instances of FiscalEmission for TLC: which operations, which faults and *)
(* which answers each run allows.  Rows, keys and locks are per sale; the  *)
(* sales meet in the list of jobs, in the workers and in the batch of the  *)
(* reconciler, the only place where one keeps another from its turn.  The  *)
(* runs about that batch have several sales, the others one.               *)
(***************************************************************************)
EXTENDS FiscalEmission

Always(ops) == [r \in Requests |-> ops]
AllOps      == Always(EnqueueOps \cup SendOps)
Automatic   == Always({"auto_create"})
Resends     == Always({"auto_create", "queue", "manual_resend"})
Manual      == Always({"manual"})
Reissues    == Always({"manual", "reissue"})

(* Two requests of different sources: one by hand, one automatic.          *)
Apart == LET first == CHOOSE r \in Requests : TRUE
         IN  [r \in Requests |-> IF r = first THEN {"manual"} ELSE {"auto_create"}]

AllFaults   == FaultKinds

(* What can go wrong between the facturador and the row of the tenant, a   *)
(* document it refuses, and a process that dies.                           *)
DeliveryFaults == {"drop", "tenant", "get", "db", "emit", "crash"}
=============================================================================
