------------------------------ MODULE MCLocks ------------------------------
(***************************************************************************)
(* What goroutines hold on a small instance: the lock of a sale while two  *)
(* requests emit its document, and the handles of the pool of tenants.     *)
(* They share no variable, so each is explored on its own; the one that    *)
(* moves is chosen in the first state.  Handles and tenants of the pool    *)
(* are alike: handles are numbers, opened in order, and the first one is   *)
(* opened on the first tenant.                                             *)
(***************************************************************************)
EXTENDS MCEmission, TenantPool

VARIABLE side

FirstTenant == CHOOSE t \in Tenants : TRUE

HandlesInOrder ==
  \A j, k \in Conns :
    /\ j < k /\ owner[k] # None => owner[j] # None
    /\ k = 1 => owner[k] \in {None, FirstTenant}

LocksInit ==
  /\ Init /\ PoolInit
  /\ side \in {"emission", "pool"}

LocksNext ==
  /\ UNCHANGED side
  /\ \/ side = "emission" /\ Next /\ UNCHANGED poolVars
     \/ side = "pool" /\ PoolNext /\ HandlesInOrder' /\ UNCHANGED vars

LocksSpec == LocksInit /\ [][LocksNext]_<<side, vars, poolVars>>
=============================================================================
