-------------------------- MODULE MCBillingQueue --------------------------
(***************************************************************************)
(* The older queue on a small instance: two replicas, one sale sent twice, *)
(* with two attempts a job.  JobsServed has fairness, so no SYMMETRY.      *)
(***************************************************************************)
EXTENDS BillingQueue
=============================================================================
