----------------------------- MODULE MCDocQuota -----------------------------
(* Instances of DocQuota for TLC: a plan that may allow one document,      *)
(* two, or any number.                                                     *)
EXTENDS DocQuota, TLC

Limited(n)  == [unlimited |-> FALSE, limit |-> n]
Unlimited   == [unlimited |-> TRUE, limit |-> 0]

TwoLimits   == {Limited(0), Limited(1)}
AllPlans    == TwoLimits \cup {Unlimited}
Symmetry    == Permutations(Request) \cup Permutations(Docs) \cup Permutations(Packages)
=============================================================================
