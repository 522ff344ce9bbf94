------------------------------ MODULE JobQueue ------------------------------
(***************************************************************************)
(* What the queue of sales to send promises: a queued sale is finished, as *)
(* done or as dead, and is lost only when a process that works it stops.   *)
(***************************************************************************)
EXTENDS Naturals

CONSTANT Sale

VARIABLES stage, stops

Stages == {"none", "queued", "done", "dead", "lost"}

JobsInit == stage = [s \in Sale |-> "none"] /\ stops = 0

Push(s) == stage' = [stage EXCEPT ![s] = "queued"] /\ UNCHANGED stops

Finish(s) ==
  /\ stage[s] = "queued"
  /\ \E end \in {"done", "dead"} : stage' = [stage EXCEPT ![s] = end]
  /\ UNCHANGED stops

StopOne ==
  /\ stops' = stops + 1
  /\ \E lost \in SUBSET {s \in Sale : stage[s] = "queued"} :
       stage' = [s \in Sale |-> IF s \in lost THEN "lost" ELSE stage[s]]

JobsNext == StopOne \/ \E s \in Sale : Push(s) \/ Finish(s)

JobsSpec == /\ JobsInit /\ [][JobsNext]_<<stage, stops>>
            /\ \A s \in Sale : WF_<<stage, stops>>(Finish(s))
=============================================================================
