---------------------------- MODULE OrderJourney ----------------------------
(***************************************************************************)
(* What the buyer of the shop is shown of an order: one stage, which only  *)
(* moves forward.  The code computes the stage from the statuses of the    *)
(* order and of its dispatch, two rows that different requests update; the *)
(* order's module implements this one.                                     *)
(***************************************************************************)
CONSTANT Order

VARIABLE stage

(* A package leaves the shop once and comes back at most once.             *)
After ==
  [NONE          |-> {"POR_CONFIRMAR"},
   POR_CONFIRMAR |-> {"POR_PREPARAR", "CANCELADO"},
   POR_PREPARAR  |-> {"LISTO", "CANCELADO"},
   LISTO         |-> {"EN_CAMINO", "CANCELADO"},
   EN_CAMINO     |-> {"EN_AGENCIA", "ENTREGADO", "RETORNO"},
   EN_AGENCIA    |-> {"ENTREGADO", "RETORNO"},
   ENTREGADO     |-> {"RETORNO"},
   RETORNO       |-> {},
   CANCELADO     |-> {}]

JourneyInit == stage = [o \in Order |-> "NONE"]

Advance(o) == \E s \in After[stage[o]] : stage' = [stage EXCEPT ![o] = s]

JourneyNext == \E o \in Order : Advance(o)

journeyVars == <<stage>>

JourneySpec == JourneyInit /\ [][JourneyNext]_journeyVars
=============================================================================
