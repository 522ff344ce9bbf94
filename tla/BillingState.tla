---------------------------- MODULE BillingState ----------------------------
(***************************************************************************)
(* The vocabulary of electronic billing: the stages of the fiscal          *)
(* pipeline, the guard between stages, the maps from a stage to the three  *)
(* legacy columns derived from it, and the evidence predicates.  Pure      *)
(* operators of pkg/billingstate and of the status mapping in              *)
(* internal/fiscal/service; no state.                                      *)
(***************************************************************************)
EXTENDS Integers

Final == {"SUNAT_ACCEPTED", "SUNAT_REJECTED", "OBSERVED"}

isTerminal(stage) == stage \in Final \cup {"FAILED", "DEAD_LETTER"}

InFlight == {"PENDING_FISCAL", "PENDING_QUEUE", "PROCESSING", "RETRYING",
             "SENDING_TO_FACTURADOR", "FACTURADOR_RECEIVED", "SENDING_TO_SUNAT"}

Stages == {"DRAFT", "UNKNOWN", "FAILED", "DEAD_LETTER"} \cup InFlight \cup Final

stageRank ==
  [st \in Stages |->
     CASE st = "DRAFT" -> 0
       [] st \in {"PENDING_FISCAL", "UNKNOWN"} -> 5
       [] st = "PENDING_QUEUE" -> 10
       [] st = "PROCESSING" -> 20
       [] st = "RETRYING" -> 25
       [] st = "SENDING_TO_FACTURADOR" -> 30
       [] st = "FACTURADOR_RECEIVED" -> 40
       [] st = "SENDING_TO_SUNAT" -> 50
       [] st = "OBSERVED" -> 60
       [] st \in {"SUNAT_ACCEPTED", "SUNAT_REJECTED"} -> 70
       [] st = "FAILED" -> 80
       [] st = "DEAD_LETTER" -> 90]

(* Spellings found in old rows, and the stage each one stands for.         *)
LegacyAlias ==
  [spelling \in {"", "PENDING", "SENT", "ACCEPTED", "REJECTED", "ERROR"} |->
     CASE spelling = "" -> "DRAFT"
       [] spelling = "PENDING" -> "PENDING_QUEUE"
       [] spelling = "SENT" -> "SENDING_TO_FACTURADOR"
       [] spelling = "ACCEPTED" -> "SUNAT_ACCEPTED"
       [] spelling = "REJECTED" -> "SUNAT_REJECTED"
       [] spelling = "ERROR" -> "FAILED"]

NormalizePipeline(raw) ==
  IF raw \in DOMAIN LegacyAlias THEN LegacyAlias[raw] ELSE raw

(* Any terminal stage may be entered from anywhere; a terminal stage is    *)
(* left only towards the three re-queue stages; otherwise the rank may not *)
(* decrease.                                                               *)
CanTransition(rawFrom, rawTo) ==
  LET from == NormalizePipeline(rawFrom)
      to   == NormalizePipeline(rawTo)
  IN  \/ from = to
      \/ isTerminal(to)
      \/ isTerminal(from) /\ to \in {"PENDING_QUEUE", "PROCESSING", "RETRYING"}
      \/ /\ ~isTerminal(from)
         /\ {from, to} \subseteq Stages
         /\ stageRank[to] >= stageRank[from]

LegacyBillingStatus(stage) ==
  CASE stage \in {"SUNAT_ACCEPTED", "OBSERVED"} -> "accepted"
    [] stage = "SUNAT_REJECTED" -> "rejected"
    [] stage \in {"FAILED", "DEAD_LETTER"} -> "error"
    [] stage \in InFlight -> "sent"
    [] OTHER -> "pending"

(* The column of the sale taken for the column of the invoice.             *)
SunatAsBilling(stage) == LegacyBillingStatus(stage)

LegacySunatStatus(stage) ==
  CASE stage = "SUNAT_ACCEPTED" -> "accepted"
    [] stage = "OBSERVED" -> "observed"
    [] stage = "SUNAT_REJECTED" -> "rejected"
    [] stage \in {"FAILED", "DEAD_LETTER"} -> "error"
    [] OTHER -> "pending"

JobStatusFromPipeline(stage) ==
  CASE stage \in {"SUNAT_ACCEPTED", "OBSERVED"} -> "sent"
    [] stage \in {"SUNAT_REJECTED", "FAILED"} -> "failed"
    [] stage = "DEAD_LETTER" -> "dead_letter"
    [] stage = "RETRYING" -> "retrying"
    [] stage \in {"PROCESSING", "SENDING_TO_FACTURADOR",
                  "FACTURADOR_RECEIVED", "SENDING_TO_SUNAT"} -> "processing"
    [] OTHER -> "pending"

BillingStatuses == {"pending", "sent", "error", "rejected", "accepted"}
SunatStatuses   == {"pending", "accepted", "observed", "rejected", "error"}
JobStatuses     == {"pending", "processing", "retrying", "sent", "failed", "dead_letter"}

billingStatusRank ==
  [b \in BillingStatuses |->
     CASE b = "pending" -> 0 [] b = "sent" -> 1 [] b = "error" -> 2
       [] b = "rejected" -> 3 [] b = "accepted" -> 4]

-----------------------------------------------------------------------------
(* A row of tenant_invoices, reduced to the columns the pipeline decides   *)
(* on.  "ext" says that external_id is set; "cdr" that the row stores the  *)
(* acceptance evidence: CDR code 0, signed XML or hash, and the CDR file.  *)
Invoice == [pipe : Stages, job : JobStatuses, sunat : SunatStatuses,
            ext : BOOLEAN, cdr : BOOLEAN]

NoInvoice == [pipe |-> "ABSENT", job |-> "pending", sunat |-> "pending",
              ext |-> FALSE, cdr |-> FALSE]

HasAcceptanceEvidence(row) == row.cdr

(* sunat = "rejected" is only ever written together with sent_at.          *)
HasFinalSunatOutcome(row) ==
  \/ row.pipe \in Final
  \/ HasAcceptanceEvidence(row)
  \/ row.sunat = "rejected"

(* The stage of a row that has none of its own yet.                        *)
inferPipelineFromLegacy(row) ==
  CASE HasAcceptanceEvidence(row) -> IF row.sunat = "observed" THEN "OBSERVED" ELSE "SUNAT_ACCEPTED"
    [] row.sunat = "rejected" -> "SUNAT_REJECTED"
    [] row.sunat = "error" -> "FAILED"
    [] row.sunat = "pending" /\ row.job \in {"processing", "retrying"} -> "PROCESSING"
    [] row.sunat = "pending" /\ row.job \notin {"processing", "retrying", "sent"} -> "PENDING_QUEUE"
    [] row.sunat = "observed" /\ ~HasAcceptanceEvidence(row) -> "DRAFT"
    [] OTHER -> "UNKNOWN"

billingStatusFromInvoice(row) ==
  IF row = NoInvoice THEN "pending"
  ELSE LegacyBillingStatus(IF row.pipe = "DRAFT" THEN inferPipelineFromLegacy(row) ELSE row.pipe)

(* What the tenant sees: the more advanced of the sale's own column and    *)
(* the status derived from its invoice.                                    *)
EffectiveBillingStatus(billing, row) ==
  IF billingStatusRank[billingStatusFromInvoice(row)] >= billingStatusRank[billing]
    THEN billingStatusFromInvoice(row) ELSE billing

-----------------------------------------------------------------------------
(* The answer codes SUNAT gives, by the class the code tells apart.        *)
CodeClasses == {"none", "zero", "reject", "observe"}

mapFiscalStatusToPipeline(status, code) ==
  CASE code = "observe" -> "OBSERVED"
    [] code = "reject" /\ status \notin {"accepted", "observed"} -> "SUNAT_REJECTED"
    [] status = "accepted" -> "SUNAT_ACCEPTED"
    [] status = "observed" -> "OBSERVED"
    [] status = "rejected" -> "SUNAT_REJECTED"
    [] status \in {"queued", "pending"} -> "PENDING_FISCAL"
    [] status \in {"sending", "sent"} -> "SENDING_TO_SUNAT"
    [] status = "retrying" -> "RETRYING"
    [] status = "error" -> "FAILED"
    [] OTHER -> IF code = "zero" THEN "SUNAT_ACCEPTED" ELSE "UNKNOWN"

isFiscalTerminalStatus(status, code) ==
  status \in {"accepted", "rejected", "observed", "error"} \/ code = "zero"
=============================================================================
