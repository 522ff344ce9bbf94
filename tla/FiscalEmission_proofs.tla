------------------------ MODULE FiscalEmission_proofs ------------------------
(***************************************************************************)
(* Proofs about FiscalEmission, for any sales, handlers, workers, webhook  *)
(* handlers, answers and faults: what is shown as accepted was accepted.   *)
(* The lock plays no part in it.  The argument is that a reading of an     *)
(* acceptance is made after the acceptance, wherever it is then kept: in   *)
(* the row, in the sale, in a webhook, or in the memory of a process.      *)
(***************************************************************************)
EXTENDS FiscalEmission, TLAPS

Rows == Invoice \cup {NoInvoice}

(* What a process may have read for a status: one of the facturador, or a  *)
(* verdict of executeFiscalSend.                                           *)
Readable == DOMAIN DocCode \cup DOMAIN VerdictStage

Records ==
  [sale : Sales \cup {Nil}, src : Sources \cup {"none"}, st : Readable, n : Nat,
   snap : Rows, ok : BOOLEAN, before : BillingStatuses, ret : Labels]

(* Where a process is decides what it has: a row that exists, an invoice   *)
(* in memory, a status it can apply, a place to return to.                 *)
ApplyLabels == {"apply_read", "apply_save", "apply_bill"}

WithRow ==
  {"fetch", "apply_save", "apply_bill", "presynced", "persist_write", "persist_reread",
   "persist_sale", "persist_bill", "verdict", "verdict_row", "verdict_bill", "sent",
   "waited", "r_reconciled"}

Returns ==
  {"idle", "presynced", "classify", "sent", "waited", "r_reconciled", "resync", "claim",
   "wait", "r_release"}

(* Where an operation goes on after it released its lock.                  *)
Exits == {"idle", "resync", "claim", "wait", "r_release"}

Fits(label, rec, row) ==
  /\ label \in Labels /\ rec \in Records /\ rec.ret \in Returns
  /\ label = "idle" => rec = Fresh
  /\ label # "idle" => rec.sale \in Sales
  /\ label \notin ApplyLabels \cup {"idle"} => rec.src \in Sources
  /\ rec.src \notin Sources => rec.ret = "idle"
  /\ label \in WithRow => row # NoInvoice
  /\ label = "release" => rec.ret \in Exits
  /\ label = "resync" => rec.ret \in {"idle", "presynced"}
  /\ rec.ret = "resync" => label = "release"
  /\ label \in ApplyLabels => rec.st \in DOMAIN DocCode
  /\ label \in {"apply_save", "apply_bill"} => rec.snap \in Invoice
  /\ label \in {"verdict_row", "verdict_bill"} => rec.st \in DOMAIN VerdictStage

Good == {"accepted", "observed"}
Shows(row) == row.cdr \/ row.pipe \in {"SUNAT_ACCEPTED", "OBSERVED"}

(* What a process knows of an acceptance is true.                          *)
Backed(rec) ==
  rec.st \in Good \cup {"evidence"} \/ Shows(rec.snap) => accepted[rec.sale] > 0

ProcsOK ==
  /\ pc \in [Procs -> Labels] /\ loc \in [Procs -> Records]
  /\ \A p \in Procs : Fits(pc[p], loc[p], inv[Sale(p)]) /\ Backed(loc[p])

Messages == [sale : Sales, st : DOMAIN DocCode, n : Nat]

(* The rest of TypeOK.                                                     *)
StoresOK ==
  /\ inv \in [Sales -> Rows] /\ bill \in [Sales -> BillingStatuses]
  /\ lock \in [Sales -> Sources \cup {"free"}]
  /\ holder \in [Sales -> Procs \cup {Nil}]
  /\ claim \in [Sales -> BOOLEAN] /\ queue \in Seq(Sales)
  /\ timers \in [Sales -> Nat] /\ doc \in [Sales -> DOMAIN DocCode]
  /\ epoch \in [Sales -> Nat] /\ accepted \in [Sales -> Nat]
  /\ events \in SUBSET Messages /\ seen \in SUBSET Messages
  /\ ticked \in BOOLEAN /\ batch \in SUBSET Sales /\ opsLeft \in Nat /\ faultsLeft \in Nat

(* What is stored of an acceptance is true, at the facturador and here.    *)
SaleBacked(s) ==
  /\ bill[s] = "accepted" \/ Shows(inv[s]) \/ doc[s] \in Good => accepted[s] > 0
  /\ doc[s] # "none" => epoch[s] > 0

Truthful ==
  /\ \A s \in Sales : SaleBacked(s)
  /\ \A e \in events : e.st \in Good => accepted[e.sale] > 0

EmissionInv == ProcsOK /\ StoresOK /\ Truthful

(* Names that stand for groups of variables are always expanded.           *)
USE DEF db, redis, remote, cron, env, vars

-----------------------------------------------------------------------------
(* The maps of BillingState.                                               *)
LEMMA CodesAndVerdicts ==
  /\ DOMAIN DocCode = {"none", "queued", "sending", "retrying", "accepted", "observed",
                       "rejected", "error"}
  /\ DOMAIN VerdictStage = {"evidence", "rejected", "unconfirmed"}
BY DEF DocCode, VerdictStage

LEMMA RowTypes ==
  /\ NoInvoice \notin Invoice /\ NoInvoice \in Rows /\ Invoice \subseteq Rows
  /\ ~Shows(NoInvoice)
BY DEF NoInvoice, Invoice, Rows, Shows, Stages, InFlight, Final

LEMMA MapTypes ==
  ASSUME NEW stage
  PROVE  /\ LegacyBillingStatus(stage) \in BillingStatuses
         /\ LegacySunatStatus(stage) \in SunatStatuses
         /\ JobStatusFromPipeline(stage) \in JobStatuses
         /\ LegacyBillingStatus(stage) = "accepted" => stage \in {"SUNAT_ACCEPTED", "OBSERVED"}
BY DEF LegacyBillingStatus, LegacySunatStatus, JobStatusFromPipeline, BillingStatuses,
       SunatStatuses, JobStatuses, InFlight

LEMMA MappedStage ==
  ASSUME NEW st \in DOMAIN DocCode
  PROVE  /\ mapFiscalStatusToPipeline(st, DocCode[st]) \in Stages
         /\ mapFiscalStatusToPipeline(st, DocCode[st]) \in {"SUNAT_ACCEPTED", "OBSERVED"}
              => st \in Good
         /\ DocCode[st] = "zero" => st \in Good
BY CodesAndVerdicts DEF DocCode, mapFiscalStatusToPipeline, Stages, InFlight, Final, Good

LEMMA Normal ==
  ASSUME NEW stage \in Stages
  PROVE  NormalizePipeline(stage) = stage
BY DEF NormalizePipeline, LegacyAlias, Stages, InFlight, Final

(* A row is shown as accepted by its stage, or by the evidence it stores.  *)
LEMMA RowShows ==
  ASSUME NEW row, billingStatusFromInvoice(row) = "accepted"
  PROVE  Shows(row)
<1> DEFINE stage == IF row.pipe = "DRAFT" THEN inferPipelineFromLegacy(row) ELSE row.pipe
<1>1. LegacyBillingStatus(stage) = "accepted" BY DEF billingStatusFromInvoice
<1>2. stage \in {"SUNAT_ACCEPTED", "OBSERVED"}
  <2> HIDE DEF stage
  <2> QED BY <1>1, MapTypes
<1>3. CASE row.pipe = "DRAFT"
  <2>1. inferPipelineFromLegacy(row) \in {"SUNAT_ACCEPTED", "OBSERVED"} BY <1>2, <1>3
  <2>2. HasAcceptanceEvidence(row) BY <2>1 DEF inferPipelineFromLegacy
  <2> QED BY <2>2 DEF HasAcceptanceEvidence, Shows
<1>4. CASE row.pipe # "DRAFT" BY <1>2, <1>4 DEF Shows
<1> QED BY <1>3, <1>4

(* Save writes an invoice, and acceptance only from one that was read.     *)
LEMMA AppliedRow ==
  ASSUME NEW row \in Invoice, NEW st \in DOMAIN DocCode
  PROVE  /\ Applied(row, st) \in Invoice
         /\ Shows(Applied(row, st)) => Shows(row) \/ st \in Good
<1> DEFINE asked == mapFiscalStatusToPipeline(st, DocCode[st])
           stage == IF CanTransition(row.pipe, asked) THEN asked ELSE NormalizePipeline(row.pipe)
           cdr   == CASE DocCode[st] = "zero" -> TRUE [] DocCode[st] = "none" -> row.cdr
                      [] OTHER -> FALSE
<1>1. row.pipe \in Stages /\ row.cdr \in BOOLEAN BY DEF Invoice
<1>2. NormalizePipeline(row.pipe) = row.pipe BY <1>1, Normal
<1>3. asked \in Stages /\ (asked \in {"SUNAT_ACCEPTED", "OBSERVED"} => st \in Good)
  BY MappedStage
<1>4. /\ stage \in Stages
      /\ stage \in {"SUNAT_ACCEPTED", "OBSERVED"} =>
           st \in Good \/ row.pipe \in {"SUNAT_ACCEPTED", "OBSERVED"}
  BY <1>1, <1>2, <1>3
<1>5. cdr \in BOOLEAN /\ (cdr => st \in Good \/ row.cdr) BY <1>1, MappedStage
<1>6. Applied(row, st) = [pipe |-> stage, job |-> JobStatusFromPipeline(stage),
                          sunat |-> LegacySunatStatus(stage), ext |-> TRUE, cdr |-> cdr]
  BY DEF Applied
<1> HIDE DEF stage, cdr
<1> QED BY <1>4, <1>5, <1>6, MapTypes DEF Invoice, Shows

-----------------------------------------------------------------------------
(* How a process moves on.                                                 *)
LEMMA FreshFits == \A row : Fits("idle", Fresh, row) /\ Backed(Fresh)
BY RowTypes, CodesAndVerdicts
   DEF Fits, Backed, Fresh, Records, Returns, Exits, WithRow, ApplyLabels, Labels, Readable,
       BillingStatuses, Good

LEMMA WhereItIs ==
  ASSUME ProcsOK, NEW p \in Procs
  PROVE  /\ pc[p] \in Labels /\ loc[p] \in Records
         /\ Fits(pc[p], loc[p], inv[Sale(p)]) /\ Backed(loc[p])
         /\ pc[p] # "idle" => Sale(p) \in Sales
BY DEF ProcsOK, Fits, Sale

LEMMA Busy ==
  ASSUME EmissionInv, NEW p \in Procs, pc[p] # "idle"
  PROVE  /\ Sale(p) \in Sales /\ Sale(p) = loc[p].sale /\ Row(p) = inv[Sale(p)]
         /\ Row(p) \in Rows /\ bill[Sale(p)] \in BillingStatuses
         /\ loc[p] \in Records /\ Fits(pc[p], loc[p], Row(p)) /\ Backed(loc[p])
         /\ SaleBacked(Sale(p))
BY WhereItIs DEF EmissionInv, StoresOK, Truthful, Sale, Row

(* p alone moves, to a place that fits; rows are not deleted.              *)
RowsKept == inv' \in [Sales -> Rows] /\ \A s \in Sales : inv[s] # NoInvoice => inv'[s] # NoInvoice

LEMMA FitsKept ==
  ASSUME NEW label, NEW rec, NEW row, NEW row1, Fits(label, rec, row),
         row # NoInvoice => row1 # NoInvoice
  PROVE  Fits(label, rec, row1)
BY DEF Fits

LEMMA Moves ==
  ASSUME ProcsOK, NEW p \in Procs, NEW label, NEW rec, RowsKept, UNCHANGED accepted,
         GoWith(p, label, rec),
         label # "idle" => Fits(label, rec, inv'[rec.sale]) /\ Backed(rec)
  PROVE  ProcsOK'
<1> DEFINE new == IF label = "idle" THEN Fresh ELSE rec
<1>1. Fits(label, new, inv'[new.sale]) /\ Backed(new) BY FreshFits
<1>2. label \in Labels /\ new \in Records BY <1>1 DEF Fits
<1>3. pc' = [pc EXCEPT ![p] = label] /\ loc' = [loc EXCEPT ![p] = new]
  BY DEF GoWith, Go
<1>4. pc' \in [Procs -> Labels] /\ loc' \in [Procs -> Records] BY <1>2, <1>3 DEF ProcsOK
<1>5. ASSUME NEW q \in Procs PROVE (Fits(pc[q], loc[q], inv[Sale(q)]) /\ Backed(loc[q]))'
  <2>1. CASE q = p
    <3>1. pc'[q] = label /\ loc'[q] = new BY <1>3, <2>1 DEF ProcsOK
    <3> HIDE DEF new
    <3> QED BY <1>1, <3>1 DEF Sale, Backed
  <2>2. CASE q # p
    <3>1. pc'[q] = pc[q] /\ loc'[q] = loc[q] BY <1>3, <2>2 DEF ProcsOK
    <3>2. Fits(pc[q], loc[q], inv[Sale(q)]) /\ Backed(loc[q]) BY WhereItIs
    <3>3. CASE pc[q] = "idle" BY <3>1, <3>2, <3>3, FreshFits DEF Fits, Backed
    <3>4. CASE pc[q] # "idle"
      <4>1. Sale(q) \in Sales BY WhereItIs, <3>4
      <4>2. inv[Sale(q)] # NoInvoice => inv'[Sale(q)] # NoInvoice BY <4>1 DEF RowsKept
      <4>3. Fits(pc[q], loc[q], inv'[Sale(q)]) BY <3>2, <4>2, FitsKept
      <4> QED BY <3>1, <3>2, <4>3 DEF Sale, Backed
    <3> QED BY <3>3, <3>4
  <2> QED BY <2>1, <2>2
<1> QED BY <1>4, <1>5 DEF ProcsOK

(* The same for a step that keeps the process's memory.                    *)
LEMMA Goes ==
  ASSUME ProcsOK, NEW p \in Procs, NEW label, RowsKept, UNCHANGED accepted,
         Go(p, label), UNCHANGED loc, label # "idle",
         Fits(label, loc[p], inv'[Sale(p)])
  PROVE  ProcsOK'
<1>1. GoWith(p, label, loc[p]) BY DEF Go, GoWith, ProcsOK
<1> QED BY <1>1, Moves, WhereItIs DEF Sale

(* What is stored changes by a row or a status of one sale, and is true.   *)
LEMMA Quiet ==
  ASSUME EmissionInv, UNCHANGED <<db, remote>>
  PROVE  Truthful' /\ RowsKept
BY DEF EmissionInv, StoresOK, Truthful, SaleBacked, RowsKept

LEMMA Writes ==
  ASSUME EmissionInv, NEW s \in Sales, NEW row \in Invoice, NEW status \in BillingStatuses,
         Shows(row) => accepted[s] > 0, status = "accepted" => accepted[s] > 0,
         \/ UNCHANGED inv
         \/ inv' = [inv EXCEPT ![s] = row],
         \/ UNCHANGED bill
         \/ bill' = [bill EXCEPT ![s] = status],
         UNCHANGED <<doc, epoch, accepted>>, events' \subseteq events
  PROVE  Truthful' /\ RowsKept /\ bill' \in [Sales -> BillingStatuses]
<1>1. RowsKept BY RowTypes DEF EmissionInv, StoresOK, RowsKept
<1>2. bill' \in [Sales -> BillingStatuses] BY DEF EmissionInv, StoresOK
<1>3. \A t \in Sales : SaleBacked(t)'
  <2> TAKE t \in Sales
  <2>1. SaleBacked(t) BY DEF EmissionInv, Truthful
  <2>2. inv'[t] = inv[t] \/ (t = s /\ inv'[t] = row) BY DEF EmissionInv, StoresOK
  <2>3. bill'[t] = bill[t] \/ (t = s /\ bill'[t] = status) BY DEF EmissionInv, StoresOK
  <2> QED BY <2>1, <2>2, <2>3 DEF SaleBacked
<1>4. \A e \in events' : e.st \in Good => accepted'[e.sale] > 0
  BY DEF EmissionInv, Truthful
<1> QED BY <1>1, <1>2, <1>3, <1>4 DEF Truthful

(* A process changes where it will return to, and no more of its memory.   *)
LEMMA ReturnTo ==
  ASSUME NEW rec \in Records, NEW ret \in Labels
  PROVE  LET new == [rec EXCEPT !.ret = ret] IN
         /\ new \in Records /\ new.ret = ret /\ new.sale = rec.sale /\ new.src = rec.src
         /\ new.st = rec.st /\ new.snap = rec.snap
         /\ Backed(rec) => Backed(new)
BY DEF Records, Backed

(* The status and the row in memory are forgotten.                         *)
LEMMA Forgets ==
  ASSUME NEW rec \in Records, NEW ok \in BOOLEAN
  PROVE  LET new == [rec EXCEPT !.ok = ok, !.st = "none", !.snap = NoInvoice] IN
         /\ new \in Records /\ new.ret = rec.ret /\ new.sale = rec.sale /\ new.src = rec.src
         /\ Backed(new)
BY RowTypes, CodesAndVerdicts DEF Records, Backed, Readable, Good

LEMMA ReturnsFit ==
  ASSUME ProcsOK, NEW p \in Procs, NEW ok \in BOOLEAN, pc[p] \in WithRow,
         RowsKept, UNCHANGED accepted, Return(p, ok)
  PROVE  ProcsOK'
<1> DEFINE rec == [loc[p] EXCEPT !.ok = ok, !.st = "none", !.snap = NoInvoice]
<1>1. loc[p] \in Records /\ Fits(pc[p], loc[p], inv[Sale(p)]) BY WhereItIs
<1>2. rec \in Records /\ rec.ret = loc[p].ret /\ rec.sale = loc[p].sale
      /\ rec.src = loc[p].src /\ Backed(rec)
  BY <1>1, Forgets
<1>3. pc[p] # "idle" /\ Sale(p) \in Sales BY WhereItIs DEF WithRow
<1>4. inv[Sale(p)] # NoInvoice /\ inv'[Sale(p)] # NoInvoice BY <1>1, <1>3 DEF Fits, RowsKept
<1>5. loc[p].ret # "idle" => Fits(loc[p].ret, rec, inv'[rec.sale])
  BY <1>1, <1>2, <1>3, <1>4
     DEF Fits, WithRow, Returns, Exits, ApplyLabels, Labels, Sale
<1>6. GoWith(p, loc[p].ret, rec) BY DEF Return
<1> HIDE DEF rec
<1> QED BY <1>2, <1>5, <1>6, Moves

-----------------------------------------------------------------------------
(* PrepareFiscalOperation.                                                 *)
LEMMA RestFits == \A p \in Procs : Rest(p) \in {"idle", "r_release"}
BY DEF Rest

LEMMA NotPreparedFits ==
  ASSUME ProcsOK, NEW p \in Procs, pc[p] \notin ApplyLabels \cup {"idle"},
         RowsKept, UNCHANGED accepted,
         NEW ret \in Exits, GoWith(p, "release", [loc[p] EXCEPT !.ret = ret])
  PROVE  ProcsOK'
<1> DEFINE rec == [loc[p] EXCEPT !.ret = ret]
<1>1. loc[p] \in Records /\ Fits(pc[p], loc[p], inv[Sale(p)]) /\ Backed(loc[p]) BY WhereItIs
<1>2. ret \in Labels /\ ret \in Returns BY DEF Exits, Returns, Labels
<1>3. rec \in Records /\ rec.ret = ret /\ rec.sale = loc[p].sale
      /\ rec.src = loc[p].src /\ Backed(rec)
  BY <1>1, <1>2, ReturnTo
<1>4. Fits("release", rec, inv'[rec.sale])
  BY <1>1, <1>2, <1>3 DEF Fits, WithRow, ApplyLabels, Labels
<1>5. GoWith(p, "release", rec) OBVIOUS
<1> HIDE DEF rec
<1> QED BY <1>3, <1>4, <1>5, Moves

(* The same towards a label that reads the row, when there is one.         *)
LEMMA GoesReturning ==
  ASSUME ProcsOK, NEW p \in Procs, pc[p] \notin ApplyLabels \cup {"idle"},
         RowsKept, UNCHANGED accepted,
         NEW label \in Labels \ (ApplyLabels \cup {"release", "verdict_row", "verdict_bill"}),
         label \in WithRow => inv[Sale(p)] # NoInvoice,
         NEW ret \in Returns \ {"resync"}, label = "resync" => ret = "idle",
         GoWith(p, label, [loc[p] EXCEPT !.ret = ret])
  PROVE  ProcsOK'
<1> DEFINE rec == [loc[p] EXCEPT !.ret = ret]
<1>1. /\ loc[p] \in Records /\ Fits(pc[p], loc[p], inv[Sale(p)]) /\ Backed(loc[p])
      /\ Sale(p) \in Sales /\ Sale(p) = loc[p].sale
  BY WhereItIs DEF Sale
<1>2. ret \in Labels BY DEF Returns, Labels
<1>3. rec \in Records /\ rec.ret = ret /\ rec.sale = loc[p].sale
      /\ rec.src = loc[p].src /\ Backed(rec)
  BY <1>1, <1>2, ReturnTo
<1>4. label \in WithRow => inv'[rec.sale] # NoInvoice BY <1>1, <1>3 DEF RowsKept
<1>5. label # "idle" => Fits(label, rec, inv'[rec.sale])
  BY <1>1, <1>3, <1>4 DEF Fits, ApplyLabels
<1>6. GoWith(p, label, rec) OBVIOUS
<1> HIDE DEF rec
<1> QED BY <1>3, <1>5, <1>6, Moves

(* The same, keeping its memory as it is.                                  *)
LEMMA GoesKeeping ==
  ASSUME ProcsOK, NEW p \in Procs, pc[p] \notin ApplyLabels \cup {"idle"},
         RowsKept, UNCHANGED accepted,
         NEW label \in Labels \ (ApplyLabels \cup {"release", "resync", "verdict_row", "verdict_bill"}),
         label \in WithRow => inv'[Sale(p)] # NoInvoice, pc[p] # "release",
         GoWith(p, label, loc[p]) \/ (Go(p, label) /\ UNCHANGED loc /\ label # "idle")
  PROVE  ProcsOK'
<1>1. /\ loc[p] \in Records /\ Fits(pc[p], loc[p], inv[Sale(p)]) /\ Backed(loc[p])
      /\ Sale(p) = loc[p].sale
  BY WhereItIs DEF Sale
<1>2. label # "idle" => Fits(label, loc[p], inv'[Sale(p)]) BY <1>1 DEF Fits, ApplyLabels
<1> QED BY <1>1, <1>2, Moves, Goes

LEMMA Ends ==
  ASSUME ProcsOK, NEW p \in Procs, RowsKept, UNCHANGED accepted, End(p)
  PROVE  ProcsOK'
BY Moves DEF End

LEMMA PresyncedStep ==
  ASSUME EmissionInv, NEW p \in Procs, Presynced(p)
  PROVE  EmissionInv'
<1>1. Truthful' /\ RowsKept BY Quiet DEF Presynced
<1>2. StoresOK' BY DEF EmissionInv, StoresOK, Presynced
<1>3. ProcsOK /\ pc[p] = "presynced" /\ inv[Sale(p)] # NoInvoice /\ UNCHANGED accepted
  BY WhereItIs DEF EmissionInv, Presynced, Fits, WithRow
<1>4. \/ End(p)
      \/ GoWith(p, "fetch", [loc[p] EXCEPT !.ret = "idle"])
      \/ GoWith(p, "acquire", [loc[p] EXCEPT !.ret = "idle"])
  BY DEF Presynced
<1>5. /\ {"fetch", "acquire"} \subseteq
           Labels \ (ApplyLabels \cup {"release", "verdict_row", "verdict_bill"})
      /\ "idle" \in Returns /\ "presynced" \notin ApplyLabels \cup {"idle"}
  BY DEF Labels, ApplyLabels, Returns
<1>6. ProcsOK' BY <1>1, <1>3, <1>4, <1>5, Ends, GoesReturning
<1> QED BY <1>1, <1>2, <1>6 DEF EmissionInv

LEMMA AcquireStep ==
  ASSUME EmissionInv, NEW p \in Procs, Acquire(p)
  PROVE  EmissionInv'
<1>1. Truthful' /\ RowsKept BY Quiet DEF Acquire
<1>2. ProcsOK /\ pc[p] = "acquire" /\ UNCHANGED accepted /\ Sale(p) \in Sales
      /\ loc[p].src \in Sources /\ Row(p) = inv[Sale(p)]
  BY Busy DEF EmissionInv, Acquire, Fits, ApplyLabels
<1>3. StoresOK'
  <2>1. lock' \in [Sales -> Sources \cup {"free"}] /\ holder' \in [Sales -> Procs \cup {Nil}]
    BY <1>2 DEF EmissionInv, StoresOK, Acquire, TryAcquire
  <2>2. timers' \in [Sales -> Nat] BY <1>2 DEF EmissionInv, StoresOK, Acquire
  <2>3. faultsLeft' \in Nat BY DEF EmissionInv, StoresOK, Acquire, Fault
  <2> QED BY <2>1, <2>2, <2>3 DEF EmissionInv, StoresOK, Acquire
<1>4. \/ GoWith(p, IF Row(p) = NoInvoice THEN "classify" ELSE "fetch",
                   [loc[p] EXCEPT !.ret = "classify"])
      \/ GoWith(p, "release", [loc[p] EXCEPT !.ret = Rest(p)])
  BY DEF Acquire, NotPrepared
<1>5. /\ {"fetch", "classify"} \subseteq
           Labels \ (ApplyLabels \cup {"release", "verdict_row", "verdict_bill"})
      /\ "classify" \in Returns /\ "acquire" \notin ApplyLabels \cup {"idle"}
      /\ "classify" \notin WithRow /\ Rest(p) \in Exits
  BY RestFits DEF Labels, ApplyLabels, Returns, Exits, WithRow
<1>6. ProcsOK' BY <1>1, <1>2, <1>4, <1>5, NotPreparedFits, GoesReturning
<1> QED BY <1>1, <1>3, <1>6 DEF EmissionInv

LEMMA FaultLeft ==
  ASSUME StoresOK, UNCHANGED faultsLeft \/ \E kind \in FaultKinds : Fault(kind)
  PROVE  faultsLeft' \in Nat
BY DEF StoresOK, Fault

LEMMA ClassifyStep ==
  ASSUME EmissionInv, NEW p \in Procs, Classify(p)
  PROVE  EmissionInv'
<1>1. Truthful' /\ RowsKept BY Quiet DEF Classify
<1>2. faultsLeft' \in Nat BY FaultLeft DEF EmissionInv, Classify, FaultKinds
<1>3. StoresOK' BY <1>2 DEF EmissionInv, StoresOK, Classify
<1>4. ProcsOK /\ pc[p] = "classify" /\ UNCHANGED accepted
  BY DEF EmissionInv, Classify
<1>5. \/ \E ret \in {"resync", Rest(p), "claim"} :
           GoWith(p, "release", [loc[p] EXCEPT !.ret = ret])
      \/ \E label \in {"emit", "check"} : GoWith(p, label, [loc[p] EXCEPT !.ret = "idle"])
  BY DEF Classify
<1>6. /\ {"emit", "check"} \subseteq
           Labels \ (ApplyLabels \cup {"release", "verdict_row", "verdict_bill"} \cup WithRow)
      /\ "idle" \in Returns /\ "classify" \notin ApplyLabels \cup {"idle"}
      /\ {"resync", Rest(p), "claim"} \subseteq Exits
  BY RestFits DEF Labels, ApplyLabels, Returns, Exits, WithRow
<1>7. ProcsOK' BY <1>1, <1>4, <1>5, <1>6, NotPreparedFits, GoesReturning
<1> QED BY <1>1, <1>3, <1>7 DEF EmissionInv

LEMMA ReleaseStores ==
  ASSUME StoresOK, NEW p \in Procs, Release(p)
  PROVE  /\ lock' \in [Sales -> Sources \cup {"free"}]
         /\ holder' \in [Sales -> Procs \cup {Nil}]
BY DEF StoresOK, Release

LEMMA ReleaseStep ==
  ASSUME EmissionInv, NEW p \in Procs, ReleaseLock(p)
  PROVE  EmissionInv'
<1>1. Truthful' /\ RowsKept BY Quiet DEF ReleaseLock
<1>2. StoresOK' BY ReleaseStores DEF EmissionInv, StoresOK, ReleaseLock
<1>3. ProcsOK /\ pc[p] = "release" /\ UNCHANGED accepted
      /\ loc[p].ret \in Exits
      /\ GoWith(p, loc[p].ret, [loc[p] EXCEPT !.ret = "idle"])
  BY WhereItIs DEF EmissionInv, ReleaseLock, Fits
<1>4. /\ Exits \subseteq
           Labels \ (ApplyLabels \cup {"release", "verdict_row", "verdict_bill"} \cup WithRow)
      /\ "idle" \in Returns /\ "release" \notin ApplyLabels \cup {"idle"}
  BY DEF Labels, ApplyLabels, Returns, Exits, WithRow
<1>5. ProcsOK' BY <1>1, <1>3, <1>4, GoesReturning
<1> QED BY <1>1, <1>2, <1>5 DEF EmissionInv

LEMMA ResyncStep ==
  ASSUME EmissionInv, NEW p \in Procs, Resync(p)
  PROVE  EmissionInv'
<1>1. Truthful' /\ RowsKept BY Quiet DEF Resync
<1>2. StoresOK' BY DEF EmissionInv, StoresOK, Resync
<1>3. ProcsOK /\ pc[p] = "resync" /\ UNCHANGED accepted
      /\ \/ End(p)
         \/ inv[Sale(p)] # NoInvoice /\ GoWith(p, "fetch", loc[p])
  BY DEF EmissionInv, Resync, Row
<1>4. /\ "fetch" \in Labels \ (ApplyLabels \cup {"release", "verdict_row", "verdict_bill"})
      /\ "resync" \notin ApplyLabels \cup {"idle"}
  BY DEF Labels, ApplyLabels
<1>5. CASE End(p)
  <2>1. ProcsOK' BY <1>1, <1>3, <1>5, Ends
  <2> QED BY <1>1, <1>2, <2>1 DEF EmissionInv
<1>6. CASE inv[Sale(p)] # NoInvoice /\ GoWith(p, "fetch", loc[p])
  <2>1. /\ loc[p] \in Records /\ Fits("resync", loc[p], inv[Sale(p)]) /\ Backed(loc[p])
        /\ Sale(p) \in Sales
    BY <1>3, <1>4, WhereItIs
  <2>2. inv'[Sale(p)] # NoInvoice BY <1>1, <1>6, <2>1 DEF RowsKept
  <2>3. Fits("fetch", loc[p], inv'[loc[p].sale])
    BY <1>4, <2>1, <2>2 DEF Fits, ApplyLabels, Sale
  <2>4. ProcsOK' BY <1>1, <1>3, <1>6, <2>1, <2>3, Moves
  <2> QED BY <1>1, <1>2, <2>4 DEF EmissionInv
<1> QED BY <1>3, <1>5, <1>6

-----------------------------------------------------------------------------
(* fetchAndApplyFiscalDocument.                                            *)

(* A caller may read less than the facturador says, never an acceptance    *)
(* that is not one.                                                        *)
LEMMA ReadingsTrue ==
  ASSUME NEW ret, NEW st \in DOMAIN DocCode, NEW reading \in Readings(ret, st)
  PROVE  reading \in DOMAIN DocCode /\ (reading \in Good => st \in Good)
BY CodesAndVerdicts DEF Readings, Good

LEMMA FetchStep ==
  ASSUME EmissionInv, NEW p \in Procs, Fetch(p)
  PROVE  EmissionInv'
<1> DEFINE row == [inv[Sale(p)] EXCEPT !.ext = TRUE]
<1>1. pc[p] = "fetch" /\ UNCHANGED <<accepted, bill>> BY DEF Fetch
<1>2. /\ Sale(p) \in Sales /\ Sale(p) = loc[p].sale /\ loc[p] \in Records
      /\ Fits("fetch", loc[p], inv[Sale(p)]) /\ Backed(loc[p]) /\ SaleBacked(Sale(p))
      /\ inv[Sale(p)] \in Invoice /\ bill[Sale(p)] \in BillingStatuses
  BY <1>1, Busy DEF Fits, WithRow, Rows, Row
<1>3. row \in Invoice /\ Shows(row) = Shows(inv[Sale(p)]) BY <1>2 DEF Invoice, Shows
<1>4. UNCHANGED inv \/ inv' = [inv EXCEPT ![Sale(p)] = row] BY DEF Fetch
<1>5. Truthful' /\ RowsKept
  <2>1. Shows(row) => accepted[Sale(p)] > 0 BY <1>2, <1>3 DEF SaleBacked
  <2>2. bill[Sale(p)] = "accepted" => accepted[Sale(p)] > 0 BY <1>2 DEF SaleBacked
  <2>3. UNCHANGED <<bill, doc, epoch, accepted, events>> BY DEF Fetch
  <2> HIDE DEF row
  <2> QED BY <1>2, <1>3, <1>4, <2>1, <2>2, <2>3, Writes
<1>6. faultsLeft' \in Nat BY FaultLeft DEF EmissionInv, Fetch, FaultKinds
<1>7. StoresOK' BY <1>5, <1>6 DEF EmissionInv, StoresOK, RowsKept, Fetch
<1>8. ProcsOK'
  <2>1. CASE Return(p, FALSE) BY <1>1, <1>5, <2>1, ReturnsFit DEF EmissionInv, WithRow
  <2>2. CASE \E reading \in Readings(loc[p].ret, doc[Sale(p)]) :
               GoWith(p, "apply_read", [loc[p] EXCEPT !.st = reading])
    <3>1. PICK reading \in Readings(loc[p].ret, doc[Sale(p)]) :
            GoWith(p, "apply_read", [loc[p] EXCEPT !.st = reading])
      BY <2>2
    <3> DEFINE rec == [loc[p] EXCEPT !.st = reading]
    <3>2. doc[Sale(p)] \in DOMAIN DocCode BY <1>2 DEF EmissionInv, StoresOK
    <3>3. reading \in DOMAIN DocCode /\ (reading \in Good => doc[Sale(p)] \in Good)
      BY <3>2, ReadingsTrue
    <3>4. reading \in Readable /\ reading # "evidence"
      BY <3>3, CodesAndVerdicts DEF Readable
    <3>5. rec \in Records /\ rec.st = reading /\ rec.sale = Sale(p) /\ rec.ret = loc[p].ret
          /\ rec.src = loc[p].src /\ rec.snap = loc[p].snap
      BY <1>2, <3>4 DEF Records
    <3>6. Backed(rec)
      BY <1>2, <3>3, <3>4, <3>5 DEF Backed, SaleBacked
    <3>7. Fits("apply_read", rec, inv'[rec.sale])
      BY <1>2, <3>3, <3>5 DEF Fits, Labels, ApplyLabels, WithRow
    <3>8. GoWith(p, "apply_read", rec) BY <3>1
    <3> HIDE DEF rec
    <3> QED BY <1>1, <1>5, <3>6, <3>7, <3>8, Moves DEF EmissionInv
  <2> QED BY <2>1, <2>2 DEF Fetch
<1> QED BY <1>5, <1>7, <1>8 DEF EmissionInv

(* A process keeps a row in memory.                                        *)
LEMMA Keeps ==
  ASSUME NEW rec \in Records, NEW row \in Invoice, Backed(rec),
         Shows(row) => accepted[rec.sale] > 0
  PROVE  LET new == [rec EXCEPT !.snap = row] IN
         /\ new \in Records /\ new.snap = row /\ new.ret = rec.ret /\ new.sale = rec.sale
         /\ new.src = rec.src /\ new.st = rec.st /\ Backed(new)
BY RowTypes DEF Records, Backed

LEMMA ApplyReadStep ==
  ASSUME EmissionInv, NEW p \in Procs, ApplyRead(p)
  PROVE  EmissionInv'
<1> DEFINE stage == mapFiscalStatusToPipeline(loc[p].st, DocCode[loc[p].st])
           first == [NoInvoice EXCEPT !.pipe = stage, !.job = JobStatusFromPipeline(stage),
                                      !.sunat = LegacySunatStatus(stage), !.ext = TRUE]
           row   == IF Row(p) = NoInvoice THEN first ELSE Row(p)
           rec   == [loc[p] EXCEPT !.snap = row]
<1>1. pc[p] = "apply_read" /\ inv' = [inv EXCEPT ![Sale(p)] = row]
      /\ GoWith(p, "apply_save", rec) /\ UNCHANGED <<bill, redis, remote, timers, env>>
  BY DEF ApplyRead, SetRow
<1>2. /\ Sale(p) \in Sales /\ Sale(p) = loc[p].sale /\ loc[p] \in Records
      /\ Fits("apply_read", loc[p], inv[Sale(p)]) /\ Backed(loc[p]) /\ SaleBacked(Sale(p))
      /\ Row(p) \in Rows /\ bill[Sale(p)] \in BillingStatuses /\ Row(p) = inv[Sale(p)]
  BY <1>1, Busy
<1>3. loc[p].st \in DOMAIN DocCode BY <1>2 DEF Fits, ApplyLabels
<1>4. first \in Invoice /\ (Shows(first) => loc[p].st \in Good)
  <2>1. stage \in Stages /\ (stage \in {"SUNAT_ACCEPTED", "OBSERVED"} => loc[p].st \in Good)
    BY <1>3, MappedStage
  <2> HIDE DEF stage
  <2> QED BY <2>1, MapTypes DEF NoInvoice, Invoice, Shows
<1>5. row \in Invoice /\ (Shows(row) => accepted[Sale(p)] > 0)
  <2> HIDE DEF first
  <2> QED BY <1>2, <1>4 DEF Rows, SaleBacked, Backed
<1>6. rec \in Records /\ rec.snap = row /\ rec.ret = loc[p].ret /\ rec.sale = Sale(p)
      /\ rec.src = loc[p].src /\ rec.st = loc[p].st /\ Backed(rec)
  <2> HIDE DEF row
  <2> QED BY <1>2, <1>5, Keeps
<1> HIDE DEF row, rec
<1>7. Truthful' /\ RowsKept
  <2>1. bill[Sale(p)] = "accepted" => accepted[Sale(p)] > 0 BY <1>2 DEF SaleBacked
  <2> QED BY <1>1, <1>2, <1>5, <2>1, Writes
<1>8. StoresOK' BY <1>1, <1>7 DEF EmissionInv, StoresOK, RowsKept
<1>9. inv'[Sale(p)] = row /\ row # NoInvoice
  BY <1>1, <1>2, <1>5, RowTypes DEF EmissionInv, StoresOK
<1>10. Fits("apply_save", rec, inv'[rec.sale])
  BY <1>2, <1>3, <1>5, <1>6, <1>9 DEF Fits, Labels, ApplyLabels, WithRow
<1>11. ProcsOK' BY <1>1, <1>6, <1>7, <1>10, Moves DEF EmissionInv
<1> QED BY <1>7, <1>8, <1>11 DEF EmissionInv

(* A webhook handler that fails takes its mark back and ends.              *)
LEMMA FailsApplying ==
  ASSUME ProcsOK, StoresOK, NEW p \in Procs, pc[p] \in {"apply_save", "apply_bill"},
         RowsKept, UNCHANGED accepted, ApplyFailed(p)
  PROVE  ProcsOK' /\ seen' \in SUBSET Messages /\ faultsLeft' \in Nat
<1>1. ProcsOK'
  <2>1. CASE End(p) BY <2>1, Ends
  <2>2. CASE Return(p, FALSE) BY <2>2, ReturnsFit DEF WithRow
  <2> QED BY <2>1, <2>2 DEF ApplyFailed
<1>2. seen' \in SUBSET Messages BY DEF StoresOK, ApplyFailed
<1>3. faultsLeft' \in Nat BY FaultLeft DEF ApplyFailed, FaultKinds
<1> QED BY <1>1, <1>2, <1>3

LEMMA ApplySaveStep ==
  ASSUME EmissionInv, NEW p \in Procs, ApplySave(p)
  PROVE  EmissionInv'
<1> DEFINE row == Applied(loc[p].snap, loc[p].st)
           rec == [loc[p] EXCEPT !.snap = row]
<1>1. pc[p] = "apply_save" /\ UNCHANGED <<bill, lock, holder, claim, queue, remote, timers,
                                          cron, opsLeft>>
  BY DEF ApplySave
<1>2. /\ Sale(p) \in Sales /\ Sale(p) = loc[p].sale /\ loc[p] \in Records
      /\ Fits("apply_save", loc[p], inv[Sale(p)]) /\ Backed(loc[p]) /\ SaleBacked(Sale(p))
      /\ bill[Sale(p)] \in BillingStatuses
  BY <1>1, Busy
<1>3. loc[p].snap \in Invoice /\ loc[p].st \in DOMAIN DocCode BY <1>2 DEF Fits, ApplyLabels
<1>4. row \in Invoice /\ (Shows(row) => accepted[Sale(p)] > 0)
  BY <1>2, <1>3, AppliedRow DEF Backed
<1>5. CASE SetRow(p, row) /\ GoWith(p, "apply_bill", rec) /\ UNCHANGED <<seen, faultsLeft>>
  <2>1. rec \in Records /\ rec.snap = row /\ rec.ret = loc[p].ret /\ rec.sale = Sale(p)
        /\ rec.src = loc[p].src /\ rec.st = loc[p].st /\ Backed(rec)
    <3> HIDE DEF row
    <3> QED BY <1>2, <1>4, Keeps
  <2>2. inv' = [inv EXCEPT ![Sale(p)] = row] /\ GoWith(p, "apply_bill", rec)
    BY <1>5 DEF SetRow
  <2> HIDE DEF row, rec
  <2>3. Truthful' /\ RowsKept
    <3>1. bill[Sale(p)] = "accepted" => accepted[Sale(p)] > 0 BY <1>2 DEF SaleBacked
    <3> QED BY <1>1, <1>2, <1>4, <2>2, <3>1, Writes
  <2>4. StoresOK' BY <1>1, <1>5, <2>3 DEF EmissionInv, StoresOK, RowsKept
  <2>5. inv'[Sale(p)] # NoInvoice
    BY <1>2, <1>4, <2>2, RowTypes DEF EmissionInv, StoresOK
  <2>6. Fits("apply_bill", rec, inv'[rec.sale])
    BY <1>2, <1>3, <1>4, <2>1, <2>5 DEF Fits, Labels, ApplyLabels, WithRow
  <2>7. ProcsOK' BY <1>1, <2>1, <2>2, <2>3, <2>6, Moves DEF EmissionInv
  <2> QED BY <2>3, <2>4, <2>7 DEF EmissionInv
<1>6. CASE ApplyFailed(p) /\ UNCHANGED inv
  <2>1. Truthful' /\ RowsKept BY <1>1, <1>6, Quiet
  <2>2. ProcsOK' /\ seen' \in SUBSET Messages /\ faultsLeft' \in Nat
    BY <1>1, <1>6, <2>1, FailsApplying DEF EmissionInv
  <2>3. StoresOK' BY <1>1, <1>6, <2>2 DEF EmissionInv, StoresOK
  <2> QED BY <2>1, <2>2, <2>3 DEF EmissionInv
<1> QED BY <1>5, <1>6 DEF ApplySave

LEMMA ApplyBillStep ==
  ASSUME EmissionInv, NEW p \in Procs, ApplyBill(p)
  PROVE  EmissionInv'
<1> DEFINE status == LegacyBillingStatus(loc[p].snap.pipe)
<1>1. pc[p] = "apply_bill" /\ UNCHANGED <<inv, lock, holder, claim, queue, doc, epoch,
                                          accepted, timers, cron, opsLeft>>
  BY DEF ApplyBill
<1>2. /\ Sale(p) \in Sales /\ loc[p].sale = Sale(p) /\ inv[Sale(p)] \in Invoice
      /\ Fits("apply_bill", loc[p], inv[Sale(p)]) /\ Backed(loc[p]) /\ SaleBacked(Sale(p))
  BY <1>1, Busy DEF Fits, WithRow, Rows, Row
<1>3. status \in BillingStatuses /\ (status = "accepted" => accepted[Sale(p)] > 0)
  BY <1>2, MapTypes DEF Backed, Shows
<1>4. Shows(inv[Sale(p)]) => accepted[Sale(p)] > 0 BY <1>2 DEF SaleBacked
<1>5. CASE /\ SetBill(p, status) /\ Return(p, TRUE) /\ UNCHANGED <<seen, faultsLeft>>
           /\ events' = IF p \in Hooks THEN events \ {Webhook(p)} ELSE events
  <2>1. bill' = [bill EXCEPT ![Sale(p)] = status] BY <1>5 DEF SetBill
  <2>2. events' \subseteq events BY <1>5
  <2> HIDE DEF status
  <2>3. Truthful' /\ RowsKept /\ bill' \in [Sales -> BillingStatuses]
    BY <1>1, <1>2, <1>3, <1>4, <2>1, <2>2, Writes
  <2>4. StoresOK' BY <1>1, <1>5, <2>2, <2>3 DEF EmissionInv, StoresOK
  <2>5. ProcsOK' BY <1>1, <1>5, <2>3, ReturnsFit DEF EmissionInv, WithRow
  <2> QED BY <2>3, <2>4, <2>5 DEF EmissionInv
<1>6. CASE ApplyFailed(p) /\ UNCHANGED <<bill, events>>
  <2>1. Truthful' /\ RowsKept BY <1>1, <1>6, Quiet
  <2>2. ProcsOK' /\ seen' \in SUBSET Messages /\ faultsLeft' \in Nat
    BY <1>1, <1>6, <2>1, FailsApplying DEF EmissionInv
  <2>3. StoresOK' BY <1>1, <1>6, <2>2 DEF EmissionInv, StoresOK
  <2> QED BY <2>1, <2>2, <2>3 DEF EmissionInv
<1> QED BY <1>5, <1>6 DEF ApplyBill

-----------------------------------------------------------------------------
(* EnqueueFiscalEmit.                                                      *)
LEMMA ClaimStep ==
  ASSUME EmissionInv, NEW p \in Procs, Claim(p)
  PROVE  EmissionInv'
<1>1. Truthful' /\ RowsKept BY Quiet DEF Claim
<1>2. ProcsOK /\ pc[p] = "claim" /\ UNCHANGED accepted
      /\ (GoWith(p, Rest(p), loc[p]) \/ GoWith(p, "enqueue_row", loc[p]))
  BY DEF EmissionInv, Claim
<1>3. StoresOK' BY DEF EmissionInv, StoresOK, Claim
<1>4. /\ {"idle", "r_release", "enqueue_row"} \subseteq
           Labels \ (ApplyLabels \cup {"release", "verdict_row", "verdict_bill"} \cup WithRow)
      /\ "claim" \notin ApplyLabels \cup {"idle"}
  BY DEF Labels, ApplyLabels, WithRow
<1>5. ProcsOK' BY <1>1, <1>2, <1>4, RestFits, GoesKeeping
<1> QED BY <1>1, <1>3, <1>5 DEF EmissionInv

(* Rows written by an emission: the same evidence, and no final stage.     *)
LEMMA QueuedRowIs == QueuedRow \in Invoice /\ ~Shows(QueuedRow)
BY DEF QueuedRow, NoInvoice, Invoice, Shows, Stages, InFlight, Final, JobStatuses, SunatStatuses

LEMMA StageWritten ==
  ASSUME NEW row \in Invoice, NEW pipe \in Stages, NEW job \in JobStatuses
  PROVE  LET new == [row EXCEPT !.pipe = pipe, !.job = job] IN
         /\ new \in Invoice
         /\ Shows(new) <=> row.cdr \/ pipe \in {"SUNAT_ACCEPTED", "OBSERVED"}
BY DEF Invoice, Shows

LEMMA JobWritten ==
  ASSUME NEW row \in Invoice, NEW job \in JobStatuses
  PROVE  LET new == [row EXCEPT !.job = job] IN
         new \in Invoice /\ (Shows(new) <=> Shows(row))
BY DEF Invoice, Shows

LEMMA EnqueueRowStep ==
  ASSUME EmissionInv, NEW p \in Procs, EnqueueRow(p)
  PROVE  EmissionInv'
<1> DEFINE row == IF Row(p) = NoInvoice THEN QueuedRow
                  ELSE [Row(p) EXCEPT !.pipe = "PENDING_FISCAL", !.job = "pending"]
<1>1. pc[p] = "enqueue_row" /\ UNCHANGED <<bill, lock, holder, queue, seen, remote, timers,
                                           cron, opsLeft>>
  BY DEF EnqueueRow
<1>2. /\ Sale(p) \in Sales /\ SaleBacked(Sale(p)) /\ bill[Sale(p)] \in BillingStatuses
      /\ Row(p) \in Rows /\ Row(p) = inv[Sale(p)]
  BY <1>1, Busy
<1>3. row \in Invoice /\ (Shows(row) => accepted[Sale(p)] > 0)
  <2>1. "PENDING_FISCAL" \in Stages /\ "pending" \in JobStatuses
    BY DEF Stages, InFlight, JobStatuses
  <2>2. CASE Row(p) = NoInvoice BY <2>2, QueuedRowIs
  <2>3. CASE Row(p) # NoInvoice
    <3>1. Row(p) \in Invoice BY <1>2, <2>3 DEF Rows
    <3>2. row \in Invoice /\ (Shows(row) <=> Row(p).cdr) BY <2>1, <2>3, <3>1, StageWritten
    <3> QED BY <1>2, <3>2 DEF SaleBacked, Shows
  <2> QED BY <2>2, <2>3
<1>4. UNCHANGED inv \/ inv' = [inv EXCEPT ![Sale(p)] = row] BY DEF EnqueueRow, SetRow
<1> HIDE DEF row
<1>5. Truthful' /\ RowsKept
  <2>1. bill[Sale(p)] = "accepted" => accepted[Sale(p)] > 0 BY <1>2 DEF SaleBacked
  <2> QED BY <1>1, <1>2, <1>3, <1>4, <2>1, Writes
<1>6. faultsLeft' \in Nat BY FaultLeft DEF EmissionInv, EnqueueRow, FaultKinds
<1>7. claim' \in [Sales -> BOOLEAN] BY <1>2 DEF EmissionInv, StoresOK, EnqueueRow, ReleaseClaim
<1>8. StoresOK' BY <1>1, <1>5, <1>6, <1>7 DEF EmissionInv, StoresOK, RowsKept
<1>9. GoWith(p, Rest(p), loc[p]) \/ GoWith(p, "push", loc[p]) BY DEF EnqueueRow
<1>10. /\ {"idle", "r_release", "push"} \subseteq
            Labels \ (ApplyLabels \cup {"release", "verdict_row", "verdict_bill"} \cup WithRow)
       /\ "enqueue_row" \notin ApplyLabels \cup {"idle"}
  BY DEF Labels, ApplyLabels, WithRow
<1>11. ProcsOK' BY <1>1, <1>5, <1>9, <1>10, RestFits, GoesKeeping DEF EmissionInv
<1> QED BY <1>5, <1>8, <1>11 DEF EmissionInv

(* UPDATE ... WHERE sale_id of a stage that is not an acceptance.          *)
LEMMA UpdatesRow ==
  ASSUME EmissionInv, NEW p \in Procs, pc[p] # "idle",
         NEW pipe \in Stages, NEW job \in JobStatuses, UpdateRow(p, pipe, job),
         pipe \in {"SUNAT_ACCEPTED", "OBSERVED"} => accepted[Sale(p)] > 0,
         UNCHANGED <<bill, remote>>
  PROVE  Truthful' /\ RowsKept
<1> DEFINE row == [Row(p) EXCEPT !.pipe = pipe, !.job = job]
<1>1. /\ Sale(p) \in Sales /\ SaleBacked(Sale(p)) /\ bill[Sale(p)] \in BillingStatuses
      /\ Row(p) \in Rows /\ Row(p) = inv[Sale(p)]
  BY Busy
<1>2. inv' = [inv EXCEPT ![Sale(p)] = IF Row(p) = NoInvoice THEN NoInvoice ELSE row]
  BY <1>1 DEF UpdateRow
<1>3. CASE Row(p) = NoInvoice
  <2>1. UNCHANGED inv BY <1>1, <1>2, <1>3 DEF EmissionInv, StoresOK
  <2> QED BY <2>1, Quiet
<1>4. CASE Row(p) # NoInvoice
  <2>1. inv' = [inv EXCEPT ![Sale(p)] = row] BY <1>2, <1>4
  <2>2. row \in Invoice /\ (Shows(row) => accepted[Sale(p)] > 0)
    <3>1. Row(p) \in Invoice BY <1>1, <1>4 DEF Rows
    <3>2. row \in Invoice
          /\ (Shows(row) <=> Row(p).cdr \/ pipe \in {"SUNAT_ACCEPTED", "OBSERVED"})
      BY <3>1, StageWritten
    <3> QED BY <1>1, <3>2 DEF SaleBacked, Shows
  <2>3. bill[Sale(p)] = "accepted" => accepted[Sale(p)] > 0 BY <1>1 DEF SaleBacked
  <2> HIDE DEF row
  <2> QED BY <1>1, <2>1, <2>2, <2>3, Writes
<1> QED BY <1>3, <1>4

(* The same for a write of a whole row that shows no more than the old.    *)
LEMMA SetsRow ==
  ASSUME EmissionInv, NEW p \in Procs, pc[p] # "idle", NEW row \in Invoice, SetRow(p, row),
         Shows(row) => Shows(Row(p)), UNCHANGED <<bill, remote>>
  PROVE  Truthful' /\ RowsKept /\ inv'[Sale(p)] = row /\ row # NoInvoice
<1>1. /\ Sale(p) \in Sales /\ SaleBacked(Sale(p)) /\ bill[Sale(p)] \in BillingStatuses
      /\ Row(p) = inv[Sale(p)]
  BY Busy
<1>2. inv' = [inv EXCEPT ![Sale(p)] = row] BY DEF SetRow
<1>3. /\ Shows(row) => accepted[Sale(p)] > 0
      /\ bill[Sale(p)] = "accepted" => accepted[Sale(p)] > 0
  BY <1>1 DEF SaleBacked
<1>4. Truthful' /\ RowsKept BY <1>1, <1>2, <1>3, Writes
<1>5. inv'[Sale(p)] = row /\ row # NoInvoice
  BY <1>1, <1>2, RowTypes DEF EmissionInv, StoresOK
<1> QED BY <1>4, <1>5

(* And for the status of the sale.                                         *)
LEMMA SetsBill ==
  ASSUME EmissionInv, NEW p \in Procs, pc[p] # "idle",
         NEW status \in BillingStatuses, SetBill(p, status),
         status = "accepted" => accepted[Sale(p)] > 0,
         UNCHANGED <<inv, remote>>
  PROVE  Truthful' /\ RowsKept /\ bill' \in [Sales -> BillingStatuses]
<1>1. Sale(p) \in Sales BY Busy
<1>2. bill' = [bill EXCEPT ![Sale(p)] = status] BY DEF SetBill
<1> QED BY <1>1, <1>2, QueuedRowIs, Writes

LEMMA Appended == \A q \in Seq(Sales), s \in Sales : Append(q, s) \in Seq(Sales)
OBVIOUS

LEMMA PushStep ==
  ASSUME EmissionInv, NEW p \in Procs, Push(p)
  PROVE  EmissionInv'
<1>1. /\ pc[p] = "push" /\ Sale(p) \in Sales
      /\ UNCHANGED <<bill, lock, holder, seen, remote, timers, cron, opsLeft>>
  BY Busy DEF Push
<1>2. Truthful' /\ RowsKept
  <2>1. CASE UNCHANGED inv BY <1>1, <2>1, Quiet
  <2>2. CASE UpdateRow(p, "FAILED", "failed")
    <3>1. "FAILED" \in Stages /\ "failed" \in JobStatuses BY DEF Stages, JobStatuses
    <3> QED BY <1>1, <2>2, <3>1, UpdatesRow
  <2> QED BY <2>1, <2>2 DEF Push
<1>3. faultsLeft' \in Nat BY FaultLeft DEF EmissionInv, Push, FaultKinds
<1>4. queue' \in Seq(Sales) /\ claim' \in [Sales -> BOOLEAN]
  <2>1. UNCHANGED queue \/ queue' = Append(queue, Sale(p)) BY DEF Push
  <2>2. queue' \in Seq(Sales) BY <1>1, <2>1, Appended DEF EmissionInv, StoresOK
  <2> QED BY <1>1, <2>2 DEF EmissionInv, StoresOK, Push, ReleaseClaim
<1>5. StoresOK' BY <1>1, <1>2, <1>3, <1>4 DEF EmissionInv, StoresOK, RowsKept
<1>6. GoWith(p, Rest(p), loc[p]) \/ GoWith(p, "enqueue_bill", loc[p]) BY DEF Push
<1>7. /\ {"idle", "r_release", "enqueue_bill"} \subseteq
           Labels \ (ApplyLabels \cup {"release", "verdict_row", "verdict_bill"} \cup WithRow)
      /\ "push" \notin ApplyLabels \cup {"idle"}
  BY DEF Labels, ApplyLabels, WithRow
<1>8. ProcsOK' BY <1>1, <1>2, <1>6, <1>7, RestFits, GoesKeeping DEF EmissionInv
<1> QED BY <1>2, <1>5, <1>8 DEF EmissionInv

LEMMA EnqueueBillStep ==
  ASSUME EmissionInv, NEW p \in Procs, EnqueueBill(p)
  PROVE  EmissionInv'
<1>1. /\ pc[p] = "enqueue_bill" /\ UNCHANGED <<inv, redis, remote, timers, env>>
      /\ SetBill(p, LegacyBillingStatus("PENDING_FISCAL")) /\ GoWith(p, Rest(p), loc[p])
  BY DEF EnqueueBill
<1>2. /\ LegacyBillingStatus("PENDING_FISCAL") \in BillingStatuses
      /\ LegacyBillingStatus("PENDING_FISCAL") # "accepted"
  BY MapTypes
<1>3. Truthful' /\ RowsKept /\ bill' \in [Sales -> BillingStatuses]
  BY <1>1, <1>2, SetsBill
<1>4. StoresOK' BY <1>1, <1>3 DEF EmissionInv, StoresOK
<1>5. /\ {"idle", "r_release"} \subseteq
           Labels \ (ApplyLabels \cup {"release", "verdict_row", "verdict_bill"} \cup WithRow)
      /\ "enqueue_bill" \notin ApplyLabels \cup {"idle"}
  BY DEF Labels, ApplyLabels, WithRow
<1>6. ProcsOK' BY <1>1, <1>3, <1>5, RestFits, GoesKeeping DEF EmissionInv
<1> QED BY <1>3, <1>4, <1>6 DEF EmissionInv

(* A step that moves no process keeps what they know.                      *)
LEMMA Stays ==
  ASSUME ProcsOK, UNCHANGED <<pc, loc, inv, accepted>>
  PROVE  ProcsOK'
BY DEF ProcsOK, Sale, Backed

LEMMA ClaimExpireStep ==
  ASSUME EmissionInv, NEW s \in Sales, ClaimExpire(s)
  PROVE  EmissionInv'
<1>1. Truthful' BY Quiet DEF ClaimExpire
<1>2. StoresOK' BY DEF EmissionInv, StoresOK, ClaimExpire
<1>3. ProcsOK' BY Stays DEF EmissionInv, ClaimExpire
<1> QED BY <1>1, <1>2, <1>3 DEF EmissionInv

LEMMA TimerStep ==
  ASSUME EmissionInv, NEW s \in Sales, TimerFire(s)
  PROVE  EmissionInv'
<1>1. Truthful' BY Quiet DEF TimerFire
<1>2. faultsLeft' \in Nat BY FaultLeft DEF EmissionInv, TimerFire, FaultKinds
<1>3. queue' \in Seq(Sales)
  <2>1. UNCHANGED queue \/ queue' = Append(queue, s) BY DEF TimerFire
  <2> QED BY <2>1, Appended DEF EmissionInv, StoresOK
<1>4. timers' \in [Sales -> Nat] BY DEF EmissionInv, StoresOK, TimerFire
<1>5. StoresOK' BY <1>2, <1>3, <1>4 DEF EmissionInv, StoresOK, TimerFire
<1>6. ProcsOK' BY Stays DEF EmissionInv, TimerFire
<1> QED BY <1>1, <1>5, <1>6 DEF EmissionInv

(* An operation begins with a sale and a source, and nothing read.         *)
LEMMA Begins ==
  ASSUME NEW s \in Sales, NEW src \in Sources
  PROVE  LET rec == [Fresh EXCEPT !.sale = s, !.src = src] IN
         /\ rec \in Records /\ rec.sale = s /\ rec.src = src /\ rec.ret = "idle"
         /\ Backed(rec)
BY RowTypes, CodesAndVerdicts DEF Fresh, Records, Backed, Labels, Readable, BillingStatuses, Good

LEMMA BeginsFit ==
  ASSUME NEW s \in Sales, NEW src \in Sources, NEW label \in {"acquire", "r_acquire"}, NEW row
  PROVE  Fits(label, [Fresh EXCEPT !.sale = s, !.src = src], row)
<1> DEFINE rec == [Fresh EXCEPT !.sale = s, !.src = src]
<1>1. rec \in Records /\ rec.sale = s /\ rec.src = src /\ rec.ret = "idle" BY Begins
<1>2. label \in Labels /\ label \notin ApplyLabels \cup WithRow /\ "idle" \in Returns
  BY DEF Labels, ApplyLabels, WithRow, Returns, Exits
<1> HIDE DEF rec
<1>3. Fits(label, rec, row) BY <1>1, <1>2 DEF Fits
<1> QED BY <1>3 DEF rec

LEMMA WorkerPopStep ==
  ASSUME EmissionInv, NEW w \in Workers, WorkerPop(w)
  PROVE  EmissionInv'
<1>1. Truthful' /\ RowsKept /\ UNCHANGED accepted BY Quiet DEF WorkerPop
<1>2. faultsLeft' \in Nat BY FaultLeft DEF EmissionInv, WorkerPop, FaultKinds
<1>3. queue' \in Seq(Sales) /\ Head(queue) \in Sales
  BY DEF EmissionInv, StoresOK, WorkerPop
<1>4. StoresOK' BY <1>2, <1>3 DEF EmissionInv, StoresOK, WorkerPop
<1>5. ProcsOK'
  <2>1. CASE UNCHANGED <<pc, loc>> BY <2>1, Stays DEF EmissionInv, WorkerPop
  <2>2. CASE GoWith(w, "acquire", [Fresh EXCEPT !.sale = Head(queue), !.src = "fiscal_queue"])
    <3>1. w \in Procs /\ "fiscal_queue" \in Sources BY DEF Procs, Sources
    <3> DEFINE rec == [Fresh EXCEPT !.sale = Head(queue), !.src = "fiscal_queue"]
    <3>2. Backed(rec) BY <1>3, <3>1, Begins
    <3>3. Fits("acquire", rec, inv'[rec.sale]) BY <1>3, <3>1, BeginsFit
    <3>4. GoWith(w, "acquire", rec) BY <2>2
    <3> HIDE DEF rec
    <3> QED BY <1>1, <3>1, <3>2, <3>3, <3>4, Moves DEF EmissionInv
  <2> QED BY <2>1, <2>2 DEF WorkerPop
<1> QED BY <1>1, <1>4, <1>5 DEF EmissionInv

-----------------------------------------------------------------------------
(* executeFiscalSend.                                                      *)
LEMMA CheckStep ==
  ASSUME EmissionInv, NEW p \in Procs, Check(p)
  PROVE  EmissionInv'
<1>1. Truthful' /\ RowsKept BY Quiet DEF Check
<1>2. StoresOK' BY DEF EmissionInv, StoresOK, Check
<1>3. ProcsOK /\ pc[p] = "check" /\ UNCHANGED accepted
      /\ \/ GoWith(p, "release", [loc[p] EXCEPT !.ret = "wait"])
         \/ GoWith(p, "processing", loc[p])
  BY DEF EmissionInv, Check
<1>4. /\ "processing" \in Labels \ (ApplyLabels \cup {"release", "verdict_row", "verdict_bill"} \cup WithRow)
      /\ "check" \notin ApplyLabels \cup {"idle"} /\ "wait" \in Exits
  BY DEF Labels, ApplyLabels, WithRow, Returns, Exits
<1>5. ProcsOK' BY <1>1, <1>3, <1>4, NotPreparedFits, GoesKeeping
<1> QED BY <1>1, <1>2, <1>5 DEF EmissionInv

(* An UPDATE of a stage that is not an acceptance, then the next statement. *)
LEMMA Updating ==
  ASSUME EmissionInv, NEW p \in Procs, pc[p] \notin ApplyLabels \cup {"idle", "release"},
         NEW pipe \in Stages \ {"SUNAT_ACCEPTED", "OBSERVED"}, NEW job \in JobStatuses,
         NEW label \in Labels \ (ApplyLabels \cup WithRow
                                   \cup {"idle", "release", "resync", "verdict_row", "verdict_bill"}),
         UpdateRow(p, pipe, job), Go(p, label),
         UNCHANGED <<bill, redis, remote, timers, loc, env>>
  PROVE  EmissionInv'
<1>1. Truthful' /\ RowsKept BY UpdatesRow
<1>2. StoresOK' BY <1>1 DEF EmissionInv, StoresOK, RowsKept
<1>3. ProcsOK' BY <1>1, GoesKeeping DEF EmissionInv
<1> QED BY <1>1, <1>2, <1>3 DEF EmissionInv

LEMMA ProcessingStep ==
  ASSUME EmissionInv, NEW p \in Procs, Processing(p)
  PROVE  EmissionInv'
<1>1. /\ "processing" \notin ApplyLabels \cup {"idle"}
      /\ "PROCESSING" \in Stages \ {"SUNAT_ACCEPTED", "OBSERVED"}
      /\ "emit" \in Labels \ (ApplyLabels \cup WithRow
                                \cup {"idle", "release", "verdict_row", "verdict_bill"})
  BY DEF ApplyLabels, Stages, InFlight, Labels, WithRow
<1>2. JobStatusFromPipeline("PROCESSING") \in JobStatuses BY MapTypes
<1> QED BY <1>1, <1>2, Updating DEF Processing

LEMMA FailRowStep ==
  ASSUME EmissionInv, NEW p \in Procs, FailRow(p)
  PROVE  EmissionInv'
<1>1. /\ "fail_row" \notin ApplyLabels \cup {"idle"} /\ "failed" \in JobStatuses
      /\ "FAILED" \in Stages \ {"SUNAT_ACCEPTED", "OBSERVED"}
      /\ "fail_bill" \in Labels \ (ApplyLabels \cup WithRow
                                \cup {"idle", "release", "verdict_row", "verdict_bill"})
  BY DEF ApplyLabels, Stages, Labels, WithRow, JobStatuses
<1> QED BY <1>1, Updating DEF FailRow

LEMMA FailBillStep ==
  ASSUME EmissionInv, NEW p \in Procs, FailBill(p)
  PROVE  EmissionInv'
<1>1. /\ pc[p] = "fail_bill" /\ UNCHANGED <<inv, redis, remote, timers, env>>
      /\ SetBill(p, LegacyBillingStatus("FAILED"))
      /\ GoWith(p, "release", [loc[p] EXCEPT !.ret = "idle"])
  BY DEF FailBill
<1>2. /\ LegacyBillingStatus("FAILED") \in BillingStatuses
      /\ LegacyBillingStatus("FAILED") # "accepted"
  BY MapTypes
<1>3. Truthful' /\ RowsKept /\ bill' \in [Sales -> BillingStatuses]
  BY <1>1, <1>2, SetsBill
<1>4. StoresOK' BY <1>1, <1>3 DEF EmissionInv, StoresOK
<1>5. "fail_bill" \notin ApplyLabels \cup {"idle"} /\ "idle" \in Exits
  BY DEF ApplyLabels, WithRow, Returns, Exits
<1>6. ProcsOK' BY <1>1, <1>3, <1>5, NotPreparedFits DEF EmissionInv
<1> QED BY <1>3, <1>4, <1>6 DEF EmissionInv

(* The facturador starts the document: no acceptance is claimed for it.    *)
LEMMA ReceiveKeeps ==
  ASSUME EmissionInv, NEW s \in Sales, NEW reissue, Receive(s, reissue),
         UNCHANGED <<db, accepted, events>>
  PROVE  /\ Truthful' /\ RowsKept
         /\ doc' \in [Sales -> DOMAIN DocCode] /\ epoch' \in [Sales -> Nat]
<1>1. /\ doc \in [Sales -> DOMAIN DocCode] /\ epoch \in [Sales -> Nat]
      /\ \A t \in Sales : SaleBacked(t)
  BY DEF EmissionInv, StoresOK, Truthful
<1>2. CASE UNCHANGED <<doc, epoch>> BY <1>1, <1>2, Quiet
<1>3. CASE doc' = [doc EXCEPT ![s] = "queued"] /\ epoch' = [epoch EXCEPT ![s] = @ + 1]
  <2>1. doc' \in [Sales -> DOMAIN DocCode] /\ epoch' \in [Sales -> Nat]
    BY <1>1, <1>3, CodesAndVerdicts
  <2>2. \A t \in Sales : /\ doc'[t] \in Good => doc[t] \in Good
                         /\ doc'[t] # "none" => epoch'[t] > 0
    BY <1>1, <1>3 DEF SaleBacked, Good
  <2>3. \A t \in Sales : SaleBacked(t)' BY <1>1, <2>2 DEF SaleBacked
  <2>4. Truthful' BY <2>3 DEF EmissionInv, Truthful
  <2>5. RowsKept BY DEF EmissionInv, StoresOK, RowsKept
  <2> QED BY <2>1, <2>4, <2>5
<1> QED BY <1>2, <1>3 DEF Receive

LEMMA EmitStep ==
  ASSUME EmissionInv, NEW p \in Procs, Emit(p)
  PROVE  EmissionInv'
<1>1. /\ pc[p] = "emit" /\ Sale(p) \in Sales
      /\ UNCHANGED <<db, redis, accepted, events, timers, cron, opsLeft>>
  BY Busy DEF Emit
<1>2. /\ Truthful' /\ RowsKept
      /\ doc' \in [Sales -> DOMAIN DocCode] /\ epoch' \in [Sales -> Nat]
  <2>1. CASE UNCHANGED <<doc, epoch>>
    <3>1. Truthful' /\ RowsKept BY <1>1, <2>1, Quiet
    <3> QED BY <2>1, <3>1 DEF EmissionInv, StoresOK
  <2>2. CASE Receive(Sale(p), loc[p].src = "reissue") BY <1>1, <2>2, ReceiveKeeps
  <2> QED BY <2>1, <2>2 DEF Emit
<1>3. faultsLeft' \in Nat BY FaultLeft DEF EmissionInv, Emit, FaultKinds
<1>4. StoresOK' BY <1>1, <1>2, <1>3 DEF EmissionInv, StoresOK
<1>5. \/ Go(p, "persist_read") /\ UNCHANGED loc
      \/ GoWith(p, "fail_row", loc[p])
      \/ GoWith(p, "release", [loc[p] EXCEPT !.ret = "idle"])
  BY DEF Emit
<1>6. /\ {"persist_read", "fail_row"} \subseteq
           Labels \ (ApplyLabels \cup WithRow
                       \cup {"idle", "release", "verdict_row", "verdict_bill"})
      /\ "emit" \notin ApplyLabels \cup {"idle"} /\ "idle" \in Exits
  BY DEF Labels, ApplyLabels, WithRow, Returns, Exits
<1>7. ProcsOK'
  BY <1>1, <1>2, <1>5, <1>6, NotPreparedFits, GoesKeeping DEF EmissionInv
<1> QED BY <1>2, <1>4, <1>7 DEF EmissionInv

-----------------------------------------------------------------------------
(* persistInvoiceAfterEmit.                                                *)
LEMMA PersistedFits ==
  ASSUME ProcsOK, NEW p \in Procs, pc[p] \notin ApplyLabels \cup {"idle", "release"},
         RowsKept, UNCHANGED accepted, inv'[Sale(p)] # NoInvoice, Persisted(p)
  PROVE  ProcsOK'
<1>1. /\ "verdict" \in Labels \ (ApplyLabels \cup {"release", "verdict_row", "verdict_bill"})
      /\ "idle" \in Exits
  BY DEF Labels, ApplyLabels, WithRow, Returns, Exits
<1> QED BY <1>1, NotPreparedFits, GoesKeeping DEF Persisted

LEMMA PersistReadStep ==
  ASSUME EmissionInv, NEW p \in Procs, PersistRead(p)
  PROVE  EmissionInv'
<1> DEFINE old   == IF Row(p) = NoInvoice THEN QueuedRow ELSE Row(p)
           final == HasFinalSunatOutcome(old) /\ loc[p].src # "reissue"
           row   == [old EXCEPT !.ext = @ \/ final]
<1>1. /\ pc[p] = "persist_read" /\ UNCHANGED <<bill, redis, remote, timers, env>>
      /\ SetRow(p, row)
      /\ Persisted(p) \/ GoWith(p, "persist_write", loc[p])
  BY DEF PersistRead
<1>2. Sale(p) \in Sales /\ Row(p) \in Rows BY <1>1, Busy
<1>3. old \in Invoice /\ (Shows(old) => Shows(Row(p))) BY <1>2, QueuedRowIs DEF Rows
<1>4. final \in BOOLEAN BY <1>3 DEF HasFinalSunatOutcome, HasAcceptanceEvidence, Invoice
<1> HIDE DEF old, final
<1>5. row \in Invoice /\ (Shows(row) <=> Shows(old)) BY <1>3, <1>4 DEF Invoice, Shows
<1> HIDE DEF row
<1>6. Truthful' /\ RowsKept /\ inv'[Sale(p)] # NoInvoice
  BY <1>1, <1>3, <1>5, SetsRow
<1>7. StoresOK' BY <1>1, <1>6 DEF EmissionInv, StoresOK, RowsKept
<1>8. /\ "persist_write" \in Labels \ (ApplyLabels \cup {"release", "verdict_row", "verdict_bill"})
      /\ "persist_read" \notin ApplyLabels \cup {"idle"}
  BY DEF Labels, ApplyLabels
<1>9. ProcsOK' BY <1>1, <1>6, <1>8, PersistedFits, GoesKeeping DEF EmissionInv
<1> QED BY <1>6, <1>7, <1>9 DEF EmissionInv

LEMMA PersistWriteStep ==
  ASSUME EmissionInv, NEW p \in Procs, PersistWrite(p)
  PROVE  EmissionInv'
<1> DEFINE row == [Row(p) EXCEPT !.ext = TRUE, !.pipe = "FACTURADOR_RECEIVED",
                                 !.job = "sent", !.sunat = "pending"]
<1>1. /\ pc[p] = "persist_write" /\ UNCHANGED <<bill, redis, remote, timers, loc, env>>
      /\ SetRow(p, row) /\ Go(p, "persist_reread")
  BY DEF PersistWrite
<1>2. Row(p) \in Invoice BY <1>1, Busy DEF Fits, WithRow, Rows
<1>3. "FACTURADOR_RECEIVED" \in Stages /\ "sent" \in JobStatuses /\ "pending" \in SunatStatuses
  BY DEF Stages, InFlight, JobStatuses, SunatStatuses
<1>4. row \in Invoice /\ (Shows(row) => Shows(Row(p))) BY <1>2, <1>3 DEF Invoice, Shows
<1> HIDE DEF row
<1>5. Truthful' /\ RowsKept /\ inv'[Sale(p)] # NoInvoice BY <1>1, <1>4, SetsRow
<1>6. StoresOK' BY <1>1, <1>5 DEF EmissionInv, StoresOK, RowsKept
<1>7. /\ "persist_reread" \in
           Labels \ (ApplyLabels \cup {"idle", "release", "verdict_row", "verdict_bill"})
      /\ "persist_write" \notin ApplyLabels \cup {"idle"}
  BY DEF Labels, ApplyLabels
<1>8. ProcsOK' BY <1>1, <1>5, <1>7, GoesKeeping DEF EmissionInv
<1> QED BY <1>5, <1>6, <1>8 DEF EmissionInv

LEMMA PersistRereadStep ==
  ASSUME EmissionInv, NEW p \in Procs, PersistReread(p) \/ PersistSale(p)
  PROVE  EmissionInv'
<1>1. /\ pc[p] \in {"persist_reread", "persist_sale"}
      /\ UNCHANGED <<db, redis, remote, timers, env>>
      /\ \/ Persisted(p)
         \/ \E label \in {"persist_sale", "persist_bill"} : GoWith(p, label, loc[p])
  BY DEF PersistReread, PersistSale
<1>2. Truthful' /\ RowsKept BY <1>1, Quiet
<1>3. StoresOK' BY <1>1 DEF EmissionInv, StoresOK
<1>4. inv'[Sale(p)] # NoInvoice BY <1>1, Busy DEF Fits, WithRow, Row
<1>5. /\ {"persist_sale", "persist_bill"} \subseteq
           Labels \ (ApplyLabels \cup {"release", "verdict_row", "verdict_bill"})
      /\ {"persist_reread", "persist_sale"} \cap (ApplyLabels \cup {"idle"}) = {}
  BY DEF Labels, ApplyLabels
<1>6. ProcsOK' BY <1>1, <1>2, <1>4, <1>5, PersistedFits, GoesKeeping DEF EmissionInv
<1> QED BY <1>2, <1>3, <1>6 DEF EmissionInv

LEMMA PersistBillStep ==
  ASSUME EmissionInv, NEW p \in Procs, PersistBill(p)
  PROVE  EmissionInv'
<1>1. /\ pc[p] = "persist_bill" /\ UNCHANGED <<inv, redis, remote, timers, env>>
      /\ SetBill(p, LegacyBillingStatus("PENDING_FISCAL")) /\ Persisted(p)
  BY DEF PersistBill
<1>2. /\ LegacyBillingStatus("PENDING_FISCAL") \in BillingStatuses
      /\ LegacyBillingStatus("PENDING_FISCAL") # "accepted"
  BY MapTypes
<1>3. Truthful' /\ RowsKept /\ bill' \in [Sales -> BillingStatuses]
  BY <1>1, <1>2, SetsBill
<1>4. StoresOK' BY <1>1, <1>3 DEF EmissionInv, StoresOK
<1>5. inv'[Sale(p)] # NoInvoice /\ "persist_bill" \notin ApplyLabels \cup {"idle"}
  BY <1>1, Busy DEF Fits, WithRow, Row, ApplyLabels
<1>6. ProcsOK' BY <1>1, <1>3, <1>5, PersistedFits DEF EmissionInv
<1> QED BY <1>3, <1>4, <1>6 DEF EmissionInv

-----------------------------------------------------------------------------
(* The verdict on the row that was read back.                              *)
LEMMA VerdictOfRow ==
  ASSUME NEW row
  PROVE  /\ VerdictOf(row) \in {"evidence", "rejected", "done", "queued", "unconfirmed"}
         /\ VerdictOf(row) = "evidence" => row.cdr
BY DEF VerdictOf, HasAcceptanceEvidence

LEMMA VerdictStep ==
  ASSUME EmissionInv, NEW p \in Procs, Verdict(p)
  PROVE  EmissionInv'
<1> DEFINE v == VerdictOf(Row(p))
           rec == [loc[p] EXCEPT !.st = v]
<1>1. /\ pc[p] = "verdict" /\ UNCHANGED <<db, redis, remote, timers, env>>
      /\ \/ v = "done" /\ GoWith(p, "release", [loc[p] EXCEPT !.ret = "wait"])
         \/ v = "queued" /\ GoWith(p, "fetch", [loc[p] EXCEPT !.ret = "sent"])
         \/ v \notin {"done", "queued"} /\ GoWith(p, "verdict_row", rec)
  BY DEF Verdict
<1>2. /\ Sale(p) \in Sales /\ Sale(p) = loc[p].sale /\ loc[p] \in Records
      /\ Fits("verdict", loc[p], inv[Sale(p)]) /\ Backed(loc[p]) /\ SaleBacked(Sale(p))
      /\ Row(p) = inv[Sale(p)] /\ Row(p) # NoInvoice
  BY <1>1, Busy DEF Fits, WithRow
<1>3. Truthful' /\ RowsKept BY <1>1, Quiet
<1>4. StoresOK' BY <1>1 DEF EmissionInv, StoresOK
<1>5. /\ "verdict" \notin ApplyLabels \cup {"idle"} /\ "wait" \in Exits
      /\ "sent" \in Returns
      /\ "fetch" \in Labels \ (ApplyLabels \cup {"release", "verdict_row", "verdict_bill"})
  BY DEF Labels, ApplyLabels, WithRow, Returns, Exits
<1>6. CASE v = "done" /\ GoWith(p, "release", [loc[p] EXCEPT !.ret = "wait"])
  <2>1. ProcsOK' BY <1>1, <1>3, <1>5, <1>6, NotPreparedFits DEF EmissionInv
  <2> QED BY <1>3, <1>4, <2>1 DEF EmissionInv
<1>7. CASE v = "queued" /\ GoWith(p, "fetch", [loc[p] EXCEPT !.ret = "sent"])
  <2>1. ProcsOK' BY <1>1, <1>2, <1>3, <1>5, <1>7, GoesReturning DEF EmissionInv
  <2> QED BY <1>3, <1>4, <2>1 DEF EmissionInv
<1>8. CASE v \notin {"done", "queued"} /\ GoWith(p, "verdict_row", rec)
  <2>1. v \in DOMAIN VerdictStage /\ v \in Readable
        /\ (v \in Good \cup {"evidence"} => Row(p).cdr)
    BY <1>8, VerdictOfRow, CodesAndVerdicts DEF Readable, Good
  <2> HIDE DEF v
  <2>2. rec \in Records /\ rec.st = v /\ rec.sale = Sale(p) /\ rec.ret = loc[p].ret
        /\ rec.src = loc[p].src /\ rec.snap = loc[p].snap
    BY <1>2, <2>1 DEF Records
  <2>3. Backed(rec) BY <1>2, <2>1, <2>2 DEF Backed, SaleBacked, Shows
  <2>4. Fits("verdict_row", rec, inv'[rec.sale])
    BY <1>1, <1>2, <2>1, <2>2 DEF Fits, Labels, ApplyLabels
  <2> HIDE DEF rec
  <2>5. ProcsOK' BY <1>1, <1>3, <1>8, <2>3, <2>4, Moves DEF EmissionInv
  <2> QED BY <1>3, <1>4, <2>5 DEF EmissionInv
<1> QED BY <1>1, <1>6, <1>7, <1>8

LEMMA VerdictStages ==
  ASSUME NEW v \in DOMAIN VerdictStage
  PROVE  /\ VerdictStage[v] \in Stages
         /\ VerdictStage[v] \in {"SUNAT_ACCEPTED", "OBSERVED"} => v = "evidence"
BY CodesAndVerdicts DEF VerdictStage, Stages, Final

LEMMA VerdictRowStep ==
  ASSUME EmissionInv, NEW p \in Procs, VerdictRow(p)
  PROVE  EmissionInv'
<1> DEFINE v == loc[p].st
           job == IF v = "evidence" THEN "sent" ELSE "failed"
           row == [Row(p) EXCEPT !.job = "failed"]
<1>1. /\ pc[p] = "verdict_row" /\ UNCHANGED <<bill, redis, remote, timers, loc, env>>
      /\ SetRow(p, row) \/ UpdateRow(p, VerdictStage[v], job)
      /\ Go(p, "verdict_bill")
  BY DEF VerdictRow
<1>2. /\ Sale(p) \in Sales /\ Sale(p) = loc[p].sale
      /\ Fits("verdict_row", loc[p], inv[Sale(p)]) /\ Backed(loc[p])
      /\ Row(p) = inv[Sale(p)] /\ Row(p) \in Invoice
  BY <1>1, Busy DEF Fits, WithRow, Rows
<1>3. v \in DOMAIN VerdictStage BY <1>2 DEF Fits
<1>4. job \in JobStatuses /\ "failed" \in JobStatuses BY DEF JobStatuses
<1>5. v = "evidence" => accepted[Sale(p)] > 0 BY <1>2 DEF Backed
<1>6. Truthful' /\ RowsKept
  <2>1. CASE SetRow(p, row)
    <3>1. row \in Invoice /\ (Shows(row) <=> Shows(Row(p))) BY <1>2, <1>4, JobWritten
    <3> HIDE DEF row
    <3> QED BY <1>1, <2>1, <3>1, SetsRow
  <2>2. CASE UpdateRow(p, VerdictStage[v], job)
    <3> HIDE DEF job
    <3> QED BY <1>1, <1>3, <1>4, <1>5, <2>2, VerdictStages, UpdatesRow
  <2> QED BY <1>1, <2>1, <2>2
<1>7. StoresOK' BY <1>1, <1>6 DEF EmissionInv, StoresOK, RowsKept
<1>8. inv'[Sale(p)] # NoInvoice BY <1>2, <1>6, RowTypes DEF RowsKept
<1>9. Fits("verdict_bill", loc[p], inv'[Sale(p)])
  BY <1>2, <1>8 DEF Fits, Labels, ApplyLabels
<1>10. ProcsOK' BY <1>1, <1>6, <1>9, Goes DEF EmissionInv
<1> QED BY <1>6, <1>7, <1>10 DEF EmissionInv

LEMMA VerdictBillStep ==
  ASSUME EmissionInv, NEW p \in Procs, VerdictBill(p)
  PROVE  EmissionInv'
<1> DEFINE v == loc[p].st
           ret == IF v = "evidence" THEN "wait" ELSE "idle"
           rec == [loc[p] EXCEPT !.st = "none", !.ret = ret]
<1>1. /\ pc[p] = "verdict_bill" /\ UNCHANGED <<inv, redis, remote, timers, env>>
      /\ SetBill(p, LegacyBillingStatus(VerdictStage[v])) /\ GoWith(p, "release", rec)
  BY DEF VerdictBill
<1>2. /\ Sale(p) \in Sales /\ Sale(p) = loc[p].sale /\ loc[p] \in Records
      /\ Fits("verdict_bill", loc[p], inv[Sale(p)]) /\ Backed(loc[p])
  BY <1>1, Busy
<1>3. v \in DOMAIN VerdictStage BY <1>2 DEF Fits
<1>4. /\ LegacyBillingStatus(VerdictStage[v]) \in BillingStatuses
      /\ LegacyBillingStatus(VerdictStage[v]) = "accepted" => accepted[Sale(p)] > 0
  BY <1>2, <1>3, MapTypes, VerdictStages DEF Backed
<1>5. Truthful' /\ RowsKept /\ bill' \in [Sales -> BillingStatuses]
  BY <1>1, <1>4, SetsBill
<1>6. StoresOK' BY <1>1, <1>5 DEF EmissionInv, StoresOK
<1>7. ret \in Labels /\ ret \in Exits /\ ret \in Returns BY DEF Labels, Returns, Exits, WithRow
<1> HIDE DEF ret
<1>8. /\ rec \in Records /\ rec.sale = Sale(p) /\ rec.ret = ret /\ rec.src = loc[p].src
      /\ Backed(rec)
  BY <1>2, <1>7, CodesAndVerdicts DEF Records, Readable, Backed, Good
<1> HIDE DEF rec
<1>9. Fits("release", rec, inv'[rec.sale])
  BY <1>1, <1>2, <1>7, <1>8 DEF Fits, Labels, ApplyLabels, WithRow
<1>10. ProcsOK' BY <1>1, <1>5, <1>8, <1>9, Moves DEF EmissionInv
<1> QED BY <1>5, <1>6, <1>10 DEF EmissionInv

(* A process forgets the answer of a subroutine and says where it goes on. *)
LEMMA Answered ==
  ASSUME NEW rec \in Records, NEW ret \in Labels
  PROVE  LET new == [rec EXCEPT !.ret = ret, !.ok = FALSE] IN
         /\ new \in Records /\ new.ret = ret /\ new.sale = rec.sale /\ new.src = rec.src
         /\ Backed(rec) => Backed(new)
BY DEF Records, Backed

LEMMA SentStep ==
  ASSUME EmissionInv, NEW p \in Procs, Sent(p)
  PROVE  EmissionInv'
<1> DEFINE row == [Row(p) EXCEPT !.job = "sent"]
           rec == [loc[p] EXCEPT !.ret = "wait", !.ok = FALSE]
<1>1. /\ pc[p] = "sent" /\ UNCHANGED <<bill, redis, remote, timers, env>>
      /\ UNCHANGED inv \/ SetRow(p, row)
      /\ GoWith(p, "release", rec)
  BY DEF Sent
<1>2. /\ Sale(p) \in Sales /\ Sale(p) = loc[p].sale /\ loc[p] \in Records
      /\ Fits("sent", loc[p], inv[Sale(p)]) /\ Backed(loc[p])
      /\ Row(p) = inv[Sale(p)] /\ Row(p) \in Invoice
  BY <1>1, Busy DEF Fits, WithRow, Rows
<1>3. Truthful' /\ RowsKept
  <2>1. row \in Invoice /\ (Shows(row) <=> Shows(Row(p))) BY <1>2, JobWritten DEF JobStatuses
  <2> HIDE DEF row
  <2> QED BY <1>1, <2>1, SetsRow, Quiet
<1>4. StoresOK' BY <1>1, <1>3 DEF EmissionInv, StoresOK, RowsKept
<1>5. "wait" \in Labels /\ "wait" \in Exits /\ "wait" \in Returns BY DEF Labels, Returns, Exits, WithRow
<1>6. rec \in Records /\ rec.ret = "wait" /\ rec.sale = Sale(p) /\ rec.src = loc[p].src
      /\ Backed(rec)
  BY <1>2, <1>5, Answered
<1> HIDE DEF rec
<1>7. Fits("release", rec, inv'[rec.sale])
  BY <1>2, <1>5, <1>6 DEF Fits, Labels, ApplyLabels, WithRow
<1>8. ProcsOK' BY <1>1, <1>3, <1>6, <1>7, Moves DEF EmissionInv
<1> QED BY <1>3, <1>4, <1>8 DEF EmissionInv

LEMMA WaitStep ==
  ASSUME EmissionInv, NEW p \in Procs, Wait(p)
  PROVE  EmissionInv'
<1>1. Truthful' /\ RowsKept BY Quiet DEF Wait
<1>2. StoresOK' BY DEF EmissionInv, StoresOK, Wait
<1>3. /\ ProcsOK /\ pc[p] = "wait" /\ UNCHANGED accepted
      /\ \/ End(p)
         \/ inv[Sale(p)] # NoInvoice /\ GoWith(p, "fetch", [loc[p] EXCEPT !.ret = "waited"])
  BY DEF EmissionInv, Wait, Row
<1>4. /\ "fetch" \in Labels \ (ApplyLabels \cup {"release", "verdict_row", "verdict_bill"})
      /\ "waited" \in Returns /\ "wait" \notin ApplyLabels \cup {"idle"}
  BY DEF Labels, ApplyLabels, Returns
<1>5. ProcsOK' BY <1>1, <1>3, <1>4, Ends, GoesReturning
<1> QED BY <1>1, <1>2, <1>5 DEF EmissionInv

LEMMA WaitedStep ==
  ASSUME EmissionInv, NEW p \in Procs, Waited(p)
  PROVE  EmissionInv'
<1> DEFINE rec == [loc[p] EXCEPT !.ok = FALSE]
<1>1. /\ pc[p] = "waited" /\ UNCHANGED <<db, redis, remote, timers, env>>
      /\ End(p) \/ GoWith(p, "wait", rec)
  BY DEF Waited
<1>2. Truthful' /\ RowsKept BY <1>1, Quiet
<1>3. StoresOK' BY <1>1 DEF EmissionInv, StoresOK
<1>4. /\ loc[p] \in Records /\ Fits("waited", loc[p], inv[Sale(p)]) /\ Backed(loc[p])
  BY <1>1, Busy
<1>5. rec \in Records /\ rec.ret = loc[p].ret /\ rec.sale = loc[p].sale
      /\ rec.src = loc[p].src /\ Backed(rec)
  BY <1>4 DEF Records, Backed
<1> HIDE DEF rec
<1>6. Fits("wait", rec, inv'[rec.sale]) BY <1>4, <1>5 DEF Fits, Labels, ApplyLabels, WithRow
<1>7. ProcsOK' BY <1>1, <1>2, <1>5, <1>6, Ends, Moves DEF EmissionInv
<1> QED BY <1>2, <1>3, <1>7 DEF EmissionInv

-----------------------------------------------------------------------------
(* The reconciler.                                                         *)
LEMMA ReconcileVisitStep ==
  ASSUME EmissionInv, NEW s \in Sales, ReconcileVisit(s)
  PROVE  EmissionInv'
<1> DEFINE rec == [Fresh EXCEPT !.sale = s, !.src = "reconcile"]
<1>1. Truthful' /\ RowsKept /\ UNCHANGED accepted BY Quiet DEF ReconcileVisit
<1>2. StoresOK' BY DEF EmissionInv, StoresOK, ReconcileVisit
<1>3. Reconciler \in Procs /\ "reconcile" \in Sources BY DEF Procs, Sources
<1>4. Backed(rec) BY <1>3, Begins
<1>5. Fits("r_acquire", rec, inv'[rec.sale]) BY <1>3, BeginsFit
<1>6. GoWith(Reconciler, "r_acquire", rec) BY DEF ReconcileVisit
<1> HIDE DEF rec
<1>7. ProcsOK' BY <1>1, <1>3, <1>4, <1>5, <1>6, Moves DEF EmissionInv
<1> QED BY <1>1, <1>2, <1>7 DEF EmissionInv

LEMMA ReconcileSelectStep ==
  ASSUME EmissionInv, ReconcileSelect
  PROVE  EmissionInv'
<1>1. Truthful' BY Quiet DEF ReconcileSelect
<1>2. StoresOK'
  <2>1. faultsLeft \in Nat /\ batch \in SUBSET Sales BY DEF EmissionInv, StoresOK
  <2>2. {s \in Sales : Stale(s) /\ ~Crowded(s)} \in SUBSET Sales OBVIOUS
  <2>3. faultsLeft' \in Nat BY <2>1 DEF ReconcileSelect, Fault
  <2>4. batch' \in SUBSET Sales BY <2>1, <2>2 DEF ReconcileSelect
  <2>5. ticked' = FALSE /\ UNCHANGED <<db, redis, remote, timers, opsLeft>>
    BY DEF ReconcileSelect
  <2> QED BY <2>3, <2>4, <2>5 DEF EmissionInv, StoresOK
<1>3. ProcsOK' BY Stays DEF EmissionInv, ReconcileSelect
<1> QED BY <1>1, <1>2, <1>3 DEF EmissionInv

LEMMA TickStep ==
  ASSUME EmissionInv, Tick
  PROVE  EmissionInv'
<1>1. Truthful' BY Quiet DEF Tick
<1>2. StoresOK' BY DEF EmissionInv, StoresOK, Tick
<1>3. ProcsOK' BY Stays DEF EmissionInv, Tick
<1> QED BY <1>1, <1>2, <1>3 DEF EmissionInv

LEMMA ReconcileAcquireStep ==
  ASSUME EmissionInv, NEW p \in Procs, ReconcileAcquire(p)
  PROVE  EmissionInv'
<1>1. Truthful' /\ RowsKept BY Quiet DEF ReconcileAcquire
<1>2. /\ ProcsOK /\ pc[p] = "r_acquire" /\ UNCHANGED accepted /\ Sale(p) \in Sales
      /\ loc[p].src \in Sources
      /\ End(p) \/ (Go(p, "r_sale") /\ UNCHANGED loc)
  BY Busy DEF EmissionInv, ReconcileAcquire, Fits, ApplyLabels
<1>3. lock' \in [Sales -> Sources \cup {"free"}] /\ holder' \in [Sales -> Procs \cup {Nil}]
  BY <1>2 DEF EmissionInv, StoresOK, ReconcileAcquire, TryAcquire
<1>4. StoresOK' BY <1>3 DEF EmissionInv, StoresOK, ReconcileAcquire
<1>5. /\ "r_sale" \in Labels \ (ApplyLabels \cup {"release", "verdict_row", "verdict_bill"}
                                   \cup WithRow)
      /\ "r_acquire" \notin ApplyLabels \cup {"idle"}
  BY DEF Labels, ApplyLabels, WithRow
<1>6. ProcsOK' BY <1>1, <1>2, <1>5, Ends, GoesKeeping
<1> QED BY <1>1, <1>4, <1>6 DEF EmissionInv

LEMMA ReconcileSaleStep ==
  ASSUME EmissionInv, NEW p \in Procs, ReconcileSale(p)
  PROVE  EmissionInv'
<1> DEFINE rec == [loc[p] EXCEPT !.before = bill[Sale(p)], !.ret = "r_reconciled"]
<1>1. /\ pc[p] = "r_sale" /\ UNCHANGED <<db, redis, remote, timers, env>>
      /\ \/ GoWith(p, "r_requeue", loc[p])
         \/ Row(p) # NoInvoice /\ GoWith(p, "fetch", rec)
  BY DEF ReconcileSale
<1>2. Truthful' /\ RowsKept BY <1>1, Quiet
<1>3. StoresOK' BY <1>1 DEF EmissionInv, StoresOK
<1>4. /\ Sale(p) \in Sales /\ Sale(p) = loc[p].sale /\ loc[p] \in Records
      /\ bill[Sale(p)] \in BillingStatuses /\ Row(p) = inv[Sale(p)]
      /\ Fits("r_sale", loc[p], inv[Sale(p)]) /\ Backed(loc[p])
  BY <1>1, Busy
<1>5. CASE GoWith(p, "r_requeue", loc[p])
  <2>1. /\ "r_requeue" \in Labels \ (ApplyLabels \cup WithRow
                                       \cup {"release", "verdict_row", "verdict_bill"})
        /\ "r_sale" \notin ApplyLabels \cup {"idle"}
    BY DEF Labels, ApplyLabels, WithRow
  <2>2. ProcsOK' BY <1>1, <1>2, <1>5, <2>1, GoesKeeping DEF EmissionInv
  <2> QED BY <1>2, <1>3, <2>2 DEF EmissionInv
<1>6. CASE Row(p) # NoInvoice /\ GoWith(p, "fetch", rec)
  <2>1. "r_reconciled" \in Labels /\ "r_reconciled" \in Returns BY DEF Labels, Returns
  <2>2. /\ rec \in Records /\ rec.ret = "r_reconciled" /\ rec.sale = Sale(p)
        /\ rec.src = loc[p].src /\ Backed(rec)
    BY <1>4, <2>1 DEF Records, Backed
  <2> HIDE DEF rec
  <2>3. Fits("fetch", rec, inv'[rec.sale])
    BY <1>1, <1>4, <1>6, <2>1, <2>2 DEF Fits, Labels, ApplyLabels
  <2>4. ProcsOK' BY <1>1, <1>2, <1>6, <2>2, <2>3, Moves DEF EmissionInv
  <2> QED BY <1>2, <1>3, <2>4 DEF EmissionInv
<1> QED BY <1>1, <1>5, <1>6

LEMMA ReconciledStep ==
  ASSUME EmissionInv, NEW p \in Procs, Reconciled(p)
  PROVE  EmissionInv'
<1> DEFINE rec == [loc[p] EXCEPT !.ok = FALSE, !.before = "pending"]
<1>1. /\ pc[p] = "r_reconciled" /\ Sale(p) \in Sales
      /\ UNCHANGED <<db, lock, claim, queue, seen, remote, timers, env>>
      /\ End(p) \/ GoWith(p, "r_requeue", rec)
  BY Busy DEF Reconciled
<1>2. Truthful' /\ RowsKept BY <1>1, Quiet
<1>3. holder' \in [Sales -> Procs \cup {Nil}]
  BY <1>1 DEF EmissionInv, StoresOK, Reconciled
<1>4. StoresOK' BY <1>1, <1>3 DEF EmissionInv, StoresOK
<1>5. loc[p] \in Records /\ Fits("r_reconciled", loc[p], inv[Sale(p)]) /\ Backed(loc[p])
  BY <1>1, Busy
<1>6. rec \in Records /\ rec.ret = loc[p].ret /\ rec.sale = loc[p].sale
      /\ rec.src = loc[p].src /\ Backed(rec)
  BY <1>5 DEF Records, Backed, BillingStatuses
<1> HIDE DEF rec
<1>7. Fits("r_requeue", rec, inv'[rec.sale])
  BY <1>5, <1>6 DEF Fits, Labels, ApplyLabels, WithRow
<1>8. ProcsOK' BY <1>1, <1>2, <1>6, <1>7, Ends, Moves DEF EmissionInv
<1> QED BY <1>2, <1>4, <1>8 DEF EmissionInv

LEMMA ReconcileRequeueStep ==
  ASSUME EmissionInv, NEW p \in Procs, ReconcileRequeue(p)
  PROVE  EmissionInv'
<1>1. Truthful' /\ RowsKept BY Quiet DEF ReconcileRequeue
<1>2. StoresOK' BY DEF EmissionInv, StoresOK, ReconcileRequeue
<1>3. /\ ProcsOK /\ pc[p] = "r_requeue" /\ UNCHANGED accepted
      /\ \E label \in {"acquire", "r_release"} : GoWith(p, label, loc[p])
  BY DEF EmissionInv, ReconcileRequeue
<1>4. /\ {"acquire", "r_release"} \subseteq
           Labels \ (ApplyLabels \cup {"release", "verdict_row", "verdict_bill"} \cup WithRow)
      /\ "r_requeue" \notin ApplyLabels \cup {"idle"}
  BY DEF Labels, ApplyLabels, WithRow
<1>5. ProcsOK' BY <1>1, <1>3, <1>4, GoesKeeping
<1> QED BY <1>1, <1>2, <1>5 DEF EmissionInv

LEMMA ReconcileReleaseStep ==
  ASSUME EmissionInv, NEW p \in Procs, ReconcileRelease(p)
  PROVE  EmissionInv'
<1>1. Truthful' /\ RowsKept BY Quiet DEF ReconcileRelease
<1>2. StoresOK' BY ReleaseStores DEF EmissionInv, StoresOK, ReconcileRelease
<1>3. ProcsOK' BY <1>1, Ends DEF EmissionInv, ReconcileRelease
<1> QED BY <1>1, <1>2, <1>3 DEF EmissionInv

-----------------------------------------------------------------------------
(* Webhooks and the facturador.                                            *)
LEMMA HookReceiveStep ==
  ASSUME EmissionInv, NEW h \in Hooks, HookReceive(h)
  PROVE  EmissionInv'
<1>1. PICK e \in events :
        \/ /\ events' = events \ {e} /\ UNCHANGED <<seen, pc, loc, faultsLeft>>
        \/ /\ seen' = seen \cup {e} /\ UNCHANGED events
           /\ \/ /\ GoWith(h, "apply_read", [Fresh EXCEPT !.sale = e.sale, !.st = e.st, !.n = e.n])
                 /\ UNCHANGED faultsLeft
              \/ Fault("tenant") /\ UNCHANGED <<pc, loc>>
  BY DEF HookReceive
<1>2. UNCHANGED <<db, lock, holder, claim, queue, doc, epoch, accepted, timers, cron, opsLeft>>
  BY DEF HookReceive
<1>3. /\ e \in Messages /\ e.sale \in Sales /\ e.st \in DOMAIN DocCode /\ e.n \in Nat
      /\ e.st \in Good => accepted[e.sale] > 0
  BY DEF EmissionInv, StoresOK, Truthful, Messages
<1>4. Truthful' /\ RowsKept
  <2>1. events' \subseteq events BY <1>1
  <2> QED BY <1>2, <2>1 DEF EmissionInv, StoresOK, Truthful, SaleBacked, RowsKept
<1>5. faultsLeft' \in Nat BY <1>1, FaultLeft DEF EmissionInv, FaultKinds
<1>6. StoresOK' BY <1>1, <1>2, <1>3, <1>5 DEF EmissionInv, StoresOK
<1>7. ProcsOK'
  <2> DEFINE rec == [Fresh EXCEPT !.sale = e.sale, !.st = e.st, !.n = e.n]
  <2>1. CASE UNCHANGED <<pc, loc>> BY <1>2, <2>1, Stays DEF EmissionInv
  <2>2. CASE GoWith(h, "apply_read", rec)
    <3>1. h \in Procs BY DEF Procs
    <3>2. e.st \in Readable /\ e.st # "evidence" BY <1>3, CodesAndVerdicts DEF Readable
    <3>3. /\ rec \in Records /\ rec.sale = e.sale /\ rec.st = e.st /\ rec.ret = "idle"
          /\ rec.snap = NoInvoice /\ rec.src \notin Sources
      BY <1>3, <3>2, RowTypes DEF Fresh, Records, Labels, BillingStatuses, Sources,
                                  EnqueueOps, SendOps
    <3> HIDE DEF rec
    <3>4. Backed(rec) BY <1>3, <3>2, <3>3, RowTypes DEF Backed
    <3>5. Fits("apply_read", rec, inv'[rec.sale])
      BY <1>3, <3>3 DEF Fits, Labels, ApplyLabels, WithRow, Returns, Exits
    <3> QED BY <1>2, <1>4, <2>2, <3>1, <3>4, <3>5, Moves DEF EmissionInv
  <2> QED BY <1>1, <2>1, <2>2
<1> QED BY <1>4, <1>6, <1>7 DEF EmissionInv

LEMMA HookDropStep ==
  ASSUME EmissionInv, NEW e \in events, HookDrop(e)
  PROVE  EmissionInv'
<1>1. faultsLeft' \in Nat BY FaultLeft DEF EmissionInv, HookDrop, FaultKinds
<1>2. events' \subseteq events
      /\ UNCHANGED <<db, redis, doc, epoch, accepted, timers, pc, loc, cron, opsLeft>>
  BY DEF HookDrop
<1>3. Truthful' BY <1>2 DEF EmissionInv, Truthful, SaleBacked
<1>4. StoresOK' BY <1>1, <1>2 DEF EmissionInv, StoresOK
<1>5. ProcsOK' BY <1>2, Stays DEF EmissionInv
<1> QED BY <1>3, <1>4, <1>5 DEF EmissionInv

(* The only step that changes what was accepted: it only adds.             *)
LEMMA DocStepStep ==
  ASSUME EmissionInv, NEW s \in Sales, DocStep(s)
  PROVE  EmissionInv'
<1>1. PICK st \in DocNext(doc[s]) \cap Outcomes :
        /\ doc' = [doc EXCEPT ![s] = st]
        /\ accepted' = IF st \in {"accepted", "observed"}
                         THEN [accepted EXCEPT ![s] = epoch[s]] ELSE accepted
        /\ events' = IF st \in Notified
                       THEN events \cup ({[sale |-> s, st |-> st, n |-> epoch[s]]} \ seen)
                       ELSE events
        /\ UNCHANGED <<db, redis, epoch, timers, pc, loc, env>>
  BY DEF DocStep
<1>2. doc[s] # "none" /\ epoch[s] \in Nat /\ epoch[s] > 0
  <2>1. SaleBacked(s) /\ epoch[s] \in Nat BY DEF EmissionInv, Truthful, StoresOK
  <2>2. doc[s] # "none" BY <1>1 DEF DocNext
  <2> QED BY <2>1, <2>2 DEF SaleBacked
<1>3. st \in DOMAIN DocCode BY <1>1, CodesAndVerdicts DEF DocNext
<1>4. /\ accepted' \in [Sales -> Nat]
      /\ \A t \in Sales : accepted[t] > 0 => accepted'[t] > 0
      /\ st \in Good => accepted'[s] > 0
  BY <1>1, <1>2 DEF EmissionInv, StoresOK, Good
<1>5. /\ doc' \in [Sales -> DOMAIN DocCode]
      /\ \A t \in Sales : doc'[t] = IF t = s THEN st ELSE doc[t]
  BY <1>1, <1>3 DEF EmissionInv, StoresOK
<1>6. events' \in SUBSET Messages
      /\ \A e \in events' : e \in events \/ (e.sale = s /\ e.st = st)
  BY <1>1, <1>2, <1>3 DEF EmissionInv, StoresOK, Messages
<1>7. Truthful'
  <2>1. ASSUME NEW t \in Sales PROVE SaleBacked(t)'
    <3>1. SaleBacked(t) BY DEF EmissionInv, Truthful
    <3>2. UNCHANGED <<bill, inv, epoch>> BY <1>1
    <3> QED BY <1>2, <1>4, <1>5, <3>1, <3>2 DEF SaleBacked
  <2>2. ASSUME NEW e \in events', e.st \in Good PROVE accepted'[e.sale] > 0
    <3>1. e.sale \in Sales BY <1>6 DEF Messages
    <3> QED BY <1>4, <1>6, <2>2, <3>1 DEF EmissionInv, Truthful
  <2> QED BY <2>1, <2>2 DEF Truthful
<1>8. StoresOK' BY <1>1, <1>4, <1>5, <1>6 DEF EmissionInv, StoresOK
<1>9. ProcsOK'
  <2>1. ASSUME NEW p \in Procs PROVE Backed(loc[p])'
    <3>1. CASE pc[p] = "idle"
      <4>1. loc[p] = Fresh BY <3>1, WhereItIs DEF EmissionInv, Fits
      <4> QED BY <1>1, <4>1, RowTypes DEF Fresh, Backed, Good
    <3>2. CASE pc[p] # "idle"
      <4>1. Backed(loc[p]) /\ loc[p].sale \in Sales BY <3>2, Busy
      <4>2. UNCHANGED loc BY <1>1
      <4> QED BY <1>4, <4>1, <4>2 DEF Backed
    <3> QED BY <3>1, <3>2
  <2> QED BY <1>1, <2>1 DEF EmissionInv, ProcsOK, Sale
<1> QED BY <1>7, <1>8, <1>9 DEF EmissionInv

LEMMA LockExpireStep ==
  ASSUME EmissionInv, NEW s \in Sales, LockExpire(s)
  PROVE  EmissionInv'
<1>1. Truthful' BY Quiet DEF LockExpire
<1>2. faultsLeft' \in Nat BY FaultLeft DEF EmissionInv, LockExpire, FaultKinds
<1>3. StoresOK' BY <1>2 DEF EmissionInv, StoresOK, LockExpire
<1>4. ProcsOK' BY Stays DEF EmissionInv, LockExpire
<1> QED BY <1>1, <1>3, <1>4 DEF EmissionInv

LEMMA CrashStep ==
  ASSUME EmissionInv, Crash
  PROVE  EmissionInv'
<1>1. Truthful' BY Quiet DEF Crash
<1>2. faultsLeft' \in Nat BY FaultLeft DEF EmissionInv, Crash, FaultKinds
<1>3. StoresOK' BY <1>2 DEF EmissionInv, StoresOK, Crash
<1>4. pc' = [p \in Procs |-> "idle"] /\ loc' = [p \in Procs |-> Fresh] /\ UNCHANGED accepted
  BY DEF Crash
<1>5. "idle" \in Labels /\ Fresh \in Records BY FreshFits DEF Fits
<1>6. \A p \in Procs : (Fits(pc[p], loc[p], inv[Sale(p)]) /\ Backed(loc[p]))'
  BY <1>4, FreshFits DEF Backed, Sale
<1>7. ProcsOK' BY <1>4, <1>5, <1>6 DEF ProcsOK
<1> QED BY <1>1, <1>3, <1>7 DEF EmissionInv

LEMMA StartOpStep ==
  ASSUME EmissionInv, NEW r \in Requests, StartOp(r)
  PROVE  EmissionInv'
<1>1. Truthful' /\ RowsKept /\ UNCHANGED accepted BY Quiet DEF StartOp
<1>2. StoresOK' BY DEF EmissionInv, StoresOK, StartOp
<1>3. PICK op \in Ops[r], s \in Sales :
        LET rec == [Fresh EXCEPT !.sale = s, !.src = op] IN
        \/ GoWith(r, "resync", [rec EXCEPT !.ret = "presynced"])
        \/ GoWith(r, "acquire", rec)
  BY DEF StartOp
<1>4. op \in Sources /\ r \in Procs BY EmissionAssumption DEF Sources, Procs
<1> DEFINE rec == [Fresh EXCEPT !.sale = s, !.src = op]
           syn == [rec EXCEPT !.ret = "presynced"]
<1>5. /\ rec \in Records /\ rec.sale = s /\ rec.src = op /\ rec.ret = "idle" /\ Backed(rec)
      /\ Fits("acquire", rec, inv'[s])
  BY <1>4, Begins, BeginsFit
<1>6. GoWith(r, "resync", syn) \/ GoWith(r, "acquire", rec)
  BY <1>3
<1> HIDE DEF rec
<1>7. CASE GoWith(r, "acquire", rec)
  <2>1. ProcsOK' BY <1>1, <1>4, <1>5, <1>7, Moves DEF EmissionInv
  <2> QED BY <1>1, <1>2, <2>1 DEF EmissionInv
<1>8. CASE GoWith(r, "resync", syn)
  <2>1. {"resync", "presynced"} \subseteq Labels /\ "presynced" \in Returns
    BY DEF Labels, Returns
  <2>2. syn \in Records /\ syn.ret = "presynced" /\ syn.sale = s /\ syn.src = op /\ Backed(syn)
    BY <1>5, <2>1, ReturnTo
  <2> HIDE DEF syn
  <2>3. Fits("resync", syn, inv'[syn.sale])
    BY <1>4, <2>1, <2>2 DEF Fits, WithRow, ApplyLabels
  <2>4. ProcsOK' BY <1>1, <1>4, <1>8, <2>2, <2>3, Moves DEF EmissionInv
  <2> QED BY <1>1, <1>2, <2>4 DEF EmissionInv
<1> QED BY <1>6, <1>7, <1>8

-----------------------------------------------------------------------------
(* The invariant, for every behaviour.                                     *)
LEMMA InitInv == Init => EmissionInv
<1> SUFFICES ASSUME Init PROVE EmissionInv OBVIOUS
<1>1. DraftRow \in Invoice /\ ~Shows(DraftRow)
  BY DEF DraftRow, NoInvoice, Invoice, Stages, JobStatuses, SunatStatuses, Shows
<1>2. /\ inv \in [Sales -> Rows] /\ \A s \in Sales : ~Shows(inv[s])
  BY <1>1, RowTypes DEF Init
<1>3. StoresOK
  <2>1. "none" \in DOMAIN DocCode /\ "pending" \in BillingStatuses
    BY CodesAndVerdicts DEF BillingStatuses
  <2>2. MaxOps \in Nat /\ MaxFaults \in Nat BY EmissionAssumption
  <2> QED BY <1>2, <2>1, <2>2 DEF Init, StoresOK
<1>4. Truthful BY <1>2 DEF Init, Truthful, SaleBacked, Good
<1>5. ProcsOK
  <2>1. "idle" \in Labels /\ Fresh \in Records BY FreshFits DEF Fits
  <2>2. \A p \in Procs : pc[p] = "idle" /\ loc[p] = Fresh BY DEF Init
  <2> QED BY <2>1, <2>2, FreshFits DEF Init, ProcsOK
<1> QED BY <1>3, <1>4, <1>5 DEF EmissionInv

LEMMA ContinueStep ==
  ASSUME EmissionInv, NEW p \in Procs, Continue(p)
  PROVE  EmissionInv'
<1>1. CASE Guarded(p)
  BY <1>1, AcquireStep, ClassifyStep, ReleaseStep, PresyncedStep, ResyncStep DEF Guarded
<1>2. CASE Applying(p)
  BY <1>2, FetchStep, ApplyReadStep, ApplySaveStep, ApplyBillStep DEF Applying
<1>3. CASE Queueing(p)
  BY <1>3, ClaimStep, EnqueueRowStep, PushStep, EnqueueBillStep DEF Queueing
<1>4. CASE Emitting(p)
  BY <1>4, CheckStep, ProcessingStep, EmitStep, FailRowStep, FailBillStep, PersistReadStep,
     PersistWriteStep, PersistRereadStep, PersistBillStep, VerdictStep, VerdictRowStep,
     VerdictBillStep, SentStep, WaitStep, WaitedStep DEF Emitting
<1>5. CASE Reconciling(p)
  BY <1>5, ReconcileAcquireStep, ReconcileSaleStep, ReconciledStep, ReconcileRequeueStep,
     ReconcileReleaseStep DEF Reconciling
<1> QED BY <1>1, <1>2, <1>3, <1>4, <1>5 DEF Continue

LEMMA StepInv == EmissionInv /\ [Next]_vars => EmissionInv'
<1> SUFFICES ASSUME EmissionInv, [Next]_vars PROVE EmissionInv' OBVIOUS
<1>1. CASE \E p \in Procs : Continue(p) BY <1>1, ContinueStep
<1>2. CASE \E r \in Requests : StartOp(r) BY <1>2, StartOpStep
<1>3. CASE \E w \in Workers : WorkerPop(w) BY <1>3, WorkerPopStep
<1>4. CASE \E h \in Hooks : HookReceive(h) BY <1>4, HookReceiveStep
<1>5. CASE \E e \in events : HookDrop(e) BY <1>5, HookDropStep
<1>6. CASE \E s \in Sales : \/ TimerFire(s) \/ ClaimExpire(s) \/ LockExpire(s)
                            \/ ReconcileVisit(s) \/ DocStep(s)
  BY <1>6, TimerStep, ClaimExpireStep, LockExpireStep, ReconcileVisitStep, DocStepStep
<1>7. CASE ReconcileSelect \/ Tick \/ Crash BY <1>7, ReconcileSelectStep, TickStep, CrashStep
<1>8. CASE UNCHANGED vars
  <2>1. Truthful' BY <1>8, Quiet
  <2>2. StoresOK' BY <1>8 DEF EmissionInv, StoresOK
  <2>3. ProcsOK' BY <1>8, Stays DEF EmissionInv
  <2> QED BY <2>1, <2>2, <2>3 DEF EmissionInv
<1> QED BY <1>1, <1>2, <1>3, <1>4, <1>5, <1>6, <1>7, <1>8 DEF Next

(* What every process, row, webhook and status says of an acceptance is    *)
(* true, in every reachable state, with or without the lock.               *)
THEOREM EmissionInvariant == Spec => []EmissionInv
BY InitInv, StepInv, PTL DEF Spec

(* Types: the rows, the lock, the queue, the facturador and the place of   *)
(* every process are what the code can write; an idle process keeps nothing *)
(* of its last operation.                                                  *)
THEOREM TypeCorrect == Spec => []TypeOK
<1>1. EmissionInv => TypeOK
  <2> SUFFICES ASSUME EmissionInv PROVE TypeOK OBVIOUS
  <2>1. \A p \in Procs : /\ loc[p].sale \in Sales \cup {Nil}
                         /\ pc[p] = "idle" <=> loc[p] = Fresh
    <3> TAKE p \in Procs
    <3>1. loc[p] \in Records /\ (pc[p] = "idle" => loc[p] = Fresh)
      BY WhereItIs DEF EmissionInv, Fits
    <3>2. loc[p].sale \in Sales \cup {Nil} BY <3>1 DEF Records
    <3>3. pc[p] # "idle" => loc[p].sale \in Sales BY Busy
    <3>4. Fresh.sale = Nil /\ Nil \notin Sales BY EmissionAssumption DEF Fresh
    <3> QED BY <3>1, <3>2, <3>3, <3>4
  <2>2. events \cup seen \subseteq [sale : Sales, st : DOMAIN DocCode, n : Nat]
    BY DEF EmissionInv, StoresOK, Messages
  <2> QED BY <2>1, <2>2 DEF EmissionInv, StoresOK, ProcsOK, TypeOK, Rows
<1> QED BY <1>1, EmissionInvariant, PTL

(* A sale the tenant sees as accepted, or whose row says it is safe to     *)
(* print, was accepted by SUNAT ("Solo exito con evidencia SUNAT real",    *)
(* ProcessSendToSUNAT), whatever crossed on the way.                       *)
THEOREM AcceptanceIsReal == Spec => []AcceptedHasEvidence
<1>1. EmissionInv => AcceptedHasEvidence
  <2> SUFFICES ASSUME EmissionInv, NEW s \in Sales,
                      \/ EffectiveBillingStatus(bill[s], inv[s]) = "accepted"
                      \/ HasAcceptanceEvidence(inv[s])
               PROVE  accepted[s] > 0
    BY DEF AcceptedHasEvidence
  <2>1. SaleBacked(s) /\ bill[s] \in BillingStatuses
    BY DEF EmissionInv, Truthful, StoresOK
  <2>2. CASE HasAcceptanceEvidence(inv[s])
    BY <2>1, <2>2 DEF HasAcceptanceEvidence, SaleBacked, Shows
  <2>3. CASE EffectiveBillingStatus(bill[s], inv[s]) = "accepted"
    <3>1. bill[s] = "accepted" \/ billingStatusFromInvoice(inv[s]) = "accepted"
      BY <2>3 DEF EffectiveBillingStatus
    <3> QED BY <2>1, <3>1, RowShows DEF SaleBacked
  <2> QED BY <2>2, <2>3
<1> QED BY <1>1, EmissionInvariant, PTL

-----------------------------------------------------------------------------
(* The lock.  While the operations in play come from different sources and *)
(* the TTL does not run out under one of them, the lock excludes; as long  *)
(* as no process dies, every operation but the reconciler's removes it.    *)

(* The sources under which a process may take the lock.                    *)
SourcesOf(p) ==
  (IF p \in Requests THEN Ops[p] ELSE {})
    \cup (IF p \in Workers THEN {"fiscal_queue"} ELSE {})
    \cup (IF p = Reconciler THEN {"reconcile"} ELSE {})

SourcesApart == \A p, q \in Procs : p # q => SourcesOf(p) \cap SourcesOf(q) = {}

(* Between the lock taken by PrepareFiscalOperation and its release.       *)
Holding(label, rec) ==
  \/ label \in Sending \cup {"classify"}
  \/ label \in {"fetch"} \cup ApplyLabels /\ rec.ret \in {"classify", "sent"}

Sourced ==
  \A p \in Procs : /\ loc[p].src \in SourcesOf(p) \cup {"none"}
                   /\ pc[p] = "r_acquire" => loc[p].src = "reconcile"

Held ==
  \A p \in Procs : Holding(pc[p], loc[p]) =>
                     holder[Sale(p)] = p /\ lock[Sale(p)] = loc[p].src

Owned ==
  \A s \in Sales : lock[s] \notin {"free", "reconcile"} =>
    \E p \in Procs : /\ holder[s] = p /\ Sale(p) = s /\ loc[p].src = lock[s]
                     /\ Holding(pc[p], loc[p]) \/ pc[p] = "release"

(* p alone takes the step; what it is at and its memory follow.            *)
Alone(p) == \A q \in Procs \ {p} : pc'[q] = pc[q] /\ loc'[q] = loc[q]

SameWork(p) == loc'[p].sale = loc[p].sale /\ loc'[p].src = loc[p].src

LEMMA HookSources ==
  ASSUME EmissionInv, Sourced, NEW p \in Procs, Holding(pc[p], loc[p])
  PROVE  p \notin Hooks /\ loc[p].src \in Sources /\ Sale(p) \in Sales /\ pc[p] # "idle"
<1>1. pc[p] # "idle" BY DEF Holding, Sending, ApplyLabels
<1>2. Fits(pc[p], loc[p], inv[Sale(p)]) /\ Sale(p) \in Sales BY <1>1, Busy DEF Row
<1>3. loc[p].src \in Sources
  BY <1>1, <1>2 DEF Holding, Sending, ApplyLabels, Fits
<1>4. "none" \notin Sources BY DEF Sources, EnqueueOps, SendOps
<1>5. p \in Hooks => SourcesOf(p) = {} BY EmissionAssumption DEF SourcesOf
<1> QED BY <1>1, <1>2, <1>3, <1>4, <1>5 DEF Sourced

LEMMA Free == "free" \notin Sources
BY DEF Sources, EnqueueOps, SendOps

(* A step that leaves the lock as it is.                                   *)
CarriesOn(p) ==
  /\ Alone(p) /\ UNCHANGED <<lock, holder>>
  /\ Holding(pc'[p], loc'[p]) => Holding(pc[p], loc[p]) /\ SameWork(p)
  /\ Holding(pc[p], loc[p]) => SameWork(p) /\ (Holding(pc'[p], loc'[p]) \/ pc'[p] = "release")
  /\ pc[p] # "release"

LEMMA CarriesHeld ==
  ASSUME Held, NEW p \in Procs, CarriesOn(p)
  PROVE  Held'
BY DEF Held, CarriesOn, Alone, Sale, SameWork

LEMMA CarriesOwned ==
  ASSUME Owned, NEW p \in Procs, CarriesOn(p)
  PROVE  Owned'
<1> SUFFICES ASSUME NEW s \in Sales, (lock[s] \notin {"free", "reconcile"})'
             PROVE  (\E q \in Procs : /\ holder[s] = q /\ Sale(q) = s /\ loc[q].src = lock[s]
                                      /\ Holding(pc[q], loc[q]) \/ pc[q] = "release")'
  BY DEF Owned
<1>1. PICK q \in Procs : /\ holder[s] = q /\ Sale(q) = s /\ loc[q].src = lock[s]
                         /\ Holding(pc[q], loc[q]) \/ pc[q] = "release"
  BY DEF Owned, CarriesOn
<1>2. CASE q = p BY <1>1, <1>2 DEF CarriesOn, Sale, SameWork
<1>3. CASE q # p BY <1>1, <1>3 DEF CarriesOn, Alone, Sale
<1> QED BY <1>2, <1>3

(* A step that takes it when it is free.                                   *)
Takes(p) ==
  /\ Alone(p) /\ lock[Sale(p)] = "free" /\ TryAcquire(p) /\ SameWork(p)
  /\ loc[p].src = "reconcile" \/ Holding(pc'[p], loc'[p])

LEMMA TakesHeld ==
  ASSUME EmissionInv, Sourced, Held, NEW p \in Procs, Sale(p) \in Sales, Takes(p)
  PROVE  Held'
<1> SUFFICES ASSUME NEW q \in Procs, Holding(pc'[q], loc'[q])
             PROVE  (holder[Sale(q)] = q /\ lock[Sale(q)] = loc[q].src)'
  BY DEF Held
<1>1. /\ lock \in [Sales -> Sources \cup {"free"}] /\ holder \in [Sales -> Procs \cup {Nil}]
      /\ lock' = [lock EXCEPT ![Sale(p)] = loc[p].src]
      /\ holder' = [holder EXCEPT ![Sale(p)] = p]
  BY DEF EmissionInv, StoresOK, Takes, TryAcquire
<1>2. CASE q = p BY <1>1, <1>2 DEF Takes, SameWork, Sale
<1>3. CASE q # p
  <2>1. pc'[q] = pc[q] /\ loc'[q] = loc[q] BY <1>3 DEF Takes, Alone
  <2>2. holder[Sale(q)] = q /\ lock[Sale(q)] = loc[q].src /\ loc[q].src # "free"
    BY <2>1, HookSources, Free DEF Held
  <2>3. Sale(q) # Sale(p) BY <2>2 DEF Takes
  <2> QED BY <1>1, <2>1, <2>2, <2>3 DEF Sale
<1> QED BY <1>2, <1>3

LEMMA TakesOwned ==
  ASSUME EmissionInv, Owned, NEW p \in Procs, Sale(p) \in Sales, Takes(p)
  PROVE  Owned'
<1> SUFFICES ASSUME NEW s \in Sales, (lock[s] \notin {"free", "reconcile"})'
             PROVE  (\E q \in Procs : /\ holder[s] = q /\ Sale(q) = s /\ loc[q].src = lock[s]
                                      /\ Holding(pc[q], loc[q]) \/ pc[q] = "release")'
  BY DEF Owned
<1>1. /\ lock \in [Sales -> Sources \cup {"free"}] /\ holder \in [Sales -> Procs \cup {Nil}]
      /\ lock' = [lock EXCEPT ![Sale(p)] = loc[p].src]
      /\ holder' = [holder EXCEPT ![Sale(p)] = p]
  BY DEF EmissionInv, StoresOK, Takes, TryAcquire
<1>2. CASE s = Sale(p) BY <1>1, <1>2 DEF Takes, SameWork, Sale
<1>3. CASE s # Sale(p)
  <2>1. lock'[s] = lock[s] /\ holder'[s] = holder[s] BY <1>1, <1>3
  <2>2. PICK q \in Procs : /\ holder[s] = q /\ Sale(q) = s /\ loc[q].src = lock[s]
                           /\ Holding(pc[q], loc[q]) \/ pc[q] = "release"
    BY <2>1 DEF Owned
  <2>3. q # p BY <1>3, <2>2
  <2> QED BY <2>1, <2>2, <2>3 DEF Takes, Alone, Sale
<1> QED BY <1>2, <1>3

(* A step that releases it, if it is that of its source.                   *)
Frees(p) ==
  /\ Alone(p) /\ Release(p) /\ ~Holding(pc[p], loc[p]) /\ ~Holding(pc'[p], loc'[p])

LEMMA FreesHeld ==
  ASSUME SourcesApart, EmissionInv, Sourced, Held, NEW p \in Procs, Sale(p) \in Sales, Frees(p)
  PROVE  Held'
<1> SUFFICES ASSUME NEW q \in Procs, Holding(pc'[q], loc'[q])
             PROVE  (holder[Sale(q)] = q /\ lock[Sale(q)] = loc[q].src)'
  BY DEF Held
<1>1. q # p /\ pc'[q] = pc[q] /\ loc'[q] = loc[q] BY DEF Frees, Alone
<1>2. /\ holder[Sale(q)] = q /\ lock[Sale(q)] = loc[q].src
      /\ loc[q].src \in Sources /\ Sale(q) \in Sales
  BY <1>1, HookSources DEF Held
<1>3. loc[q].src \in SourcesOf(q) /\ loc[p].src # loc[q].src
  <2>1. "none" \notin Sources BY DEF Sources, EnqueueOps, SendOps
  <2>2. loc[q].src \in SourcesOf(q) BY <1>2, <2>1 DEF Sourced
  <2>3. loc[p].src \in SourcesOf(p) \cup {"none"} BY DEF Sourced
  <2> QED BY <1>1, <1>2, <2>1, <2>2, <2>3 DEF SourcesApart
<1>4. /\ lock \in [Sales -> Sources \cup {"free"}] /\ holder \in [Sales -> Procs \cup {Nil}]
      /\ \/ UNCHANGED <<lock, holder>>
         \/ /\ lock[Sale(p)] = loc[p].src
            /\ lock' = [lock EXCEPT ![Sale(p)] = "free"]
            /\ holder' = [holder EXCEPT ![Sale(p)] = Nil]
  BY DEF EmissionInv, StoresOK, Frees, Release
<1> QED BY <1>1, <1>2, <1>3, <1>4 DEF Sale

LEMMA FreesOwned ==
  ASSUME EmissionInv, Owned, NEW p \in Procs, Sale(p) \in Sales, Frees(p)
  PROVE  Owned'
<1> SUFFICES ASSUME NEW s \in Sales, (lock[s] \notin {"free", "reconcile"})'
             PROVE  (\E q \in Procs : /\ holder[s] = q /\ Sale(q) = s /\ loc[q].src = lock[s]
                                      /\ Holding(pc[q], loc[q]) \/ pc[q] = "release")'
  BY DEF Owned
<1>1. /\ lock \in [Sales -> Sources \cup {"free"}] /\ holder \in [Sales -> Procs \cup {Nil}]
      /\ \/ lock[Sale(p)] # loc[p].src /\ UNCHANGED <<lock, holder>>
         \/ /\ lock' = [lock EXCEPT ![Sale(p)] = "free"]
            /\ holder' = [holder EXCEPT ![Sale(p)] = Nil]
  BY DEF EmissionInv, StoresOK, Frees, Release
<1>2. lock'[s] = lock[s] /\ holder'[s] = holder[s] BY <1>1
<1>3. PICK q \in Procs : /\ holder[s] = q /\ Sale(q) = s /\ loc[q].src = lock[s]
                         /\ Holding(pc[q], loc[q]) \/ pc[q] = "release"
  BY <1>2 DEF Owned
<1>4. q # p
  <2>1. SUFFICES ASSUME q = p PROVE FALSE OBVIOUS
  <2>2. lock[Sale(p)] = loc[p].src BY <1>3, <2>1
  <2>3. lock'[s] = "free" BY <1>1, <1>3, <2>1, <2>2
  <2> QED BY <2>3
<1> QED BY <1>2, <1>3, <1>4 DEF Frees, Alone, Sale

(* Where each step of a process leads, as far as the lock is concerned.    *)
Tracks(p) ==
  Alone(p) /\ (SameWork(p) \/ loc'[p] = Fresh) /\ pc'[p] # "r_acquire"

(* An operation goes on with its work.                                     *)
Continues(p, label) == Alone(p) /\ SameWork(p) /\ pc'[p] = label

LEMMA Going ==
  ASSUME EmissionInv, NEW p \in Procs, NEW label, NEW rec, GoWith(p, label, rec)
  PROVE  /\ Alone(p) /\ pc'[p] = label
         /\ loc'[p] = IF label = "idle" THEN Fresh ELSE rec
BY DEF EmissionInv, ProcsOK, GoWith, Go, Alone

LEMMA GoingOn ==
  ASSUME EmissionInv, NEW p \in Procs, NEW label, GoWith(p, label, loc[p]), label # "idle"
  PROVE  Continues(p, label) /\ loc'[p] = loc[p]
BY Going DEF Continues, SameWork

LEMMA GoingBy ==
  ASSUME EmissionInv, NEW p \in Procs, NEW label, Go(p, label), UNCHANGED loc
  PROVE  Continues(p, label) /\ loc'[p] = loc[p]
BY DEF EmissionInv, ProcsOK, Go, Alone, Continues, SameWork

LEMMA GoingTo ==
  ASSUME EmissionInv, NEW p \in Procs, NEW label, NEW ret,
         GoWith(p, label, [loc[p] EXCEPT !.ret = ret]), label # "idle"
  PROVE  Continues(p, label) /\ loc'[p].ret = ret
<1>1. loc[p] \in Records BY DEF EmissionInv, ProcsOK
<1> DEFINE rec == [loc[p] EXCEPT !.ret = ret]
<1>2. rec.sale = loc[p].sale /\ rec.src = loc[p].src /\ rec.ret = ret BY <1>1 DEF Records
<1>3. GoWith(p, label, rec) OBVIOUS
<1> HIDE DEF rec
<1> QED BY <1>2, <1>3, Going DEF Continues, SameWork

(* Under the lock, up to its release.                                      *)
Ahead(p) ==
  \/ \E label \in Sending \cup {"release"} : Continues(p, label)
  \/ Continues(p, "fetch") /\ loc'[p].ret = "sent"

LEMMA SendingLabels ==
  /\ Sending \cup {"classify"} \subseteq Labels
  /\ {"check", "processing", "emit", "fail_row", "fail_bill", "persist_write", "persist_reread",
      "persist_read", "persist_sale", "persist_bill", "verdict", "verdict_row",
      "verdict_bill", "sent"} = Sending
  /\ {"idle", "release", "r_acquire", "fetch"} \cap (Sending \cup {"classify"}) = {}
BY DEF Sending, Labels

LEMMA AheadClassify ==
  ASSUME EmissionInv, NEW p \in Procs, Classify(p)
  PROVE  Ahead(p) /\ pc[p] \in Sending \cup {"classify"} /\ UNCHANGED <<lock, holder>>
<1>1. \/ \E to \in {"resync", Rest(p), "claim"} : GoWith(p, "release", [loc[p] EXCEPT !.ret = to])
      \/ \E label \in {"emit", "check"} : GoWith(p, label, [loc[p] EXCEPT !.ret = "idle"])
  BY DEF Classify
<1> QED BY <1>1, GoingOn, GoingBy, GoingTo, SendingLabels DEF Ahead, Classify

LEMMA AheadPersisted ==
  ASSUME EmissionInv, NEW p \in Procs, Persisted(p)
  PROVE  Ahead(p)
BY GoingOn, GoingBy, GoingTo, SendingLabels DEF Persisted, Ahead

LEMMA AheadSending ==
  ASSUME EmissionInv, NEW p \in Procs,
         \/ Check(p) \/ Processing(p) \/ Emit(p) \/ FailRow(p) \/ FailBill(p)
         \/ PersistRead(p) \/ PersistWrite(p) \/ PersistReread(p)
         \/ PersistSale(p) \/ PersistBill(p)
  PROVE  Ahead(p) /\ pc[p] \in Sending /\ UNCHANGED <<lock, holder>>
<1>1. CASE Check(p) BY <1>1, GoingOn, GoingBy, GoingTo, SendingLabels DEF Check, Ahead
<1>2. CASE Processing(p) BY <1>2, GoingOn, GoingBy, GoingTo, SendingLabels DEF Processing, Ahead
<1>3. CASE Emit(p)
  <2>1. \/ Go(p, "persist_read") /\ UNCHANGED loc
        \/ GoWith(p, "fail_row", loc[p])
        \/ GoWith(p, "release", [loc[p] EXCEPT !.ret = "idle"])
    BY <1>3 DEF Emit
  <2>2. pc[p] = "emit" /\ UNCHANGED <<lock, holder>> BY <1>3 DEF Emit
  <2> QED BY <2>1, <2>2, GoingOn, GoingBy, GoingTo, SendingLabels DEF Ahead
<1>4. CASE FailRow(p) BY <1>4, GoingOn, GoingBy, GoingTo, SendingLabels DEF FailRow, Ahead
<1>5. CASE FailBill(p) BY <1>5, GoingOn, GoingBy, GoingTo, SendingLabels DEF FailBill, Ahead
<1>6. CASE PersistRead(p)
  <2>1. Persisted(p) \/ GoWith(p, "persist_write", loc[p]) BY <1>6 DEF PersistRead
  <2>2. pc[p] = "persist_read" /\ UNCHANGED <<lock, holder>> BY <1>6 DEF PersistRead
  <2> QED BY <2>1, <2>2, AheadPersisted, GoingOn, GoingBy, GoingTo, SendingLabels DEF Ahead
<1>7. CASE PersistWrite(p) BY <1>7, GoingOn, GoingBy, GoingTo, SendingLabels DEF PersistWrite, Ahead
<1>8. CASE PersistReread(p)
  BY <1>8, AheadPersisted, GoingOn, GoingBy, GoingTo, SendingLabels DEF PersistReread, Ahead
<1>9. CASE PersistSale(p)
  BY <1>9, AheadPersisted, GoingOn, GoingBy, GoingTo, SendingLabels DEF PersistSale, Ahead
<1>10. CASE PersistBill(p) BY <1>10, AheadPersisted, SendingLabels DEF PersistBill
<1> QED BY <1>1, <1>2, <1>3, <1>4, <1>5, <1>6, <1>7, <1>8, <1>9, <1>10

LEMMA AheadVerdict ==
  ASSUME EmissionInv, NEW p \in Procs,
         Verdict(p) \/ VerdictRow(p) \/ VerdictBill(p) \/ Sent(p)
  PROVE  Ahead(p) /\ pc[p] \in Sending /\ UNCHANGED <<lock, holder>>
<1>1. pc \in [Procs -> Labels] /\ loc \in [Procs -> Records] /\ loc[p] \in Records
  BY DEF EmissionInv, ProcsOK
<1>2. CASE Verdict(p)
  <2>1. \/ GoWith(p, "release", [loc[p] EXCEPT !.ret = "wait"])
        \/ GoWith(p, "fetch", [loc[p] EXCEPT !.ret = "sent"])
        \/ GoWith(p, "verdict_row", [loc[p] EXCEPT !.st = VerdictOf(Row(p))])
    BY <1>2 DEF Verdict
  <2>2. GoWith(p, "verdict_row", [loc[p] EXCEPT !.st = VerdictOf(Row(p))])
          => Continues(p, "verdict_row")
    BY <1>1 DEF GoWith, Go, Continues, Alone, SameWork, Records
  <2>3. pc[p] = "verdict" /\ UNCHANGED <<lock, holder>> BY <1>2 DEF Verdict
  <2> QED BY <2>1, <2>2, <2>3, GoingOn, GoingBy, GoingTo, SendingLabels DEF Ahead
<1>3. CASE VerdictRow(p) BY <1>3, GoingOn, GoingBy, GoingTo, SendingLabels DEF VerdictRow, Ahead
<1>4. CASE VerdictBill(p)
  <2>1. Continues(p, "release")
    BY <1>1, <1>4 DEF VerdictBill, GoWith, Go, Continues, Alone, SameWork, Records
  <2> QED BY <1>4, <2>1, SendingLabels DEF VerdictBill, Ahead
<1>5. CASE Sent(p)
  <2>1. Continues(p, "release")
    BY <1>1, <1>5 DEF Sent, GoWith, Go, Continues, Alone, SameWork, Records
  <2> QED BY <1>5, <2>1, SendingLabels DEF Sent, Ahead
<1> QED BY <1>2, <1>3, <1>4, <1>5

LEMMA WithinLock ==
  ASSUME NEW p \in Procs, Ahead(p), pc[p] \in Sending \cup {"classify"},
         UNCHANGED <<lock, holder>>
  PROVE  CarriesOn(p) /\ Tracks(p)
<1>1. Holding(pc[p], loc[p]) BY DEF Holding
<1>2. Alone(p) /\ SameWork(p) /\ pc'[p] # "r_acquire"
      /\ (Holding(pc'[p], loc'[p]) \/ pc'[p] = "release")
  BY SendingLabels DEF Ahead, Continues, Holding
<1> QED BY <1>1, <1>2, SendingLabels DEF CarriesOn, Tracks

(* Without the lock.                                                       *)
AwayLabels ==
  {"idle", "acquire", "presynced", "resync", "claim", "enqueue_row", "push", "enqueue_bill",
   "wait", "waited", "r_sale", "r_reconciled", "r_requeue", "r_release"}

Away(p) ==
  /\ Alone(p) /\ (SameWork(p) \/ loc'[p] = Fresh)
  /\ pc'[p] # "r_acquire" /\ ~Holding(pc'[p], loc'[p])

LEMMA AwayIs ==
  ASSUME NEW label \in AwayLabels, NEW rec
  PROVE  ~Holding(label, rec) /\ label \notin {"release", "r_acquire"}
BY DEF AwayLabels, Holding, Sending, ApplyLabels

LEMMA AwayTo ==
  ASSUME EmissionInv, NEW p \in Procs, NEW label \in AwayLabels, NEW rec,
         (rec.sale = loc[p].sale /\ rec.src = loc[p].src) \/ label = "idle",
         GoWith(p, label, rec)
  PROVE  Away(p)
BY Going, AwayIs DEF Away, SameWork

LEMMA AwayFetch ==
  ASSUME EmissionInv, NEW p \in Procs, NEW ret, ret \notin {"classify", "sent"},
         GoWith(p, "fetch", [loc[p] EXCEPT !.ret = ret])
  PROVE  Away(p)
<1>1. Continues(p, "fetch") /\ loc'[p].ret = ret BY GoingTo
<1> QED BY <1>1 DEF Away, Continues, Holding, Sending, ApplyLabels

LEMMA AwayFromAway ==
  ASSUME EmissionInv, NEW p \in Procs,
         \/ Presynced(p) \/ Resync(p) \/ Claim(p) \/ EnqueueRow(p) \/ Push(p) \/ EnqueueBill(p)
         \/ Wait(p) \/ Waited(p) \/ ReconcileSale(p) \/ ReconcileRequeue(p)
  PROVE  Away(p) /\ pc[p] \in AwayLabels /\ UNCHANGED <<lock, holder>>
<1>1. loc[p] \in Records BY WhereItIs DEF EmissionInv
<1>2. {"idle", "acquire", "enqueue_row", "push", "enqueue_bill", "wait", "r_requeue", "r_release"}
        \subseteq AwayLabels
      /\ Rest(p) \in AwayLabels
  BY RestFits DEF AwayLabels
<1>3. CASE Presynced(p)
  <2>1. \/ GoWith(p, "idle", Fresh)
        \/ GoWith(p, "fetch", [loc[p] EXCEPT !.ret = "idle"])
        \/ GoWith(p, "acquire", [loc[p] EXCEPT !.ret = "idle"])
    BY <1>3 DEF Presynced, End
  <2>2. GoWith(p, "acquire", [loc[p] EXCEPT !.ret = "idle"]) => Away(p)
    BY GoingTo, AwayIs, <1>2 DEF Away, Continues
  <2> QED BY <1>2, <1>3, <2>1, <2>2, AwayTo, AwayFetch DEF Presynced, AwayLabels
<1>4. CASE Resync(p)
  <2>1. pc[p] = "resync" /\ UNCHANGED <<lock, holder>> BY <1>4 DEF Resync
  <2>2. End(p) \/ GoWith(p, "fetch", loc[p]) BY <1>4 DEF Resync
  <2>3. CASE End(p) BY <1>2, <2>1, <2>3, AwayTo DEF End, AwayLabels
  <2>4. CASE GoWith(p, "fetch", loc[p])
    <3>1. loc[p].ret \in {"idle", "presynced"} BY <2>1, WhereItIs DEF EmissionInv, Fits
    <3>2. Continues(p, "fetch") /\ loc'[p].ret = loc[p].ret BY <2>4, GoingOn
    <3>3. Away(p) BY <3>1, <3>2 DEF Away, Continues, Holding, Sending, ApplyLabels
    <3> QED BY <2>1, <3>3 DEF AwayLabels
  <2> QED BY <2>2, <2>3, <2>4
<1>5. CASE Claim(p) BY <1>2, <1>5, AwayTo DEF Claim, AwayLabels
<1>6. CASE EnqueueRow(p)
  <2>1. GoWith(p, Rest(p), loc[p]) \/ GoWith(p, "push", loc[p]) BY <1>6 DEF EnqueueRow
  <2> QED BY <1>2, <1>6, <2>1, AwayTo DEF EnqueueRow, AwayLabels
<1>7. CASE Push(p)
  <2>1. GoWith(p, Rest(p), loc[p]) \/ GoWith(p, "enqueue_bill", loc[p]) BY <1>7 DEF Push
  <2> QED BY <1>2, <1>7, <2>1, AwayTo DEF Push, AwayLabels
<1>8. CASE EnqueueBill(p) BY <1>2, <1>8, AwayTo DEF EnqueueBill, AwayLabels
<1>9. CASE Wait(p) BY <1>2, <1>9, AwayTo, AwayFetch DEF Wait, End, AwayLabels
<1>10. CASE Waited(p)
  <2> DEFINE rec == [loc[p] EXCEPT !.ok = FALSE]
  <2>1. rec.sale = loc[p].sale /\ rec.src = loc[p].src BY <1>1 DEF Records
  <2>2. GoWith(p, "idle", Fresh) \/ GoWith(p, "wait", rec) BY <1>10 DEF Waited, End
  <2> HIDE DEF rec
  <2> QED BY <1>2, <1>10, <2>1, <2>2, AwayTo DEF Waited, AwayLabels
<1>11. CASE ReconcileSale(p)
  <2> DEFINE rec == [loc[p] EXCEPT !.before = bill[Sale(p)], !.ret = "r_reconciled"]
  <2>1. rec.sale = loc[p].sale /\ rec.src = loc[p].src /\ rec.ret = "r_reconciled"
    BY <1>1 DEF Records
  <2>2. GoWith(p, "r_requeue", loc[p]) \/ GoWith(p, "fetch", rec)
    BY <1>11 DEF ReconcileSale
  <2> HIDE DEF rec
  <2>3. GoWith(p, "fetch", rec) => Away(p)
    BY <2>1, Going DEF Away, SameWork, Holding, Sending, ApplyLabels
  <2> QED BY <1>2, <1>11, <2>2, <2>3, AwayTo DEF ReconcileSale, AwayLabels
<1>12. CASE ReconcileRequeue(p)
  <2>1. GoWith(p, "acquire", loc[p]) \/ GoWith(p, "r_release", loc[p])
    BY <1>12 DEF ReconcileRequeue
  <2> QED BY <1>2, <1>12, <2>1, AwayTo DEF ReconcileRequeue, AwayLabels
<1> QED BY <1>3, <1>4, <1>5, <1>6, <1>7, <1>8, <1>9, <1>10, <1>11, <1>12

LEMMA OutsideLock ==
  ASSUME NEW p \in Procs, Away(p), pc[p] \in AwayLabels, UNCHANGED <<lock, holder>>
  PROVE  CarriesOn(p) /\ Tracks(p)
BY AwayIs DEF CarriesOn, Tracks, Away

(* fetchAndApplyFiscalDocument: as the caller, until it returns to it.     *)
LEMMA ApplyingAsCaller ==
  ASSUME EmissionInv, Sourced, NEW p \in Procs, Applying(p)
  PROVE  CarriesOn(p) /\ Tracks(p)
<1>1. pc[p] \in {"fetch"} \cup ApplyLabels /\ UNCHANGED <<lock, holder>>
  BY DEF Applying, Fetch, ApplyRead, ApplySave, ApplyBill, ApplyLabels
<1>2. /\ loc[p] \in Records /\ loc[p].ret \in Returns
  BY WhereItIs DEF EmissionInv, Fits
<1>3. \/ \E label \in ApplyLabels : \E st, snap :
           GoWith(p, label, [loc[p] EXCEPT !.st = st]) \/ GoWith(p, label, [loc[p] EXCEPT !.snap = snap])
      \/ \E ok \in BOOLEAN : Return(p, ok)
      \/ p \in Hooks /\ End(p)
  BY DEF Applying, Fetch, ApplyRead, ApplySave, ApplyBill, ApplyFailed, ApplyLabels
<1>4. CASE \E label \in ApplyLabels : \E st, snap :
             GoWith(p, label, [loc[p] EXCEPT !.st = st]) \/ GoWith(p, label, [loc[p] EXCEPT !.snap = snap])
  <2>1. PICK label \in ApplyLabels : \E st, snap :
          GoWith(p, label, [loc[p] EXCEPT !.st = st]) \/ GoWith(p, label, [loc[p] EXCEPT !.snap = snap])
    BY <1>4
  <2>2. PICK rec : /\ GoWith(p, label, rec) /\ rec.sale = loc[p].sale /\ rec.src = loc[p].src
                   /\ rec.ret = loc[p].ret
    BY <1>2, <2>1 DEF Records
  <2>3. Alone(p) /\ pc'[p] = label /\ loc'[p] = rec BY <2>2, Going DEF ApplyLabels
  <2> QED BY <1>1, <2>2, <2>3 DEF CarriesOn, Tracks, SameWork, Holding, Sending, ApplyLabels
<1>5. CASE \E ok \in BOOLEAN : Return(p, ok)
  <2>1. PICK ok \in BOOLEAN : Return(p, ok) BY <1>5
  <2> DEFINE rec == [loc[p] EXCEPT !.ok = ok, !.st = "none", !.snap = NoInvoice]
  <2>2. rec.sale = loc[p].sale /\ rec.src = loc[p].src BY <1>2 DEF Records
  <2>3. GoWith(p, loc[p].ret, rec) BY <2>1 DEF Return
  <2> HIDE DEF rec
  <2>4. /\ Alone(p) /\ pc'[p] = loc[p].ret
        /\ loc'[p] = IF loc[p].ret = "idle" THEN Fresh ELSE rec
    BY <2>3, Going
  <2>5. CASE loc[p].ret \in {"classify", "sent"}
    BY <1>1, <2>2, <2>4, <2>5 DEF CarriesOn, Tracks, SameWork, Holding, Sending, ApplyLabels
  <2>6. CASE loc[p].ret \notin {"classify", "sent"}
    <3>1. loc[p].ret \in AwayLabels BY <1>2, <2>6 DEF Returns, AwayLabels
    <3>2. ~Holding(pc[p], loc[p]) BY <1>1, <2>6, SendingLabels DEF Holding, Sending, ApplyLabels
    <3> QED BY <1>1, <2>2, <2>4, <3>1, <3>2, AwayIs DEF CarriesOn, Tracks, SameWork, ApplyLabels
  <2> QED BY <2>5, <2>6
<1>6. CASE p \in Hooks /\ End(p)
  <2>1. ~Holding(pc[p], loc[p]) BY <1>6, HookSources
  <2>2. Away(p) BY <1>6, AwayTo DEF End, AwayLabels
  <2> QED BY <1>1, <2>1, <2>2 DEF CarriesOn, Tracks, Away, ApplyLabels
<1> QED BY <1>3, <1>4, <1>5, <1>6

LEMMA AcquireLock ==
  ASSUME EmissionInv, NEW p \in Procs, Acquire(p)
  PROVE  (Takes(p) \/ CarriesOn(p)) /\ Tracks(p)
<1>1. pc[p] = "acquire" BY DEF Acquire
<1>2. CASE /\ lock[Sale(p)] = "free" /\ TryAcquire(p)
           /\ GoWith(p, IF Row(p) = NoInvoice THEN "classify" ELSE "fetch",
                     [loc[p] EXCEPT !.ret = "classify"])
  <2>1. \/ Continues(p, "classify")
        \/ Continues(p, "fetch") /\ loc'[p].ret = "classify"
    BY <1>2, GoingTo
  <2> QED BY <1>2, <2>1 DEF Takes, Tracks, Continues, Holding
<1>3. CASE UNCHANGED <<lock, holder>> /\ NotPrepared(p)
  <2>1. Continues(p, "release") BY <1>3, GoingTo DEF NotPrepared
  <2> QED BY <1>1, <1>3, <2>1 DEF CarriesOn, Tracks, Continues, Holding, Sending, ApplyLabels
<1> QED BY <1>2, <1>3 DEF Acquire

LEMMA ReleaseFrees ==
  ASSUME EmissionInv, NEW p \in Procs, ReleaseLock(p) \/ ReconcileRelease(p)
  PROVE  Frees(p) /\ Tracks(p)
<1>1. Release(p) /\ pc[p] \in {"release", "r_release"} BY DEF ReleaseLock, ReconcileRelease
<1>2. ~Holding(pc[p], loc[p]) BY <1>1 DEF Holding, Sending, ApplyLabels
<1>3. Away(p)
  <2>1. CASE ReleaseLock(p)
    <3> DEFINE rec == [loc[p] EXCEPT !.ret = "idle"]
    <3>1. loc[p] \in Records /\ loc[p].ret \in Exits
      BY <2>1, WhereItIs DEF EmissionInv, ReleaseLock, Fits
    <3>2. rec.sale = loc[p].sale /\ rec.src = loc[p].src BY <3>1 DEF Records
    <3>3. GoWith(p, loc[p].ret, rec) BY <2>1 DEF ReleaseLock
    <3>4. loc[p].ret \in AwayLabels BY <3>1 DEF Exits, AwayLabels
    <3> HIDE DEF rec
    <3> QED BY <3>2, <3>3, <3>4, AwayTo
  <2>2. CASE ReconcileRelease(p) BY <2>2, AwayTo DEF ReconcileRelease, End, AwayLabels
  <2> QED BY <2>1, <2>2
<1> QED BY <1>1, <1>2, <1>3 DEF Frees, Away, Tracks

LEMMA ReconcileAcquireLock ==
  ASSUME EmissionInv, Sourced, NEW p \in Procs, ReconcileAcquire(p)
  PROVE  (Takes(p) \/ CarriesOn(p)) /\ Tracks(p)
<1>1. pc[p] = "r_acquire" /\ loc[p].src = "reconcile" BY DEF ReconcileAcquire, Sourced
<1>2. CASE lock[Sale(p)] = "free" /\ TryAcquire(p) /\ Go(p, "r_sale") /\ UNCHANGED loc
  <2>1. Continues(p, "r_sale") BY <1>2, GoingBy
  <2> QED BY <1>1, <1>2, <2>1 DEF Takes, Tracks, Continues
<1>3. CASE End(p) /\ UNCHANGED <<lock, holder>>
  <2>1. Away(p) BY <1>3, AwayTo DEF End, AwayLabels
  <2> QED BY <1>1, <1>3, <2>1 DEF CarriesOn, Tracks, Away, Holding, Sending, ApplyLabels
<1> QED BY <1>2, <1>3 DEF ReconcileAcquire

(* A pass that changed the sale ends: it is no longer the one that holds   *)
(* the lock, which stays.                                                  *)
Abandons(p) ==
  /\ Alone(p) /\ UNCHANGED lock /\ pc[p] = "r_reconciled" /\ pc'[p] = "idle"
  /\ holder' = [holder EXCEPT ![Sale(p)] = IF @ = p THEN Nil ELSE @]

LEMMA ReconciledLock ==
  ASSUME EmissionInv, NEW p \in Procs, Reconciled(p)
  PROVE  (Abandons(p) \/ CarriesOn(p)) /\ Tracks(p)
<1>1. pc[p] = "r_reconciled" /\ UNCHANGED lock BY DEF Reconciled
<1>2. CASE End(p) /\ holder' = [holder EXCEPT ![Sale(p)] = IF @ = p THEN Nil ELSE @]
  <2>1. Alone(p) /\ pc'[p] = "idle" /\ loc'[p] = Fresh BY <1>2, Going DEF End
  <2> QED BY <1>1, <1>2, <2>1 DEF Abandons, Tracks
<1>3. CASE /\ GoWith(p, "r_requeue", [loc[p] EXCEPT !.ok = FALSE, !.before = "pending"])
           /\ UNCHANGED holder
  <2> DEFINE rec == [loc[p] EXCEPT !.ok = FALSE, !.before = "pending"]
  <2>1. loc[p] \in Records BY WhereItIs DEF EmissionInv
  <2>2. rec.sale = loc[p].sale /\ rec.src = loc[p].src BY <2>1 DEF Records
  <2>3. GoWith(p, "r_requeue", rec) BY <1>3
  <2> HIDE DEF rec
  <2>4. Away(p) BY <2>2, <2>3, AwayTo DEF AwayLabels
  <2>5. pc[p] \in AwayLabels BY <1>1 DEF AwayLabels
  <2> QED BY <1>1, <1>3, <2>4, <2>5, OutsideLock
<1> QED BY <1>2, <1>3 DEF Reconciled

LEMMA AbandonsLock ==
  ASSUME EmissionInv, NEW p \in Procs, Sale(p) \in Sales, Abandons(p)
  PROVE  (Held => Held') /\ (Owned => Owned')
<1>1. /\ holder \in [Sales -> Procs \cup {Nil}]
      /\ ~Holding(pc[p], loc[p]) /\ ~Holding(pc'[p], loc'[p]) /\ pc[p] # "release"
  BY DEF EmissionInv, StoresOK, Abandons, Holding, Sending, ApplyLabels
<1>2. \A s \in Sales : holder[s] # p => holder'[s] = holder[s]
  BY <1>1 DEF Abandons
<1>3. Held => Held'
  <2> SUFFICES ASSUME Held, NEW q \in Procs, Holding(pc'[q], loc'[q])
               PROVE  (holder[Sale(q)] = q /\ lock[Sale(q)] = loc[q].src)'
    BY DEF Held
  <2>1. q # p /\ pc'[q] = pc[q] /\ loc'[q] = loc[q] BY <1>1 DEF Abandons, Alone
  <2>2. holder[Sale(q)] = q /\ lock[Sale(q)] = loc[q].src BY <2>1 DEF Held
  <2>3. Sale(q) \in Sales BY <2>1, Busy DEF Holding, Sending, ApplyLabels
  <2> QED BY <1>2, <2>1, <2>2, <2>3 DEF Sale, Abandons
<1>4. Owned => Owned'
  <2> SUFFICES ASSUME Owned, NEW s \in Sales, (lock[s] \notin {"free", "reconcile"})'
               PROVE  (\E q \in Procs : /\ holder[s] = q /\ Sale(q) = s /\ loc[q].src = lock[s]
                                        /\ Holding(pc[q], loc[q]) \/ pc[q] = "release")'
    BY DEF Owned
  <2>1. PICK q \in Procs : /\ holder[s] = q /\ Sale(q) = s /\ loc[q].src = lock[s]
                           /\ Holding(pc[q], loc[q]) \/ pc[q] = "release"
    BY DEF Owned, Abandons
  <2>2. q # p BY <1>1, <2>1
  <2> QED BY <1>2, <2>1, <2>2 DEF Abandons, Alone, Sale
<1> QED BY <1>3, <1>4

LEMMA TracksSourced ==
  ASSUME Sourced, NEW p \in Procs, Tracks(p)
  PROVE  Sourced'
<1>1. Fresh.src = "none" BY DEF Fresh
<1> QED BY <1>1 DEF Sourced, Tracks, Alone, SameWork

(* What an operation's step does to the lock.                              *)
LEMMA ContinueLock ==
  ASSUME EmissionInv, Sourced, NEW p \in Procs, Continue(p)
  PROVE  /\ Sale(p) \in Sales /\ Tracks(p)
         /\ CarriesOn(p) \/ Takes(p) \/ Frees(p) \/ Abandons(p)
<1>1. pc[p] # "idle"
  BY DEF Continue, Guarded, Applying, Queueing, Emitting, Reconciling, Acquire, Classify,
         ReleaseLock, Presynced, Resync, Fetch, ApplyRead, ApplySave, ApplyBill, Claim,
         EnqueueRow, Push, EnqueueBill, Check, Processing, Emit, FailRow, FailBill,
         PersistRead, PersistWrite, PersistReread, PersistSale, PersistBill, Verdict,
         VerdictRow, VerdictBill, Sent, Wait, Waited, ReconcileAcquire, ReconcileSale,
         Reconciled, ReconcileRequeue, ReconcileRelease
<1>2. Sale(p) \in Sales BY <1>1, Busy
<1>3. CASE Guarded(p)
  BY <1>2, <1>3, AcquireLock, AheadClassify, WithinLock, ReleaseFrees, AwayFromAway, OutsideLock
     DEF Guarded
<1>4. CASE Applying(p) BY <1>2, <1>4, ApplyingAsCaller
<1>5. CASE Queueing(p) BY <1>2, <1>5, AwayFromAway, OutsideLock DEF Queueing
<1>6. CASE Emitting(p)
  BY <1>2, <1>6, AheadSending, AheadVerdict, WithinLock, AwayFromAway, OutsideLock DEF Emitting
<1>7. CASE Reconciling(p)
  BY <1>2, <1>7, ReconcileAcquireLock, ReconciledLock, ReleaseFrees, AwayFromAway, OutsideLock
     DEF Reconciling
<1> QED BY <1>2, <1>3, <1>4, <1>5, <1>6, <1>7 DEF Continue

(* A process begins an operation, without the lock.                        *)
Starts(p) ==
  /\ pc[p] = "idle" /\ Alone(p) /\ UNCHANGED <<lock, holder>>
  /\ loc'[p].src \in SourcesOf(p) \cup {"none"} /\ ~Holding(pc'[p], loc'[p])
  /\ pc'[p] = "r_acquire" => loc'[p].src = "reconcile"

LEMMA StartsLock ==
  ASSUME NEW p \in Procs, Starts(p)
  PROVE  CarriesOn(p) /\ (Sourced => Sourced')
<1>1. ~Holding(pc[p], loc[p]) BY DEF Starts, Holding, Sending, ApplyLabels
<1> QED BY <1>1 DEF Starts, CarriesOn, Sourced, Alone

LEMMA Beginnings ==
  ASSUME EmissionInv
  PROVE  /\ \A r \in Requests : StartOp(r) => r \in Procs /\ Starts(r)
         /\ \A w \in Workers : WorkerPop(w) =>
              \/ UNCHANGED <<pc, loc, lock, holder>>
              \/ w \in Procs /\ Starts(w)
         /\ \A h \in Hooks : HookReceive(h) =>
              \/ UNCHANGED <<pc, loc, lock, holder>>
              \/ h \in Procs /\ Starts(h)
         /\ \A s \in Sales : ReconcileVisit(s) => Reconciler \in Procs /\ Starts(Reconciler)
<1>1. \A ret \in {"idle", "presynced"} : \A rec :
        rec.ret = ret => /\ ~Holding("fetch", rec) /\ ~Holding("apply_read", rec)
                         /\ ~Holding("acquire", rec) /\ ~Holding("r_acquire", rec)
                         /\ ~Holding("resync", rec)
  BY DEF Holding, Sending, ApplyLabels
<1>2. ASSUME NEW r \in Requests, StartOp(r) PROVE r \in Procs /\ Starts(r)
  <2>1. r \in Procs /\ pc[r] = "idle" /\ UNCHANGED <<lock, holder>> BY <1>2 DEF Procs, StartOp
  <2>2. PICK op \in Ops[r], s \in Sales :
          LET rec == [Fresh EXCEPT !.sale = s, !.src = op] IN
          \/ GoWith(r, "resync", [rec EXCEPT !.ret = "presynced"])
          \/ GoWith(r, "acquire", rec)
    BY <1>2 DEF StartOp
  <2> DEFINE rec == [Fresh EXCEPT !.sale = s, !.src = op]
             syn == [rec EXCEPT !.ret = "presynced"]
  <2>3. /\ rec.src = op /\ rec.ret = "idle" /\ syn.src = op /\ syn.ret = "presynced"
        /\ GoWith(r, "resync", syn) \/ GoWith(r, "acquire", rec)
    BY <2>2 DEF Fresh
  <2> HIDE DEF rec, syn
  <2>4. op \in SourcesOf(r) BY DEF SourcesOf
  <2>5. Alone(r) /\ loc'[r].src = op /\ pc'[r] \in {"resync", "acquire"}
        /\ loc'[r].ret \in {"idle", "presynced"}
    BY <2>1, <2>3, Going
  <2> QED BY <1>1, <2>1, <2>4, <2>5 DEF Starts
<1>3. ASSUME NEW w \in Workers, WorkerPop(w), ~UNCHANGED <<pc, loc, lock, holder>>
      PROVE  w \in Procs /\ Starts(w)
  <2> DEFINE rec == [Fresh EXCEPT !.sale = Head(queue), !.src = "fiscal_queue"]
  <2>1. w \in Procs /\ pc[w] = "idle" /\ UNCHANGED <<lock, holder>> BY <1>3 DEF Procs, WorkerPop
  <2>2. rec.src = "fiscal_queue" /\ rec.ret = "idle" BY DEF Fresh
  <2>3. GoWith(w, "acquire", rec) BY <1>3 DEF WorkerPop
  <2> HIDE DEF rec
  <2>4. Alone(w) /\ loc'[w] = rec /\ pc'[w] = "acquire" BY <2>1, <2>3, Going
  <2>5. "fiscal_queue" \in SourcesOf(w) BY DEF SourcesOf
  <2> QED BY <1>1, <2>1, <2>2, <2>4, <2>5 DEF Starts
<1>4. ASSUME NEW h \in Hooks, HookReceive(h), ~UNCHANGED <<pc, loc, lock, holder>>
      PROVE  h \in Procs /\ Starts(h)
  <2>1. h \in Procs /\ pc[h] = "idle" /\ UNCHANGED <<lock, holder>> BY <1>4 DEF Procs, HookReceive
  <2>2. PICK e : GoWith(h, "apply_read", [Fresh EXCEPT !.sale = e.sale, !.st = e.st, !.n = e.n])
    BY <1>4 DEF HookReceive
  <2> DEFINE rec == [Fresh EXCEPT !.sale = e.sale, !.st = e.st, !.n = e.n]
  <2>3. rec.src = "none" /\ rec.ret = "idle" BY DEF Fresh
  <2>4. GoWith(h, "apply_read", rec) BY <2>2
  <2> HIDE DEF rec
  <2>5. Alone(h) /\ loc'[h] = rec /\ pc'[h] = "apply_read" BY <2>1, <2>4, Going
  <2> QED BY <1>1, <2>1, <2>3, <2>5 DEF Starts
<1>5. ASSUME NEW s \in Sales, ReconcileVisit(s) PROVE Reconciler \in Procs /\ Starts(Reconciler)
  <2> DEFINE rec == [Fresh EXCEPT !.sale = s, !.src = "reconcile"]
  <2>1. Reconciler \in Procs /\ pc[Reconciler] = "idle" /\ UNCHANGED <<lock, holder>>
    BY <1>5 DEF Procs, ReconcileVisit
  <2>2. rec.src = "reconcile" /\ rec.ret = "idle" BY DEF Fresh
  <2>3. GoWith(Reconciler, "r_acquire", rec) BY <1>5 DEF ReconcileVisit
  <2> HIDE DEF rec
  <2>4. Alone(Reconciler) /\ loc'[Reconciler] = rec /\ pc'[Reconciler] = "r_acquire"
    BY <2>1, <2>3, Going
  <2>5. "reconcile" \in SourcesOf(Reconciler) BY DEF SourcesOf
  <2> QED BY <1>1, <2>1, <2>2, <2>4, <2>5 DEF Starts
<1> QED BY <1>2, <1>3, <1>4, <1>5

LEMMA StepKinds ==
  ASSUME EmissionInv, Sourced, [Next]_vars
  PROVE  \/ \E p \in Procs : /\ Sale(p) \in Sales /\ Tracks(p)
                             /\ CarriesOn(p) \/ Takes(p) \/ Frees(p) \/ Abandons(p)
         \/ \E p \in Procs : Starts(p)
         \/ UNCHANGED <<pc, loc, lock, holder>>
         \/ \E s \in Sales : LockExpire(s)
         \/ Crash
<1>1. CASE \E p \in Procs : Continue(p) BY <1>1, ContinueLock
<1>2. CASE \E r \in Requests : StartOp(r) BY <1>2, Beginnings
<1>3. CASE \E w \in Workers : WorkerPop(w) BY <1>3, Beginnings
<1>4. CASE \E h \in Hooks : HookReceive(h) BY <1>4, Beginnings
<1>5. CASE \E e \in events : HookDrop(e) BY <1>5 DEF HookDrop
<1>6. CASE \E s \in Sales : TimerFire(s) \/ ClaimExpire(s) \/ DocStep(s)
  BY <1>6 DEF TimerFire, ClaimExpire, DocStep
<1>7. CASE \E s \in Sales : ReconcileVisit(s) BY <1>7, Beginnings
<1>8. CASE ReconcileSelect \/ Tick BY <1>8 DEF ReconcileSelect, Tick
<1>9. CASE UNCHANGED vars BY <1>9
<1> QED BY <1>1, <1>2, <1>3, <1>4, <1>5, <1>6, <1>7, <1>8, <1>9 DEF Next

LEMMA SourcedStep ==
  ASSUME EmissionInv, Sourced, [Next]_vars
  PROVE  Sourced'
<1>1. CASE \E p \in Procs : Tracks(p) BY <1>1, TracksSourced
<1>2. CASE \E p \in Procs : Starts(p) BY <1>2, StartsLock
<1>3. CASE UNCHANGED <<pc, loc>> BY <1>3 DEF Sourced
<1>4. CASE \E s \in Sales : LockExpire(s) BY <1>4 DEF LockExpire, Sourced
<1>5. CASE Crash BY <1>5 DEF Crash, Sourced, Fresh
<1> QED BY <1>1, <1>2, <1>3, <1>4, <1>5, StepKinds

(* The TTL runs out under nobody: the lock that goes was left behind.      *)
LEMMA HeldStep ==
  ASSUME SourcesApart, "ttl" \notin Faults, EmissionInv, Sourced, Held, [Next]_vars
  PROVE  Held'
<1>1. CASE \E p \in Procs : CarriesOn(p) \/ Starts(p) BY <1>1, StartsLock, CarriesHeld
<1>2. CASE \E p \in Procs : Sale(p) \in Sales /\ Takes(p) BY <1>2, TakesHeld
<1>3. CASE \E p \in Procs : Sale(p) \in Sales /\ Frees(p) BY <1>3, FreesHeld
<1>4. CASE \E p \in Procs : Sale(p) \in Sales /\ Abandons(p) BY <1>4, AbandonsLock
<1>5. CASE UNCHANGED <<pc, loc, lock, holder>> BY <1>5 DEF Held, Sale
<1>6. CASE \E s \in Sales : LockExpire(s)
  <2>1. PICK s \in Sales : LockExpire(s) BY <1>6
  <2>2. holder[s] = Nil /\ Nil \notin Procs BY <2>1, EmissionAssumption DEF LockExpire, Fault
  <2>3. UNCHANGED <<pc, loc>> /\ lock' = [lock EXCEPT ![s] = "free"]
        /\ holder' = [holder EXCEPT ![s] = Nil]
    BY <2>1 DEF LockExpire
  <2>4. ASSUME NEW p \in Procs, Holding(pc[p], loc[p])
        PROVE  holder'[Sale(p)] = p /\ lock'[Sale(p)] = loc[p].src
    <3>1. holder[Sale(p)] = p /\ lock[Sale(p)] = loc[p].src BY <2>4 DEF Held
    <3>2. Sale(p) # s BY <2>2, <3>1
    <3> QED BY <2>3, <3>1, <3>2 DEF EmissionInv, StoresOK
  <2> QED BY <2>3, <2>4 DEF Held, Sale
<1>7. CASE Crash
  BY <1>7 DEF Crash, Held, Holding, Sending, ApplyLabels
<1> QED BY <1>1, <1>2, <1>3, <1>4, <1>5, <1>6, <1>7, StepKinds

LEMMA OwnedStep ==
  ASSUME "crash" \notin Faults, EmissionInv, Sourced, Owned, [Next]_vars
  PROVE  Owned'
<1>1. CASE \E p \in Procs : CarriesOn(p) \/ Starts(p) BY <1>1, StartsLock, CarriesOwned
<1>2. CASE \E p \in Procs : Sale(p) \in Sales /\ Takes(p) BY <1>2, TakesOwned
<1>3. CASE \E p \in Procs : Sale(p) \in Sales /\ Frees(p) BY <1>3, FreesOwned
<1>4. CASE \E p \in Procs : Sale(p) \in Sales /\ Abandons(p) BY <1>4, AbandonsLock
<1>5. CASE UNCHANGED <<pc, loc, lock, holder>> BY <1>5 DEF Owned, Sale
<1>6. CASE \E s \in Sales : LockExpire(s)
  <2>1. PICK s \in Sales : LockExpire(s) BY <1>6
  <2>2. UNCHANGED <<pc, loc>> /\ lock' = [lock EXCEPT ![s] = "free"]
        /\ holder' = [holder EXCEPT ![s] = Nil]
    BY <2>1 DEF LockExpire
  <2>3. ASSUME NEW t \in Sales, lock'[t] \notin {"free", "reconcile"}
        PROVE  lock'[t] = lock[t] /\ holder'[t] = holder[t]
    BY <2>2, <2>3 DEF EmissionInv, StoresOK
  <2> QED BY <2>2, <2>3 DEF Owned, Sale
<1>7. ~Crash BY DEF Crash, Fault
<1> QED BY <1>1, <1>2, <1>3, <1>4, <1>5, <1>6, <1>7, StepKinds

LEMMA InitLock == Init => Sourced /\ Held /\ Owned
BY DEF Init, Sourced, Held, Owned, Fresh, Holding, Sending, ApplyLabels

(* Two operations never send the same document, nor write its answer, at   *)
(* once (PrepareFiscalOperation), provided that the operations in play     *)
(* come from different sources and none outlives the TTL: the value of the *)
(* lock is the source, so a second holder of the same source could release *)
(* the lock of the first.  Crashes, lost webhooks, failed calls and lost   *)
(* answers do not matter.                                                  *)
THEOREM SendsAlone ==
  SourcesApart /\ "ttl" \notin Faults => (Spec => []MutualExclusion)
<1> SUFFICES ASSUME SourcesApart, "ttl" \notin Faults PROVE Spec => []MutualExclusion
  OBVIOUS
<1> DEFINE I == EmissionInv /\ Sourced /\ Held
<1>1. Init => I BY InitInv, InitLock
<1>2. I /\ [Next]_vars => I' BY StepInv, SourcedStep, HeldStep
<1>3. I => MutualExclusion
  <2> SUFFICES ASSUME I, NEW p \in Procs, NEW q \in Procs, p # q, Sale(p) = Sale(q),
                      pc[p] \in Sending, pc[q] \in Sending
               PROVE  FALSE
    BY DEF MutualExclusion
  <2>1. holder[Sale(p)] = p /\ holder[Sale(q)] = q BY DEF Held, Holding
  <2> QED BY <2>1
<1> HIDE DEF I
<1> QED BY <1>1, <1>2, <1>3, PTL DEF Spec

(* An operation that ended left no lock in Redis, except a reconciler pass *)
(* that changed the sale, whatever fails: every early return of the others *)
(* reaches the deferred release.  Only the death of a process breaks it.   *)
THEOREM LocksReturned ==
  "crash" \notin Faults => (Spec => []LeakOnlyByReconcile)
<1> SUFFICES ASSUME "crash" \notin Faults PROVE Spec => []LeakOnlyByReconcile
  OBVIOUS
<1> DEFINE I == EmissionInv /\ Sourced /\ Owned
<1>1. Init => I BY InitInv, InitLock
<1>2. I /\ [Next]_vars => I' BY StepInv, SourcedStep, OwnedStep
<1>3. I => LeakOnlyByReconcile BY DEF Owned, LeakOnlyByReconcile
<1> HIDE DEF I
<1> QED BY <1>1, <1>2, <1>3, PTL DEF Spec

-----------------------------------------------------------------------------
(* The jobs.  A document that waits in PENDING_FISCAL is somewhere between *)
(* the transaction that put it there and a worker that has not sent it.    *)
InList(s)  == \E i \in DOMAIN queue : queue[i] = s
Waiting(s) == inv[s].pipe = "PENDING_FISCAL" /\ doc[s] = "none"

Carrying(p, label, rec) ==
  \/ label = "push"
  \/ /\ p \in Workers /\ rec.src = "fiscal_queue"
     /\ \/ label \in {"acquire", "classify", "emit", "fail_row"}
        \/ label \in {"fetch"} \cup ApplyLabels /\ rec.ret = "classify"

Coming(s) ==
  \/ InList(s) \/ timers[s] > 0
  \/ \E p \in Procs : Sale(p) = s /\ Carrying(p, pc[p], loc[p])

JobsCome == \A s \in Sales : Waiting(s) => Coming(s)

(* Who has an answer of the facturador has it about a document it has.     *)
AnswerLabels == ApplyLabels \cup {"persist_read"}

Answers ==
  /\ \A p \in Procs : pc[p] \in AnswerLabels => doc[Sale(p)] # "none"
  /\ \A e \in events : doc[e.sale] # "none"

JobsInv == Sourced /\ JobsCome /\ Answers

CarryLabels == {"push", "acquire", "classify", "emit", "fail_row", "fetch"} \cup ApplyLabels

(* A document that waits after the step waited before, and nothing is      *)
(* taken from the list or the timers.                                      *)
Kept ==
  /\ \A s \in Sales : Waiting(s)' => Waiting(s)
  /\ \A s \in Sales : /\ InList(s) => InList(s)'
                      /\ timers[s] > 0 => timers'[s] > 0

(* After the step the job of s is in the list or in a timer, or not needed. *)
Handed(s) ==
  inv'[s].pipe = "PENDING_FISCAL" /\ doc'[s] = "none" =>
    (\E i \in DOMAIN queue' : queue'[i] = s) \/ timers'[s] > 0

LEMMA JobsKept ==
  ASSUME JobsCome, NEW p \in Procs, Alone(p), Kept,
         \/ ~Carrying(p, pc[p], loc[p])
         \/ Carrying(p, pc'[p], loc'[p]) /\ loc'[p].sale = loc[p].sale
         \/ Handed(Sale(p))
  PROVE  JobsCome'
<1> SUFFICES ASSUME NEW s \in Sales, Waiting(s)' PROVE Coming(s)' BY DEF JobsCome
<1>1. Coming(s) BY DEF JobsCome, Kept
<1>2. CASE InList(s) \/ timers[s] > 0 BY <1>2 DEF Kept, Coming
<1>3. CASE \E q \in Procs : Sale(q) = s /\ Carrying(q, pc[q], loc[q])
  <2>1. PICK q \in Procs : Sale(q) = s /\ Carrying(q, pc[q], loc[q]) BY <1>3
  <2>2. CASE q # p BY <2>1, <2>2 DEF Alone, Coming, Sale
  <2>3. CASE q = p
    <3>1. CASE Handed(Sale(p))
      <4>1. Handed(s) BY <2>1, <2>3, <3>1
      <4> QED BY <4>1 DEF Handed, Waiting, InList, Coming
    <3> QED BY <2>1, <2>3, <3>1 DEF Coming, Sale
  <2> QED BY <2>2, <2>3
<1> QED BY <1>1, <1>2, <1>3 DEF Coming

LEMMA SameStores ==
  ASSUME EmissionInv, UNCHANGED <<queue, timers>>,
         \A s \in Sales : Waiting(s)' => Waiting(s)
  PROVE  Kept
BY DEF Kept, InList

(* Writes that put no document in PENDING_FISCAL.                          *)
LEMMA NotWaiting ==
  ASSUME EmissionInv, Answers, NEW p \in Procs, Sale(p) \in Sales,
         \/ UNCHANGED inv
         \/ \E row : /\ inv' = [inv EXCEPT ![Sale(p)] = row]
                     /\ \/ row.pipe # "PENDING_FISCAL" \/ row.pipe = Row(p).pipe
                        \/ doc[Sale(p)] # "none",
         UNCHANGED doc
  PROVE  \A s \in Sales : Waiting(s)' => Waiting(s)
BY DEF EmissionInv, StoresOK, Waiting, Row

LEMMA UpdateNotWaiting ==
  ASSUME EmissionInv, Answers, NEW p \in Procs, pc[p] # "idle",
         NEW pipe, NEW job, UpdateRow(p, pipe, job), pipe # "PENDING_FISCAL", UNCHANGED doc
  PROVE  (\A s \in Sales : Waiting(s)' => Waiting(s)) /\ Handed(Sale(p))
<1>1. Sale(p) \in Sales /\ Row(p) \in Rows /\ Row(p) = inv[Sale(p)]
      /\ inv \in [Sales -> Rows]
  BY Busy DEF EmissionInv, StoresOK
<1> DEFINE row == [Row(p) EXCEPT !.pipe = pipe, !.job = job]
<1>2. NoInvoice.pipe # "PENDING_FISCAL" BY DEF NoInvoice
<1>3. Row(p) # NoInvoice => row.pipe = pipe BY <1>1 DEF Rows, Invoice
<1>4. inv' = [inv EXCEPT ![Sale(p)] = IF Row(p) = NoInvoice THEN NoInvoice ELSE row]
  BY <1>1 DEF UpdateRow
<1> HIDE DEF row
<1>5. inv'[Sale(p)].pipe # "PENDING_FISCAL" BY <1>1, <1>2, <1>3, <1>4
<1>6. \A s \in Sales : s # Sale(p) => inv'[s] = inv[s] BY <1>1, <1>4
<1>7. \A s \in Sales : Waiting(s)' => Waiting(s)
  <2> SUFFICES ASSUME NEW s \in Sales, Waiting(s)' PROVE Waiting(s) OBVIOUS
  <2>1. inv'[s].pipe = "PENDING_FISCAL" /\ doc'[s] = "none" BY DEF Waiting
  <2> QED BY <1>5, <1>6, <2>1 DEF Waiting
<1> QED BY <1>5, <1>7 DEF Handed

(* The steps of an operation that neither carries a job nor makes one.     *)
LEMMA WithoutJob ==
  ASSUME EmissionInv, Answers, NEW p \in Procs,
         \/ Presynced(p) \/ ReleaseLock(p) \/ Resync(p) \/ Claim(p) \/ EnqueueBill(p)
         \/ Check(p) \/ Processing(p) \/ FailBill(p) \/ PersistRead(p) \/ PersistWrite(p)
         \/ PersistReread(p) \/ PersistSale(p) \/ PersistBill(p) \/ Verdict(p)
         \/ VerdictRow(p) \/ VerdictBill(p) \/ Sent(p) \/ Wait(p) \/ Waited(p)
         \/ Reconciling(p)
  PROVE  Kept /\ ~Carrying(p, pc[p], loc[p]) /\ UNCHANGED <<doc, events>>
<1>1. UNCHANGED <<queue, timers, doc, events>>
  BY DEF Presynced, ReleaseLock, Resync, Claim, EnqueueBill, Check, Processing, FailBill,
         PersistRead, PersistWrite, PersistReread, PersistSale, PersistBill, Verdict,
         VerdictRow, VerdictBill, Sent, Wait, Waited, Reconciling, ReconcileAcquire,
         ReconcileSale, Reconciled, ReconcileRequeue, ReconcileRelease
<1>2. pc[p] \notin CarryLabels \cup {"idle"}
  BY DEF Presynced, ReleaseLock, Resync, Claim, EnqueueBill, Check, Processing, FailBill,
         PersistRead, PersistWrite, PersistReread, PersistSale, PersistBill, Verdict,
         VerdictRow, VerdictBill, Sent, Wait, Waited, Reconciling, ReconcileAcquire,
         ReconcileSale, Reconciled, ReconcileRequeue, ReconcileRelease, CarryLabels, ApplyLabels
<1>3. ~Carrying(p, pc[p], loc[p]) BY <1>2 DEF Carrying, CarryLabels
<1>4. Sale(p) \in Sales /\ Row(p) \in Rows BY <1>2, Busy
<1>5. CASE UNCHANGED inv BY <1>1, <1>3, <1>5, SameStores DEF Waiting
<1>6. CASE Processing(p)
  BY <1>1, <1>2, <1>3, <1>6, UpdateNotWaiting, SameStores DEF Processing
<1>7. CASE PersistRead(p)
  <2>1. doc[Sale(p)] # "none" BY <1>7 DEF Answers, PersistRead, AnswerLabels
  <2>2. \E row : inv' = [inv EXCEPT ![Sale(p)] = row] BY <1>7 DEF PersistRead, SetRow
  <2> QED BY <1>1, <1>3, <1>4, <2>1, <2>2, NotWaiting, SameStores
<1>8. CASE PersistWrite(p)
  <2> DEFINE row == [Row(p) EXCEPT !.ext = TRUE, !.pipe = "FACTURADOR_RECEIVED",
                                   !.job = "sent", !.sunat = "pending"]
  <2>1. Row(p) \in Invoice
    <3>1. Fits("persist_write", loc[p], Row(p)) BY <1>8, Busy DEF PersistWrite
    <3> QED BY <1>4, <3>1 DEF Fits, WithRow, Rows
  <2>2. row.pipe # "PENDING_FISCAL" BY <2>1 DEF Invoice
  <2>3. inv' = [inv EXCEPT ![Sale(p)] = row] BY <1>8 DEF PersistWrite, SetRow
  <2> HIDE DEF row
  <2> QED BY <1>1, <1>3, <1>4, <2>2, <2>3, NotWaiting, SameStores
<1>9. CASE VerdictRow(p)
  <2> DEFINE row == [Row(p) EXCEPT !.job = "failed"]
  <2>1. Row(p) \in Invoice /\ loc[p].st \in DOMAIN VerdictStage
    <3>1. Fits("verdict_row", loc[p], Row(p)) BY <1>9, Busy DEF VerdictRow
    <3> QED BY <1>4, <3>1 DEF Fits, WithRow, Rows
  <2>2. CASE SetRow(p, row)
    <3>1. row.pipe = Row(p).pipe BY <2>1 DEF Invoice
    <3>2. inv' = [inv EXCEPT ![Sale(p)] = row] BY <2>2 DEF SetRow
    <3> HIDE DEF row
    <3> QED BY <1>1, <1>3, <1>4, <3>1, <3>2, NotWaiting, SameStores
  <2>3. CASE UpdateRow(p, VerdictStage[loc[p].st], IF loc[p].st = "evidence" THEN "sent" ELSE "failed")
    <3>1. VerdictStage[loc[p].st] # "PENDING_FISCAL" BY <2>1, CodesAndVerdicts DEF VerdictStage
    <3> QED BY <1>1, <1>2, <1>3, <2>3, <3>1, UpdateNotWaiting, SameStores
  <2> QED BY <1>9, <2>2, <2>3 DEF VerdictRow
<1>10. CASE Sent(p)
  <2> DEFINE row == [Row(p) EXCEPT !.job = "sent"]
  <2>1. row.pipe = Row(p).pipe
    <3>1. Fits("sent", loc[p], Row(p)) BY <1>10, Busy DEF Sent
    <3> QED BY <1>4, <3>1 DEF Fits, WithRow, Rows, Invoice
  <2>2. UNCHANGED inv \/ inv' = [inv EXCEPT ![Sale(p)] = row] BY <1>10 DEF Sent, SetRow
  <2> HIDE DEF row
  <2> QED BY <1>1, <1>3, <1>4, <2>1, <2>2, NotWaiting, SameStores
<1> QED BY <1>5, <1>6, <1>7, <1>8, <1>9, <1>10
        DEF Presynced, ReleaseLock, Resync, Claim, EnqueueBill, Check, FailBill,
            PersistReread, PersistSale, PersistBill, Verdict, VerdictBill, Wait, Waited,
            Reconciling, ReconcileAcquire, ReconcileSale, Reconciled, ReconcileRequeue,
            ReconcileRelease

LEMMA AnswersKept ==
  ASSUME EmissionInv, EmissionInv', Answers, NEW p \in Procs, Tracks(p),
         \A s \in Sales : doc[s] # "none" => doc'[s] # "none",
         events' \subseteq events,
         pc'[p] \in AnswerLabels => doc'[Sale(p)] # "none"
  PROVE  Answers'
<1>1. ASSUME NEW q \in Procs, pc'[q] \in AnswerLabels PROVE (doc[Sale(q)] # "none")'
  <2>1. CASE q # p
    <3>1. pc'[q] = pc[q] /\ loc'[q] = loc[q] BY <2>1 DEF Tracks, Alone
    <3>2. Sale(q) \in Sales BY <1>1, <3>1, Busy DEF AnswerLabels, ApplyLabels
    <3> QED BY <1>1, <3>1, <3>2 DEF Answers, Sale
  <2>2. CASE q = p
    <3>1. loc'[p].sale \in Sales
      BY <1>1, <2>2 DEF EmissionInv, ProcsOK, Fits, AnswerLabels, ApplyLabels
    <3>2. Fresh.sale = Nil /\ Nil \notin Sales BY EmissionAssumption DEF Fresh
    <3>3. loc'[p].sale = loc[p].sale BY <3>1, <3>2 DEF Tracks, SameWork
    <3> QED BY <1>1, <2>2, <3>3 DEF Sale
  <2> QED BY <2>1, <2>2
<1>2. ASSUME NEW e \in events' PROVE doc'[e.sale] # "none"
  <2>1. e \in events /\ e.sale \in Sales BY DEF EmissionInv, StoresOK, Messages
  <2> QED BY <2>1 DEF Answers
<1> QED BY <1>1, <1>2 DEF Answers

(* Labels that are reached without an answer.                              *)
LEMMA Elsewhere ==
  ASSUME EmissionInv, NEW p \in Procs, NEW label, NEW rec, label \notin AnswerLabels,
         GoWith(p, label, rec) \/ Go(p, label)
  PROVE  pc'[p] \notin AnswerLabels
BY DEF EmissionInv, ProcsOK, GoWith, Go

LEMMA UnansweredLabels ==
  /\ ({"idle", "fetch", "acquire", "release", "processing", "emit", "verdict", "persist_write",
       "persist_reread", "persist_sale", "persist_bill", "verdict_row", "verdict_bill", "wait",
       "r_sale", "push", "enqueue_row", "enqueue_bill", "classify", "check", "fail_row",
       "fail_bill", "r_requeue", "r_release"} \cup Returns) \cap AnswerLabels = {}
  /\ Exits \subseteq Returns /\ \A p \in Procs : Rest(p) \in Returns
BY RestFits DEF AnswerLabels, ApplyLabels, Returns, Exits

LEMMA Unanswered ==
  ASSUME EmissionInv, NEW p \in Procs,
         \/ Guarded(p) \/ Queueing(p) \/ Reconciling(p)
         \/ Check(p) \/ Processing(p) \/ FailRow(p) \/ FailBill(p)
         \/ PersistRead(p) \/ PersistWrite(p) \/ PersistReread(p)
         \/ PersistSale(p) \/ PersistBill(p) \/ Verdict(p)
         \/ VerdictRow(p) \/ VerdictBill(p) \/ Sent(p) \/ Wait(p) \/ Waited(p)
  PROVE  pc'[p] \notin AnswerLabels
<1>1. CASE Guarded(p)
  <2>1. CASE Acquire(p)
    <3>1. \E label \in {"classify", "fetch", "release"} : \E rec : GoWith(p, label, rec)
      BY <2>1 DEF Acquire, NotPrepared
    <3> QED BY <3>1, Elsewhere, UnansweredLabels
  <2>2. CASE Classify(p)
    <3>1. \E label \in {"release", "emit", "check"} : \E rec : GoWith(p, label, rec)
      BY <2>2 DEF Classify
    <3> QED BY <3>1, Elsewhere, UnansweredLabels
  <2>3. CASE ReleaseLock(p)
    <3>1. loc[p].ret \in Exits BY <2>3, WhereItIs DEF EmissionInv, ReleaseLock, Fits
    <3> QED BY <2>3, <3>1, Elsewhere, UnansweredLabels DEF ReleaseLock
  <2>4. CASE Presynced(p)
    <3>1. \E label \in {"idle", "fetch", "acquire"} : \E rec : GoWith(p, label, rec)
      BY <2>4 DEF Presynced, End
    <3> QED BY <3>1, Elsewhere, UnansweredLabels
  <2>5. CASE Resync(p)
    <3>1. \E label \in {"idle", "fetch"} : \E rec : GoWith(p, label, rec)
      BY <2>5 DEF Resync, End
    <3> QED BY <3>1, Elsewhere, UnansweredLabels
  <2> QED BY <1>1, <2>1, <2>2, <2>3, <2>4, <2>5 DEF Guarded
<1>2. CASE Queueing(p)
  <2>1. \E label \in {Rest(p), "enqueue_row", "push", "enqueue_bill"} : \E rec : GoWith(p, label, rec)
    BY <1>2 DEF Queueing, Claim, EnqueueRow, Push, EnqueueBill
  <2> QED BY <2>1, Elsewhere, UnansweredLabels
<1>3. CASE Reconciling(p)
  <2>1. \/ Go(p, "r_sale")
        \/ \E label \in {"idle", "fetch", "acquire", "r_requeue", "r_release"} : \E rec :
             GoWith(p, label, rec)
    BY <1>3 DEF Reconciling, ReconcileAcquire, ReconcileSale, Reconciled, ReconcileRequeue,
                ReconcileRelease, End
  <2> QED BY <2>1, Elsewhere, UnansweredLabels
<1>4. CASE Check(p) \/ Processing(p) \/ FailRow(p) \/ FailBill(p) \/ VerdictRow(p)
           \/ PersistWrite(p)
  <2>1. \E label \in {"release", "processing", "emit", "fail_bill", "verdict_bill",
                      "persist_reread"} : Go(p, label)
    BY <1>4 DEF Check, Processing, FailRow, FailBill, VerdictRow, PersistWrite, GoWith
  <2> QED BY <2>1, Elsewhere, UnansweredLabels
<1>5. CASE PersistRead(p) \/ PersistReread(p) \/ PersistSale(p) \/ PersistBill(p)
  <2>1. \E label \in {"release", "verdict", "persist_write", "persist_sale", "persist_bill"} :
          Go(p, label)
    BY <1>5 DEF PersistRead, PersistReread, PersistSale, PersistBill, Persisted, GoWith
  <2> QED BY <2>1, Elsewhere, UnansweredLabels
<1>6. CASE Verdict(p) \/ VerdictBill(p) \/ Sent(p) \/ Wait(p) \/ Waited(p)
  <2>1. \E label \in {"release", "fetch", "verdict_row", "idle", "wait"} : Go(p, label)
    BY <1>6 DEF Verdict, VerdictBill, Sent, Wait, Waited, GoWith, End
  <2> QED BY <2>1, Elsewhere, UnansweredLabels
<1> QED BY <1>1, <1>2, <1>3, <1>4, <1>5, <1>6

-----------------------------------------------------------------------------
(* The steps that carry a job, or put one on its way.                      *)

(* What a step of p leaves true of the jobs.                               *)
JobsOf(p) ==
  /\ Kept \/ JobsCome'
  /\ \/ JobsCome'
     \/ ~Carrying(p, pc[p], loc[p])
     \/ Carrying(p, pc'[p], loc'[p]) /\ loc'[p].sale = loc[p].sale
     \/ Handed(Sale(p))

NoLostJobs == Faults \cap {"push", "tenant", "redis", "crash"} = {}

LEMMA AcquireJob ==
  ASSUME NoLostJobs, EmissionInv, NEW p \in Procs, Acquire(p)
  PROVE  JobsOf(p) /\ UNCHANGED <<doc, events>>
<1>1. Sale(p) \in Sales /\ pc[p] = "acquire" /\ UNCHANGED <<db, queue, doc, events>>
  BY Busy DEF Acquire
<1>2. /\ timers \in [Sales -> Nat]
      /\ timers' = timers \/ timers' = [timers EXCEPT ![Sale(p)] = @ + 1]
  BY DEF EmissionInv, StoresOK, Acquire
<1>3. Kept
  <2>1. ASSUME NEW s \in Sales, timers[s] > 0 PROVE timers'[s] > 0
    <3>1. timers[s] \in Nat /\ timers[Sale(p)] \in Nat BY <1>1, <1>2
    <3>2. timers'[s] = timers[s] \/ timers'[s] = timers[s] + 1 BY <1>1, <1>2
    <3> QED BY <2>1, <3>1, <3>2
  <2> QED BY <1>1, <2>1 DEF Kept, Waiting, InList
<1>4. CASE /\ GoWith(p, IF Row(p) = NoInvoice THEN "classify" ELSE "fetch",
                     [loc[p] EXCEPT !.ret = "classify"])
  <2>1. \/ Continues(p, "classify")
        \/ Continues(p, "fetch") /\ loc'[p].ret = "classify"
    BY <1>4, GoingTo
  <2>2. SameWork(p) /\ (Carrying(p, pc[p], loc[p]) => Carrying(p, pc'[p], loc'[p]))
    BY <1>1, <2>1 DEF Continues, SameWork, Carrying, ApplyLabels
  <2> QED BY <1>1, <1>3, <2>2 DEF JobsOf, SameWork
<1>5. CASE timers' = IF p \in Workers THEN [timers EXCEPT ![Sale(p)] = @ + 1] ELSE timers
  <2>1. ASSUME p \in Workers PROVE timers'[Sale(p)] > 0
    <3>1. timers[Sale(p)] \in Nat BY <1>1, <1>2
    <3>2. timers'[Sale(p)] = timers[Sale(p)] + 1 BY <1>1, <1>2, <1>5, <2>1
    <3> QED BY <3>1, <3>2
  <2>2. p \notin Workers => ~Carrying(p, pc[p], loc[p]) BY <1>1 DEF Carrying
  <2> QED BY <1>1, <1>3, <2>1, <2>2 DEF JobsOf, Handed
<1>6. ~Fault("redis") BY DEF NoLostJobs, Fault
<1> QED BY <1>4, <1>5, <1>6 DEF Acquire

LEMMA ClassifyJob ==
  ASSUME EmissionInv, NEW p \in Procs, Classify(p)
  PROVE  JobsOf(p) /\ UNCHANGED <<doc, events>>
<1>1. Sale(p) \in Sales /\ pc[p] = "classify" /\ UNCHANGED <<db, queue, timers, doc, events>>
  BY Busy DEF Classify
<1>2. Kept BY <1>1 DEF Kept, Waiting, InList
<1>3. CASE Carrying(p, pc[p], loc[p])
  <2>1. p \in Workers /\ loc[p].src = "fiscal_queue" BY <1>1, <1>3 DEF Carrying
  <2>2. CASE classifyAfterSync(loc[p].src, Row(p)) = "allow"
    <3>1. GoWith(p, "emit", [loc[p] EXCEPT !.ret = "idle"])
      BY <2>1, <2>2 DEF Classify, EnqueueOps
    <3>2. Continues(p, "emit") BY <3>1, GoingTo
    <3> QED BY <1>1, <1>2, <2>1, <3>2 DEF JobsOf, Continues, SameWork, Carrying
  <2>3. CASE classifyAfterSync(loc[p].src, Row(p)) # "allow"
    <3>1. ViewPipeline(Row(p)) \in {"SUNAT_ACCEPTED", "OBSERVED"}
      BY <2>1, <2>3 DEF classifyAfterSync, enqueueAllowResend
    <3>2. Row(p).pipe # "PENDING_FISCAL" BY <3>1 DEF ViewPipeline
    <3> QED BY <1>1, <1>2, <3>2 DEF JobsOf, Handed, Row
  <2> QED BY <2>2, <2>3
<1> QED BY <1>1, <1>2, <1>3 DEF JobsOf

(* The transaction puts the row in PENDING_FISCAL and p goes on to push.   *)
LEMMA EnqueueRowJob ==
  ASSUME EmissionInv, JobsCome, NEW p \in Procs, EnqueueRow(p)
  PROVE  JobsOf(p) /\ UNCHANGED <<doc, events>>
<1>1. Sale(p) \in Sales /\ pc[p] = "enqueue_row" /\ UNCHANGED <<queue, timers, doc, events>>
  BY Busy DEF EnqueueRow
<1>2. ~Carrying(p, pc[p], loc[p]) BY <1>1 DEF Carrying, ApplyLabels
<1>3. CASE UNCHANGED inv BY <1>1, <1>2, <1>3 DEF JobsOf, Kept, Waiting, InList
<1>4. CASE GoWith(p, "push", loc[p]) /\ \E row : inv' = [inv EXCEPT ![Sale(p)] = row]
  <2>1. Continues(p, "push") BY <1>4, GoingOn
  <2>2. \A s \in Sales : s # Sale(p) => inv'[s] = inv[s]
    BY <1>4 DEF EmissionInv, StoresOK
  <2>3. ASSUME NEW s \in Sales, Waiting(s)' PROVE Coming(s)'
    <3>1. CASE s = Sale(p) BY <2>1, <3>1 DEF Coming, Continues, SameWork, Sale, Carrying
    <3>2. CASE s # Sale(p)
      <4>1. Coming(s) BY <1>1, <2>2, <2>3, <3>2 DEF JobsCome, Waiting
      <4>2. InList(s) => InList(s)' BY <1>1 DEF InList
      <4>3. \A q \in Procs : Sale(q) = s => Sale(q)' = s /\ pc'[q] = pc[q] /\ loc'[q] = loc[q]
        BY <2>1, <3>2 DEF Continues, Alone, Sale
      <4> QED BY <1>1, <4>1, <4>2, <4>3 DEF Coming
    <3> QED BY <3>1, <3>2
  <2> QED BY <1>1, <2>3 DEF JobsOf, JobsCome
<1> QED BY <1>1, <1>3, <1>4 DEF EnqueueRow, SetRow

LEMMA ListGrows ==
  ASSUME NEW s \in Sales, queue \in Seq(Sales), queue' = Append(queue, s)
  PROVE  (\E i \in DOMAIN queue' : queue'[i] = s) /\ \A t \in Sales : InList(t) => InList(t)'
<1>1. Len(queue') = Len(queue) + 1 /\ Len(queue) \in Nat OBVIOUS
<1>2. DOMAIN queue = 1..Len(queue) /\ DOMAIN queue' = 1..Len(queue') OBVIOUS
<1>3. queue'[Len(queue) + 1] = s /\ \A i \in DOMAIN queue : queue'[i] = queue[i] OBVIOUS
<1> QED BY <1>1, <1>2, <1>3 DEF InList

LEMMA PushJob ==
  ASSUME EmissionInv, Answers, NEW p \in Procs, Push(p)
  PROVE  JobsOf(p) /\ UNCHANGED <<doc, events>>
<1>1. Sale(p) \in Sales /\ pc[p] = "push" /\ UNCHANGED <<timers, doc, events>>
  BY Busy DEF Push
<1>2. CASE queue' = Append(queue, Sale(p)) /\ UNCHANGED inv
  <2>1. (\E i \in DOMAIN queue' : queue'[i] = Sale(p)) /\ \A t \in Sales : InList(t) => InList(t)'
    BY <1>1, <1>2, ListGrows DEF EmissionInv, StoresOK
  <2>2. Kept BY <1>1, <1>2, <2>1 DEF Kept, Waiting
  <2> QED BY <1>1, <2>1, <2>2 DEF JobsOf, Handed
<1>3. CASE UpdateRow(p, "FAILED", "failed") /\ UNCHANGED queue
  <2>1. (\A s \in Sales : Waiting(s)' => Waiting(s)) /\ Handed(Sale(p))
    BY <1>1, <1>3, UpdateNotWaiting
  <2> QED BY <1>1, <1>3, <2>1, SameStores DEF JobsOf
<1> QED BY <1>2, <1>3 DEF Push

LEMMA FailRowJob ==
  ASSUME EmissionInv, Answers, NEW p \in Procs, FailRow(p)
  PROVE  JobsOf(p) /\ UNCHANGED <<doc, events>>
<1>1. pc[p] = "fail_row" /\ UNCHANGED <<queue, timers, doc, events>>
      /\ UpdateRow(p, "FAILED", "failed")
  BY DEF FailRow
<1>2. (\A s \in Sales : Waiting(s)' => Waiting(s)) /\ Handed(Sale(p))
  BY <1>1, UpdateNotWaiting
<1> QED BY <1>1, <1>2, SameStores DEF JobsOf

(* The facturador has the document, or the job goes on to fail its row.    *)
LEMMA EmitJob ==
  ASSUME EmissionInv, NEW p \in Procs, Emit(p)
  PROVE  /\ JobsOf(p) /\ UNCHANGED events
         /\ \A s \in Sales : doc[s] # "none" => doc'[s] # "none"
         /\ pc'[p] \in AnswerLabels => doc'[Sale(p)] # "none"
<1>1. Sale(p) \in Sales /\ pc[p] = "emit" /\ UNCHANGED <<inv, queue, timers, events>>
      /\ doc \in [Sales -> DOMAIN DocCode]
  BY Busy DEF Emit, EmissionInv, StoresOK
<1>2. CASE Receive(Sale(p), loc[p].src = "reissue")
  <2>1. doc'[Sale(p)] # "none" /\ \A s \in Sales : doc[s] # "none" => doc'[s] # "none"
    BY <1>1, <1>2 DEF Receive
  <2>2. Kept BY <1>1, <2>1 DEF Kept, Waiting, InList
  <2>3. Handed(Sale(p)) BY <2>1 DEF Handed
  <2> QED BY <1>1, <2>1, <2>2, <2>3 DEF JobsOf
<1>3. CASE /\ UNCHANGED doc
           /\ IF p \in Workers THEN GoWith(p, "fail_row", loc[p])
              ELSE GoWith(p, "release", [loc[p] EXCEPT !.ret = "idle"])
  <2>1. Kept BY <1>1, <1>3 DEF Kept, Waiting, InList
  <2>2. p \in Workers => Continues(p, "fail_row") BY <1>3, GoingOn
  <2>3. p \notin Workers => Continues(p, "release") BY <1>3, GoingTo
  <2>4. p \notin Workers => ~Carrying(p, pc[p], loc[p]) BY <1>1 DEF Carrying
  <2>5. p \in Workers => (Carrying(p, pc[p], loc[p]) => Carrying(p, pc'[p], loc'[p]))
                         /\ loc'[p].sale = loc[p].sale
    BY <1>1, <2>2 DEF Continues, SameWork, Carrying
  <2>6. pc'[p] \notin AnswerLabels
    BY <2>2, <2>3, UnansweredLabels DEF Continues
  <2> QED BY <1>1, <1>3, <2>1, <2>4, <2>5, <2>6 DEF JobsOf
<1> QED BY <1>2, <1>3 DEF Emit

LEMMA FetchJob ==
  ASSUME EmissionInv, Answers, NEW p \in Procs, Fetch(p)
  PROVE  /\ JobsOf(p) /\ UNCHANGED <<doc, events>>
         /\ pc'[p] \in AnswerLabels => doc'[Sale(p)] # "none"
<1>1. /\ Sale(p) \in Sales /\ Row(p) = inv[Sale(p)] /\ pc[p] = "fetch"
      /\ UNCHANGED <<queue, timers, doc, events>>
      /\ loc[p] \in Records /\ loc[p].ret \in Returns /\ Row(p) \in Invoice
  BY Busy DEF Fetch, Fits, WithRow, Rows
<1> DEFINE row == [Row(p) EXCEPT !.ext = TRUE]
<1>2. row.pipe = Row(p).pipe BY <1>1 DEF Invoice
<1>3. UNCHANGED inv \/ inv' = [inv EXCEPT ![Sale(p)] = row] BY <1>1 DEF Fetch
<1> HIDE DEF row
<1>4. Kept BY <1>1, <1>2, <1>3, NotWaiting, SameStores
<1>5. CASE /\ doc[Sale(p)] # "none"
           /\ \E reading : GoWith(p, "apply_read", [loc[p] EXCEPT !.st = reading])
  <2>1. PICK reading : GoWith(p, "apply_read", [loc[p] EXCEPT !.st = reading]) BY <1>5
  <2> DEFINE rec == [loc[p] EXCEPT !.st = reading]
  <2>2. rec.sale = loc[p].sale /\ rec.src = loc[p].src /\ rec.ret = loc[p].ret
    BY <1>1 DEF Records
  <2>3. GoWith(p, "apply_read", rec) BY <2>1
  <2> HIDE DEF rec
  <2>4. pc'[p] = "apply_read" /\ loc'[p] = rec BY <2>3, Going
  <2> QED BY <1>1, <1>4, <1>5, <2>2, <2>4 DEF JobsOf, Carrying, ApplyLabels
<1>6. CASE Return(p, FALSE)
  <2> DEFINE rec == [loc[p] EXCEPT !.ok = FALSE, !.st = "none", !.snap = NoInvoice]
  <2>1. rec.sale = loc[p].sale /\ rec.src = loc[p].src BY <1>1 DEF Records
  <2>2. GoWith(p, loc[p].ret, rec) BY <1>6 DEF Return
  <2> HIDE DEF rec
  <2>3. pc'[p] = loc[p].ret /\ loc'[p] = IF loc[p].ret = "idle" THEN Fresh ELSE rec
    BY <2>2, Going
  <2>4. Carrying(p, pc[p], loc[p]) =>
          Carrying(p, pc'[p], loc'[p]) /\ loc'[p].sale = loc[p].sale
    BY <1>1, <2>1, <2>3 DEF Carrying, ApplyLabels
  <2> QED BY <1>1, <1>4, <2>3, <2>4, UnansweredLabels DEF JobsOf
<1> QED BY <1>5, <1>6 DEF Fetch

(* The document is at the facturador: its job has done its work.           *)
LEMMA ApplyJob ==
  ASSUME EmissionInv, Answers, NEW p \in Procs, ApplyRead(p) \/ ApplySave(p) \/ ApplyBill(p)
  PROVE  /\ JobsOf(p) /\ UNCHANGED doc /\ events' \subseteq events
         /\ doc'[Sale(p)] # "none"
<1>1. /\ pc[p] \in ApplyLabels /\ UNCHANGED <<queue, timers, doc>> /\ events' \subseteq events
      /\ UNCHANGED inv \/ \E row : inv' = [inv EXCEPT ![Sale(p)] = row]
  BY DEF ApplyRead, ApplySave, ApplyBill, ApplyLabels, SetRow
<1>2. doc[Sale(p)] # "none" BY <1>1 DEF Answers, AnswerLabels
<1>3. Sale(p) \in Sales BY <1>1, Busy DEF ApplyLabels
<1>4. Kept BY <1>1, <1>2, <1>3, NotWaiting, SameStores
<1> QED BY <1>1, <1>2, <1>4 DEF JobsOf, Handed

LEMMA ContinueJobs ==
  ASSUME NoLostJobs, EmissionInv, EmissionInv', JobsInv, NEW p \in Procs, Continue(p)
  PROVE  JobsCome' /\ Answers'
<1>1. Tracks(p) /\ Alone(p) BY ContinueLock DEF JobsInv, Tracks
<1>2. JobsCome /\ Answers BY DEF JobsInv
<1>3. /\ JobsOf(p) /\ events' \subseteq events
      /\ \A s \in Sales : doc[s] # "none" => doc'[s] # "none"
      /\ pc'[p] \in AnswerLabels => doc'[Sale(p)] # "none"
  <2>1. CASE Guarded(p)
    BY <1>2, <2>1, AcquireJob, ClassifyJob, WithoutJob, Unanswered DEF Guarded, JobsOf
  <2>2. CASE Applying(p) BY <1>2, <2>2, FetchJob, ApplyJob DEF Applying
  <2>3. CASE Queueing(p)
    BY <1>2, <2>3, WithoutJob, EnqueueRowJob, PushJob, Unanswered DEF Queueing, JobsOf
  <2>4. CASE Emitting(p)
    BY <1>2, <2>4, WithoutJob, EmitJob, FailRowJob, Unanswered DEF Emitting, JobsOf
  <2>5. CASE Reconciling(p) BY <1>2, <2>5, WithoutJob, Unanswered DEF JobsOf
  <2> QED BY <2>1, <2>2, <2>3, <2>4, <2>5 DEF Continue
<1>4. Answers' BY <1>1, <1>2, <1>3, AnswersKept
<1>5. JobsCome' BY <1>1, <1>2, <1>3, JobsKept DEF JobsOf
<1> QED BY <1>4, <1>5

(* A worker takes the head of the list into its hands.                     *)
LEMMA WorkerPopJobs ==
  ASSUME NoLostJobs, EmissionInv, JobsInv, NEW w \in Workers, WorkerPop(w)
  PROVE  JobsCome' /\ Answers'
<1> DEFINE rec == [Fresh EXCEPT !.sale = Head(queue), !.src = "fiscal_queue"]
<1>1. /\ w \in Procs /\ pc[w] = "idle" /\ UNCHANGED <<inv, doc, events, timers>>
      /\ queue \in Seq(Sales) /\ queue # <<>> /\ queue' = Tail(queue)
      /\ GoWith(w, "acquire", rec)
  BY DEF Procs, WorkerPop, NoLostJobs, Fault, EmissionInv, StoresOK
<1>2. rec.sale = Head(queue) /\ rec.src = "fiscal_queue" BY DEF Fresh
<1> HIDE DEF rec
<1>3. Alone(w) /\ pc'[w] = "acquire" /\ loc'[w] = rec BY <1>1, Going
<1>4. \A s \in Sales : InList(s) => InList(s)' \/ s = Head(queue)
  <2> SUFFICES ASSUME NEW s \in Sales, NEW i \in DOMAIN queue, queue[i] = s
               PROVE  InList(s)' \/ s = Head(queue)
    BY DEF InList
  <2>1. Len(queue) \in Nat /\ DOMAIN queue = 1..Len(queue) BY <1>1
  <2>2. Len(queue') = Len(queue) - 1 /\ DOMAIN queue' = 1..Len(queue') BY <1>1, <2>1
  <2>3. CASE i = 1 BY <1>1, <2>3
  <2>4. CASE i # 1
    <3>1. i - 1 \in DOMAIN queue' BY <2>1, <2>2, <2>4
    <3>2. queue'[i - 1] = queue[i] BY <1>1, <2>1, <3>1
    <3> QED BY <3>1, <3>2 DEF InList
  <2> QED BY <2>3, <2>4
<1>5. JobsCome'
  <2> SUFFICES ASSUME NEW s \in Sales, Waiting(s)' PROVE Coming(s)' BY DEF JobsCome
  <2>1. Coming(s) BY <1>1 DEF JobsInv, JobsCome, Waiting
  <2>2. CASE s = Head(queue)
    BY <1>1, <1>2, <1>3, <2>2 DEF Coming, Carrying, Sale
  <2>3. CASE s # Head(queue)
    <3>1. \A q \in Procs : Carrying(q, pc[q], loc[q]) => q # w
      BY <1>1 DEF Carrying, ApplyLabels
    <3>2. \A q \in Procs \ {w} : pc'[q] = pc[q] /\ loc'[q] = loc[q] BY <1>3 DEF Alone
    <3> QED BY <1>1, <1>4, <2>1, <2>3, <3>1, <3>2 DEF Coming, Sale
  <2> QED BY <2>2, <2>3
<1>6. Answers'
  <2>1. ASSUME NEW q \in Procs, pc'[q] \in AnswerLabels PROVE (doc[Sale(q)] # "none")'
    <3>1. q # w BY <1>3, <2>1, UnansweredLabels
    <3> QED BY <1>1, <1>3, <2>1, <3>1 DEF Alone, JobsInv, Answers, Sale
  <2> QED BY <1>1, <2>1 DEF JobsInv, Answers
<1> QED BY <1>5, <1>6

(* The other beginnings: a webhook is about a document that exists.        *)
LEMMA BeginJobs ==
  ASSUME EmissionInv, JobsInv, NEW p \in Procs, pc[p] = "idle", Alone(p),
         UNCHANGED <<inv, doc, queue, timers>>, events' \subseteq events,
         pc'[p] \in AnswerLabels => doc[loc'[p].sale] # "none"
  PROVE  JobsCome' /\ Answers'
<1>1. Kept BY DEF Kept, Waiting, InList
<1>2. ~Carrying(p, pc[p], loc[p]) BY DEF Carrying, ApplyLabels
<1>3. JobsCome' BY <1>1, <1>2, JobsKept DEF JobsInv
<1>4. Answers'
  <2>1. ASSUME NEW q \in Procs, pc'[q] \in AnswerLabels PROVE (doc[Sale(q)] # "none")'
    BY <2>1 DEF Alone, JobsInv, Answers, Sale
  <2> QED BY <2>1 DEF JobsInv, Answers
<1> QED BY <1>3, <1>4

LEMMA HookJobs ==
  ASSUME EmissionInv, JobsInv, NEW h \in Hooks, HookReceive(h)
  PROVE  JobsCome' /\ Answers'
<1>1. /\ h \in Procs /\ pc[h] = "idle" /\ UNCHANGED <<inv, doc, queue, timers>>
      /\ pc \in [Procs -> Labels] /\ loc \in [Procs -> Records]
  BY DEF Procs, HookReceive, EmissionInv, ProcsOK
<1>2. PICK e \in events :
        /\ events' \subseteq events
        /\ \/ UNCHANGED <<pc, loc>>
           \/ GoWith(h, "apply_read", [Fresh EXCEPT !.sale = e.sale, !.st = e.st, !.n = e.n])
  BY DEF HookReceive
<1>3. CASE UNCHANGED <<pc, loc>>
  <2>1. Alone(h) /\ pc'[h] \notin AnswerLabels
    BY <1>1, <1>3, UnansweredLabels DEF Alone
  <2> QED BY <1>1, <1>2, <2>1, BeginJobs
<1>4. CASE GoWith(h, "apply_read", [Fresh EXCEPT !.sale = e.sale, !.st = e.st, !.n = e.n])
  <2> DEFINE rec == [Fresh EXCEPT !.sale = e.sale, !.st = e.st, !.n = e.n]
  <2>1. rec.sale = e.sale BY DEF Fresh
  <2> HIDE DEF rec
  <2>2. Alone(h) /\ loc'[h] = rec BY <1>1, <1>4, Going DEF rec
  <2>3. doc[e.sale] # "none" BY DEF JobsInv, Answers
  <2> QED BY <1>1, <1>2, <2>1, <2>2, <2>3, BeginJobs
<1> QED BY <1>2, <1>3, <1>4

LEMMA StartJobs ==
  ASSUME EmissionInv, JobsInv,
         \/ \E r \in Requests : StartOp(r)
         \/ \E s \in Sales : ReconcileVisit(s)
  PROVE  JobsCome' /\ Answers'
<1>1. PICK p \in Procs :
        /\ pc[p] = "idle" /\ UNCHANGED <<inv, doc, queue, timers, events>>
        /\ \E label \in {"resync", "acquire", "r_acquire"} : \E rec : GoWith(p, label, rec)
  BY DEF Procs, StartOp, ReconcileVisit
<1>2. Alone(p) /\ pc'[p] \in {"resync", "acquire", "r_acquire"} BY <1>1, Going
<1>3. pc'[p] \notin AnswerLabels BY <1>2 DEF AnswerLabels, ApplyLabels
<1> QED BY <1>1, <1>2, <1>3, BeginJobs

(* Steps of no process.                                                    *)
LEMMA IdleJobs ==
  ASSUME EmissionInv, JobsInv, UNCHANGED <<pc, loc>>, Kept,
         \A s \in Sales : doc[s] # "none" => doc'[s] # "none",
         \A e \in events' : doc'[e.sale] # "none"
  PROVE  JobsCome' /\ Answers'
<1>1. JobsCome'
  <2> SUFFICES ASSUME NEW s \in Sales, Waiting(s)' PROVE Coming(s)' BY DEF JobsCome
  <2>1. Coming(s) BY DEF JobsInv, JobsCome, Kept
  <2> QED BY <2>1 DEF Coming, Kept, Sale
<1>2. ASSUME NEW p \in Procs, pc[p] \in AnswerLabels PROVE doc'[Sale(p)] # "none"
  <2>1. Sale(p) \in Sales BY <1>2, Busy DEF AnswerLabels, ApplyLabels
  <2> QED BY <1>2, <2>1 DEF JobsInv, Answers
<1> QED BY <1>1, <1>2 DEF Answers, Sale

LEMMA TimerJobs ==
  ASSUME NoLostJobs, EmissionInv, JobsInv, NEW s \in Sales, TimerFire(s)
  PROVE  JobsCome' /\ Answers'
<1>1. /\ UNCHANGED <<pc, loc, inv, doc, events>> /\ queue' = Append(queue, s)
      /\ timers' = [timers EXCEPT ![s] = @ - 1]
  BY DEF TimerFire, NoLostJobs, Fault
<1>2. InList(s)' /\ \A t \in Sales : InList(t) => InList(t)'
  BY <1>1, ListGrows DEF EmissionInv, StoresOK, InList
<1>3. \A t \in Sales : t # s => timers'[t] = timers[t]
  BY <1>1 DEF EmissionInv, StoresOK
<1>4. JobsCome'
  <2> SUFFICES ASSUME NEW t \in Sales, Waiting(t)' PROVE Coming(t)' BY DEF JobsCome
  <2>1. Coming(t) BY <1>1 DEF JobsInv, JobsCome, Waiting
  <2> QED BY <1>1, <1>2, <1>3, <2>1 DEF Coming, Sale
<1>5. Answers' BY <1>1 DEF JobsInv, Answers, Sale
<1> QED BY <1>4, <1>5

LEMMA DocJobs ==
  ASSUME EmissionInv, JobsInv, NEW s \in Sales, DocStep(s)
  PROVE  JobsCome' /\ Answers'
<1>1. PICK st \in DocNext(doc[s]) :
        /\ doc' = [doc EXCEPT ![s] = st]
        /\ \A e \in events' : e \in events \/ e.sale = s
        /\ UNCHANGED <<inv, queue, timers, pc, loc>>
  <2>1. PICK st \in DocNext(doc[s]) \cap Outcomes :
          /\ doc' = [doc EXCEPT ![s] = st]
          /\ events' = IF st \in Notified
               THEN events \cup ({[sale |-> s, st |-> st, n |-> epoch[s]]} \ seen)
               ELSE events
          /\ UNCHANGED <<inv, queue, timers, pc, loc>>
    BY DEF DocStep
  <2>2. \A e \in events' : e \in events \/ e.sale = s BY <2>1
  <2> QED BY <2>1, <2>2
<1>2. st # "none" BY <1>1 DEF DocNext
<1>3. doc \in [Sales -> DOMAIN DocCode] BY DEF EmissionInv, StoresOK
<1>4. doc'[s] # "none" /\ \A t \in Sales : doc[t] # "none" => doc'[t] # "none"
  BY <1>1, <1>2, <1>3
<1>5. Kept BY <1>1, <1>4 DEF Kept, Waiting, InList
<1>6. \A e \in events' : doc'[e.sale] # "none"
  <2> TAKE e \in events'
  <2>1. CASE e.sale = s BY <1>4, <2>1
  <2>2. CASE e.sale # s
    <3>1. e \in events /\ e.sale \in Sales BY <1>1, <2>2 DEF EmissionInv, StoresOK, Messages
    <3> QED BY <1>4, <3>1 DEF JobsInv, Answers
  <2> QED BY <2>1, <2>2
<1> QED BY <1>1, <1>4, <1>5, <1>6, IdleJobs

LEMMA JobsStep ==
  ASSUME NoLostJobs, EmissionInv, EmissionInv', JobsInv, [Next]_vars
  PROVE  JobsInv'
<1>1. Sourced' BY SourcedStep DEF JobsInv
<1>2. CASE \E p \in Procs : Continue(p) BY <1>1, <1>2, ContinueJobs DEF JobsInv
<1>3. CASE \E r \in Requests : StartOp(r) BY <1>1, <1>3, StartJobs DEF JobsInv
<1>4. CASE \E w \in Workers : WorkerPop(w) BY <1>1, <1>4, WorkerPopJobs DEF JobsInv
<1>5. CASE \E h \in Hooks : HookReceive(h) BY <1>1, <1>5, HookJobs DEF JobsInv
<1>6. CASE \E s \in Sales : TimerFire(s) BY <1>1, <1>6, TimerJobs DEF JobsInv
<1>7. CASE \E s \in Sales : ReconcileVisit(s) BY <1>1, <1>7, StartJobs DEF JobsInv
<1>8. CASE \E s \in Sales : DocStep(s) BY <1>1, <1>8, DocJobs DEF JobsInv
<1>9. CASE \/ \E e \in events : HookDrop(e)
           \/ \E s \in Sales : ClaimExpire(s) \/ LockExpire(s)
           \/ ReconcileSelect \/ Tick \/ UNCHANGED vars
  <2>1. UNCHANGED <<pc, loc, inv, doc, queue, timers>> /\ events' \subseteq events
    BY <1>9 DEF HookDrop, ClaimExpire, LockExpire, ReconcileSelect, Tick
  <2>2. Kept BY <2>1 DEF Kept, Waiting, InList
  <2>3. \A e \in events' : doc'[e.sale] # "none" BY <2>1 DEF JobsInv, Answers
  <2> QED BY <1>1, <2>1, <2>2, <2>3, IdleJobs DEF JobsInv
<1>10. ~Crash BY DEF Crash, Fault, NoLostJobs
<1> QED BY <1>2, <1>3, <1>4, <1>5, <1>6, <1>7, <1>8, <1>9, <1>10 DEF Next

LEMMA InitJobs == Init => JobsInv
<1> SUFFICES ASSUME Init PROVE JobsInv OBVIOUS
<1>1. Sourced BY InitLock
<1>2. \A s \in Sales : ~Waiting(s) BY DEF Init, Waiting, DraftRow, NoInvoice
<1>3. Answers BY UnansweredLabels DEF Init, Answers
<1> QED BY <1>1, <1>2, <1>3 DEF JobsInv, JobsCome

(* A document that waits in PENDING_FISCAL and that the facturador never   *)
(* saw has a job on its way, in the list, in a timer or in a worker's      *)
(* hands, whatever documents, answers, locks, databases and webhooks do;   *)
(* only a failed RPUSH of a retry, a tenant that cannot be opened, a Redis *)
(* error under a worker or the death of the process loses one, and the     *)
(* reconciler is there for those.                                          *)
THEOREM JobsKeptOnTheirWay == NoLostJobs => (Spec => []JobNotLost)
<1> SUFFICES ASSUME NoLostJobs PROVE Spec => []JobNotLost
  OBVIOUS
<1> DEFINE I == EmissionInv /\ JobsInv
<1>1. Init => I BY InitInv, InitJobs
<1>2. I /\ [Next]_vars => I' BY StepInv, JobsStep
<1>3. I => JobNotLost
  <2> SUFFICES ASSUME I, NEW s \in Sales, inv[s].pipe = "PENDING_FISCAL", doc[s] = "none"
               PROVE  \/ \E i \in DOMAIN queue : queue[i] = s
                      \/ timers[s] > 0
                      \/ \E p \in Procs : /\ Sale(p) = s
                                          /\ pc[p] = "push" \/ p \in Workers \/ pc[p] \in Sending
    BY DEF JobNotLost
  <2>1. Coming(s) BY DEF JobsInv, JobsCome, Waiting
  <2> QED BY <2>1 DEF Coming, InList, Carrying
<1> HIDE DEF I
<1> QED BY <1>1, <1>2, <1>3, PTL DEF Spec
=============================================================================
