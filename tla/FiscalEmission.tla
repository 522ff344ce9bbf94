--------------------------- MODULE FiscalEmission ---------------------------
(***************************************************************************)
(* Electronic emission of a sale.  HTTP requests, the workers of the Redis *)
(* queue, the webhook handlers and the periodic reconciler all work on the *)
(* same two rows, tenant_invoices (inv) and tenant_sales.billing_status    *)
(* (bill), under a Redis lock per sale, against a remote facturador that   *)
(* owns the true status of the document and reports it by webhook.         *)
(*                                                                         *)
(* A step is one statement of SQL, one Redis command or one HTTP call;     *)
(* pc[p] names the statement process p runs next and loc[p] holds its      *)
(* local variables.  Between two steps anything may happen.                *)
(***************************************************************************)
EXTENDS BillingState, Sequences, FiniteSets, TLC

CONSTANTS
  Sales,       \* the sales of a tenant, by id
  Unsent,      \* those nobody sends: notas de venta, sales left without invoice
  Notes,       \* the sales whose invoice row is created as a draft, up front
  Requests,    \* HTTP handlers running at once
  Workers,     \* goroutines of pkg/fiscalqueue
  Hooks,       \* webhook handlers running at once
  Reconciler,  \* the cron job (cronlock lets a single one run)
  reconcileBatchSize,  \* rows that a pass of it selects (100 in the code)
  Ops,         \* for each handler, the sources its requests may come from
  MaxOps,      \* bound: requests in a behaviour
  Faults,      \* the kinds of faults that may happen
  MaxFaults,   \* bound: faults in a behaviour
  Outcomes,    \* the statuses the facturador may report after "queued"
  Notified,    \* those of them it sends a webhook for
  Nil          \* no process, no sale

EnqueueOps == {"auto_create", "queue"}
SendOps    == {"manual", "manual_resend", "reissue"}
FaultKinds == {"crash", "drop", "emit", "reply", "tenant", "ttl", "push",
               "get", "db", "redis", "quota"}
Procs      == Requests \cup Workers \cup Hooks \cup {Reconciler}

ASSUME EmissionAssumption ==
  /\ Sales \subseteq Nat
  /\ Notes \subseteq Sales /\ Unsent \subseteq Sales \ Notes
  /\ reconcileBatchSize \in Nat \ {0}
  /\ Ops \in [Requests -> SUBSET (EnqueueOps \cup SendOps)]
  /\ MaxOps \in Nat
  /\ Faults \subseteq FaultKinds /\ MaxFaults \in Nat
  /\ Outcomes \subseteq {"sending", "retrying", "accepted", "observed", "rejected", "error"}
  /\ Notified \subseteq Outcomes
  /\ Nil \notin Procs \cup Sales
  /\ Hooks \cap (Requests \cup Workers \cup {Reconciler}) = {}

VARIABLES
  inv,      \* tenant_invoices, one row per sale or NoInvoice
  bill,     \* tenant_sales.billing_status
  lock,     \* Redis lock of the sale: the source that set it, or "free"
  holder,   \* ghost: the process whose SetNX wrote the lock, while it runs
  claim,    \* Redis claim on the enqueue of the sale
  queue,    \* Redis list of jobs
  seen,     \* Redis marks of webhooks already taken
  timers,   \* time.AfterFunc retries pending in memory, per sale
  doc,      \* facturador: status of the document of the sale
  epoch,    \* facturador: how many times it (re)started the document
  accepted, \* ghost: the last epoch SUNAT accepted, 0 if none
  events,   \* webhooks in flight
  pc, loc,
  ticked,   \* the cron's 7 minutes are over
  batch,    \* the sales its pass selected and has yet to visit
  opsLeft, faultsLeft

db     == <<inv, bill>>
redis  == <<lock, holder, claim, queue, seen>>
remote == <<doc, epoch, accepted, events>>
cron   == <<ticked, batch>>
env    == <<cron, opsLeft, faultsLeft>>
vars   == <<inv, bill, lock, holder, claim, queue, seen, timers, doc, epoch,
            accepted, events, pc, loc, ticked, batch, opsLeft, faultsLeft>>

Fresh == [sale |-> Nil, src |-> "none", st |-> "none", n |-> 0, snap |-> NoInvoice,
          ok |-> FALSE, before |-> "pending", ret |-> "idle"]

DraftRow  == [NoInvoice EXCEPT !.pipe = "DRAFT"]
QueuedRow == [NoInvoice EXCEPT !.pipe = "PENDING_FISCAL"]

Init ==
  /\ inv = [s \in Sales |-> IF s \in Notes THEN DraftRow ELSE NoInvoice]
  /\ bill = [s \in Sales |-> "pending"]
  /\ lock = [s \in Sales |-> "free"] /\ holder = [s \in Sales |-> Nil]
  /\ claim = [s \in Sales |-> FALSE]
  /\ queue = <<>> /\ seen = {} /\ timers = [s \in Sales |-> 0]
  /\ doc = [s \in Sales |-> "none"] /\ epoch = [s \in Sales |-> 0]
  /\ accepted = [s \in Sales |-> 0] /\ events = {}
  /\ pc = [p \in Procs |-> "idle"] /\ loc = [p \in Procs |-> Fresh]
  /\ ticked = TRUE /\ batch = {} /\ opsLeft = MaxOps /\ faultsLeft = MaxFaults

-----------------------------------------------------------------------------
(* Control.                                                                *)
Sale(p) == loc[p].sale
Row(p)  == inv[Sale(p)]

Go(p, label)          == pc' = [pc EXCEPT ![p] = label]
GoWith(p, label, rec) == /\ Go(p, label)
                         /\ loc' = [loc EXCEPT ![p] = IF label = "idle" THEN Fresh ELSE rec]
End(p)                == GoWith(p, "idle", Fresh)
SetRow(p, row)        == inv' = [inv EXCEPT ![Sale(p)] = row]
SetBill(p, status)    == bill' = [bill EXCEPT ![Sale(p)] = status]
Fault(kind)           == kind \in Faults /\ faultsLeft > 0 /\ faultsLeft' = faultsLeft - 1

(* An UPDATE ... WHERE sale_id = ? touches nothing when there is no row.   *)
UpdateRow(p, pipe, job) ==
  inv' = [inv EXCEPT ![Sale(p)] =
            IF @ = NoInvoice THEN @ ELSE [@ EXCEPT !.pipe = pipe, !.job = job]]

(* A subroutine hands its result to the label its caller left in ret.      *)
Return(p, ok) ==
  GoWith(p, loc[p].ret,
         [loc[p] EXCEPT !.ok = ok, !.st = "none", !.snap = NoInvoice])

-----------------------------------------------------------------------------
(* The Redis lock.  Its value is the source of the operation, not the      *)
(* process: Release deletes it whenever the stored source is the caller's. *)
TryAcquire(p) == /\ lock' = [lock EXCEPT ![Sale(p)] = loc[p].src]
                 /\ holder' = [holder EXCEPT ![Sale(p)] = p]

(* Two slips the lock must not have: a DEL that ignores the owner, and a   *)
(* caller that forgets to release.                                         *)
ReleaseAny(p) == /\ lock' = [lock EXCEPT ![Sale(p)] = "free"]
                 /\ holder' = [holder EXCEPT ![Sale(p)] = Nil]
ReleaseForgotten(p) == UNCHANGED <<lock, holder>>

Release(p) ==
  IF lock[Sale(p)] = loc[p].src
    THEN /\ lock' = [lock EXCEPT ![Sale(p)] = "free"]
         /\ holder' = [holder EXCEPT ![Sale(p)] = Nil]
    ELSE UNCHANGED <<lock, holder>>

-----------------------------------------------------------------------------
(* A request begins.  ManualResendToSUNAT first syncs outside the lock.    *)
StartOp(r) ==
  /\ pc[r] = "idle" /\ opsLeft > 0
  /\ opsLeft' = opsLeft - 1
  /\ \E op \in Ops[r], s \in Sales \ Unsent :
       LET rec == [Fresh EXCEPT !.sale = s, !.src = op] IN
       IF op = "manual_resend" /\ inv[s] # NoInvoice
         THEN GoWith(r, "resync", [rec EXCEPT !.ret = "presynced"])
         ELSE GoWith(r, "acquire", rec)
  /\ UNCHANGED <<db, redis, remote, timers, cron, faultsLeft>>

(* The stage a caller of BuildStatusView sees.                             *)
ViewPipeline(row) == IF row.pipe = "DRAFT" THEN inferPipelineFromLegacy(row) ELSE row.pipe

Presynced(p) ==
  /\ pc[p] = "presynced"
  /\ CASE ViewPipeline(Row(p)) \in {"SUNAT_ACCEPTED", "OBSERVED"} -> End(p)
       [] /\ ViewPipeline(Row(p)) \notin {"SUNAT_ACCEPTED", "OBSERVED"}
          /\ \/ HasAcceptanceEvidence(Row(p))
             \/ EffectiveBillingStatus(bill[Sale(p)], Row(p)) = "accepted"
            -> GoWith(p, "fetch", [loc[p] EXCEPT !.ret = "idle"])
       [] OTHER -> GoWith(p, "acquire", [loc[p] EXCEPT !.ret = "idle"])
  /\ UNCHANGED <<db, redis, remote, timers, env>>

-----------------------------------------------------------------------------
(* PrepareFiscalOperation: lock, sync with the facturador, classify.       *)

Rest(p) == IF p = Reconciler THEN "r_release" ELSE "idle"

(* The caller's deferred ReleaseLock runs on every outcome, also when the  *)
(* lock was not acquired: only the early returns of classify clear owner.  *)
NotPrepared(p) == GoWith(p, "release", [loc[p] EXCEPT !.ret = Rest(p)])

Acquire(p) ==
  /\ pc[p] = "acquire"
  /\ \/ /\ lock[Sale(p)] = "free"
        /\ TryAcquire(p)
        /\ GoWith(p, IF Row(p) = NoInvoice THEN "classify" ELSE "fetch",
                  [loc[p] EXCEPT !.ret = "classify"])
        /\ UNCHANGED <<timers, faultsLeft>>
     \/ /\ lock[Sale(p)] # "free"
        /\ NotPrepared(p)
        /\ timers' = IF p \in Workers THEN [timers EXCEPT ![Sale(p)] = @ + 1] ELSE timers
        /\ UNCHANGED <<lock, holder, faultsLeft>>
     \/ /\ Fault("redis") /\ NotPrepared(p)
        /\ UNCHANGED <<lock, holder, timers>>
  /\ UNCHANGED <<db, claim, queue, seen, remote, cron, opsLeft>>

enqueueAllowResend(src) == src # "auto_create"

(* hasInFlightFiscalWork and DisplayPhaseFromPipeline agree on these.      *)
InFlightPhase(stage) == stage \in InFlight

classifyAfterSync(src, row) ==
  LET stage == ViewPipeline(row)
  IN  CASE row = NoInvoice -> "allow"
        [] stage \in {"SUNAT_ACCEPTED", "OBSERVED"} /\ src # "reissue" -> "already_accepted"
        [] stage = "SUNAT_REJECTED" /\ ~enqueueAllowResend(src) -> "rejected_final"
        [] InFlightPhase(stage) /\ ~enqueueAllowResend(src) -> "already_processing"
        [] OTHER -> "allow"

(* After "allow" the quota is reserved, except by a worker (EmitFiscal).   *)
Classify(p) ==
  LET verdict  == classifyAfterSync(loc[p].src, Row(p))
      enqueues == loc[p].src \in EnqueueOps \cup {"reconcile"}
      leave(to) == GoWith(p, "release", [loc[p] EXCEPT !.ret = to])
  IN  /\ pc[p] = "classify"
      /\ \/ /\ verdict = "already_accepted" /\ loc[p].src \in SendOps
            /\ leave("resync")
            /\ UNCHANGED faultsLeft
         \/ /\ verdict # "allow"
            /\ ~(verdict = "already_accepted" /\ loc[p].src \in SendOps)
            /\ leave(Rest(p))
            /\ UNCHANGED faultsLeft
         \/ /\ verdict = "allow" /\ p \notin Workers
            /\ Fault("quota") /\ leave(Rest(p))
         \/ /\ verdict = "allow" /\ enqueues
            /\ leave("claim")
            /\ UNCHANGED faultsLeft
         \/ /\ verdict = "allow" /\ ~enqueues
            /\ GoWith(p, IF p \in Workers THEN "emit" ELSE "check", [loc[p] EXCEPT !.ret = "idle"])
            /\ UNCHANGED faultsLeft
      /\ UNCHANGED <<db, redis, remote, timers, cron, opsLeft>>

ReleaseLock(p) ==
  /\ pc[p] = "release"
  /\ Release(p)
  /\ GoWith(p, loc[p].ret, [loc[p] EXCEPT !.ret = "idle"])
  /\ UNCHANGED <<db, claim, queue, seen, remote, timers, env>>

(* SyncSaleWithSSOT as a manual request calls it, outside the lock: before *)
(* a resend, and in buildManualResultFromSend once the lock is given back. *)
Resync(p) ==
  /\ pc[p] = "resync"
  /\ IF Row(p) = NoInvoice THEN End(p)
     ELSE GoWith(p, "fetch", loc[p])
  /\ UNCHANGED <<db, redis, remote, timers, env>>

-----------------------------------------------------------------------------
(* fetchAndApplyFiscalDocument.  How strict it is depends on the caller:   *)
(* the reconciler applies terminal statuses only; the manual wait applies  *)
(* terminal ones, and a "retrying" that hides a configuration error.       *)
DocCode ==
  [st \in {"none", "queued", "sending", "retrying", "accepted", "observed", "rejected", "error"} |->
     CASE st = "accepted" -> "zero" [] st = "observed" -> "observe"
       [] st = "rejected" -> "reject" [] OTHER -> "none"]

Readings(ret, st) ==
  CASE ret = "r_reconciled" -> IF isFiscalTerminalStatus(st, DocCode[st]) THEN {st} ELSE {}
    [] ret = "waited" -> IF isFiscalTerminalStatus(st, DocCode[st]) THEN {st}
                         ELSE IF st = "retrying" THEN {"error"} ELSE {}
    [] OTHER -> {st}

Fetch(p) ==
  LET st == doc[Sale(p)]
  IN  /\ pc[p] = "fetch"
      /\ \/ /\ Fault("get") /\ Return(p, FALSE)
            /\ UNCHANGED inv
         \/ /\ st = "none" /\ Return(p, FALSE)
            /\ UNCHANGED <<inv, faultsLeft>>
         \/ /\ st # "none"
            /\ inv' = [inv EXCEPT ![Sale(p)].ext = TRUE]
            /\ \/ \E reading \in Readings(loc[p].ret, st) :
                    GoWith(p, "apply_read", [loc[p] EXCEPT !.st = reading])
               \/ /\ Readings(loc[p].ret, st) \cap {st} = {}
                  /\ Return(p, FALSE)
            /\ UNCHANGED faultsLeft
      /\ UNCHANGED <<bill, redis, remote, timers, cron, opsLeft>>

(* SyncService.ApplyStatus: SELECT (or INSERT), Save of the whole row as   *)
(* read, then the column of the sale.                                      *)
ApplyRead(p) ==
  LET stage == mapFiscalStatusToPipeline(loc[p].st, DocCode[loc[p].st])
      first == [NoInvoice EXCEPT !.pipe = stage, !.job = JobStatusFromPipeline(stage),
                                 !.sunat = LegacySunatStatus(stage), !.ext = TRUE]
      row   == IF Row(p) = NoInvoice THEN first ELSE Row(p)
  IN  /\ pc[p] = "apply_read"
      /\ SetRow(p, row)
      /\ GoWith(p, "apply_save", [loc[p] EXCEPT !.snap = row])
      /\ UNCHANGED <<bill, redis, remote, timers, env>>

Applied(row, st) ==
  LET code  == DocCode[st]
      asked == mapFiscalStatusToPipeline(st, code)
      stage == IF CanTransition(row.pipe, asked) THEN asked ELSE NormalizePipeline(row.pipe)
  IN  [pipe |-> stage, job |-> JobStatusFromPipeline(stage),
       sunat |-> LegacySunatStatus(stage), ext |-> TRUE,
       cdr |-> CASE code = "zero" -> TRUE [] code = "none" -> row.cdr [] OTHER -> FALSE]

Webhook(p) == [sale |-> Sale(p), st |-> loc[p].st, n |-> loc[p].n]

(* A statement of ApplyStatus failed: a webhook handler takes its mark     *)
(* back, so that the redelivery is processed.                              *)
ApplyFailed(p) ==
  /\ Fault("db")
  /\ IF p \in Hooks THEN seen' = seen \ {Webhook(p)} /\ End(p)
                    ELSE Return(p, FALSE) /\ UNCHANGED seen

ApplySave(p) ==
  LET row == Applied(loc[p].snap, loc[p].st)
  IN  /\ pc[p] = "apply_save"
      /\ \/ /\ SetRow(p, row)
            /\ GoWith(p, "apply_bill", [loc[p] EXCEPT !.snap = row])
            /\ UNCHANGED <<seen, faultsLeft>>
         \/ ApplyFailed(p) /\ UNCHANGED inv
      /\ UNCHANGED <<bill, lock, holder, claim, queue, remote, timers, cron, opsLeft>>

ApplyBill(p) ==
  /\ pc[p] = "apply_bill"
  /\ \/ /\ SetBill(p, LegacyBillingStatus(loc[p].snap.pipe))
        /\ events' = IF p \in Hooks THEN events \ {Webhook(p)} ELSE events
        /\ Return(p, TRUE)
        /\ UNCHANGED <<seen, faultsLeft>>
     \/ ApplyFailed(p) /\ UNCHANGED <<bill, events>>
  /\ UNCHANGED <<inv, lock, holder, claim, queue, doc, epoch, accepted, timers, cron, opsLeft>>

-----------------------------------------------------------------------------
(* EnqueueFiscalEmit, after the lock was released.                         *)
Claim(p) ==
  /\ pc[p] = "claim"
  /\ IF claim[Sale(p)]
       THEN GoWith(p, Rest(p), loc[p]) /\ UNCHANGED claim
       ELSE GoWith(p, "enqueue_row", loc[p]) /\ claim' = [claim EXCEPT ![Sale(p)] = TRUE]
  /\ UNCHANGED <<db, lock, holder, queue, seen, remote, timers, env>>

ReleaseClaim(p) == claim' = [claim EXCEPT ![Sale(p)] = FALSE]

(* The transaction that puts the row in PENDING_FISCAL.                    *)
EnqueueRow(p) ==
  /\ pc[p] = "enqueue_row"
  /\ \/ /\ Row(p) # NoInvoice
        /\ HasFinalSunatOutcome(Row(p)) /\ HasAcceptanceEvidence(Row(p))
        /\ ReleaseClaim(p) /\ GoWith(p, Rest(p), loc[p])
        /\ UNCHANGED <<inv, faultsLeft>>
     \/ /\ ~(HasFinalSunatOutcome(Row(p)) /\ HasAcceptanceEvidence(Row(p)))
        /\ SetRow(p, IF Row(p) = NoInvoice THEN QueuedRow
                     ELSE [Row(p) EXCEPT !.pipe = "PENDING_FISCAL", !.job = "pending"])
        /\ GoWith(p, "push", loc[p])
        /\ UNCHANGED <<claim, faultsLeft>>
     \/ /\ Fault("db")
        /\ ReleaseClaim(p) /\ GoWith(p, Rest(p), loc[p])
        /\ UNCHANGED inv
  /\ UNCHANGED <<bill, lock, holder, queue, seen, remote, timers, cron, opsLeft>>

(* The claim is kept after a push that worked: only its TTL ends it.       *)
Push(p) ==
  /\ pc[p] = "push"
  /\ \/ /\ queue' = Append(queue, Sale(p))
        /\ GoWith(p, "enqueue_bill", loc[p])
        /\ UNCHANGED <<inv, claim, faultsLeft>>
     \/ /\ Fault("push")
        /\ UpdateRow(p, "FAILED", "failed") /\ ReleaseClaim(p)
        /\ GoWith(p, Rest(p), loc[p])
        /\ UNCHANGED queue
  /\ UNCHANGED <<bill, lock, holder, seen, remote, timers, cron, opsLeft>>

EnqueueBill(p) ==
  /\ pc[p] = "enqueue_bill"
  /\ SetBill(p, LegacyBillingStatus("PENDING_FISCAL"))
  /\ GoWith(p, Rest(p), loc[p])
  /\ UNCHANGED <<inv, redis, remote, timers, env>>

ClaimExpire(s) ==
  /\ claim[s]
  /\ \A p \in Procs : loc[p].sale = s => pc[p] \notin {"enqueue_row", "push", "enqueue_bill"}
  /\ claim' = [claim EXCEPT ![s] = FALSE]
  /\ UNCHANGED <<db, lock, holder, queue, seen, remote, timers, pc, loc, env>>

(* BLPop removes the job before anything else happens to it: a job whose   *)
(* tenant database cannot be opened is gone.                               *)
WorkerPop(w) ==
  /\ pc[w] = "idle" /\ queue # <<>>
  /\ queue' = Tail(queue)
  /\ \/ /\ GoWith(w, "acquire", [Fresh EXCEPT !.sale = Head(queue), !.src = "fiscal_queue"])
        /\ UNCHANGED faultsLeft
     \/ /\ Fault("tenant") /\ UNCHANGED <<pc, loc>>
  /\ UNCHANGED <<db, lock, holder, claim, seen, remote, timers, cron, opsLeft>>

(* A retry that only logs.                                                 *)
TimerSilent(s) ==
  /\ timers[s] > 0
  /\ timers' = [timers EXCEPT ![s] = @ - 1]
  /\ UNCHANGED <<db, redis, remote, pc, loc, env>>

(* scheduleFiscalRetry fires: the job goes back to the list, or is lost.   *)
TimerFire(s) ==
  /\ timers[s] > 0
  /\ timers' = [timers EXCEPT ![s] = @ - 1]
  /\ \/ queue' = Append(queue, s) /\ UNCHANGED faultsLeft
     \/ Fault("push") /\ UNCHANGED queue
  /\ UNCHANGED <<db, lock, holder, claim, seen, remote, pc, loc, cron, opsLeft>>

-----------------------------------------------------------------------------
(* executeFiscalSend, for the requests that wait for the answer.           *)
Check(p) ==
  /\ pc[p] = "check"
  /\ IF /\ loc[p].src # "reissue"
        /\ HasFinalSunatOutcome(Row(p)) /\ HasAcceptanceEvidence(Row(p))
       THEN GoWith(p, "release", [loc[p] EXCEPT !.ret = "wait"])
       ELSE GoWith(p, "processing", loc[p])
  /\ UNCHANGED <<db, redis, remote, timers, env>>

Processing(p) ==
  /\ pc[p] = "processing"
  /\ UpdateRow(p, "PROCESSING", JobStatusFromPipeline("PROCESSING"))
  /\ Go(p, "emit")
  /\ UNCHANGED <<bill, redis, remote, timers, loc, env>>

(* External: the facturador is idempotent on the fingerprint; it starts    *)
(* again a document that failed, or any document when reissue is set.      *)
Receive(s, reissue) ==
  IF doc[s] \in {"none", "error", "rejected"} \/ reissue
    THEN doc' = [doc EXCEPT ![s] = "queued"] /\ epoch' = [epoch EXCEPT ![s] = @ + 1]
    ELSE UNCHANGED <<doc, epoch>>

(* fiscalclient.Emit: refused, answered, or received with the answer lost. *)
Emit(p) ==
  LET failed == IF p \in Workers THEN GoWith(p, "fail_row", loc[p])
                ELSE GoWith(p, "release", [loc[p] EXCEPT !.ret = "idle"])
      received == Receive(Sale(p), loc[p].src = "reissue")
  IN  /\ pc[p] = "emit"
      /\ \/ received /\ Go(p, "persist_read") /\ UNCHANGED <<loc, faultsLeft>>
         \/ Fault("emit") /\ failed /\ UNCHANGED <<doc, epoch>>
         \/ Fault("reply") /\ failed /\ received
      /\ UNCHANGED <<db, redis, accepted, events, timers, cron, opsLeft>>

FailRow(p) ==
  /\ pc[p] = "fail_row"
  /\ UpdateRow(p, "FAILED", "failed")
  /\ Go(p, "fail_bill")
  /\ UNCHANGED <<bill, redis, remote, timers, loc, env>>

FailBill(p) ==
  /\ pc[p] = "fail_bill"
  /\ SetBill(p, LegacyBillingStatus("FAILED"))
  /\ GoWith(p, "release", [loc[p] EXCEPT !.ret = "idle"])
  /\ UNCHANGED <<inv, redis, remote, timers, env>>

(* persistInvoiceAfterEmit.                                                *)
Persisted(p) == IF p \in Workers
                  THEN GoWith(p, "release", [loc[p] EXCEPT !.ret = "idle"])
                  ELSE GoWith(p, "verdict", loc[p])

PersistRead(p) ==
  LET row   == IF Row(p) = NoInvoice THEN QueuedRow ELSE Row(p)
      final == HasFinalSunatOutcome(row) /\ loc[p].src # "reissue"
  IN  /\ pc[p] = "persist_read"
      /\ SetRow(p, [row EXCEPT !.ext = @ \/ final])
      /\ IF final THEN Persisted(p) ELSE GoWith(p, "persist_write", loc[p])
      /\ UNCHANGED <<bill, redis, remote, timers, env>>

PersistWrite(p) ==
  /\ pc[p] = "persist_write"
  /\ SetRow(p, [Row(p) EXCEPT !.ext = TRUE, !.pipe = "FACTURADOR_RECEIVED",
                              !.job = "sent", !.sunat = "pending"])
  /\ Go(p, "persist_reread")
  /\ UNCHANGED <<bill, redis, remote, timers, loc, env>>

PersistReread(p) ==
  /\ pc[p] = "persist_reread"
  /\ IF HasFinalSunatOutcome(Row(p)) THEN Persisted(p) ELSE GoWith(p, "persist_sale", loc[p])
  /\ UNCHANGED <<db, redis, remote, timers, env>>

PersistSale(p) ==
  /\ pc[p] = "persist_sale"
  /\ IF bill[Sale(p)] \in {"accepted", "rejected"}
       THEN Persisted(p) ELSE GoWith(p, "persist_bill", loc[p])
  /\ UNCHANGED <<db, redis, remote, timers, env>>

PersistBill(p) ==
  /\ pc[p] = "persist_bill"
  /\ SetBill(p, LegacyBillingStatus("PENDING_FISCAL"))
  /\ Persisted(p)
  /\ UNCHANGED <<inv, redis, remote, timers, env>>

(* Takes the receipt of the facturador for the acceptance of SUNAT.        *)
VerdictOnReceipt(row) == IF row.ext THEN "evidence" ELSE "unconfirmed"

(* What executeFiscalSend makes of the row it reads back.                  *)
VerdictOf(row) ==
  CASE HasAcceptanceEvidence(row) -> "evidence"
    [] ~HasAcceptanceEvidence(row) /\ row.pipe = "SUNAT_REJECTED" -> "rejected"
    [] ~HasAcceptanceEvidence(row) /\ row.pipe \in {"SUNAT_ACCEPTED", "OBSERVED"} -> "done"
    [] ~HasAcceptanceEvidence(row) /\ row.pipe \in {"FACTURADOR_RECEIVED", "PENDING_FISCAL"} -> "queued"
    [] OTHER -> "unconfirmed"

Verdict(p) ==
  LET v == VerdictOf(Row(p))
  IN  /\ pc[p] = "verdict"
      /\ CASE v = "done" -> GoWith(p, "release", [loc[p] EXCEPT !.ret = "wait"])
           [] v = "queued" -> GoWith(p, "fetch", [loc[p] EXCEPT !.ret = "sent"])
           [] OTHER -> GoWith(p, "verdict_row", [loc[p] EXCEPT !.st = v])
      /\ UNCHANGED <<db, redis, remote, timers, env>>

VerdictStage == [v \in {"evidence", "rejected", "unconfirmed"} |->
                   CASE v = "evidence" -> "SUNAT_ACCEPTED" [] v = "rejected" -> "SUNAT_REJECTED"
                     [] v = "unconfirmed" -> "UNKNOWN"]

VerdictRow(p) ==
  LET v == loc[p].st
  IN  /\ pc[p] = "verdict_row"
      /\ IF v = "rejected"
           THEN SetRow(p, [Row(p) EXCEPT !.job = "failed"])
           ELSE UpdateRow(p, VerdictStage[v], IF v = "evidence" THEN "sent" ELSE "failed")
      /\ Go(p, "verdict_bill")
      /\ UNCHANGED <<bill, redis, remote, timers, loc, env>>

VerdictBill(p) ==
  /\ pc[p] = "verdict_bill"
  /\ SetBill(p, LegacyBillingStatus(VerdictStage[loc[p].st]))
  /\ GoWith(p, "release",
            [loc[p] EXCEPT !.st = "none", !.ret = IF loc[p].st = "evidence" THEN "wait" ELSE "idle"])
  /\ UNCHANGED <<inv, redis, remote, timers, env>>

Sent(p) ==
  /\ pc[p] = "sent"
  /\ IF loc[p].ok /\ HasFinalSunatOutcome(Row(p)) THEN UNCHANGED inv
     ELSE SetRow(p, [Row(p) EXCEPT !.job = "sent"])
  /\ GoWith(p, "release", [loc[p] EXCEPT !.ret = "wait", !.ok = FALSE])
  /\ UNCHANGED <<bill, redis, remote, timers, env>>

(* waitForFacturadorOutcome polls, lock released, until final or timeout.  *)
Wait(p) ==
  /\ pc[p] = "wait"
  /\ IF Row(p) = NoInvoice \/ HasFinalSunatOutcome(Row(p)) THEN End(p)
     ELSE GoWith(p, "fetch", [loc[p] EXCEPT !.ret = "waited"])
  /\ UNCHANGED <<db, redis, remote, timers, env>>

Waited(p) ==
  /\ pc[p] = "waited"
  /\ \/ End(p)
     \/ /\ ~(loc[p].ok /\ HasFinalSunatOutcome(Row(p)))
        /\ GoWith(p, "wait", [loc[p] EXCEPT !.ok = FALSE])
  /\ UNCHANGED <<db, redis, remote, timers, env>>

-----------------------------------------------------------------------------
(* ReconcileTenantPending.  A pass selects its rows once and visits them   *)
(* by id, whatever became of them meanwhile.  The ages (2 minutes for the  *)
(* sale, 90 seconds for the row) are taken as reached.                     *)
StalePending(s) ==   \* forgets the sales that were sent
  bill[s] = "pending" /\ inv[s].pipe \notin InFlight \cup Final

Stale(s) ==
  /\ \/ bill[s] \in {"pending", "sent"}
     \/ inv[s].pipe \in InFlight
  /\ bill[s] \notin {"accepted", "rejected"}
  /\ inv[s].pipe \notin Final \cup {"FAILED", "DEAD_LETTER"}

(* The oldest stale sales fill the batch (ORDER BY id, LIMIT): a stale     *)
(* sale that a pass can do nothing for is selected again by the next one.  *)
Crowded(s) ==
  Cardinality({t \in Sales : t < s /\ Stale(t)}) >= reconcileBatchSize

ReconcileSelect ==
  /\ pc[Reconciler] = "idle" /\ ticked
  /\ ticked' = FALSE
  /\ \/ batch' = {s \in Sales : Stale(s) /\ ~Crowded(s)} /\ UNCHANGED faultsLeft
     \/ Fault("tenant") /\ UNCHANGED batch
  /\ UNCHANGED <<db, redis, remote, timers, pc, loc, opsLeft>>

ReconcileVisit(s) ==
  /\ pc[Reconciler] = "idle"
  /\ s \in batch /\ \A t \in batch : s <= t
  /\ batch' = batch \ {s}
  /\ GoWith(Reconciler, "r_acquire", [Fresh EXCEPT !.sale = s, !.src = "reconcile"])
  /\ UNCHANGED <<db, redis, remote, timers, ticked, opsLeft, faultsLeft>>

(* Seven minutes between passes: longer than any request, the two-second   *)
(* retries and the jobs of an unclogged queue, so what was under way at    *)
(* one pass has ended before the next.                                     *)
Tick ==
  /\ ~ticked /\ batch = {}
  /\ \A p \in Procs : pc[p] = "idle"
  /\ queue = <<>> /\ \A s \in Sales : timers[s] = 0
  /\ ticked' = TRUE
  /\ UNCHANGED <<db, redis, remote, timers, pc, loc, batch, opsLeft, faultsLeft>>

ReconcileAcquire(p) ==
  /\ pc[p] = "r_acquire"
  /\ IF lock[Sale(p)] = "free"
       THEN TryAcquire(p) /\ Go(p, "r_sale") /\ UNCHANGED loc
       ELSE End(p) /\ UNCHANGED <<lock, holder>>
  /\ UNCHANGED <<db, claim, queue, seen, remote, timers, env>>

(* ReconcileSaleFromFacturador.                                            *)
ReconcileSale(p) ==
  /\ pc[p] = "r_sale"
  /\ IF \/ bill[Sale(p)] \in {"accepted", "rejected"}
        \/ Row(p) = NoInvoice \/ HasFinalSunatOutcome(Row(p))
       THEN GoWith(p, "r_requeue", loc[p])
       ELSE GoWith(p, "fetch", [loc[p] EXCEPT !.before = bill[Sale(p)], !.ret = "r_reconciled"])
  /\ UNCHANGED <<db, redis, remote, timers, env>>

(* A sale that changed is "continue": its lock is not released.            *)
Reconciled(p) ==
  /\ pc[p] = "r_reconciled"
  /\ IF loc[p].ok /\ bill[Sale(p)] # loc[p].before
       THEN End(p) /\ holder' = [holder EXCEPT ![Sale(p)] = IF @ = p THEN Nil ELSE @]
       ELSE /\ GoWith(p, "r_requeue", [loc[p] EXCEPT !.ok = FALSE, !.before = "pending"])
            /\ UNCHANGED holder
  /\ UNCHANGED <<db, lock, claim, queue, seen, remote, timers, env>>

(* RequeueStaleFiscalJob, which calls EnqueueSendToSUNAT under the lock.   *)
Requeueable(row) ==
  /\ row # NoInvoice /\ ~row.ext
  /\ row.pipe \in {"PENDING_FISCAL", "PENDING_QUEUE"} /\ row.job = "pending"

ReconcileRequeue(p) ==
  /\ pc[p] = "r_requeue"
  /\ GoWith(p, IF Requeueable(Row(p)) THEN "acquire" ELSE "r_release", loc[p])
  /\ UNCHANGED <<db, redis, remote, timers, env>>

ReconcileRelease(p) ==
  /\ pc[p] = "r_release"
  /\ Release(p) /\ End(p)
  /\ UNCHANGED <<db, claim, queue, seen, remote, timers, env>>

-----------------------------------------------------------------------------
(* PostStatus.  A webhook is marked as taken before its tenant is opened;  *)
(* only a failure of ApplyStatus takes the mark back.                      *)
Taken(e) == \E h \in Hooks : pc[h] # "idle" /\ Webhook(h) = e

HookReceive(h) ==
  /\ pc[h] = "idle"
  /\ \E e \in events :
       IF e \in seen
         THEN /\ ~Taken(e)
              /\ events' = events \ {e}
              /\ UNCHANGED <<seen, pc, loc, faultsLeft>>
         ELSE /\ seen' = seen \cup {e}
              /\ UNCHANGED events
              /\ \/ /\ GoWith(h, "apply_read",
                              [Fresh EXCEPT !.sale = e.sale, !.st = e.st, !.n = e.n])
                    /\ UNCHANGED faultsLeft
                 \/ Fault("tenant") /\ UNCHANGED <<pc, loc>>
  /\ UNCHANGED <<db, lock, holder, claim, queue, doc, epoch, accepted, timers, cron, opsLeft>>

HookDrop(e) ==
  /\ Fault("drop") /\ ~Taken(e)
  /\ events' = events \ {e}
  /\ UNCHANGED <<db, redis, doc, epoch, accepted, timers, pc, loc, cron, opsLeft>>

(* External: the facturador's own progress, a webhook for some of it.        *)
DocNext(st) == CASE st \in {"queued", "retrying"} -> {"sending"}
                 [] st = "sending" -> {"retrying", "accepted", "observed", "rejected", "error"}
                 [] OTHER -> {}

DocStep(s) ==
  \E st \in DocNext(doc[s]) \cap Outcomes :
    /\ doc' = [doc EXCEPT ![s] = st]
    /\ accepted' = IF st \in {"accepted", "observed"}
                     THEN [accepted EXCEPT ![s] = epoch[s]] ELSE accepted
    /\ events' = IF st \in Notified
                   THEN events \cup ({[sale |-> s, st |-> st, n |-> epoch[s]]} \ seen)
                   ELSE events
    /\ UNCHANGED <<db, redis, epoch, timers, pc, loc, env>>

(* The 45 seconds of the lock run out, under an operation that is slow or  *)
(* after one that left it behind.                                          *)
LockExpire(s) ==
  /\ lock[s] # "free"
  /\ IF holder[s] = Nil THEN UNCHANGED faultsLeft ELSE Fault("ttl")
  /\ lock' = [lock EXCEPT ![s] = "free"] /\ holder' = [holder EXCEPT ![s] = Nil]
  /\ UNCHANGED <<db, claim, queue, seen, remote, timers, pc, loc, cron, opsLeft>>

(* The process dies: its goroutines and timers go, MySQL and Redis stay.   *)
Crash ==
  /\ Fault("crash")
  /\ pc' = [p \in Procs |-> "idle"] /\ loc' = [p \in Procs |-> Fresh]
  /\ timers' = [s \in Sales |-> 0] /\ holder' = [s \in Sales |-> Nil]
  /\ batch' = {}
  /\ UNCHANGED <<db, lock, claim, queue, seen, remote, ticked, opsLeft>>

-----------------------------------------------------------------------------
Guarded(p)  == Acquire(p) \/ Classify(p) \/ ReleaseLock(p) \/ Presynced(p) \/ Resync(p)
Applying(p) == Fetch(p) \/ ApplyRead(p) \/ ApplySave(p) \/ ApplyBill(p)
Queueing(p) == Claim(p) \/ EnqueueRow(p) \/ Push(p) \/ EnqueueBill(p)
Emitting(p) == \/ Check(p) \/ Processing(p) \/ Emit(p) \/ FailRow(p) \/ FailBill(p)
               \/ PersistRead(p) \/ PersistWrite(p) \/ PersistReread(p)
               \/ PersistSale(p) \/ PersistBill(p)
               \/ Verdict(p) \/ VerdictRow(p) \/ VerdictBill(p)
               \/ Sent(p) \/ Wait(p) \/ Waited(p)
Reconciling(p) == \/ ReconcileAcquire(p) \/ ReconcileSale(p) \/ Reconciled(p)
                  \/ ReconcileRequeue(p) \/ ReconcileRelease(p)

Continue(p) == Guarded(p) \/ Applying(p) \/ Queueing(p) \/ Emitting(p) \/ Reconciling(p)

Next ==
  \/ \E p \in Procs : Continue(p)
  \/ \E r \in Requests : StartOp(r)
  \/ \E w \in Workers : WorkerPop(w)
  \/ \E h \in Hooks : HookReceive(h)
  \/ \E e \in events : HookDrop(e)
  \/ \E s \in Sales : \/ TimerFire(s) \/ ClaimExpire(s) \/ LockExpire(s)
                      \/ ReconcileVisit(s) \/ DocStep(s)
  \/ ReconcileSelect \/ Tick \/ Crash

Spec == Init /\ [][Next]_vars

-----------------------------------------------------------------------------
(* Processes that were started run on; the cron ticks; Redis expires keys; *)
(* the facturador works and its webhooks are delivered unless dropped.     *)
Fairness ==
  /\ \A p \in Procs : WF_vars(Continue(p))
  /\ WF_vars(ReconcileSelect) /\ WF_vars(Tick)
  /\ WF_vars(\E s \in Sales : ReconcileVisit(s))
  /\ \A w \in Workers : WF_vars(WorkerPop(w))
  /\ \A h \in Hooks : WF_vars(HookReceive(h))
  /\ \A s \in Sales : /\ WF_vars(TimerFire(s))
                      /\ WF_vars(holder[s] = Nil /\ LockExpire(s))
                      /\ WF_vars(DocStep(s))

FairSpec == Spec /\ Fairness

-----------------------------------------------------------------------------
Labels ==
  {"idle", "acquire", "classify", "release", "presynced", "resync", "fetch", "apply_read",
   "apply_save", "apply_bill", "claim", "enqueue_row", "push", "enqueue_bill", "check",
   "processing", "emit", "fail_row", "fail_bill", "persist_read", "persist_write",
   "persist_reread", "persist_sale", "persist_bill", "verdict", "verdict_row",
   "verdict_bill", "sent", "wait", "waited", "r_acquire", "r_sale", "r_reconciled",
   "r_requeue", "r_release"}

Sources == EnqueueOps \cup SendOps \cup {"fiscal_queue", "reconcile"}

(* Types of every variable.                                                *)
TypeOK ==
  /\ inv \in [Sales -> Invoice \cup {NoInvoice}]
  /\ bill \in [Sales -> BillingStatuses]
  /\ lock \in [Sales -> Sources \cup {"free"}]
  /\ holder \in [Sales -> Procs \cup {Nil}]
  /\ claim \in [Sales -> BOOLEAN]
  /\ queue \in Seq(Sales)
  /\ timers \in [Sales -> Nat]
  /\ doc \in [Sales -> DOMAIN DocCode]
  /\ epoch \in [Sales -> Nat] /\ accepted \in [Sales -> Nat]
  /\ events \cup seen \subseteq [sale : Sales, st : DOMAIN DocCode, n : Nat]
  /\ pc \in [Procs -> Labels]
  /\ \A p \in Procs : /\ loc[p].sale \in Sales \cup {Nil}
                      /\ pc[p] = "idle" <=> loc[p] = Fresh
  /\ ticked \in BOOLEAN /\ batch \subseteq Sales /\ opsLeft \in Nat /\ faultsLeft \in Nat

(* Labels between a successful PrepareFiscalOperation and the release of   *)
(* its lock at which the document is sent and the answer written.          *)
Sending == {"check", "processing", "emit", "fail_row", "fail_bill", "persist_read",
            "persist_write", "persist_reread", "persist_sale", "persist_bill",
            "verdict", "verdict_row", "verdict_bill", "sent"}

(* Two operations never send the same document at once, nor write its      *)
(* answer interleaved, as long as the operations in play come from         *)
(* different sources and none outlives the TTL (PrepareFiscalOperation).   *)
MutualExclusion ==
  \A p, q \in Procs :
    (p # q /\ Sale(p) = Sale(q)) => ~(pc[p] \in Sending /\ pc[q] \in Sending)

(* An operation that ended has no lock left in Redis, except a reconciler  *)
(* pass that changed the sale (the "continue" of ReconcileTenantPending):  *)
(* every early return of the other operations releases what it took.       *)
LeakOnlyByReconcile ==
  \A s \in Sales : lock[s] \notin {"free", "reconcile"} =>
    \E p \in Procs : Sale(p) = s /\ loc[p].src = lock[s]

(* What the tenant is shown as accepted, or safe to print, was accepted by *)
(* SUNAT at some time, whatever webhooks, syncs and answers crossed on the *)
(* way ("Solo exito con evidencia SUNAT real", ProcessSendToSUNAT).        *)
AcceptedHasEvidence ==
  \A s \in Sales :
    \/ EffectiveBillingStatus(bill[s], inv[s]) = "accepted"
    \/ HasAcceptanceEvidence(inv[s])
    => accepted[s] > 0

(* A document that waits in PENDING_FISCAL and that the facturador never   *)
(* saw has a job on its way: in the list, in a timer, or in a process.     *)
JobNotLost ==
  \A s \in Sales :
    inv[s].pipe = "PENDING_FISCAL" /\ doc[s] = "none" =>
      \/ \E i \in DOMAIN queue : queue[i] = s
      \/ timers[s] > 0
      \/ \E p \in Procs : Sale(p) = s /\ (pc[p] = "push" \/ p \in Workers \/ pc[p] \in Sending)

Shown(s) ==
  \/ EffectiveBillingStatus(bill[s], inv[s]) = "accepted"
  \/ HasAcceptanceEvidence(inv[s])

(* An acceptance reaches the tenant for good, as the status of the sale or *)
(* as evidence that makes the document safe to print, even when webhooks   *)
(* are lost, refused, late or repeated, calls fail and a process dies:     *)
(* SyncSaleWithSSOT and the reconciler catch up, except with a sale that   *)
(* older stale ones keep out of the reconciler's batch.                    *)
AcceptanceSurfaces ==
  \A s \in Sales : <>[](doc[s] = "accepted" => Shown(s) \/ Crowded(s))

(* "sincroniza ventas stale contra facturador SSOT (fallback webhook)":    *)
(* the fallback reaches every sale, whatever else the tenant sells.        *)
FallbackReachesAll ==
  \A s \in Sales : <>[](doc[s] = "accepted" => Shown(s))

(* "sincroniza ventas stale contra facturador SSOT (fallback webhook)":    *)
(* the tenant ends up seeing the acceptance the facturador reached.        *)
Settles ==
  \A s \in Sales :
    <>[](doc[s] = "accepted" => EffectiveBillingStatus(bill[s], inv[s]) = "accepted")

(* The retries of a worker that found the lock taken come to an end.       *)
JobsDrain == <>[](queue = <<>> /\ \A s \in Sales : timers[s] = 0)

(* "Release libera solo si el owner coincide (evita borrar lock de otro    *)
(* proceso)": no step of a process deletes a lock that another one holds.  *)
NoForeignRelease ==
  [][\A s \in Sales, p \in Procs :
       holder[s] = p /\ pc[p] \in Sending /\ pc'[p] = pc[p] /\ faultsLeft' = faultsLeft
         => holder'[s] = p]_vars

(* RequeueStaleFiscalJob queues again the emissions stuck in               *)
(* PENDING_FISCAL without external_id.                                     *)
StaleJobRequeued ==
  \A s \in Sales : inv[s].pipe = "PENDING_FISCAL" ~> inv[s].pipe # "PENDING_FISCAL"

(* A reissued document is shown as accepted only on the answer to the      *)
(* reissue: the acceptance of the previous submission does not count.      *)
ReissueAwaitsAnswer ==
  \A s \in Sales : inv[s].pipe = "SUNAT_ACCEPTED" => accepted[s] = epoch[s]
=============================================================================
