------------------------------ MODULE DocQuota ------------------------------
(***************************************************************************)
(* The monthly document quota of one tenant (pkg/saas/docusage): each      *)
(* electronic document takes one slot, from the plan's quota of the month  *)
(* or, when that is used up, from a package the tenant bought; the plan    *)
(* can change at any time.                                                 *)
(*                                                                         *)
(* The reservations are transactions of MySQL in its default isolation,    *)
(* REPEATABLE READ (the DSN sets none): a plain SELECT reads the snapshot  *)
(* of the first one; UPDATE, INSERT and SELECT FOR UPDATE see the latest   *)
(* rows and lock them until the end.  What a transaction wrote is what it  *)
(* puts in its tables when it commits.                                     *)
(***************************************************************************)
EXTENDS Requests, Integers, FiniteSets

CONSTANTS
  Docs,      \* electronic documents (type and id)
  Packages,  \* packages the tenant may ask for
  Qty,       \* documents_qty of each of them
  Plan,      \* the slot is one of the plan's
  Plans,     \* what the plan's row may say: [unlimited, limit]
  Months,    \* bound: months of the subscription
  MaxChanges \* bound: changes of the plan

ASSUME QuotaAssumption ==
  /\ IsFiniteSet(Docs) /\ IsFiniteSet(Request)
  /\ Qty \in Nat /\ Months \in Nat \ {0} /\ MaxChanges \in Nat
  /\ Plans # {} /\ Plans \subseteq [unlimited : BOOLEAN, limit : Nat]
  /\ \A q \in Plans : q.unlimited => q.limit = 0
  /\ {None, Plan} \cap (Docs \cup Request \cup Packages) = {} /\ None # Plan
  /\ None \notin [unlimited : BOOLEAN, limit : Nat, used : Nat]    \* is no row
  /\ None \notin [month : 1..Months, from : Packages \cup {Plan, None}]

VARIABLES
  plan,      \* saas_plans: the tenant's plan
  changes,   \* how often it changed (for the bound)
  month,     \* the month of the subscription it is now
  period,    \* saas_document_quota_periods: one row per month, None before it
  pkg,       \* saas_tenant_document_packages
  usage,     \* saas_electronic_document_usages: one row per document, or None
  rowLock,   \* who holds the lock of each period's row
  pkgLock,   \* who holds the lock of each package's row
  pc, doc,
  snap,      \* what the plain SELECTs of the transaction read
  at,        \* the month nowLima() told it
  row,       \* the period in memory
  slot       \* what the slot was taken from: the plan, a package, None

tables == <<plan, period, pkg, usage>>
locks  == <<rowLock, pkgLock>>
local  == <<pc, doc, snap, at, row, slot>>
clock  == <<month, changes>>
vars   == <<tables, clock, locks, local>>

NoPackage == [status |-> "none", used |-> 0, remaining |-> 0]

Init ==
  /\ plan \in Plans /\ month = 1 /\ changes = 0
  /\ period = [m \in 1..Months |-> None]
  /\ pkg = [p \in Packages |-> NoPackage]
  /\ usage = [d \in Docs |-> None]
  /\ rowLock = [m \in 1..Months |-> None] /\ pkgLock = [p \in Packages |-> None]
  /\ pc = [c \in Request |-> "idle"] /\ doc = [c \in Request |-> None]
  /\ snap = [c \in Request |-> None] /\ at = [c \in Request |-> 1]
  /\ row = [c \in Request |-> None] /\ slot = [c \in Request |-> None]

(* The transaction is over: its locks go with it.                          *)
End(c) ==
  /\ pc' = [pc EXCEPT ![c] = "idle"] /\ doc' = [doc EXCEPT ![c] = None]
  /\ snap' = [snap EXCEPT ![c] = None] /\ at' = [at EXCEPT ![c] = 1]
  /\ row' = [row EXCEPT ![c] = None] /\ slot' = [slot EXCEPT ![c] = None]
  /\ rowLock' = [m \in 1..Months |-> IF rowLock[m] = c THEN None ELSE rowLock[m]]
  /\ pkgLock' = [p \in Packages |-> IF pkgLock[p] = c THEN None ELSE pkgLock[p]]

Goto(c, label) == pc' = [pc EXCEPT ![c] = label]

-----------------------------------------------------------------------------
(* First SELECT: the usage row of the document (ReserveElectronicDocument, *)
(* nothing left to do when it is there) or the period (GetUsageView,       *)
(* EnsureQuotaPeriod: no document).  Nothing reads a row of the past.      *)
Begin(c, d) ==
  /\ pc[c] = "idle"
  /\ d # None => usage[d] = None
  /\ snap' = [snap EXCEPT ![c] = [plan |-> plan, period |->
                [m \in 1..Months |-> IF m < month THEN None ELSE period[m]]]]
  /\ doc' = [doc EXCEPT ![c] = d]
  /\ at' = [at EXCEPT ![c] = month]
  /\ Goto(c, "ensure")
  /\ UNCHANGED <<tables, clock, locks, row, slot>>

(* What syncPeriodQuotaFromPlanTx makes of the row it read.                *)
Synced(seen, q) ==
  [unlimited |-> q.unlimited, used |-> seen.used,
   limit |-> IF ~q.unlimited /\ seen.used > q.limit THEN seen.used ELSE q.limit]

(* After ensureQuotaPeriodTx: without a document there is nothing else to  *)
(* do; the unlimited flag is the one in memory.                            *)
Ensured(c, unlimited) ==
  Goto(c, IF doc[c] = None THEN "commit" ELSE IF unlimited THEN "record" ELSE "lock")

(* ensureQuotaPeriodTx; m is the month of nowLima(), called somewhere      *)
(* between Begin and this step.  The snapshot has that month's row: it is  *)
(* aligned with the plan, as both were read, by an UPDATE of its two       *)
(* columns when they differ.                                               *)
EnsureFound(c, m) ==
  LET seen    == snap[c].period[m]
      to      == Synced(seen, snap[c].plan)
      aligned == seen.unlimited = to.unlimited /\ seen.limit = to.limit
  IN  /\ pc[c] = "ensure" /\ m \in at[c]..month /\ seen # None
      /\ \/ aligned /\ UNCHANGED rowLock
         \/ /\ ~aligned /\ rowLock[m] = None
            /\ rowLock' = [rowLock EXCEPT ![m] = c]
      /\ row' = [row EXCEPT ![c] = to]
      /\ at' = [at EXCEPT ![c] = m] /\ snap' = [snap EXCEPT ![c] = None]
      /\ Ensured(c, to.unlimited)
      /\ UNCHANGED <<tables, clock, pkgLock, doc, slot>>

(* It has not: INSERT one.  The unique key makes it wait for another       *)
(* INSERT of the same month, and refuses it when that one committed.       *)
EnsureMissing(c, m) ==
  /\ pc[c] = "ensure" /\ m \in at[c]..month /\ snap[c].period[m] = None
  /\ rowLock[m] = None
  /\ at' = [at EXCEPT ![c] = m]
  /\ \/ /\ period[m] = None
        /\ rowLock' = [rowLock EXCEPT ![m] = c]
        /\ row' = [row EXCEPT ![c] = [unlimited |-> snap[c].plan.unlimited,
                                      limit |-> snap[c].plan.limit, used |-> 0]]
        /\ Ensured(c, snap[c].plan.unlimited) /\ snap' = [snap EXCEPT ![c] = None]
     \/ /\ period[m] # None
        /\ Goto(c, "reread") /\ UNCHANGED <<rowLock, row, snap>>
  /\ UNCHANGED <<tables, clock, pkgLock, doc, slot>>

(* The loser reads the row again, by a plain SELECT: the snapshot that had *)
(* no such row still has none, and the transaction fails.                  *)
Reread(c) ==
  /\ pc[c] = "reread"
  /\ End(c)
  /\ UNCHANGED <<tables, clock>>

(* The period's row as the transaction would read it now with a lock: its  *)
(* own INSERT or UPDATE if it made one, which holds the lock since then.   *)
LatestRow(c) ==
  LET m == at[c]
  IN  IF rowLock[m] # c THEN period[m]
      ELSE [row[c] EXCEPT !.used = IF period[m] = None THEN 0 ELSE period[m].used]

(* lockQuotaPeriod: SELECT FOR UPDATE.                                     *)
MemoryRow(c) == row[c]    \* goes on with the row of the plain SELECT
LockedRow(c) == LatestRow(c)

Lock(c) ==
  /\ pc[c] = "lock" /\ rowLock[at[c]] \in {None, c}
  /\ rowLock' = [rowLock EXCEPT ![at[c]] = c]
  /\ row' = [row EXCEPT ![c] = LockedRow(c)]
  /\ Goto(c, "consume")
  /\ UNCHANGED <<tables, clock, pkgLock, doc, snap, at, slot>>

-----------------------------------------------------------------------------
(* consumeSlotTx: the plan first,                                          *)
BelowLast(c)   == row[c].used + 1 < row[c].limit    \* off by one
PlanHasSlot(c) == row[c].used < row[c].limit

TakePlan(c) ==
  /\ pc[c] = "consume" /\ PlanHasSlot(c)
  /\ slot' = [slot EXCEPT ![c] = Plan]
  /\ Goto(c, "record")
  /\ UNCHANGED <<tables, clock, locks, doc, snap, at, row>>

(* then a package, locked before it is looked at (any of them: their order *)
(* is left out);                                                           *)
Approved(p) == pkg[p].status = "approved"    \* does not look at what remains
HasSlot(p)  == pkg[p].status = "approved" /\ pkg[p].remaining > 0

TakePackage(c, p) ==
  /\ pc[c] = "consume" /\ ~PlanHasSlot(c)
  /\ pkgLock[p] = None /\ HasSlot(p)
  /\ pkgLock' = [pkgLock EXCEPT ![p] = c]
  /\ slot' = [slot EXCEPT ![c] = p]
  /\ Goto(c, "record")
  /\ UNCHANGED <<tables, clock, rowLock, doc, snap, at, row>>

(* or ErrQuotaExceeded.                                                    *)
Exhausted(c) ==
  /\ pc[c] = "consume" /\ ~PlanHasSlot(c)
  /\ \A p \in Packages : ~HasSlot(p)
  /\ End(c)
  /\ UNCHANGED <<tables, clock>>

(* What the transaction leaves in the tables of periods and packages.      *)
WrittenRow(c) == [LatestRow(c) EXCEPT !.used = IF slot[c] = Plan THEN @ + 1 ELSE @]

WriteQuota(c) ==
  /\ period' = IF rowLock[at[c]] = c THEN [period EXCEPT ![at[c]] = WrittenRow(c)] ELSE period
  /\ pkg' = [p \in Packages |->
               IF p # slot[c] THEN pkg[p]
               ELSE [pkg[p] EXCEPT !.used = @ + 1, !.remaining = @ - 1]]

RecordAgain(c) ==    \* without the unique key
  /\ pc[c] = "record"
  /\ usage' = [usage EXCEPT ![doc[c]] = [month |-> at[c], from |-> slot[c]]]
  /\ WriteQuota(c)
  /\ End(c)
  /\ UNCHANGED <<plan, clock>>

(* recordUsageTx and the commit.  consumed_from is plan_base too when      *)
(* nothing was taken (unlimited plan): here None tells them apart.  The    *)
(* unique key refuses a document that another reservation recorded first:  *)
(* nothing of this one remains.                                            *)
Record(c) ==
  LET d == doc[c]
  IN  /\ pc[c] = "record"
      /\ \/ /\ usage[d] = None
            /\ usage' = [usage EXCEPT ![d] = [month |-> at[c], from |-> slot[c]]]
            /\ WriteQuota(c)
         \/ usage[d] # None /\ UNCHANGED <<period, pkg, usage>>
      /\ End(c)
      /\ UNCHANGED <<plan, clock>>

(* The commit of GetUsageView or EnsureQuotaPeriod.                        *)
CommitEnsure(c) ==
  /\ pc[c] = "commit"
  /\ WriteQuota(c)
  /\ End(c)
  /\ UNCHANGED <<plan, usage, clock>>

(* The connection is lost before the commit.                               *)
Lost(c) ==
  /\ pc[c] # "idle"
  /\ End(c)
  /\ UNCHANGED <<tables, clock>>

-----------------------------------------------------------------------------
(* The superadmin edits the plan (or the tenant changes to another one).   *)
ChangePlan ==
  /\ changes < MaxChanges /\ changes' = changes + 1
  /\ plan' \in Plans \ {plan}
  /\ UNCHANGED <<period, pkg, usage, month, locks, local>>

NextMonth ==
  /\ month < Months
  /\ month' = month + 1
  /\ UNCHANGED <<changes, tables, locks, local>>

(* PurchaseDocumentPackage: not for an unlimited plan; nothing to use yet. *)
Purchase(p) ==
  /\ pkg[p].status = "none" /\ ~plan.unlimited
  /\ pkg' = [pkg EXCEPT ![p].status = "pending_review"]
  /\ UNCHANGED <<plan, period, usage, clock, locks, local>>

(* ApproveTenantPackage and RejectTenantPackage: only once.                *)
Approve(p) ==
  /\ pkg[p].status = "pending_review" /\ pkgLock[p] = None
  /\ pkg' = [pkg EXCEPT ![p].status = "approved", ![p].remaining = Qty]
  /\ UNCHANGED <<plan, period, usage, clock, locks, local>>

Reject(p) ==
  /\ pkg[p].status = "pending_review" /\ pkgLock[p] = None
  /\ pkg' = [pkg EXCEPT ![p].status = "rejected"]
  /\ UNCHANGED <<plan, period, usage, clock, locks, local>>

(* ExpirePackagesForEndedCycles: one UPDATE, after the last month.  The    *)
(* subscription may still be in its days of grace: reservations go on.     *)
Expirable == {p \in Packages : pkg[p].status = "approved"}

ExpireForgotten(S) ==    \* leaves remaining_documents as it is
  pkg' = [p \in Packages |-> IF p \in S THEN [pkg[p] EXCEPT !.status = "expired"] ELSE pkg[p]]
MarkExpired(S) ==
  pkg' = [p \in Packages |-> IF p \in S THEN [pkg[p] EXCEPT !.status = "expired", !.remaining = 0]
                             ELSE pkg[p]]

Expire ==
  /\ month = Months /\ Expirable # {}
  /\ \A p \in Expirable : pkgLock[p] = None
  /\ MarkExpired(Expirable)
  /\ UNCHANGED <<plan, period, usage, clock, locks, local>>

-----------------------------------------------------------------------------
Transaction(c) ==
  \/ \E d \in Docs \cup {None} : Begin(c, d)
  \/ \E m \in 1..Months : EnsureFound(c, m) \/ EnsureMissing(c, m)
  \/ Reread(c) \/ Lock(c)
  \/ TakePlan(c) \/ \E p \in Packages : TakePackage(c, p)
  \/ Exhausted(c) \/ Record(c) \/ CommitEnsure(c) \/ Lost(c)

Admin ==
  \/ ChangePlan \/ NextMonth \/ Expire
  \/ \E p \in Packages : Purchase(p) \/ Approve(p) \/ Reject(p)

Next == Admin \/ \E c \in Request : Transaction(c)

Spec == Init /\ [][Next]_vars

-----------------------------------------------------------------------------
PeriodRow  == [unlimited : BOOLEAN, limit : Nat, used : Nat]
PackageRow == [status : {"none", "pending_review", "approved", "rejected", "expired"},
               used : Nat, remaining : Nat]
UsageRow   == [month : 1..Months, from : Packages \cup {Plan, None}]
Snapshot   == [plan : Plans, period : [1..Months -> PeriodRow \cup {None}]]

(* Types, and what each point of a transaction knows.                      *)
TypeOK ==
  /\ plan \in Plans /\ month \in 1..Months /\ changes \in 0..MaxChanges
  /\ period \in [1..Months -> PeriodRow \cup {None}]
  /\ pkg \in [Packages -> PackageRow]
  /\ usage \in [Docs -> UsageRow \cup {None}]
  /\ rowLock \in [1..Months -> Request \cup {None}]
  /\ pkgLock \in [Packages -> Request \cup {None}]
  /\ pc \in [Request -> {"idle", "ensure", "reread", "lock", "consume", "record", "commit"}]
  /\ doc \in [Request -> Docs \cup {None}]
  /\ snap \in [Request -> Snapshot \cup {None}]
  /\ at \in [Request -> 1..Months]
  /\ row \in [Request -> PeriodRow \cup {None}]
  /\ slot \in [Request -> Packages \cup {Plan, None}]

PlanRows(m)    == {d \in Docs : usage[d] # None /\ usage[d].from = Plan /\ usage[d].month = m}
PackageRows(p) == {d \in Docs : usage[d] # None /\ usage[d].from = p}

(* documents_used of a month is the number of documents recorded against   *)
(* the plan in it: no reservation that fails, is repeated or loses its     *)
(* connection leaves a slot used up (ReserveElectronicDocument).           *)
PlanSlots ==
  \A m \in 1..Months :
    IF period[m] = None THEN PlanRows(m) = {}
    ELSE period[m].used = Cardinality(PlanRows(m))

(* A package gives exactly the documents that were paid for: what it was   *)
(* used for is recorded, what remains is the rest while it is approved,    *)
(* and nothing remains of one that expired under a reservation             *)
(* (consumeSlotTx, ApproveTenantPackage, ExpirePackagesForEndedCycles).    *)
PackageSlots ==
  \A p \in Packages :
    /\ pkg[p].used = Cardinality(PackageRows(p))
    /\ pkg[p].remaining = IF pkg[p].status = "approved" THEN Qty - pkg[p].used ELSE 0

Used(m)      == IF period[m] = None THEN 0 ELSE period[m].used

(* A slot of the plan is given only below the limit in force when it is    *)
(* committed, whatever the transaction read when it began and however the  *)
(* plan changed since (lockQuotaPeriod, consumeSlotTx).                    *)
WithinLimit ==
  [][\A m \in 1..Months : Used(m)' > Used(m) => Used(m)' <= period'[m].limit]_vars

(* A paid package is not touched while the month still has slots of the    *)
(* plan (consumeSlotTx: the plan first).                                   *)
PlanFirst ==
  [][\A d \in Docs : usage[d] = None /\ usage'[d] # None /\ usage'[d].from \in Packages
       => LET r == period'[usage'[d].month] IN r.used >= r.limit]_vars

(* The comment on ensureQuotaPeriodTx: of two first reservations of a      *)
(* month, the one that loses the INSERT rereads the row of the other.      *)
LoserRereads == \A c \in Request : pc[c] = "reread" => snap[c].period[at[c]] # None
=============================================================================
