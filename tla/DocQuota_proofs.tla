--------------------------- MODULE DocQuota_proofs ---------------------------
(***************************************************************************)
(* Proofs about DocQuota, for any number of documents, transactions and    *)
(* packages, any set of plans and any number of months.  What a            *)
(* transaction knows at each point (Known) is the heart of it: from the    *)
(* moment it has locked a row until it commits, nobody else can change     *)
(* what it decided on.                                                     *)
(***************************************************************************)
EXTENDS DocQuota, FiniteSetTheorems, TLAPS

Ensuring == {"lock", "consume", "record", "commit"}    \* past ensureQuotaPeriodTx

(* The row in memory is the latest one, and locked.                        *)
HoldsLatest(c) == rowLock[at[c]] = c /\ row[c].used = Used(at[c])

Known(c) ==
  /\ pc[c] = "ensure" =>
       /\ snap[c] \in Snapshot
       /\ \A m \in 1..Months : snap[c].period[m] # None => period[m] # None
  /\ pc[c] \in Ensuring =>
       row[c] \in PeriodRow /\ (rowLock[at[c]] = c \/ period[at[c]] # None)
  /\ pc[c] \in {"lock", "consume", "record"} => doc[c] \in Docs
  /\ pc[c] = "consume" => HoldsLatest(c)
  /\ pc[c] # "record" => slot[c] = None
  /\ slot[c] # None => HoldsLatest(c)
  /\ slot[c] = Plan => PlanHasSlot(c)
  /\ slot[c] \in Packages => pkgLock[slot[c]] = c /\ HasSlot(slot[c]) /\ ~PlanHasSlot(c)

(* Nothing is used of a package before it is approved.                     *)
Unused == \A p \in Packages : pkg[p].status \in {"none", "pending_review"} => pkg[p].used = 0

IInv == /\ TypeOK /\ (\A c \in Request : Known(c)) /\ Unused
        /\ PlanSlots /\ PackageSlots

USE DEF tables, locks, local, clock, Goto

-----------------------------------------------------------------------------
(* A transaction writes its tables when it records or commits, only.       *)
LEMMA Writers ==
  ASSUME NEW c \in Request, Transaction(c)
  PROVE  Record(c) \/ CommitEnsure(c) \/ UNCHANGED <<period, pkg, usage>>
BY DEF Transaction, Begin, EnsureFound, EnsureMissing, Reread, Lock, TakePlan, TakePackage,
       Exhausted, Lost

(* The rest of the system writes neither periods nor usages.               *)
LEMMA AdminWrites == ASSUME Admin PROVE UNCHANGED <<period, usage>>
BY DEF Admin, ChangePlan, NextMonth, Purchase, Approve, Reject, Expire

(* A locking read gives a row, with the count of the table.                *)
LEMMA Latest ==
  ASSUME TypeOK, NEW c \in Request, Known(c), pc[c] \in Ensuring
  PROVE  LatestRow(c) \in PeriodRow /\ LatestRow(c).used = Used(at[c])
<1>1. at[c] \in 1..Months /\ period[at[c]] \in PeriodRow \cup {None} BY DEF TypeOK
<1>2. CASE rowLock[at[c]] # c BY <1>1, <1>2 DEF Known, LatestRow, Used
<1>3. CASE rowLock[at[c]] = c
  <2>1. row[c] \in PeriodRow BY DEF Known
  <2> QED BY <1>1, <1>3, <2>1 DEF LatestRow, Used, PeriodRow
<1> QED BY <1>2, <1>3

(* What a transaction leaves in the table of periods: rows stay rows, and  *)
(* only a slot of the plan moves a count, by one, below the limit.         *)
LEMMA Written ==
  ASSUME TypeOK, NEW c \in Request, Known(c), pc[c] \in {"record", "commit"}, WriteQuota(c)
  PROVE  /\ period' \in [1..Months -> PeriodRow \cup {None}]
         /\ \A m \in 1..Months : period[m] # None => period'[m] # None
         /\ \A m \in 1..Months : rowLock[m] # c => period'[m] = period[m]
         /\ \A m \in 1..Months : m # at[c] \/ slot[c] # Plan => Used(m)' = Used(m)
         /\ \A m \in 1..Months : m = at[c] /\ slot[c] = Plan =>
              /\ period'[m] # None
              /\ Used(m)' = Used(m) + 1
              /\ Used(m)' \leq period'[m].limit
         /\ slot[c] \in Packages => period'[at[c]].used >= period'[at[c]].limit
<1> DEFINE m0 == at[c]  w == WrittenRow(c)
<1>1. m0 \in 1..Months /\ period \in [1..Months -> PeriodRow \cup {None}] BY DEF TypeOK
<1>2. LatestRow(c) \in PeriodRow /\ LatestRow(c).used = Used(m0) BY Latest DEF Ensuring
<1>3. /\ w \in PeriodRow /\ w.limit = LatestRow(c).limit
      /\ w.used = IF slot[c] = Plan THEN Used(m0) + 1 ELSE Used(m0)
  BY <1>2 DEF WrittenRow, PeriodRow
<1>4. w # None /\ PeriodRow = [unlimited : BOOLEAN, limit : Nat, used : Nat]
  BY <1>3, QuotaAssumption DEF PeriodRow
<1>5. CASE rowLock[m0] # c
  <2>1. period' = period BY <1>5 DEF WriteQuota
  <2>2. slot[c] = None BY <1>5 DEF Known, HoldsLatest
  <2> QED BY <1>1, <2>1, <2>2, QuotaAssumption DEF Used
<1>6. CASE rowLock[m0] = c
  <2>1. period' = [period EXCEPT ![m0] = w] BY <1>6 DEF WriteQuota
  <2>2. period'[m0] = w /\ \A m \in 1..Months : m # m0 => period'[m] = period[m] BY <1>1, <2>1
  <2>3. period' \in [1..Months -> PeriodRow \cup {None}] BY <1>1, <1>3, <2>1
  <2>4. \A m \in 1..Months : Used(m)' = IF m = m0 THEN w.used ELSE Used(m)
    BY <1>4, <2>2 DEF Used
  <2>5. w.limit = row[c].limit BY <1>3, <1>6, <1>2 DEF LatestRow, Known, Ensuring, PeriodRow
  <2>6. row[c] \in PeriodRow BY DEF Known, Ensuring
  <2>7. slot[c] = Plan => w.used \leq w.limit
    BY <1>3, <2>5, <2>6, QuotaAssumption DEF Known, HoldsLatest, PlanHasSlot, PeriodRow
  <2>8. slot[c] \in Packages => w.used >= w.limit
    BY <1>3, <2>5, <2>6, QuotaAssumption DEF Known, HoldsLatest, PlanHasSlot, PeriodRow
  <2> QED BY <1>3, <1>4, <1>6, <2>2, <2>3, <2>4, <2>7, <2>8
<1> QED BY <1>5, <1>6

-----------------------------------------------------------------------------
LEMMA InitIInv == ASSUME Init PROVE IInv
<1>1. TypeOK
  BY QuotaAssumption DEF Init, TypeOK, PackageRow, NoPackage
<1>2. \A c \in Request : Known(c)
  BY QuotaAssumption DEF Init, Known, Ensuring
<1>3. Unused BY DEF Init, Unused, NoPackage
<1>4. PlanSlots BY DEF Init, PlanSlots, PlanRows
<1>5. \A p \in Packages : PackageRows(p) = {} BY DEF Init, PackageRows
<1>6. PackageSlots BY <1>5, FS_EmptySet DEF Init, PackageSlots, NoPackage
<1>7. \A m \in 1..Months : PlanRows(m) = {} BY DEF Init, PlanRows
<1> QED BY <1>1, <1>2, <1>3, <1>4, <1>6 DEF IInv

-----------------------------------------------------------------------------
(* The locks and the locals keep their types when a transaction ends.      *)
LEMMA EndType ==
  ASSUME TypeOK, NEW c \in Request, End(c)
  PROVE  /\ rowLock' \in [1..Months -> Request \cup {None}]
         /\ pkgLock' \in [Packages -> Request \cup {None}]
         /\ pc' \in [Request -> {"idle", "ensure", "reread", "lock", "consume", "record", "commit"}]
         /\ doc' \in [Request -> Docs \cup {None}]
         /\ snap' \in [Request -> Snapshot \cup {None}]
         /\ at' \in [Request -> 1..Months]
         /\ row' \in [Request -> PeriodRow \cup {None}]
         /\ slot' \in [Request -> Packages \cup {Plan, None}]
BY QuotaAssumption DEF TypeOK, End

(* The row a transaction takes a slot of keeps its type.                   *)
LEMMA PackageType ==
  ASSUME TypeOK, NEW c \in Request, Known(c), WriteQuota(c)
  PROVE  pkg' \in [Packages -> PackageRow]
<1> SUFFICES ASSUME NEW p \in Packages
             PROVE  (IF p # slot[c] THEN pkg[p]
                     ELSE [pkg[p] EXCEPT !.used = @ + 1, !.remaining = @ - 1]) \in PackageRow
  BY DEF WriteQuota
<1>1. pkg[p] \in PackageRow BY DEF TypeOK
<1>2. p = slot[c] => pkg[p].remaining > 0 BY DEF Known, HasSlot
<1>3. pkg[p].used + 1 \in Nat BY <1>1 DEF PackageRow
<1>4. p = slot[c] => pkg[p].remaining - 1 \in Nat BY <1>1, <1>2 DEF PackageRow
<1> QED BY <1>1, <1>3, <1>4 DEF PackageRow

LEMMA TypeStep == ASSUME IInv, Next PROVE TypeOK'
<1> USE DEF IInv
<1>1. ASSUME NEW c \in Request, NEW d \in Docs \cup {None}, Begin(c, d) PROVE TypeOK'
  <2>1. [plan |-> plan, period |-> [m \in 1..Months |-> IF m < month THEN None ELSE period[m]]]
          \in Snapshot
    BY DEF TypeOK, Snapshot
  <2> QED BY <1>1, <2>1 DEF Begin, TypeOK
<1>2. ASSUME NEW c \in Request, NEW m \in 1..Months, EnsureFound(c, m) PROVE TypeOK'
  <2>1. snap[c] \in Snapshot BY <1>2 DEF EnsureFound, Known
  <2>2. snap[c].period[m] \in PeriodRow /\ snap[c].plan \in [unlimited : BOOLEAN, limit : Nat]
    BY <1>2, <2>1, QuotaAssumption DEF EnsureFound, Snapshot
  <2>3. Synced(snap[c].period[m], snap[c].plan) \in PeriodRow BY <2>2 DEF Synced, PeriodRow
  <2> QED BY <1>2, <2>3 DEF EnsureFound, Ensured, TypeOK
<1>3. ASSUME NEW c \in Request, NEW m \in 1..Months, EnsureMissing(c, m) PROVE TypeOK'
  <2>1. snap[c] \in Snapshot BY <1>3 DEF EnsureMissing, Known
  <2>2. snap[c].plan \in [unlimited : BOOLEAN, limit : Nat]
    BY <2>1, QuotaAssumption DEF Snapshot
  <2>3. [unlimited |-> snap[c].plan.unlimited, limit |-> snap[c].plan.limit, used |-> 0] \in PeriodRow
    BY <2>2 DEF PeriodRow
  <2>4. \E l \in {"commit", "record", "lock", "reread"} : Goto(c, l)
    BY <1>3 DEF EnsureMissing, Ensured
  <2>5. pc' \in [Request -> {"idle", "ensure", "reread", "lock", "consume", "record", "commit"}]
    BY <2>4 DEF TypeOK
  <2>6. CASE period[m] = None
    <3>1. /\ rowLock' = [rowLock EXCEPT ![m] = c] /\ snap' = [snap EXCEPT ![c] = None]
          /\ row' = [row EXCEPT ![c] = [unlimited |-> snap[c].plan.unlimited,
                                       limit |-> snap[c].plan.limit, used |-> 0]]
      BY <1>3, <2>6 DEF EnsureMissing
    <3> QED BY <1>3, <2>3, <2>5, <3>1 DEF EnsureMissing, TypeOK
  <2>7. CASE period[m] # None
    BY <1>3, <2>5, <2>7 DEF EnsureMissing, TypeOK
  <2> QED BY <2>6, <2>7
<1>4. ASSUME NEW c \in Request, Reread(c) \/ Exhausted(c) \/ Lost(c) PROVE TypeOK'
  BY <1>4, EndType DEF Reread, Exhausted, Lost, TypeOK
<1>5. ASSUME NEW c \in Request, Lock(c) PROVE TypeOK'
  <2>1. LatestRow(c) \in PeriodRow BY <1>5, Latest DEF Lock, Ensuring
  <2> QED BY <1>5, <2>1 DEF Lock, LockedRow, TypeOK
<1>6. ASSUME NEW c \in Request, TakePlan(c) PROVE TypeOK' BY <1>6 DEF TakePlan, TypeOK
<1>7. ASSUME NEW c \in Request, NEW p \in Packages, TakePackage(c, p) PROVE TypeOK'
  BY <1>7 DEF TakePackage, TypeOK
<1>8. ASSUME NEW c \in Request, Record(c) PROVE TypeOK'
  <2>1. doc[c] \in Docs /\ at[c] \in 1..Months /\ slot[c] \in Packages \cup {Plan, None}
    BY <1>8 DEF Record, Known, TypeOK
  <2>2. usage' \in [Docs -> UsageRow \cup {None}]
    BY <1>8, <2>1 DEF Record, TypeOK, UsageRow
  <2>3. period' \in [1..Months -> PeriodRow \cup {None}] /\ pkg' \in [Packages -> PackageRow]
    BY <1>8, Written, PackageType DEF Record, TypeOK
  <2> QED BY <1>8, <2>2, <2>3, EndType DEF Record, TypeOK
<1>9. ASSUME NEW c \in Request, CommitEnsure(c) PROVE TypeOK'
  <2>1. period' \in [1..Months -> PeriodRow \cup {None}] /\ pkg' \in [Packages -> PackageRow]
    BY <1>9, Written, PackageType DEF CommitEnsure
  <2> QED BY <1>9, <2>1, EndType DEF CommitEnsure, TypeOK
<1>10. ASSUME ChangePlan \/ NextMonth PROVE TypeOK'
  BY <1>10, QuotaAssumption DEF ChangePlan, NextMonth, TypeOK
<1>11. ASSUME NEW p \in Packages, Purchase(p) \/ Approve(p) \/ Reject(p) PROVE TypeOK'
  <2>1. pkg[p] \in PackageRow /\ Qty \in Nat BY QuotaAssumption DEF TypeOK
  <2>2. /\ [pkg[p] EXCEPT !.status = "pending_review"] \in PackageRow
        /\ [pkg[p] EXCEPT !.status = "approved", !.remaining = Qty] \in PackageRow
        /\ [pkg[p] EXCEPT !.status = "rejected"] \in PackageRow
    BY <2>1 DEF PackageRow
  <2>3. pkg' \in [Packages -> PackageRow]
    BY <1>11, <2>2 DEF Purchase, Approve, Reject, TypeOK
  <2> QED BY <1>11, <2>3 DEF Purchase, Approve, Reject, TypeOK
<1>12. ASSUME Expire PROVE TypeOK'
  <2>1. ASSUME NEW p \in Packages
        PROVE  [pkg[p] EXCEPT !.status = "expired", !.remaining = 0] \in PackageRow
    <3>1. pkg[p] \in PackageRow BY DEF TypeOK
    <3> QED BY <3>1 DEF PackageRow
  <2>2. \A p \in Packages : pkg[p] \in PackageRow BY DEF TypeOK
  <2>3. pkg' \in [Packages -> PackageRow] BY <1>12, <2>1, <2>2 DEF Expire, MarkExpired
  <2> QED BY <1>12, <2>3 DEF Expire, TypeOK
<1> QED BY <1>1, <1>2, <1>3, <1>4, <1>5, <1>6, <1>7, <1>8, <1>9, <1>10, <1>11, <1>12
        DEF Next, Admin, Transaction

-----------------------------------------------------------------------------
(* What a step of somebody else leaves alone of transaction d.             *)
Frame(d) ==
  /\ pc'[d] = pc[d] /\ doc'[d] = doc[d] /\ snap'[d] = snap[d]
  /\ at'[d] = at[d] /\ row'[d] = row[d] /\ slot'[d] = slot[d]
  /\ \A m \in 1..Months : /\ period[m] # None => period'[m] # None
                          /\ rowLock[m] = d => rowLock'[m] = d /\ period'[m] = period[m]
  /\ \A p \in Packages : pkgLock[p] = d => pkgLock'[p] = d /\ (HasSlot(p) => HasSlot(p)')

LEMMA Framed ==
  ASSUME TypeOK, NEW d \in Request, Known(d), Frame(d)
  PROVE  Known(d)'
<1>1. at[d] \in 1..Months BY DEF TypeOK
<1>2. rowLock[at[d]] = d => rowLock'[at[d]] = d /\ period'[at[d]] = period[at[d]]
  BY <1>1 DEF Frame
<1>3. HoldsLatest(d) => HoldsLatest(d)' BY <1>2 DEF HoldsLatest, Used, Frame
<1>4. PlanHasSlot(d)' <=> PlanHasSlot(d) BY DEF PlanHasSlot, Frame
<1>5. slot[d] \in Packages => (pkgLock[slot[d]] = d => pkgLock'[slot[d]] = d)
                             /\ (pkgLock[slot[d]] = d /\ HasSlot(slot[d]) => HasSlot(slot[d])')
  BY DEF Frame, HasSlot
<1>6. pc[d] = "ensure" => \A m \in 1..Months : snap'[d].period[m] # None => period'[m] # None
  BY DEF Known, Frame
<1>7. pc[d] \in Ensuring =>
        row'[d] \in PeriodRow /\ (rowLock'[at'[d]] = d \/ period'[at'[d]] # None)
  BY <1>1, <1>2 DEF Known, Frame
<1>8. slot[d] \in Packages => pkgLock'[slot'[d]] = d /\ HasSlot(slot[d])' /\ ~PlanHasSlot(d)'
  BY <1>4, <1>5 DEF Known, Frame
<1> QED BY <1>3, <1>4, <1>6, <1>7, <1>8 DEF Known, Frame, Ensuring, HasSlot

(* The locks of others are not touched by the end of a transaction.        *)
LEMMA EndFrame ==
  ASSUME TypeOK, NEW c \in Request, NEW d \in Request, c # d, End(c),
         UNCHANGED <<period, pkg>>
  PROVE  Frame(d)
BY DEF TypeOK, End, Frame, HasSlot

(* What a transaction writes is its own: rows and packages it has locked.  *)
LEMMA WriteFrame ==
  ASSUME TypeOK, NEW c \in Request, NEW d \in Request, c # d, Known(c), End(c),
         \/ pc[c] \in {"record", "commit"} /\ WriteQuota(c)
         \/ UNCHANGED <<period, pkg>>
  PROVE  Frame(d)
<1>1. CASE UNCHANGED <<period, pkg>> BY <1>1, EndFrame
<1>2. CASE pc[c] \in {"record", "commit"} /\ WriteQuota(c)
  <2>1. \A m \in 1..Months : /\ period[m] # None => period'[m] # None
                             /\ rowLock[m] # c => period'[m] = period[m]
    BY <1>2, Written
  <2>2. \A p \in Packages : pkgLock[p] = d => p # slot[c] BY DEF Known
  <2>3. \A p \in Packages : pkgLock[p] = d => pkg'[p] = pkg[p] BY <1>2, <2>2 DEF WriteQuota
  <2>4. ASSUME NEW m \in 1..Months, rowLock[m] = d
        PROVE  rowLock'[m] = d /\ period'[m] = period[m]
    <3>1. period'[m] = period[m] BY <2>1, <2>4
    <3>2. rowLock'[m] = d BY <2>4 DEF End
    <3> QED BY <3>1, <3>2
  <2>5. \A p \in Packages : pkgLock[p] = d => pkgLock'[p] = d BY DEF TypeOK, End
  <2>6. /\ pc'[d] = pc[d] /\ doc'[d] = doc[d] /\ snap'[d] = snap[d]
        /\ at'[d] = at[d] /\ row'[d] = row[d] /\ slot'[d] = slot[d]
    BY DEF TypeOK, End
  <2>7. \A p \in Packages : pkgLock[p] = d => (HasSlot(p) => HasSlot(p)') BY <2>3 DEF HasSlot
  <2> QED BY <2>1, <2>4, <2>5, <2>6, <2>7 DEF Frame
<1> QED BY <1>1, <1>2

(* A transaction that ended knows nothing any more.                        *)
LEMMA EndKnown ==
  ASSUME TypeOK, NEW c \in Request, End(c)
  PROVE  Known(c)'
BY QuotaAssumption DEF TypeOK, End, Known, Ensuring

LEMMA AdminFrame ==
  ASSUME TypeOK, NEW d \in Request, Admin
  PROVE  Frame(d)
<1>1. ASSUME NEW p \in Packages, Purchase(p) \/ Approve(p) \/ Reject(p) PROVE Frame(d)
  <2>1. \A q \in Packages : HasSlot(q) => HasSlot(q)'
    BY <1>1 DEF Purchase, Approve, Reject, HasSlot, TypeOK
  <2> QED BY <1>1, <2>1 DEF Purchase, Approve, Reject, Frame
<1>2. ASSUME Expire PROVE Frame(d)
  <2>1. \A q \in Packages : pkgLock[q] = d => q \notin Expirable
    BY <1>2, QuotaAssumption DEF Expire
  <2>2. \A q \in Packages : pkgLock[q] = d /\ HasSlot(q) => HasSlot(q)'
    BY <2>1 DEF Expirable, HasSlot
  <2> QED BY <1>2, <2>2 DEF Expire, Frame
<1>3. ASSUME ChangePlan \/ NextMonth PROVE Frame(d)
  BY <1>3 DEF ChangePlan, NextMonth, Frame, HasSlot
<1> QED BY <1>1, <1>2, <1>3 DEF Admin

LEMMA OthersFrame ==
  ASSUME IInv, NEW c \in Request, Transaction(c), NEW d \in Request, c # d
  PROVE  Frame(d)
<1> USE DEF IInv
<1>1. ASSUME NEW e \in Docs \cup {None}, Begin(c, e) PROVE Frame(d)
  BY <1>1 DEF Begin, Frame, HasSlot, TypeOK
<1>2. ASSUME NEW m \in 1..Months, EnsureFound(c, m) PROVE Frame(d)
  BY <1>2, QuotaAssumption DEF EnsureFound, Ensured, Frame, HasSlot, TypeOK
<1>3. ASSUME NEW m \in 1..Months, EnsureMissing(c, m) PROVE Frame(d)
  BY <1>3, QuotaAssumption DEF EnsureMissing, Ensured, Frame, HasSlot, TypeOK
<1>4. ASSUME Lock(c) PROVE Frame(d)
  BY <1>4, QuotaAssumption DEF Lock, Frame, HasSlot, TypeOK
<1>5. ASSUME TakePlan(c) PROVE Frame(d) BY <1>5 DEF TakePlan, Frame, HasSlot, TypeOK
<1>6. ASSUME NEW p \in Packages, TakePackage(c, p) PROVE Frame(d)
  BY <1>6, QuotaAssumption DEF TakePackage, Frame, HasSlot, TypeOK
<1>7. ASSUME Reread(c) \/ Exhausted(c) \/ Lost(c) PROVE Frame(d)
  BY <1>7, EndFrame DEF Reread, Exhausted, Lost
<1>8. ASSUME Record(c) PROVE Frame(d)
  BY <1>8, WriteFrame DEF Record
<1>9. ASSUME CommitEnsure(c) PROVE Frame(d)
  BY <1>9, WriteFrame DEF CommitEnsure
<1> QED BY <1>1, <1>2, <1>3, <1>4, <1>5, <1>6, <1>7, <1>8, <1>9 DEF Transaction

LEMMA OwnKnown ==
  ASSUME IInv, NEW c \in Request, Transaction(c)
  PROVE  Known(c)'
<1> USE DEF IInv
<1>1. ASSUME NEW d \in Docs \cup {None}, Begin(c, d) PROVE Known(c)'
  <2>1. [plan |-> plan, period |-> [m \in 1..Months |-> IF m < month THEN None ELSE period[m]]]
          \in Snapshot
    BY DEF TypeOK, Snapshot
  <2>2. slot'[c] = None /\ pc'[c] = "ensure" BY <1>1 DEF Begin, Known, TypeOK
  <2> QED BY <1>1, <2>1, <2>2, QuotaAssumption DEF Begin, Known, TypeOK, Ensuring
<1>2. ASSUME NEW m \in 1..Months, EnsureFound(c, m) PROVE Known(c)'
  <2>1. snap[c] \in Snapshot /\ period[m] # None BY <1>2 DEF EnsureFound, Known
  <2>2. snap[c].period[m] \in PeriodRow /\ snap[c].plan \in [unlimited : BOOLEAN, limit : Nat]
    BY <1>2, <2>1, QuotaAssumption DEF EnsureFound, Snapshot
  <2>3. Synced(snap[c].period[m], snap[c].plan) \in PeriodRow BY <2>2 DEF Synced, PeriodRow
  <2>4. /\ pc'[c] \in {"commit", "record", "lock"} /\ (pc'[c] # "commit" => doc'[c] \in Docs)
        /\ slot'[c] = None /\ row'[c] \in PeriodRow /\ period'[at'[c]] # None
    BY <1>2, <2>1, <2>3 DEF EnsureFound, Ensured, Known, TypeOK
  <2> QED BY <2>4, QuotaAssumption DEF Known, Ensuring
<1>3. ASSUME NEW m \in 1..Months, EnsureMissing(c, m) PROVE Known(c)'
  <2>1. slot'[c] = None BY <1>3 DEF EnsureMissing, Known
  <2>2. CASE period[m] # None
    <3>1. pc'[c] = "reread" BY <1>3, <2>2 DEF EnsureMissing, TypeOK
    <3> QED BY <2>1, <3>1, QuotaAssumption DEF Known, Ensuring
  <2>3. CASE period[m] = None
    <3>1. snap[c].plan \in [unlimited : BOOLEAN, limit : Nat]
      BY <1>3, QuotaAssumption DEF EnsureMissing, Known, Snapshot
    <3>2. [unlimited |-> snap[c].plan.unlimited, limit |-> snap[c].plan.limit, used |-> 0]
            \in PeriodRow
      BY <3>1 DEF PeriodRow
    <3>3. row'[c] \in PeriodRow /\ rowLock'[at'[c]] = c
      BY <1>3, <2>3, <3>2 DEF EnsureMissing, TypeOK
    <3>4. pc'[c] \in {"commit", "record", "lock"} /\ (pc'[c] # "commit" => doc'[c] \in Docs)
      BY <1>3, <2>3 DEF EnsureMissing, Ensured, TypeOK
    <3> QED BY <2>1, <3>3, <3>4, QuotaAssumption DEF Known, Ensuring
  <2> QED BY <2>2, <2>3
<1>4. ASSUME Lock(c) PROVE Known(c)'
  <2>1. LatestRow(c) \in PeriodRow /\ LatestRow(c).used = Used(at[c])
    BY <1>4, Latest DEF Lock, Ensuring
  <2>2. /\ row'[c] \in PeriodRow /\ HoldsLatest(c)' /\ slot'[c] = None
        /\ pc'[c] = "consume" /\ doc'[c] \in Docs
    BY <1>4, <2>1 DEF Lock, LockedRow, HoldsLatest, Used, Known, TypeOK
  <2> QED BY <2>2, QuotaAssumption DEF Known, Ensuring, HoldsLatest
<1>5. ASSUME TakePlan(c) PROVE Known(c)'
  BY <1>5, QuotaAssumption DEF TakePlan, Known, TypeOK, Ensuring, HoldsLatest, Used, PlanHasSlot
<1>6. ASSUME NEW p \in Packages, TakePackage(c, p) PROVE Known(c)'
  BY <1>6, QuotaAssumption DEF TakePackage, Known, TypeOK, Ensuring, HoldsLatest, Used,
     PlanHasSlot, HasSlot
<1>7. ASSUME Reread(c) \/ Exhausted(c) \/ Lost(c) \/ Record(c) \/ CommitEnsure(c)
      PROVE  Known(c)'
  BY <1>7, EndKnown DEF Reread, Exhausted, Lost, Record, CommitEnsure
<1> QED BY <1>1, <1>2, <1>3, <1>4, <1>5, <1>6, <1>7 DEF Transaction

LEMMA KnownStep == ASSUME IInv, Next PROVE \A d \in Request : Known(d)'
<1> SUFFICES ASSUME NEW d \in Request PROVE Known(d)' OBVIOUS
<1>1. CASE Admin BY <1>1, AdminFrame, Framed DEF IInv
<1>2. ASSUME NEW c \in Request, Transaction(c) PROVE Known(d)'
  <2>1. CASE c = d BY <1>2, <2>1, OwnKnown
  <2>2. CASE c # d BY <1>2, <2>2, OthersFrame, Framed DEF IInv
  <2> QED BY <2>1, <2>2
<1> QED BY <1>1, <1>2 DEF Next

-----------------------------------------------------------------------------
(* Recording a document adds it to the rows of one month or package.       *)
LEMMA Counted ==
  ASSUME NEW S, NEW T, NEW d, IsFiniteSet(S), d \notin S, T = S \cup {d}
  PROVE  Cardinality(T) = Cardinality(S) + 1
BY FS_AddElement

LEMMA RowsFinite ==
  /\ \A m : IsFiniteSet(PlanRows(m)) /\ Cardinality(PlanRows(m)) \in Nat
  /\ \A p : IsFiniteSet(PackageRows(p)) /\ Cardinality(PackageRows(p)) \in Nat
<1>1. \A m : IsFiniteSet(PlanRows(m))
  BY QuotaAssumption, FS_Subset DEF PlanRows
<1>2. \A p : IsFiniteSet(PackageRows(p))
  BY QuotaAssumption, FS_Subset DEF PackageRows
<1> QED BY <1>1, <1>2, FS_CardinalityType

LEMMA Recorded ==
  ASSUME TypeOK, NEW c \in Request, Known(c), pc[c] = "record", usage[doc[c]] = None,
         usage' = [usage EXCEPT ![doc[c]] = [month |-> at[c], from |-> slot[c]]]
  PROVE  /\ \A m \in 1..Months :
              /\ m = at[c] /\ slot[c] = Plan =>
                   Cardinality(PlanRows(m)') = Cardinality(PlanRows(m)) + 1
              /\ m # at[c] \/ slot[c] # Plan => PlanRows(m)' = PlanRows(m)
         /\ \A p \in Packages :
              /\ p = slot[c] =>
                   Cardinality(PackageRows(p)') = Cardinality(PackageRows(p)) + 1
              /\ p # slot[c] => PackageRows(p)' = PackageRows(p)
<1> DEFINE u == [month |-> at[c], from |-> slot[c]]
<1>1. doc[c] \in Docs /\ usage \in [Docs -> UsageRow \cup {None}] BY DEF Known, TypeOK
<1>2. u # None
  <2>1. u \in [month : 1..Months, from : Packages \cup {Plan, None}] BY DEF TypeOK
  <2> QED BY <2>1, QuotaAssumption
<1>3. usage'[doc[c]] = u /\ \A d \in Docs : d # doc[c] => usage'[d] = usage[d] BY <1>1
<1>4. \A m : doc[c] \notin PlanRows(m) BY DEF PlanRows
<1>5. \A p : doc[c] \notin PackageRows(p) BY DEF PackageRows
<1>6. \A m \in 1..Months : PlanRows(m)' = IF m = at[c] /\ slot[c] = Plan
                                           THEN PlanRows(m) \cup {doc[c]} ELSE PlanRows(m)
  BY <1>1, <1>2, <1>3, <1>4 DEF PlanRows
<1>7. \A p \in Packages : PackageRows(p)' = IF p = slot[c]
                                             THEN PackageRows(p) \cup {doc[c]} ELSE PackageRows(p)
  BY <1>1, <1>2, <1>3, <1>5 DEF PackageRows
<1> QED BY <1>4, <1>5, <1>6, <1>7, RowsFinite, Counted

(* Every step but a first recording keeps the rows of usages.              *)
LEMMA SameRows ==
  ASSUME UNCHANGED usage
  PROVE  (\A m : PlanRows(m)' = PlanRows(m)) /\ (\A p : PackageRows(p)' = PackageRows(p))
BY DEF PlanRows, PackageRows

LEMMA PlanSlotsStep == ASSUME IInv, Next PROVE PlanSlots'
<1> USE DEF IInv
<1>1. ASSUME NEW c \in Request, Record(c), usage[doc[c]] = None, WriteQuota(c),
             usage' = [usage EXCEPT ![doc[c]] = [month |-> at[c], from |-> slot[c]]]
      PROVE  PlanSlots'
  <2> SUFFICES ASSUME NEW m \in 1..Months
               PROVE  IF period'[m] = None THEN PlanRows(m)' = {}
                      ELSE period'[m].used = Cardinality(PlanRows(m)')
    BY DEF PlanSlots
  <2>1. pc[c] = "record" BY <1>1 DEF Record
  <2>2. Used(m) = Cardinality(PlanRows(m)) /\ (period[m] = None => PlanRows(m) = {})
    BY FS_EmptySet DEF PlanSlots, Used
  <2>3. CASE m = at[c] /\ slot[c] = Plan
    <3>1. period'[m] # None /\ Used(m)' = Used(m) + 1 BY <1>1, <2>1, <2>3, Written
    <3>2. Cardinality(PlanRows(m)') = Cardinality(PlanRows(m)) + 1
      BY <1>1, <2>1, <2>3, Recorded
    <3>3. period'[m].used = Used(m)' BY <3>1 DEF Used
    <3> QED BY <2>2, <3>1, <3>2, <3>3
  <2>4. CASE m # at[c] \/ slot[c] # Plan
    BY <1>1, <2>1, <2>2, <2>4, Written, Recorded DEF Used
  <2> QED BY <2>3, <2>4
<1>2. ASSUME NEW c \in Request, CommitEnsure(c) PROVE PlanSlots'
  <2>1. \A m \in 1..Months : /\ Used(m)' = Used(m)
                             /\ period[m] # None => period'[m] # None
    BY <1>2, QuotaAssumption, Written DEF CommitEnsure, Known
  <2>2. \A m \in 1..Months : PlanRows(m)' = PlanRows(m) BY <1>2, SameRows DEF CommitEnsure
  <2> QED BY <2>1, <2>2, FS_EmptySet DEF PlanSlots, Used
<1>3. ASSUME UNCHANGED <<period, usage>> PROVE PlanSlots'
  BY <1>3, SameRows DEF PlanSlots
<1>4. ASSUME NEW c \in Request, Record(c) PROVE PlanSlots'
  BY <1>1, <1>3, <1>4 DEF Record
<1> QED BY <1>2, <1>3, <1>4, Writers, AdminWrites DEF Next

LEMMA PackageSlotsStep == ASSUME IInv, Next PROVE PackageSlots' /\ Unused'
<1> USE DEF IInv
<1>1. \A p \in Packages : pkg[p] \in PackageRow BY DEF TypeOK
<1>2. ASSUME NEW c \in Request, Record(c), usage[doc[c]] = None, WriteQuota(c),
             usage' = [usage EXCEPT ![doc[c]] = [month |-> at[c], from |-> slot[c]]]
      PROVE  PackageSlots' /\ Unused'
  <2>1. pc[c] = "record" BY <1>2 DEF Record
  <2>2. ASSUME NEW p \in Packages, p # slot[c]
        PROVE  pkg'[p] = pkg[p] /\ PackageRows(p)' = PackageRows(p)
    BY <1>2, <2>1, <2>2, Recorded DEF WriteQuota
  <2>3. ASSUME NEW p \in Packages, p = slot[c]
        PROVE  /\ pkg'[p].status = "approved" /\ pkg[p].status = "approved"
               /\ pkg'[p].used = pkg[p].used + 1 /\ pkg'[p].remaining = pkg[p].remaining - 1
               /\ Cardinality(PackageRows(p)') = Cardinality(PackageRows(p)) + 1
    <3>1. HasSlot(p) BY <2>3 DEF Known
    <3>2. pkg'[p] = [pkg[p] EXCEPT !.used = pkg[p].used + 1, !.remaining = pkg[p].remaining - 1]
      BY <1>2, <2>3 DEF WriteQuota
    <3>3. Cardinality(PackageRows(p)') = Cardinality(PackageRows(p)) + 1
      BY <1>2, <2>1, <2>3, Recorded
    <3> QED BY <1>1, <3>1, <3>2, <3>3 DEF HasSlot, PackageRow
  <2>4. PackageSlots'
    <3> SUFFICES ASSUME NEW p \in Packages
                 PROVE  /\ pkg'[p].used = Cardinality(PackageRows(p)')
                        /\ pkg'[p].remaining =
                             IF pkg'[p].status = "approved" THEN Qty - pkg'[p].used ELSE 0
      BY DEF PackageSlots
    <3>1. CASE p # slot[c] BY <2>2, <3>1 DEF PackageSlots
    <3>2. CASE p = slot[c] BY <1>1, <2>3, <3>2, QuotaAssumption DEF PackageSlots, PackageRow
    <3> QED BY <3>1, <3>2
  <2>5. Unused' BY <2>2, <2>3 DEF Unused
  <2> QED BY <2>4, <2>5
<1>3. ASSUME UNCHANGED <<pkg, usage>> PROVE PackageSlots' /\ Unused'
  BY <1>3, SameRows DEF PackageSlots, Unused
<1>4. ASSUME NEW c \in Request, CommitEnsure(c) PROVE PackageSlots' /\ Unused'
  <2>1. slot[c] = None BY <1>4 DEF CommitEnsure, Known
  <2>2. pkg' = pkg BY <1>4, <2>1, QuotaAssumption DEF CommitEnsure, WriteQuota, TypeOK
  <2> QED BY <1>3, <1>4, <2>2 DEF CommitEnsure
<1>5. ASSUME NEW p \in Packages, Purchase(p) \/ Approve(p) \/ Reject(p)
      PROVE  PackageSlots' /\ Unused'
  <2>1. \A q \in Packages : PackageRows(q)' = PackageRows(q)
    BY <1>5, SameRows DEF Purchase, Approve, Reject
  <2>2. \A q \in Packages : q # p => pkg'[q] = pkg[q]
    BY <1>5 DEF Purchase, Approve, Reject, TypeOK
  <2>3. /\ pkg[p].used = 0 /\ pkg'[p].used = 0 /\ pkg[p].remaining = 0
        /\ pkg'[p].remaining = IF pkg'[p].status = "approved" THEN Qty ELSE 0
    BY <1>1, <1>5 DEF Purchase, Approve, Reject, TypeOK, Unused, PackageSlots, PackageRow
  <2>4. PackageSlots' BY <2>1, <2>2, <2>3, QuotaAssumption DEF PackageSlots
  <2>5. Unused' BY <2>2, <2>3 DEF Unused
  <2> QED BY <2>4, <2>5
<1>6. ASSUME Expire PROVE PackageSlots' /\ Unused'
  <2>1. \A q \in Packages : PackageRows(q)' = PackageRows(q) BY <1>6, SameRows DEF Expire
  <2>2. \A q \in Packages :
          pkg'[q] = IF q \in Expirable THEN [pkg[q] EXCEPT !.status = "expired", !.remaining = 0]
                    ELSE pkg[q]
    BY <1>6 DEF Expire, MarkExpired
  <2>3. ASSUME NEW q \in Packages
        PROVE  /\ pkg'[q].used = pkg[q].used
               /\ q \in Expirable => pkg'[q].status = "expired" /\ pkg'[q].remaining = 0
               /\ q \notin Expirable => pkg'[q] = pkg[q]
    BY <1>1, <2>2 DEF PackageRow
  <2>4. PackageSlots' BY <2>1, <2>3 DEF PackageSlots
  <2>5. Unused' BY <2>3 DEF Unused
  <2> QED BY <2>4, <2>5
<1>7. ASSUME NEW c \in Request, Record(c) PROVE PackageSlots' /\ Unused'
  BY <1>2, <1>3, <1>7 DEF Record
<1>8. ASSUME NEW c \in Request, Transaction(c) PROVE PackageSlots' /\ Unused'
  BY <1>3, <1>4, <1>7, <1>8, Writers
<1>9. ASSUME ChangePlan \/ NextMonth PROVE PackageSlots' /\ Unused'
  BY <1>3, <1>9 DEF ChangePlan, NextMonth
<1> QED BY <1>5, <1>6, <1>8, <1>9 DEF Next, Admin

-----------------------------------------------------------------------------
LEMMA IInvStep == ASSUME IInv, [Next]_vars PROVE IInv'
<1>1. CASE Next
  BY <1>1, TypeStep, KnownStep, PlanSlotsStep, PackageSlotsStep DEF IInv
<1>2. CASE UNCHANGED vars
  <2>1. TypeOK' BY <1>2 DEF IInv, vars, TypeOK
  <2>2. ASSUME NEW d \in Request PROVE Known(d)'
    <3>1. Frame(d) BY <1>2 DEF vars, Frame, HasSlot
    <3> QED BY <3>1, Framed DEF IInv
  <2>3. Unused' /\ PlanSlots' /\ PackageSlots'
    BY <1>2, SameRows DEF IInv, vars, Unused, PlanSlots, PackageSlots
  <2> QED BY <2>1, <2>2, <2>3 DEF IInv
<1> QED BY <1>1, <1>2

LEMMA Invariance == Spec => []IInv
<1>1. Init => IInv BY InitIInv
<1>2. IInv /\ [Next]_vars => IInv' BY IInvStep
<1> QED BY <1>1, <1>2, PTL DEF Spec

(* Every table and every local variable keeps its type; in particular what *)
(* remains of a package never becomes negative (consumeSlotTx).            *)
THEOREM TypeCorrect == Spec => []TypeOK
BY Invariance, PTL DEF IInv

(* documents_used is the number of documents recorded against the plan:    *)
(* no slot is lost or given twice (ReserveElectronicDocument).             *)
THEOREM PlanSlotsExact == Spec => []PlanSlots
BY Invariance, PTL DEF IInv

(* A package gives exactly what was paid for, also when it expires under a *)
(* reservation (consumeSlotTx, ExpirePackagesForEndedCycles).              *)
THEOREM PackageSlotsExact == Spec => []PackageSlots
BY Invariance, PTL DEF IInv

(* Only a recording moves the count of a month, and it stays within the    *)
(* limit it writes (lockQuotaPeriod, consumeSlotTx).                       *)
LEMMA LimitStep ==
  ASSUME IInv, [Next]_vars, NEW m \in 1..Months, Used(m)' > Used(m)
  PROVE  Used(m)' \leq period'[m].limit
<1> USE DEF IInv
<1>1. Used(m) \in Nat BY DEF TypeOK, Used, PeriodRow
<1>2. ~ UNCHANGED period BY <1>1 DEF Used
<1>3. PICK c \in Request : Record(c) \/ CommitEnsure(c)
  BY <1>2, Writers, AdminWrites DEF Next, vars
<1>4. pc[c] \in {"record", "commit"} /\ WriteQuota(c)
  BY <1>2, <1>3 DEF Record, CommitEnsure
<1>5. m = at[c] /\ slot[c] = Plan BY <1>1, <1>4, Written
<1> QED BY <1>4, <1>5, Written

(* A slot of the plan is given only below the limit in force at the        *)
(* commit, however stale the first reads (lockQuotaPeriod).                *)
THEOREM NeverBeyondLimit == Spec => WithinLimit
<1>1. IInv /\ [Next]_vars =>
        [\A m \in 1..Months : Used(m)' > Used(m) => Used(m)' <= period'[m].limit]_vars
  BY LimitStep
<1> QED BY <1>1, Invariance, PTL DEF Spec, WithinLimit

LEMMA PlanFirstStep ==
  ASSUME IInv, [Next]_vars, NEW d \in Docs,
         usage[d] = None, usage'[d] # None, usage'[d].from \in Packages
  PROVE  period'[usage'[d].month].used >= period'[usage'[d].month].limit
<1> USE DEF IInv
<1>1. PICK c \in Request : Record(c) \/ CommitEnsure(c)
  BY Writers, AdminWrites DEF Next, vars
<1>2. /\ pc[c] = "record" /\ WriteQuota(c)
      /\ usage' = [usage EXCEPT ![doc[c]] = [month |-> at[c], from |-> slot[c]]]
  BY <1>1 DEF Record, CommitEnsure
<1>3. d = doc[c] BY <1>2 DEF TypeOK
<1>4. usage'[d] = [month |-> at[c], from |-> slot[c]] BY <1>2, <1>3 DEF TypeOK
<1>5. slot[c] \in Packages BY <1>4
<1>6. period'[at[c]].used >= period'[at[c]].limit BY <1>2, <1>5, Written
<1> QED BY <1>4, <1>6

(* A paid package is left alone while the month has slots of the plan      *)
(* (consumeSlotTx).                                                        *)
THEOREM PackagesComeSecond == Spec => PlanFirst
<1>1. IInv /\ [Next]_vars =>
        [\A d \in Docs : usage[d] = None /\ usage'[d] # None /\ usage'[d].from \in Packages
           => LET r == period'[usage'[d].month] IN r.used >= r.limit]_vars
  BY PlanFirstStep
<1> QED BY <1>1, Invariance, PTL DEF Spec, PlanFirst
=============================================================================
