--------------------------- MODULE Subscriptions ---------------------------
(***************************************************************************)
(* The subscription of one tenant: the cycles it is charged, the payments  *)
(* sent for them and their review, and the daily evaluation that suspends  *)
(* who does not pay (src/pkg/saas).                                        *)
(*                                                                         *)
(* Days are counted from the start of the subscription; a cycle is named   *)
(* by the day it ends on (the unique index over subscription and period    *)
(* end).  There is one plan.  Amounts are left out: a payment that does    *)
(* not cover its debt is one of the reasons of Rollback.                   *)
(*                                                                         *)
(* A review is a transaction that locks its payment and reads the rest in  *)
(* a snapshot (Begin...), and then locks and writes rows by their latest   *)
(* value (End...).  Submitting and annulling lock what they read first, so *)
(* each is one step, which waits while a review holds a payment it must    *)
(* close.  The evaluation runs without a transaction: it reads the         *)
(* subscription, then the tenant, then writes statement by statement.      *)
(***************************************************************************)
EXTENDS Integers, Sequences, FiniteSets

CONSTANTS
  Payment,          \* payments that may be sent
  Worker,           \* requests of the panel, and the cron, at work at a time
  Period,           \* days of a period
  Grace,            \* GracePeriodDays
  Window,           \* PaymentWindowDays
  StrikeMax,        \* rejections that block a tenant
  LastDay,          \* bound: the last day of the calendar
  LastEnd,          \* bound: the last day a period may end on
  Nobody            \* no payment

ASSUME SubsAssumption ==
  /\ IsFiniteSet(Payment)
  /\ Period \in Nat \ {0} /\ Grace \in Nat \ {0} /\ Window \in Nat
  /\ StrikeMax \in Nat \ {0} /\ LastDay \in Nat
  /\ LastEnd \in Nat /\ LastEnd >= Period
  /\ Nobody \notin Payment

VARIABLES
  today,
  sub,              \* the subscription: its end, its status, its provisional
  account,          \* the tenant: its status, its strikes, payment_blocked
  cycle,            \* the billing cycles, by the day they end on
  payment,          \* the payments: status, cycle, order of approval, snapshot
  work,             \* what each worker is doing, and what it has read
  granted,          \* history: the last day given without a payment
  restored,         \* history: cycles that a revert put back in review
  overtaken         \* history: a revert and an extension went on at a time

subsVars == <<today, sub, account, cycle, payment, work, granted, restored,
              overtaken>>

Day == 1..LastEnd
NoCycle == 0

SubStatuses == {"active", "grace_period", "overdue", "suspended", "expired",
                "provisional_active"}
CycleStatuses == {"none", "pending", "paid", "overdue", "pending_review", "rejected"}

SubRow == [end : Day, status : SubStatuses, prov : {"none", "live", "lapsed"}]
AccountRow == [status : {"active", "suspended", "blocked"}, strikes : Nat,
               blocked : BOOLEAN]
CycleRow == [status : CycleStatuses, due : Nat, prov : BOOLEAN]

NoRow == [status |-> "none", due |-> 0, prov |-> FALSE]
FirstSub == [end |-> Period, status |-> "active", prov |-> "none"]
FirstAccount == [status |-> "active", strikes |-> 0, blocked |-> FALSE]
NotSent == [status |-> "none", cycle |-> NoCycle, turn |-> 0, back |-> <<>>]
Idle == [op |-> "idle", pay |-> Nobody, seen |-> <<>>, todo |-> <<>>, passed |-> FALSE]

SubsInit ==
  /\ today = 0
  /\ sub = FirstSub /\ account = FirstAccount
  /\ cycle = [e \in Day |-> NoRow]
  /\ payment = [q \in Payment |-> NotSent]
  /\ work = [a \in Worker |-> Idle]
  /\ granted = Period /\ restored = {} /\ overtaken = FALSE

-----------------------------------------------------------------------------
(* Who works on what, and what it has read.                                *)

Free(q) == \A a \in Worker : work[a].pay # q

(* What each operation reads before it writes, and no more of it.          *)
Read == [approve |-> {"sub", "account", "cycle", "status", "of"},
         reject  |-> {"sub", "cycle", "status", "of"},
         revert  |-> {},
         extend  |-> {"sub", "cycle"},
         issue   |-> {"sub", "cycle"},
         daily   |-> {"sub", "day"}]

Snapshot(op) ==
  LET now == [sub |-> sub, account |-> account,
              cycle |-> [e \in Day |-> cycle[e].status],
              status |-> [q \in Payment |-> payment[q].status],
              of |-> [q \in Payment |-> payment[q].cycle],
              day |-> today]
  IN [f \in Read[op] |-> now[f]]

Start(a, op, p) ==
  /\ work[a].op = "idle"
  /\ work' = [work EXCEPT ![a] =
       [op |-> op, pay |-> p, seen |-> Snapshot(op), todo |-> <<>>, passed |-> FALSE]]
  /\ UNCHANGED <<today, sub, account, cycle, payment, granted, restored, overtaken>>

Stop(a) == work' = [work EXCEPT ![a] = Idle]

(* The end was moved, by an extension or a revert: those at work have read *)
(* the one before.                                                         *)
StopPassing(a) ==
  work' = [b \in Worker |->
    IF b = a \/ work[b].op = "idle" THEN Idle ELSE [work[b] EXCEPT !.passed = TRUE]]

(* The payments waiting for the cycle e are closed.                        *)
Waiting(e) == {q \in Payment : payment[q].status = "pending_review" /\ payment[q].cycle = e}

Closed(qs) ==
  [q \in Payment |-> IF q \in qs THEN [payment[q] EXCEPT !.status = "rejected"]
                                 ELSE payment[q]]

-----------------------------------------------------------------------------
(* SubmitPayment, SubmitRenewalRequest.                                    *)

CanTenantSubmit ==
  ~account.blocked /\ account.status # "blocked" /\ account.strikes < StrikeMax

PayableTwice(e) ==
  e # NoCycle => cycle[e].status \in {"pending", "overdue", "pending_review", "paid"}
Payable(e) == e # NoCycle => cycle[e].status \in {"pending", "overdue", "pending_review"}

(* The access given until the receipt is looked at: once per cycle, or     *)
(* while no other one runs; only to who has lost it.                       *)
Provisional(e) ==
  /\ IF e # NoCycle THEN ~cycle[e].prov ELSE sub.prov # "live"
  /\ sub.status \in {"suspended", "overdue"} \/ account.status = "suspended"

Submit(p, e, admin, receipt) ==
  LET gives == Provisional(e) /\ receipt /\ ~admin IN
  /\ payment[p].status = "none"
  /\ admin \/ CanTenantSubmit
  /\ Payable(e)
  /\ \A q \in Waiting(e) : Free(q)
  /\ payment' = [Closed(Waiting(e)) EXCEPT
        ![p] = [NotSent EXCEPT !.status = "pending_review", !.cycle = e]]
  /\ cycle' = IF e = NoCycle THEN cycle
              ELSE [cycle EXCEPT ![e].status = "pending_review",
                                 ![e].prov = @ \/ gives]
  /\ sub' = IF gives THEN [sub EXCEPT !.status = "provisional_active", !.prov = "live"]
                     ELSE sub
  /\ account' = IF gives THEN [account EXCEPT !.status = "active"] ELSE account
  /\ UNCHANGED <<today, work, granted, restored, overtaken>>

-----------------------------------------------------------------------------
(* renewInPlaceTx: the period added starts where what is covered ends.     *)

Charged(seen) == {e \in Day : seen.cycle[e] \notin {"none", "rejected"}}
Covered(seen) == {seen.sub.end} \cup Charged(seen)
Last(n, days) == n \in days /\ \A m \in days : m <= n

(* createCycleForPeriodTx takes the row of that end if the snapshot has it *)
(* and inserts it otherwise; a row inserted meanwhile makes that fail.     *)
Insertable(seen, e) ==
  /\ e \in Day
  /\ seen.cycle[e] = "none" => cycle[e].status = "none"

Created(seen, e, due) ==
  IF seen.cycle[e] = "none"
  THEN [cycle EXCEPT ![e] = [status |-> "pending", due |-> due, prov |-> FALSE]]
  ELSE cycle

Extended(e) == [end |-> e, status |-> "active", prov |-> "none"]

-----------------------------------------------------------------------------
(* ApprovePayment.                                                         *)

BeginApprove(a, p) ==
  payment[p].status = "pending_review" /\ Free(p) /\ Start(a, "approve", p)

(* The cycle it pays: its own, or the oldest one pending.                  *)
Pending == {e \in Day : cycle[e].status = "pending"}
Pays(p, e) ==
  IF payment[p].cycle # NoCycle THEN e = payment[p].cycle
  ELSE e \in Pending /\ \A d \in Pending : e <= d

(* guardBillingCycleApprove                                                *)
Approvable(seen, p, e) ==
  /\ cycle[e].status # "paid"
  /\ \A q \in Payment \ {p} : ~(seen.status[q] = "approved" /\ seen.of[q] = e)

Siblings(seen, p, e) ==
  {q \in Payment \ {p} : seen.status[q] = "pending_review" /\ seen.of[q] = e}

Approved(seen, p, e, made, rows) ==
  /\ rows[e].status # "none"
  /\ \A q \in Siblings(seen, p, e) : Free(q)
  /\ payment' = [Closed(Siblings(seen, p, e)) EXCEPT
        ![p] = [status |-> "approved", cycle |-> e,
                turn |-> 1 + Cardinality({q \in Payment : payment[q].turn # 0}),
                back |-> [sub |-> seen.sub, account |-> seen.account, made |-> made,
                          was |-> IF made THEN "none" ELSE cycle[e].status]]]
  /\ cycle' = [rows EXCEPT ![e].status = "paid"]
  /\ sub' = Extended(e)
  /\ account' = FirstAccount
  /\ UNCHANGED <<today, granted, restored, overtaken>>

EndApprove(a) ==
  LET p == work[a].pay  seen == work[a].seen IN
  /\ work[a].op = "approve"
  /\ \/ \E e \in Day :
          Pays(p, e) /\ Approvable(seen, p, e) /\ Approved(seen, p, e, FALSE, cycle)
     \/ /\ payment[p].cycle = NoCycle /\ Pending = {}
        /\ \E n \in {today} \cup Covered(seen) :
             /\ Last(n, {today} \cup Covered(seen)) /\ Insertable(seen, n + Period)
             /\ Approved(seen, p, n + Period, TRUE, Created(seen, n + Period, n))
  /\ StopPassing(a)

(* A transaction that fails, by a deadlock, an amount too small or an      *)
(* error, leaves nothing behind.                                           *)
Rollback(a) ==
  /\ work[a].op \in {"approve", "reject", "revert", "extend", "issue"} /\ Stop(a)
  /\ UNCHANGED <<today, sub, account, cycle, payment, granted, restored, overtaken>>

-----------------------------------------------------------------------------
(* RejectPayment, with ApplyStrikeOnReject.                                *)

BeginReject(a, p) ==
  payment[p].status = "pending_review" /\ Free(p) /\ Start(a, "reject", p)

DuplicateOfPaid(seen, p) ==
  LET e == seen.of[p] IN
  /\ e # NoCycle
  /\ \/ seen.cycle[e] = "paid"
     \/ \E q \in Payment \ {p} : seen.status[q] = "approved" /\ seen.of[q] = e

(* revertCycleAfterRejectionTx                                             *)
Reopened(e) ==
  IF e = NoCycle \/ cycle[e].status # "pending_review" THEN cycle
  ELSE [cycle EXCEPT ![e].status = IF cycle[e].due + Window < today
                                   THEN "overdue" ELSE "pending"]

StrikeSuspends(seen) ==
  /\ account' = [account EXCEPT !.status = "suspended", !.strikes = @ + 1]
  /\ sub' = [sub EXCEPT !.status = "suspended", !.prov = "none"]

Strike(seen) ==
  LET n == account.strikes + 1
      within == today <= seen.sub.end + Grace
  IN \/ /\ n >= StrikeMax
        /\ account' = [status |-> "blocked", strikes |-> n, blocked |-> TRUE]
        /\ sub' = [sub EXCEPT !.status = "suspended", !.prov = "none"]
     \/ /\ n < StrikeMax /\ ~within
        /\ account' = [account EXCEPT !.status = "suspended", !.strikes = n]
        /\ sub' = [sub EXCEPT !.status = "suspended", !.prov = "none"]
     \/ /\ n < StrikeMax /\ within
        /\ account' = [account EXCEPT !.strikes = n]
        /\ sub' = [sub EXCEPT !.prov = "none"]

EndReject(a) ==
  LET p == work[a].pay  seen == work[a].seen IN
  /\ work[a].op = "reject"
  /\ payment' = Closed({p})
  /\ \/ DuplicateOfPaid(seen, p) /\ UNCHANGED <<sub, account, cycle>>
     \/ /\ ~DuplicateOfPaid(seen, p)
        /\ cycle' = Reopened(payment[p].cycle)
        /\ Strike(seen)
  /\ Stop(a)
  /\ UNCHANGED <<today, granted, restored, overtaken>>

-----------------------------------------------------------------------------
(* RevertApprovedPayment.  All it checks is read before it writes.         *)

RevertAny(a, p) ==
  payment[p].status = "approved" /\ Free(p) /\ Start(a, "revert", p)

BeginRevert(a, p) ==
  /\ payment[p].status = "approved" /\ Free(p)
  /\ \A q \in Payment \ {p} :
       /\ payment[q].status = "approved" => payment[q].turn < payment[p].turn
       /\ payment[q].cycle # payment[p].cycle
  /\ Start(a, "revert", p)

(* A provisional put back may have ended since: ProvisionalEnds says so.   *)
(* A payment whose cycle is deleted points to nothing.                     *)
EndRevert(a) ==
  LET p == work[a].pay  e == payment[p].cycle  back == payment[p].back IN
  /\ work[a].op = "revert"
  /\ cycle' = IF back.made THEN [cycle EXCEPT ![e] = NoRow]
                           ELSE [cycle EXCEPT ![e].status = back.was]
  /\ sub' = back.sub /\ account' = back.account
  /\ payment' = [payment EXCEPT ![p].status = "reversed",
                                ![p].cycle = IF back.made THEN NoCycle ELSE e]
  /\ restored' = restored \cup (IF back.was = "pending_review" THEN {e} ELSE {})
  /\ overtaken' = (overtaken \/ work[a].passed
                    \/ \E b \in Worker : work[b].op \in {"approve", "extend"})
  /\ StopPassing(a)
  /\ UNCHANGED <<today, granted>>

-----------------------------------------------------------------------------
(* What the panel may do besides: ExtendSubscription without a payment,    *)
(* IssueRenewalInvoice, CancelInvoice, UnblockTenant.                      *)

BeginExtend(a) == Start(a, "extend", Nobody)

EndExtend(a) ==
  LET seen == work[a].seen IN
  /\ work[a].op = "extend"
  /\ \E n \in {today} \cup Covered(seen) :
       /\ Last(n, {today} \cup Covered(seen)) /\ Insertable(seen, n + Period)
       /\ sub' = Extended(n + Period)
       /\ cycle' = Created(seen, n + Period, n)
       /\ granted' = IF n + Period > granted THEN n + Period ELSE granted
  /\ account' = [account EXCEPT !.status = "active"]
  /\ StopPassing(a)
  /\ UNCHANGED <<today, payment, restored, overtaken>>

BeginIssue(a) == Start(a, "issue", Nobody)

EndIssue(a) ==
  LET seen == work[a].seen IN
  /\ work[a].op = "issue"
  /\ \E n \in Covered(seen) :
       /\ Last(n, Covered(seen)) /\ n + Period \in Day
       /\ cycle[n + Period].status = "none"
       /\ cycle' = [cycle EXCEPT
            ![n + Period] = [status |-> "pending", due |-> n, prov |-> FALSE]]
  /\ Stop(a)
  /\ UNCHANGED <<today, sub, account, payment, granted, restored, overtaken>>

CancelAlone(e) ==
  /\ cycle[e].status \in {"pending", "overdue", "pending_review"}
  /\ cycle' = [cycle EXCEPT ![e].status = "rejected"]
  /\ UNCHANGED <<today, sub, account, payment, work, granted, restored, overtaken>>

Cancel(e) ==
  /\ cycle[e].status \in {"pending", "overdue", "pending_review"}
  /\ \A q \in Payment : ~(payment[q].status = "approved" /\ payment[q].cycle = e)
  /\ \A q \in Waiting(e) : Free(q)
  /\ payment' = Closed(Waiting(e))
  /\ cycle' = [cycle EXCEPT ![e].status = "rejected"]
  /\ UNCHANGED <<today, sub, account, work, granted, restored, overtaken>>

Unblock ==
  /\ account' = [status |-> "suspended", strikes |-> 0, blocked |-> FALSE]
  /\ UNCHANGED <<today, sub, cycle, payment, work, granted, restored, overtaken>>

(* EnsureBillingCycle, from the hourly jobs: a reading of the subscription *)
(* and an insertion, taken as one step.                                    *)
EnsureCycle ==
  /\ sub.status # "expired" /\ account.status # "blocked"
  /\ cycle[sub.end].status = "none"
  /\ cycle' = [cycle EXCEPT ![sub.end] = [status |-> "pending", due |-> 0, prov |-> FALSE]]
  /\ UNCHANGED <<today, sub, account, payment, work, granted, restored, overtaken>>

-----------------------------------------------------------------------------
(* RunLimaDailyEvaluation: the statements it writes follow from the        *)
(* subscription, read first, the tenant, read next, and the day.           *)

Effective(s, day) ==
  CASE s.prov = "live"                                -> "provisional_active"
    [] s.prov # "live" /\ s.status \in {"suspended", "provisional_active"}
                                                      -> s.status
    [] OTHER -> IF day <= s.end THEN "active"
                ELSE IF day <= s.end + Grace THEN "grace_period" ELSE "overdue"

SetSub(s) == <<[row |-> "sub", status |-> s]>>
SetAccount(s) == <<[row |-> "account", status |-> s]>>
SweepCycles == <<[row |-> "cycles", status |-> "overdue"]>>
When(condition, statements) == IF condition THEN statements ELSE <<>>

Ended(s) == s.prov = "lapsed" /\ s.status = "provisional_active"

Evaluation(read, day) ==
  LET ended == Ended(read)
      s == IF ended THEN [read EXCEPT !.status = "suspended", !.prov = "none"] ELSE read
      new == Effective(s, day)
      changes == new \notin {s.status, "provisional_active"}
      status == IF changes THEN new ELSE s.status
      off == account.status = "suspended"
      late == day > s.end + Grace /\ status \notin {"suspended", "expired"}
  IN When(ended, SetSub("suspended"))
     \o When(ended /\ ~off, SetAccount("suspended"))
     \o When(changes, SetSub(new))
     \o SweepCycles
     \o When(late /\ ~off, SetSub("suspended") \o SetAccount("suspended"))
     \o When(late /\ off, SetSub("expired"))

BeginDaily(a) == sub.status # "expired" /\ Start(a, "daily", Nobody)

LookDaily(a) ==
  /\ work[a].op = "daily"
  /\ IF account.status = "blocked" \/ account.strikes >= StrikeMax THEN Stop(a)
     ELSE work' = [work EXCEPT ![a].op = "write", ![a].todo = Evaluation(work[a].seen.sub, work[a].seen.day)]
  /\ UNCHANGED <<today, sub, account, cycle, payment, granted, restored, overtaken>>

Write(a) ==
  LET s == Head(work[a].todo) IN
  /\ work[a].op = "write"
  /\ work' = IF Len(work[a].todo) = 1 THEN [work EXCEPT ![a] = Idle]
             ELSE [work EXCEPT ![a].todo = Tail(@)]
  /\ \/ /\ s.row = "sub" /\ UNCHANGED <<account, cycle>>
        /\ sub' = [sub EXCEPT !.status = s.status,
                              !.prov = IF s.status = "suspended" THEN "none" ELSE @]
     \/ /\ s.row = "account" /\ UNCHANGED <<sub, cycle>>
        /\ account' = [account EXCEPT !.status = s.status]
     \/ /\ s.row = "cycles" /\ UNCHANGED <<sub, account>>
        /\ cycle' = [e \in Day |->
             IF cycle[e].status = "pending" /\ cycle[e].due + Window < work[a].seen.day
             THEN [cycle[e] EXCEPT !.status = "overdue"] ELSE cycle[e]]
  /\ UNCHANGED <<today, payment, granted, restored, overtaken>>

-----------------------------------------------------------------------------
(* The hours of a provisional access run out; a day passes.                *)

ProvisionalEnds ==
  /\ sub.prov = "live" /\ sub' = [sub EXCEPT !.prov = "lapsed"]
  /\ UNCHANGED <<today, account, cycle, payment, work, granted, restored, overtaken>>

Tomorrow ==
  /\ today < LastDay /\ today' = today + 1
  /\ UNCHANGED <<sub, account, cycle, payment, work, granted, restored, overtaken>>

SubsNext ==
  \/ \E p \in Payment, e \in Day \cup {NoCycle}, admin, receipt \in BOOLEAN :
       Submit(p, e, admin, receipt)
  \/ \E a \in Worker, p \in Payment :
       BeginApprove(a, p) \/ BeginReject(a, p) \/ BeginRevert(a, p)
  \/ \E a \in Worker :
       \/ EndApprove(a) \/ EndReject(a) \/ EndRevert(a) \/ Rollback(a)
       \/ BeginExtend(a) \/ EndExtend(a) \/ BeginIssue(a) \/ EndIssue(a)
       \/ BeginDaily(a) \/ LookDaily(a) \/ Write(a)
  \/ \E e \in Day : Cancel(e)
  \/ Unblock \/ EnsureCycle \/ ProvisionalEnds \/ Tomorrow

SubsSpec == SubsInit /\ [][SubsNext]_subsVars

-----------------------------------------------------------------------------
(* Types of every variable.                                                *)
PayStatuses == {"none", "pending_review", "approved", "rejected", "reversed"}

Back == [sub : SubRow, account : AccountRow, made : BOOLEAN, was : CycleStatuses]
PaymentRow == [status : PayStatuses, cycle : Day \cup {NoCycle}, turn : Nat,
               back : {<<>>} \cup Back]

Statement == [row : {"sub", "account", "cycles"}, status : SubStatuses]

Doing(ops, seen) ==
  [op : ops, pay : Payment \cup {Nobody}, seen : seen, todo : Seq(Statement),
   passed : BOOLEAN]

WorkRow ==
  LET cycles == [Day -> CycleStatuses]
      statuses == [Payment -> PayStatuses]
      cyclesOf == [Payment -> Day \cup {NoCycle}]
  IN    Doing({"idle", "revert"}, {<<>>})
   \cup Doing({"approve"}, [sub : SubRow, account : AccountRow, cycle : cycles,
                            status : statuses, of : cyclesOf])
   \cup Doing({"reject"}, [sub : SubRow, cycle : cycles, status : statuses, of : cyclesOf])
   \cup Doing({"extend", "issue"}, [sub : SubRow, cycle : cycles])
   \cup Doing({"daily", "write"}, [sub : SubRow, day : 0..LastDay])

SubsTypeOK ==
  /\ today \in 0..LastDay /\ sub \in SubRow /\ account \in AccountRow
  /\ cycle \in [Day -> CycleRow]
  /\ payment \in [Payment -> PaymentRow]
  /\ work \in [Worker -> WorkRow]
  /\ granted \in Day /\ restored \subseteq Day /\ overtaken \in BOOLEAN

(* A cycle is paid when one of the approved payments is for it, and no     *)
(* cycle is paid by two: whoever approves, rejects, sends, annuls and      *)
(* reverts at the same time (guardBillingCycleApprove, markCyclePaidTx,    *)
(* RevertApprovedPayment).                                                 *)
SettledOnce ==
  /\ \A e \in Day : cycle[e].status = "paid" <=>
       \E p \in Payment : payment[p].status = "approved" /\ payment[p].cycle = e
  /\ \A p, q \in Payment :
       payment[p].status = "approved" /\ payment[q].status = "approved"
       /\ payment[p].cycle = payment[q].cycle => p = q

(* A cycle is in review exactly while one receipt for it waits; so that    *)
(* the tenant is asked to pay again when it is rejected, and the panel has *)
(* a payment to decide on.  Reverting an approval puts back the status the *)
(* cycle had before it, and that may leave it in review with nothing to    *)
(* look at.                                                                *)
ReviewHasReceipt ==
  /\ \A e \in Day : Cardinality(Waiting(e)) <= 1
  /\ \A e \in Day : Waiting(e) # {} => cycle[e].status = "pending_review"
  /\ \A e \in Day \ restored : cycle[e].status = "pending_review" => Waiting(e) # {}

(* Nobody has days that were neither paid nor given: approvals and their   *)
(* reverts, in any order the panel allows, leave the end of the            *)
(* subscription at a cycle that is paid.  Only a revert and an extension   *)
(* that go on at the same time may leave more: one of them remembers days  *)
(* that the other has changed.                                             *)
NoFreeDays ==
  ~overtaken => \/ sub.end <= granted
                \/ \E e \in Day : cycle[e].status = "paid" /\ sub.end <= e

(* Who has access loses it to the calendar only when the days and the      *)
(* grace are over (the comment of RunLimaDailyEvaluation), or with the end *)
(* of an access that was provisional, or by a revert.  The exception is a  *)
(* worker that read the subscription before an extension or a revert was   *)
(* committed.                                                              *)
SuspendsOnlyLate ==
  [][account.status = "active" /\ account'.status = "suspended" =>
       \/ today > sub.end + Grace
       \/ \E a \in Worker :
            /\ work'[a] # work[a]
            /\ \/ work[a].passed \/ work[a].op = "revert"
               \/ work[a].op = "write" /\ Ended(work[a].seen.sub)
       \/ Unblock]_subsVars
=============================================================================
