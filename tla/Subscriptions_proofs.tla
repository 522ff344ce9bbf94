------------------------ MODULE Subscriptions_proofs ------------------------
(***************************************************************************)
(* Proofs about Subscriptions, for any number of payments and workers, any *)
(* period, grace and window.                                               *)
(***************************************************************************)
EXTENDS Subscriptions, FiniteSetTheorems, SequenceTheorems, TLAPS

USE SubsAssumption
USE DEF subsVars, NoCycle, Day

-----------------------------------------------------------------------------
(* The records of the workers.                                             *)

Cycles == [Day -> CycleStatuses]
Statuses == [Payment -> PayStatuses]
CyclesOf == [Payment -> Day \cup {NoCycle}]
Ops == {"idle", "approve", "reject", "revert", "extend", "issue", "daily", "write"}

SeenBy(w) ==
  /\ w.op \in {"idle", "revert"} => w.seen = <<>>
  /\ w.op = "approve" =>
       w.seen \in [sub : SubRow, account : AccountRow, cycle : Cycles,
                   status : Statuses, of : CyclesOf]
  /\ w.op = "reject" =>
       w.seen \in [sub : SubRow, cycle : Cycles, status : Statuses, of : CyclesOf]
  /\ w.op \in {"extend", "issue"} => w.seen \in [sub : SubRow, cycle : Cycles]
  /\ w.op \in {"daily", "write"} => w.seen \in [sub : SubRow, day : 0..LastDay]

Shape(w) == w \in [op : Ops, pay : Payment \cup {Nobody}, seen : {w.seen},
                   todo : Seq(Statement), passed : BOOLEAN]

LEMMA WorkRows ==
  ASSUME NEW w
  PROVE  w \in WorkRow <=> Shape(w) /\ SeenBy(w)
BY DEF WorkRow, Doing, SeenBy, Shape, Ops, Cycles, Statuses, CyclesOf

LEMMA IdleRow == Idle \in WorkRow
<1> DEFINE w == Idle
<1>1. /\ w.op = "idle" /\ w.pay = Nobody /\ w.seen = <<>> /\ w.todo = <<>> /\ w.passed = FALSE
      /\ w \in [op : Ops, pay : {Nobody}, seen : {<<>>}, todo : Seq(Statement), passed : BOOLEAN]
  BY DEF Idle, Ops
<1>2. Shape(w) /\ SeenBy(w) BY <1>1 DEF SeenBy, Ops, Shape
<1> HIDE DEF w
<1>3. w \in WorkRow BY <1>2, WorkRows
<1> QED BY <1>3 DEF w

LEMMA PassingRow ==
  ASSUME NEW w \in WorkRow
  PROVE  /\ [w EXCEPT !.passed = TRUE] \in WorkRow
         /\ [w EXCEPT !.passed = TRUE].op = w.op
         /\ [w EXCEPT !.passed = TRUE].pay = w.pay
         /\ [w EXCEPT !.passed = TRUE].seen = w.seen
         /\ [w EXCEPT !.passed = TRUE].todo = w.todo
         /\ [w EXCEPT !.passed = TRUE].passed = TRUE
<1> DEFINE v == [w EXCEPT !.passed = TRUE]
<1>1. Shape(w) /\ SeenBy(w) BY WorkRows
<1>2. /\ v.op = w.op /\ v.pay = w.pay /\ v.seen = w.seen /\ v.todo = w.todo /\ v.passed = TRUE
      /\ v \in [op : Ops, pay : Payment \cup {Nobody}, seen : {w.seen},
                todo : Seq(Statement), passed : BOOLEAN]
  BY <1>1 DEF Shape
<1> HIDE DEF v
<1>3. Shape(v) /\ SeenBy(v) BY <1>1, <1>2 DEF SeenBy, Shape
<1>4. v \in WorkRow BY <1>3, WorkRows
<1> QED BY <1>2, <1>4 DEF v

(* What an operation reads has the types of the rows.                      *)
LEMMA SnapshotTypes ==
  ASSUME SubsTypeOK, NEW op \in {"approve", "reject", "revert", "extend", "issue", "daily"},
         NEW p \in Payment \cup {Nobody}
  PROVE  [op |-> op, pay |-> p, seen |-> Snapshot(op), todo |-> <<>>, passed |-> FALSE]
           \in WorkRow
<1> DEFINE cs == [e \in Day |-> cycle[e].status]
           ss == [q \in Payment |-> payment[q].status]
           os == [q \in Payment |-> payment[q].cycle]
<1>1. cs \in Cycles /\ ss \in Statuses /\ os \in CyclesOf
  BY DEF SubsTypeOK, CycleRow, PaymentRow, Cycles, Statuses, CyclesOf
<1>2. sub \in SubRow /\ account \in AccountRow /\ today \in 0..LastDay BY DEF SubsTypeOK
<1> HIDE DEF cs, ss, os
<1>3. ASSUME op = "approve"
      PROVE  Snapshot(op) = [sub |-> sub, account |-> account, cycle |-> cs, status |-> ss, of |-> os]
  <2>1. Read[op] = {"sub", "account", "cycle", "status", "of"} BY <1>3 DEF Read
  <2>2. /\ DOMAIN Snapshot(op) = {"sub", "account", "cycle", "status", "of"}
        /\ Snapshot(op) = [f \in {"sub", "account", "cycle", "status", "of"} |-> Snapshot(op)[f]]
    BY <2>1 DEF Snapshot
  <2>3. Snapshot(op).sub = sub /\ Snapshot(op).account = account BY <2>1 DEF Snapshot
  <2>4. Snapshot(op).cycle = cs BY <2>1 DEF Snapshot, cs
  <2>5. Snapshot(op).status = ss /\ Snapshot(op).of = os BY <2>1 DEF Snapshot, ss, os
  <2> QED BY <2>2, <2>3, <2>4, <2>5
<1>4. ASSUME op = "reject"
      PROVE  Snapshot(op) = [sub |-> sub, cycle |-> cs, status |-> ss, of |-> os]
  <2>1. Read[op] = {"sub", "cycle", "status", "of"} BY <1>4 DEF Read
  <2>2. /\ DOMAIN Snapshot(op) = {"sub", "cycle", "status", "of"}
        /\ Snapshot(op) = [f \in {"sub", "cycle", "status", "of"} |-> Snapshot(op)[f]]
    BY <2>1 DEF Snapshot
  <2>3. Snapshot(op).sub = sub BY <2>1 DEF Snapshot
  <2>4. Snapshot(op).cycle = cs BY <2>1 DEF Snapshot, cs
  <2>5. Snapshot(op).status = ss /\ Snapshot(op).of = os BY <2>1 DEF Snapshot, ss, os
  <2> QED BY <2>2, <2>3, <2>4, <2>5
<1>5. ASSUME op \in {"extend", "issue"}
      PROVE  Snapshot(op) = [sub |-> sub, cycle |-> cs]
  <2>1. Read[op] = {"sub", "cycle"} BY <1>5 DEF Read
  <2> QED BY <2>1 DEF Snapshot, cs, ss, os
<1>6. ASSUME op = "daily"
      PROVE  Snapshot(op) = [sub |-> sub, day |-> today]
  <2>1. Read[op] = {"sub", "day"} BY <1>6 DEF Read
  <2> QED BY <2>1 DEF Snapshot, cs, ss, os
<1>7. ASSUME op = "revert"
      PROVE  Snapshot(op) = <<>>
  <2>1. Read[op] = {} BY <1>7 DEF Read
  <2> QED BY <2>1 DEF Snapshot
<1> DEFINE w == [op |-> op, pay |-> p, seen |-> Snapshot(op), todo |-> <<>>, passed |-> FALSE]
<1>8. /\ w.op = op /\ w.seen = Snapshot(op)
      /\ w \in [op : Ops, pay : Payment \cup {Nobody}, seen : {Snapshot(op)},
                todo : Seq(Statement), passed : BOOLEAN]
  BY DEF Ops
<1>9. SeenBy(w) BY <1>1, <1>2, <1>3, <1>4, <1>5, <1>6, <1>7, <1>8 DEF SeenBy
<1>10. Shape(w) BY <1>8 DEF Shape
<1> HIDE DEF w
<1>11. w \in WorkRow BY <1>9, <1>10, WorkRows
<1> QED BY <1>11 DEF w

-----------------------------------------------------------------------------
(* What the helpers leave in the variables.                                *)

(* Closing payments changes nothing of them but their status.              *)
LEMMA ClosedRows ==
  ASSUME SubsTypeOK, NEW S
  PROVE  /\ Closed(S) \in [Payment -> PaymentRow]
         /\ \A q \in Payment :
              /\ Closed(S)[q].cycle = payment[q].cycle
              /\ Closed(S)[q].turn = payment[q].turn
              /\ Closed(S)[q].back = payment[q].back
              /\ Closed(S)[q].status = IF q \in S THEN "rejected" ELSE payment[q].status
<1> SUFFICES ASSUME NEW q \in Payment
             PROVE  /\ Closed(S)[q] \in PaymentRow
                    /\ Closed(S)[q].cycle = payment[q].cycle
                    /\ Closed(S)[q].turn = payment[q].turn
                    /\ Closed(S)[q].back = payment[q].back
                    /\ Closed(S)[q].status = IF q \in S THEN "rejected" ELSE payment[q].status
  BY DEF Closed
<1>1. payment[q] \in PaymentRow BY DEF SubsTypeOK
<1> QED BY <1>1 DEF Closed, PaymentRow, PayStatuses

(* A worker begins an operation; the others go on.                         *)
LEMMA Started ==
  ASSUME SubsTypeOK, NEW a \in Worker, NEW p \in Payment \cup {Nobody},
         NEW op \in {"approve", "reject", "revert", "extend", "issue", "daily"},
         Start(a, op, p)
  PROVE  /\ work' \in [Worker -> WorkRow]
         /\ work[a].op = "idle"
         /\ work'[a].op = op /\ work'[a].pay = p /\ work'[a].seen = Snapshot(op)
         /\ work'[a].todo = <<>> /\ work'[a].passed = FALSE
         /\ \A b \in Worker : b # a => work'[b] = work[b]
<1> DEFINE w == [op |-> op, pay |-> p, seen |-> Snapshot(op), todo |-> <<>>, passed |-> FALSE]
<1>1. w \in WorkRow BY SnapshotTypes
<1>2. w.op = op /\ w.pay = p /\ w.seen = Snapshot(op) /\ w.todo = <<>> /\ w.passed = FALSE
  OBVIOUS
<1>3. work' = [work EXCEPT ![a] = w] /\ work[a].op = "idle" BY DEF Start
<1> HIDE DEF w
<1> QED BY <1>1, <1>2, <1>3 DEF SubsTypeOK

(* A worker is done; the others go on.                                     *)
LEMMA Stopped ==
  ASSUME SubsTypeOK, NEW a \in Worker, Stop(a)
  PROVE  /\ work' \in [Worker -> WorkRow]
         /\ work'[a] = Idle
         /\ \A b \in Worker : b # a => work'[b] = work[b]
BY IdleRow DEF Stop, SubsTypeOK

(* A worker is done, and the others learn that the end has moved.          *)
LEMMA StoppedPassing ==
  ASSUME SubsTypeOK, NEW a \in Worker, StopPassing(a)
  PROVE  /\ work' \in [Worker -> WorkRow]
         /\ work'[a] = Idle
         /\ \A b \in Worker : b # a /\ work[b].op = "idle" => work'[b] = Idle
         /\ \A b \in Worker : b # a /\ work[b].op # "idle" =>
              /\ work'[b].op = work[b].op /\ work'[b].pay = work[b].pay
              /\ work'[b].seen = work[b].seen /\ work'[b].todo = work[b].todo
              /\ work'[b].passed
<1>1. \A b \in Worker : work[b] \in WorkRow BY DEF SubsTypeOK
<1>2. work' \in [Worker -> WorkRow] BY <1>1, IdleRow, PassingRow DEF StopPassing
<1>3. \A b \in Worker : b # a /\ work[b].op # "idle" =>
        work'[b] = [work[b] EXCEPT !.passed = TRUE]
  BY DEF StopPassing
<1>4. \A b \in Worker : b # a /\ work[b].op # "idle" =>
              /\ work'[b].op = work[b].op /\ work'[b].pay = work[b].pay
              /\ work'[b].seen = work[b].seen /\ work'[b].todo = work[b].todo
              /\ work'[b].passed = TRUE
  BY <1>1, <1>3, PassingRow
<1> QED BY <1>2, <1>4 DEF StopPassing

(* A cycle made for a period is pending.                                   *)
LEMMA CreatedRows ==
  ASSUME SubsTypeOK, NEW seen, NEW e, NEW due \in Nat, Insertable(seen, e)
  PROVE  /\ Created(seen, e, due) \in [Day -> CycleRow]
         /\ \A d \in Day : d # e \/ seen.cycle[e] # "none" =>
              Created(seen, e, due)[d] = cycle[d]
         /\ seen.cycle[e] = "none" =>
              cycle[e].status = "none" /\ Created(seen, e, due)[e].status = "pending"
<1>1. cycle \in [Day -> CycleRow] /\ e \in Day BY DEF SubsTypeOK, Insertable
<1> QED BY <1>1 DEF Created, Insertable, CycleRow, CycleStatuses

-----------------------------------------------------------------------------
(* Types, locks, and what an approval leaves on its payment to be undone.  *)

(* What the evaluation writes: a tenant only to suspend it, and with cause. *)
Justified(read, day) ==
  {s \in Statement : s.row = "account" =>
     s.status = "suspended" /\ (Ended(read) \/ day > read.end + Grace)}

(* A payment is in the hands of one worker, who found it as it still is.   *)
Held ==
  /\ \A a \in Worker :
       /\ work[a].op \in {"approve", "reject"} =>
            work[a].pay \in Payment /\ payment[work[a].pay].status = "pending_review"
       /\ work[a].op = "revert" =>
            work[a].pay \in Payment /\ payment[work[a].pay].status = "approved"
       /\ work[a].op \notin {"approve", "reject", "revert"} => work[a].pay = Nobody
  /\ \A a, b \in Worker : a # b /\ work[a].pay = work[b].pay => work[a].pay = Nobody

Remembered ==
  \A q \in Payment :
    /\ payment[q].status = "none" => payment[q].cycle = NoCycle /\ payment[q].turn = 0
    /\ payment[q].status = "pending_review" => payment[q].turn = 0
    /\ payment[q].status = "approved" =>
         /\ payment[q].cycle # NoCycle /\ payment[q].back \in Back
         /\ payment[q].back.was # "paid"
         /\ payment[q].back.made => payment[q].back.was = "none"

(* The statements a worker has yet to write are those its reading gives.   *)
Planned ==
  \A a \in Worker : work[a].op = "write" =>
    /\ work[a].todo # <<>>
    /\ work[a].todo \in Seq(Justified(work[a].seen.sub, work[a].seen.day))

Basics == SubsTypeOK /\ Held /\ Remembered /\ Planned

LEMMA Knows ==
  ASSUME SubsTypeOK, NEW a \in Worker
  PROVE  /\ SeenBy(work[a]) /\ work[a] \in WorkRow
         /\ work[a].op \in Ops /\ work[a].pay \in Payment \cup {Nobody}
         /\ work[a].todo \in Seq(Statement) /\ work[a].passed \in BOOLEAN
<1>1. work[a] \in WorkRow BY DEF SubsTypeOK
<1>2. Shape(work[a]) /\ SeenBy(work[a]) BY <1>1, WorkRows
<1> QED BY <1>1, <1>2 DEF Shape

LEMMA Single == ASSUME NEW S, NEW x \in S PROVE <<x>> \in Seq(S) /\ Len(<<x>>) = 1
OBVIOUS

LEMMA Joined ==
  ASSUME NEW S, NEW s \in Seq(S), NEW t \in Seq(S)
  PROVE  s \o t \in Seq(S) /\ Len(s \o t) = Len(s) + Len(t) /\ Len(s) \in Nat
BY ConcatProperties, LenProperties

LEMMA EvaluationWrites ==
  ASSUME NEW read \in SubRow, NEW day \in Nat
  PROVE  /\ Evaluation(read, day) \in Seq(Justified(read, day))
         /\ Evaluation(read, day) # <<>>
<1> DEFINE ended == Ended(read)
           s == IF ended THEN [read EXCEPT !.status = "suspended", !.prov = "none"] ELSE read
           new == Effective(s, day)
           changes == new \notin {s.status, "provisional_active"}
           status == IF changes THEN new ELSE s.status
           off == account.status = "suspended"
           late == day > s.end + Grace /\ status \notin {"suspended", "expired"}
           J == Justified(read, day)
           A == When(ended, SetSub("suspended"))
           B == When(ended /\ ~off, SetAccount("suspended"))
           C == When(changes, SetSub(new))
           D == When(late /\ ~off, SetSub("suspended") \o SetAccount("suspended"))
           E == When(late /\ off, SetSub("expired"))
<1>1. s \in SubRow /\ s.end = read.end BY DEF SubRow, SubStatuses
<1>2. new \in SubStatuses
  <2> HIDE DEF s
  <2> QED BY <1>1 DEF Effective, SubRow, SubStatuses
<1>3. \A t \in SubStatuses : SetSub(t) \in Seq(J)
  <2> SUFFICES ASSUME NEW t \in SubStatuses PROVE [row |-> "sub", status |-> t] \in J
    BY Single DEF SetSub
  <2> QED BY DEF Justified, Statement
<1>4. ended \/ day > read.end + Grace => SetAccount("suspended") \in Seq(J)
  <2> SUFFICES ASSUME ended \/ day > read.end + Grace
               PROVE  [row |-> "account", status |-> "suspended"] \in J
    BY Single DEF SetAccount
  <2> QED BY DEF Justified, Statement, SubStatuses
<1>5. SweepCycles \in Seq(J) /\ Len(SweepCycles) = 1
  <2>1. [row |-> "cycles", status |-> "overdue"] \in J BY DEF Justified, Statement, SubStatuses
  <2> QED BY <2>1, Single DEF SweepCycles
<1>6. late => day > read.end + Grace BY <1>1
<1> HIDE DEF ended, s, new, changes, status, off, late, J
<1>7. A \in Seq(J) BY <1>3 DEF When, SubStatuses
<1>8. B \in Seq(J) BY <1>4 DEF When
<1>9. C \in Seq(J) BY <1>2, <1>3 DEF When
<1>10. D \in Seq(J) BY <1>3, <1>4, <1>6 DEF When, SubStatuses
<1>11. E \in Seq(J) BY <1>3 DEF When, SubStatuses
<1>12. Evaluation(read, day) = A \o B \o C \o SweepCycles \o D \o E
  BY DEF Evaluation, ended, s, new, changes, status, off, late
<1> HIDE DEF A, B, C, D, E
<1>13. A \o B \o C \in Seq(J) /\ Len(A \o B \o C) \in Nat
  <2>1. A \o B \in Seq(J) BY <1>7, <1>8, Joined
  <2> QED BY <2>1, <1>9, Joined, LenProperties
<1>14. /\ A \o B \o C \o SweepCycles \in Seq(J)
       /\ Len(A \o B \o C \o SweepCycles) = Len(A \o B \o C) + 1
  BY <1>5, <1>13, Joined
<1>15. /\ A \o B \o C \o SweepCycles \o D \in Seq(J)
       /\ Len(A \o B \o C \o SweepCycles \o D) = Len(A \o B \o C) + 1 + Len(D)
       /\ Len(D) \in Nat
  BY <1>10, <1>14, Joined, LenProperties
<1>16. /\ A \o B \o C \o SweepCycles \o D \o E \in Seq(J)
       /\ Len(A \o B \o C \o SweepCycles \o D \o E) = Len(A \o B \o C) + 1 + Len(D) + Len(E)
       /\ Len(E) \in Nat
  BY <1>11, <1>15, Joined, LenProperties
<1>17. A \o B \o C \o SweepCycles \o D \o E # <<>> BY <1>13, <1>15, <1>16, EmptySeq
<1> QED BY <1>12, <1>16, <1>17 DEF J

(* The evaluation goes on to its statements, and from one to the next.     *)
LEMMA NextRow ==
  ASSUME NEW w \in WorkRow, w.op \in {"daily", "write"}, NEW todo \in Seq(Statement)
  PROVE  /\ [w EXCEPT !.op = "write", !.todo = todo] \in WorkRow
         /\ [w EXCEPT !.op = "write", !.todo = todo].op = "write"
         /\ [w EXCEPT !.op = "write", !.todo = todo].pay = w.pay
         /\ [w EXCEPT !.op = "write", !.todo = todo].seen = w.seen
         /\ [w EXCEPT !.op = "write", !.todo = todo].todo = todo
         /\ [w EXCEPT !.op = "write", !.todo = todo].passed = w.passed
<1> DEFINE v == [w EXCEPT !.op = "write", !.todo = todo]
<1>1. Shape(w) /\ SeenBy(w) BY WorkRows
<1>2. /\ v.op = "write" /\ v.pay = w.pay /\ v.seen = w.seen /\ v.todo = todo
      /\ v.passed = w.passed
      /\ v \in [op : Ops, pay : Payment \cup {Nobody}, seen : {w.seen},
                todo : Seq(Statement), passed : BOOLEAN]
  BY <1>1 DEF Shape, Ops
<1> HIDE DEF v
<1>3. Shape(v) /\ SeenBy(v) BY <1>1, <1>2 DEF SeenBy, Shape
<1>4. v \in WorkRow BY <1>3, WorkRows
<1> QED BY <1>2, <1>4 DEF v

LEMMA Looked ==
  ASSUME SubsTypeOK, NEW a \in Worker, LookDaily(a)
  PROVE  /\ work' \in [Worker -> WorkRow]
         /\ work[a].op = "daily"
         /\ \/ work'[a] = Idle
            \/ /\ work'[a].op = "write" /\ work'[a].pay = work[a].pay
               /\ work'[a].seen = work[a].seen /\ work'[a].passed = work[a].passed
               /\ work'[a].todo # <<>>
               /\ work'[a].todo \in Seq(Justified(work[a].seen.sub, work[a].seen.day))
         /\ \A b \in Worker : b # a => work'[b] = work[b]
<1> DEFINE todo == Evaluation(work[a].seen.sub, work[a].seen.day)
<1>1. CASE Stop(a) BY <1>1, Stopped DEF LookDaily
<1>2. CASE work' = [work EXCEPT ![a].op = "write", ![a].todo = todo]
  <2>1. work[a].op = "daily" /\ work[a].seen \in [sub : SubRow, day : 0..LastDay]
    BY Knows DEF LookDaily, SeenBy
  <2>2. /\ todo \in Seq(Justified(work[a].seen.sub, work[a].seen.day)) /\ todo # <<>>
    <3>1. work[a].seen.sub \in SubRow /\ work[a].seen.day \in Nat BY <2>1
    <3> QED BY <3>1, EvaluationWrites
  <2>3. todo \in Seq(Statement) BY <2>2 DEF Justified
  <2> DEFINE row == [work[a] EXCEPT !.op = "write", !.todo = todo]
  <2>4. work' = [work EXCEPT ![a] = row] BY <1>2 DEF SubsTypeOK
  <2>5. /\ row \in WorkRow /\ row.op = "write" /\ row.pay = work[a].pay
        /\ row.seen = work[a].seen /\ row.todo = todo /\ row.passed = work[a].passed
    <3> HIDE DEF todo
    <3>1. work[a] \in WorkRow BY Knows
    <3> QED BY <2>1, <2>3, <3>1, NextRow
  <2> HIDE DEF row, todo
  <2> QED BY <2>1, <2>2, <2>4, <2>5 DEF SubsTypeOK
<1> QED BY <1>1, <1>2 DEF LookDaily

LEMMA Wrote ==
  ASSUME SubsTypeOK, Planned, NEW a \in Worker, Write(a)
  PROVE  /\ work' \in [Worker -> WorkRow]
         /\ work[a].op = "write"
         /\ \/ work'[a] = Idle
            \/ /\ work'[a].op = "write" /\ work'[a].pay = work[a].pay
               /\ work'[a].seen = work[a].seen /\ work'[a].passed = work[a].passed
               /\ work'[a].todo # <<>> /\ work'[a].todo = Tail(work[a].todo)
               /\ work'[a].todo \in Seq(Justified(work[a].seen.sub, work[a].seen.day))
         /\ \A b \in Worker : b # a => work'[b] = work[b]
         /\ Head(work[a].todo) \in Justified(work[a].seen.sub, work[a].seen.day)
<1> DEFINE todo == Tail(work[a].todo)
           J == Justified(work[a].seen.sub, work[a].seen.day)
<1>1. work[a].op = "write" /\ work[a].todo \in Seq(J) /\ work[a].todo # <<>>
  BY DEF Write, Planned
<1>2. Head(work[a].todo) \in J /\ todo \in Seq(J) /\ Len(todo) = Len(work[a].todo) - 1
  <2> HIDE DEF J
  <2> QED BY <1>1, HeadTailProperties
<1>3. todo \in Seq(Statement) BY <1>2 DEF Justified
<1>4. Len(work[a].todo) # 1 => todo # <<>>
  <2> HIDE DEF todo, J
  <2>1. Len(work[a].todo) \in Nat /\ Len(work[a].todo) # 0
    BY <1>1, EmptySeq, LenProperties
  <2>2. Len(work[a].todo) # 1 => Len(todo) # 0 BY <1>2, <2>1
  <2> QED BY <2>2
<1>5. CASE work' = [work EXCEPT ![a] = Idle] BY <1>1, <1>2, <1>5, IdleRow DEF SubsTypeOK
<1>6. CASE work' = [work EXCEPT ![a].todo = todo] /\ Len(work[a].todo) # 1
  <2> DEFINE row == [work[a] EXCEPT !.op = "write", !.todo = todo]
             same == [work[a] EXCEPT !.todo = todo]
  <2>1. /\ row \in WorkRow /\ row.op = "write" /\ row.pay = work[a].pay
        /\ row.seen = work[a].seen /\ row.todo = todo /\ row.passed = work[a].passed
    <3> HIDE DEF todo
    <3>1. work[a] \in WorkRow BY Knows
    <3> QED BY <1>1, <1>3, <3>1, NextRow
  <2>2. work' = [work EXCEPT ![a] = same] BY <1>6 DEF SubsTypeOK
  <2>3. same = row BY <1>1, Knows, WorkRows DEF Shape
  <2> HIDE DEF row, same, todo
  <2> QED BY <1>1, <1>2, <1>4, <1>6, <2>1, <2>2, <2>3 DEF SubsTypeOK, todo
<1> QED BY <1>5, <1>6 DEF Write

LEMMA NewStatus ==
  ASSUME SubsTypeOK, NEW st \in SubStatuses, NEW pr \in {"none", "live", "lapsed"}
  PROVE  /\ [sub EXCEPT !.status = st] \in SubRow
         /\ [sub EXCEPT !.prov = pr] \in SubRow
         /\ [sub EXCEPT !.status = st, !.prov = pr] \in SubRow
         /\ [sub EXCEPT !.status = st].end = sub.end
         /\ [sub EXCEPT !.prov = pr].end = sub.end
         /\ [sub EXCEPT !.status = st, !.prov = pr].end = sub.end
BY DEF SubsTypeOK, SubRow

LEMMA TypesStep == ASSUME Basics, SubsNext PROVE SubsTypeOK'
<1> USE DEF Basics
<1>t. /\ today \in 0..LastDay /\ sub \in SubRow /\ account \in AccountRow
      /\ cycle \in [Day -> CycleRow] /\ payment \in [Payment -> PaymentRow]
      /\ work \in [Worker -> WorkRow]
      /\ granted \in Day /\ restored \subseteq Day /\ overtaken \in BOOLEAN
  BY DEF SubsTypeOK
<1>1. ASSUME NEW p \in Payment, NEW e \in Day \cup {NoCycle}, NEW admin \in BOOLEAN,
             NEW receipt \in BOOLEAN, Submit(p, e, admin, receipt)
      PROVE  SubsTypeOK'
  <2> DEFINE row == [NotSent EXCEPT !.status = "pending_review", !.cycle = e]
             C == Closed(Waiting(e))
  <2>1. row \in PaymentRow BY DEF NotSent, PaymentRow, PayStatuses
  <2>2. payment' = [C EXCEPT ![p] = row] BY <1>1 DEF Submit
  <2>3. C \in [Payment -> PaymentRow] BY ClosedRows
  <2> HIDE DEF C, row
  <2>4. payment' \in [Payment -> PaymentRow] BY <2>1, <2>2, <2>3
  <2>5. cycle' \in [Day -> CycleRow] BY <1>1, <1>t DEF Submit, CycleRow, CycleStatuses
  <2>6. sub' \in SubRow BY <1>1, <1>t DEF Submit, SubRow, SubStatuses
  <2>7. account' \in AccountRow BY <1>1, <1>t DEF Submit, AccountRow
  <2> QED BY <1>1, <1>t, <2>4, <2>5, <2>6, <2>7 DEF Submit, SubsTypeOK
<1>2. ASSUME NEW a \in Worker, NEW p \in Payment \cup {Nobody},
             NEW op \in {"approve", "reject", "revert", "extend", "issue", "daily"},
             Start(a, op, p)
      PROVE  SubsTypeOK'
  BY <1>2, <1>t, Started DEF Start, SubsTypeOK
<1>3. ASSUME NEW a \in Worker, EndApprove(a) PROVE SubsTypeOK'
  <2> DEFINE p == work[a].pay  seen == work[a].seen
  <2>1. /\ p \in Payment
        /\ seen \in [sub : SubRow, account : AccountRow, cycle : Cycles, status : Statuses,
                     of : CyclesOf]
        /\ StopPassing(a)
    BY <1>3, Knows DEF EndApprove, Held, SeenBy
  <2>2. PICK e \in Day, made \in BOOLEAN, rows \in [Day -> CycleRow] :
          Approved(seen, p, e, made, rows)
    <3>1. CASE \E e \in Day : Pays(p, e) /\ Approvable(seen, p, e)
                             /\ Approved(seen, p, e, FALSE, cycle)
      BY <3>1, <1>t
    <3>2. CASE \E n \in {today} \cup Covered(seen) :
                  /\ Last(n, {today} \cup Covered(seen)) /\ Insertable(seen, n + Period)
                  /\ Approved(seen, p, n + Period, TRUE, Created(seen, n + Period, n))
      <4>1. PICK n \in {today} \cup Covered(seen) :
                  /\ Insertable(seen, n + Period)
                  /\ Approved(seen, p, n + Period, TRUE, Created(seen, n + Period, n))
        BY <3>2
      <4>2. n \in Nat BY <1>t, <2>1 DEF Covered, Charged, SubRow
      <4>3. n + Period \in Day BY <4>1 DEF Insertable
      <4>4. Created(seen, n + Period, n) \in [Day -> CycleRow] BY <4>1, <4>2, CreatedRows
      <4> QED BY <4>1, <4>3, <4>4
    <3> QED BY <1>3, <3>1, <3>2 DEF EndApprove
  <2> DEFINE row == [status |-> "approved", cycle |-> e,
                turn |-> 1 + Cardinality({q \in Payment : payment[q].turn # 0}),
                back |-> [sub |-> seen.sub, account |-> seen.account, made |-> made,
                          was |-> IF made THEN "none" ELSE cycle[e].status]]
             C == Closed(Siblings(seen, p, e))
  <2>3. row \in PaymentRow
    <3>1. IsFiniteSet({q \in Payment : payment[q].turn # 0}) BY FS_Subset, SubsAssumption
    <3>2. Cardinality({q \in Payment : payment[q].turn # 0}) \in Nat BY <3>1, FS_CardinalityType
    <3>3. cycle[e].status \in CycleStatuses /\ "none" \in CycleStatuses
      BY <1>t DEF CycleRow, CycleStatuses
    <3> DEFINE back == [sub |-> seen.sub, account |-> seen.account, made |-> made,
                        was |-> IF made THEN "none" ELSE cycle[e].status]
    <3>4. back \in Back BY <2>1, <2>2, <3>3 DEF Back
    <3> HIDE DEF back
    <3>5. [status |-> "approved", cycle |-> e,
           turn |-> 1 + Cardinality({q \in Payment : payment[q].turn # 0}),
           back |-> back] \in PaymentRow
      BY <2>2, <3>2, <3>4 DEF PaymentRow, PayStatuses
    <3> QED BY <3>5 DEF back
  <2>4. C \in [Payment -> PaymentRow] BY ClosedRows
  <2>5. payment' = [C EXCEPT ![p] = row] BY <2>2 DEF Approved
  <2> HIDE DEF row, C
  <2>6. payment' \in [Payment -> PaymentRow] BY <2>3, <2>4, <2>5
  <2>7. cycle' \in [Day -> CycleRow] BY <2>2 DEF Approved, CycleRow, CycleStatuses
  <2>8. sub' \in SubRow /\ account' \in AccountRow
    BY <2>2 DEF Approved, Extended, FirstAccount, SubRow, SubStatuses, AccountRow
  <2>9. work' \in [Worker -> WorkRow] BY <2>1, StoppedPassing
  <2> QED BY <1>t, <2>2, <2>6, <2>7, <2>8, <2>9 DEF Approved, SubsTypeOK
<1>4. ASSUME NEW a \in Worker, EndReject(a) PROVE SubsTypeOK'
  <2>1. /\ work[a].pay \in Payment /\ payment' \in [Payment -> PaymentRow]
        /\ work' \in [Worker -> WorkRow]
    BY <1>4, ClosedRows, Stopped DEF EndReject, Held
  <2>2. \A e \in Day \cup {NoCycle} : Reopened(e) \in [Day -> CycleRow]
    BY <1>t DEF Reopened, CycleRow, CycleStatuses
  <2>3. cycle' \in [Day -> CycleRow]
    BY <1>4, <1>t, <2>1, <2>2 DEF EndReject, PaymentRow
  <2>4. \A seen : Strike(seen) => sub' \in SubRow /\ account' \in AccountRow
    <3> SUFFICES ASSUME NEW seen, Strike(seen) PROVE sub' \in SubRow /\ account' \in AccountRow
      OBVIOUS
    <3>1. account.strikes + 1 \in Nat BY <1>t DEF AccountRow
    <3>2. \A n \in Nat, st \in {"active", "suspended", "blocked"}, b \in BOOLEAN :
            /\ [status |-> st, strikes |-> n, blocked |-> b] \in AccountRow
            /\ [account EXCEPT !.status = st, !.strikes = n] \in AccountRow
            /\ [account EXCEPT !.strikes = n] \in AccountRow
      BY <1>t DEF AccountRow
    <3>4. account' \in AccountRow BY <3>1, <3>2 DEF Strike
    <3>3. sub' \in SubRow BY <1>t, NewStatus DEF Strike, SubStatuses
    <3> QED BY <3>3, <3>4
  <2>5. sub' \in SubRow /\ account' \in AccountRow BY <1>4, <1>t, <2>4 DEF EndReject
  <2> QED BY <1>4, <1>t, <2>1, <2>3, <2>5 DEF EndReject, SubsTypeOK
<1>5. ASSUME NEW a \in Worker, EndRevert(a) PROVE SubsTypeOK'
  <2> DEFINE p == work[a].pay  e == payment[p].cycle  back == payment[p].back
  <2>1. /\ p \in Payment /\ e \in Day /\ back \in Back /\ StopPassing(a)
    BY <1>5, <1>t DEF EndRevert, Held, Remembered, PaymentRow
  <2>2. sub' \in SubRow /\ account' \in AccountRow BY <1>5, <2>1 DEF EndRevert, Back
  <2>3. cycle' \in [Day -> CycleRow]
    BY <1>5, <1>t, <2>1 DEF EndRevert, Back, CycleRow, CycleStatuses, NoRow
  <2>4. payment' \in [Payment -> PaymentRow]
    <3> DEFINE row == [payment[p] EXCEPT !.status = "reversed",
                                         !.cycle = IF back.made THEN NoCycle ELSE e]
    <3>1. row \in PaymentRow
      <4>1. payment[p] \in PaymentRow BY <1>t, <2>1
      <4>2. \A c \in Day \cup {NoCycle} :
              [payment[p] EXCEPT !.status = "reversed", !.cycle = c] \in PaymentRow
        BY <4>1 DEF PaymentRow, PayStatuses
      <4>3. (IF back.made THEN NoCycle ELSE e) \in Day \cup {NoCycle} BY <2>1
      <4> HIDE DEF e, back
      <4> QED BY <4>2, <4>3
    <3>2. payment' = [payment EXCEPT ![p] = row] BY <1>5, <1>t, <2>1 DEF EndRevert
    <3> HIDE DEF row
    <3> QED BY <1>t, <3>1, <3>2
  <2>5. restored' \subseteq Day /\ overtaken' \in BOOLEAN BY <1>5, <1>t, <2>1 DEF EndRevert
  <2>6. work' \in [Worker -> WorkRow] BY <2>1, StoppedPassing
  <2> QED BY <1>5, <1>t, <2>2, <2>3, <2>4, <2>5, <2>6 DEF EndRevert, SubsTypeOK
<1>6. ASSUME NEW a \in Worker, Rollback(a) PROVE SubsTypeOK'
  BY <1>6, <1>t, Stopped DEF Rollback, SubsTypeOK
<1>7. ASSUME NEW a \in Worker, EndExtend(a) PROVE SubsTypeOK'
  <2> DEFINE seen == work[a].seen
  <2>1. seen \in [sub : SubRow, cycle : Cycles] /\ StopPassing(a)
    BY <1>7, Knows DEF EndExtend, SeenBy
  <2>2. PICK n \in {today} \cup Covered(seen) :
       /\ Insertable(seen, n + Period)
       /\ sub' = Extended(n + Period)
       /\ cycle' = Created(seen, n + Period, n)
       /\ granted' = IF n + Period > granted THEN n + Period ELSE granted
    BY <1>7 DEF EndExtend
  <2>3. n \in Nat BY <1>t, <2>1 DEF Covered, Charged, SubRow
  <2>4. n + Period \in Day BY <2>2 DEF Insertable
  <2>5. cycle' \in [Day -> CycleRow] BY <2>2, <2>3, CreatedRows
  <2>6. sub' \in SubRow BY <2>2, <2>4 DEF Extended, SubRow, SubStatuses
  <2>7. account' \in AccountRow BY <1>7, <1>t DEF EndExtend, AccountRow
  <2>8. work' \in [Worker -> WorkRow] BY <2>1, StoppedPassing
  <2> QED BY <1>7, <1>t, <2>2, <2>4, <2>5, <2>6, <2>7, <2>8 DEF EndExtend, SubsTypeOK
<1>8. ASSUME NEW a \in Worker, EndIssue(a) PROVE SubsTypeOK'
  <2> DEFINE seen == work[a].seen
  <2>1. seen \in [sub : SubRow, cycle : Cycles] /\ Stop(a)
    BY <1>8, Knows DEF EndIssue, SeenBy
  <2>2. PICK n \in Covered(seen) :
          /\ n + Period \in Day
          /\ cycle' = [cycle EXCEPT
               ![n + Period] = [status |-> "pending", due |-> n, prov |-> FALSE]]
    BY <1>8 DEF EndIssue
  <2>3. n \in Nat BY <2>1 DEF Covered, Charged, SubRow
  <2>4. cycle' \in [Day -> CycleRow] BY <1>t, <2>2, <2>3 DEF CycleRow, CycleStatuses
  <2>5. work' \in [Worker -> WorkRow] BY <2>1, Stopped
  <2> QED BY <1>8, <1>t, <2>4, <2>5 DEF EndIssue, SubsTypeOK
<1>9. ASSUME NEW a \in Worker, LookDaily(a) PROVE SubsTypeOK'
  BY <1>9, <1>t, Looked DEF LookDaily, SubsTypeOK
<1>10. ASSUME NEW a \in Worker, Write(a) PROVE SubsTypeOK'
  <2> DEFINE s == Head(work[a].todo)
  <2>1. /\ work' \in [Worker -> WorkRow]
        /\ s \in Justified(work[a].seen.sub, work[a].seen.day)
    BY <1>10, Wrote
  <2>2. sub' \in SubRow
    BY <1>10, <1>t, <2>1, NewStatus DEF Write, Justified, Statement, SubRow
  <2>3. account' \in AccountRow
    BY <1>10, <1>t, <2>1 DEF Write, Justified, Statement, AccountRow
  <2>4. cycle' \in [Day -> CycleRow]
    <3>1. \A e \in Day : [cycle[e] EXCEPT !.status = "overdue"] \in CycleRow
      BY <1>t DEF CycleRow, CycleStatuses
    <3> QED BY <1>10, <1>t, <3>1 DEF Write
  <2> QED BY <1>10, <1>t, <2>1, <2>2, <2>3, <2>4 DEF Write, SubsTypeOK
<1>11. ASSUME NEW e \in Day, Cancel(e) PROVE SubsTypeOK'
  <2>1. payment' \in [Payment -> PaymentRow] BY <1>11, ClosedRows DEF Cancel
  <2>2. cycle' \in [Day -> CycleRow] BY <1>11, <1>t DEF Cancel, CycleRow, CycleStatuses
  <2> QED BY <1>11, <1>t, <2>1, <2>2 DEF Cancel, SubsTypeOK
<1>12. ASSUME Unblock \/ EnsureCycle \/ ProvisionalEnds \/ Tomorrow PROVE SubsTypeOK'
  <2>1. CASE Unblock BY <1>t, <2>1 DEF Unblock, AccountRow, SubsTypeOK
  <2>2. CASE EnsureCycle
    <3>1. cycle' \in [Day -> CycleRow]
      BY <1>t, <2>2 DEF EnsureCycle, CycleRow, CycleStatuses, SubRow
    <3> QED BY <1>t, <2>2, <3>1 DEF EnsureCycle, SubsTypeOK
  <2>3. CASE ProvisionalEnds
    <3>1. sub' \in SubRow BY <1>t, <2>3 DEF ProvisionalEnds, SubRow
    <3> QED BY <1>t, <2>3, <3>1 DEF ProvisionalEnds, SubsTypeOK
  <2>4. CASE Tomorrow
    <3>1. today' \in 0..LastDay BY <1>t, <2>4 DEF Tomorrow
    <3> QED BY <1>t, <2>4, <3>1 DEF Tomorrow, SubsTypeOK
  <2> QED BY <1>12, <2>1, <2>2, <2>3, <2>4
<1> QED BY <1>1, <1>2, <1>3, <1>4, <1>5, <1>6, <1>7, <1>8, <1>9, <1>10, <1>11, <1>12
        DEF SubsNext, BeginApprove, BeginReject, BeginRevert, BeginExtend, BeginIssue,
            BeginDaily

(* A worker stays with its payment until it is done.                       *)
Stays(b) ==
  \/ work'[b] = Idle
  \/ /\ work'[b].pay = work[b].pay
     /\ work'[b].op = work[b].op \/ (work[b].op = "daily" /\ work'[b].op = "write")

LEMMA HeldKept ==
  ASSUME Basics,
         \A b \in Worker :
           /\ Stays(b)
           /\ work'[b] = Idle \/ work[b].pay \notin Payment
              \/ payment'[work[b].pay].status = payment[work[b].pay].status
  PROVE  Held'
<1>1. \A b \in Worker : work'[b] = Idle => work'[b].op = "idle" /\ work'[b].pay = Nobody
  BY DEF Idle
<1> QED BY <1>1 DEF Basics, Held, Stays

LEMMA HeldStep == ASSUME Basics, SubsNext PROVE Held'
<1> USE DEF Basics
<1>i. Idle.op = "idle" /\ Idle.pay = Nobody BY DEF Idle
<1>1. ASSUME NEW p \in Payment, NEW e \in Day \cup {NoCycle}, NEW admin \in BOOLEAN,
             NEW receipt \in BOOLEAN, Submit(p, e, admin, receipt)
      PROVE  Held'
  <2>1. \A b \in Worker : work[b].pay \in Payment =>
          work[b].pay # p /\ work[b].pay \notin Waiting(e)
    BY <1>1, Knows DEF Submit, Held, Free, Ops
  <2>2. \A q \in Payment : q # p /\ q \notin Waiting(e) => payment'[q].status = payment[q].status
    BY <1>1, ClosedRows DEF Submit
  <2> QED BY <1>1, <2>1, <2>2, HeldKept DEF Submit, Stays
<1>2. ASSUME NEW a \in Worker, NEW p \in Payment, NEW op \in {"approve", "reject", "revert"},
             payment[p].status = (IF op = "revert" THEN "approved" ELSE "pending_review"),
             Free(p), Start(a, op, p)
      PROVE  Held'
  <2>1. /\ work'[a].op = op /\ work'[a].pay = p /\ payment' = payment
        /\ \A b \in Worker : b # a => work'[b] = work[b]
    BY <1>2, Started DEF Start
  <2> QED BY <1>2, <2>1 DEF Held, Free
<1>3. ASSUME NEW a \in Worker, NEW op \in {"extend", "issue", "daily"}, Start(a, op, Nobody)
      PROVE  Held'
  <2>1. /\ work'[a].op = op /\ work'[a].pay = Nobody /\ payment' = payment
        /\ \A b \in Worker : b # a => work'[b] = work[b]
    BY <1>3, Started DEF Start
  <2> QED BY <1>3, <2>1 DEF Held
<1>4. ASSUME NEW a \in Worker, EndApprove(a) PROVE Held'
  <2> DEFINE p == work[a].pay  seen == work[a].seen
  <2>1. PICK e, made, rows : Approved(seen, p, e, made, rows)
    BY <1>4 DEF EndApprove
  <2>2. \A b \in Worker : work[b].pay \notin Siblings(seen, p, e) BY <2>1 DEF Approved, Free
  <2>3. \A q \in Payment : q # p /\ q \notin Siblings(seen, p, e) =>
          payment'[q].status = payment[q].status
    BY <2>1, ClosedRows DEF Approved
  <2>4. \A b \in Worker : b # a => work[b].pay \notin Payment \/ work[b].pay # p
    BY <1>4 DEF EndApprove, Held
  <2>5. work'[a] = Idle /\ \A b \in Worker : Stays(b)
    BY <1>4, <1>i, StoppedPassing DEF EndApprove, Stays
  <2> QED BY <2>2, <2>3, <2>4, <2>5, HeldKept
<1>5. ASSUME NEW a \in Worker, EndReject(a) PROVE Held'
  <2>1. \A q \in Payment : q # work[a].pay => payment'[q].status = payment[q].status
    BY <1>5, ClosedRows DEF EndReject
  <2>2. \A b \in Worker : b # a => work[b].pay \notin Payment \/ work[b].pay # work[a].pay
    BY <1>5 DEF EndReject, Held
  <2>3. work'[a] = Idle /\ \A b \in Worker : Stays(b)
    BY <1>5, Stopped DEF EndReject, Stays
  <2> QED BY <2>1, <2>2, <2>3, HeldKept
<1>6. ASSUME NEW a \in Worker, EndRevert(a) PROVE Held'
  <2>1. \A q \in Payment : q # work[a].pay => payment'[q].status = payment[q].status
    BY <1>6 DEF EndRevert, SubsTypeOK
  <2>2. \A b \in Worker : b # a => work[b].pay \notin Payment \/ work[b].pay # work[a].pay
    BY <1>6 DEF EndRevert, Held
  <2>3. work'[a] = Idle /\ \A b \in Worker : Stays(b)
    BY <1>6, StoppedPassing DEF EndRevert, Stays
  <2> QED BY <2>1, <2>2, <2>3, HeldKept
<1>7. ASSUME NEW a \in Worker, Rollback(a) \/ EndIssue(a) PROVE Held'
  <2>1. payment' = payment /\ \A b \in Worker : Stays(b)
    BY <1>7, Stopped DEF Rollback, EndIssue, Stays
  <2> QED BY <2>1, HeldKept
<1>8. ASSUME NEW a \in Worker, EndExtend(a) PROVE Held'
  <2>1. payment' = payment /\ \A b \in Worker : Stays(b)
    BY <1>8, StoppedPassing DEF EndExtend, Stays
  <2> QED BY <2>1, HeldKept
<1>9. ASSUME NEW a \in Worker, LookDaily(a) \/ Write(a) PROVE Held'
  <2>1. payment' = payment /\ \A b \in Worker : Stays(b)
    BY <1>9, Looked, Wrote DEF LookDaily, Write, Stays
  <2> QED BY <2>1, HeldKept
<1>10. ASSUME NEW e \in Day, Cancel(e) PROVE Held'
  <2>1. \A b \in Worker : work[b].pay \notin Waiting(e) BY <1>10 DEF Cancel, Free
  <2>2. \A q \in Payment : q \notin Waiting(e) => payment'[q].status = payment[q].status
    BY <1>10, ClosedRows DEF Cancel
  <2> QED BY <1>10, <2>1, <2>2, HeldKept DEF Cancel, Stays
<1>11. ASSUME Unblock \/ EnsureCycle \/ ProvisionalEnds \/ Tomorrow PROVE Held'
  BY <1>11, HeldKept DEF Unblock, EnsureCycle, ProvisionalEnds, Tomorrow, Stays
<1> QED BY <1>1, <1>2, <1>3, <1>4, <1>5, <1>6, <1>7, <1>8, <1>9, <1>10, <1>11
        DEF SubsNext, BeginApprove, BeginReject, BeginRevert, BeginExtend, BeginIssue,
            BeginDaily

LEMMA RememberedStep == ASSUME Basics, SubsNext PROVE Remembered'
<1> USE DEF Basics
<1>1. ASSUME NEW p \in Payment, NEW e \in Day \cup {NoCycle}, NEW admin \in BOOLEAN,
             NEW receipt \in BOOLEAN, Submit(p, e, admin, receipt)
      PROVE  Remembered'
  <2> DEFINE row == [NotSent EXCEPT !.status = "pending_review", !.cycle = e]
             C == Closed(Waiting(e))
  <2>1. row.status = "pending_review" /\ row.turn = 0 BY DEF NotSent
  <2>2. payment' = [C EXCEPT ![p] = row] BY <1>1 DEF Submit
  <2>3. /\ C \in [Payment -> PaymentRow]
        /\ \A q \in Payment : /\ C[q].cycle = payment[q].cycle /\ C[q].turn = payment[q].turn
                              /\ C[q].back = payment[q].back
                              /\ C[q].status \in {payment[q].status, "rejected"}
    BY ClosedRows
  <2> HIDE DEF C, row
  <2>4. payment'[p] = row /\ \A q \in Payment : q # p => payment'[q] = C[q] BY <2>2, <2>3
  <2> QED BY <2>1, <2>3, <2>4 DEF Remembered
<1>2. ASSUME NEW a \in Worker, EndApprove(a) PROVE Remembered'
  <2> DEFINE p == work[a].pay  seen == work[a].seen
  <2>1. p \in Payment BY <1>2 DEF EndApprove, Held
  <2>2. PICK e, made, rows :
          /\ e \in Day /\ made \in BOOLEAN /\ Approved(seen, p, e, made, rows)
          /\ made \/ cycle[e].status # "paid"
    BY <1>2 DEF EndApprove, Approvable, Insertable, Pays, Pending, PaymentRow, SubsTypeOK
  <2> DEFINE back == [sub |-> seen.sub, account |-> seen.account, made |-> made,
                      was |-> IF made THEN "none" ELSE cycle[e].status]
             C == Closed(Siblings(seen, p, e))
  <2>3. /\ payment'[p].status = "approved" /\ payment'[p].cycle = e
        /\ payment'[p].back = back
        /\ \A q \in Payment : q # p => payment'[q] = C[q]
    BY <2>1, <2>2, ClosedRows DEF Approved
  <2>4. back.was # "paid" /\ (back.made => back.was = "none") BY <2>2
  <2>5. back \in Back
    <3>1. seen \in [sub : SubRow, account : AccountRow, cycle : Cycles, status : Statuses,
                     of : CyclesOf]
      BY <1>2, Knows DEF EndApprove, SeenBy
    <3>2. cycle[e].status \in CycleStatuses /\ "none" \in CycleStatuses
      BY <2>2 DEF CycleRow, CycleStatuses, SubsTypeOK
    <3> QED BY <2>2, <3>1, <3>2 DEF Back
  <2>6. \A q \in Payment : /\ C[q].cycle = payment[q].cycle /\ C[q].turn = payment[q].turn
                           /\ C[q].back = payment[q].back
                           /\ C[q].status \in {payment[q].status, "rejected"}
    BY ClosedRows
  <2> HIDE DEF C, back
  <2> QED BY <2>2, <2>3, <2>4, <2>5, <2>6 DEF Remembered
<1>3. ASSUME NEW a \in Worker, EndReject(a) PROVE Remembered'
  BY <1>3, ClosedRows DEF EndReject, Remembered
<1>4. ASSUME NEW a \in Worker, EndRevert(a) PROVE Remembered'
  <2> DEFINE p == work[a].pay
  <2>1. p \in Payment /\ payment[p] \in PaymentRow BY <1>4 DEF EndRevert, Held, SubsTypeOK
  <2>2. /\ payment'[p].status = "reversed"
        /\ \A q \in Payment : q # p => payment'[q] = payment[q]
    BY <1>4, <2>1 DEF EndRevert, SubsTypeOK, PaymentRow
  <2> QED BY <2>2 DEF Remembered
<1>5. ASSUME NEW e \in Day, Cancel(e) PROVE Remembered'
  BY <1>5, ClosedRows DEF Cancel, Remembered
<1>6. ASSUME UNCHANGED payment PROVE Remembered'
  BY <1>6 DEF Remembered
<1> QED BY <1>1, <1>2, <1>3, <1>4, <1>5, <1>6
        DEF SubsNext, BeginApprove, BeginReject, BeginRevert, BeginExtend, BeginIssue,
            BeginDaily, Start, Rollback, EndExtend, EndIssue, LookDaily, Write, Unblock,
            EnsureCycle, ProvisionalEnds, Tomorrow

LEMMA PlannedStep == ASSUME Basics, SubsNext PROVE Planned'
<1> USE DEF Basics
<1> DEFINE Same(b) == \/ work'[b].op # "write"
                      \/ /\ work[b].op = "write" /\ work'[b].seen = work[b].seen
                         /\ work'[b].todo = work[b].todo
<1>0. (\A b \in Worker : Same(b)) => Planned' BY DEF Planned
<1>i. Idle.op # "write" BY DEF Idle
<1>1. ASSUME NEW a \in Worker, NEW p \in Payment \cup {Nobody},
             NEW op \in {"approve", "reject", "revert", "extend", "issue", "daily"},
             Start(a, op, p)
      PROVE  Planned'
  BY <1>0, <1>1, Started
<1>2. ASSUME NEW a \in Worker, Stop(a) PROVE Planned'
  BY <1>0, <1>2, <1>i, Stopped
<1>3. ASSUME NEW a \in Worker, StopPassing(a) PROVE Planned'
  BY <1>0, <1>3, <1>i, StoppedPassing
<1>4. ASSUME NEW a \in Worker, LookDaily(a) PROVE Planned'
  <2>1. \A b \in Worker : b # a => Same(b) BY <1>4, Looked
  <2> QED BY <1>4, <1>i, <2>1, Looked DEF Planned
<1>5. ASSUME NEW a \in Worker, Write(a) PROVE Planned'
  <2>1. \A b \in Worker : b # a => Same(b) BY <1>5, Wrote
  <2> QED BY <1>5, <1>i, <2>1, Wrote DEF Planned
<1>6. ASSUME UNCHANGED work PROVE Planned'
  BY <1>0, <1>6
<1> HIDE DEF Same
<1> QED BY <1>1, <1>2, <1>3, <1>4, <1>5, <1>6
        DEF SubsNext, BeginApprove, BeginReject, BeginRevert, BeginExtend, BeginIssue,
            BeginDaily, Submit, EndApprove, EndReject, EndRevert, Rollback, EndExtend, EndIssue,
            Cancel, Unblock, EnsureCycle, ProvisionalEnds, Tomorrow

LEMMA BasicsInit == SubsInit => Basics
<1> SUFFICES ASSUME SubsInit PROVE Basics OBVIOUS
<1> USE DEF SubsInit
<1>1. \A a \in Worker : work[a] = Idle BY DEF SubsInit
<1>2. Idle.op = "idle" /\ Idle.pay = Nobody BY DEF Idle
<1>3. Held BY <1>1, <1>2 DEF Held
<1>4. Planned BY <1>1, <1>2 DEF Planned
<1>5. \A q \in Payment : payment[q].status = "none" /\ payment[q].cycle = NoCycle
                        /\ payment[q].turn = 0
  BY DEF NotSent
<1>6. Remembered BY <1>5 DEF Remembered
<1>7. SubsTypeOK
  <2>1. work \in [Worker -> WorkRow] BY IdleRow
  <2>2. NotSent \in PaymentRow BY DEF NotSent, PaymentRow, PayStatuses
  <2>3. NoRow \in CycleRow BY DEF NoRow, CycleRow, CycleStatuses
  <2>4. FirstSub \in SubRow BY DEF FirstSub, SubRow, SubStatuses
  <2>5. FirstAccount \in AccountRow BY DEF FirstAccount, AccountRow
  <2>6. payment \in [Payment -> PaymentRow] /\ cycle \in [Day -> CycleRow]
    BY <2>2, <2>3
  <2>7. today \in 0..LastDay /\ granted \in Day /\ restored \subseteq Day /\ overtaken \in BOOLEAN
    <3>1. today = 0 /\ granted = Period /\ restored = {} /\ overtaken = FALSE
      BY DEF SubsInit
    <3>2. Period \in Day /\ 0 \in 0..LastDay BY SubsAssumption
    <3> QED BY <3>1, <3>2
  <2> QED BY <2>1, <2>4, <2>5, <2>6, <2>7 DEF SubsTypeOK
<1> QED BY <1>3, <1>4, <1>6, <1>7 DEF Basics

LEMMA BasicsStep == Basics /\ [SubsNext]_subsVars => Basics'
<1> SUFFICES ASSUME Basics, [SubsNext]_subsVars PROVE Basics' OBVIOUS
<1>1. CASE SubsNext BY <1>1, TypesStep, HeldStep, RememberedStep, PlannedStep DEF Basics
<1>2. CASE UNCHANGED subsVars
  BY <1>2 DEF Basics, SubsTypeOK, Held, Remembered, Planned
<1> QED BY <1>1, <1>2

(* Every row of the tenant, and what every worker remembers of them, keeps *)
(* its type.                                                               *)
THEOREM SubsTypeCorrect == SubsSpec => []SubsTypeOK
<1>1. Basics => SubsTypeOK BY DEF Basics
<1> QED BY <1>1, BasicsInit, BasicsStep, PTL DEF SubsSpec

-----------------------------------------------------------------------------
(* Payments against cycles.                                                *)

(* Of the payments for one cycle, or for none in particular, one waits.    *)
OneWaits ==
  \A p, q \in Payment :
    payment[p].status = "pending_review" /\ payment[q].status = "pending_review"
    /\ payment[p].cycle = payment[q].cycle => p = q

Reviewed ==
  /\ \A e \in Day : Waiting(e) # {} => cycle[e].status = "pending_review"
  /\ \A e \in Day \ restored : cycle[e].status = "pending_review" => Waiting(e) # {}

(* What a snapshot is still good for when the transaction writes: a payment *)
(* seen with a cycle is for that cycle, or for none once undone; a cycle   *)
(* seen rejected by who may renew over it still is; the receipt to reject  *)
(* did not pay for a cycle that was paid.                                  *)
StillFor(q, e) ==
  \/ payment[q].cycle = e /\ payment[q].status # "none"
  \/ payment[q].cycle = NoCycle /\ payment[q].status \in {"rejected", "reversed"}

Recalls ==
  \A a \in Worker :
    /\ work[a].op = "approve" =>
         /\ \A q \in Payment : work[a].seen.of[q] # NoCycle => StillFor(q, work[a].seen.of[q])
         /\ payment[work[a].pay].cycle = NoCycle =>
              \A e \in Day : work[a].seen.cycle[e] = "rejected" => cycle[e].status = "rejected"
    /\ work[a].op = "reject" => ~DuplicateOfPaid(work[a].seen, work[a].pay)

Settled == OneWaits /\ SettledOnce /\ Reviewed /\ Recalls

LEMMA SnapshotFields ==
  /\ Snapshot("approve").sub = sub /\ Snapshot("reject").sub = sub /\ Snapshot("daily").sub = sub
  /\ Snapshot("daily").day = today
  /\ \A e \in Day : Snapshot("approve").cycle[e] = cycle[e].status
                   /\ Snapshot("reject").cycle[e] = cycle[e].status
  /\ \A q \in Payment : /\ Snapshot("approve").of[q] = payment[q].cycle
                        /\ Snapshot("reject").of[q] = payment[q].cycle
                        /\ Snapshot("approve").status[q] = payment[q].status
                        /\ Snapshot("reject").status[q] = payment[q].status
<1>1. /\ Read["approve"] = {"sub", "account", "cycle", "status", "of"}
      /\ Read["reject"] = {"sub", "cycle", "status", "of"} /\ Read["daily"] = {"sub", "day"}
  BY DEF Read
<1>2. Snapshot("approve").sub = sub /\ Snapshot("reject").sub = sub /\ Snapshot("daily").sub = sub
  BY <1>1 DEF Snapshot
<1>3. Snapshot("daily").day = today BY <1>1 DEF Snapshot
<1>4. /\ Snapshot("approve").cycle = [e \in Day |-> cycle[e].status]
      /\ Snapshot("reject").cycle = [e \in Day |-> cycle[e].status]
  BY <1>1 DEF Snapshot
<1>5. /\ Snapshot("approve").of = [q \in Payment |-> payment[q].cycle]
      /\ Snapshot("reject").of = [q \in Payment |-> payment[q].cycle]
  BY <1>1 DEF Snapshot
<1>6. /\ Snapshot("approve").status = [q \in Payment |-> payment[q].status]
      /\ Snapshot("reject").status = [q \in Payment |-> payment[q].status]
  BY <1>1 DEF Snapshot
<1> QED BY <1>2, <1>3, <1>4, <1>5, <1>6

(* A step that touches no payment, and no cycle that is paid, in review or *)
(* rejected, keeps all this.                                               *)
CyclesQuiet ==
  \A e \in Day : \/ cycle'[e].status = cycle[e].status
                 \/ cycle[e].status = "none" /\ cycle'[e].status = "pending"
                 \/ cycle[e].status = "pending" /\ cycle'[e].status = "overdue"

WorkQuiet ==
  \A b \in Worker : \/ work'[b].op \notin {"approve", "reject"}
                    \/ /\ work'[b].op = work[b].op /\ work'[b].pay = work[b].pay
                       /\ work'[b].seen = work[b].seen

LEMMA QuietStep ==
  ASSUME Basics, Settled, UNCHANGED <<payment, restored>>, CyclesQuiet, WorkQuiet
  PROVE  Settled'
<1> USE DEF CyclesQuiet, WorkQuiet
<1>1. OneWaits' BY DEF Settled, OneWaits
<1>2. SettledOnce' BY DEF Settled, SettledOnce
<1>3. Reviewed' BY DEF Settled, Reviewed, Waiting
<1>4. Recalls' BY DEF Settled, Recalls, StillFor, DuplicateOfPaid
<1> QED BY <1>1, <1>2, <1>3, <1>4 DEF Settled

LEMMA BeginSettled ==
  ASSUME Basics, Settled, NEW a \in Worker, NEW p \in Payment, NEW op \in {"approve", "reject"},
         payment[p].status = "pending_review", Start(a, op, p)
  PROVE  Settled'
<1> USE DEF Basics
<1>1. /\ UNCHANGED <<payment, cycle, restored>>
      /\ work'[a].op = op /\ work'[a].pay = p /\ work'[a].seen = Snapshot(op)
      /\ \A b \in Worker : b # a => work'[b] = work[b]
  BY Started DEF Start
<1>2. OneWaits' BY <1>1 DEF Settled, OneWaits
<1>3. SettledOnce' BY <1>1 DEF Settled, SettledOnce
<1>4. Reviewed' BY <1>1 DEF Settled, Reviewed, Waiting
<1>5. \A q \in Payment : payment[q].cycle # NoCycle => payment[q].status # "none"
  BY DEF Remembered
<1>6. op = "reject" => ~DuplicateOfPaid(Snapshot("reject"), p)
  <2> SUFFICES ASSUME DuplicateOfPaid(Snapshot("reject"), p) PROVE FALSE OBVIOUS
  <2> DEFINE e == payment[p].cycle
  <2>1. e \in Day /\ p \in Waiting(e)
    BY SnapshotFields DEF DuplicateOfPaid, Waiting, SubsTypeOK, PaymentRow
  <2>2. cycle[e].status = "pending_review" BY <2>1 DEF Settled, Reviewed
  <2>3. \A q \in Payment : ~(payment[q].status = "approved" /\ payment[q].cycle = e)
    BY <2>1, <2>2 DEF Settled, SettledOnce
  <2>4. Snapshot("reject").cycle[e] # "paid" BY <2>1, <2>2, SnapshotFields
  <2> QED BY <2>3, <2>4, SnapshotFields DEF DuplicateOfPaid
<1>7. \A b \in Worker : b # a =>
        /\ work'[b].op = "approve" =>
             /\ \A q \in Payment : work'[b].seen.of[q] # NoCycle => StillFor(q, work'[b].seen.of[q])
             /\ payment[work'[b].pay].cycle = NoCycle =>
                  \A e \in Day : work'[b].seen.cycle[e] = "rejected" => cycle[e].status = "rejected"
        /\ work'[b].op = "reject" => ~DuplicateOfPaid(work'[b].seen, work'[b].pay)
  BY <1>1 DEF Settled, Recalls
<1>8. op = "approve" =>
        /\ \A q \in Payment : Snapshot(op).of[q] # NoCycle => StillFor(q, Snapshot(op).of[q])
        /\ \A e \in Day : Snapshot(op).cycle[e] = "rejected" => cycle[e].status = "rejected"
  BY <1>5, SnapshotFields DEF StillFor
<1>9. Recalls' BY <1>1, <1>6, <1>7, <1>8 DEF Recalls, StillFor, DuplicateOfPaid
<1> QED BY <1>2, <1>3, <1>4, <1>9 DEF Settled

LEMMA SubmitSettled ==
  ASSUME Basics, Settled, NEW p \in Payment, NEW e \in Day \cup {NoCycle},
         NEW admin \in BOOLEAN, NEW receipt \in BOOLEAN, Submit(p, e, admin, receipt)
  PROVE  Settled'
<1> USE DEF Basics
<1> DEFINE row == [NotSent EXCEPT !.status = "pending_review", !.cycle = e]
           C == Closed(Waiting(e))
<1>1. row.status = "pending_review" /\ row.cycle = e BY DEF NotSent
<1>2. payment' = [C EXCEPT ![p] = row] BY DEF Submit
<1>3. /\ C \in [Payment -> PaymentRow]
      /\ \A q \in Payment : /\ C[q].cycle = payment[q].cycle
                            /\ C[q].status = IF q \in Waiting(e) THEN "rejected"
                                            ELSE payment[q].status
  BY ClosedRows
<1> HIDE DEF C, row
<1>4. /\ payment'[p].status = "pending_review" /\ payment'[p].cycle = e
      /\ \A q \in Payment : q # p =>
           /\ payment'[q].cycle = payment[q].cycle
           /\ payment'[q].status = IF q \in Waiting(e) THEN "rejected" ELSE payment[q].status
  BY <1>1, <1>2, <1>3
<1>5. /\ payment[p].status = "none" /\ payment[p].cycle = NoCycle /\ restored' = restored
      /\ work' = work /\ \A q \in Waiting(e) : Free(q)
  BY DEF Submit, Remembered
<1>6. /\ \A d \in Day : d # e => cycle'[d].status = cycle[d].status
      /\ e # NoCycle => /\ cycle[e].status \in {"pending", "overdue", "pending_review"}
                        /\ cycle'[e].status = "pending_review"
  <2>1. cycle \in [Day -> CycleRow] BY DEF SubsTypeOK
  <2> QED BY <2>1 DEF Submit, Payable, CycleRow
<1>7. \A q \in Payment : q \in Waiting(e) <=>
        payment[q].status = "pending_review" /\ payment[q].cycle = e
  BY DEF Waiting
<1>8. OneWaits' BY <1>4, <1>7 DEF Settled, OneWaits
<1>9. \A q \in Payment : payment'[q].status = "approved" <=> payment[q].status = "approved"
  BY <1>4, <1>5, <1>7
<1>10. SettledOnce' BY <1>4, <1>5, <1>6, <1>9 DEF Settled, SettledOnce
<1>11. Reviewed'
  <2>1. \A d \in Day : d # e => Waiting(d)' = Waiting(d) BY <1>4, <1>5, <1>7 DEF Waiting
  <2>2. e # NoCycle => p \in Waiting(e)' BY <1>4 DEF Waiting
  <2> QED BY <1>5, <1>6, <2>1, <2>2 DEF Settled, Reviewed
<1>12. Recalls'
  <2> SUFFICES ASSUME NEW a \in Worker
               PROVE  /\ work[a].op = "approve" =>
                           /\ \A q \in Payment : work[a].seen.of[q] # NoCycle =>
                                StillFor(q, work[a].seen.of[q])'
                           /\ payment'[work[a].pay].cycle = NoCycle =>
                                \A d \in Day : work[a].seen.cycle[d] = "rejected" =>
                                  cycle'[d].status = "rejected"
                      /\ work[a].op = "reject" => ~DuplicateOfPaid(work[a].seen, work[a].pay)
    BY <1>5 DEF Recalls, StillFor, DuplicateOfPaid
  <2>1. work[a].op = "approve" => work[a].pay \in Payment /\ work[a].pay # p
    BY <1>5 DEF Held
  <2>2. work[a].op = "approve" => payment'[work[a].pay].cycle = payment[work[a].pay].cycle
    BY <1>4, <2>1
  <2>3. \A q \in Payment : \A d : d # NoCycle /\ StillFor(q, d) => StillFor(q, d)'
    BY <1>4, <1>5, <1>7 DEF StillFor
  <2>4. \A d \in Day : cycle[d].status = "rejected" => cycle'[d].status = "rejected"
    BY <1>6
  <2>5. ASSUME work[a].op = "approve", NEW q \in Payment, work[a].seen.of[q] # NoCycle
        PROVE  StillFor(q, work[a].seen.of[q])'
    <3>1. StillFor(q, work[a].seen.of[q]) BY <2>5 DEF Settled, Recalls
    <3>2. work'[a] = work[a] BY <1>5
    <3> QED BY <2>3, <2>5, <3>1, <3>2 DEF StillFor
  <2>6. work[a].op = "approve" /\ payment[work[a].pay].cycle = NoCycle =>
          \A d \in Day : work[a].seen.cycle[d] = "rejected" => cycle[d].status = "rejected"
    BY DEF Settled, Recalls
  <2>7. work[a].op = "reject" => ~DuplicateOfPaid(work[a].seen, work[a].pay)
    BY DEF Settled, Recalls
  <2> QED BY <2>2, <2>4, <2>5, <2>6, <2>7
<1> QED BY <1>8, <1>10, <1>11, <1>12 DEF Settled

LEMMA CancelSettled ==
  ASSUME Basics, Settled, NEW e \in Day, Cancel(e)
  PROVE  Settled'
<1> USE DEF Basics
<1>1. \A q \in Payment : /\ payment'[q].cycle = payment[q].cycle
                         /\ payment'[q].status = IF q \in Waiting(e) THEN "rejected"
                                                ELSE payment[q].status
  BY ClosedRows DEF Cancel
<1>2. \A q \in Payment : q \in Waiting(e) <=>
        payment[q].status = "pending_review" /\ payment[q].cycle = e
  BY DEF Waiting
<1>3. /\ \A d \in Day : d # e => cycle'[d].status = cycle[d].status
      /\ cycle[e].status # "paid" /\ cycle'[e].status = "rejected"
      /\ work' = work /\ restored' = restored
  BY DEF Cancel, SubsTypeOK, CycleRow
<1>4. OneWaits' BY <1>1, <1>2 DEF Settled, OneWaits
<1>5. SettledOnce' BY <1>1, <1>2, <1>3 DEF Settled, SettledOnce
<1>6. Reviewed'
  <2>1. \A d \in Day : d # e => Waiting(d)' = Waiting(d) BY <1>1, <1>2 DEF Waiting
  <2>2. Waiting(e)' = {} BY <1>1, <1>2 DEF Waiting
  <2> QED BY <1>3, <2>1, <2>2 DEF Settled, Reviewed
<1>7. \A q \in Payment : \A d : d # NoCycle /\ StillFor(q, d) => StillFor(q, d)'
  BY <1>1, <1>2 DEF StillFor
<1>8. \A a \in Worker : work[a].op = "approve" => work[a].pay \in Payment BY DEF Held
<1>9. Recalls' BY <1>1, <1>3, <1>7, <1>8 DEF Settled, Recalls, DuplicateOfPaid
<1> QED BY <1>4, <1>5, <1>6, <1>9 DEF Settled

LEMMA RejectSettled ==
  ASSUME Basics, Settled, NEW a \in Worker, EndReject(a)
  PROVE  Settled'
<1> USE DEF Basics
<1> DEFINE p == work[a].pay  e == payment[p].cycle
<1>1. p \in Payment /\ payment[p].status = "pending_review" /\ e \in Day \cup {NoCycle}
  BY DEF EndReject, Held, SubsTypeOK, PaymentRow
<1>2. \A q \in Payment : /\ payment'[q].cycle = payment[q].cycle
                         /\ payment'[q].status = IF q = p THEN "rejected" ELSE payment[q].status
  BY <1>1, ClosedRows DEF EndReject
<1>3. cycle' = Reopened(e) /\ restored' = restored
  BY DEF EndReject, Settled, Recalls
<1>4. e # NoCycle => cycle[e].status = "pending_review" /\ Waiting(e) # {}
  BY <1>1 DEF Settled, Reviewed, Waiting
<1>5. /\ \A d \in Day : d # e => cycle'[d].status = cycle[d].status
      /\ e # NoCycle => cycle'[e].status \in {"pending", "overdue"}
  BY <1>1, <1>3, <1>4 DEF Reopened, SubsTypeOK, CycleRow
<1>6. OneWaits' BY <1>2 DEF Settled, OneWaits
<1>7. SettledOnce' BY <1>1, <1>2, <1>4, <1>5 DEF Settled, SettledOnce
<1>8. Reviewed'
  <2>1. \A d \in Day : d # e => Waiting(d)' = Waiting(d) BY <1>1, <1>2 DEF Waiting
  <2>2. \A d \in Day : d = e => Waiting(d)' = {}
    BY <1>1, <1>2 DEF Waiting, Settled, OneWaits
  <2> HIDE DEF p, e
  <2> QED BY <1>1, <1>3, <1>5, <2>1, <2>2 DEF Settled, Reviewed
<1>9. Recalls'
  <2>1. \A b \in Worker : \/ work'[b] = Idle
                          \/ work'[b] = work[b]
    BY Stopped DEF EndReject
  <2>2. Idle.op = "idle" BY DEF Idle
  <2>3. \A q \in Payment : \A d : d # NoCycle /\ StillFor(q, d) => StillFor(q, d)'
    BY <1>2 DEF StillFor
  <2>4. \A d \in Day : cycle[d].status = "rejected" => cycle'[d].status = "rejected"
    BY <1>1, <1>4, <1>5
  <2>5. \A b \in Worker : work[b].op = "approve" => work[b].pay \in Payment BY DEF Held
  <2> HIDE DEF p, e
  <2> QED BY <1>2, <2>1, <2>2, <2>3, <2>4, <2>5 DEF Settled, Recalls, DuplicateOfPaid
<1> QED BY <1>6, <1>7, <1>8, <1>9 DEF Settled

LEMMA RevertSettled ==
  ASSUME Basics, Settled, NEW a \in Worker, EndRevert(a)
  PROVE  Settled'
<1> USE DEF Basics
<1> DEFINE p == work[a].pay  e == payment[p].cycle  back == payment[p].back
<1>1. /\ p \in Payment /\ payment[p].status = "approved" /\ e \in Day
      /\ back.was # "paid" /\ (back.made => back.was = "none") /\ back \in Back
  BY DEF EndRevert, Held, Remembered, SubsTypeOK, PaymentRow
<1>2. /\ \A q \in Payment : q # p => payment'[q] = payment[q]
      /\ payment'[p].status = "reversed" /\ payment'[p].cycle \in {e, NoCycle}
  BY <1>1 DEF EndRevert, SubsTypeOK, PaymentRow
<1>3. /\ \A d \in Day : d # e => cycle'[d].status = cycle[d].status
      /\ cycle'[e].status = IF back.made THEN "none" ELSE back.was
  BY <1>1 DEF EndRevert, SubsTypeOK, CycleRow, NoRow
<1>4. restored' = restored \cup (IF back.was = "pending_review" THEN {e} ELSE {})
  BY DEF EndRevert
<1>5. cycle[e].status = "paid" /\ Waiting(e) = {}
  BY <1>1 DEF Settled, SettledOnce, Reviewed
<1>6. \A q \in Payment : q # p => ~(payment[q].status = "approved" /\ payment[q].cycle = e)
  BY <1>1 DEF Settled, SettledOnce
<1> HIDE DEF p, e, back
<1>7. OneWaits' BY <1>1, <1>2 DEF Settled, OneWaits
<1>8. SettledOnce'
  <2>1. \A d \in Day : d # e => (cycle'[d].status = "paid" <=>
          \E q \in Payment : payment'[q].status = "approved" /\ payment'[q].cycle = d)
    BY <1>1, <1>2, <1>3 DEF Settled, SettledOnce, p, e
  <2>2. cycle'[e].status # "paid" BY <1>1, <1>3
  <2>3. \A q \in Payment : ~(payment'[q].status = "approved" /\ payment'[q].cycle = e)
    BY <1>2, <1>6
  <2>4. \A q, r \in Payment : payment'[q].status = "approved" /\ payment'[r].status = "approved"
                              /\ payment'[q].cycle = payment'[r].cycle => q = r
    BY <1>2 DEF Settled, SettledOnce
  <2> QED BY <2>1, <2>2, <2>3, <2>4 DEF SettledOnce
<1>9. Reviewed'
  <2>1. \A d \in Day : Waiting(d)' = Waiting(d) BY <1>1, <1>2 DEF Waiting
  <2> QED BY <1>1, <1>3, <1>4, <1>5, <2>1 DEF Settled, Reviewed
<1>10. Recalls'
  <2>1. \A b \in Worker : \/ work'[b].op = "idle"
                          \/ /\ work'[b].op = work[b].op /\ work'[b].pay = work[b].pay
                             /\ work'[b].seen = work[b].seen
    BY StoppedPassing DEF EndRevert, Idle
  <2>3. \A q \in Payment : \A d : d # NoCycle /\ StillFor(q, d) => StillFor(q, d)'
    BY <1>1, <1>2 DEF StillFor, e
  <2>4. \A d \in Day : cycle[d].status = "rejected" => cycle'[d].status = "rejected"
    BY <1>1, <1>3, <1>5
  <2>5. \A b \in Worker : work[b].op = "approve" => work[b].pay \in Payment /\ work[b].pay # p
    BY <1>1 DEF Held
  <2> QED BY <1>2, <2>1, <2>3, <2>4, <2>5 DEF Settled, Recalls, DuplicateOfPaid
<1> QED BY <1>7, <1>8, <1>9, <1>10 DEF Settled

(* An approval finds its cycle unpaid, and leaves nobody waiting for it:   *)
(* the receipts it closes by what it read still are what it read.          *)
Effect(a, e) ==
  LET p == work[a].pay IN
  /\ payment[p].cycle \in {e, NoCycle}
  /\ cycle[e].status # "paid"
  /\ \A d \in Day : d # e => cycle'[d].status = cycle[d].status
  /\ cycle'[e].status = "paid"
  /\ Waiting(e) \subseteq {p}
  /\ payment'[p].status = "approved" /\ payment'[p].cycle = e
  /\ payment'[p].turn = 1 + Cardinality({q \in Payment : payment[q].turn # 0})
  /\ payment'[p].back.sub = work[a].seen.sub
  /\ \A q \in Payment \ {p} :
       /\ payment'[q].cycle = payment[q].cycle /\ payment'[q].turn = payment[q].turn
       /\ payment'[q].back = payment[q].back
       /\ \/ payment'[q].status = payment[q].status
          \/ /\ payment'[q].status = "rejected"
             /\ payment[q].status \in {"rejected", "reversed"}
  /\ sub'.end = e /\ UNCHANGED <<today, granted, restored, overtaken>>
  /\ \A b \in Worker : b # a /\ work[b].op = "approve"
                      /\ payment[work[b].pay].cycle = NoCycle => cycle[e].status # "rejected"

LEMMA Approving ==
  ASSUME Basics, Settled, NEW a \in Worker, EndApprove(a)
  PROVE  \E e \in Day : Effect(a, e)
<1> USE DEF Basics
<1> DEFINE p == work[a].pay  seen == work[a].seen
<1>1. /\ p \in Payment /\ payment[p].status = "pending_review"
      /\ seen \in [sub : SubRow, account : AccountRow, cycle : Cycles, status : Statuses,
                   of : CyclesOf]
      /\ work[a].op = "approve" /\ payment[p].cycle \in Day \cup {NoCycle}
  BY Knows DEF EndApprove, Held, SeenBy, SubsTypeOK, PaymentRow
<1>2. payment[p].cycle # NoCycle =>
        /\ cycle[payment[p].cycle].status = "pending_review"
        /\ Waiting(payment[p].cycle) \subseteq {p}
  BY <1>1 DEF Settled, Reviewed, Waiting, OneWaits
<1>3. \A d \in Day : cycle[d].status # "pending_review" => Waiting(d) = {}
  BY DEF Settled, Reviewed
<1>4. PICK e \in Day, made \in BOOLEAN, rows \in [Day -> CycleRow] :
        /\ Approved(seen, p, e, made, rows)
        /\ payment[p].cycle \in {e, NoCycle}
        /\ cycle[e].status # "paid" /\ Waiting(e) \subseteq {p}
        /\ \A d \in Day : d # e => rows[d].status = cycle[d].status
        /\ \A b \in Worker : b # a /\ work[b].op = "approve"
                            /\ payment[work[b].pay].cycle = NoCycle => cycle[e].status # "rejected"
  <2>1. CASE \E e \in Day : Pays(p, e) /\ Approvable(seen, p, e)
                           /\ Approved(seen, p, e, FALSE, cycle)
    <3>1. PICK e \in Day : Pays(p, e) /\ Approvable(seen, p, e)
                           /\ Approved(seen, p, e, FALSE, cycle)
      BY <2>1
    <3>2. payment[p].cycle = NoCycle => cycle[e].status = "pending" BY <3>1 DEF Pays, Pending
    <3>3. payment[p].cycle # NoCycle => e = payment[p].cycle BY <3>1 DEF Pays
    <3>4. /\ cycle[e].status \in {"pending", "pending_review"} /\ Waiting(e) \subseteq {p}
          /\ payment[p].cycle \in {e, NoCycle}
      BY <1>2, <1>3, <3>2, <3>3
    <3> HIDE DEF p, seen
    <3> QED BY <3>1, <3>4 DEF SubsTypeOK
  <2>2. CASE /\ payment[p].cycle = NoCycle /\ Pending = {}
             /\ \E n \in {today} \cup Covered(seen) :
                  /\ Last(n, {today} \cup Covered(seen)) /\ Insertable(seen, n + Period)
                  /\ Approved(seen, p, n + Period, TRUE, Created(seen, n + Period, n))
    <3>1. PICK n \in {today} \cup Covered(seen) :
                  /\ Last(n, {today} \cup Covered(seen)) /\ Insertable(seen, n + Period)
                  /\ Approved(seen, p, n + Period, TRUE, Created(seen, n + Period, n))
      BY <2>2
    <3> DEFINE e == n + Period
               rows == Created(seen, e, n)
    <3>2. n \in Nat /\ Period \in Nat \ {0} /\ e \in Day
      BY <1>1, <3>1, SubsAssumption DEF Covered, Charged, SubRow, Insertable, SubsTypeOK
    <3>3. e > n BY <3>2
    <3>4. \A m \in Charged(seen) : m <= n BY <3>1 DEF Last, Covered
    <3>5. seen.cycle[e] \in {"none", "rejected"} BY <3>2, <3>3, <3>4 DEF Charged
    <3>6. seen.cycle[e] = "rejected" => cycle[e].status = "rejected"
      BY <1>1, <2>2, <3>2 DEF Settled, Recalls
    <3>7. cycle[e].status \in {"none", "rejected"}
      BY <3>1, <3>5, <3>6 DEF Insertable
    <3>8. Waiting(e) = {} BY <1>3, <3>2, <3>7
    <3>9. rows \in [Day -> CycleRow] /\ \A d \in Day : d # e => rows[d].status = cycle[d].status
      BY <3>1, <3>2, CreatedRows
    <3>11. \A b \in Worker : b # a /\ work[b].op = "approve" => payment[work[b].pay].cycle # NoCycle
      BY <1>1, <2>2, SubsAssumption DEF Held, Settled, OneWaits
    <3> HIDE DEF p, seen, e, rows
    <3> QED BY <2>2, <3>1, <3>2, <3>7, <3>8, <3>9, <3>11 DEF e, rows
  <2> QED BY <2>1, <2>2 DEF EndApprove
<1> DEFINE S == Siblings(seen, p, e)
           C == Closed(S)
           turn == 1 + Cardinality({q \in Payment : payment[q].turn # 0})
           back == [sub |-> seen.sub, account |-> seen.account, made |-> made,
                    was |-> IF made THEN "none" ELSE cycle[e].status]
           row == [status |-> "approved", cycle |-> e, turn |-> turn, back |-> back]
<1>5. payment' = [C EXCEPT ![p] = row] BY <1>4 DEF Approved
<1>6. /\ C \in [Payment -> PaymentRow]
      /\ \A q \in Payment : /\ C[q].cycle = payment[q].cycle /\ C[q].turn = payment[q].turn
                            /\ C[q].back = payment[q].back
                            /\ C[q].status = IF q \in S THEN "rejected" ELSE payment[q].status
  <2> HIDE DEF S
  <2> QED BY ClosedRows
<1>7. row.status = "approved" /\ row.cycle = e /\ row.turn = turn /\ row.back.sub = seen.sub
  OBVIOUS
<1>8. \A q \in S : payment[q].status \in {"rejected", "reversed"}
  <2> SUFFICES ASSUME NEW q \in S PROVE payment[q].status \in {"rejected", "reversed"}
    OBVIOUS
  <2>1. q \in Payment /\ q # p /\ seen.of[q] = e BY DEF Siblings
  <2>2. StillFor(q, e) BY <1>1, <1>4, <2>1 DEF Settled, Recalls
  <2>3. payment[q].status # "approved" \/ payment[q].cycle # e
    BY <1>4, <2>1 DEF Settled, SettledOnce
  <2>4. payment[q].status # "pending_review" \/ payment[q].cycle # e
    BY <1>4, <2>1 DEF Waiting
  <2>5. payment[q].status \in PayStatuses BY <2>1 DEF SubsTypeOK, PaymentRow
  <2> QED BY <2>2, <2>3, <2>4, <2>5 DEF StillFor, PayStatuses
<1>9. payment'[p] = row /\ \A q \in Payment \ {p} : payment'[q] = C[q] BY <1>1, <1>5, <1>6
<1>10. /\ cycle' = [rows EXCEPT ![e].status = "paid"] /\ sub' = Extended(e)
       /\ UNCHANGED <<today, granted, restored, overtaken>>
  BY <1>4 DEF Approved
<1>11. /\ \A d \in Day : d # e => cycle'[d].status = cycle[d].status
       /\ cycle'[e].status = "paid" /\ sub'.end = e
  BY <1>4, <1>10 DEF CycleRow, Extended
<1> HIDE DEF S, C, row, turn
<1>12. \A q \in Payment \ {p} :
         \/ payment'[q].status = payment[q].status
         \/ payment'[q].status = "rejected" /\ payment[q].status \in {"rejected", "reversed"}
  BY <1>6, <1>8, <1>9
<1> SUFFICES Effect(a, e) OBVIOUS
<1> HIDE DEF p, seen, back
<1> QED BY <1>4, <1>6, <1>7, <1>9, <1>10, <1>11, <1>12 DEF p, seen, turn, Effect

LEMMA ApproveSettled ==
  ASSUME Basics, Settled, NEW a \in Worker, EndApprove(a)
  PROVE  Settled'
<1> USE DEF Basics
<1> DEFINE p == work[a].pay
<1>0. p \in Payment /\ payment[p].status = "pending_review" BY DEF EndApprove, Held
<1>e. PICK e \in Day : Effect(a, e) BY Approving
<1>1. /\ payment[p].cycle \in {e, NoCycle}
      /\ cycle[e].status # "paid"
      /\ \A d \in Day : d # e => cycle'[d].status = cycle[d].status
      /\ cycle'[e].status = "paid"
      /\ Waiting(e) \subseteq {p}
      /\ payment'[p].status = "approved" /\ payment'[p].cycle = e
      /\ \A q \in Payment \ {p} :
           /\ payment'[q].cycle = payment[q].cycle
           /\ \/ payment'[q].status = payment[q].status
              \/ /\ payment'[q].status = "rejected"
                 /\ payment[q].status \in {"rejected", "reversed"}
      /\ restored' = restored
      /\ \A b \in Worker : b # a /\ work[b].op = "approve"
                          /\ payment[work[b].pay].cycle = NoCycle => cycle[e].status # "rejected"
  BY <1>e DEF Effect
<1>2. \A b \in Worker : \/ work'[b].op = "idle"
                        \/ /\ b # a /\ work'[b].op = work[b].op /\ work'[b].pay = work[b].pay
                           /\ work'[b].seen = work[b].seen
  BY StoppedPassing DEF EndApprove, Idle
<1>3. \A b \in Worker : b # a /\ work[b].op = "approve" => work[b].pay \in Payment /\ work[b].pay # p
  BY <1>0 DEF Held
<1> HIDE DEF p
<1>4. OneWaits' BY <1>0, <1>1 DEF Settled, OneWaits
<1>5. \A q \in Payment : ~(payment[q].status = "approved" /\ payment[q].cycle = e)
  BY <1>1 DEF Settled, SettledOnce
<1>6. SettledOnce'
  <2>1. \A q \in Payment \ {p} : payment'[q].status = "approved" <=> payment[q].status = "approved"
    BY <1>1
  <2>2. \A d \in Day : d # e => (cycle'[d].status = "paid" <=>
          \E q \in Payment : payment'[q].status = "approved" /\ payment'[q].cycle = d)
    BY <1>0, <1>1, <2>1 DEF Settled, SettledOnce
  <2>3. \A q, r \in Payment : payment'[q].status = "approved" /\ payment'[r].status = "approved"
                              /\ payment'[q].cycle = payment'[r].cycle => q = r
    BY <1>0, <1>1, <1>5, <2>1 DEF Settled, SettledOnce
  <2> QED BY <1>0, <1>1, <2>2, <2>3 DEF SettledOnce
<1>7. Reviewed'
  <2>1. \A d \in Day : d # e => Waiting(d)' = Waiting(d) BY <1>0, <1>1 DEF Waiting
  <2>2. Waiting(e)' = {} BY <1>0, <1>1 DEF Waiting
  <2> QED BY <1>1, <2>1, <2>2 DEF Settled, Reviewed
<1>8. Recalls'
  <2>1. \A q \in Payment : \A d : d # NoCycle /\ StillFor(q, d) => StillFor(q, d)'
    BY <1>0, <1>1 DEF StillFor
  <2>2. \A b \in Worker : b # a /\ work[b].op = "approve" =>
          payment'[work[b].pay].cycle = payment[work[b].pay].cycle
    BY <1>1, <1>3
  <2>3. \A d \in Day : cycle[d].status = "rejected" /\ d # e => cycle'[d].status = "rejected"
    BY <1>1
  <2> QED BY <1>1, <1>2, <2>1, <2>2, <2>3 DEF Settled, Recalls, DuplicateOfPaid
<1> QED BY <1>4, <1>6, <1>7, <1>8 DEF Settled

LEMMA SettledStep == ASSUME Basics, Settled, SubsNext PROVE Settled'
<1> USE DEF Basics
<1>i. Idle.op = "idle" BY DEF Idle
<1>c. cycle' = cycle => CyclesQuiet BY DEF CyclesQuiet
<1>w. work' = work => WorkQuiet BY DEF WorkQuiet
<1>1. ASSUME NEW a \in Worker, NEW p \in Payment \cup {Nobody},
             NEW op \in {"revert", "extend", "issue", "daily"}, Start(a, op, p)
      PROVE  Settled'
  <2>1. op \in {"approve", "reject", "revert", "extend", "issue", "daily"} BY <1>1
  <2>2. work'[a].op = op BY <1>1, <2>1, Started
  <2>3. \A b \in Worker : b # a => work'[b] = work[b] BY <1>1 DEF Start, SubsTypeOK
  <2>4. WorkQuiet BY <1>1, <2>2, <2>3 DEF WorkQuiet
  <2> QED BY <1>1, <1>c, <2>4, QuietStep DEF Start
<1>s. ASSUME NEW a \in Worker, Stop(a) PROVE WorkQuiet
  BY <1>s, <1>i, Stopped DEF WorkQuiet
<1>2. ASSUME NEW a \in Worker, Rollback(a) PROVE Settled'
  BY <1>2, <1>c, <1>s, QuietStep DEF Rollback
<1>3. ASSUME NEW a \in Worker, EndExtend(a) PROVE Settled'
  <2> DEFINE seen == work[a].seen
  <2>1. PICK n \in {today} \cup Covered(seen) :
          Insertable(seen, n + Period) /\ cycle' = Created(seen, n + Period, n)
    BY <1>3 DEF EndExtend
  <2>2. n \in Nat
    <3>1. seen \in [sub : SubRow, cycle : Cycles] BY <1>3, Knows DEF EndExtend, SeenBy
    <3> QED BY <3>1 DEF Covered, Charged, SubRow, SubsTypeOK
  <2> DEFINE e == n + Period
  <2>3. /\ \A d \in Day : d # e \/ seen.cycle[e] # "none" => cycle'[d] = cycle[d]
        /\ seen.cycle[e] = "none" => cycle[e].status = "none" /\ cycle'[e].status = "pending"
    <3> HIDE DEF seen, e
    <3>1. Insertable(seen, e) /\ cycle' = Created(seen, e, n) BY <2>1 DEF e
    <3> QED BY <2>2, <3>1, CreatedRows
  <2>4. CyclesQuiet
    <3> HIDE DEF seen, e
    <3> QED BY <2>3 DEF CyclesQuiet
  <2>5. WorkQuiet BY <1>3, <1>i, StoppedPassing DEF EndExtend, WorkQuiet
  <2> QED BY <1>3, <2>4, <2>5, QuietStep DEF EndExtend
<1>4. ASSUME NEW a \in Worker, EndIssue(a) PROVE Settled'
  <2>1. PICK e \in Day, r \in CycleRow : /\ cycle[e].status = "none" /\ r.status = "pending"
                                         /\ cycle' = [cycle EXCEPT ![e] = r]
    <3> DEFINE seen == work[a].seen
    <3>1. PICK n \in Covered(seen) :
            /\ n + Period \in Day /\ cycle[n + Period].status = "none"
            /\ cycle' = [cycle EXCEPT
                 ![n + Period] = [status |-> "pending", due |-> n, prov |-> FALSE]]
      BY <1>4 DEF EndIssue
    <3>2. n \in Nat
      <4>1. seen \in [sub : SubRow, cycle : Cycles] BY <1>4, Knows DEF EndIssue, SeenBy
      <4> QED BY <4>1 DEF Covered, Charged, SubRow
    <3>3. [status |-> "pending", due |-> n, prov |-> FALSE] \in CycleRow
      BY <3>2 DEF CycleRow, CycleStatuses
    <3> QED BY <3>1, <3>3
  <2>2. CyclesQuiet BY <2>1 DEF CyclesQuiet, SubsTypeOK
  <2> QED BY <1>4, <1>s, <2>2, QuietStep DEF EndIssue
<1>5. ASSUME NEW a \in Worker, LookDaily(a) PROVE Settled'
  <2>1. WorkQuiet BY <1>5, <1>i, Looked DEF WorkQuiet
  <2> QED BY <1>5, <1>c, <2>1, QuietStep DEF LookDaily
<1>6. ASSUME NEW a \in Worker, Write(a) PROVE Settled'
  <2>1. ASSUME NEW e \in Day
        PROVE  \/ cycle'[e].status = cycle[e].status
               \/ cycle[e].status = "pending" /\ cycle'[e].status = "overdue"
    <3>1. cycle[e] \in CycleRow BY DEF SubsTypeOK
    <3>2. [cycle[e] EXCEPT !.status = "overdue"].status = "overdue" BY <3>1 DEF CycleRow
    <3>3. \/ cycle'[e] = cycle[e]
          \/ cycle[e].status = "pending" /\ cycle'[e] = [cycle[e] EXCEPT !.status = "overdue"]
      BY <1>6 DEF Write
    <3> QED BY <3>2, <3>3
  <2>2. CyclesQuiet BY <2>1 DEF CyclesQuiet
  <2>3. WorkQuiet BY <1>6, <1>i, Wrote DEF WorkQuiet
  <2>4. UNCHANGED <<payment, restored>> BY <1>6 DEF Write
  <2> QED BY <2>2, <2>3, <2>4, QuietStep
<1>7. ASSUME Unblock \/ ProvisionalEnds \/ Tomorrow PROVE Settled'
  BY <1>7, <1>c, <1>w, QuietStep DEF Unblock, ProvisionalEnds, Tomorrow
<1>8. ASSUME EnsureCycle PROVE Settled'
  <2>1. CyclesQuiet
    <3>1. sub.end \in Day /\ cycle \in [Day -> CycleRow] BY DEF SubsTypeOK, SubRow
    <3> QED BY <1>8, <3>1 DEF EnsureCycle, CyclesQuiet
  <2> QED BY <1>8, <1>w, <2>1, QuietStep DEF EnsureCycle
<1> QED BY <1>1, <1>2, <1>3, <1>4, <1>5, <1>6, <1>7, <1>8, SubmitSettled, BeginSettled,
           ApproveSettled, RejectSettled, RevertSettled, CancelSettled
        DEF SubsNext, BeginApprove, BeginReject, BeginRevert, BeginExtend, BeginIssue, BeginDaily

LEMMA SettledInit == SubsInit => Settled
<1> SUFFICES ASSUME SubsInit PROVE Settled OBVIOUS
<1>1. /\ \A q \in Payment : payment[q].status = "none"
      /\ \A e \in Day : cycle[e].status = "none"
      /\ \A a \in Worker : work[a].op = "idle"
  BY DEF SubsInit, NotSent, NoRow, Idle
<1> QED BY <1>1 DEF Settled, OneWaits, SettledOnce, Reviewed, Waiting, Recalls

LEMMA SettledInvariant == SubsSpec => [](Basics /\ Settled)
<1>1. Basics /\ Settled /\ [SubsNext]_subsVars => (Basics /\ Settled)'
  <2> SUFFICES ASSUME Basics, Settled, [SubsNext]_subsVars PROVE Settled'
    BY BasicsStep
  <2>1. CASE UNCHANGED subsVars
    BY <2>1 DEF Settled, OneWaits, SettledOnce, Reviewed, Waiting, Recalls, StillFor,
                DuplicateOfPaid
  <2> QED BY <2>1, SettledStep
<1> QED BY <1>1, BasicsInit, SettledInit, PTL DEF SubsSpec

(* A cycle is paid exactly when one approved payment is for it, whoever    *)
(* approves, rejects, sends, annuls and reverts at the same time, for any  *)
(* number of payments and workers.                                         *)
THEOREM CyclesSettledOnce == SubsSpec => []SettledOnce
<1>1. Settled => SettledOnce BY DEF Settled
<1> QED BY <1>1, SettledInvariant, PTL

(* A cycle is in review exactly while one receipt for it waits, but for    *)
(* those a revert put back in review.                                      *)
THEOREM ReviewsHaveReceipts == SubsSpec => []ReviewHasReceipt
<1>1. Basics /\ Settled => ReviewHasReceipt
  <2> SUFFICES ASSUME Basics, Settled PROVE ReviewHasReceipt OBVIOUS
  <2>1. ASSUME NEW e \in Day PROVE Cardinality(Waiting(e)) <= 1
    <3>1. \A p, q \in Waiting(e) : p = q BY DEF Waiting, Settled, OneWaits
    <3>2. CASE Waiting(e) = {} BY <3>2, FS_EmptySet
    <3>3. CASE \E p : p \in Waiting(e)
      <4>1. PICK p : p \in Waiting(e) BY <3>3
      <4>2. Waiting(e) = {p} BY <3>1, <4>1
      <4>3. Cardinality({p}) = 1 BY FS_Singleton
      <4> QED BY <4>2, <4>3
    <3> QED BY <3>2, <3>3
  <2> QED BY <2>1 DEF ReviewHasReceipt, Settled, Reviewed
<1> QED BY <1>1, SettledInvariant, PTL

-----------------------------------------------------------------------------
(* Access and the calendar.                                                *)

(* A reject or an evaluation works with the end that is in force, unless   *)
(* an extension or a revert was committed since it read; and with a day    *)
(* that has come.                                                          *)
Judges == {"reject", "daily", "write"}

UpToDate ==
  \A a \in Worker :
    /\ work[a].op \in Judges /\ ~work[a].passed => work[a].seen.sub.end = sub.end
    /\ work[a].op \in {"daily", "write"} => work[a].seen.day <= today

(* Who goes on judging does so on what it had read.                        *)
Sticks(b) ==
  \/ work'[b].op \notin Judges
  \/ /\ work[b].op \in Judges /\ work'[b].seen = work[b].seen
     /\ work'[b].passed = work[b].passed
     /\ work[b].op = "reject" <=> work'[b].op = "reject"

LEMMA UpToDateKept ==
  ASSUME Basics, UpToDate, sub'.end = sub.end, today' \in {today, today + 1},
         \A b \in Worker : Sticks(b)
  PROVE  UpToDate'
<1> SUFFICES ASSUME NEW b \in Worker
             PROVE  /\ work'[b].op \in Judges /\ ~work'[b].passed =>
                         work'[b].seen.sub.end = sub'.end
                    /\ work'[b].op \in {"daily", "write"} => work'[b].seen.day <= today'
  BY DEF UpToDate
<1>1. today \in Nat BY DEF Basics, SubsTypeOK
<1>2. work[b].op \in {"daily", "write"} => work[b].seen.day \in Nat
  BY Knows DEF Basics, SeenBy
<1>3. CASE work'[b].op \notin Judges BY <1>3 DEF Judges
<1>4. CASE /\ work[b].op \in Judges /\ work'[b].seen = work[b].seen
           /\ work'[b].passed = work[b].passed
           /\ work[b].op = "reject" <=> work'[b].op = "reject"
  BY <1>1, <1>2, <1>4 DEF UpToDate, Judges
<1> QED BY <1>3, <1>4 DEF Sticks

LEMMA UpToDateStep == ASSUME Basics, UpToDate, SubsNext PROVE UpToDate'
<1> USE DEF Basics
<1>i. Idle.op \notin Judges BY DEF Idle, Judges
<1>k. work' = work => \A b \in Worker : Sticks(b) BY DEF Sticks
<1>t. today \in Nat BY DEF SubsTypeOK
<1>1. ASSUME NEW a \in Worker, NEW p \in Payment \cup {Nobody},
             NEW op \in {"approve", "reject", "revert", "extend", "issue", "daily"},
             Start(a, op, p)
      PROVE  UpToDate'
  <2>1. /\ work'[a].op = op /\ work'[a].seen = Snapshot(op)
        /\ UNCHANGED <<sub, today>>
        /\ \A b \in Worker : b # a => work'[b] = work[b]
    BY <1>1, Started DEF Start
  <2>2. op \in Judges => work'[a].seen.sub = sub BY <2>1, SnapshotFields DEF Judges
  <2>3. op = "daily" => work'[a].seen.day = today BY <2>1, SnapshotFields
  <2>4. ASSUME NEW b \in Worker, b # a
        PROVE  /\ work'[b].op \in Judges /\ ~work'[b].passed =>
                    work'[b].seen.sub.end = sub'.end
               /\ work'[b].op \in {"daily", "write"} => work'[b].seen.day <= today'
    BY <2>1, <2>4 DEF UpToDate
  <2>5. /\ work'[a].op \in Judges => work'[a].seen.sub.end = sub'.end
        /\ work'[a].op \in {"daily", "write"} => work'[a].seen.day <= today'
    BY <1>t, <2>1, <2>2, <2>3
  <2> QED BY <2>4, <2>5 DEF UpToDate
<1>2. ASSUME NEW a \in Worker, StopPassing(a), today' = today PROVE UpToDate'
  <2>1. \A b \in Worker : \/ work'[b].op \notin Judges
                          \/ /\ work'[b].op = work[b].op /\ work'[b].seen = work[b].seen
                             /\ work'[b].passed
    BY <1>2, <1>i, StoppedPassing
  <2> QED BY <1>2, <2>1 DEF UpToDate, Judges
<1>3. ASSUME NEW a \in Worker, Stop(a) PROVE \A b \in Worker : Sticks(b)
  BY <1>3, <1>i, Stopped DEF Sticks
<1>4. ASSUME NEW a \in Worker, LookDaily(a) \/ Write(a) PROVE \A b \in Worker : Sticks(b)
  BY <1>4, <1>i, Looked, Wrote DEF Sticks, Judges
<1>5. ASSUME NEW p \in Payment, NEW e \in Day \cup {NoCycle}, NEW admin \in BOOLEAN,
             NEW receipt \in BOOLEAN, Submit(p, e, admin, receipt)
      PROVE  UpToDate'
  <2>1. sub'.end = sub.end BY <1>5 DEF Submit, SubsTypeOK, SubRow
  <2> QED BY <1>5, <1>k, <2>1, UpToDateKept DEF Submit
<1>6. ASSUME NEW a \in Worker, EndReject(a) PROVE UpToDate'
  <2>1. sub'.end = sub.end BY <1>6, NewStatus DEF EndReject, Strike, SubStatuses
  <2> QED BY <1>3, <1>6, <2>1, UpToDateKept DEF EndReject
<1>7. ASSUME NEW a \in Worker, Rollback(a) \/ EndIssue(a) PROVE UpToDate'
  BY <1>3, <1>7, UpToDateKept DEF Rollback, EndIssue
<1>8. ASSUME NEW a \in Worker, Write(a) PROVE UpToDate'
  <2>1. sub'.end = sub.end BY <1>8 DEF Write, SubsTypeOK, SubRow
  <2> QED BY <1>4, <1>8, <2>1, UpToDateKept DEF Write
<1>9. ASSUME NEW a \in Worker, LookDaily(a) PROVE UpToDate'
  BY <1>4, <1>9, UpToDateKept DEF LookDaily
<1>10. ASSUME NEW e \in Day, Cancel(e) PROVE UpToDate'
  BY <1>10, <1>k, UpToDateKept DEF Cancel
<1>11. ASSUME Unblock \/ EnsureCycle \/ ProvisionalEnds \/ Tomorrow PROVE UpToDate'
  <2>1. sub'.end = sub.end
    BY <1>11 DEF Unblock, EnsureCycle, ProvisionalEnds, Tomorrow, SubsTypeOK, SubRow
  <2> QED BY <1>11, <1>k, <2>1, UpToDateKept
         DEF Unblock, EnsureCycle, ProvisionalEnds, Tomorrow
<1> QED BY <1>1, <1>2, <1>5, <1>6, <1>7, <1>8, <1>9, <1>10, <1>11
        DEF SubsNext, BeginApprove, BeginReject, BeginRevert, BeginExtend, BeginIssue,
            BeginDaily, EndApprove, Approved, EndRevert, EndExtend

LEMMA UpToDateInvariant == SubsSpec => [](Basics /\ UpToDate)
<1>1. SubsInit => UpToDate
  <2> SUFFICES ASSUME SubsInit PROVE UpToDate OBVIOUS
  <2>1. \A a \in Worker : work[a].op = "idle" BY DEF SubsInit, Idle
  <2> QED BY <2>1 DEF UpToDate, Judges
<1>2. Basics /\ UpToDate /\ [SubsNext]_subsVars => (Basics /\ UpToDate)'
  <2> SUFFICES ASSUME Basics, UpToDate, [SubsNext]_subsVars PROVE UpToDate'
    BY BasicsStep
  <2>1. CASE UNCHANGED subsVars BY <2>1 DEF UpToDate
  <2> QED BY <2>1, UpToDateStep
<1> QED BY <1>1, <1>2, BasicsInit, PTL DEF SubsSpec

(* The steps that may suspend who has access, and their cause.             *)
Cause ==
  \/ today > sub.end + Grace
  \/ \E a \in Worker :
       /\ work'[a] # work[a]
       /\ \/ work[a].passed \/ work[a].op = "revert"
          \/ work[a].op = "write" /\ Ended(work[a].seen.sub)
  \/ Unblock

LEMMA Causes ==
  ASSUME Basics, UpToDate, SubsNext, account.status = "active", account'.status = "suspended"
  PROVE  Cause
<1> USE DEF Basics
<1>t. today \in Nat /\ sub.end \in Nat /\ account \in AccountRow
  BY DEF SubsTypeOK, SubRow
<1>1. ASSUME NEW a \in Worker, EndReject(a) PROVE Cause
  <2> DEFINE seen == work[a].seen
  <2>1. work[a].op = "reject" /\ work'[a] # work[a]
    BY <1>1, Stopped DEF EndReject, Idle
  <2>2. seen.sub.end \in Nat BY <2>1, Knows DEF SeenBy, SubRow
  <2>3. Strike(seen) BY <1>1 DEF EndReject
  <2>4. today > seen.sub.end + Grace
    BY <1>t, <2>2, <2>3 DEF Strike, AccountRow
  <2>5. work[a].passed \/ seen.sub.end = sub.end BY <2>1 DEF UpToDate, Judges
  <2> QED BY <2>1, <2>4, <2>5 DEF Cause
<1>2. ASSUME NEW a \in Worker, EndRevert(a) PROVE Cause
  <2>1. work[a].op = "revert" /\ work'[a] # work[a]
    BY <1>2, StoppedPassing DEF EndRevert, Idle
  <2> QED BY <2>1 DEF Cause
<1>3. ASSUME NEW a \in Worker, Write(a) PROVE Cause
  <2> DEFINE seen == work[a].seen
             s == Head(work[a].todo)
  <2>1. /\ work[a].op = "write" /\ s \in Justified(seen.sub, seen.day)
        /\ work[a].todo # <<>> /\ work[a].todo \in Seq(Statement)
        /\ work'[a] = Idle \/ work'[a].todo = Tail(work[a].todo)
    BY <1>3, Knows, Wrote DEF Planned
  <2>2. work'[a] # work[a]
    <3> DEFINE todo == work[a].todo
               rest == Tail(todo)
    <3>1. Len(todo) \in Nat /\ Len(rest) = Len(todo) - 1
      BY <2>1, LenProperties, HeadTailProperties
    <3>2. todo # rest
      <4> HIDE DEF todo, rest
      <4> QED BY <3>1
    <3>3. rest # work[a].todo BY <3>2
    <3>4. Idle.op # "write" BY DEF Idle
    <3> QED BY <2>1, <3>3, <3>4
  <2>3. s.row = "account" BY <1>3 DEF Write
  <2>4. Ended(seen.sub) \/ seen.day > seen.sub.end + Grace BY <2>1, <2>3 DEF Justified
  <2>5. seen.day \in Nat /\ seen.sub.end \in Nat BY <2>1, Knows DEF SeenBy, SubRow
  <2>6. (work[a].passed \/ seen.sub.end = sub.end) /\ seen.day <= today
    BY <2>1 DEF UpToDate, Judges
  <2>7. Ended(seen.sub) \/ work[a].passed \/ today > sub.end + Grace
    BY <1>t, <2>4, <2>5, <2>6
  <2>8. CASE today > sub.end + Grace BY <2>8 DEF Cause
  <2>9. CASE Ended(seen.sub)
    <3>1. work[a].op = "write" /\ Ended(work[a].seen.sub) BY <2>1, <2>9
    <3> QED BY <2>2, <3>1 DEF Cause
  <2>10. CASE work[a].passed BY <2>2, <2>10 DEF Cause
  <2> QED BY <2>7, <2>8, <2>9, <2>10
<1>4. ASSUME NEW a \in Worker, EndApprove(a) \/ EndExtend(a) PROVE FALSE
  <2>1. EndApprove(a) => account' = FirstAccount BY DEF EndApprove, Approved
  <2>2. FirstAccount.status = "active" BY DEF FirstAccount
  <2>3. EndExtend(a) => account' = [account EXCEPT !.status = "active"] BY DEF EndExtend
  <2>4. [account EXCEPT !.status = "active"].status = "active" BY <1>t DEF AccountRow
  <2> QED BY <1>4, <2>1, <2>2, <2>3, <2>4
<1>5. ASSUME NEW p \in Payment, NEW e \in Day \cup {NoCycle}, NEW admin \in BOOLEAN,
             NEW receipt \in BOOLEAN, Submit(p, e, admin, receipt)
      PROVE  FALSE
  BY <1>5, <1>t DEF Submit, AccountRow
<1>6. CASE Unblock BY <1>6 DEF Cause
<1>7. ASSUME UNCHANGED account PROVE FALSE
  BY <1>7
<1> QED BY <1>1, <1>2, <1>3, <1>4, <1>5, <1>6, <1>7
        DEF SubsNext, BeginApprove, BeginReject, BeginRevert, BeginExtend, BeginIssue,
            BeginDaily, Start, Rollback, EndIssue, LookDaily, Cancel, EnsureCycle,
            ProvisionalEnds, Tomorrow

(* Access is lost to the calendar only when the days and the grace are     *)
(* over, whatever the strikes and the daily evaluation read and when they  *)
(* write it; the exceptions are those of SuspendsOnlyLate.                 *)
THEOREM SuspensionsAreLate == SubsSpec => SuspendsOnlyLate
<1>1. Basics /\ UpToDate /\ [SubsNext]_subsVars =>
        [account.status = "active" /\ account'.status = "suspended" =>
           \/ today > sub.end + Grace
           \/ \E a \in Worker :
                /\ work'[a] # work[a]
                /\ \/ work[a].passed \/ work[a].op = "revert"
                   \/ work[a].op = "write" /\ Ended(work[a].seen.sub)
           \/ Unblock]_subsVars
  <2> SUFFICES ASSUME Basics, UpToDate, SubsNext,
                      account.status = "active", account'.status = "suspended"
               PROVE  Cause
    BY DEF Cause
  <2> QED BY Causes
<1> QED BY <1>1, UpToDateInvariant, PTL DEF SubsSpec, SuspendsOnlyLate

-----------------------------------------------------------------------------
(* Days against payments.                                                  *)

(* How many approvals there have been; and what stands for an end: it was  *)
(* given, or a payment approved before that turn paid for it.              *)
Turns(rows) == Cardinality({q \in Payment : rows[q].turn # 0})

Earned(rows, given, end, turn) ==
  \/ end <= given
  \/ \E q \in Payment : rows[q].status = "approved" /\ end <= rows[q].cycle
                        /\ rows[q].turn < turn

(* The end in force is earned, and so is the one that each approval would  *)
(* bring back, by payments approved before it: a revert, which undoes the  *)
(* latest one, leaves those alone.                                         *)
Latest ==
  \A a \in Worker : work[a].op = "revert" /\ ~work[a].passed =>
    \A q \in Payment \ {work[a].pay} :
      payment[q].status = "approved" => payment[q].turn < payment[work[a].pay].turn

Backed ==
  /\ Earned(payment, granted, sub.end, Turns(payment) + 1)
  /\ \A q \in Payment : payment[q].status = "approved" =>
       Earned(payment, granted, payment[q].back.sub.end, payment[q].turn)
  /\ \A a \in Worker : work[a].op = "approve" =>
       Earned(payment, granted, work[a].seen.sub.end, Turns(payment) + 1)

Chain ==
  /\ \A q \in Payment : payment[q].turn <= Turns(payment)
  /\ Latest
  /\ ~overtaken => Backed

LEMMA TurnsNat == ASSUME NEW rows PROVE Turns(rows) \in Nat
<1>1. IsFiniteSet({q \in Payment : rows[q].turn # 0}) BY FS_Subset
<1> QED BY <1>1, FS_CardinalityType DEF Turns

LEMMA TurnsSame ==
  ASSUME NEW rows, NEW others, \A q \in Payment : rows[q].turn = others[q].turn
  PROVE  Turns(rows) = Turns(others)
<1>1. {q \in Payment : rows[q].turn # 0} = {q \in Payment : others[q].turn # 0} OBVIOUS
<1> QED BY <1>1 DEF Turns

(* An approval takes the next turn.                                        *)
LEMMA TurnsNext ==
  ASSUME NEW rows, NEW others, NEW p \in Payment, rows[p].turn = 0, others[p].turn # 0,
         \A q \in Payment \ {p} : rows[q].turn = others[q].turn
  PROVE  Turns(others) = Turns(rows) + 1
<1> DEFINE T == {q \in Payment : rows[q].turn # 0}
<1>1. IsFiniteSet(T) /\ p \notin T BY FS_Subset
<1>2. {q \in Payment : others[q].turn # 0} = T \cup {p} OBVIOUS
<1> HIDE DEF T
<1>3. Cardinality(T \cup {p}) = Cardinality(T) + 1 BY <1>1, FS_AddElement
<1> QED BY <1>2, <1>3 DEF Turns, T

(* What was earned stays so while the payments that earned it stand.       *)
LEMMA EarnedStays ==
  ASSUME NEW rows, NEW given \in Nat, NEW end \in Nat, NEW turn \in Nat,
         Earned(rows, given, end, turn),
         NEW others, NEW more \in Nat, more >= given, NEW later \in Nat, later >= turn,
         \A q \in Payment : rows[q].turn \in Nat,
         \A q \in Payment : rows[q].status = "approved" /\ rows[q].turn < turn =>
           /\ others[q].status = "approved" /\ others[q].cycle = rows[q].cycle
           /\ others[q].turn = rows[q].turn
  PROVE  Earned(others, more, end, later)
BY DEF Earned

LEMMA ChainKept ==
  ASSUME Basics, Chain, sub'.end = sub.end, UNCHANGED <<granted, overtaken>>,
         \A q \in Payment :
           /\ payment'[q].turn = payment[q].turn
           /\ payment'[q].status = "approved" <=> payment[q].status = "approved"
           /\ payment[q].status = "approved" =>
                payment'[q].cycle = payment[q].cycle /\ payment'[q].back = payment[q].back,
         \A b \in Worker :
           \/ work'[b].op \notin {"approve", "revert"}
           \/ /\ work'[b].op = work[b].op /\ work'[b].pay = work[b].pay
              /\ work'[b].seen = work[b].seen /\ work'[b].passed = work[b].passed
  PROVE  Chain'
<1>1. Turns(payment') = Turns(payment) BY TurnsSame
<1>2. \A q \in Payment : payment'[q].turn <= Turns(payment') BY <1>1 DEF Chain
<1>3. Latest'
  <2>1. \A b \in Worker : work[b].op = "revert" => work[b].pay \in Payment
    BY DEF Basics, Held
  <2> QED BY <2>1 DEF Chain, Latest
<1>4. \A end, turn : Earned(payment, granted, end, turn) => Earned(payment', granted', end, turn)
  BY DEF Earned
<1>5. ~overtaken' => Backed'
  <2> SUFFICES ASSUME ~overtaken PROVE Backed' OBVIOUS
  <2>1. Backed BY DEF Chain
  <2> QED BY <1>1, <1>4, <2>1 DEF Backed
<1> QED BY <1>2, <1>3, <1>5 DEF Chain

LEMMA ChainApprove ==
  ASSUME Basics, Settled, Chain, NEW a \in Worker, EndApprove(a)
  PROVE  Chain'
<1> USE DEF Basics
<1> DEFINE p == work[a].pay
           n == Turns(payment)
<1>1. /\ p \in Payment /\ payment[p].status = "pending_review" /\ payment[p].turn = 0
      /\ work[a].op = "approve"
  BY DEF EndApprove, Held, Remembered
<1>2. PICK e \in Day : Effect(a, e) BY Approving
<1>3. /\ n \in Nat /\ granted \in Nat /\ sub.end \in Nat
      /\ \A q \in Payment : payment[q].turn \in Nat
      /\ \A b \in Worker : work[b].op = "approve" => work[b].seen.sub.end \in Nat
      /\ \A q \in Payment : payment[q].status = "approved" => payment[q].back.sub.end \in Nat
  <2>1. \A b \in Worker : work[b].op = "approve" => work[b].seen.sub.end \in Nat
    BY Knows DEF SeenBy, SubRow
  <2>2. \A q \in Payment : payment[q].status = "approved" => payment[q].back.sub.end \in Nat
    BY DEF Remembered, Back, SubRow
  <2> QED BY <2>1, <2>2, TurnsNat DEF SubsTypeOK, SubRow, PaymentRow
<1>4. /\ payment'[p].status = "approved" /\ payment'[p].cycle = e
      /\ payment'[p].turn = n + 1 /\ payment'[p].back.sub = work[a].seen.sub
      /\ \A q \in Payment \ {p} :
           /\ payment'[q].cycle = payment[q].cycle /\ payment'[q].turn = payment[q].turn
           /\ payment'[q].back = payment[q].back
           /\ payment'[q].status = "approved" <=> payment[q].status = "approved"
      /\ sub'.end = e /\ UNCHANGED <<granted, overtaken>>
  BY <1>2, <1>3 DEF Effect, Turns
<1> HIDE DEF p, n
<1>5. Turns(payment') = n + 1
  <2>1. payment'[p].turn # 0 BY <1>3, <1>4
  <2>2. \A q \in Payment \ {p} : payment[q].turn = payment'[q].turn BY <1>4
  <2> QED BY <1>1, <2>1, <2>2, TurnsNext DEF n
<1>6. ASSUME NEW end \in Nat, NEW turn \in Nat, NEW later \in Nat, later >= turn,
             Earned(payment, granted, end, turn)
      PROVE  Earned(payment', granted', end, later)
  BY <1>1, <1>3, <1>4, <1>6 DEF Earned
<1>7. \A b \in Worker : \/ work'[b].op = "idle"
                        \/ /\ work'[b].op = work[b].op /\ work'[b].seen = work[b].seen
                           /\ work'[b].passed
  BY StoppedPassing DEF EndApprove, Idle
<1>8. \A q \in Payment : payment'[q].turn <= Turns(payment')
  BY <1>3, <1>4, <1>5 DEF Chain, n
<1>9. Latest' BY <1>7 DEF Latest
<1>10. ~overtaken' => Backed'
  <2> SUFFICES ASSUME ~overtaken PROVE Backed' BY <1>4
  <2>1. Backed BY DEF Chain
  <2>2. Earned(payment', granted', sub'.end, Turns(payment') + 1)
    BY <1>1, <1>3, <1>4, <1>5 DEF Earned
  <2>3. ASSUME NEW q \in Payment, payment'[q].status = "approved"
        PROVE  Earned(payment', granted', payment'[q].back.sub.end, payment'[q].turn)
    <3>1. CASE q = p
      <4>1. Earned(payment, granted, work[a].seen.sub.end, n + 1)
        BY <1>1, <2>1 DEF Backed, n
      <4> QED BY <1>1, <1>3, <1>4, <1>6, <3>1, <4>1
    <3>2. CASE q # p
      <4>1. payment[q].status = "approved" BY <1>4, <2>3, <3>2
      <4>2. Earned(payment, granted, payment[q].back.sub.end, payment[q].turn)
        BY <2>1, <4>1 DEF Backed
      <4> QED BY <1>3, <1>4, <1>6, <3>2, <4>1, <4>2
    <3> QED BY <3>1, <3>2
  <2>4. ASSUME NEW b \in Worker, work'[b].op = "approve"
        PROVE  Earned(payment', granted', work'[b].seen.sub.end, Turns(payment') + 1)
    <3>1. work[b].op = "approve" /\ work'[b].seen = work[b].seen BY <1>7, <2>4
    <3>2. Earned(payment, granted, work[b].seen.sub.end, n + 1) BY <2>1, <3>1 DEF Backed, n
    <3> QED BY <1>3, <1>5, <1>6, <3>1, <3>2
  <2> QED BY <2>2, <2>3, <2>4 DEF Backed
<1> QED BY <1>8, <1>9, <1>10 DEF Chain

LEMMA ChainRevert ==
  ASSUME Basics, Chain, NEW a \in Worker, EndRevert(a)
  PROVE  Chain'
<1> USE DEF Basics
<1> DEFINE p == work[a].pay
           n == Turns(payment)
<1>1. /\ p \in Payment /\ payment[p].status = "approved" /\ work[a].op = "revert"
      /\ payment[p] \in PaymentRow
  BY DEF EndRevert, Held, SubsTypeOK
<1>2. /\ \A q \in Payment : q # p => payment'[q] = payment[q]
      /\ payment'[p].status = "reversed" /\ payment'[p].turn = payment[p].turn
      /\ sub' = payment[p].back.sub /\ granted' = granted
      /\ ~overtaken' => ~overtaken /\ ~work[a].passed
                        /\ \A b \in Worker : work[b].op # "approve"
  BY <1>1 DEF EndRevert, SubsTypeOK, PaymentRow
<1>3. n \in Nat /\ \A q \in Payment : payment[q].turn \in Nat
  BY TurnsNat DEF SubsTypeOK, PaymentRow
<1> HIDE DEF p, n
<1>4. Turns(payment') = n
  <2>1. \A q \in Payment : payment'[q].turn = payment[q].turn BY <1>2
  <2> QED BY <2>1, TurnsSame DEF n
<1>5. \A b \in Worker : \/ work'[b].op = "idle"
                        \/ work'[b].op = work[b].op /\ work'[b].passed
  BY StoppedPassing DEF EndRevert, Idle
<1>6. \A q \in Payment : payment'[q].turn <= Turns(payment') BY <1>2, <1>4 DEF Chain, n
<1>7. Latest' BY <1>5 DEF Latest
<1>8. ~overtaken' => Backed'
  <2> SUFFICES ASSUME ~overtaken' PROVE Backed' OBVIOUS
  <2>1. /\ Backed /\ ~work[a].passed /\ \A b \in Worker : work'[b].op # "approve"
    BY <1>2, <1>5 DEF Chain
  <2>2. \A q \in Payment : q # p /\ payment[q].status = "approved" =>
          payment[q].turn < payment[p].turn
    BY <1>1, <2>1 DEF Chain, Latest, p
  <2>3. ASSUME NEW end, NEW turn \in Nat, turn <= payment[p].turn,
               Earned(payment, granted, end, turn)
        PROVE  Earned(payment', granted', end, turn)
    BY <1>1, <1>2, <1>3, <2>3 DEF Earned
  <2>4. Earned(payment', granted', sub'.end, n + 1)
    <3>1. Earned(payment', granted', payment[p].back.sub.end, payment[p].turn)
      BY <1>1, <1>3, <2>1, <2>3 DEF Backed
    <3>2. payment[p].turn <= n BY <1>1 DEF Chain, n
    <3> QED BY <1>1, <1>2, <1>3, <3>1, <3>2 DEF Earned
  <2>5. ASSUME NEW q \in Payment, payment'[q].status = "approved"
        PROVE  Earned(payment', granted', payment'[q].back.sub.end, payment'[q].turn)
    <3>1. q # p /\ payment'[q] = payment[q] /\ payment[q].status = "approved"
      BY <1>2, <2>5
    <3>2. payment[q].turn <= payment[p].turn BY <1>1, <1>3, <2>2, <3>1
    <3> QED BY <1>3, <2>1, <2>3, <3>1, <3>2 DEF Backed
  <2> QED BY <1>4, <2>1, <2>4, <2>5 DEF Backed
<1> QED BY <1>6, <1>7, <1>8 DEF Chain

LEMMA ChainExtend ==
  ASSUME Basics, Chain, NEW a \in Worker, EndExtend(a)
  PROVE  Chain'
<1> USE DEF Basics
<1>1. /\ payment' = payment /\ overtaken' = overtaken
      /\ sub'.end \in Nat /\ granted \in Nat /\ granted' \in Nat
      /\ sub'.end <= granted' /\ granted <= granted'
  <2>1. SubsTypeOK' BY TypesStep DEF SubsNext
  <2>2. PICK n \in {today} \cup Covered(work[a].seen) :
          /\ sub' = Extended(n + Period)
          /\ granted' = IF n + Period > granted THEN n + Period ELSE granted
    BY DEF EndExtend
  <2>3. sub'.end = n + Period BY <2>2 DEF Extended
  <2>4. sub'.end \in Nat /\ granted' \in Nat /\ granted \in Nat
    BY <2>1 DEF SubsTypeOK, SubRow
  <2> QED BY <2>2, <2>3, <2>4 DEF EndExtend
<1>2. \A q \in Payment : payment[q].turn \in Nat BY DEF SubsTypeOK, PaymentRow
<1>3. \A b \in Worker : \/ work'[b].op = "idle"
                        \/ /\ work'[b].op = work[b].op /\ work'[b].seen = work[b].seen
                           /\ work'[b].passed
  BY StoppedPassing DEF EndExtend, Idle
<1>4. Latest' BY <1>3 DEF Latest
<1>5. ~overtaken' => Backed'
  <2> SUFFICES ASSUME ~overtaken PROVE Backed' BY <1>1
  <2>1. Backed BY DEF Chain
  <2>2. Earned(payment', granted', sub'.end, Turns(payment') + 1) BY <1>1 DEF Earned
  <2>3. ASSUME NEW end \in Nat, NEW turn, Earned(payment, granted, end, turn)
        PROVE  Earned(payment', granted', end, turn)
    BY <1>1, <2>3 DEF Earned
  <2>4. \A b \in Worker : work[b].op = "approve" => work[b].seen.sub.end \in Nat
    BY Knows DEF SeenBy, SubRow
  <2>5. \A q \in Payment : payment[q].status = "approved" => payment[q].back.sub.end \in Nat
    BY DEF Remembered, Back, SubRow
  <2> QED BY <1>1, <1>3, <2>1, <2>2, <2>3, <2>4, <2>5 DEF Backed
<1> QED BY <1>1, <1>4, <1>5 DEF Chain

LEMMA ChainBegin ==
  ASSUME Basics, Chain, NEW a \in Worker, NEW p \in Payment \cup {Nobody},
         NEW op \in {"approve", "reject", "revert", "extend", "issue", "daily"},
         Start(a, op, p),
         op = "revert" => \A q \in Payment \ {p} :
           payment[q].status = "approved" => payment[q].turn < payment[p].turn
  PROVE  Chain'
<1> USE DEF Basics
<1>1. /\ UNCHANGED <<payment, sub, granted, overtaken>>
      /\ work'[a].op = op /\ work'[a].pay = p /\ work'[a].seen = Snapshot(op)
      /\ \A b \in Worker : b # a => work'[b] = work[b]
  BY Started DEF Start
<1>2. Latest' BY <1>1 DEF Chain, Latest
<1>3. ~overtaken' => Backed'
  <2> SUFFICES ASSUME ~overtaken PROVE Backed' BY <1>1
  <2>1. Backed BY DEF Chain
  <2>2. op = "approve" => work'[a].seen.sub = sub BY <1>1, SnapshotFields
  <2>3. ASSUME NEW b \in Worker, work'[b].op = "approve"
        PROVE  Earned(payment, granted, work'[b].seen.sub.end, Turns(payment) + 1)
    BY <1>1, <2>1, <2>2, <2>3 DEF Backed
  <2> QED BY <1>1, <2>1, <2>3 DEF Backed
<1> QED BY <1>1, <1>2, <1>3 DEF Chain

LEMMA ChainStep == ASSUME Basics, Settled, Chain, SubsNext PROVE Chain'
<1> USE DEF Basics
<1> DEFINE PaymentsKept ==
      \A q \in Payment :
        /\ payment'[q].turn = payment[q].turn
        /\ payment'[q].status = "approved" <=> payment[q].status = "approved"
        /\ payment[q].status = "approved" =>
             payment'[q].cycle = payment[q].cycle /\ payment'[q].back = payment[q].back
    WorkKept ==
      \A b \in Worker :
        \/ work'[b].op \notin {"approve", "revert"}
        \/ /\ work'[b].op = work[b].op /\ work'[b].pay = work[b].pay
           /\ work'[b].seen = work[b].seen /\ work'[b].passed = work[b].passed
<1>k. ASSUME sub'.end = sub.end, UNCHANGED <<granted, overtaken>>, PaymentsKept, WorkKept
      PROVE  Chain'
  BY <1>k, ChainKept
<1>p. payment' = payment => PaymentsKept OBVIOUS
<1>w. work' = work => WorkKept OBVIOUS
<1>s. ASSUME NEW a \in Worker, Stop(a) PROVE WorkKept
  BY <1>s, Stopped DEF Idle
<1>c. ASSUME NEW S, \A q \in S : q \in Payment /\ payment[q].status # "approved",
             payment' = Closed(S)
      PROVE  PaymentsKept
  BY <1>c, ClosedRows
<1>1. ASSUME NEW p \in Payment, NEW e \in Day \cup {NoCycle}, NEW admin \in BOOLEAN,
             NEW receipt \in BOOLEAN, Submit(p, e, admin, receipt)
      PROVE  Chain'
  <2> DEFINE row == [NotSent EXCEPT !.status = "pending_review", !.cycle = e]
             C == Closed(Waiting(e))
  <2>1. row.status = "pending_review" /\ row.turn = 0 BY DEF NotSent
  <2>2. payment' = [C EXCEPT ![p] = row] BY <1>1 DEF Submit
  <2>3. /\ C \in [Payment -> PaymentRow]
        /\ \A q \in Payment : /\ C[q].cycle = payment[q].cycle /\ C[q].turn = payment[q].turn
                              /\ C[q].back = payment[q].back
                              /\ C[q].status = IF q \in Waiting(e) THEN "rejected"
                                               ELSE payment[q].status
    BY ClosedRows
  <2> HIDE DEF C, row
  <2>4. payment[p].status = "none" /\ payment[p].turn = 0 BY <1>1 DEF Submit, Remembered
  <2>5. PaymentsKept BY <2>1, <2>2, <2>3, <2>4 DEF Waiting
  <2>6. sub'.end = sub.end BY <1>1 DEF Submit, SubsTypeOK, SubRow
  <2>7. UNCHANGED <<granted, overtaken>> /\ work' = work BY <1>1 DEF Submit
  <2> HIDE DEF PaymentsKept, WorkKept
  <2> QED BY <1>k, <1>w, <2>5, <2>6, <2>7
<1>2. ASSUME NEW a \in Worker, EndReject(a) PROVE Chain'
  <2>1. PaymentsKept
    <3>1. \A q \in {work[a].pay} : q \in Payment /\ payment[q].status # "approved"
      BY <1>2 DEF EndReject, Held
    <3> HIDE DEF PaymentsKept
    <3> QED BY <1>2, <1>c, <3>1 DEF EndReject
  <2>2. sub'.end = sub.end BY <1>2, NewStatus DEF EndReject, Strike, SubStatuses
  <2>3. WorkKept
    <3> HIDE DEF WorkKept
    <3> QED BY <1>2, <1>s DEF EndReject
  <2>4. UNCHANGED <<granted, overtaken>> BY <1>2 DEF EndReject
  <2> HIDE DEF PaymentsKept, WorkKept
  <2> QED BY <1>k, <2>1, <2>2, <2>3, <2>4
<1>3. ASSUME NEW a \in Worker, Rollback(a) \/ EndIssue(a) PROVE Chain'
  <2> HIDE DEF PaymentsKept, WorkKept
  <2> QED BY <1>3, <1>k, <1>p, <1>s DEF Rollback, EndIssue
<1>4. ASSUME NEW a \in Worker, LookDaily(a) \/ Write(a) PROVE Chain'
  <2>1. WorkKept BY <1>4, Looked, Wrote DEF Idle
  <2>2. sub'.end = sub.end BY <1>4 DEF LookDaily, Write, SubsTypeOK, SubRow
  <2>3. UNCHANGED <<payment, granted, overtaken>> BY <1>4 DEF LookDaily, Write
  <2> HIDE DEF PaymentsKept, WorkKept
  <2> QED BY <1>k, <1>p, <2>1, <2>2, <2>3
<1>5. ASSUME NEW e \in Day, Cancel(e) PROVE Chain'
  <2>1. \A q \in Waiting(e) : q \in Payment /\ payment[q].status # "approved" BY DEF Waiting
  <2>2. /\ payment' = Closed(Waiting(e)) /\ work' = work
        /\ UNCHANGED <<sub, granted, overtaken>>
    BY <1>5 DEF Cancel
  <2> HIDE DEF PaymentsKept, WorkKept
  <2> QED BY <1>c, <1>k, <1>w, <2>1, <2>2
<1>6. ASSUME Unblock \/ EnsureCycle \/ ProvisionalEnds \/ Tomorrow PROVE Chain'
  <2>1. sub'.end = sub.end
    BY <1>6 DEF Unblock, EnsureCycle, ProvisionalEnds, Tomorrow, SubsTypeOK, SubRow
  <2>2. UNCHANGED <<payment, work, granted, overtaken>>
    BY <1>6 DEF Unblock, EnsureCycle, ProvisionalEnds, Tomorrow
  <2> HIDE DEF PaymentsKept, WorkKept
  <2> QED BY <1>k, <1>p, <1>w, <2>1, <2>2
<1>7. ASSUME NEW a \in Worker, NEW p \in Payment \cup {Nobody},
             NEW op \in {"approve", "reject", "extend", "issue", "daily"}, Start(a, op, p)
      PROVE  Chain'
  <2>1. op \in {"approve", "reject", "revert", "extend", "issue", "daily"} /\ op # "revert"
    BY <1>7
  <2> QED BY <1>7, <2>1, ChainBegin
<1>8. ASSUME NEW a \in Worker, NEW p \in Payment, BeginRevert(a, p) PROVE Chain'
  BY <1>8, ChainBegin DEF BeginRevert
<1> HIDE DEF PaymentsKept, WorkKept
<1> QED BY <1>1, <1>2, <1>3, <1>4, <1>5, <1>6, <1>7, <1>8, ChainApprove, ChainRevert, ChainExtend
        DEF SubsNext, BeginApprove, BeginReject, BeginExtend, BeginIssue, BeginDaily

LEMMA ChainInvariant == SubsSpec => [](Basics /\ Settled /\ Chain)
<1>1. SubsInit => Chain
  <2> SUFFICES ASSUME SubsInit PROVE Chain OBVIOUS
  <2>1. /\ \A a \in Worker : work[a].op = "idle"
        /\ \A q \in Payment : payment[q].status = "none" /\ payment[q].turn = 0
        /\ sub.end = Period /\ granted = Period
    BY DEF SubsInit, Idle, NotSent, FirstSub
  <2>2. Turns(payment) \in Nat BY TurnsNat
  <2> QED BY <2>1, <2>2 DEF Chain, Latest, Backed, Earned
<1>2. Basics /\ Settled /\ Chain /\ [SubsNext]_subsVars => Chain'
  <2> SUFFICES ASSUME Basics, Settled, Chain, [SubsNext]_subsVars PROVE Chain' OBVIOUS
  <2>1. CASE UNCHANGED subsVars BY <2>1 DEF Chain, Latest, Backed
  <2> QED BY <2>1, ChainStep
<1> QED BY <1>1, <1>2, SettledInvariant, PTL DEF SubsSpec

(* However approvals, reverts and extensions follow and overlap, the end   *)
(* of the subscription was given or is covered by a cycle that is paid,    *)
(* but for a revert that overlapped an approval or an extension.           *)
THEOREM NoDaysForFree == SubsSpec => []NoFreeDays
<1>1. Basics /\ Settled /\ Chain => NoFreeDays
  <2> SUFFICES ASSUME Basics, Settled, Chain, ~overtaken
               PROVE  sub.end <= granted
                      \/ \E e \in Day : cycle[e].status = "paid" /\ sub.end <= e
    BY DEF NoFreeDays
  <2>1. Earned(payment, granted, sub.end, Turns(payment) + 1) BY DEF Chain, Backed
  <2>2. \A q \in Payment : payment[q].status = "approved" =>
          payment[q].cycle \in Day /\ cycle[payment[q].cycle].status = "paid"
    BY DEF Basics, SubsTypeOK, PaymentRow, Remembered, Settled, SettledOnce
  <2> QED BY <2>1, <2>2 DEF Earned
<1> QED BY <1>1, ChainInvariant, PTL
=============================================================================
