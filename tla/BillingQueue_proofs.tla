------------------------- MODULE BillingQueue_proofs -------------------------
(***************************************************************************)
(* Proofs about BillingQueue, for any sales, any number of replicas, stops *)
(* and attempts.  A lock answers for one worker as long as it has not      *)
(* expired under it; a worker that failed has not seen an acceptance, as   *)
(* far as it could read the row.  At the end, every step is one that       *)
(* JobQueue allows.                                                        *)
(***************************************************************************)
EXTENDS BillingQueue, TLAPS

Records == [at : Working, job : Job]

(* A job that has used its attempts is in no list and in no timer.         *)
Short(list) == list \in Lists /\ \A j \in Job : ~(j.attempt < BillingMaxRetries) => list[j] = 0

Attempts ==
  /\ Short(main) /\ Short(processing)
  /\ \A w \in Worker : Short(timers[w])
  /\ \A w \in Worker : On(w, "recovered") => JobOf(w).attempt < BillingMaxRetries

(* Who works on a sale has its lock, and alone, unless one expired.        *)
Locked ==
  \A s \in Sale \ overran :
    /\ \A w, v \in Holders(s) : w = v
    /\ Holders(s) # {} => s \in lock

Unaccepted == \A s \in Sale \ unseen : Failing(s) # {} => document[s] # "accepted"

QueueInv == QueueTypeOK /\ Attempts /\ Locked /\ Unaccepted /\ AcceptedNotDead

(* Names that stand for groups of variables are always expanded.           *)
USE DEF lists, rows, bounds, queueVars

-----------------------------------------------------------------------------
(* The steps, one alternative per action, so that a proof can cite them.   *)
LEMMA QueueSteps ==
  ASSUME QueueNext
  PROVE  \/ \E w \in Worker :
              \/ Pop(w) \/ LockJob(w) \/ NoDatabase(w) \/ Refused(w) \/ PushBack(w)
              \/ SendSale(w) \/ Reload(w) \/ Unreadable(w) \/ Retry(w) \/ MarkDead(w)
              \/ Bury(w) \/ Ack(w) \/ Unlock(w) \/ StartUp(w) \/ RecoverTake(w)
              \/ RecoverPut(w) \/ Recovered(w) \/ TimerFires(w) \/ Stop(w)
         \/ \E s \in Sale :
              \/ \E resend \in BOOLEAN : Reserve(s, resend)
              \/ PushFirst(s) \/ PushFails(s) \/ ForgetPush(s)
              \/ ClaimExpires(s) \/ LockExpires(s) \/ Accept(s)
BY DEF QueueNext, Step

LEMMA PutRem ==
  ASSUME NEW list \in Lists, NEW j \in Job
  PROVE  /\ Put(list, j) \in Lists /\ Rem(list, j) \in Lists
         /\ \A i \in Job : /\ Rem(list, j)[i] \leq list[i]
                           /\ i # j => Put(list, j)[i] = list[i]
<1>1. list \in [Job -> Nat] /\ list[j] \in Nat BY DEF Lists
<1>2. list[j] + 1 \in Nat /\ (IF list[j] > 0 THEN list[j] - 1 ELSE 0) \in Nat
  BY <1>1
<1>3. (IF list[j] > 0 THEN list[j] - 1 ELSE 0) \leq list[j] BY <1>1
<1> QED BY <1>1, <1>2, <1>3 DEF Put, Rem, Lists

LEMMA EmptyIsList == EmptyList \in Lists
BY DEF EmptyList, Lists

(* What a worker's record holds at each place.                             *)
LEMMA LoopFields ==
  ASSUME NEW l \in Loops
  PROVE  /\ l.at \in Working \cup {"down", "polling", "recovering", "recovered"}
         /\ l.at \in Working => l.job \in Job /\ l \in Records
         /\ l.at \in {"recovering", "recovered"} => l.left \in Lists
         /\ l.at = "recovered" => l.job \in Job
<1>1. CASE l \in [at : {"down", "polling"}] BY <1>1 DEF Working
<1>2. CASE l \in [at : Working, job : Job] BY <1>2 DEF Working, Records
<1>3. CASE l \in [at : {"recovering"}, left : Lists] BY <1>3 DEF Working
<1>4. CASE l \in [at : {"recovered"}, left : Lists, job : Job] BY <1>4 DEF Working
<1> QED BY <1>1, <1>2, <1>3, <1>4 DEF Loops

LEMMA LoopTypes ==
  /\ \A at \in {"down", "polling"} : [at |-> at] \in Loops
  /\ \A at \in Working, j \in Job : [at |-> at, job |-> j] \in Loops
  /\ \A left \in Lists : [at |-> "recovering", left |-> left] \in Loops
  /\ \A left \in Lists, j \in Job : [at |-> "recovered", left |-> left, job |-> j] \in Loops
BY DEF Loops

-----------------------------------------------------------------------------
LEMMA QueueStart == ASSUME QueueInit PROVE QueueInv
<1> USE QueueAssumption
<1>1. \A w \in Worker : worker[w] = [at |-> "polling"] BY DEF QueueInit, Polling
<1>2. worker \in [Worker -> Loops]
  <2>1. worker = [w \in Worker |-> Polling] BY DEF QueueInit
  <2>2. Polling \in Loops BY LoopTypes DEF Polling
  <2> QED BY <2>1, <2>2
<1>3. timers \in [Worker -> Lists] BY EmptyIsList DEF QueueInit
<1>4. \A s \in Sale : Holders(s) = {} /\ Failing(s) = {}
  BY <1>1 DEF Holders, Busy, Working, Failing
<1>5. QueueTypeOK
  <2>1. {main, processing, dead} \subseteq Lists BY EmptyIsList DEF QueueInit
  <2>2. \A w \in Worker : worker[w].at \notin Working BY <1>1 DEF Working
  <2>3. {claim, lock, api, overran, unseen} \subseteq SUBSET Sale BY DEF QueueInit
  <2>4. /\ pipeline \in [Sale -> Pipelines]
        /\ document \in [Sale -> {"none", "sent", "accepted"}]
        /\ outcome \in [Sale -> {"none", "done", "dead", "lost"}]
        /\ pushes \in Nat /\ stops \in Nat
    BY DEF QueueInit, Pipelines
  <2> QED BY <1>2, <1>3, <2>1, <2>2, <2>3, <2>4 DEF QueueTypeOK
<1>6. Attempts
  <2>1. Short(EmptyList) BY EmptyIsList DEF Short, EmptyList
  <2> QED BY <1>1, <2>1 DEF QueueInit, Attempts, On
<1>7. Locked /\ Unaccepted BY <1>4 DEF Locked, Unaccepted
<1>8. AcceptedNotDead BY DEF QueueInit, AcceptedNotDead
<1> QED BY <1>5, <1>6, <1>7, <1>8 DEF QueueInv

-----------------------------------------------------------------------------
(* The types: the lists and timers, the workers, and the rest.             *)
LEMMA ShortKept ==
  ASSUME NEW list, Short(list), NEW j \in Job
  PROVE  /\ Short(Rem(list, j))
         /\ j.attempt < BillingMaxRetries => Short(Put(list, j))
<1>1. list \in Lists BY DEF Short
<1>2. /\ Put(list, j) \in Lists /\ Rem(list, j) \in Lists
      /\ \A i \in Job : /\ Rem(list, j)[i] \leq list[i]
                        /\ i # j => Put(list, j)[i] = list[i]
  BY <1>1, PutRem
<1>3. \A i \in Job : Rem(list, j)[i] \in Nat BY <1>2 DEF Lists
<1>4. ASSUME NEW i \in Job, ~(i.attempt < BillingMaxRetries) PROVE Rem(list, j)[i] = 0
  <2>1. list[i] = 0 BY <1>4 DEF Short
  <2> QED BY <1>2, <1>3, <2>1
<1>5. ASSUME j.attempt < BillingMaxRetries, NEW i \in Job, ~(i.attempt < BillingMaxRetries)
      PROVE  Put(list, j)[i] = 0
  BY <1>2, <1>5 DEF Short
<1> QED BY <1>2, <1>4, <1>5 DEF Short

WorkersOK ==
  /\ worker \in [Worker -> Loops]
  /\ \A w \in Worker :
       worker[w].at \in Working \cup {"recovered"} => worker[w].job.attempt < BillingMaxRetries

RestOK ==
  /\ {claim, lock, api, overran, unseen} \subseteq SUBSET Sale
  /\ pipeline \in [Sale -> Pipelines]
  /\ document \in [Sale -> {"none", "sent", "accepted"}]
  /\ pushes \in Nat /\ stops \in Nat
  /\ outcome \in [Sale -> {"none", "done", "dead", "lost"}]

ListsOK ==
  /\ Short(main) /\ Short(processing) /\ dead \in Lists
  /\ timers \in [Worker -> Lists] /\ \A w \in Worker : Short(timers[w])

LEMMA TypeParts == (QueueTypeOK /\ Attempts) <=> (WorkersOK /\ RestOK /\ ListsOK)
BY DEF QueueTypeOK, Attempts, WorkersOK, RestOK, ListsOK, Short, JobOf, On

(* What a job in hand is, at every place of a worker that has one.         *)
LEMMA JobInHand ==
  ASSUME WorkersOK, NEW w \in Worker, worker[w].at \in Working \cup {"recovered"}
  PROVE  /\ worker[w].job \in Job /\ worker[w].job.attempt < BillingMaxRetries
         /\ worker[w].job.sale \in Sale
<1>1. worker[w] \in Loops BY DEF WorkersOK
<1>2. worker[w].job \in Job BY <1>1, LoopFields
<1> QED BY <1>2 DEF WorkersOK, Job

LEMMA AgainIsJob ==
  ASSUME NEW j \in Job, j.attempt < BillingMaxRetries
  PROVE  /\ Again(j) \in Job /\ Again(j).attempt = j.attempt + 1
         /\ Again(j).sale = j.sale
<1> USE QueueAssumption
<1>1. j.attempt + 1 \in 0..BillingMaxRetries BY DEF Job
<1> QED BY <1>1 DEF Again, Job

LEMMA WorkerMoves ==
  ASSUME WorkersOK, NEW w \in Worker
  PROVE  /\ \A at \in Working, j \in Job :
              j.attempt < BillingMaxRetries /\ Goto(w, at, j) => WorkersOK'
         /\ \A at \in {"down", "polling"} : Loop(w, at) => WorkersOK'
<1>1. ASSUME NEW l \in Loops, worker' = [worker EXCEPT ![w] = l],
             l.at \in Working \cup {"recovered"} => l.job.attempt < BillingMaxRetries
      PROVE  WorkersOK'
  BY <1>1 DEF WorkersOK
<1>2. ASSUME NEW at \in Working, NEW j \in Job, j.attempt < BillingMaxRetries, Goto(w, at, j)
      PROVE  WorkersOK'
  <2>1. [at |-> at, job |-> j] \in Loops BY LoopTypes
  <2> QED BY <1>1, <1>2, <2>1 DEF Goto
<1>3. ASSUME NEW at \in {"down", "polling"}, Loop(w, at) PROVE WorkersOK'
  <2>1. [at |-> at] \in Loops BY LoopTypes
  <2>2. at \notin Working \cup {"recovered"} BY DEF Working
  <2> QED BY <1>1, <1>3, <2>1, <2>2 DEF Loop
<1> QED BY <1>2, <1>3

LEMMA WorkersStep ==
  ASSUME WorkersOK, ListsOK, QueueNext
  PROVE  WorkersOK'
<1> DEFINE inHand(w) == worker[w].at \in Working \cup {"recovered"}
<1>0. \A at \in {"taken", "refused", "sending", "erred", "failed", "burying", "acking",
                 "unlocking"} : at \in Working
  BY DEF Working
<1>1. ASSUME UNCHANGED worker PROVE WorkersOK' BY <1>1 DEF WorkersOK
<1>2. ASSUME NEW w \in Worker, Pop(w) PROVE WorkersOK'
  <2>1. PICK j \in Job : main[j] > 0 /\ Goto(w, "taken", j) BY <1>2 DEF Pop
  <2>2. j.attempt < BillingMaxRetries BY <2>1 DEF ListsOK, Short
  <2> QED BY <1>0, <2>1, <2>2, WorkerMoves
<1>3. ASSUME NEW w \in Worker,
             LockJob(w) \/ NoDatabase(w) \/ Refused(w) \/ SendSale(w) \/ Reload(w)
               \/ Unreadable(w) \/ Retry(w) \/ MarkDead(w) \/ Bury(w) \/ Ack(w)
      PROVE  WorkersOK'
  <2>1. PICK at \in {"refused", "sending", "erred", "failed", "burying", "acking", "unlocking"} :
          Goto(w, at, JobOf(w))
    BY <1>3 DEF LockJob, NoDatabase, Refused, SendSale, Reload, Unreadable, Retry, MarkDead,
                Bury, Ack
  <2>2. worker[w].at \in Working
    BY <1>3 DEF LockJob, NoDatabase, Refused, SendSale, Reload, Unreadable, Retry, MarkDead,
                Bury, Ack, On, Working
  <2>3. JobOf(w) \in Job /\ JobOf(w).attempt < BillingMaxRetries
    BY <2>2, JobInHand DEF JobOf
  <2>4. at \in Working BY <1>0
  <2> QED BY <2>1, <2>3, <2>4, WorkerMoves
<1>4. ASSUME NEW w \in Worker, PushBack(w) \/ Unlock(w) \/ Stop(w) \/ Recovered(w)
      PROVE  WorkersOK'
  <2>1. PICK at \in {"down", "polling"} : Loop(w, at)
    BY <1>4 DEF PushBack, Unlock, Stop, Recovered
  <2> QED BY <2>1, WorkerMoves
<1>5. ASSUME NEW w \in Worker, StartUp(w) PROVE WorkersOK'
  <2> DEFINE next == [at |-> "recovering", left |-> processing]
  <2>1. worker' = [worker EXCEPT ![w] = next] BY <1>5 DEF StartUp
  <2>2. next \in Loops BY LoopTypes DEF ListsOK, Short
  <2>3. next.at \notin Working \cup {"recovered"} BY DEF Working
  <2> HIDE DEF next
  <2> QED BY <2>1, <2>2, <2>3 DEF WorkersOK
<1>6. ASSUME NEW w \in Worker, RecoverTake(w) PROVE WorkersOK'
  <2>1. PICK j \in Left(w) :
          worker' = [worker EXCEPT ![w] =
            [at |-> "recovered", left |-> Rem(@.left, j), job |-> j]]
    BY <1>6 DEF RecoverTake
  <2> DEFINE next == [at |-> "recovered", left |-> Rem(worker[w].left, j), job |-> j]
  <2>2. j \in Job /\ processing[j] > 0 BY DEF Left
  <2>3. j.attempt < BillingMaxRetries BY <2>2 DEF ListsOK, Short
  <2>4. worker[w].left \in Lists BY <1>6, LoopFields DEF WorkersOK, RecoverTake, On
  <2>5. Rem(worker[w].left, j) \in Lists BY <2>2, <2>4, PutRem
  <2>6. next \in Loops BY <2>2, <2>5, LoopTypes
  <2>7. worker' = [worker EXCEPT ![w] = next] BY <2>1
  <2>8. next.job.attempt < BillingMaxRetries BY <2>3
  <2> HIDE DEF next
  <2> QED BY <2>6, <2>7, <2>8 DEF WorkersOK
<1>7. ASSUME NEW w \in Worker, RecoverPut(w) PROVE WorkersOK'
  <2> DEFINE next == [at |-> "recovering", left |-> worker[w].left]
  <2>1. worker' = [worker EXCEPT ![w] = next] BY <1>7 DEF RecoverPut
  <2>2. worker[w].left \in Lists BY <1>7, LoopFields DEF WorkersOK, RecoverPut, On
  <2>3. next \in Loops BY <2>2, LoopTypes
  <2>4. next.at \notin Working \cup {"recovered"} BY DEF Working
  <2> HIDE DEF next
  <2> QED BY <2>1, <2>3, <2>4 DEF WorkersOK
<1>8. ASSUME NEW w \in Worker, TimerFires(w) PROVE WorkersOK'
  BY <1>1, <1>8 DEF TimerFires
<1>9. ASSUME NEW s \in Sale, \E resend \in BOOLEAN : Reserve(s, resend) PROVE WorkersOK'
  BY <1>1, <1>9 DEF Reserve
<1>10. ASSUME NEW s \in Sale, PushFirst(s) \/ PushFails(s) \/ ForgetPush(s)
                \/ ClaimExpires(s) \/ LockExpires(s) \/ Accept(s)
       PROVE  WorkersOK'
  BY <1>1, <1>10 DEF PushFirst, PushFails, ForgetPush, ClaimExpires, LockExpires, Accept
<1> QED BY <1>2, <1>3, <1>4, <1>5, <1>6, <1>7, <1>8, <1>9, <1>10, QueueSteps

LEMMA ListsStep ==
  ASSUME WorkersOK, ListsOK, QueueNext
  PROVE  ListsOK'
<1> USE QueueAssumption
<1>1. ASSUME UNCHANGED <<main, processing, dead, timers>> PROVE ListsOK'
  BY <1>1 DEF ListsOK, Short
<1>2. ASSUME NEW w \in Worker, Pop(w) PROVE ListsOK'
  <2>1. PICK j \in Job : main[j] > 0 /\ main' = Rem(main, j) /\ processing' = Put(processing, j)
    BY <1>2 DEF Pop
  <2>2. j.attempt < BillingMaxRetries BY <2>1 DEF ListsOK, Short
  <2>3. Short(main') /\ Short(processing') BY <2>1, <2>2, ShortKept DEF ListsOK
  <2> QED BY <1>2, <2>3 DEF Pop, ListsOK, Short
<1>3. ASSUME NEW w \in Worker,
             LockJob(w) \/ NoDatabase(w) \/ SendSale(w) \/ Reload(w) \/ Unreadable(w)
               \/ MarkDead(w) \/ Unlock(w) \/ StartUp(w) \/ Recovered(w)
      PROVE  ListsOK'
  BY <1>1, <1>3 DEF LockJob, NoDatabase, SendSale, Reload, Unreadable, MarkDead, Unlock,
                    StartUp, Recovered
<1>4. ASSUME NEW w \in Worker, Refused(w) \/ Ack(w) PROVE ListsOK'
  <2>1. JobOf(w) \in Job BY <1>4, JobInHand DEF Refused, Ack, On, Working, JobOf
  <2>2. processing' = Rem(processing, JobOf(w)) /\ UNCHANGED <<main, dead, timers>>
    BY <1>4 DEF Refused, Ack
  <2>3. Short(processing') BY <2>1, <2>2, ShortKept DEF ListsOK
  <2> QED BY <2>2, <2>3 DEF ListsOK, Short
<1>5. ASSUME NEW w \in Worker, PushBack(w) \/ RecoverPut(w) PROVE ListsOK'
  <2>1. JobOf(w) \in Job /\ JobOf(w).attempt < BillingMaxRetries
    BY <1>5, JobInHand DEF PushBack, RecoverPut, On, Working, JobOf
  <2>2. main' = Put(main, JobOf(w)) /\ UNCHANGED <<processing, dead, timers>>
    BY <1>5 DEF PushBack, RecoverPut
  <2>3. Short(main') BY <2>1, <2>2, ShortKept DEF ListsOK
  <2> QED BY <2>2, <2>3 DEF ListsOK, Short
<1>6. ASSUME NEW w \in Worker, Retry(w) PROVE ListsOK'
  <2> DEFINE j == JobOf(w)
  <2>1. j \in Job /\ j.attempt < BillingMaxRetries
    BY <1>6, JobInHand DEF Retry, On, Working, JobOf
  <2>2. Again(j) \in Job /\ Again(j).attempt < BillingMaxRetries
    <3>1. Again(j) \in Job /\ Again(j).attempt = j.attempt + 1 BY <2>1, AgainIsJob
    <3>2. ~(j.attempt + 1 >= BillingMaxRetries) BY <1>6 DEF Retry, Exhausted
    <3>3. j.attempt \in Nat BY <2>1 DEF Job
    <3> QED BY <3>1, <3>2, <3>3
  <2>3. Short(processing') BY <1>6, <2>1, ShortKept DEF Retry, ListsOK
  <2>4. timers' = [timers EXCEPT ![w] = Put(timers[w], Again(j))]
    BY <1>6 DEF Retry, AfterFunc
  <2>5. Short(Put(timers[w], Again(j))) BY <2>2, ShortKept DEF ListsOK
  <2>6. timers' \in [Worker -> Lists] /\ \A v \in Worker : Short(timers'[v])
    BY <2>4, <2>5 DEF ListsOK, Short
  <2>7. UNCHANGED <<main, dead>> BY <1>6 DEF Retry
  <2> QED BY <2>3, <2>6, <2>7 DEF ListsOK, Short
<1>7. ASSUME NEW w \in Worker, Bury(w) PROVE ListsOK'
  <2>1. JobOf(w) \in Job /\ JobOf(w).attempt < BillingMaxRetries
    BY <1>7, JobInHand DEF Bury, On, Working, JobOf
  <2>2. Again(JobOf(w)) \in Job BY <2>1, AgainIsJob
  <2>3. dead' \in Lists BY <1>7, <2>2, PutRem DEF Bury, ListsOK
  <2>4. Short(processing') BY <1>7, <2>1, ShortKept DEF Bury, ListsOK
  <2> QED BY <1>7, <2>3, <2>4 DEF Bury, ListsOK, Short
<1>8. ASSUME NEW w \in Worker, RecoverTake(w) PROVE ListsOK'
  <2>1. PICK j \in Left(w) : processing' = Rem(processing, j) BY <1>8 DEF RecoverTake
  <2>2. Short(processing') BY <2>1, ShortKept DEF ListsOK, Left
  <2> QED BY <1>8, <2>2 DEF RecoverTake, ListsOK, Short
<1>9. ASSUME NEW w \in Worker, TimerFires(w) PROVE ListsOK'
  <2>1. PICK j \in Job : /\ timers[w][j] > 0
                         /\ timers' = [timers EXCEPT ![w] = Rem(timers[w], j)]
                         /\ main' = Put(main, j)
    BY <1>9 DEF TimerFires
  <2>2. j.attempt < BillingMaxRetries BY <2>1 DEF ListsOK, Short
  <2>3. Short(main') /\ Short(Rem(timers[w], j)) BY <2>1, <2>2, ShortKept DEF ListsOK
  <2>4. timers' \in [Worker -> Lists] /\ \A v \in Worker : Short(timers'[v])
    BY <2>1, <2>3 DEF ListsOK, Short
  <2> QED BY <1>9, <2>3, <2>4 DEF TimerFires, ListsOK, Short
<1>10. ASSUME NEW w \in Worker, Stop(w) PROVE ListsOK'
  <2>1. Short(EmptyList) BY EmptyIsList DEF Short, EmptyList
  <2>2. timers' = [timers EXCEPT ![w] = EmptyList] /\ UNCHANGED <<main, processing, dead>>
    BY <1>10 DEF Stop
  <2>3. timers' \in [Worker -> Lists] /\ \A v \in Worker : Short(timers'[v])
    BY <2>1, <2>2, EmptyIsList DEF ListsOK
  <2> QED BY <2>2, <2>3 DEF ListsOK, Short
<1>11. ASSUME NEW s \in Sale, PushFirst(s) PROVE ListsOK'
  <2> DEFINE j == [sale |-> s, attempt |-> 0]
  <2>1. j \in Job /\ j.attempt < BillingMaxRetries BY DEF Job
  <2>2. main' = Put(main, j) /\ UNCHANGED <<processing, dead, timers>>
    BY <1>11 DEF PushFirst
  <2> HIDE DEF j
  <2>3. Short(main') BY <2>1, <2>2, ShortKept DEF ListsOK
  <2> QED BY <2>2, <2>3 DEF ListsOK, Short
<1>12. ASSUME NEW s \in Sale, \E resend \in BOOLEAN : Reserve(s, resend) PROVE ListsOK'
  BY <1>1, <1>12 DEF Reserve
<1>13. ASSUME NEW s \in Sale, PushFails(s) \/ ForgetPush(s) \/ ClaimExpires(s)
                \/ LockExpires(s) \/ Accept(s)
       PROVE  ListsOK'
  BY <1>1, <1>13 DEF PushFails, ForgetPush, ClaimExpires, LockExpires, Accept
<1> QED BY <1>2, <1>3, <1>4, <1>5, <1>6, <1>7, <1>8, <1>9, <1>10, <1>11, <1>12, <1>13,
           QueueSteps

LEMMA RestStep ==
  ASSUME WorkersOK, RestOK, QueueNext
  PROVE  RestOK'
<1>1. ASSUME NEW w \in Worker,
             Pop(w) \/ Refused(w) \/ PushBack(w) \/ Reload(w) \/ Retry(w) \/ StartUp(w)
               \/ RecoverTake(w) \/ RecoverPut(w) \/ Recovered(w) \/ TimerFires(w)
      PROVE  RestOK'
  BY <1>1 DEF Pop, Refused, PushBack, Reload, Retry, StartUp, RecoverTake, RecoverPut,
              Recovered, TimerFires, RestOK
<1>2. ASSUME NEW w \in Worker,
             LockJob(w) \/ NoDatabase(w) \/ SendSale(w) \/ Unreadable(w) \/ MarkDead(w)
               \/ Bury(w) \/ Ack(w) \/ Unlock(w)
      PROVE  RestOK'
  <2>1. worker[w].at \in Working
    BY <1>2 DEF LockJob, NoDatabase, SendSale, Unreadable, MarkDead, Bury, Ack, Unlock, On,
                Working
  <2>2. SaleOf(w) \in Sale BY <2>1, JobInHand DEF SaleOf
  <2>3. CASE LockJob(w) \/ NoDatabase(w) BY <2>2, <2>3 DEF LockJob, NoDatabase, RestOK, Pipelines
  <2>4. CASE SendSale(w)
    <3>1. /\ pipeline' \in [Sale -> Pipelines]
          /\ document' \in [Sale -> {"none", "sent", "accepted"}]
          /\ unseen' \subseteq Sale
      BY <2>2, <2>4 DEF SendSale, Unread, RestOK, Pipelines
    <3>2. UNCHANGED <<claim, lock, api, overran, bounds, outcome>> BY <2>4 DEF SendSale
    <3> QED BY <3>1, <3>2 DEF RestOK
  <2>5. CASE Unreadable(w) \/ Unlock(w) BY <2>2, <2>5 DEF Unreadable, Unlock, RestOK
  <2>6. CASE MarkDead(w) BY <2>6 DEF MarkDead, RestOK, Pipelines
  <2>7. CASE Bury(w) \/ Ack(w) BY <2>7 DEF Bury, Ack, RestOK
  <2> QED BY <1>2, <2>3, <2>4, <2>5, <2>6, <2>7
<1>3. ASSUME NEW w \in Worker, Stop(w) PROVE RestOK'
  <2>1. outcome' \in [Sale -> {"none", "done", "dead", "lost"}] BY <1>3 DEF Stop, RestOK
  <2>2. overran' \subseteq Sale /\ stops' \in Nat BY <1>3 DEF Stop, RestOK
  <2> QED BY <1>3, <2>1, <2>2 DEF Stop, RestOK
<1>4. ASSUME NEW s \in Sale, \E resend \in BOOLEAN : Reserve(s, resend) PROVE RestOK'
  BY <1>4 DEF Reserve, RestOK, Pipelines
<1>5. ASSUME NEW s \in Sale, PushFirst(s) \/ PushFails(s) \/ ForgetPush(s)
               \/ ClaimExpires(s) \/ LockExpires(s)
      PROVE  RestOK'
  BY <1>5 DEF PushFirst, PushFails, ForgetPush, ClaimExpires, LockExpires, RestOK, Pipelines
<1>6. ASSUME NEW s \in Sale, Accept(s) PROVE RestOK'
  BY <1>6 DEF Accept, Unread, RestOK, Pipelines
<1> QED BY <1>1, <1>2, <1>3, <1>4, <1>5, <1>6, QueueSteps

-----------------------------------------------------------------------------
(* Who holds a sale, before and after a worker's move.                     *)
Has(l, s) == /\ l.at \in {"sending", "erred", "failed", "burying", "acking", "unlocking"}
             /\ l.job.sale = s

LEMMA HoldersAre ==
  /\ \A s : Holders(s) = {w \in Worker : Has(worker[w], s)}
  /\ \A s : Failing(s) = {w \in Worker : worker[w].at = "failed" /\ worker[w].job.sale = s}
BY DEF Holders, Failing, Busy, Has, On, Working

(* In one step one worker moves.                                           *)
Moves(w, l) == worker'[w] = l /\ \A v \in Worker \ {w} : worker'[v] = worker[v]

LEMMA HoldersAfter ==
  ASSUME NEW w \in Worker, NEW l, Moves(w, l)
  PROVE  \A s : /\ Holders(s)' = {v \in Worker : IF v = w THEN Has(l, s) ELSE v \in Holders(s)}
                /\ Failing(s)' = {v \in Worker : IF v = w THEN l.at = "failed" /\ l.job.sale = s
                                                         ELSE v \in Failing(s)}
<1> TAKE s
<1>1. \A v \in Worker : worker'[v] = IF v = w THEN l ELSE worker[v] BY DEF Moves
<1>2. Holders(s)' = {v \in Worker : Has(worker'[v], s)}
  BY DEF Holders, Busy, Has, On, Working
<1>3. Failing(s)' = {v \in Worker : worker'[v].at = "failed" /\ worker'[v].job.sale = s}
  BY DEF Failing, Busy, On, Working
<1>4. \A v \in Worker : Has(worker'[v], s) <=> IF v = w THEN Has(l, s) ELSE Has(worker[v], s)
  BY <1>1
<1>5. \A v \in Worker : (worker'[v].at = "failed" /\ worker'[v].job.sale = s)
        <=> IF v = w THEN l.at = "failed" /\ l.job.sale = s
                     ELSE worker[v].at = "failed" /\ worker[v].job.sale = s
  BY <1>1
<1> QED BY <1>2, <1>3, <1>4, <1>5, HoldersAre

LEMMA Replaced ==
  ASSUME WorkersOK, NEW w \in Worker
  PROVE  \A l : worker' = [worker EXCEPT ![w] = l] => Moves(w, l)
BY DEF WorkersOK, Moves

LEMMA LockedStep ==
  ASSUME WorkersOK, Locked, QueueNext
  PROVE  Locked'
<1> DEFINE kept(s) == Holders(s)' \subseteq Holders(s)
<1>1. ASSUME UNCHANGED <<lock, overran>>, \A s \in Sale : kept(s) PROVE Locked'
  BY <1>1 DEF Locked
<1>2. ASSUME UNCHANGED worker, NEW s PROVE Holders(s)' = Holders(s)
  BY <1>2 DEF Holders, Busy, On
<1>3. ASSUME NEW w \in Worker, \/ Pop(w) \/ Refused(w) \/ PushBack(w) \/ StartUp(w)
                               \/ RecoverTake(w) \/ RecoverPut(w) \/ Recovered(w)
      PROVE  Locked'
  <2>1. PICK l : /\ Moves(w, l)
                 /\ l.at \in {"taken", "refused", "polling", "recovering", "recovered"}
    <3>0. ASSUME NEW l, worker' = [worker EXCEPT ![w] = l],
                 l.at \in {"taken", "refused", "polling", "recovering", "recovered"}
          PROVE  \E m : /\ Moves(w, m)
                        /\ m.at \in {"taken", "refused", "polling", "recovering", "recovered"}
      BY <3>0, Replaced
    <3>1. CASE Pop(w)
      <4>1. PICK j \in Job : worker' = [worker EXCEPT ![w] = [at |-> "taken", job |-> j]]
        BY <3>1 DEF Pop, Goto
      <4> QED BY <3>0, <4>1
    <3>2. CASE Refused(w)
      <4>1. worker' = [worker EXCEPT ![w] = [at |-> "refused", job |-> JobOf(w)]]
        BY <3>2 DEF Refused, Goto
      <4> QED BY <3>0, <4>1
    <3>3. CASE PushBack(w) \/ Recovered(w)
      <4>1. worker' = [worker EXCEPT ![w] = [at |-> "polling"]]
        BY <3>3 DEF PushBack, Recovered, Loop
      <4> QED BY <3>0, <4>1
    <3>4. CASE StartUp(w)
      <4>1. worker' = [worker EXCEPT ![w] = [at |-> "recovering", left |-> processing]]
        BY <3>4 DEF StartUp
      <4> QED BY <3>0, <4>1
    <3>5. CASE RecoverTake(w)
      <4>1. PICK j \in Left(w) : worker' = [worker EXCEPT ![w] =
               [at |-> "recovered", left |-> Rem(worker[w].left, j), job |-> j]]
        BY <3>5 DEF RecoverTake
      <4> QED BY <3>0, <4>1
    <3>6. CASE RecoverPut(w)
      <4>1. worker' = [worker EXCEPT ![w] = [at |-> "recovering", left |-> worker[w].left]]
        BY <3>6 DEF RecoverPut
      <4> QED BY <3>0, <4>1
    <3> QED BY <1>3, <3>1, <3>2, <3>3, <3>4, <3>5, <3>6
  <2>2. \A s : ~Has(l, s) BY <2>1 DEF Has
  <2>3. \A s \in Sale : kept(s) BY <2>1, <2>2, HoldersAfter
  <2>4. UNCHANGED <<lock, overran>>
    BY <1>3 DEF Pop, Refused, PushBack, StartUp, RecoverTake, RecoverPut, Recovered
  <2> QED BY <1>1, <2>3, <2>4
<1>4. ASSUME NEW w \in Worker, \/ SendSale(w) \/ Reload(w) \/ Unreadable(w) \/ Retry(w)
                               \/ MarkDead(w) \/ Bury(w) \/ Ack(w)
      PROVE  Locked'
  <2>1. PICK at \in {"erred", "failed", "burying", "acking", "unlocking"} :
          worker' = [worker EXCEPT ![w] = [at |-> at, job |-> worker[w].job]]
    BY <1>4 DEF SendSale, Reload, Unreadable, Retry, MarkDead, Bury, Ack, Goto, JobOf
  <2> DEFINE l == [at |-> at, job |-> worker[w].job]
  <2>0. Moves(w, l) BY <2>1, Replaced
  <2>2. worker[w].at \in {"sending", "erred", "failed", "burying", "acking"}
    BY <1>4 DEF SendSale, Reload, Unreadable, Retry, MarkDead, Bury, Ack, On
  <2>3. \A s : Has(l, s) => w \in Holders(s)
    BY <2>1, <2>2, HoldersAre DEF Has
  <2> HIDE DEF l
  <2>4. \A s \in Sale : kept(s) BY <2>0, <2>3, HoldersAfter
  <2>5. UNCHANGED <<lock, overran>>
    BY <1>4 DEF SendSale, Reload, Unreadable, Retry, MarkDead, Bury, Ack
  <2> QED BY <1>1, <2>4, <2>5
<1>5. ASSUME NEW w \in Worker, LockJob(w) \/ NoDatabase(w) PROVE Locked'
  <2> DEFINE s == SaleOf(w)
  <2>1. PICK at \in {"sending", "failed"} :
          worker' = [worker EXCEPT ![w] = [at |-> at, job |-> worker[w].job]]
    BY <1>5 DEF LockJob, NoDatabase, Goto, JobOf
  <2>2. s \notin lock /\ lock' = lock \cup {s} /\ UNCHANGED overran
    BY <1>5 DEF LockJob, NoDatabase, Unlocked
  <2> DEFINE l == [at |-> at, job |-> worker[w].job]
  <2>0. Moves(w, l) BY <2>1, Replaced
  <2>3. \A t : Has(l, t) => t = s BY DEF Has, SaleOf
  <2> HIDE DEF l
  <2>4. ASSUME NEW t \in Sale \ overran'
        PROVE  /\ \A v, u \in Holders(t)' : v = u
               /\ Holders(t)' # {} => t \in lock'
    <3>1. CASE t = s
      <4>1. Holders(t) = {} BY <2>2, <2>4, <3>1 DEF Locked
      <4>2. Holders(t)' \subseteq {w} BY <2>0, <4>1, HoldersAfter
      <4> QED BY <2>2, <3>1, <4>2
    <3>2. CASE t # s
      <4>1. Holders(t)' \subseteq Holders(t) BY <2>0, <2>3, <3>2, HoldersAfter
      <4> QED BY <2>2, <2>4, <4>1 DEF Locked
    <3> QED BY <3>1, <3>2
  <2> QED BY <2>4 DEF Locked
<1>6. ASSUME NEW w \in Worker, Unlock(w) PROVE Locked'
  <2> DEFINE s == SaleOf(w)
  <2>1. worker' = [worker EXCEPT ![w] = [at |-> "polling"]] BY <1>6 DEF Unlock, Loop
  <2>2. \A t : Holders(t)' = Holders(t) \ {w}
    <3> DEFINE l == [at |-> "polling"]
    <3>1. \A t : ~Has(l, t) BY DEF Has
    <3>2. \A t : Holders(t) \subseteq Worker BY HoldersAre
    <3>3. Moves(w, l) BY <2>1, Replaced
    <3> HIDE DEF l
    <3> QED BY <3>1, <3>2, <3>3, HoldersAfter
  <2>3. w \in Holders(s) BY <1>6, HoldersAre DEF Unlock, On, Has, SaleOf
  <2>4. /\ lock' = lock \ {s}
        /\ overran' = IF Holders(s) = {w} THEN overran \ {s} ELSE overran
    BY <1>6 DEF Unlock
  <2>5. ASSUME NEW t \in Sale \ overran'
        PROVE  /\ \A v, u \in Holders(t)' : v = u
               /\ Holders(t)' # {} => t \in lock'
    <3>1. CASE Holders(t) = {w} BY <2>2, <3>1
    <3>2. CASE Holders(t) # {w}
      <4>1. t \notin overran BY <2>4, <2>5, <3>2
      <4>2. \A v, u \in Holders(t) : v = u BY <2>5, <4>1 DEF Locked
      <4>3. t # s BY <2>3, <3>2, <4>2
      <4> QED BY <2>2, <2>4, <2>5, <4>1, <4>2, <4>3 DEF Locked
    <3> QED BY <3>1, <3>2
  <2> QED BY <2>5 DEF Locked
<1>7. ASSUME NEW w \in Worker, Stop(w) PROVE Locked'
  <2>1. worker' = [worker EXCEPT ![w] = [at |-> "down"]] BY <1>7 DEF Stop, Loop
  <2>2. \A t : Holders(t)' = Holders(t) \ {w}
    <3> DEFINE l == [at |-> "down"]
    <3>1. \A t : ~Has(l, t) BY DEF Has
    <3>2. \A t : Holders(t) \subseteq Worker BY HoldersAre
    <3>3. Moves(w, l) BY <2>1, Replaced
    <3> HIDE DEF l
    <3> QED BY <3>1, <3>2, <3>3, HoldersAfter
  <2>3. lock' = lock /\ overran' = {s \in overran : Holders(s) \ {w} # {}} BY <1>7 DEF Stop
  <2> QED BY <2>2, <2>3 DEF Locked
<1>8. ASSUME NEW w \in Worker, TimerFires(w) PROVE Locked'
  BY <1>1, <1>2, <1>8 DEF TimerFires
<1>9. ASSUME NEW s \in Sale, LockExpires(s) PROVE Locked'
  <2>1. \A t : Holders(t)' = Holders(t) BY <1>2, <1>9 DEF LockExpires
  <2>2. /\ lock' = lock \ {s}
        /\ overran' = IF Holders(s) = {} THEN overran ELSE overran \cup {s}
    BY <1>9 DEF LockExpires
  <2> QED BY <2>1, <2>2 DEF Locked
<1>10. ASSUME NEW s \in Sale, \E resend \in BOOLEAN : Reserve(s, resend) PROVE Locked'
  BY <1>1, <1>2, <1>10 DEF Reserve
<1>11. ASSUME NEW s \in Sale, \/ PushFirst(s) \/ PushFails(s) \/ ForgetPush(s)
                              \/ ClaimExpires(s) \/ Accept(s)
       PROVE  Locked'
  BY <1>1, <1>2, <1>11 DEF PushFirst, PushFails, ForgetPush, ClaimExpires, Accept
<1> QED BY <1>3, <1>4, <1>5, <1>6, <1>7, <1>8, <1>9, <1>10, <1>11, QueueSteps

(* A worker that fails has not seen an acceptance, so it buries none.      *)
LEMMA UnseenStep ==
  ASSUME WorkersOK, RestOK, Unaccepted, AcceptedNotDead, QueueNext
  PROVE  Unaccepted' /\ AcceptedNotDead'
<1> DEFINE seen(s) == /\ Failing(s) # {} => document[s] # "accepted"
                      /\ document[s] = "accepted" => pipeline[s] # "DEAD_LETTER"
<1>1. \A s \in Sale \ unseen : seen(s) BY DEF Unaccepted, AcceptedNotDead
<1>2. ASSUME \A s \in Sale \ unseen' : seen(s)' PROVE Unaccepted' /\ AcceptedNotDead'
  BY <1>2 DEF Unaccepted, AcceptedNotDead
<1>3. ASSUME UNCHANGED worker PROVE \A s : Failing(s)' = Failing(s)
  BY <1>3 DEF Failing, Busy, On
<1>4. ASSUME UNCHANGED <<document, pipeline, unseen>>,
             \A s \in Sale : Failing(s)' \subseteq Failing(s)
      PROVE  Unaccepted' /\ AcceptedNotDead'
  BY <1>4 DEF Unaccepted, AcceptedNotDead
<1>5. ASSUME NEW w \in Worker, NEW l, Moves(w, l), l.at # "failed"
      PROVE  \A s : Failing(s)' = Failing(s) \ {w}
  <2>1. \A s : Failing(s) \subseteq Worker BY HoldersAre
  <2> QED BY <1>5, <2>1, HoldersAfter
<1>6. ASSUME NEW w \in Worker,
             Pop(w) \/ Refused(w) \/ PushBack(w) \/ Retry(w) \/ Bury(w) \/ Ack(w) \/ Unlock(w)
               \/ StartUp(w) \/ RecoverTake(w) \/ RecoverPut(w) \/ Recovered(w) \/ Stop(w)
      PROVE  Unaccepted' /\ AcceptedNotDead'
  <2>1. CASE Pop(w)
    <3>1. PICK j \in Job : worker' = [worker EXCEPT ![w] = [at |-> "taken", job |-> j]]
      BY <2>1 DEF Pop, Goto
    <3> DEFINE l == [at |-> "taken", job |-> j]
    <3>2. Moves(w, l) /\ l.at # "failed" BY <3>1, Replaced
    <3> HIDE DEF l
    <3>3. \A s : Failing(s)' = Failing(s) \ {w} BY <1>5, <3>2
    <3> QED BY <1>4, <2>1, <3>3 DEF Pop
  <2>2. CASE Refused(w) \/ Retry(w) \/ Bury(w) \/ Ack(w)
    <3>1. PICK at \in {"refused", "unlocking"} :
            worker' = [worker EXCEPT ![w] = [at |-> at, job |-> JobOf(w)]]
      BY <2>2 DEF Refused, Retry, Bury, Ack, Goto
    <3> DEFINE l == [at |-> at, job |-> JobOf(w)]
    <3>2. Moves(w, l) /\ l.at # "failed" BY <3>1, Replaced
    <3> HIDE DEF l
    <3>3. \A s : Failing(s)' = Failing(s) \ {w} BY <1>5, <3>2
    <3> QED BY <1>4, <2>2, <3>3 DEF Refused, Retry, Bury, Ack
  <2>3. CASE PushBack(w) \/ Unlock(w) \/ Recovered(w) \/ Stop(w)
    <3>1. PICK at \in {"polling", "down"} : worker' = [worker EXCEPT ![w] = [at |-> at]]
      BY <2>3 DEF PushBack, Unlock, Recovered, Stop, Loop
    <3> DEFINE l == [at |-> at]
    <3>2. Moves(w, l) /\ l.at # "failed" BY <3>1, Replaced
    <3> HIDE DEF l
    <3>3. \A s : Failing(s)' = Failing(s) \ {w} BY <1>5, <3>2
    <3> QED BY <1>4, <2>3, <3>3 DEF PushBack, Unlock, Recovered, Stop
  <2>4. CASE StartUp(w) \/ RecoverPut(w)
    <3>1. PICK left \in {processing, worker[w].left} :
            worker' = [worker EXCEPT ![w] = [at |-> "recovering", left |-> left]]
      BY <2>4 DEF StartUp, RecoverPut
    <3> DEFINE l == [at |-> "recovering", left |-> left]
    <3>2. Moves(w, l) /\ l.at # "failed" BY <3>1, Replaced
    <3> HIDE DEF l
    <3>3. \A s : Failing(s)' = Failing(s) \ {w} BY <1>5, <3>2
    <3> QED BY <1>4, <2>4, <3>3 DEF StartUp, RecoverPut
  <2>5. CASE RecoverTake(w)
    <3>1. PICK j \in Left(w) : worker' = [worker EXCEPT ![w] =
             [at |-> "recovered", left |-> Rem(worker[w].left, j), job |-> j]]
      BY <2>5 DEF RecoverTake
    <3> DEFINE l == [at |-> "recovered", left |-> Rem(worker[w].left, j), job |-> j]
    <3>2. Moves(w, l) /\ l.at # "failed" BY <3>1, Replaced
    <3> HIDE DEF l
    <3>3. \A s : Failing(s)' = Failing(s) \ {w} BY <1>5, <3>2
    <3> QED BY <1>4, <2>5, <3>3 DEF RecoverTake
  <2> QED BY <1>6, <2>1, <2>2, <2>3, <2>4, <2>5
<1>7. ASSUME NEW w \in Worker,
             \/ LockJob(w) \/ NoDatabase(w) \/ SendSale(w) \/ Reload(w) \/ Unreadable(w)
             \/ MarkDead(w)
      PROVE  Unaccepted' /\ AcceptedNotDead'
  <2>1. PICK t \in Sale : t = SaleOf(w)
    BY <1>7, JobInHand DEF LockJob, NoDatabase, SendSale, Reload, Unreadable, MarkDead, On,
                           Working, SaleOf
  <2>2. PICK at \in {"sending", "erred", "failed", "burying", "acking"} :
          worker' = [worker EXCEPT ![w] = [at |-> at, job |-> worker[w].job]]
    BY <1>7 DEF LockJob, NoDatabase, SendSale, Reload, Unreadable, MarkDead, Goto, JobOf
  <2> DEFINE l == [at |-> at, job |-> worker[w].job]
  <2>3. Moves(w, l) BY <2>2, Replaced
  <2>4. worker'[w].at = at BY <2>3 DEF Moves
  <2>5. \A s : (l.at = "failed" /\ l.job.sale = s) <=> (at = "failed" /\ s = t)
    BY <2>1 DEF SaleOf
  <2> HIDE DEF l
  <2>6. \A s : Failing(s)' \subseteq Failing(s) \cup (IF at = "failed" /\ s = t THEN {w} ELSE {})
    BY <2>3, <2>5, HoldersAfter
  <2>7. \A s \in Sale \ {t} : /\ Failing(s)' \subseteq Failing(s)
                              /\ pipeline'[s] = pipeline[s] /\ document'[s] = document[s]
    <3>1. \A s \in Sale \ {t} : pipeline'[s] = pipeline[s] /\ document'[s] = document[s]
      BY <1>7, <2>1 DEF LockJob, NoDatabase, SendSale, Reload, Unreadable, MarkDead, RestOK
    <3> QED BY <2>6, <3>1
  <2>8. unseen \subseteq unseen'
    BY <1>7 DEF LockJob, NoDatabase, SendSale, Reload, Unreadable, MarkDead, Unread
  <2>9. ASSUME t \notin unseen' PROVE seen(t)'
    <3>1. t \notin unseen BY <2>8, <2>9
    <3>2. seen(t) BY <1>1, <2>1, <3>1
    <3>3. CASE LockJob(w)
      <4>1. at # "failed" BY <2>4, <3>3 DEF LockJob, Goto, WorkersOK
      <4>2. pipeline'[t] = "IN_FLIGHT" /\ document'[t] = document[t]
        BY <2>1, <3>3 DEF LockJob, RestOK
      <4> QED BY <2>6, <3>2, <4>1, <4>2
    <3>4. CASE NoDatabase(w)
      <4>1. document[t] # "accepted" /\ document' = document /\ pipeline' = pipeline
        BY <2>1, <2>9, <3>4 DEF NoDatabase
      <4> QED BY <4>1
    <3>5. CASE SendSale(w)
      <4>1. at # "failed" BY <2>4, <3>5 DEF SendSale, Goto, WorkersOK
      <4>2. Failing(t)' \subseteq Failing(t) BY <2>6, <4>1
      <4>3. CASE document[t] = "accepted"
        <5>1. document' = document /\ pipeline'[t] \in {pipeline[t], "ACCEPTED"}
          BY <2>1, <3>5, <4>3 DEF SendSale, RestOK
        <5> QED BY <3>2, <4>2, <5>1
      <4>4. CASE document[t] # "accepted"
        <5>1. \/ document'[t] # "accepted"
              \/ pipeline'[t] = "ACCEPTED" /\ Unread(t)
          BY <2>1, <3>5, <4>4 DEF SendSale, RestOK
        <5>2. Unread(t) => Failing(t) = {} BY <2>9 DEF Unread
        <5> QED BY <4>2, <5>1, <5>2
      <4> QED BY <4>3, <4>4
    <3>6. CASE Reload(w)
      <4>1. document' = document /\ pipeline' = pipeline BY <3>6 DEF Reload
      <4>2. CASE document[t] = "accepted"
        <5>1. at = "acking" BY <2>1, <2>4, <3>6, <4>2 DEF Reload, Goto, WorkersOK, NotFinal
        <5> QED BY <2>6, <3>2, <4>1, <5>1
      <4> QED BY <4>1, <4>2
    <3>7. CASE Unreadable(w)
      <4>1. document[t] # "accepted" /\ document' = document /\ pipeline' = pipeline
        BY <2>1, <2>9, <3>7 DEF Unreadable, NotFinal
      <4> QED BY <4>1
    <3>8. CASE MarkDead(w)
      <4>1. w \in Failing(t) BY <2>1, <3>8, HoldersAre DEF MarkDead, On, SaleOf
      <4>2. document[t] # "accepted" /\ document' = document BY <3>2, <3>8, <4>1 DEF MarkDead
      <4> QED BY <4>2
    <3> QED BY <1>7, <3>3, <3>4, <3>5, <3>6, <3>7, <3>8
  <2>10. ASSUME NEW s \in Sale \ unseen', s # t PROVE seen(s)'
    <3>1. seen(s) BY <1>1, <2>8, <2>10
    <3> QED BY <2>7, <2>10, <3>1
  <2> QED BY <1>2, <2>9, <2>10
<1>8. ASSUME NEW w \in Worker, TimerFires(w) PROVE Unaccepted' /\ AcceptedNotDead'
  BY <1>3, <1>4, <1>8 DEF TimerFires
<1>9. ASSUME NEW s \in Sale, \E resend \in BOOLEAN : Reserve(s, resend)
      PROVE  Unaccepted' /\ AcceptedNotDead'
  <2>1. /\ UNCHANGED <<document, unseen>>
        /\ pipeline' = [pipeline EXCEPT ![s] = "IN_FLIGHT"]
    BY <1>9 DEF Reserve
  <2>2. \A t : Failing(t)' = Failing(t) BY <1>3, <1>9 DEF Reserve
  <2> QED BY <1>1, <1>2, <2>1, <2>2 DEF RestOK
<1>10. ASSUME NEW s \in Sale, PushFails(s) PROVE Unaccepted' /\ AcceptedNotDead'
  <2>1. /\ UNCHANGED <<document, unseen>>
        /\ pipeline' = [pipeline EXCEPT ![s] = "FAILED"]
    BY <1>10 DEF PushFails
  <2>2. \A t : Failing(t)' = Failing(t) BY <1>3, <1>10 DEF PushFails
  <2> QED BY <1>1, <1>2, <2>1, <2>2 DEF RestOK
<1>11. ASSUME NEW s \in Sale, PushFirst(s) \/ ForgetPush(s) \/ ClaimExpires(s) \/ LockExpires(s)
       PROVE  Unaccepted' /\ AcceptedNotDead'
  BY <1>3, <1>4, <1>11 DEF PushFirst, ForgetPush, ClaimExpires, LockExpires
<1>12. ASSUME NEW s \in Sale, Accept(s) PROVE Unaccepted' /\ AcceptedNotDead'
  <2>1. /\ document' = [document EXCEPT ![s] = "accepted"]
        /\ pipeline' = [pipeline EXCEPT ![s] = "ACCEPTED"]
        /\ unseen' = IF Failing(s) = {} THEN unseen ELSE unseen \cup {s}
    BY <1>12 DEF Accept, Unread
  <2>2. \A t : Failing(t)' = Failing(t) BY <1>3, <1>12 DEF Accept
  <2> QED BY <1>1, <1>2, <2>1, <2>2 DEF RestOK
<1> QED BY <1>6, <1>7, <1>8, <1>9, <1>10, <1>11, <1>12, QueueSteps

-----------------------------------------------------------------------------
LEMMA Inductive == ASSUME QueueInv, [QueueNext]_queueVars PROVE QueueInv'
<1>1. WorkersOK /\ RestOK /\ ListsOK BY TypeParts DEF QueueInv
<1>2. CASE QueueNext
  <2>1. WorkersOK' /\ RestOK' /\ ListsOK'
    BY <1>1, <1>2, WorkersStep, RestStep, ListsStep
  <2>2. QueueTypeOK' /\ Attempts'
    BY <2>1 DEF QueueTypeOK, Attempts, WorkersOK, RestOK, ListsOK, Short, JobOf, On
  <2>3. Locked' BY <1>1, <1>2, LockedStep DEF QueueInv
  <2>4. Unaccepted' /\ AcceptedNotDead' BY <1>1, <1>2, UnseenStep DEF QueueInv
  <2> QED BY <2>2, <2>3, <2>4 DEF QueueInv
<1>3. CASE UNCHANGED queueVars
  <2>1. \A s : Holders(s)' = Holders(s) /\ Failing(s)' = Failing(s)
    BY <1>3 DEF Holders, Failing, Busy, On
  <2>2. Locked' /\ Unaccepted' /\ AcceptedNotDead'
    BY <1>3, <2>1 DEF QueueInv, Locked, Unaccepted, AcceptedNotDead
  <2>3. WorkersOK' /\ RestOK' /\ ListsOK'
    BY <1>1, <1>3 DEF WorkersOK, RestOK, ListsOK, Short
  <2>4. QueueTypeOK' /\ Attempts'
    BY <2>3 DEF QueueTypeOK, Attempts, WorkersOK, RestOK, ListsOK, Short, JobOf, On
  <2> QED BY <2>2, <2>4 DEF QueueInv
<1> QED BY <1>2, <1>3

LEMMA AlwaysQueueInv == QueueSpec => []QueueInv
<1>1. QueueInit => QueueInv BY QueueStart
<1>2. QueueInv /\ [QueueNext]_queueVars => QueueInv' BY Inductive
<1> QED BY <1>1, <1>2, PTL DEF QueueSpec

(* Every list, timer and worker of the older queue keeps its type, and no  *)
(* worker ever holds a job that has used its attempts.                     *)
THEOREM QueueTypeCorrect == QueueSpec => []QueueTypeOK
<1>1. QueueInv => QueueTypeOK BY DEF QueueInv
<1> QED BY <1>1, AlwaysQueueInv, PTL

(* However a sale is enqueued, recovered and retried, two replicas work on *)
(* it at once only after the lock of one expired.                          *)
THEOREM LockAnswersForOne == QueueSpec => []OneHolder
<1>1. QueueInv => OneHolder BY DEF QueueInv, Locked, OneHolder
<1> QED BY <1>1, AlwaysQueueInv, PTL

(* The retries bury no sale that SUNAT accepted before the worker that     *)
(* failed read its row.                                                    *)
THEOREM AcceptedNotBuried == QueueSpec => []AcceptedNotDead
<1>1. QueueInv => AcceptedNotDead BY DEF QueueInv
<1> QED BY <1>1, AlwaysQueueInv, PTL

-----------------------------------------------------------------------------
(* The promise.  A sale is queued as long as one of its jobs is in a list, *)
(* in a timer or with a worker; each step moves one job, and a job leaves  *)
(* all of them only where an outcome is written.                           *)
Carries(l, s) == l.at \notin Jobless \cup {"unlocking"} /\ l.job.sale = s

LEMMA HeldIs == \A s, ws : Held(s, ws) <=> \E v \in ws : Carries(worker[v], s)
BY DEF Held, Carries

(* A step about the jobs of one sale.                                      *)
JobsElsewhere(s) ==
  \A j \in Job : j.sale # s =>
    /\ main'[j] = main[j] /\ processing'[j] = processing[j]
    /\ \A v \in Worker : timers'[v][j] = timers[v][j]

HandsElsewhere(s) ==
  \A t \in Sale \ {s}, v \in Worker : Carries(worker'[v], t) <=> Carries(worker[v], t)

LEMMA QueuedElsewhere ==
  ASSUME NEW s, JobsElsewhere(s), HandsElsewhere(s)
  PROVE  \A t \in Sale \ {s} : Queued(t, Worker)' <=> Queued(t, Worker)
<1> TAKE t \in Sale \ {s}
<1>1. Listed(t)' <=> Listed(t) BY DEF JobsElsewhere, Listed
<1>2. Timed(t, Worker)' <=> Timed(t, Worker) BY DEF JobsElsewhere, Timed
<1>3. Held(t, Worker)' <=> \E v \in Worker : Carries(worker'[v], t) BY DEF Held, Carries
<1>4. Held(t, Worker)' <=> Held(t, Worker) BY <1>3, HeldIs DEF HandsElsewhere
<1> QED BY <1>1, <1>2, <1>4 DEF Queued

(* A list changes at one job.                                              *)
LEMMA OneJobMoves ==
  ASSUME NEW list \in Lists, NEW j \in Job
  PROVE  /\ \A i \in Job : i.sale # j.sale => Put(list, j)[i] = list[i] /\ Rem(list, j)[i] = list[i]
         /\ Put(list, j)[j] > 0
<1>1. list \in [Job -> Nat] /\ list[j] \in Nat BY DEF Lists
<1> QED BY <1>1 DEF Put, Rem

SameStage == UNCHANGED <<stage, stops>>

LEMMA StagesAre ==
  /\ \A s \in Sale : stage[s] = IF Queued(s, Worker) THEN "queued" ELSE outcome[s]
  /\ \A s \in Sale : stage'[s] = IF Queued(s, Worker)' THEN "queued" ELSE outcome'[s]
  /\ stage = [s \in Sale |-> stage[s]]
  /\ stage' = [s \in Sale |-> stage'[s]]
BY DEF stage

LEMMA StageSame ==
  ASSUME \A t \in Sale : stage'[t] = stage[t], UNCHANGED stops
  PROVE  SameStage
<1>1. [t \in Sale |-> stage'[t]] = [t \in Sale |-> stage[t]] OBVIOUS
<1>2. stage' = stage BY <1>1, StagesAre
<1> QED BY <1>2 DEF SameStage

(* Nothing happens to any job.                                             *)
LEMMA Nothing ==
  ASSUME UNCHANGED <<main, processing, timers, outcome, stops>>,
         \A t \in Sale, v \in Worker : Carries(worker'[v], t) <=> Carries(worker[v], t)
  PROVE  SameStage
<1>1. ASSUME NEW t \in Sale PROVE Queued(t, Worker)' <=> Queued(t, Worker)
  <2>1. Listed(t)' <=> Listed(t) BY DEF Listed
  <2>2. Timed(t, Worker)' <=> Timed(t, Worker) BY DEF Timed
  <2>3. Held(t, Worker)' <=> \E v \in Worker : Carries(worker'[v], t) BY DEF Held, Carries
  <2>4. Held(t, Worker)' <=> Held(t, Worker) BY <2>3, HeldIs
  <2> QED BY <2>1, <2>2, <2>4 DEF Queued
<1> QED BY <1>1, StagesAre, StageSame

(* A job of s moves from one place to another.                             *)
LEMMA Carried ==
  ASSUME NEW s \in Sale, JobsElsewhere(s), HandsElsewhere(s),
         Queued(s, Worker), Queued(s, Worker)', UNCHANGED <<outcome, stops>>
  PROVE  SameStage
<1>1. \A t \in Sale : Queued(t, Worker)' <=> Queued(t, Worker) BY QueuedElsewhere
<1> QED BY <1>1, StagesAre, StageSame

(* A job of s ends; another may be left.                                   *)
LEMMA Ended ==
  ASSUME NEW s \in Sale, JobsElsewhere(s), HandsElsewhere(s), Queued(s, Worker),
         NEW end \in {"done", "dead"}, outcome \in [Sale -> {"none", "done", "dead", "lost"}],
         outcome' = [outcome EXCEPT ![s] = end], UNCHANGED stops
  PROVE  SameStage \/ Jobs!Finish(s)
<1>1. \A t \in Sale \ {s} : stage'[t] = stage[t] BY QueuedElsewhere, StagesAre
<1>2. stage[s] = "queued" BY StagesAre
<1>3. CASE Queued(s, Worker)'
  <2>1. stage'[s] = "queued" BY <1>3, StagesAre
  <2> QED BY <1>1, <1>2, <2>1, StageSame
<1>4. CASE ~Queued(s, Worker)'
  <2>1. stage'[s] = end BY <1>4, StagesAre
  <2>2. [t \in Sale |-> stage'[t]] = [[t \in Sale |-> stage[t]] EXCEPT ![s] = end] BY <1>1, <2>1
  <2>3. stage' = [stage EXCEPT ![s] = end] BY <2>2, StagesAre
  <2> QED BY <1>2, <2>3 DEF Jobs!Finish
<1> QED BY <1>3, <1>4

LEMMA Pushed ==
  ASSUME WorkersOK, ListsOK, NEW s \in Sale, PushFirst(s)
  PROVE  Jobs!Push(s)
<1> USE QueueAssumption
<1> DEFINE j == [sale |-> s, attempt |-> 0]
<1>1. j \in Job /\ j.sale = s BY DEF Job
<1>2. /\ main' = Put(main, j)
      /\ UNCHANGED <<processing, timers, worker, outcome, stops>>
  BY DEF PushFirst
<1> HIDE DEF j
<1>3. main \in Lists /\ processing \in Lists BY DEF ListsOK, Short
<1>4. JobsElsewhere(s) BY <1>1, <1>2, <1>3, OneJobMoves DEF JobsElsewhere
<1>5. HandsElsewhere(s) BY <1>2 DEF HandsElsewhere
<1>6. Queued(s, Worker)'
  <2>1. main'[j] > 0 /\ main'[j] \in Nat /\ processing'[j] \in Nat
    BY <1>1, <1>2, <1>3, OneJobMoves, PutRem DEF Lists
  <2>2. main'[j] + processing'[j] > 0 BY <2>1
  <2> QED BY <1>1, <2>2 DEF Queued, Listed
<1>7. \A t \in Sale \ {s} : stage'[t] = stage[t] BY <1>2, <1>4, <1>5, QueuedElsewhere, StagesAre
<1>8. stage'[s] = "queued" BY <1>6, StagesAre
<1>9. [t \in Sale |-> stage'[t]] = [[t \in Sale |-> stage[t]] EXCEPT ![s] = "queued"]
  BY <1>7, <1>8
<1>10. stage' = [stage EXCEPT ![s] = "queued"] BY <1>9, StagesAre
<1> QED BY <1>2, <1>10 DEF Jobs!Push

LEMMA HandGoes ==
  ASSUME NEW w \in Worker, NEW s, NEW l, Moves(w, l),
         \A t : Carries(worker[w], t) => t = s, \A t : Carries(l, t) => t = s
  PROVE  HandsElsewhere(s)
BY DEF Moves, HandsElsewhere

LEMMA InHandIsQueued ==
  ASSUME NEW w \in Worker
  PROVE  /\ \A s : Carries(worker[w], s) => Queued(s, Worker)
         /\ \A s : Carries(worker'[w], s) => Queued(s, Worker)'
BY DEF Queued, Held, Carries

LEMMA ListedIsQueued ==
  ASSUME ListsOK, NEW j \in Job, main[j] > 0 \/ processing[j] > 0
  PROVE  Queued(j.sale, Worker)
<1>1. main[j] \in Nat /\ processing[j] \in Nat BY DEF ListsOK, Short, Lists
<1>2. main[j] + processing[j] > 0 BY <1>1
<1> QED BY <1>2 DEF Queued, Listed

LEMMA ListedAfter ==
  ASSUME ListsOK', NEW j \in Job, main'[j] > 0 \/ processing'[j] > 0
  PROVE  Queued(j.sale, Worker)'
<1>1. main'[j] \in Nat /\ processing'[j] \in Nat BY DEF ListsOK, Short, Lists
<1>2. main'[j] + processing'[j] > 0 BY <1>1
<1> QED BY <1>2 DEF Queued, Listed

(* What a worker does with the job in its hands.                           *)
LEMMA WorksMap ==
  ASSUME WorkersOK, RestOK, ListsOK, ListsOK', NEW w \in Worker,
         \/ LockJob(w) \/ NoDatabase(w) \/ Refused(w) \/ PushBack(w) \/ SendSale(w)
         \/ Reload(w) \/ Unreadable(w) \/ Retry(w) \/ MarkDead(w) \/ Bury(w) \/ Ack(w)
  PROVE  SameStage \/ \E t \in Sale : Jobs!Finish(t)
<1>1. worker[w].at \in Working \ {"unlocking"}
  BY DEF LockJob, NoDatabase, Refused, PushBack, SendSale, Reload, Unreadable, Retry, MarkDead,
         Bury, Ack, On, Working
<1>0. PICK j \in Job : j = worker[w].job /\ j.attempt < BillingMaxRetries /\ j.sale \in Sale
  BY <1>1, JobInHand
<1>2. PICK s \in Sale : s = j.sale BY <1>0
<1>3. \A t : Carries(worker[w], t) <=> t = s BY <1>0, <1>1, <1>2 DEF Carries, Jobless, Working
<1>4. Queued(s, Worker) BY <1>3, InHandIsQueued
<1>5. PICK l : /\ worker' = [worker EXCEPT ![w] = l]
               /\ \/ l.at \in Working /\ l.job = j
                  \/ l.at = "polling"
  <2>1. CASE PushBack(w)
    <3>1. worker' = [worker EXCEPT ![w] = [at |-> "polling"]] BY <2>1 DEF PushBack, Loop
    <3>2. [at |-> "polling"].at = "polling" OBVIOUS
    <3> QED BY <3>1, <3>2
  <2>2. CASE ~PushBack(w)
    <3>1. PICK at \in {"refused", "sending", "erred", "failed", "burying", "acking",
                       "unlocking"} : worker' = [worker EXCEPT ![w] = [at |-> at, job |-> j]]
      BY <1>0, <2>2 DEF LockJob, NoDatabase, Refused, SendSale, Reload, Unreadable, Retry,
                  MarkDead, Bury, Ack, Goto, JobOf
    <3> DEFINE next == [at |-> at, job |-> j]
    <3>2. next.at \in Working /\ next.job = j BY DEF Working
    <3> QED BY <3>1, <3>2
  <2> QED BY <2>1, <2>2
<1>6. Moves(w, l) BY <1>5, Replaced
<1>7. \A t : Carries(l, t) => t = s BY <1>0, <1>2, <1>5 DEF Carries, Jobless
<1>8. HandsElsewhere(s) BY <1>3, <1>6, <1>7, HandGoes
<1>9. worker'[w] = l BY <1>6 DEF Moves
<1>10. main \in Lists /\ processing \in Lists /\ timers \in [Worker -> Lists]
  BY DEF ListsOK, Short
<1>11. CASE LockJob(w) \/ NoDatabase(w) \/ SendSale(w) \/ Reload(w) \/ Unreadable(w) \/ MarkDead(w)
  <2>1. UNCHANGED <<main, processing, timers, outcome, stops>>
    BY <1>11 DEF LockJob, NoDatabase, SendSale, Reload, Unreadable, MarkDead
  <2>2. worker'[w].at \in {"sending", "erred", "failed", "burying", "acking"}
    BY <1>11 DEF LockJob, NoDatabase, SendSale, Reload, Unreadable, MarkDead, Goto, WorkersOK
  <2>3. l.at \in Working \ {"unlocking"} BY <1>9, <2>2 DEF Working
  <2>4. l.at # "polling" BY <2>3 DEF Working
  <2>5. \A t : Carries(l, t) <=> t = s BY <1>0, <1>2, <1>5, <2>3, <2>4 DEF Carries, Jobless, Working
  <2>6. \A t \in Sale, v \in Worker : Carries(worker'[v], t) <=> Carries(worker[v], t)
    BY <1>3, <1>6, <2>5 DEF Moves
  <2> QED BY <2>1, <2>6, Nothing
<1>12. CASE Refused(w)
  <2>1. /\ processing' = Rem(processing, j) /\ UNCHANGED <<main, timers, outcome, stops>>
        /\ worker'[w] = [at |-> "refused", job |-> j]
    BY <1>0, <1>2, <1>12 DEF Refused, Goto, JobOf, WorkersOK
  <2>2. JobsElsewhere(s) BY <1>0, <1>2, <1>10, <2>1, OneJobMoves DEF JobsElsewhere
  <2>3. Carries(worker'[w], s) BY <1>2, <2>1 DEF Carries, Jobless, Working
  <2>4. Queued(s, Worker)' BY <2>3, InHandIsQueued
  <2> QED BY <1>0, <1>2, <1>4, <1>8, <2>1, <2>2, <2>4, Carried
<1>13. CASE PushBack(w)
  <2>1. main' = Put(main, j) /\ UNCHANGED <<processing, timers, outcome, stops>>
    BY <1>0, <1>2, <1>13 DEF PushBack, JobOf
  <2>2. JobsElsewhere(s) BY <1>0, <1>2, <1>10, <2>1, OneJobMoves DEF JobsElsewhere
  <2>3. main'[j] > 0 BY <1>0, <1>2, <1>10, <2>1, OneJobMoves
  <2>4. Queued(s, Worker)' BY <1>0, <1>2, <2>3, ListedAfter
  <2> QED BY <1>0, <1>2, <1>4, <1>8, <2>1, <2>2, <2>4, Carried
<1>14. CASE Retry(w)
  <2>1. /\ processing' = Rem(processing, j)
        /\ timers' = [timers EXCEPT ![w] = Put(timers[w], Again(j))]
        /\ UNCHANGED <<main, outcome, stops>>
    BY <1>0, <1>2, <1>14 DEF Retry, AfterFunc, JobOf
  <2>2. Again(j) \in Job /\ Again(j).sale = s BY <1>0, <1>2, AgainIsJob
  <2>3. timers[w] \in Lists BY <1>10
  <2>4. JobsElsewhere(s) BY <1>0, <1>2, <1>10, <2>1, <2>2, <2>3, OneJobMoves DEF JobsElsewhere
  <2>5. timers'[w][Again(j)] > 0 BY <1>10, <2>1, <2>2, <2>3, OneJobMoves
  <2>6. Queued(s, Worker)' BY <2>2, <2>5 DEF Queued, Timed
  <2> QED BY <1>0, <1>2, <1>4, <1>8, <2>1, <2>4, <2>6, Carried
<1>15. CASE Bury(w) \/ Ack(w)
  <2>1. /\ processing' = Rem(processing, j) /\ UNCHANGED <<main, timers, stops>>
        /\ \E end \in {"done", "dead"} : outcome' = [outcome EXCEPT ![s] = end]
    BY <1>0, <1>2, <1>15 DEF Bury, Ack, JobOf, SaleOf
  <2>2. JobsElsewhere(s) BY <1>0, <1>2, <1>10, <2>1, OneJobMoves DEF JobsElsewhere
  <2> QED BY <1>0, <1>2, <1>4, <1>8, <2>1, <2>2, Ended DEF RestOK
<1> QED BY <1>11, <1>12, <1>13, <1>14, <1>15

(* A job that a list gives to a worker, or a worker or a timer to a list.  *)
LEMMA MovesMap ==
  ASSUME WorkersOK, ListsOK, ListsOK', NEW w \in Worker,
         Pop(w) \/ RecoverTake(w) \/ RecoverPut(w) \/ TimerFires(w)
  PROVE  SameStage
<1>1. main \in Lists /\ processing \in Lists /\ timers \in [Worker -> Lists]
  BY DEF ListsOK, Short
<1>2. CASE Pop(w)
  <2>1. PICK j \in Job : /\ main[j] > 0
                         /\ main' = Rem(main, j) /\ processing' = Put(processing, j)
                         /\ worker' = [worker EXCEPT ![w] = [at |-> "taken", job |-> j]]
    BY <1>2 DEF Pop, Goto
  <2>2. PICK s \in Sale : s = j.sale BY DEF Job
  <2> DEFINE l == [at |-> "taken", job |-> j]
  <2>3. Moves(w, l) BY <2>1, Replaced
  <2>4. \A t : ~Carries(worker[w], t) BY <1>2 DEF Pop, On, Carries, Jobless
  <2>5. \A t : Carries(l, t) => t = s BY <2>2 DEF Carries
  <2> HIDE DEF l
  <2>6. HandsElsewhere(s) BY <2>3, <2>4, <2>5, HandGoes
  <2>7. JobsElsewhere(s) BY <1>1, <1>2, <2>1, <2>2, OneJobMoves DEF JobsElsewhere, Pop
  <2>8. Queued(s, Worker) BY <2>1, <2>2, ListedIsQueued
  <2>9. Queued(s, Worker)' BY <1>1, <2>1, <2>2, OneJobMoves, ListedAfter
  <2> QED BY <1>2, <2>6, <2>7, <2>8, <2>9, Carried DEF Pop
<1>3. CASE RecoverTake(w)
  <2>1. PICK j \in Left(w) :
          /\ processing' = Rem(processing, j)
          /\ worker' = [worker EXCEPT ![w] =
               [at |-> "recovered", left |-> Rem(worker[w].left, j), job |-> j]]
    BY <1>3 DEF RecoverTake
  <2>2. j \in Job /\ processing[j] > 0 BY DEF Left
  <2>3. PICK s \in Sale : s = j.sale BY <2>2 DEF Job
  <2> DEFINE l == [at |-> "recovered", left |-> Rem(worker[w].left, j), job |-> j]
  <2>4. Moves(w, l) BY <2>1, Replaced
  <2>5. \A t : ~Carries(worker[w], t) BY <1>3 DEF RecoverTake, On, Carries, Jobless
  <2>6. \A t : Carries(l, t) <=> t = s BY <2>3 DEF Carries, Jobless
  <2> HIDE DEF l
  <2>7. HandsElsewhere(s) BY <2>4, <2>5, <2>6, HandGoes
  <2>8. JobsElsewhere(s)
    BY <1>1, <1>3, <2>1, <2>2, <2>3, OneJobMoves DEF JobsElsewhere, RecoverTake
  <2>9. Queued(s, Worker) BY <2>2, <2>3, ListedIsQueued
  <2>10. Queued(s, Worker)'
    <3>1. Carries(worker'[w], s) BY <2>4, <2>6 DEF Moves
    <3> QED BY <3>1, InHandIsQueued
  <2> QED BY <1>3, <2>7, <2>8, <2>9, <2>10, Carried DEF RecoverTake
<1>4. CASE RecoverPut(w)
  <2>1. PICK j \in Job : j = worker[w].job BY <1>4, JobInHand DEF RecoverPut, On
  <2>2. PICK s \in Sale : s = j.sale BY DEF Job
  <2>3. /\ main' = Put(main, j)
        /\ worker' = [worker EXCEPT ![w] = [at |-> "recovering", left |-> worker[w].left]]
    BY <1>4, <2>1 DEF RecoverPut, JobOf
  <2> DEFINE l == [at |-> "recovering", left |-> worker[w].left]
  <2>4. Moves(w, l) BY <2>3, Replaced
  <2>5. \A t : Carries(worker[w], t) <=> t = s
    BY <1>4, <2>1, <2>2 DEF RecoverPut, On, Carries, Jobless
  <2>6. \A t : ~Carries(l, t) BY DEF Carries, Jobless
  <2> HIDE DEF l
  <2>7. HandsElsewhere(s) BY <2>4, <2>5, <2>6, HandGoes
  <2>8. JobsElsewhere(s) BY <1>1, <1>4, <2>2, <2>3, OneJobMoves DEF JobsElsewhere, RecoverPut
  <2>9. Queued(s, Worker) BY <2>5, InHandIsQueued
  <2>10. Queued(s, Worker)' BY <1>1, <2>2, <2>3, OneJobMoves, ListedAfter
  <2> QED BY <1>4, <2>7, <2>8, <2>9, <2>10, Carried DEF RecoverPut
<1>5. CASE TimerFires(w)
  <2>1. PICK j \in Job : /\ timers[w][j] > 0
                         /\ timers' = [timers EXCEPT ![w] = Rem(timers[w], j)]
                         /\ main' = Put(main, j)
    BY <1>5 DEF TimerFires
  <2>2. PICK s \in Sale : s = j.sale BY DEF Job
  <2>3. timers[w] \in Lists BY <1>1
  <2>4. JobsElsewhere(s)
    BY <1>1, <1>5, <2>1, <2>2, <2>3, OneJobMoves DEF JobsElsewhere, TimerFires
  <2>5. HandsElsewhere(s) BY <1>5 DEF HandsElsewhere, TimerFires
  <2>6. Queued(s, Worker) BY <2>1, <2>2 DEF Queued, Timed
  <2>7. Queued(s, Worker)' BY <1>1, <2>1, <2>2, OneJobMoves, ListedAfter
  <2> QED BY <1>5, <2>4, <2>5, <2>6, <2>7, Carried DEF TimerFires
<1> QED BY <1>2, <1>3, <1>4, <1>5

(* Steps that move no job.                                                 *)
LEMMA IdleMap ==
  ASSUME WorkersOK, NEW w \in Worker, Unlock(w) \/ StartUp(w) \/ Recovered(w)
  PROVE  SameStage
<1>1. PICK l : worker' = [worker EXCEPT ![w] = l] /\ l.at \in {"polling", "recovering"}
  <2>1. CASE StartUp(w)
    <3> DEFINE next == [at |-> "recovering", left |-> processing]
    <3>1. worker' = [worker EXCEPT ![w] = next] BY <2>1 DEF StartUp
    <3>2. next.at = "recovering" OBVIOUS
    <3> QED BY <3>1, <3>2
  <2>2. CASE Unlock(w) \/ Recovered(w)
    <3>1. worker' = [worker EXCEPT ![w] = [at |-> "polling"]]
      BY <2>2 DEF Unlock, Recovered, Loop
    <3>2. [at |-> "polling"].at = "polling" OBVIOUS
    <3> QED BY <3>1, <3>2
  <2> QED BY <2>1, <2>2
<1>2. Moves(w, l) BY <1>1, Replaced
<1>3. \A t : ~Carries(worker[w], t) /\ ~Carries(l, t)
  BY <1>1 DEF Unlock, StartUp, Recovered, On, Carries, Jobless
<1>4. UNCHANGED <<main, processing, timers, outcome, stops>> BY DEF Unlock, StartUp, Recovered
<1> QED BY <1>2, <1>3, <1>4, Nothing DEF Moves

(* A stop loses the jobs that only the stopped replica had.                *)
LEMMA StopMap ==
  ASSUME WorkersOK, ListsOK, NEW w \in Worker, Stop(w)
  PROVE  Jobs!StopOne
<1> DEFINE others == Worker \ {w}
<1>1. Moves(w, [at |-> "down"]) BY Replaced DEF Stop, Loop
<1>2. /\ \A j \in Job : timers'[w][j] = 0
      /\ \A v \in others : timers'[v] = timers[v]
  BY DEF Stop, EmptyList, ListsOK
<1>3. ASSUME NEW t \in Sale PROVE Queued(t, Worker)' <=> Queued(t, others)
  <2>1. Listed(t)' <=> Listed(t) BY DEF Stop, Listed
  <2>2. Timed(t, Worker)' <=> Timed(t, others) BY <1>2 DEF Timed
  <2>3. Held(t, Worker)' <=> \E v \in Worker : Carries(worker'[v], t) BY DEF Held, Carries
  <2>4. ~Carries([at |-> "down"], t) BY DEF Carries, Jobless
  <2>5. Held(t, Worker)' <=> Held(t, others) BY <1>1, <2>3, <2>4, HeldIs DEF Moves
  <2> QED BY <2>1, <2>2, <2>5 DEF Queued
<1>4. \A t \in Sale : Queued(t, others) => Queued(t, Worker) BY DEF Queued, Timed, Held
<1>5. \A t \in Sale : outcome'[t] =
        IF Queued(t, Worker) /\ ~Queued(t, others) THEN "lost" ELSE outcome[t]
  BY DEF Stop
<1> DEFINE lost == {t \in Sale : Queued(t, Worker) /\ ~Queued(t, others)}
<1>6. \A t \in Sale : stage'[t] = IF t \in lost THEN "lost" ELSE stage[t]
  BY <1>3, <1>4, <1>5, StagesAre
<1>7. stage' = [t \in Sale |-> IF t \in lost THEN "lost" ELSE stage[t]] BY <1>6, StagesAre
<1>8. lost \in SUBSET {t \in Sale : stage[t] = "queued"} BY StagesAre
<1>9. stops' = stops + 1 BY DEF Stop
<1> QED BY <1>7, <1>8, <1>9 DEF Jobs!StopOne

LEMMA ForgetMap ==
  ASSUME NEW s \in Sale, ForgetPush(s)
  PROVE  Jobs!StopOne
<1>1. /\ stops' = stops + 1
      /\ UNCHANGED <<main, processing, timers, worker, outcome>>
  BY DEF ForgetPush
<1>2. \A t \in Sale : Queued(t, Worker)' <=> Queued(t, Worker)
  BY <1>1 DEF Queued, Listed, Timed, Held
<1> DEFINE lost == {}
<1>3. \A t \in Sale : stage'[t] = IF t \in lost THEN "lost" ELSE stage[t]
  BY <1>1, <1>2, StagesAre
<1>4. stage' = [t \in Sale |-> IF t \in lost THEN "lost" ELSE stage[t]] BY <1>3, StagesAre
<1>5. lost \in SUBSET {t \in Sale : stage[t] = "queued"} OBVIOUS
<1> HIDE DEF lost
<1> QED BY <1>1, <1>4, <1>5 DEF Jobs!StopOne

LEMMA StepMaps ==
  ASSUME QueueInv, QueueInv', [QueueNext]_queueVars
  PROVE  [Jobs!JobsNext]_<<stage, stops>>
<1>1. WorkersOK /\ RestOK /\ ListsOK BY TypeParts DEF QueueInv
<1>2. ListsOK' BY DEF QueueInv, QueueTypeOK, Attempts, ListsOK, Short
<1>3. ASSUME UNCHANGED <<main, processing, timers, worker, outcome, stops>> PROVE SameStage
  BY <1>3, Nothing
<1>4. ASSUME NEW w \in Worker,
             \/ LockJob(w) \/ NoDatabase(w) \/ Refused(w) \/ PushBack(w) \/ SendSale(w)
             \/ Reload(w) \/ Unreadable(w) \/ Retry(w) \/ MarkDead(w) \/ Bury(w) \/ Ack(w)
      PROVE  SameStage \/ Jobs!JobsNext
  BY <1>1, <1>2, <1>4, WorksMap DEF Jobs!JobsNext
<1>5. ASSUME NEW w \in Worker,
             \/ Pop(w) \/ RecoverTake(w) \/ RecoverPut(w) \/ TimerFires(w)
             \/ Unlock(w) \/ StartUp(w) \/ Recovered(w) \/ Stop(w)
      PROVE  SameStage \/ Jobs!JobsNext
  BY <1>1, <1>2, <1>5, MovesMap, IdleMap, StopMap DEF Jobs!JobsNext
<1>6. ASSUME NEW s \in Sale, \E resend \in BOOLEAN : Reserve(s, resend) PROVE SameStage
  BY <1>3, <1>6 DEF Reserve
<1>7. ASSUME NEW s \in Sale, PushFirst(s) \/ ForgetPush(s) PROVE Jobs!JobsNext
  BY <1>1, <1>7, Pushed, ForgetMap DEF Jobs!JobsNext
<1>8. ASSUME NEW s \in Sale, PushFails(s) \/ ClaimExpires(s) \/ LockExpires(s) \/ Accept(s)
      PROVE  SameStage
  BY <1>3, <1>8 DEF PushFails, ClaimExpires, LockExpires, Accept
<1>9. CASE QueueNext
  <2>1. SameStage \/ Jobs!JobsNext BY <1>4, <1>5, <1>6, <1>7, <1>8, <1>9, QueueSteps
  <2> QED BY <2>1 DEF SameStage
<1>10. CASE UNCHANGED queueVars BY <1>3, <1>10 DEF SameStage
<1> QED BY <1>9, <1>10

(* The lists, timers, locks and the recovery take every step as the queue  *)
(* of JobQueue may: a sale is queued until one of its jobs ends, and none  *)
(* is lost but in a stop; that each one ends is for TLC (JobsServed).      *)
THEOREM QueueKeepsPromise ==
  QueueSpec => Jobs!JobsInit /\ [][Jobs!JobsNext]_<<stage, stops>>
<1>1. QueueInit => Jobs!JobsInit
  <2> SUFFICES ASSUME QueueInit PROVE Jobs!JobsInit OBVIOUS
  <2>1. \A s \in Sale : ~Queued(s, Worker)
    BY DEF QueueInit, Queued, Listed, Timed, Held, EmptyList, Polling, Jobless
  <2>2. \A s \in Sale : outcome[s] = "none" BY DEF QueueInit
  <2>3. stage = [s \in Sale |-> "none"] BY <2>1, <2>2 DEF stage
  <2> QED BY <2>3 DEF QueueInit, Jobs!JobsInit
<1>2. QueueInv /\ QueueInv' /\ [QueueNext]_queueVars => [Jobs!JobsNext]_<<stage, stops>>
  BY StepMaps
<1> QED BY <1>1, <1>2, AlwaysQueueInv, PTL DEF QueueSpec
=============================================================================
