---------------------------- MODULE BillingQueue ----------------------------
(***************************************************************************)
(* The older queue of sales to send, used where the fiscal queue is not    *)
(* configured (pkg/billingqueue, internal/billing/worker and the second    *)
(* half of EnqueueSendToSUNAT).  Redis keeps two lists of jobs, the queue  *)
(* and those being processed; retries wait in the memory of the process.   *)
(* A worker here is a replica of the server with one loop.  A list is kept *)
(* as the number of copies of each payload, so a pop takes any of them.    *)
(***************************************************************************)
EXTENDS Integers, FiniteSets

CONSTANTS
  Sale, Worker,
  BillingMaxRetries,
  MaxPushes,    \* bound: operations that enqueue
  MaxStops      \* bound: stops and crashes of replicas

ASSUME QueueAssumption ==
  /\ BillingMaxRetries \in Nat \ {0} /\ MaxPushes \in Nat /\ MaxStops \in Nat

VARIABLES
  main, processing,   \* QueueKey, ProcessingListKey
  dead,               \* DeadLetterKey
  claim,              \* the sales whose ClaimKeyPrefix key exists
  lock,               \* the sales whose ProcessingLockPref key exists
  worker,             \* where each replica's loop is, and its job
  timers,             \* the retries each replica has scheduled
  api,                \* operations between their claim and their push
  pipeline,           \* TenantInvoice.PipelineStatus
  document,           \* what SUNAT has of the sale; "accepted" is the evidence in the row
  pushes, stops,
  outcome,            \* history: how the last job of the sale that left the queue ended
  overran,            \* history: sales whose lock expired under a worker still on them
  unseen              \* history: sales accepted without the failing worker seeing it

queueVars == <<main, processing, dead, claim, lock, worker, timers, api, pipeline,
               document, pushes, stops, outcome, overran, unseen>>
lists == <<main, processing, dead>>
rows == <<pipeline, document>>
bounds == <<pushes, stops>>

Job == [sale : Sale, attempt : 0..BillingMaxRetries]
Lists == [Job -> Nat]
EmptyList == [j \in Job |-> 0]
Put(list, j) == [list EXCEPT ![j] = @ + 1]
Rem(list, j) == [list EXCEPT ![j] = IF @ > 0 THEN @ - 1 ELSE 0]    \* LREM 1

(* IN_FLIGHT is PENDING_QUEUE, PROCESSING or FACTURADOR_RECEIVED, and FAILED *)
(* also UNKNOWN or no row yet: nothing here tells them apart.              *)
Pipelines == {"IN_FLIGHT", "ACCEPTED", "FAILED", "DEAD_LETTER"}

(* Up without a job: the loop of a replica.                                *)
Jobless == {"down", "polling", "recovering"}
Polling == [at |-> "polling"]
Working == {"taken", "refused", "sending", "erred", "failed", "burying", "acking", "unlocking"}
Loops == [at : {"down", "polling"}] \cup [at : Working, job : Job]
           \cup [at : {"recovering"}, left : Lists]
           \cup [at : {"recovered"}, left : Lists, job : Job]

QueueInit ==
  /\ main = EmptyList /\ processing = EmptyList /\ dead = EmptyList
  /\ claim = {} /\ lock = {}
  /\ worker = [w \in Worker |-> Polling]
  /\ timers = [w \in Worker |-> EmptyList]
  /\ api = {}
  /\ pipeline = [s \in Sale |-> "FAILED"] /\ document = [s \in Sale |-> "none"]
  /\ pushes = 0 /\ stops = 0
  /\ outcome = [s \in Sale |-> "none"] /\ overran = {} /\ unseen = {}

Goto(w, at, j) == worker' = [worker EXCEPT ![w] = [at |-> at, job |-> j]]
Loop(w, at) == worker' = [worker EXCEPT ![w] = [at |-> at]]
On(w, at) == worker[w].at = at
JobOf(w) == worker[w].job
SaleOf(w) == worker[w].job.sale
Busy(s) == {w \in Worker : worker[w].at \in Working /\ worker[w].job.sale = s}
Holders(s) == {w \in Busy(s) : ~On(w, "taken") /\ ~On(w, "refused")}

(* SUNAT's verdict on s reaches its row.  A worker that failed will not    *)
(* read the row again.                                                     *)
Failing(s) == {w \in Busy(s) : On(w, "failed")}
Unread(s) == unseen' = IF Failing(s) = {} THEN unseen ELSE unseen \cup {s}

-----------------------------------------------------------------------------
(* EnqueueSendToSUNAT, after PrepareFiscalOperation and the quota: the     *)
(* claim and the transaction on the row; then the push, which sends a job  *)
(* also when the row was already waiting for one.                          *)
Reserve(s, resend) ==
  /\ pushes < MaxPushes /\ s \notin claim \cup api
  /\ document[s] # "accepted"
  /\ ~resend => pipeline[s] # "IN_FLIGHT"
  /\ pushes' = pushes + 1
  /\ claim' = claim \cup {s} /\ api' = api \cup {s}
  /\ pipeline' = [pipeline EXCEPT ![s] = "IN_FLIGHT"]
  /\ UNCHANGED <<lists, lock, worker, timers, document, stops, outcome, overran, unseen>>

PushFirst(s) ==
  /\ s \in api /\ api' = api \ {s}
  /\ main' = Put(main, [sale |-> s, attempt |-> 0])
  /\ UNCHANGED <<processing, dead, claim, lock, worker, timers, rows, bounds,
                 outcome, overran, unseen>>

PushFails(s) ==
  /\ s \in api /\ api' = api \ {s} /\ claim' = claim \ {s}
  /\ pipeline' = [pipeline EXCEPT ![s] = "FAILED"]
  /\ UNCHANGED <<lists, lock, worker, timers, document, bounds, outcome, overran, unseen>>

(* A claim outlives its push: it ends after 15 minutes.                    *)
ClaimExpires(s) ==
  /\ s \in claim \ api /\ claim' = claim \ {s}
  /\ UNCHANGED <<lists, lock, worker, timers, api, rows, bounds, outcome, overran, unseen>>

-----------------------------------------------------------------------------
(* workerLoop and processOne.                                              *)
Pop(w) ==
  /\ On(w, "polling")
  /\ \E j \in Job :
       /\ main[j] > 0
       /\ main' = Rem(main, j) /\ processing' = Put(processing, j)
       /\ Goto(w, "taken", j)
  /\ UNCHANGED <<dead, claim, lock, timers, api, rows, bounds, outcome, overran, unseen>>

AnyLock(w) == TRUE
Unlocked(w) == SaleOf(w) \notin lock

(* The lock is taken and the row set to PROCESSING, whatever it said.      *)
LockJob(w) ==
  /\ On(w, "taken") /\ Unlocked(w)
  /\ lock' = lock \cup {SaleOf(w)}
  /\ pipeline' = [pipeline EXCEPT ![SaleOf(w)] = "IN_FLIGHT"]
  /\ Goto(w, "sending", JobOf(w))
  /\ UNCHANGED <<lists, claim, timers, api, document, bounds, outcome, overran, unseen>>

(* The tenant's database is out of reach: an error without a look at the   *)
(* row.                                                                    *)
NoDatabase(w) ==
  /\ On(w, "taken") /\ Unlocked(w)
  /\ lock' = lock \cup {SaleOf(w)}
  /\ Goto(w, "failed", JobOf(w))
  /\ unseen' = IF document[SaleOf(w)] = "accepted" THEN unseen \cup {SaleOf(w)} ELSE unseen
  /\ UNCHANGED <<lists, claim, timers, api, rows, bounds, outcome, overran>>

(* Somebody else has the lock: the job leaves the list of the processing   *)
(* and, in another command, returns to the queue.                          *)
Refused(w) ==
  /\ On(w, "taken") /\ SaleOf(w) \in lock
  /\ processing' = Rem(processing, JobOf(w))
  /\ Goto(w, "refused", JobOf(w))
  /\ UNCHANGED <<main, dead, claim, lock, timers, api, rows, bounds, outcome, overran, unseen>>

PushBack(w) ==
  /\ On(w, "refused")
  /\ main' = Put(main, JobOf(w))
  /\ Loop(w, "polling")
  /\ UNCHANGED <<processing, dead, claim, lock, timers, api, rows, bounds,
                 outcome, overran, unseen>>

(* ProcessSendToSUNAT as a whole; FiscalEmission has its steps.  With the  *)
(* evidence in the row nothing is sent again.                              *)
SendSale(w) ==
  LET s == SaleOf(w)
      answer(at, pipe) == Goto(w, at, JobOf(w)) /\ pipeline' = [pipeline EXCEPT ![s] = pipe]
      sunat(doc) == document' = [document EXCEPT ![s] = doc]
  IN  /\ On(w, "sending")
      /\ \/ /\ document[s] = "accepted"
            /\ \/ answer("acking", pipeline[s])
               \/ answer("erred", "ACCEPTED")
               \/ answer("erred", pipeline[s])
            /\ UNCHANGED <<document, unseen>>
         \/ /\ document[s] # "accepted"
            /\ answer("acking", "ACCEPTED") /\ sunat("accepted") /\ Unread(s)
         \/ /\ document[s] # "accepted"
            /\ \/ answer("acking", "IN_FLIGHT") /\ sunat("sent")
               \/ answer("erred", "FAILED") /\ sunat("sent")
               \/ answer("erred", "FAILED") /\ sunat(document[s])
               \/ answer("erred", pipeline[s]) /\ sunat(document[s])
            /\ UNCHANGED unseen
      /\ UNCHANGED <<lists, claim, lock, timers, api, bounds, outcome, overran>>

(* After an error ProcessJob reads the row: with a final outcome there the *)
(* job is done.                                                            *)
AnyRow(w) == TRUE
NotFinal(w) == document[SaleOf(w)] # "accepted"

Reload(w) ==
  /\ On(w, "erred")
  /\ Goto(w, IF NotFinal(w) THEN "failed" ELSE "acking", JobOf(w))
  /\ UNCHANGED <<lists, claim, lock, timers, api, rows, bounds, outcome, overran, unseen>>

Unreadable(w) ==
  /\ On(w, "erred")
  /\ Goto(w, "failed", JobOf(w))
  /\ unseen' = IF NotFinal(w) THEN unseen ELSE unseen \cup {SaleOf(w)}
  /\ UNCHANGED <<lists, claim, lock, timers, api, rows, bounds, outcome, overran>>

(* scheduleRetry: out of the list, and into a timer of this process.       *)
Again(j) == [j EXCEPT !.attempt = @ + 1]
NoTimer(w) == timers
AfterFunc(w) == [timers EXCEPT ![w] = Put(@, Again(JobOf(w)))]

PastLast(j) == j.attempt >= BillingMaxRetries
Exhausted(j) == j.attempt + 1 >= BillingMaxRetries

Retry(w) ==
  /\ On(w, "failed") /\ ~Exhausted(JobOf(w))
  /\ processing' = Rem(processing, JobOf(w))
  /\ timers' = AfterFunc(w)
  /\ Goto(w, "unlocking", JobOf(w))
  /\ UNCHANGED <<main, dead, claim, lock, api, rows, bounds, outcome, overran, unseen>>

(* markJobDeadLetter, then pushDeadLetter, then the acknowledgement.       *)
MarkDead(w) ==
  /\ On(w, "failed") /\ Exhausted(JobOf(w))
  /\ pipeline' = [pipeline EXCEPT ![SaleOf(w)] = "DEAD_LETTER"]
  /\ Goto(w, "burying", JobOf(w))
  /\ UNCHANGED <<lists, claim, lock, timers, api, document, bounds, outcome, overran, unseen>>

Bury(w) ==
  /\ On(w, "burying")
  /\ dead' = Put(dead, Again(JobOf(w)))
  /\ processing' = Rem(processing, JobOf(w))
  /\ outcome' = [outcome EXCEPT ![SaleOf(w)] = "dead"]
  /\ Goto(w, "unlocking", JobOf(w))
  /\ UNCHANGED <<main, claim, lock, timers, api, rows, bounds, overran, unseen>>

Ack(w) ==
  /\ On(w, "acking")
  /\ processing' = Rem(processing, JobOf(w))
  /\ outcome' = [outcome EXCEPT ![SaleOf(w)] = "done"]
  /\ Goto(w, "unlocking", JobOf(w))
  /\ UNCHANGED <<main, dead, claim, lock, timers, api, rows, bounds, overran, unseen>>

(* The deferred Del: of the lock, whoever took it.                         *)
Unlock(w) ==
  LET s == SaleOf(w)
  IN  /\ On(w, "unlocking")
      /\ lock' = lock \ {s}
      /\ Loop(w, "polling")
      /\ overran' = IF Holders(s) = {w} THEN overran \ {s} ELSE overran
      /\ UNCHANGED <<lists, claim, timers, api, rows, bounds, outcome, unseen>>

TimerFires(w) ==
  /\ \E j \in Job :
       /\ timers[w][j] > 0
       /\ timers' = [timers EXCEPT ![w] = Rem(@, j)]
       /\ main' = Put(main, j)
  /\ UNCHANGED <<processing, dead, claim, lock, worker, api, rows, bounds,
                 outcome, overran, unseen>>

-----------------------------------------------------------------------------
(* The lock lasts DBBillingTimeout; the verdict of SUNAT may arrive at any *)
(* time by other ways.                                                     *)
LockExpires(s) ==
  /\ s \in lock /\ lock' = lock \ {s}
  /\ overran' = IF Holders(s) = {} THEN overran ELSE overran \cup {s}
  /\ UNCHANGED <<lists, claim, worker, timers, api, rows, bounds, outcome, unseen>>

Accept(s) ==
  /\ document[s] = "sent"
  /\ document' = [document EXCEPT ![s] = "accepted"]
  /\ pipeline' = [pipeline EXCEPT ![s] = "ACCEPTED"]
  /\ Unread(s)
  /\ UNCHANGED <<lists, claim, lock, worker, timers, api, bounds, outcome, overran>>

(* A replica stops, for a deployment or in a crash: its timers are gone.   *)
Timed(s, ws) == \E w \in ws, j \in Job : j.sale = s /\ timers[w][j] > 0
Listed(s) == \E j \in Job : j.sale = s /\ main[j] + processing[j] > 0
Held(s, ws) == \E w \in ws : /\ worker[w].at \notin Jobless \cup {"unlocking"}
                             /\ worker[w].job.sale = s
Queued(s, ws) == Listed(s) \/ Timed(s, ws) \/ Held(s, ws)

Stop(w) ==
  /\ stops < MaxStops /\ ~On(w, "down")
  /\ stops' = stops + 1
  /\ Loop(w, "down")
  /\ timers' = [timers EXCEPT ![w] = EmptyList]
  /\ outcome' = [s \in Sale |->
       IF Queued(s, Worker) /\ ~Queued(s, Worker \ {w}) THEN "lost" ELSE outcome[s]]
  /\ overran' = {s \in overran : Holders(s) \ {w} # {}}
  /\ UNCHANGED <<lists, claim, lock, api, rows, pushes, unseen>>

(* The server dies between the row and the push.                           *)
ForgetPush(s) ==
  /\ stops < MaxStops /\ stops' = stops + 1
  /\ s \in api /\ api' = api \ {s}
  /\ UNCHANGED <<lists, claim, lock, worker, timers, rows, pushes, outcome, overran, unseen>>

(* Start: recoverStuckProcessing first, in two commands for each job, and  *)
(* of every job in the list: those of replicas at work too.  It takes the  *)
(* oldest first until the list is empty or 30 seconds have passed; here,   *)
(* until those in the list at the start are gone (a bound: jobs that other *)
(* replicas add meanwhile could be taken too, and again, and again).       *)
StartUp(w) ==
  /\ On(w, "down")
  /\ worker' = [worker EXCEPT ![w] = [at |-> "recovering", left |-> processing]]
  /\ UNCHANGED <<lists, claim, lock, timers, api, rows, bounds, outcome, overran, unseen>>

Left(w) == {j \in Job : worker[w].left[j] > 0 /\ processing[j] > 0}

RecoverTake(w) ==
  /\ On(w, "recovering")
  /\ \E j \in Left(w) :
       /\ processing' = Rem(processing, j)
       /\ worker' = [worker EXCEPT ![w] =
            [at |-> "recovered", left |-> Rem(@.left, j), job |-> j]]
  /\ UNCHANGED <<main, dead, claim, lock, timers, api, rows, bounds, outcome, overran, unseen>>

RecoverPut(w) ==
  /\ On(w, "recovered")
  /\ main' = Put(main, JobOf(w))
  /\ worker' = [worker EXCEPT ![w] = [at |-> "recovering", left |-> @.left]]
  /\ UNCHANGED <<processing, dead, claim, lock, timers, api, rows, bounds,
                 outcome, overran, unseen>>

Recovered(w) ==
  /\ On(w, "recovering") /\ Left(w) = {}
  /\ Loop(w, "polling")
  /\ UNCHANGED <<lists, claim, lock, timers, api, rows, bounds, outcome, overran, unseen>>

-----------------------------------------------------------------------------
Step(w) ==
  \/ Pop(w) \/ LockJob(w) \/ NoDatabase(w) \/ Refused(w) \/ PushBack(w) \/ SendSale(w)
  \/ Reload(w) \/ Unreadable(w) \/ Retry(w) \/ MarkDead(w) \/ Bury(w) \/ Ack(w) \/ Unlock(w)
  \/ StartUp(w) \/ RecoverTake(w) \/ RecoverPut(w) \/ Recovered(w)

QueueNext ==
  \/ \E w \in Worker : Step(w) \/ TimerFires(w) \/ Stop(w)
  \/ \E s \in Sale : \/ \E resend \in BOOLEAN : Reserve(s, resend)
                     \/ PushFirst(s) \/ PushFails(s) \/ ForgetPush(s)
                     \/ ClaimExpires(s) \/ LockExpires(s) \/ Accept(s)

(* The loops and the timers run, a stopped replica starts again and Redis  *)
(* expires its keys.                                                       *)
QueueFair ==
  /\ \A w \in Worker : WF_queueVars(Step(w)) /\ WF_queueVars(TimerFires(w))
  /\ \A s \in Sale : WF_queueVars(LockExpires(s))

QueueSpec == QueueInit /\ [][QueueNext]_queueVars /\ QueueFair
-----------------------------------------------------------------------------
(* The type of every variable of the older queue.                          *)
QueueTypeOK ==
  /\ {main, processing, dead} \subseteq Lists
  /\ timers \in [Worker -> Lists]
  /\ {claim, lock, api, overran, unseen} \subseteq SUBSET Sale
  /\ worker \in [Worker -> Loops]
  /\ \A w \in Worker : worker[w].at \in Working => JobOf(w).attempt < BillingMaxRetries
  /\ pipeline \in [Sale -> Pipelines]
  /\ document \in [Sale -> {"none", "sent", "accepted"}]
  /\ pushes \in Nat /\ stops \in Nat
  /\ outcome \in [Sale -> {"none", "done", "dead", "lost"}]

(* Two replicas work on one sale at once only if the lock of one expired   *)
(* before it ended: not because a sale was enqueued twice, nor because a   *)
(* replica that starts takes back the job another is processing.           *)
OneHolder ==
  \A s \in Sale \ overran : \A w, v \in Holders(s) : w = v

(* A sale that SUNAT accepted is not left as DEAD_LETTER by the retries of *)
(* a job, unless it was accepted after the failing worker read the row, or *)
(* the worker could not read it.                                           *)
AcceptedNotDead ==
  \A s \in Sale \ unseen : document[s] = "accepted" => pipeline[s] # "DEAD_LETTER"

(* The queue as its users see it: jobs in either list, in a timer or in a  *)
(* worker's hands are queued.                                              *)
stage == [s \in Sale |-> IF Queued(s, Worker) THEN "queued" ELSE outcome[s]]
Jobs == INSTANCE JobQueue

(* The two lists, the timers, the locks and the recovery implement it:     *)
(* every queued sale ends, as done or dead, and none is lost but in a stop *)
(* of the process that had it in a timer or between two commands.          *)
JobsServed == Jobs!JobsSpec
=============================================================================
