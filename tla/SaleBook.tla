------------------------------ MODULE SaleBook ------------------------------
(***************************************************************************)
(* The sales of one tenant and what undoes them: notas de venta and their  *)
(* cancellation, the electronic document issued from a nota, credit notes  *)
(* and the effects of their acceptance, the money given back, and the      *)
(* prepayment that invoices deduct.  Most operations check first and write *)
(* in a transaction that does not check again.  A sale takes one unit of   *)
(* stock and is paid at once, in cash.                                     *)
(***************************************************************************)
EXTENDS Requests, Integers, FiniteSets, Sums

CONSTANTS
  Doc,        \* rows of TenantSale, before and after they exist
  Advance,    \* OriginalAmount of the prepayment voucher
  MaxReturns  \* bound: returns of the stock of a sale that a partial note adds to

ASSUME BookAssumption ==
  /\ IsFiniteSet(Doc) /\ None \notin Doc
  /\ Advance \in Nat /\ MaxReturns \in Nat \ {0}

VARIABLES
  kind,       \* NOTA_VENTA; FACTURA or BOLETA; a credit note, full (motive 01) or partial
  from,       \* IssuedFromNotaSaleID of an invoice, OriginalSaleID of a note
  saleStatus, \* TenantSale.Status
  accepted,   \* the documents SUNAT has accepted
  returned,   \* movements of stock that undo a sale, or part of one
  refunds,    \* cash movements that reverse the income of a sale (reversal_of_id),
              \* or bear the reference of a note ("NC/" and its number)
  opened,     \* the branch has an open cash session
  balance,    \* BalanceAmount of the voucher
  deducted,   \* what each invoice takes from it (TenantSalePrepaymentApplication)
  reversed,   \* the invoices whose application is reversed
  task,       \* what each request is doing
  outrun,     \* history: requests that read a row before another changed what it says
  raced       \* history: rows such a request wrote

bookVars == <<kind, from, saleStatus, accepted, returned, refunds, opened, balance,
              deducted, reversed, task, outrun, raced>>
docs == <<kind, from, saleStatus>>
voucher == <<balance, deducted, reversed>>
marks == <<outrun, raced>>

Kinds == {"NONE", "NOTA", "INVOICE", "FULL_NOTE", "PARTIAL_NOTE"}
Steps == {"idle", "selling", "issuing", "checked", "cancelling", "cancelled",
          "reversing", "restocking", "refunding"}
Resting == [at |-> "idle", doc |-> None, amount |-> 0, done |-> FALSE, note |-> FALSE]

BookInit ==
  /\ kind = [d \in Doc |-> "NONE"] /\ from = [d \in Doc |-> None]
  /\ saleStatus = [d \in Doc |-> "paid"] /\ accepted = {}
  /\ returned = [d \in Doc |-> 0] /\ refunds = [d \in Doc |-> 0]
  /\ opened = TRUE
  /\ balance = Advance /\ deducted = [d \in Doc |-> 0] /\ reversed = {}
  /\ task = [r \in Request |-> Resting]
  /\ outrun = {} /\ raced = {}

Is(r, at) == task[r].at = at
Start(r, at, d) == task' = [task EXCEPT ![r] = [Resting EXCEPT !.at = at, !.doc = d]]
Become(r, t) == task' = [task EXCEPT ![r] = t]

(* A row for a document to be.                                             *)
Blank(d) == kind[d] = "NONE"

(* The stock and the money of a sale are its own, unless it was issued     *)
(* from a nota: those stay with the nota.  A note has neither.             *)
Sales == {d \in Doc : kind[d] \in {"NOTA", "INVOICE"}}
Own(d) == from[d] = None

(* r writes d: who has read d is outrun now, and who was outrun writes     *)
(* raced.                                                                  *)
Writes(r, d) ==
  /\ outrun' = (outrun \cup {q \in Request : task[q].doc = d}) \ {r}
  /\ raced' = IF r \in outrun THEN raced \cup {d} ELSE raced
Finishes(r) == outrun' = outrun \ {r} /\ UNCHANGED raced

-----------------------------------------------------------------------------
(* SaleService.Create: the plan of the deduction is made before the        *)
(* transaction, which locks the voucher and looks at its balance again.    *)
SellBegin(r, k, n) ==
  /\ Is(r, "idle") /\ opened
  /\ n > 0 => k = "INVOICE" /\ n <= balance
  /\ Become(r, [Resting EXCEPT !.at = "selling", !.amount = n, !.note = k = "NOTA"])
  /\ UNCHANGED <<docs, accepted, returned, refunds, opened, voucher, marks>>

Planned(n) == TRUE
Covered(n) == n <= balance

SellEnd(r, d) ==
  LET n == task[r].amount
  IN  /\ Is(r, "selling") /\ Blank(d) /\ Covered(n)
      /\ kind' = [kind EXCEPT ![d] = IF task[r].note THEN "NOTA" ELSE "INVOICE"]
      /\ balance' = IF n <= balance THEN balance - n ELSE 0
      /\ deducted' = [deducted EXCEPT ![d] = n]
      /\ Become(r, Resting) /\ Finishes(r)
      /\ UNCHANGED <<from, saleStatus, accepted, returned, refunds, opened, reversed>>

AcceptDocument(d) ==
  /\ kind[d] \notin {"NONE", "NOTA"} /\ d \notin accepted
  /\ accepted' = accepted \cup {d}
  /\ UNCHANGED <<docs, returned, refunds, opened, voucher, task, marks>>

-----------------------------------------------------------------------------
(* IssueElectronicFromNota: an invoice with the lines and the payments of  *)
(* the nota, without its stock and its money.                              *)
Whatever(d) == TRUE
NoElectronic(d) == \A e \in Doc : ~(kind[e] = "INVOICE" /\ from[e] = d)

IssueBegin(r, d) ==
  /\ Is(r, "idle") /\ kind[d] = "NOTA" /\ saleStatus[d] # "cancelled"
  /\ NoElectronic(d)
  /\ Start(r, "issuing", d)
  /\ UNCHANGED <<docs, accepted, returned, refunds, opened, voucher, marks>>

IssueEnd(r, e) ==
  LET d == task[r].doc
  IN  /\ Is(r, "issuing") /\ Blank(e)
      /\ kind' = [kind EXCEPT ![e] = "INVOICE"]
      /\ from' = [from EXCEPT ![e] = d]
      /\ Become(r, Resting) /\ Writes(r, d)
      /\ UNCHANGED <<saleStatus, accepted, returned, refunds, opened, voucher>>

(* CreateCreditNoteAndVoidSale: nothing looks for an earlier note.         *)
CreateNote(d, n, k) ==
  /\ kind[d] = "INVOICE" /\ saleStatus[d] # "cancelled" /\ d \in accepted
  /\ Blank(n)
  /\ kind' = [kind EXCEPT ![n] = k] /\ from' = [from EXCEPT ![n] = d]
  /\ UNCHANGED <<saleStatus, accepted, returned, refunds, opened, voucher, task, marks>>

-----------------------------------------------------------------------------
(* CancelNotaVenta, and Cancel, which the acceptance of a full note calls  *)
(* for the original at every repetition: the status is read, with the      *)
(* electronic document in the first case, and then the transaction opens.  *)
(* CancelNotaVenta takes a credit note too: its type contains NOTA.        *)
AnyStatus(d) == TRUE
NotCancelled(d) == saleStatus[d] # "cancelled"

CancelNotaBegin(r, d) ==
  /\ Is(r, "idle") /\ kind[d] \in {"NOTA", "FULL_NOTE", "PARTIAL_NOTE"}
  /\ NotCancelled(d) /\ NoElectronic(d)
  /\ Start(r, "checked", d)
  /\ UNCHANGED <<docs, accepted, returned, refunds, opened, voucher, marks>>

FullNoteAccepted(r, n) ==
  /\ Is(r, "idle") /\ kind[n] = "FULL_NOTE" /\ n \in accepted
  /\ NotCancelled(from[n])
  /\ Become(r, [Resting EXCEPT !.at = "checked", !.doc = from[n], !.note = TRUE])
  /\ UNCHANGED <<docs, accepted, returned, refunds, opened, voucher, marks>>

(* Its first reading of the movements fixes what the transaction sees of   *)
(* them: whether there is money to give back, and a session to take it     *)
(* from.  The payments of an electronic document issued from a nota are    *)
(* copies, with no movement of their own to look for a reversal of.        *)
CancelRead(r) ==
  LET d == task[r].doc
  IN  /\ Is(r, "checked")
      /\ Become(r, [task[r] EXCEPT !.at = "cancelling",
                      !.done = ~opened \/ d \notin Sales \/ (Own(d) /\ refunds[d] > 0)])
      /\ UNCHANGED <<docs, accepted, returned, refunds, opened, voucher, marks>>

CancelEnd(r) ==
  LET d == task[r].doc
  IN  /\ Is(r, "cancelling")
      /\ saleStatus' = [saleStatus EXCEPT ![d] = "cancelled"]
      /\ returned' = [returned EXCEPT ![d] = IF Own(d) THEN @ + 1 ELSE @]
      /\ refunds' = [refunds EXCEPT ![d] = IF task[r].done THEN @ ELSE @ + 1]
      /\ IF task[r].note THEN Become(r, [Resting EXCEPT !.at = "cancelled", !.doc = d])
                         ELSE Become(r, Resting)
      /\ Writes(r, d)
      /\ UNCHANGED <<kind, from, accepted, opened, voucher>>

(* Then ReverseApplicationsForConsumerSaleTx in a transaction of its own.  *)
ReverseBegin(r) ==
  LET d == task[r].doc
  IN  /\ Is(r, "cancelled")
      /\ Become(r, IF deducted[d] > 0 /\ d \notin reversed
                   THEN [task[r] EXCEPT !.at = "reversing", !.amount = deducted[d]]
                   ELSE Resting)
      /\ outrun' = outrun \ {r}
      /\ UNCHANGED <<docs, accepted, returned, refunds, opened, voucher, raced>>

Added(n) == balance + n
Restored(n) == IF balance + n > Advance THEN Advance ELSE balance + n

ReverseEnd(r) ==
  LET d == task[r].doc
  IN  /\ Is(r, "reversing")
      /\ balance' = Restored(task[r].amount)
      /\ reversed' = reversed \cup {d}
      /\ Become(r, Resting) /\ Writes(r, d)
      /\ UNCHANGED <<docs, accepted, returned, refunds, opened, deducted>>

(* A partial note returns to the stock what its lines return of the sale,  *)
(* each time its acceptance is seen.                                       *)
PartialNoteAccepted(r, n) ==
  /\ Is(r, "idle") /\ kind[n] = "PARTIAL_NOTE" /\ n \in accepted
  /\ Start(r, "restocking", n)
  /\ UNCHANGED <<docs, accepted, returned, refunds, opened, voucher, marks>>

Restock(r) ==
  LET s == from[task[r].doc]
  IN  /\ Is(r, "restocking") /\ returned[s] < MaxReturns
      /\ returned' = [returned EXCEPT ![s] = IF Own(s) THEN @ + 1 ELSE @]
      /\ Become(r, Resting) /\ Finishes(r)
      /\ UNCHANGED <<docs, accepted, refunds, opened, voucher>>

-----------------------------------------------------------------------------
(* ApplyPendingRefund and ApplyPendingNoteRefund: a count of what was      *)
(* given back, then the movement.  They ask for an open session and for    *)
(* nothing of the sale: neither that it is cancelled nor that the note is  *)
(* accepted, whatever the list of the pending offers.  ApplyPendingRefund  *)
(* may also be given a movement that is no income of a sale.               *)
NotYet(d) == refunds[d] = 0

RefundBegin(r, d) ==
  /\ Is(r, "idle") /\ opened /\ NotYet(d)
  /\ \/ d \in Sales /\ Own(d)
     \/ kind[d] \in {"FULL_NOTE", "PARTIAL_NOTE"}
  /\ Start(r, "refunding", d)
  /\ UNCHANGED <<docs, accepted, returned, refunds, opened, voucher, marks>>

RefundEnd(r) ==
  LET d == task[r].doc
  IN  /\ Is(r, "refunding")
      /\ refunds' = [refunds EXCEPT ![d] = @ + 1]
      /\ Become(r, Resting) /\ Writes(r, d)
      /\ UNCHANGED <<docs, accepted, returned, opened, voucher>>

(* OpenSession, CloseSession.                                              *)
CashSession ==
  /\ opened' = ~opened
  /\ UNCHANGED <<docs, accepted, returned, refunds, voucher, task, marks>>

(* The request fails or its server stops: what it has not committed is     *)
(* undone.                                                                 *)
Abandon(r) ==
  /\ ~Is(r, "idle") /\ Become(r, Resting) /\ Finishes(r)
  /\ UNCHANGED <<docs, accepted, returned, refunds, opened, voucher>>

-----------------------------------------------------------------------------
BookNext ==
  \/ \E r \in Request :
       \/ CancelRead(r) \/ CancelEnd(r) \/ ReverseBegin(r) \/ ReverseEnd(r)
       \/ Restock(r) \/ RefundEnd(r) \/ Abandon(r)
       \/ \E d \in Doc :
            \/ SellEnd(r, d) \/ IssueBegin(r, d) \/ IssueEnd(r, d)
            \/ CancelNotaBegin(r, d) \/ FullNoteAccepted(r, d)
            \/ PartialNoteAccepted(r, d) \/ RefundBegin(r, d)
       \/ \E k \in {"NOTA", "INVOICE"}, n \in 0..Advance : SellBegin(r, k, n)
  \/ \E d \in Doc :
       \/ AcceptDocument(d)
       \/ \E n \in Doc, k \in {"FULL_NOTE", "PARTIAL_NOTE"} : CreateNote(d, n, k)
  \/ CashSession

BookSpec == BookInit /\ [][BookNext]_bookVars
-----------------------------------------------------------------------------
(* The type of every variable; the voucher's balance stays within what was *)
(* paid in advance.                                                        *)
BookTypeOK ==
  /\ kind \in [Doc -> Kinds] /\ from \in [Doc -> Doc \cup {None}]
  /\ saleStatus \in [Doc -> {"paid", "cancelled"}] /\ accepted \in SUBSET Doc
  /\ returned \in [Doc -> Nat] /\ refunds \in [Doc -> Nat]
  /\ opened \in BOOLEAN
  /\ balance \in 0..Advance /\ deducted \in [Doc -> 0..Advance] /\ reversed \in SUBSET Doc
  /\ task \in [Request -> [at : Steps, doc : Doc \cup {None}, amount : 0..Advance,
                           done : BOOLEAN, note : BOOLEAN]]
  /\ outrun \in SUBSET Request /\ raced \in SUBSET Doc

(* The partial notes of d that are accepted.                               *)
Noted(d) == {n \in accepted : kind[n] = "PARTIAL_NOTE" /\ from[n] = d}

(* The stock of a sale that no partial note touches comes back with its    *)
(* cancellation, once and not before, and the money of a sale or a note at *)
(* most once, however often acceptances are repeated and refunds asked     *)
(* for: unless one of the operations had read the row before another wrote *)
(* it.  The stock of a sale with an accepted partial note is left out: the *)
(* effects of the note put its units back once for each webhook or query   *)
(* that reports it as accepted, and nothing counts them (Restock).         *)
UndoneOnce ==
  \A d \in Doc \ raced :
    /\ Own(d) /\ Noted(d) = {} =>
         returned[d] = (IF saleStatus[d] = "cancelled" THEN 1 ELSE 0)
    /\ refunds[d] <= 1

(* A nota becomes one electronic document at most, and none when it is     *)
(* cancelled, with the same exception.                                     *)
ElectronicOnce ==
  \A d \in Doc \ raced : kind[d] = "NOTA" =>
    LET issued == {e \in Doc : kind[e] = "INVOICE" /\ from[e] = d}
    IN  /\ \A e, f \in issued : e = f
        /\ saleStatus[d] = "cancelled" => issued = {}

(* The balance of the voucher is what was paid in advance less what the    *)
(* invoices deduct and have not given back, with the same exception.       *)
VoucherAgrees ==
  raced = {} =>
    balance = Advance - SumOf(deducted, Doc \ reversed)
=============================================================================
