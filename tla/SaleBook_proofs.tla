--------------------------- MODULE SaleBook_proofs ---------------------------
(***************************************************************************)
(* Proofs about SaleBook, for any finite set of documents, any requests    *)
(* and any prepayment.  What undoes a sale is checked in one transaction   *)
(* and done in another: the inductive invariant says what a request may    *)
(* still rely on as long as nobody has written the row it read.            *)
(***************************************************************************)
EXTENDS SaleBook, Sums_proofs

SaleKinds == {"NOTA", "INVOICE"}
NoteKinds == {"FULL_NOTE", "PARTIAL_NOTE"}
Tasks == [at : Steps, doc : Doc \cup {None}, amount : 0..Advance,
          done : BOOLEAN, note : BOOLEAN]

(* What never changes again: a document that exists keeps its kind and its *)
(* origin, and a row not used yet has no trace.                            *)
Origins == \A d \in Doc :
  /\ kind[d] = "NONE" => /\ from[d] = None /\ saleStatus[d] = "paid"
                         /\ returned[d] = 0 /\ refunds[d] = 0
  /\ from[d] # None => kind[from[d]] \in SaleKinds
  /\ kind[d] \in {"FULL_NOTE", "PARTIAL_NOTE"} =>
       from[d] \in Doc /\ kind[from[d]] = "INVOICE"

Targets(r) ==
  LET d == task[r].doc
      at == task[r].at
  IN  /\ at \in {"checked", "cancelling", "cancelled", "reversing"} =>
           d \in Doc /\ kind[d] # "NONE"
      /\ at = "issuing" => d \in Doc /\ kind[d] = "NOTA"
      /\ at = "restocking" =>
           d \in Doc /\ kind[d] = "PARTIAL_NOTE" /\ d \in accepted
      /\ at = "refunding" =>
           d \in Doc /\ kind[d] # "NONE" /\ (Own(d) \/ kind[d] \in NoteKinds)

(* What r read and nobody has changed.                                     *)
Fresh(r) ==
  LET d == task[r].doc
      at == task[r].at
  IN  /\ at \in {"checked", "cancelling", "issuing"} =>
           /\ saleStatus[d] # "cancelled"
           /\ kind[d] = "NOTA" => NoElectronic(d)
      /\ at = "cancelling" /\ ~task[r].done =>
           d \in Sales /\ (Own(d) => refunds[d] = 0)
      /\ at = "refunding" => refunds[d] = 0

(* What is issued from a nota has no income of its own: its money is given *)
(* back with its cancellation, and only then.                              *)
CopyKeepsMoney ==
  \A d \in Sales \ raced :
    ~Own(d) /\ saleStatus[d] # "cancelled" => refunds[d] = 0

BookInv ==
  /\ BookTypeOK /\ Origins
  /\ \A r \in Request : Targets(r) /\ (r \notin outrun => Fresh(r))
  /\ UndoneOnce /\ CopyKeepsMoney /\ ElectronicOnce

(* Names that stand for groups of variables are always expanded.           *)
USE DEF docs, voucher, marks, bookVars

-----------------------------------------------------------------------------
(* The steps, one alternative per action, so that a proof can cite them.   *)
LEMMA BookSteps ==
  ASSUME BookNext
  PROVE  \/ \E r \in Request :
              \/ CancelRead(r) \/ CancelEnd(r) \/ ReverseBegin(r) \/ ReverseEnd(r)
              \/ Restock(r) \/ RefundEnd(r) \/ Abandon(r)
              \/ \E d \in Doc :
                   \/ SellEnd(r, d) \/ IssueBegin(r, d) \/ IssueEnd(r, d)
                   \/ CancelNotaBegin(r, d) \/ FullNoteAccepted(r, d)
                   \/ PartialNoteAccepted(r, d) \/ RefundBegin(r, d)
              \/ \E k \in {"NOTA", "INVOICE"}, n \in 0..Advance : SellBegin(r, k, n)
         \/ \E d \in Doc :
              \/ AcceptDocument(d)
              \/ \E n \in Doc, k \in {"FULL_NOTE", "PARTIAL_NOTE"} : CreateNote(d, n, k)
         \/ CashSession
BY DEF BookNext

LEMMA BookStart == ASSUME BookInit PROVE BookInv
<1> USE BookAssumption
<1>1. BookTypeOK
  <2>1. Resting \in Tasks BY DEF Resting, Tasks, Steps
  <2>2. task \in [Request -> Tasks] BY <2>1 DEF BookInit
  <2> QED BY <2>2 DEF BookInit, BookTypeOK, Tasks, Kinds
<1>2. Origins BY DEF BookInit, Origins
<1>3. \A r \in Request : Targets(r) /\ Fresh(r)
  BY DEF BookInit, Targets, Fresh, Resting
<1>4. UndoneOnce /\ CopyKeepsMoney /\ ElectronicOnce
  BY DEF BookInit, UndoneOnce, CopyKeepsMoney, ElectronicOnce, Sales
<1> QED BY <1>1, <1>2, <1>3, <1>4 DEF BookInv

LEMMA BecomeType ==
  ASSUME BookTypeOK, NEW r \in Request, NEW t \in Tasks, Become(r, t)
  PROVE  task' \in [Request -> Tasks]
BY DEF BookTypeOK, Become, Tasks

LEMMA RestingType == Resting \in Tasks
BY BookAssumption DEF Resting, Tasks, Steps

LEMMA StartType ==
  ASSUME BookTypeOK, NEW r \in Request, NEW at \in Steps, NEW d \in Doc, Start(r, at, d)
  PROVE  task' \in [Request -> Tasks]
<1>1. [Resting EXCEPT !.at = at, !.doc = d] \in Tasks
  <2>1. Resting \in [at : Steps, doc : Doc \cup {None}, amount : 0..Advance,
                     done : BOOLEAN, note : BOOLEAN]
    BY RestingType DEF Tasks
  <2> QED BY <2>1 DEF Tasks
<1> QED BY <1>1 DEF BookTypeOK, Start, Tasks

LEMMA WritesTypes ==
  ASSUME BookTypeOK, NEW r \in Request, NEW d \in Doc, Writes(r, d) \/ Finishes(r)
  PROVE  outrun' \in SUBSET Request /\ raced' \in SUBSET Doc
BY DEF BookTypeOK, Writes, Finishes

LEMMA Increment ==
  ASSUME NEW f \in [Doc -> Nat], NEW d \in Doc
  PROVE  [f EXCEPT ![d] = @ + 1] \in [Doc -> Nat]
<1>1. f[d] + 1 \in Nat OBVIOUS
<1> QED BY <1>1

LEMMA BookTypeStep == ASSUME BookInv, BookNext PROVE BookTypeOK'
<1> USE BookAssumption DEF BookInv
<1>0. /\ task \in [Request -> Tasks] /\ BookTypeOK
      /\ returned \in [Doc -> Nat] /\ refunds \in [Doc -> Nat]
      /\ \A r \in Request : task[r] \in Tasks /\ task[r].amount \in 0..Advance
  BY DEF BookTypeOK, Tasks
<1>1. ASSUME NEW r \in Request, CancelRead(r) PROVE BookTypeOK'
  <2>1. PICK b : Become(r, [task[r] EXCEPT !.at = "cancelling", !.done = b]) /\ b \in BOOLEAN
    BY <1>1 DEF CancelRead
  <2>2. [task[r] EXCEPT !.at = "cancelling", !.done = b] \in Tasks
    BY <1>0, <2>1 DEF Tasks, Steps
  <2>3. task' \in [Request -> Tasks] BY <1>0, <2>1, <2>2, BecomeType
  <2> QED BY <1>0, <1>1, <2>3 DEF CancelRead, BookTypeOK, Tasks
<1>2. ASSUME NEW r \in Request, CancelEnd(r) PROVE BookTypeOK'
  <2>1. PICK d \in Doc : d = task[r].doc BY <1>2 DEF CancelEnd, Is, Targets
  <2>2. task' \in [Request -> Tasks]
    <3>1. "cancelled" \in Steps BY DEF Steps
    <3>2. [Resting EXCEPT !.at = "cancelled", !.doc = d] \in Tasks
      BY <3>1, RestingType DEF Tasks
    <3> QED BY <1>0, <1>2, <2>1, <3>2, RestingType, BecomeType DEF CancelEnd
  <2>3. outrun' \in SUBSET Request /\ raced' \in SUBSET Doc
    BY <1>0, <1>2, <2>1, WritesTypes DEF CancelEnd
  <2>4. returned' \in [Doc -> Nat] /\ refunds' \in [Doc -> Nat]
    <3>1. /\ returned' = [returned EXCEPT ![d] = IF Own(d) THEN @ + 1 ELSE @]
          /\ refunds' = [refunds EXCEPT ![d] = IF task[r].done THEN @ ELSE @ + 1]
      BY <1>2, <2>1 DEF CancelEnd
    <3>2. /\ returned[d] \in Nat /\ returned[d] + 1 \in Nat
          /\ refunds[d] \in Nat /\ refunds[d] + 1 \in Nat
      BY <1>0
    <3>3. /\ returned' = returned \/ returned' = [returned EXCEPT ![d] = returned[d] + 1]
          /\ refunds' = refunds \/ refunds' = [refunds EXCEPT ![d] = refunds[d] + 1]
      BY <1>0, <3>1
    <3> QED BY <1>0, <3>2, <3>3
  <2> QED BY <1>0, <1>2, <2>1, <2>2, <2>3, <2>4 DEF CancelEnd, BookTypeOK, Tasks
<1>3. ASSUME NEW r \in Request, ReverseBegin(r) PROVE BookTypeOK'
  <2>1. PICK d \in Doc : d = task[r].doc BY <1>3 DEF ReverseBegin, Is, Targets
  <2>2. deducted[d] \in 0..Advance BY DEF BookTypeOK
  <2>3. [task[r] EXCEPT !.at = "reversing", !.amount = deducted[d]] \in Tasks
    BY <1>0, <2>2 DEF Tasks, Steps
  <2>4. task' \in [Request -> Tasks]
    BY <1>0, <1>3, <2>1, <2>3, RestingType, BecomeType DEF ReverseBegin
  <2> QED BY <1>0, <1>3, <2>4 DEF ReverseBegin, BookTypeOK, Tasks
<1>4. ASSUME NEW r \in Request, ReverseEnd(r) PROVE BookTypeOK'
  <2>1. PICK d \in Doc : d = task[r].doc BY <1>4 DEF ReverseEnd, Is, Targets
  <2>2. task' \in [Request -> Tasks] BY <1>0, <1>4, RestingType, BecomeType DEF ReverseEnd
  <2>3. outrun' \in SUBSET Request /\ raced' \in SUBSET Doc
    BY <1>0, <1>4, <2>1, WritesTypes DEF ReverseEnd
  <2>4. balance' \in 0..Advance
    BY <1>0, <1>4 DEF ReverseEnd, Restored, BookTypeOK
  <2>5. reversed' \in SUBSET Doc BY <1>4, <2>1 DEF ReverseEnd, BookTypeOK
  <2> QED BY <1>0, <1>4, <2>2, <2>3, <2>4, <2>5 DEF ReverseEnd, BookTypeOK, Tasks
<1>5. ASSUME NEW r \in Request, Restock(r) PROVE BookTypeOK'
  <2>1. PICK n \in Doc : n = from[task[r].doc]
    BY <1>5 DEF Restock, Is, Targets, Origins
  <2>2. task' \in [Request -> Tasks] BY <1>0, <1>5, RestingType, BecomeType DEF Restock
  <2>3. outrun' \in SUBSET Request /\ raced' \in SUBSET Doc
    BY <1>0, <1>5 DEF Restock, Finishes, BookTypeOK
  <2>4. returned' \in [Doc -> Nat]
    <3>1. returned' = returned \/ returned' = [returned EXCEPT ![n] = @ + 1]
      BY <1>0, <1>5, <2>1 DEF Restock
    <3> QED BY <1>0, <3>1, Increment
  <2> QED BY <1>0, <1>5, <2>2, <2>3, <2>4 DEF Restock, BookTypeOK, Tasks
<1>6. ASSUME NEW r \in Request, RefundEnd(r) PROVE BookTypeOK'
  <2>1. PICK d \in Doc : d = task[r].doc BY <1>6 DEF RefundEnd, Is, Targets
  <2>2. task' \in [Request -> Tasks] BY <1>0, <1>6, RestingType, BecomeType DEF RefundEnd
  <2>3. outrun' \in SUBSET Request /\ raced' \in SUBSET Doc
    BY <1>0, <1>6, <2>1, WritesTypes DEF RefundEnd
  <2>4. refunds' \in [Doc -> Nat] BY <1>0, <1>6, <2>1, Increment DEF RefundEnd
  <2> QED BY <1>0, <1>6, <2>2, <2>3, <2>4 DEF RefundEnd, BookTypeOK, Tasks
<1>7. ASSUME NEW r \in Request, Abandon(r) PROVE BookTypeOK'
  <2>1. task' \in [Request -> Tasks] BY <1>0, <1>7, RestingType, BecomeType DEF Abandon
  <2> QED BY <1>0, <1>7, <2>1 DEF Abandon, Finishes, BookTypeOK, Tasks
<1>8. ASSUME NEW r \in Request, NEW d \in Doc, SellEnd(r, d) PROVE BookTypeOK'
  <2>1. task' \in [Request -> Tasks] BY <1>0, <1>8, RestingType, BecomeType DEF SellEnd
  <2>2. balance' \in 0..Advance /\ deducted' \in [Doc -> 0..Advance]
    BY <1>0, <1>8 DEF SellEnd, BookTypeOK
  <2>3. kind' \in [Doc -> Kinds] BY <1>8 DEF SellEnd, BookTypeOK, Kinds
  <2> QED BY <1>0, <1>8, <2>1, <2>2, <2>3 DEF SellEnd, Finishes, BookTypeOK, Tasks
<1>9. ASSUME NEW r \in Request, NEW e \in Doc, IssueEnd(r, e) PROVE BookTypeOK'
  <2>1. PICK d \in Doc : d = task[r].doc BY <1>9 DEF IssueEnd, Is, Targets
  <2>2. task' \in [Request -> Tasks] BY <1>0, <1>9, RestingType, BecomeType DEF IssueEnd
  <2>3. outrun' \in SUBSET Request /\ raced' \in SUBSET Doc
    BY <1>0, <1>9, <2>1, WritesTypes DEF IssueEnd
  <2>4. kind' \in [Doc -> Kinds] /\ from' \in [Doc -> Doc \cup {None}]
    BY <1>9, <2>1 DEF IssueEnd, BookTypeOK, Kinds
  <2> QED BY <1>0, <1>9, <2>2, <2>3, <2>4 DEF IssueEnd, BookTypeOK, Tasks
<1>10. ASSUME NEW r \in Request, NEW d \in Doc,
              \/ IssueBegin(r, d) \/ CancelNotaBegin(r, d)
              \/ PartialNoteAccepted(r, d) \/ RefundBegin(r, d)
       PROVE BookTypeOK'
  <2>1. {"issuing", "checked", "restocking", "refunding"} \subseteq Steps BY DEF Steps
  <2>2. task' \in [Request -> Tasks]
    BY <1>0, <1>10, <2>1, StartType
       DEF IssueBegin, CancelNotaBegin, PartialNoteAccepted, RefundBegin
  <2>3. UNCHANGED <<docs, accepted, returned, refunds, opened, voucher, marks>>
    BY <1>10 DEF IssueBegin, CancelNotaBegin, PartialNoteAccepted, RefundBegin
  <2> QED BY <1>0, <2>2, <2>3 DEF BookTypeOK, Tasks
<1>11. ASSUME NEW r \in Request, NEW n \in Doc, FullNoteAccepted(r, n) PROVE BookTypeOK'
  <2>1. from[n] \in Doc BY <1>11 DEF FullNoteAccepted, Origins
  <2>2. [Resting EXCEPT !.at = "checked", !.doc = from[n], !.note = TRUE] \in Tasks
    BY <2>1, RestingType DEF Tasks, Steps
  <2>3. task' \in [Request -> Tasks] BY <1>0, <1>11, <2>2, BecomeType DEF FullNoteAccepted
  <2> QED BY <1>0, <1>11, <2>3 DEF FullNoteAccepted, BookTypeOK, Tasks
<1>12. ASSUME NEW r \in Request, NEW k \in {"NOTA", "INVOICE"}, NEW n \in 0..Advance,
              SellBegin(r, k, n)
       PROVE BookTypeOK'
  <2>1. (k = "NOTA") \in BOOLEAN OBVIOUS
  <2>2. [Resting EXCEPT !.at = "selling", !.amount = n, !.note = k = "NOTA"] \in Tasks
    BY <2>1, RestingType DEF Tasks, Steps
  <2>3. task' \in [Request -> Tasks] BY <1>0, <1>12, <2>2, BecomeType DEF SellBegin
  <2> QED BY <1>0, <1>12, <2>3 DEF SellBegin, BookTypeOK, Tasks
<1>13. ASSUME NEW d \in Doc, AcceptDocument(d) PROVE BookTypeOK'
  BY <1>0, <1>13 DEF AcceptDocument, BookTypeOK
<1>14. ASSUME NEW d \in Doc, NEW n \in Doc, NEW k \in {"FULL_NOTE", "PARTIAL_NOTE"},
              CreateNote(d, n, k)
       PROVE BookTypeOK'
  <2>1. kind' \in [Doc -> Kinds] /\ from' \in [Doc -> Doc \cup {None}]
    BY <1>14 DEF CreateNote, BookTypeOK, Kinds
  <2> QED BY <1>0, <1>14, <2>1 DEF CreateNote, BookTypeOK
<1>15. ASSUME CashSession PROVE BookTypeOK'
  BY <1>0, <1>15 DEF CashSession, BookTypeOK
<1> QED BY <1>1, <1>2, <1>3, <1>4, <1>5, <1>6, <1>7, <1>8, <1>9, <1>10, <1>11, <1>12,
           <1>13, <1>14, <1>15, BookSteps

-----------------------------------------------------------------------------
(* What is kept besides the types.                                         *)
Promises ==
  /\ Origins /\ UndoneOnce /\ CopyKeepsMoney /\ ElectronicOnce
  /\ \A r \in Request : Targets(r) /\ (r \notin outrun => Fresh(r))

LEMMA TargetStays ==
  ASSUME NEW q \in Request, Targets(q), task'[q] = task[q],
         \A d \in Doc : kind[d] # "NONE" => kind'[d] = kind[d] /\ from'[d] = from[d],
         accepted \subseteq accepted'
  PROVE  Targets(q)'
BY DEF Targets, NoteKinds, Own

LEMMA FreshStays ==
  ASSUME NEW q \in Request, Targets(q), Fresh(q), task'[q] = task[q],
         LET d == task[q].doc
         IN  d \in Doc /\ kind[d] # "NONE" =>
               /\ saleStatus'[d] = saleStatus[d] /\ refunds'[d] = refunds[d]
               /\ kind'[d] = kind[d] /\ from'[d] = from[d]
               /\ NoElectronic(d) => \A e \in Doc : ~(kind'[e] = "INVOICE" /\ from'[e] = d)
  PROVE  Fresh(q)'
<1> DEFINE d == task[q].doc
           at == task[q].at
<1>1. CASE at \in {"checked", "cancelling", "issuing"}
  <2>1. d \in Doc /\ kind[d] # "NONE" BY <1>1 DEF Targets
  <2>2. saleStatus[d] # "cancelled" /\ (kind[d] = "NOTA" => NoElectronic(d))
    BY <1>1 DEF Fresh
  <2>3. at = "cancelling" /\ ~task[q].done => d \in Sales /\ (Own(d) => refunds[d] = 0)
    BY DEF Fresh
  <2> QED BY <1>1, <2>1, <2>2, <2>3 DEF Fresh, NoElectronic, Sales, Own
<1>2. CASE at = "refunding"
  <2>1. d \in Doc /\ kind[d] # "NONE" BY <1>2 DEF Targets
  <2> QED BY <1>2, <2>1 DEF Fresh
<1> QED BY <1>1, <1>2 DEF Fresh

(* Steps that write no row of a sale.                                      *)
LEMMA QuietRows ==
  ASSUME Promises, NEW r,
         UNCHANGED <<kind, from, saleStatus, returned, refunds>>, raced \subseteq raced',
         accepted \subseteq accepted', accepted' \subseteq Doc,
         \A q \in Request \ {r} : task'[q] = task[q] /\ (q \in outrun => q \in outrun'),
         r \in Request => Targets(r)' /\ (r \notin outrun' => Fresh(r)')
  PROVE  Promises'
<1>1. Origins' BY DEF Promises, Origins
<1>2. UndoneOnce' BY DEF Promises, UndoneOnce, Noted, Own
<1>3. ElectronicOnce' /\ CopyKeepsMoney'
  BY DEF Promises, ElectronicOnce, CopyKeepsMoney, Sales, Own
<1>4. ASSUME NEW q \in Request, q # r PROVE Targets(q)' /\ (q \notin outrun' => Fresh(q)')
  <2>1. Targets(q) /\ (q \notin outrun => Fresh(q)) BY DEF Promises
  <2>2. Targets(q)' BY <1>4, <2>1, TargetStays
  <2>3. q \notin outrun' => Fresh(q)' BY <1>4, <2>1, FreshStays DEF NoElectronic
  <2> QED BY <2>2, <2>3
<1> QED BY <1>1, <1>2, <1>3, <1>4 DEF Promises

(* Requests at rest rely on nothing.                                       *)
LEMMA AtRest ==
  ASSUME NEW r \in Request,
         task'[r].at \in {"idle", "selling"}
  PROVE  Targets(r)' /\ Fresh(r)'
BY DEF Targets, Fresh

(* Those who have read d are outrun by who writes it.                      *)
LEMMA WritesOutruns ==
  ASSUME NEW r \in Request, NEW d, Writes(r, d), NEW q \in Request \ {r}, q \notin outrun'
  PROVE  q \notin outrun /\ task[q].doc # d
BY DEF Writes

(* A new row: its document has no trace yet, and nobody works on it.       *)
LEMMA NewRow ==
  ASSUME BookInv, NEW e \in Doc, kind[e] = "NONE",
         NEW k \in Kinds \ {"NONE"}, kind' = [kind EXCEPT ![e] = k],
         NEW f \in Doc \cup {None}, from' = [from EXCEPT ![e] = f],
         UNCHANGED <<saleStatus, returned, refunds, accepted>>, raced \subseteq raced',
         f # None => kind[f] \in SaleKinds /\ k # "NOTA",
         k \in {"FULL_NOTE", "PARTIAL_NOTE"} => f \in Doc /\ kind[f] = "INVOICE",
         k = "INVOICE" /\ f \in Doc \ raced' => saleStatus[f] = "paid" /\ NoElectronic(f)
  PROVE  Origins' /\ UndoneOnce' /\ CopyKeepsMoney' /\ ElectronicOnce'
<1>0. /\ Origins /\ UndoneOnce /\ CopyKeepsMoney /\ ElectronicOnce
      /\ kind \in [Doc -> Kinds] /\ from \in [Doc -> Doc \cup {None}]
      /\ kind'[e] = k /\ from'[e] = f /\ f # e
      /\ \A x \in Doc \ {e} : kind'[x] = kind[x] /\ from'[x] = from[x]
      /\ \A x \in Doc : from[x] # e
  BY BookAssumption DEF BookInv, BookTypeOK, Origins, SaleKinds
<1>1. Origins' BY <1>0, BookAssumption DEF Origins, SaleKinds
<1>2. ASSUME NEW x \in Doc, x \notin raced'
      PROVE  /\ Own(x)' /\ Noted(x)' = {} =>
                  returned'[x] = (IF saleStatus'[x] = "cancelled" THEN 1 ELSE 0)
             /\ refunds'[x] <= 1
             /\ x \in Sales' /\ ~Own(x)' /\ saleStatus'[x] # "cancelled" => refunds'[x] = 0
  <2>1. x \notin raced BY <1>2
  <2>2. CASE x = e BY <1>0, <2>1, <2>2 DEF Origins
  <2>3. CASE x # e
    <3>1. (x \in Sales' <=> x \in Sales) /\ (Own(x)' <=> Own(x))
      BY <1>0, <2>3 DEF Sales, Own
    <3>2. Noted(x)' = {} => Noted(x) = {}
      BY <1>0 DEF Noted, BookInv, BookTypeOK
    <3> QED BY <1>0, <2>1, <3>1, <3>2 DEF UndoneOnce, CopyKeepsMoney
  <2> QED BY <2>2, <2>3
<1>3. UndoneOnce' /\ CopyKeepsMoney' BY <1>2 DEF UndoneOnce, CopyKeepsMoney, Sales
<1>4. ASSUME NEW x \in Doc, x \notin raced', kind'[x] = "NOTA"
      PROVE LET issued == {y \in Doc : kind'[y] = "INVOICE" /\ from'[y] = x}
            IN  /\ \A y, z \in issued : y = z
                /\ saleStatus'[x] = "cancelled" => issued = {}
  <2>1. CASE x = e BY <1>0, <2>1
  <2>2. CASE x # e
    <3>1. x \notin raced /\ kind[x] = "NOTA" BY <1>0, <1>4, <2>2
    <3>2. LET issued == {y \in Doc : kind[y] = "INVOICE" /\ from[y] = x}
          IN  /\ \A y, z \in issued : y = z
              /\ saleStatus[x] = "cancelled" => issued = {}
      BY <1>0, <3>1 DEF ElectronicOnce
    <3>3. CASE k = "INVOICE" /\ f = x
      <4>1. saleStatus[x] = "paid" /\ NoElectronic(x) BY <1>4, <3>3
      <4> QED BY <1>0, <4>1 DEF NoElectronic
    <3>4. CASE ~(k = "INVOICE" /\ f = x)
      <4>1. ASSUME NEW y \in Doc PROVE kind'[y] = "INVOICE" /\ from'[y] = x
                                         <=> kind[y] = "INVOICE" /\ from[y] = x
        BY <1>0, <3>4
      <4> QED BY <3>2, <4>1
    <3> QED BY <3>3, <3>4
  <2> QED BY <2>1, <2>2
<1>5. ElectronicOnce' BY <1>4 DEF ElectronicOnce
<1> QED BY <1>1, <1>3, <1>5

LEMMA NewRowRequests ==
  ASSUME BookInv, NEW e \in Doc, kind[e] = "NONE",
         NEW k \in Kinds \ {"NONE"}, kind' = [kind EXCEPT ![e] = k],
         NEW f \in Doc \cup {None}, from' = [from EXCEPT ![e] = f],
         UNCHANGED <<saleStatus, refunds, accepted>>,
         NEW q \in Request, task'[q] = task[q], q \in outrun => q \in outrun',
         q \in outrun' \/ k # "INVOICE" \/ f \notin Doc \/ task[q].doc # f
  PROVE  Targets(q)' /\ (q \notin outrun' => Fresh(q)')
<1>0. /\ Targets(q) /\ (q \notin outrun => Fresh(q))
      /\ kind \in [Doc -> Kinds] /\ from \in [Doc -> Doc \cup {None}]
  BY DEF BookInv, BookTypeOK
<1>1. Targets(q)' BY <1>0, TargetStays
<1>2. ASSUME q \notin outrun', task[q].doc \in Doc, kind[task[q].doc] # "NONE",
             NoElectronic(task[q].doc), NEW y \in Doc
      PROVE  ~(kind'[y] = "INVOICE" /\ from'[y] = task[q].doc)
  BY <1>0, <1>2 DEF NoElectronic
<1>3. q \notin outrun' => Fresh(q)' BY <1>0, <1>2, FreshStays
<1> QED BY <1>1, <1>3

LEMMA PromisesStep == ASSUME BookInv, BookNext PROVE Promises'
<1> USE BookAssumption, NoneIsNoRequest
<1>0. /\ Promises /\ task \in [Request -> Tasks]
      /\ kind \in [Doc -> Kinds] /\ from \in [Doc -> Doc \cup {None}]
      /\ saleStatus \in [Doc -> {"paid", "cancelled"}]
      /\ returned \in [Doc -> Nat] /\ refunds \in [Doc -> Nat]
      /\ raced \subseteq Doc /\ accepted \subseteq Doc
  BY DEF BookInv, Promises, BookTypeOK, Tasks
<1>a. \A r \in Request : Targets(r) /\ (r \notin outrun => Fresh(r)) BY <1>0 DEF Promises
<1>b. Origins /\ UndoneOnce /\ CopyKeepsMoney /\ ElectronicOnce BY <1>0 DEF Promises
<1>1. ASSUME NEW r \in Request, NEW t, Become(r, t), t.at \in {"idle", "selling"},
             UNCHANGED <<kind, from, saleStatus, returned, refunds, accepted>>,
             raced \subseteq raced', outrun \ {r} \subseteq outrun'
      PROVE Promises'
  <2>1. task'[r] = t /\ \A q \in Request \ {r} : task'[q] = task[q]
    BY <1>0, <1>1 DEF Become
  <2>2. Targets(r)' /\ Fresh(r)' BY <1>1, <2>1, AtRest
  <2> QED BY <1>0, <1>1, <2>1, <2>2, QuietRows
<1>2. ASSUME NEW r \in Request, CancelRead(r) PROVE Promises'
  <2> DEFINE d == task[r].doc
             b == ~opened \/ d \notin Sales \/ (Own(d) /\ refunds[d] > 0)
  <2>1. Become(r, [task[r] EXCEPT !.at = "cancelling", !.done = b]) BY <1>2 DEF CancelRead
  <2>2. /\ task'[r].at = "cancelling" /\ task'[r].doc = task[r].doc /\ task'[r].done = b
        /\ \A q \in Request \ {r} : task'[q] = task[q]
    BY <1>0, <2>1 DEF Become, Tasks
  <2>3. task[r].at = "checked" /\ UNCHANGED <<docs, accepted, returned, refunds, marks>>
    BY <1>2 DEF CancelRead, Is
  <2>4. Targets(r)' BY <1>a, <2>2, <2>3 DEF Targets
  <2>6. ~b => d \in Sales /\ (Own(d) => refunds[d] = 0) BY <1>0 DEF Sales
  <2>7. ~task'[r].done => d \in Sales' /\ (Own(d)' => refunds'[d] = 0)
    BY <2>2, <2>3, <2>6 DEF Sales, Own
  <2>5. r \notin outrun' => Fresh(r)' BY <1>a, <2>2, <2>3, <2>7 DEF Fresh, NoElectronic
  <2> HIDE DEF d, b
  <2> QED BY <1>0, <2>2, <2>3, <2>4, <2>5, QuietRows
<1>3. ASSUME NEW r \in Request, ReverseBegin(r) PROVE Promises'
  <2>1. /\ task[r].at = "cancelled" /\ UNCHANGED <<docs, accepted, returned, refunds, raced>>
        /\ outrun' = outrun \ {r}
    BY <1>3 DEF ReverseBegin, Is
  <2>2. CASE Become(r, Resting) BY <1>1, <2>1, <2>2 DEF Resting
  <2>3. CASE Become(r, [task[r] EXCEPT !.at = "reversing", !.amount = deducted[task[r].doc]])
    <3>1. /\ task'[r].at = "reversing" /\ task'[r].doc = task[r].doc
          /\ \A q \in Request \ {r} : task'[q] = task[q]
      BY <1>0, <2>3 DEF Become, Tasks
    <3>2. Targets(r)' /\ Fresh(r)' BY <1>a, <2>1, <3>1 DEF Targets, Fresh
    <3> QED BY <1>0, <2>1, <3>1, <3>2, QuietRows
  <2> QED BY <1>3, <2>2, <2>3 DEF ReverseBegin
<1>4. ASSUME NEW r \in Request, ReverseEnd(r) \/ Abandon(r) PROVE Promises'
  <2>1. /\ Become(r, Resting) /\ UNCHANGED <<docs, accepted, returned, refunds>>
        /\ raced \subseteq raced' /\ outrun \ {r} \subseteq outrun'
    BY <1>4 DEF ReverseEnd, Abandon, Writes, Finishes
  <2> QED BY <1>1, <2>1 DEF Resting
<1>5. ASSUME NEW r \in Request, NEW k \in {"NOTA", "INVOICE"}, NEW n \in 0..Advance,
             SellBegin(r, k, n)
      PROVE Promises'
  <2>1. Become(r, [Resting EXCEPT !.at = "selling", !.amount = n, !.note = k = "NOTA"])
    BY <1>5 DEF SellBegin
  <2>2. UNCHANGED <<docs, accepted, returned, refunds, marks>> BY <1>5 DEF SellBegin
  <2> QED BY <1>1, <2>1, <2>2 DEF Resting
<1>6. ASSUME (\E d \in Doc : AcceptDocument(d)) \/ CashSession PROVE Promises'
  <2>1. /\ UNCHANGED <<docs, returned, refunds, marks, task>>
        /\ accepted \subseteq accepted' /\ accepted' \subseteq Doc
    BY <1>0, <1>6 DEF AcceptDocument, CashSession
  <2> QED BY <1>0, <2>1, QuietRows
<1>7. ASSUME NEW r \in Request, NEW d \in Doc,
             \/ IssueBegin(r, d) \/ CancelNotaBegin(r, d)
             \/ PartialNoteAccepted(r, d) \/ RefundBegin(r, d)
      PROVE Promises'
  <2>1. UNCHANGED <<docs, accepted, returned, refunds, marks>>
    BY <1>7 DEF IssueBegin, CancelNotaBegin, PartialNoteAccepted, RefundBegin
  <2>2. PICK at \in {"issuing", "checked", "restocking", "refunding"} : Start(r, at, d)
    BY <1>7 DEF IssueBegin, CancelNotaBegin, PartialNoteAccepted, RefundBegin
  <2>3. /\ task'[r].at = at /\ task'[r].doc = d
        /\ \A q \in Request \ {r} : task'[q] = task[q]
    BY <1>0, <2>2 DEF Start, Resting
  <2>4. Targets(r)' /\ Fresh(r)'
    <3>1. CASE IssueBegin(r, d)
      <4>1. task'[r].at = "issuing"
        BY <1>0, <3>1 DEF IssueBegin, Start, Resting
      <4> QED BY <2>1, <2>3, <3>1, <4>1 DEF IssueBegin, Targets, Fresh, NoElectronic
    <3>2. CASE CancelNotaBegin(r, d)
      <4>1. task'[r].at = "checked"
        BY <1>0, <3>2 DEF CancelNotaBegin, Start, Resting
      <4> QED BY <2>1, <2>3, <3>2, <4>1
              DEF CancelNotaBegin, NotCancelled, Targets, Fresh, NoElectronic
    <3>3. CASE PartialNoteAccepted(r, d)
      <4>1. task'[r].at = "restocking"
        BY <1>0, <3>3 DEF PartialNoteAccepted, Start, Resting
      <4> QED BY <2>1, <2>3, <3>3, <4>1 DEF PartialNoteAccepted, Targets, Fresh
    <3>4. CASE RefundBegin(r, d)
      <4>1. task'[r].at = "refunding"
        BY <1>0, <3>4 DEF RefundBegin, Start, Resting
      <4> QED BY <2>1, <2>3, <3>4, <4>1 DEF RefundBegin, NotYet, Targets, Fresh, Sales, Own, NoteKinds
    <3> QED BY <1>7, <3>1, <3>2, <3>3, <3>4
  <2> QED BY <1>0, <2>1, <2>3, <2>4, QuietRows
<1>8. ASSUME NEW r \in Request, NEW n \in Doc, FullNoteAccepted(r, n) PROVE Promises'
  <2>1. UNCHANGED <<docs, accepted, returned, refunds, marks>> BY <1>8 DEF FullNoteAccepted
  <2>2. /\ kind[n] = "FULL_NOTE" /\ saleStatus[from[n]] # "cancelled"
        /\ from[n] \in Doc /\ kind[from[n]] = "INVOICE"
    BY <1>b, <1>8 DEF FullNoteAccepted, NotCancelled, Origins
  <2>3. /\ task'[r].at = "checked" /\ task'[r].doc = from[n]
        /\ \A q \in Request \ {r} : task'[q] = task[q]
    BY <1>0, <1>8 DEF FullNoteAccepted, Become, Resting
  <2>4. Targets(r)' /\ Fresh(r)' BY <2>1, <2>2, <2>3 DEF Targets, Fresh
  <2> QED BY <1>0, <2>1, <2>3, <2>4, QuietRows
<1>9. ASSUME NEW r \in Request, CancelEnd(r) PROVE Promises'
  <2>1. PICK d \in Doc : d = task[r].doc /\ kind[d] # "NONE" /\ task[r].at = "cancelling"
    BY <1>a, <1>9 DEF CancelEnd, Is, Targets
  <2>2. /\ UNCHANGED <<kind, from, accepted>>
        /\ saleStatus' = [saleStatus EXCEPT ![d] = "cancelled"]
        /\ returned' = [returned EXCEPT ![d] = IF Own(d) THEN @ + 1 ELSE @]
        /\ refunds' = [refunds EXCEPT ![d] = IF task[r].done THEN @ ELSE @ + 1]
        /\ Writes(r, d)
    BY <1>9, <2>1 DEF CancelEnd
  <2>3. /\ \A q \in Request \ {r} : task'[q] = task[q]
        /\ task'[r].at \in {"idle", "cancelled"}
        /\ task'[r].at = "cancelled" => task'[r].doc = d
    <3>1. \/ Become(r, [Resting EXCEPT !.at = "cancelled", !.doc = d])
          \/ Become(r, Resting)
      BY <1>9, <2>1 DEF CancelEnd
    <3>2. CASE Become(r, Resting) BY <1>0, <3>2 DEF Become, Resting
    <3>3. CASE Become(r, [Resting EXCEPT !.at = "cancelled", !.doc = d])
      <4>1. /\ \A q \in Request \ {r} : task'[q] = task[q]
            /\ task'[r] = [Resting EXCEPT !.at = "cancelled", !.doc = d]
        BY <1>0, <3>3 DEF Become
      <4>2. task'[r].at = "cancelled" /\ task'[r].doc = d BY <4>1 DEF Resting
      <4> QED BY <4>1, <4>2
    <3> QED BY <3>1, <3>2, <3>3
  <2>4. raced \subseteq raced' /\ (r \in outrun => d \in raced') BY <2>2 DEF Writes
  <2>5. r \notin outrun => /\ saleStatus[d] = "paid" /\ (kind[d] = "NOTA" => NoElectronic(d))
                           /\ ~task[r].done => d \in Sales /\ (Own(d) => refunds[d] = 0)
    BY <1>0, <1>a, <2>1 DEF Fresh
  <2>6. Origins' BY <1>0, <1>b, <2>1, <2>2 DEF Origins
  <2>7. ASSUME NEW x \in Doc, x \notin raced'
        PROVE  /\ Own(x)' /\ Noted(x)' = {} =>
                    returned'[x] = (IF saleStatus'[x] = "cancelled" THEN 1 ELSE 0)
               /\ refunds'[x] <= 1
               /\ x \in Sales' /\ ~Own(x)' /\ saleStatus'[x] # "cancelled" => refunds'[x] = 0
    <3>1. /\ x \notin raced /\ (Own(x)' <=> Own(x)) /\ (x \in Sales' <=> x \in Sales)
          /\ Noted(x)' = Noted(x)
      BY <2>2, <2>4, <2>7 DEF Sales, Own, Noted
    <3>2. /\ Own(x) /\ Noted(x) = {} =>
               returned[x] = (IF saleStatus[x] = "cancelled" THEN 1 ELSE 0)
          /\ refunds[x] <= 1
          /\ x \in Sales /\ ~Own(x) /\ saleStatus[x] # "cancelled" => refunds[x] = 0
      BY <1>b, <3>1 DEF UndoneOnce, CopyKeepsMoney
    <3>3. CASE x # d
      <4>1. saleStatus'[x] = saleStatus[x] /\ returned'[x] = returned[x] /\ refunds'[x] = refunds[x]
        BY <1>0, <2>2, <3>3
      <4> QED BY <3>1, <3>2, <4>1
    <3>4. CASE x = d
      <4>1. /\ saleStatus[d] = "paid"
            /\ ~task[r].done => d \in Sales /\ (Own(d) => refunds[d] = 0)
        BY <2>4, <2>5, <2>7, <3>4
      <4>2. refunds[d] \in Nat /\ refunds[d] <= 1 /\ (~task[r].done => refunds[d] = 0)
        BY <1>0, <3>2, <3>4, <4>1
      <4>3. Own(d) /\ Noted(d) = {} => returned[d] = 0 BY <3>2, <3>4, <4>1
      <4>4. saleStatus'[d] = "cancelled" BY <1>0, <2>2
      <4>5. Own(d) /\ Noted(d) = {} => returned'[d] = 1 BY <1>0, <2>2, <4>3
      <4>6. refunds'[d] <= 1 BY <1>0, <2>2, <4>2
      <4> QED BY <3>1, <3>4, <4>4, <4>5, <4>6
    <3> QED BY <3>3, <3>4
  <2>8. UndoneOnce' /\ CopyKeepsMoney' BY <2>7 DEF UndoneOnce, CopyKeepsMoney, Sales
  <2>9. ElectronicOnce'
    <3>1. ASSUME NEW x \in Doc, x \notin raced', kind'[x] = "NOTA"
          PROVE LET issued == {e \in Doc : kind'[e] = "INVOICE" /\ from'[e] = x}
                IN  /\ \A e, f \in issued : e = f
                    /\ saleStatus'[x] = "cancelled" => issued = {}
      <4>1. x \notin raced /\ kind[x] = "NOTA" BY <2>2, <2>4, <3>1
      <4>2. LET issued == {e \in Doc : kind[e] = "INVOICE" /\ from[e] = x}
            IN  /\ \A e, f \in issued : e = f
                /\ saleStatus[x] = "cancelled" => issued = {}
        BY <1>b, <4>1 DEF ElectronicOnce
      <4>3. CASE x # d BY <1>0, <2>2, <4>2, <4>3
      <4>4. CASE x = d
        <5>1. NoElectronic(d) BY <2>4, <2>5, <3>1, <4>1, <4>4
        <5> QED BY <2>2, <4>4, <5>1 DEF NoElectronic
      <4> QED BY <4>3, <4>4
    <3> QED BY <3>1 DEF ElectronicOnce
  <2>10. ASSUME NEW q \in Request PROVE Targets(q)' /\ (q \notin outrun' => Fresh(q)')
    <3>1. CASE q = r
      BY <2>1, <2>2, <2>3, <3>1 DEF Targets, Fresh
    <3>2. CASE q # r
      <4>1. Targets(q)' BY <1>a, <2>2, <2>3, <3>2, TargetStays
      <4>2. ASSUME q \notin outrun' PROVE Fresh(q)'
        <5>1. q \notin outrun /\ task[q].doc # d BY <2>2, <3>2, <4>2, WritesOutruns
        <5> QED BY <1>0, <1>a, <2>2, <2>3, <3>2, <5>1, FreshStays DEF NoElectronic
      <4> QED BY <4>1, <4>2
    <3> QED BY <3>1, <3>2
  <2> QED BY <2>6, <2>8, <2>9, <2>10 DEF Promises
<1>10. ASSUME NEW r \in Request, RefundEnd(r) PROVE Promises'
  <2>1. PICK d \in Doc : /\ d = task[r].doc /\ kind[d] # "NONE" /\ task[r].at = "refunding"
                         /\ Own(d) \/ kind[d] \in NoteKinds
    BY <1>a, <1>10 DEF RefundEnd, Is, Targets
  <2>2. /\ UNCHANGED <<kind, from, saleStatus, returned, accepted>>
        /\ refunds' = [refunds EXCEPT ![d] = @ + 1]
        /\ Writes(r, d)
    BY <1>10, <2>1 DEF RefundEnd
  <2>3. /\ \A q \in Request \ {r} : task'[q] = task[q]
        /\ task'[r].at = "idle"
    BY <1>0, <1>10 DEF RefundEnd, Become, Resting
  <2>4. raced \subseteq raced' /\ (r \in outrun => d \in raced') BY <2>2 DEF Writes
  <2>5. r \notin outrun => refunds[d] = 0
    BY <1>a, <2>1 DEF Fresh
  <2>6. Origins' BY <1>0, <1>b, <2>1, <2>2 DEF Origins
  <2>7. ASSUME NEW x \in Doc, x \notin raced'
        PROVE  /\ Own(x)' /\ Noted(x)' = {} =>
                    returned'[x] = (IF saleStatus'[x] = "cancelled" THEN 1 ELSE 0)
               /\ refunds'[x] <= 1
               /\ x \in Sales' /\ ~Own(x)' /\ saleStatus'[x] # "cancelled" => refunds'[x] = 0
    <3>1. /\ x \notin raced /\ (Own(x)' <=> Own(x)) /\ (x \in Sales' <=> x \in Sales)
          /\ Noted(x)' = Noted(x)
      BY <2>2, <2>4, <2>7 DEF Sales, Own, Noted
    <3>2. /\ Own(x) /\ Noted(x) = {} =>
               returned[x] = (IF saleStatus[x] = "cancelled" THEN 1 ELSE 0)
          /\ refunds[x] <= 1
          /\ x \in Sales /\ ~Own(x) /\ saleStatus[x] # "cancelled" => refunds[x] = 0
      BY <1>b, <3>1 DEF UndoneOnce, CopyKeepsMoney
    <3>3. CASE x # d
      <4>1. refunds'[x] = refunds[x] BY <1>0, <2>2, <3>3
      <4> QED BY <2>2, <3>1, <3>2, <4>1
    <3>4. CASE x = d
      <4>1. refunds[d] = 0 BY <2>4, <2>5, <2>7, <3>4
      <4>2. refunds'[d] = 1 BY <1>0, <2>2, <4>1
      <4>3. d \in Sales => Own(d) BY <2>1 DEF NoteKinds, Sales
      <4> QED BY <2>2, <3>1, <3>2, <3>4, <4>2, <4>3
    <3> QED BY <3>3, <3>4
  <2>8. UndoneOnce' /\ CopyKeepsMoney' BY <2>7 DEF UndoneOnce, CopyKeepsMoney, Sales
  <2>9. ElectronicOnce' BY <1>b, <2>2, <2>4 DEF ElectronicOnce
  <2>10. ASSUME NEW q \in Request PROVE Targets(q)' /\ (q \notin outrun' => Fresh(q)')
    <3>1. CASE q = r BY <2>3, <3>1, AtRest
    <3>2. CASE q # r
      <4>1. Targets(q)' BY <1>a, <2>2, <2>3, <3>2, TargetStays
      <4>2. ASSUME q \notin outrun' PROVE Fresh(q)'
        <5>1. q \notin outrun /\ task[q].doc # d BY <2>2, <3>2, <4>2, WritesOutruns
        <5> QED BY <1>0, <1>a, <2>2, <2>3, <3>2, <5>1, FreshStays DEF NoElectronic
      <4> QED BY <4>1, <4>2
    <3> QED BY <3>1, <3>2
  <2> QED BY <2>6, <2>8, <2>9, <2>10 DEF Promises
<1>11. ASSUME NEW r \in Request, Restock(r) PROVE Promises'
  <2>1. PICK n \in Doc : n = task[r].doc /\ kind[n] = "PARTIAL_NOTE" /\ n \in accepted
    BY <1>a, <1>11 DEF Restock, Is, Targets
  <2>2. /\ UNCHANGED <<kind, from, saleStatus, refunds, accepted, raced>>
        /\ \A x \in Doc \ {from[n]} : returned'[x] = returned[x]
        /\ outrun' = outrun \ {r}
    BY <1>0, <1>11, <2>1 DEF Restock, Finishes
  <2>3. /\ \A q \in Request \ {r} : task'[q] = task[q]
        /\ task'[r].at = "idle"
    BY <1>0, <1>11 DEF Restock, Become, Resting
  <2>8. n \in Noted(from[n]) /\ kind[from[n]] = "INVOICE"
    BY <1>b, <2>1 DEF Noted, Origins
  <2>4. Origins' BY <1>b, <2>1, <2>2, <2>8 DEF Origins
  <2>5. UndoneOnce' /\ CopyKeepsMoney'
    <3>1. ASSUME NEW x \in Doc \ raced, Own(x), Noted(x) = {}
          PROVE  returned'[x] = (IF saleStatus'[x] = "cancelled" THEN 1 ELSE 0)
      <4>1. x # from[n] BY <2>8, <3>1
      <4> QED BY <1>b, <2>2, <3>1, <4>1 DEF UndoneOnce
    <3>2. \A x \in Doc : Noted(x)' = Noted(x) /\ (Own(x)' <=> Own(x))
      BY <2>2 DEF Noted, Own
    <3>3. UndoneOnce' BY <1>b, <2>2, <3>1, <3>2 DEF UndoneOnce
    <3>4. CopyKeepsMoney' BY <1>b, <2>2 DEF CopyKeepsMoney, Sales, Own
    <3> QED BY <3>3, <3>4
  <2>6. ElectronicOnce' BY <1>b, <2>2 DEF ElectronicOnce
  <2>7. ASSUME NEW q \in Request PROVE Targets(q)' /\ (q \notin outrun' => Fresh(q)')
    <3>1. CASE q = r BY <2>3, <3>1, AtRest
    <3>2. CASE q # r
      <4>1. Targets(q)' BY <1>a, <2>2, <2>3, <3>2, TargetStays
      <4>2. q \notin outrun' => Fresh(q)'
        BY <1>a, <2>2, <2>3, <3>2, FreshStays DEF NoElectronic
      <4> QED BY <4>1, <4>2
    <3> QED BY <3>1, <3>2
  <2> QED BY <2>4, <2>5, <2>6, <2>7 DEF Promises
<1>12. ASSUME NEW r \in Request, NEW e \in Doc, IssueEnd(r, e) PROVE Promises'
  <2>1. PICK d \in Doc : d = task[r].doc /\ kind[d] = "NOTA" /\ task[r].at = "issuing"
    BY <1>a, <1>12 DEF IssueEnd, Is, Targets
  <2>2. /\ kind' = [kind EXCEPT ![e] = "INVOICE"] /\ from' = [from EXCEPT ![e] = d]
        /\ UNCHANGED <<saleStatus, returned, refunds, accepted>> /\ kind[e] = "NONE"
        /\ Writes(r, d) /\ Become(r, Resting)
    BY <1>12, <2>1 DEF IssueEnd, Blank
  <2>3. /\ \A q \in Request \ {r} : task'[q] = task[q]
        /\ task'[r].at = "idle"
    BY <1>0, <2>2 DEF Become, Resting
  <2>4. raced \subseteq raced' /\ (r \in outrun => d \in raced') BY <2>2 DEF Writes
  <2>5. "INVOICE" \in Kinds \ {"NONE"} BY DEF Kinds
  <2>6. d \notin raced' => saleStatus[d] = "paid" /\ NoElectronic(d)
    BY <1>0, <1>a, <2>1, <2>4 DEF Fresh
  <2>7. Origins' /\ UndoneOnce' /\ CopyKeepsMoney' /\ ElectronicOnce'
    BY <2>1, <2>2, <2>4, <2>5, <2>6, NewRow DEF SaleKinds
  <2>8. ASSUME NEW q \in Request PROVE Targets(q)' /\ (q \notin outrun' => Fresh(q)')
    <3>1. CASE q = r BY <2>3, <3>1, AtRest
    <3>2. CASE q # r
      <4>1. q \in outrun' \/ task[q].doc # d BY <2>2, <3>2, WritesOutruns
      <4>2. q \in outrun => q \in outrun' BY <2>2, <3>2 DEF Writes
      <4> QED BY <2>2, <2>3, <2>5, <3>2, <4>1, <4>2, NewRowRequests
    <3> QED BY <3>1, <3>2
  <2> QED BY <2>7, <2>8 DEF Promises
<1>13. ASSUME NEW r \in Request, NEW e \in Doc, SellEnd(r, e) PROVE Promises'
  <2>1. PICK k \in SaleKinds : kind' = [kind EXCEPT ![e] = k]
    BY <1>13 DEF SellEnd, SaleKinds
  <2>2. /\ from' = from /\ UNCHANGED <<saleStatus, returned, refunds, accepted, raced>>
        /\ kind[e] = "NONE" /\ outrun' = outrun \ {r} /\ Become(r, Resting)
    BY <1>13 DEF SellEnd, Blank, Finishes
  <2>3. from' = [from EXCEPT ![e] = None] BY <1>0, <1>b, <2>2 DEF Origins
  <2>4. k \in Kinds \ {"NONE"} /\ k \in {"NOTA", "INVOICE"} BY DEF Kinds, SaleKinds
  <2>5. Origins' /\ UndoneOnce' /\ CopyKeepsMoney' /\ ElectronicOnce'
    BY <2>1, <2>2, <2>3, <2>4, NewRow
  <2>6. /\ \A q \in Request \ {r} : task'[q] = task[q]
        /\ task'[r].at = "idle"
    BY <1>0, <2>2 DEF Become, Resting
  <2>7. ASSUME NEW q \in Request PROVE Targets(q)' /\ (q \notin outrun' => Fresh(q)')
    <3>1. CASE q = r BY <2>6, <3>1, AtRest
    <3>2. CASE q # r
      <4>1. q \in outrun => q \in outrun' BY <2>2, <3>2
      <4> QED BY <2>1, <2>2, <2>3, <2>4, <2>6, <3>2, <4>1, NewRowRequests
    <3> QED BY <3>1, <3>2
  <2> QED BY <2>5, <2>7 DEF Promises
<1>14. ASSUME NEW d \in Doc, NEW n \in Doc, NEW k \in {"FULL_NOTE", "PARTIAL_NOTE"},
              CreateNote(d, n, k)
       PROVE Promises'
  <2>1. /\ kind[d] = "INVOICE" /\ kind[n] = "NONE"
        /\ kind' = [kind EXCEPT ![n] = k] /\ from' = [from EXCEPT ![n] = d]
        /\ UNCHANGED <<saleStatus, returned, refunds, accepted, task, marks>>
    BY <1>14 DEF CreateNote, Blank
  <2>2. k \in Kinds \ {"NONE"} /\ k \notin {"NOTA", "INVOICE"} BY DEF Kinds
  <2>3. Origins' /\ UndoneOnce' /\ CopyKeepsMoney' /\ ElectronicOnce'
    BY <2>1, <2>2, NewRow DEF SaleKinds
  <2>4. ASSUME NEW q \in Request PROVE Targets(q)' /\ (q \notin outrun' => Fresh(q)')
    BY <2>1, <2>2, NewRowRequests
  <2> QED BY <2>3, <2>4 DEF Promises
<1> QED BY <1>2, <1>3, <1>4, <1>5, <1>6, <1>7, <1>8, <1>9, <1>10, <1>11, <1>12, <1>13,
           <1>14, BookSteps

LEMMA BookInductive == ASSUME BookInv, [BookNext]_bookVars PROVE BookInv'
<1>1. CASE BookNext BY <1>1, BookTypeStep, PromisesStep DEF BookInv, Promises
<1>2. CASE UNCHANGED bookVars
  BY <1>2 DEF BookInv, BookTypeOK, Origins, Targets, Fresh, NoElectronic, UndoneOnce,
              CopyKeepsMoney, ElectronicOnce, Sales, Own, Noted
<1> QED BY <1>1, <1>2

LEMMA BookInvariant == BookSpec => []BookInv
<1>1. BookInit => BookInv BY BookStart
<1>2. BookInv /\ [BookNext]_bookVars => BookInv' BY BookInductive
<1> QED BY <1>1, <1>2, PTL DEF BookSpec

-----------------------------------------------------------------------------
(* Every variable keeps its type; deductions and their reversals never     *)
(* take the voucher's balance below zero or above what was paid.           *)
THEOREM BookTypeCorrect == BookSpec => []BookTypeOK
<1>1. BookInv => BookTypeOK BY DEF BookInv
<1> QED BY <1>1, BookInvariant, PTL

(* However cancellations, notes, refunds and repeated acceptances meet,    *)
(* the money of a sale or note is given back at most once, and the stock   *)
(* of a sale without partial notes exactly with its cancellation: except   *)
(* for a row that an operation wrote after another had written it since it *)
(* was read, and for the stock of a sale that has accepted partial notes.  *)
THEOREM SalesUndoneOnce == BookSpec => []UndoneOnce
<1>1. BookInv => UndoneOnce BY DEF BookInv
<1> QED BY <1>1, BookInvariant, PTL

(* A nota has one electronic document at most and none once cancelled,     *)
(* with the same exception.                                                *)
THEOREM OneElectronicANota == BookSpec => []ElectronicOnce
<1>1. BookInv => ElectronicOnce BY DEF BookInv
<1> QED BY <1>1, BookInvariant, PTL

-----------------------------------------------------------------------------
(* The voucher.  An application is reversed by who found it not reversed,  *)
(* as long as nobody has written its sale since.                           *)
Reversing(r) ==
  LET d == task[r].doc IN
  task[r].at = "reversing" =>
    task[r].amount = deducted[d] /\ (r \notin outrun => d \notin reversed)

VoucherInv ==
  /\ \A d \in Doc : kind[d] = "NONE" => deducted[d] = 0 /\ d \notin reversed
  /\ \A r \in Request : Reversing(r)
  /\ VoucherAgrees

LEMMA VoucherStart == BookInit => VoucherInv
<1> SUFFICES ASSUME BookInit PROVE VoucherInv OBVIOUS
<1>1. balance = Advance /\ deducted = [d \in Doc |-> 0] /\ reversed = {}
      /\ task = [r \in Request |-> Resting]
  BY DEF BookInit
<1> DEFINE B == {s \in SUBSET Doc : SumOf(deducted, s) # 0}
<1>2. ASSUME B # {} PROVE FALSE
  <2>0. B \in SUBSET SUBSET Doc OBVIOUS
  <2>1. PICK m \in B : \A s \in B : s \subseteq m => s = m
    <3> HIDE DEF B
    <3> QED BY <1>2, <2>0, SmallestSubset, BookAssumption
  <2>2. IsFiniteSet(m) /\ m \subseteq Doc BY FS_Subset, BookAssumption
  <2>3. m # {} BY SumEmpty
  <2>4. First(m) \in Doc /\ m \ {First(m)} \notin B BY <2>1, <2>2, <2>3, FirstIn
  <2>5. SumOf(deducted, m \ {First(m)}) = 0 /\ deducted[First(m)] = 0 BY <1>1, <2>2, <2>4
  <2>6. SumOf(deducted, m) = deducted[First(m)] + SumOf(deducted, m \ {First(m)})
    BY <2>2, <2>3, SumFirst
  <2> QED BY <2>5, <2>6
<1>3. SumOf(deducted, Doc \ reversed) = 0 BY <1>2
<1>4. VoucherAgrees BY <1>1, <1>3, BookAssumption DEF VoucherAgrees
<1>5. \A r \in Request : Reversing(r) BY <1>1 DEF Reversing, Resting
<1> QED BY <1>1, <1>4, <1>5 DEF VoucherInv

(* A step of r that leaves the voucher alone.                              *)
LEMMA VoucherAlone ==
  ASSUME BookInv, VoucherInv, UNCHANGED voucher, raced \subseteq raced',
         \A d \in Doc : kind[d] # "NONE" => kind'[d] # "NONE",
         NEW r \in Request, \A q \in Request \ {r} : task'[q] = task[q],
         Reversing(r)', outrun \ {r} \subseteq outrun'
  PROVE  VoucherInv'
<1>1. \A q \in Request : Reversing(q)' BY DEF VoucherInv, Reversing
<1>2. VoucherAgrees' BY DEF VoucherInv, VoucherAgrees
<1> QED BY <1>1, <1>2 DEF VoucherInv

LEMMA Becoming ==
  ASSUME BookInv, NEW r \in Request, NEW t, Become(r, t)
  PROVE  task'[r] = t /\ \A q \in Request \ {r} : task'[q] = task[q]
BY DEF BookInv, BookTypeOK, Become

LEMMA Starting ==
  ASSUME BookInv, NEW r \in Request, NEW at, NEW d, Start(r, at, d)
  PROVE  task'[r].at = at /\ \A q \in Request \ {r} : task'[q] = task[q]
BY DEF BookInv, BookTypeOK, Start, Resting

LEMMA NotReversing ==
  ASSUME NEW r \in Request, task'[r].at # "reversing"
  PROVE  Reversing(r)'
BY DEF Reversing

LEMMA WritesHistory ==
  ASSUME NEW r \in Request, NEW d, Writes(r, d) \/ Finishes(r) \/ UNCHANGED marks
  PROVE  outrun \ {r} \subseteq outrun' /\ raced \subseteq raced'
BY DEF Writes, Finishes

LEMMA VoucherTypes ==
  ASSUME BookInv
  PROVE  /\ \A d \in Doc : deducted[d] \in Nat /\ deducted[d] \in Int
         /\ IsFiniteSet(Doc \ reversed) /\ balance \in 0..Advance /\ Advance \in Nat
         /\ SumOf(deducted, Doc \ reversed) \in Nat
<1>1. IsFiniteSet(Doc \ reversed) BY FS_Difference, BookAssumption
<1>2. \A d \in Doc : deducted[d] \in Nat BY BookAssumption DEF BookInv, BookTypeOK
<1>3. \A d \in Doc \ reversed : deducted[d] \in Nat BY <1>2
<1>4. SumOf(deducted, Doc \ reversed) \in Nat BY <1>1, <1>3, SumNatural
<1> QED BY <1>1, <1>2, <1>4, BookAssumption DEF BookInv, BookTypeOK

(* The deduction is taken under the voucher's lock, from a balance that    *)
(* covers it.                                                              *)
LEMMA SellVoucher ==
  ASSUME BookInv, VoucherInv, NEW r \in Request, NEW d \in Doc, SellEnd(r, d)
  PROVE  VoucherInv'
<1> DEFINE n == task[r].amount
           S == Doc \ reversed
           T == S \ {d}
<1>1. /\ kind[d] = "NONE" /\ n <= balance /\ n \in Nat
      /\ kind' = [kind EXCEPT ![d] = IF task[r].note THEN "NOTA" ELSE "INVOICE"]
      /\ balance' = balance - n
      /\ deducted' = [deducted EXCEPT ![d] = n]
      /\ Become(r, Resting) /\ Finishes(r) /\ reversed' = reversed
  BY BookAssumption DEF SellEnd, Blank, Covered, BookInv, BookTypeOK
<1>2. /\ deducted \in [Doc -> 0..Advance] /\ kind \in [Doc -> Kinds]
      /\ deducted[d] = 0 /\ d \notin reversed
  BY <1>1 DEF BookInv, BookTypeOK, VoucherInv
<1>3. deducted'[d] = n /\ \A x \in Doc \ {d} : deducted'[x] = deducted[x] BY <1>1, <1>2
<1>4. kind'[d] # "NONE" /\ \A x \in Doc \ {d} : kind'[x] = kind[x] BY <1>1, <1>2
<1>5. task'[r].at = "idle" /\ \A q \in Request \ {r} : task'[q] = task[q]
  BY <1>1, Becoming DEF Resting
<1>6. outrun \ {r} \subseteq outrun' /\ raced \subseteq raced' BY <1>1, WritesHistory
<1>7. \A q \in Request : Reversing(q)'
  <2> SUFFICES ASSUME NEW q \in Request, task'[q].at = "reversing"
               PROVE  /\ task'[q].amount = deducted'[task'[q].doc]
                      /\ q \notin outrun' => task'[q].doc \notin reversed'
    BY DEF Reversing
  <2>1. q # r /\ task'[q] = task[q] BY <1>5
  <2>2. task[q].doc \in Doc /\ task[q].doc # d
    BY <1>1, <2>1 DEF BookInv, Targets, SaleKinds
  <2> QED BY <1>1, <1>3, <1>6, <2>1, <2>2 DEF VoucherInv, Reversing
<1>8. VoucherAgrees'
  <2> SUFFICES ASSUME raced' = {} PROVE balance' = Advance - SumOf(deducted', Doc \ reversed')
    BY DEF VoucherAgrees
  <2>1. balance = Advance - SumOf(deducted, S) BY <1>6 DEF VoucherInv, VoucherAgrees
  <2>2. IsFiniteSet(S) /\ IsFiniteSet(T) /\ Column(deducted, S) /\ Column(deducted', S) /\ d \in S
    BY <1>1, <1>2, <1>3, VoucherTypes, FS_RemoveElement DEF Column
  <2>3. \A x \in T : deducted[x] = deducted'[x] BY <1>3
  <2>4. Doc \ reversed' = S BY <1>1
  <2>5. SumOf(deducted, S) \in Nat /\ balance \in Int /\ Advance \in Int BY VoucherTypes
  <2>6. Column(deducted, T) BY <2>2 DEF Column
  <2> HIDE DEF S, n
  <2>7. SumOf(deducted, S) = deducted[d] + SumOf(deducted, T) BY <2>2, SumWithout
  <2>8. SumOf(deducted', S) = deducted'[d] + SumOf(deducted', T) BY <2>2, SumWithout
  <2> HIDE DEF T
  <2>9. SumOf(deducted, T) = SumOf(deducted', T) BY <2>2, <2>3, SumSame
  <2>10. SumOf(deducted, T) \in Int BY <2>2, <2>6, SumType
  <2>11. SumOf(deducted', Doc \ reversed') = SumOf(deducted', S) BY <2>4
  <2>12. SumOf(deducted, S) = SumOf(deducted, T) BY <1>2, <2>7, <2>10
  <2>13. SumOf(deducted', S) = n + SumOf(deducted, T) BY <1>3, <2>8, <2>9
  <2>14. balance' = balance - n /\ n \in Nat BY <1>1
  <2> QED BY <2>1, <2>5, <2>10, <2>11, <2>12, <2>13, <2>14
<1> QED BY <1>1, <1>3, <1>4, <1>7, <1>8 DEF VoucherInv

(* What a reversal gives back was in the sum, so the balance never meets   *)
(* the ceiling that would cut it.                                          *)
LEMMA ReverseVoucher ==
  ASSUME BookInv, VoucherInv, NEW r \in Request, ReverseEnd(r)
  PROVE  VoucherInv'
<1> DEFINE d == task[r].doc
           S == Doc \ reversed
           T == S \ {d}
<1>1. /\ task[r].at = "reversing" /\ balance' = Restored(task[r].amount)
      /\ reversed' = reversed \cup {d} /\ Become(r, Resting) /\ Writes(r, d)
      /\ UNCHANGED <<kind, deducted>>
  BY DEF ReverseEnd, Is
<1>2. /\ d \in Doc /\ kind[d] # "NONE" /\ task[r].amount = deducted[d]
      /\ r \notin outrun => d \notin reversed
  BY <1>1 DEF BookInv, Targets, SaleKinds, VoucherInv, Reversing
<1>5. task'[r].at = "idle" /\ \A q \in Request \ {r} : task'[q] = task[q]
  BY <1>1, Becoming DEF Resting
<1>6. outrun \ {r} \subseteq outrun' /\ raced \subseteq raced' BY <1>1, WritesHistory
<1>7. \A q \in Request : Reversing(q)'
  <2> SUFFICES ASSUME NEW q \in Request, task'[q].at = "reversing"
               PROVE  /\ task'[q].amount = deducted'[task'[q].doc]
                      /\ q \notin outrun' => task'[q].doc \notin reversed'
    BY DEF Reversing
  <2>1. q # r /\ task'[q] = task[q] BY <1>5
  <2>2. task[q].doc = d => q \in outrun' BY <1>1, <2>1 DEF Writes
  <2> QED BY <1>1, <1>6, <2>1, <2>2 DEF VoucherInv, Reversing
<1>8. VoucherAgrees'
  <2> SUFFICES ASSUME raced' = {} PROVE balance' = Advance - SumOf(deducted', Doc \ reversed')
    BY DEF VoucherAgrees
  <2>1. balance = Advance - SumOf(deducted, S) BY <1>6 DEF VoucherInv, VoucherAgrees
  <2>2. r \notin outrun BY <1>1 DEF Writes
  <2>3. d \in S BY <1>2, <2>2
  <2>4. IsFiniteSet(S) /\ IsFiniteSet(T) /\ Column(deducted, S)
        /\ (\A x \in T : deducted[x] \in Nat)
    BY VoucherTypes, FS_RemoveElement DEF Column
  <2>5. Doc \ reversed' = T BY <1>1
  <2>6. /\ balance \in Nat /\ Advance \in Nat /\ deducted[d] \in Nat
        /\ balance' = IF balance + deducted[d] > Advance THEN Advance ELSE balance + deducted[d]
    BY <1>1, <1>2, VoucherTypes DEF Restored
  <2> HIDE DEF S, d
  <2>7. SumOf(deducted, S) = deducted[d] + SumOf(deducted, T) BY <2>3, <2>4, SumWithout
  <2> HIDE DEF T
  <2>8. SumOf(deducted, T) \in Nat BY <2>4, SumNatural
  <2>9. SumOf(deducted', Doc \ reversed') = SumOf(deducted, T) BY <1>1, <2>5
  <2> QED BY <2>1, <2>6, <2>7, <2>8, <2>9
<1> QED BY <1>1, <1>2, <1>7, <1>8 DEF VoucherInv

LEMMA ReverseBeginVoucher ==
  ASSUME BookInv, VoucherInv, NEW r \in Request, ReverseBegin(r)
  PROVE  VoucherInv'
<1> DEFINE d == task[r].doc
           t == IF deducted[d] > 0 /\ d \notin reversed
                THEN [task[r] EXCEPT !.at = "reversing", !.amount = deducted[d]] ELSE Resting
<1>1. /\ Become(r, t) /\ outrun' = outrun \ {r} /\ raced' = raced
      /\ UNCHANGED <<docs, voucher>>
  BY DEF ReverseBegin
<1>2. task[r] \in Tasks BY DEF BookInv, BookTypeOK, Tasks
<1>3. \/ t.at = "idle"
      \/ d \notin reversed /\ t.doc = d /\ t.amount = deducted[d]
  BY <1>2 DEF Tasks, Resting
<1> HIDE DEF t
<1>4. task'[r] = t /\ \A q \in Request \ {r} : task'[q] = task[q] BY <1>1, Becoming
<1>5. Reversing(r)' BY <1>1, <1>3, <1>4 DEF Reversing
<1> QED BY <1>1, <1>4, <1>5, VoucherAlone

LEMMA VoucherStep == ASSUME BookInv, VoucherInv, BookNext PROVE VoucherInv'
<1>1. ASSUME NEW r \in Request,
             CancelRead(r) \/ CancelEnd(r) \/ Restock(r) \/ RefundEnd(r) \/ Abandon(r)
      PROVE  VoucherInv'
  <2>1. UNCHANGED <<kind, voucher>>
    BY <1>1 DEF CancelRead, CancelEnd, Restock, RefundEnd, Abandon
  <2>2. outrun \ {r} \subseteq outrun' /\ raced \subseteq raced'
    BY <1>1, WritesHistory DEF CancelRead, CancelEnd, Restock, RefundEnd, Abandon
  <2>3. PICK t : Become(r, t) /\ t.at # "reversing"
    <3>1. CASE CancelRead(r)
      <4>1. task[r] \in Tasks BY DEF BookInv, BookTypeOK, Tasks
      <4>2. PICK b : Become(r, [task[r] EXCEPT !.at = "cancelling", !.done = b])
        BY <3>1 DEF CancelRead
      <4>3. [task[r] EXCEPT !.at = "cancelling", !.done = b].at = "cancelling" BY <4>1 DEF Tasks
      <4> QED BY <4>2, <4>3
    <3>2. CASE CancelEnd(r)
      <4>1. \/ Become(r, [Resting EXCEPT !.at = "cancelled", !.doc = task[r].doc])
            \/ Become(r, Resting)
        BY <3>2 DEF CancelEnd
      <4>2. [Resting EXCEPT !.at = "cancelled", !.doc = task[r].doc].at = "cancelled"
            /\ Resting.at = "idle"
        BY DEF Resting
      <4> QED BY <4>1, <4>2
    <3>3. CASE Restock(r) \/ RefundEnd(r) \/ Abandon(r)
      <4>1. Become(r, Resting) BY <3>3 DEF Restock, RefundEnd, Abandon
      <4>2. Resting.at = "idle" BY DEF Resting
      <4> QED BY <4>1, <4>2
    <3> QED BY <1>1, <3>1, <3>2, <3>3
  <2>4. task'[r] = t /\ \A q \in Request \ {r} : task'[q] = task[q] BY <2>3, Becoming
  <2>5. Reversing(r)' BY <2>3, <2>4, NotReversing
  <2> QED BY <2>1, <2>2, <2>4, <2>5, VoucherAlone
<1>2. ASSUME NEW r \in Request, NEW d \in Doc,
             \/ IssueBegin(r, d) \/ CancelNotaBegin(r, d) \/ PartialNoteAccepted(r, d)
             \/ RefundBegin(r, d)
      PROVE  VoucherInv'
  <2>1. UNCHANGED <<kind, voucher, marks>>
    BY <1>2 DEF IssueBegin, CancelNotaBegin, PartialNoteAccepted, RefundBegin
  <2>2. PICK at \in {"issuing", "checked", "restocking", "refunding"} : Start(r, at, d)
    BY <1>2 DEF IssueBegin, CancelNotaBegin, PartialNoteAccepted, RefundBegin
  <2>3. task'[r].at = at /\ \A q \in Request \ {r} : task'[q] = task[q] BY <2>2, Starting
  <2>4. Reversing(r)' BY <2>3, NotReversing
  <2> QED BY <2>1, <2>3, <2>4, VoucherAlone
<1>3. ASSUME NEW r \in Request, NEW n \in Doc, FullNoteAccepted(r, n) PROVE VoucherInv'
  <2> DEFINE t == [Resting EXCEPT !.at = "checked", !.doc = from[n], !.note = TRUE]
  <2>1. UNCHANGED <<kind, voucher, marks>> /\ Become(r, t) BY <1>3 DEF FullNoteAccepted
  <2>2. t.at = "checked" BY DEF Resting
  <2> HIDE DEF t
  <2>3. task'[r].at = "checked" /\ \A q \in Request \ {r} : task'[q] = task[q]
    BY <2>1, <2>2, Becoming
  <2>4. Reversing(r)' BY <2>3, NotReversing
  <2> QED BY <2>1, <2>3, <2>4, VoucherAlone
<1>4. ASSUME NEW r \in Request, NEW k \in {"NOTA", "INVOICE"}, NEW n \in 0..Advance,
             SellBegin(r, k, n)
      PROVE  VoucherInv'
  <2> DEFINE t == [Resting EXCEPT !.at = "selling", !.amount = n, !.note = k = "NOTA"]
  <2>1. UNCHANGED <<kind, voucher, marks>> /\ Become(r, t) BY <1>4 DEF SellBegin
  <2>2. t.at = "selling" BY DEF Resting
  <2> HIDE DEF t
  <2>3. task'[r].at = "selling" /\ \A q \in Request \ {r} : task'[q] = task[q]
    BY <2>1, <2>2, Becoming
  <2>4. Reversing(r)' BY <2>3, NotReversing
  <2> QED BY <2>1, <2>3, <2>4, VoucherAlone
<1>5. ASSUME NEW r \in Request, NEW e \in Doc, IssueEnd(r, e) PROVE VoucherInv'
  <2>1. /\ UNCHANGED voucher /\ Become(r, Resting) /\ Writes(r, task[r].doc)
        /\ kind' = [kind EXCEPT ![e] = "INVOICE"]
    BY <1>5 DEF IssueEnd
  <2>2. \A d \in Doc : kind[d] # "NONE" => kind'[d] # "NONE"
    BY <2>1 DEF BookInv, BookTypeOK
  <2>3. task'[r].at = "idle" /\ \A q \in Request \ {r} : task'[q] = task[q]
    BY <2>1, Becoming DEF Resting
  <2>4. Reversing(r)' BY <2>3, NotReversing
  <2>5. outrun \ {r} \subseteq outrun' /\ raced \subseteq raced' BY <2>1, WritesHistory
  <2> QED BY <2>1, <2>2, <2>3, <2>4, <2>5, VoucherAlone
<1>6. ASSUME UNCHANGED <<voucher, task, marks>>,
             \A d \in Doc : kind[d] # "NONE" => kind'[d] # "NONE"
      PROVE  VoucherInv'
  <2>1. \A q \in Request : Reversing(q)' BY <1>6 DEF VoucherInv, Reversing
  <2>2. VoucherAgrees' BY <1>6 DEF VoucherInv, VoucherAgrees
  <2> QED BY <1>6, <2>1, <2>2 DEF VoucherInv
<1>7. ASSUME NEW d \in Doc, NEW n \in Doc, NEW k \in {"FULL_NOTE", "PARTIAL_NOTE"},
             CreateNote(d, n, k)
      PROVE  VoucherInv'
  <2>1. UNCHANGED <<voucher, task, marks>> /\ kind' = [kind EXCEPT ![n] = k]
    BY <1>7 DEF CreateNote
  <2>2. \A x \in Doc : kind[x] # "NONE" => kind'[x] # "NONE"
    BY <2>1 DEF BookInv, BookTypeOK
  <2> QED BY <2>1, <2>2, <1>6
<1>8. ASSUME NEW d \in Doc, AcceptDocument(d) PROVE VoucherInv'
  BY <1>8, <1>6 DEF AcceptDocument
<1>9. ASSUME CashSession PROVE VoucherInv' BY <1>9, <1>6 DEF CashSession
<1> QED BY <1>1, <1>2, <1>3, <1>4, <1>5, <1>7, <1>8, <1>9, SellVoucher, ReverseVoucher,
           ReverseBeginVoucher, BookSteps

(* For any number of invoices, deductions and reversals, the balance of    *)
(* the voucher is what was paid in advance less the applications in force, *)
(* in every behaviour in which no operation has written a sale that        *)
(* another wrote since it read it: two reversals of one sale that overlap  *)
(* are outside of what this says.                                          *)
THEOREM VoucherBalances == BookSpec => []VoucherAgrees
<1>1. BookInit => VoucherInv BY VoucherStart
<1>2. BookInv /\ VoucherInv /\ [BookNext]_bookVars => VoucherInv'
  <2>1. CASE BookNext BY <2>1, VoucherStep
  <2>2. CASE UNCHANGED bookVars BY <2>2 DEF VoucherInv, Reversing, VoucherAgrees
  <2> QED BY <2>1, <2>2
<1>3. VoucherInv => VoucherAgrees BY DEF VoucherInv
<1> QED BY <1>1, <1>2, <1>3, BookInvariant, PTL DEF BookSpec
=============================================================================
