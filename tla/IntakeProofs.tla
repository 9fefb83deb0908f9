---------------------------- MODULE IntakeProofs ----------------------------
(***************************************************************************)
(* The intake of bank money gives for every transfer what it paid for and  *)
(* for every invoice what it asked for once, for any number of invoices,   *)
(* transfers, requests of the phone and administrators, any validity and   *)
(* any clock skew; so it implements PaymentPromise.                        *)
(***************************************************************************)
EXTENDS Intake, SequenceTheorems, TLAPS

------------------------------------------------------------------------------
(* Types.                                                                   *)

(* What a request that is under way works on.                               *)
Typed(row) ==
  /\ row \in RequestRow
  /\ row.stage \in {"CONFIRM", "COMMIT", "RESERVE", "LATE", "CREDIT"} => row.invoice \in Invoice
  /\ row.stage \in {"SEARCH", "REJECT", "RESERVE", "LATE", "CREDIT"} => row.event \in Transfer

(* Besides the types: while the phone waits its queue holds what it sent.   *)
TypeInv ==
  /\ IntakeTypeOK
  /\ phone.waiting # Nobody => phone.queue # <<>>
  /\ \A r \in Request : Typed(request[r])

(* A request that is given a new row, and a stage of its old one.           *)
LEMMA RequestType ==
  ASSUME TypeInv, NEW r \in Request
  PROVE  /\ \A row : Typed(row) /\ request' = [request EXCEPT ![r] = row]
                     => /\ request' \in [Request -> RequestRow]
                        /\ \A q \in Request : Typed(request'[q])
         /\ \A s : [request EXCEPT ![r].stage = s] = [request EXCEPT ![r] = [@ EXCEPT !.stage = s]]
<1>1. request \in [Request -> RequestRow] /\ \A q \in Request : Typed(request[q])
  BY DEF TypeInv, IntakeTypeOK
<1>2. ASSUME NEW row, Typed(row), request' = [request EXCEPT ![r] = row]
      PROVE  /\ request' \in [Request -> RequestRow]
             /\ \A q \in Request : Typed(request'[q])
  <2>1. row \in RequestRow
    BY <1>2 DEF Typed
  <2>2. \A q \in Request : request'[q] = IF q = r THEN row ELSE request[q]
    BY <1>1, <1>2
  <2>3. QED
    BY <1>1, <1>2, <2>1, <2>2
<1>3. QED
  BY <1>1, <1>2

(* The answer to a request keeps the types of the phone and the requests.   *)
LEMMA DoneType ==
  ASSUME TypeInv, NEW r \in Request, NEW accepted \in BOOLEAN, Done(r, accepted)
  PROVE  /\ phone' \in [queue : Seq(Transfer), waiting : Handler \cup {Nobody}]
         /\ Len(phone'.queue) <= PhoneLimit
         /\ phone'.waiting # Nobody => phone'.queue # <<>>
         /\ request' \in [Request -> RequestRow]
         /\ \A q \in Request : Typed(request'[q])
<1>1. /\ request' \in [Request -> RequestRow]
      /\ \A q \in Request : Typed(request'[q])
  <2>1. Typed(Idle)
    BY DEF Typed, Idle, RequestRow
  <2>2. QED
    BY <2>1, RequestType DEF Done
<1>2. CASE phone.waiting # r \/ ~accepted
  BY <1>1, <1>2 DEF Done, TypeInv, IntakeTypeOK
<1>3. CASE phone.waiting = r /\ accepted
  <2>1. phone.queue \in Seq(Transfer) /\ phone.queue # <<>>
    BY <1>3, IntakeAssumption DEF TypeInv, IntakeTypeOK, Request
  <2>2. Tail(phone.queue) \in Seq(Transfer) /\ Len(Tail(phone.queue)) <= Len(phone.queue)
    BY <2>1, HeadTailProperties
  <2>3. phone' = [queue |-> Tail(phone.queue), waiting |-> Nobody]
    BY <1>3 DEF Done
  <2>4. /\ Len(phone.queue) \in Nat /\ Len(Tail(phone.queue)) \in Nat
        /\ Len(phone.queue) <= PhoneLimit
    BY <2>1, <2>2, LenProperties DEF TypeInv, IntakeTypeOK
  <2>5. QED
    BY <1>1, <2>2, <2>3, <2>4, IntakeAssumption
<1>4. QED
  BY <1>2, <1>3

(* Marking an invoice paid, crediting it and confirming its event too.      *)
LEMMA PayType ==
  ASSUME TypeInv, NEW i \in Invoice, NEW e \in Transfer \cup {Nobody}, NEW r \in Request
  PROVE  /\ MarkPaid(i, e) => invoice' \in [Invoice -> InvoiceRow]
         /\ MarkConfirmed(e, i) => event' \in [Transfer -> EventRow]
         /\ Credit(i, e, r) =>
              credits' \in [Invoice -> Seq([event : Transfer \cup {Nobody}, by : Request])]
<1>1. MarkPaid(i, e) => invoice' \in [Invoice -> InvoiceRow]
  <2>1. invoice \in [Invoice -> InvoiceRow]
    BY DEF TypeInv, IntakeTypeOK
  <2>2. [invoice[i] EXCEPT !.state = "PAID", !.attempt = "CONFIRMED", !.matched = e] \in InvoiceRow
    BY <2>1 DEF InvoiceRow
  <2>3. QED
    BY <2>1, <2>2 DEF MarkPaid
<1>2. MarkConfirmed(e, i) => event' \in [Transfer -> EventRow]
  BY DEF MarkConfirmed, EventRow, TypeInv, IntakeTypeOK
<1>3. <<[event |-> e, by |-> r]>> \in Seq([event : Transfer \cup {Nobody}, by : Request])
  OBVIOUS
<1>4. QED
  BY <1>1, <1>2, <1>3 DEF Credit, TypeInv, IntakeTypeOK

(* The empty shop has the types.                                            *)
LEMMA TypeInit == IntakeInit => TypeInv
<1> SUFFICES ASSUME IntakeInit PROVE TypeInv
  OBVIOUS
<1>1. IntakeTypeOK
  <2>1. /\ <<>> \in Seq(Transfer) /\ Len(<<>>) = 0
        /\ <<>> \in Seq([event : Transfer \cup {Nobody}, by : Request])
    OBVIOUS
  <2>2. QED
    BY <2>1, IntakeAssumption
    DEF IntakeInit, IntakeTypeOK, InvoiceRow, EventRow, RequestRow, Idle
<1>2. \A r \in Request : Typed(request[r])
  BY DEF IntakeInit, Typed, Idle, RequestRow
<1>3. QED
  BY <1>1, <1>2 DEF TypeInv, IntakeInit

(* The steps of invoices, customers, the clock and the phone keep the types.*)
LEMMA WorldTypes ==
  ASSUME TypeInv
  PROVE  /\ \A i \in Invoice : CreateInvoice(i) \/ ExpireInvoice(i) \/ CancelInvoice(i) => TypeInv'
         /\ \A e \in Transfer, i \in Invoice : PayInvoice(e, i) => TypeInv'
         /\ \A e \in Transfer : Capture(e) => TypeInv'
         /\ SendTimeout \/ IntakeTick => TypeInv'
<1>1. ASSUME NEW i \in Invoice, CreateInvoice(i) PROVE TypeInv'
  <2>1. PICK a \in BilledAmount :
               invoice' = [invoice EXCEPT ![i] = [state |-> "PENDING", created |-> now, amount |-> a,
                                                  attempt |-> "AWAITING", matched |-> Nobody]]
    BY <1>1 DEF CreateInvoice
  <2>2. invoice' \in [Invoice -> InvoiceRow]
    BY <2>1 DEF TypeInv, IntakeTypeOK, InvoiceRow
  <2>3. QED
    BY <1>1, <2>2 DEF CreateInvoice, TypeInv, IntakeTypeOK
<1>2. ASSUME NEW i \in Invoice, NEW state \in {"EXPIRED", "CANCELLED"}, Close(i, state),
             UNCHANGED <<provider, now, transfer, event, phone, request, credits>>
      PROVE  TypeInv'
  <2>1. invoice \in [Invoice -> InvoiceRow]
    BY DEF TypeInv, IntakeTypeOK
  <2> DEFINE attempt == IF invoice[i].attempt = "AWAITING" THEN state ELSE invoice[i].attempt
  <2>2. [invoice[i] EXCEPT !.state = state, !.attempt = attempt] \in InvoiceRow
    BY <2>1 DEF InvoiceRow
  <2>3. invoice' \in [Invoice -> InvoiceRow]
    BY <1>2, <2>1, <2>2 DEF Close
  <2>4. QED
    BY <1>2, <2>3 DEF TypeInv, IntakeTypeOK
<1>3. ASSUME NEW i \in Invoice, ExpireInvoice(i) \/ CancelInvoice(i) PROVE TypeInv'
  BY <1>2, <1>3 DEF ExpireInvoice, CancelInvoice
<1>4. ASSUME NEW e \in Transfer, NEW i \in Invoice, PayInvoice(e, i) PROVE TypeInv'
  BY <1>4 DEF PayInvoice, TypeInv, IntakeTypeOK, InvoiceRow
<1>5. ASSUME NEW e \in Transfer, Capture(e) PROVE TypeInv'
  <2>1. phone.queue \in Seq(Transfer)
    BY DEF TypeInv, IntakeTypeOK
  <2>2. /\ Append(phone.queue, e) \in Seq(Transfer)
        /\ Append(phone.queue, e) # <<>>
        /\ Len(Append(phone.queue, e)) = Len(phone.queue) + 1
        /\ Len(phone.queue) \in Nat
    BY <2>1, AppendProperties, LenProperties
  <2>3. Len(phone.queue) + 1 <= PhoneLimit
    BY <1>5, <2>2, IntakeAssumption DEF Capture
  <2>4. QED
    BY <1>5, <2>2, <2>3 DEF Capture, TypeInv, IntakeTypeOK
<1>6. ASSUME SendTimeout \/ IntakeTick PROVE TypeInv'
  <2>1. CASE SendTimeout
    <3>1. phone' = [phone EXCEPT !.waiting = Nobody]
      BY <2>1 DEF SendTimeout
    <3>2. /\ phone' \in [queue : Seq(Transfer), waiting : Handler \cup {Nobody}]
          /\ phone'.queue = phone.queue /\ phone'.waiting = Nobody
      BY <3>1 DEF TypeInv, IntakeTypeOK
    <3>3. QED
      BY <2>1, <3>2 DEF SendTimeout, TypeInv, IntakeTypeOK
  <2>2. CASE IntakeTick
    <3>1. /\ now' \in Nat
          /\ UNCHANGED <<provider, invoice, transfer, event, phone, request, credits>>
      BY <2>2 DEF IntakeTick, TypeInv, IntakeTypeOK
    <3>2. QED
      BY <3>1 DEF TypeInv, IntakeTypeOK
  <2>3. QED
    BY <1>6, <2>1, <2>2
<1>7. QED
  BY <1>1, <1>3, <1>4, <1>5, <1>6

(* A notification is begun.                                                 *)
LEMMA BeginTypes == ASSUME TypeInv, NEW h \in Handler, BeginEvent(h) PROVE TypeInv'
<1>1. phone.queue \in Seq(Transfer) /\ phone.queue # <<>> /\ phone.waiting = Nobody
  BY DEF BeginEvent, TypeInv, IntakeTypeOK
<1>2. /\ Head(phone.queue) \in Transfer
      /\ Tail(phone.queue) \in Seq(Transfer)
      /\ Len(Tail(phone.queue)) <= Len(phone.queue)
      /\ Len(phone.queue) \in Nat /\ Len(Tail(phone.queue)) \in Nat
  BY <1>1, HeadTailProperties, LenProperties
<1> DEFINE e == Head(phone.queue)
<1>3. CASE event[e].status \in {"NONE", "RECEIVED"}
  <2> DEFINE row == [Idle EXCEPT !.stage = "SEARCH", !.event = e]
  <2>1. /\ event' = [event EXCEPT ![e].status = "RECEIVED"]
        /\ request' = [request EXCEPT ![h] = row]
        /\ phone' = [phone EXCEPT !.waiting = h]
    BY <1>3 DEF BeginEvent
  <2>2. Typed(row)
    BY <1>2 DEF Idle, RequestRow, Typed
  <2>3. /\ request' \in [Request -> RequestRow]
        /\ \A q \in Request : Typed(request'[q])
    BY <2>1, <2>2, RequestType DEF Request
  <2>4. event' \in [Transfer -> EventRow]
    BY <1>2, <2>1 DEF TypeInv, IntakeTypeOK, EventRow
  <2>5. /\ phone' \in [queue : Seq(Transfer), waiting : Handler \cup {Nobody}]
        /\ phone'.queue = phone.queue
    BY <2>1 DEF TypeInv, IntakeTypeOK
  <2>6. QED
    BY <1>1, <2>3, <2>4, <2>5 DEF BeginEvent, TypeInv, IntakeTypeOK
<1>4. CASE ~(event[e].status \in {"NONE", "RECEIVED"})
  <2>1. phone' = [phone EXCEPT !.queue = Tail(@)] /\ UNCHANGED <<event, request>>
    BY <1>4 DEF BeginEvent
  <2>2. Len(Tail(phone.queue)) <= PhoneLimit
    BY <1>2, IntakeAssumption DEF TypeInv, IntakeTypeOK
  <2>3. /\ phone' \in [queue : Seq(Transfer), waiting : Handler \cup {Nobody}]
        /\ phone'.queue = Tail(phone.queue) /\ phone'.waiting = Nobody
    BY <1>1, <1>2, <2>1 DEF TypeInv, IntakeTypeOK
  <2>4. QED
    BY <2>1, <2>2, <2>3 DEF BeginEvent, TypeInv, IntakeTypeOK
<1>5. QED
  BY <1>3, <1>4

(* The search keeps the types.                                              *)
LEMMA SearchTypes == ASSUME TypeInv, NEW h \in Handler, SearchTarget(h) PROVE TypeInv'
<1>1. /\ h \in Request /\ Typed(request[h]) /\ request[h].stage = "SEARCH"
      /\ UNCHANGED <<provider, now, invoice, transfer, event, phone, credits>>
  BY DEF SearchTarget, TypeInv, Request
<1>2. PICK row : Typed(row) /\ request' = [request EXCEPT ![h] = row]
  <2>1. CASE request' = [request EXCEPT ![h].stage = "REJECT"]
    <3>1. request' = [request EXCEPT ![h] = [@ EXCEPT !.stage = "REJECT"]]
      BY <1>1, <2>1, RequestType
    <3>2. Typed([request[h] EXCEPT !.stage = "REJECT"])
      BY <1>1 DEF Typed, RequestRow
    <3>3. request' = [request EXCEPT ![h] = [request[h] EXCEPT !.stage = "REJECT"]]
      BY <1>1, <3>1 DEF TypeInv, IntakeTypeOK
    <3>4. QED
      BY <3>2, <3>3
  <2>2. ASSUME NEW i \in Invoice,
               request' = [request EXCEPT ![h] = [@ EXCEPT !.stage = "CONFIRM", !.invoice = i]]
        PROVE  \E row : Typed(row) /\ request' = [request EXCEPT ![h] = row]
    <3>1. Typed([request[h] EXCEPT !.stage = "CONFIRM", !.invoice = i])
      BY <1>1 DEF Typed, RequestRow
    <3>2. QED
      BY <1>1, <2>2, <3>1 DEF TypeInv, IntakeTypeOK
  <2>3. QED
    BY <2>1, <2>2 DEF SearchTarget, Match
<1>3. QED
  BY <1>1, <1>2, RequestType DEF TypeInv, IntakeTypeOK

(* The rejection keeps the types.                                           *)
LEMMA RejectTypes == ASSUME TypeInv, NEW h \in Handler, RejectEvent(h) PROVE TypeInv'
<1>1. Done(h, TRUE) /\ h \in Request /\ request[h].event \in Transfer
  BY DEF RejectEvent, TypeInv, Typed, Request
<1>2. event' \in [Transfer -> EventRow]
  BY <1>1 DEF RejectEvent, TypeInv, IntakeTypeOK, EventRow
<1>3. QED
  BY <1>1, <1>2, DoneType DEF RejectEvent, TypeInv, IntakeTypeOK

(* A request that moves to another stage of what it works on.               *)
LEMMA AdvanceType ==
  ASSUME TypeInv, NEW r \in Request, NEW s \in {"COMMIT", "CONFIRM", "LATE", "CREDIT"},
         request[r].invoice \in Invoice, s \in {"LATE", "CREDIT"} => request[r].event \in Transfer,
         Advance(r, s)
  PROVE  /\ request' \in [Request -> RequestRow]
         /\ \A q \in Request : Typed(request'[q])
<1>1. Typed([request[r] EXCEPT !.stage = s])
  BY DEF TypeInv, Typed, RequestRow
<1>2. request' = [request EXCEPT ![r] = [@ EXCEPT !.stage = s]]
  BY RequestType DEF Advance
<1>3. request' = [request EXCEPT ![r] = [request[r] EXCEPT !.stage = s]]
  BY <1>2 DEF TypeInv, IntakeTypeOK
<1>4. QED
  BY <1>1, <1>3, RequestType

(* Reading and writing a confirmation keep the types.                       *)
LEMMA ConfirmTypes ==
  ASSUME TypeInv, NEW r \in Request, ConfirmRead(r) \/ ConfirmCommit(r)
  PROVE  TypeInv'
<1>1. /\ request[r].invoice \in Invoice
      /\ request[r].event \in Transfer \cup {Nobody}
  BY DEF ConfirmRead, ConfirmCommit, TypeInv, Typed, RequestRow
<1>2. CASE ConfirmRead(r)
  <2>1. CASE Advance(r, "COMMIT") /\ UNCHANGED phone
    BY <1>1, <1>2, <2>1, AdvanceType DEF ConfirmRead, TypeInv, IntakeTypeOK
  <2>2. CASE Done(r, AlreadyPaidBy(r))
    <3>1. AlreadyPaidBy(r) \in BOOLEAN
      BY DEF AlreadyPaidBy
    <3>2. QED
      BY <1>2, <2>2, <3>1, DoneType DEF ConfirmRead, TypeInv, IntakeTypeOK
  <2>3. QED
    BY <1>2, <2>1, <2>2 DEF ConfirmRead, Advance
<1>3. CASE ConfirmCommit(r)
  <2> DEFINE done == AttemptOpen(request[r].event, request[r].invoice, {"AWAITING"})
  <2>1. done \in BOOLEAN /\ Done(r, done)
    BY <1>3 DEF ConfirmCommit, AttemptOpen
  <2>2. /\ invoice' \in [Invoice -> InvoiceRow]
        /\ event' \in [Transfer -> EventRow]
        /\ credits' \in [Invoice -> Seq([event : Transfer \cup {Nobody}, by : Request])]
    BY <1>1, <1>3, PayType DEF ConfirmCommit, TypeInv, IntakeTypeOK
  <2>3. QED
    BY <1>3, <2>1, <2>2, DoneType DEF ConfirmCommit, TypeInv, IntakeTypeOK
<1>4. QED
  BY <1>2, <1>3

(* What administrators begin keeps the types.                               *)
LEMMA AskTypes ==
  ASSUME TypeInv, NEW a \in Admin, NEW i \in Invoice
  PROVE  /\ Approve(a, i) \/ CreditExpired(a, i) => TypeInv'
         /\ \A e \in Transfer : ReserveRead(a, e, i) => TypeInv'
<1>1. ASSUME NEW s \in {"CONFIRM", "RESERVE"}, NEW f \in Transfer \cup {Nobody},
             s = "RESERVE" => f \in Transfer, NEW late \in BOOLEAN, Ask(a, s, f, i, late),
             UNCHANGED <<provider, now, invoice, transfer, event, phone, credits>>
      PROVE  TypeInv'
  <2>1. Typed([stage |-> s, event |-> f, invoice |-> i, late |-> late])
    BY <1>1 DEF Typed, RequestRow
  <2>2. /\ request' \in [Request -> RequestRow]
        /\ \A q \in Request : Typed(request'[q])
    BY <1>1, <2>1, RequestType DEF Ask, Request
  <2>3. QED
    BY <1>1, <2>2 DEF TypeInv, IntakeTypeOK
<1>2. ASSUME Approve(a, i) PROVE TypeInv'
  BY <1>1, <1>2 DEF Approve
<1>3. ASSUME CreditExpired(a, i) PROVE TypeInv'
  <2>1. a \in Request
    BY DEF Request
  <2>2. QED
    BY <1>3, <2>1, PayType DEF CreditExpired, TypeInv, IntakeTypeOK
<1>4. ASSUME NEW e \in Transfer, ReserveRead(a, e, i) PROVE TypeInv'
  <2>1. (ReconciliationState(i) = "expired") \in BOOLEAN
    OBVIOUS
  <2>2. QED
    BY <1>1, <1>4, <2>1 DEF ReserveRead
<1>5. QED
  BY <1>2, <1>3, <1>4

(* What administrators go on with keeps the types.                          *)
LEMMA LateTypes ==
  ASSUME TypeInv, NEW a \in Admin, ReserveWrite(a) \/ LateRead(a) \/ LateWrite(a)
  PROVE  TypeInv'
<1>1. a \in Request /\ request[a].invoice \in Invoice /\ request[a].event \in Transfer
  BY DEF ReserveWrite, LateRead, LateWrite, TypeInv, Typed, Request
<1> DEFINE e == request[a].event
           i == request[a].invoice
<1>2. CASE ReserveWrite(a)
  <2>1. event' \in [Transfer -> EventRow]
    BY <1>1, <1>2 DEF ReserveWrite, TypeInv, IntakeTypeOK, EventRow
  <2>2. QED
    BY <1>1, <1>2, <2>1, AdvanceType DEF ReserveWrite, TypeInv, IntakeTypeOK
<1>3. CASE LateRead(a)
  <2>1. CASE LateCreditable(e, i)
    BY <1>1, <1>3, <2>1, AdvanceType DEF LateRead, TypeInv, IntakeTypeOK
  <2>2. CASE ~LateCreditable(e, i)
    BY <1>1, <1>3, <2>2, DoneType DEF LateRead, TypeInv, IntakeTypeOK
  <2>3. QED
    BY <2>1, <2>2
<1>4. CASE LateWrite(a)
  <2>1. /\ invoice' \in [Invoice -> InvoiceRow]
        /\ event' \in [Transfer -> EventRow]
        /\ credits' \in [Invoice -> Seq([event : Transfer \cup {Nobody}, by : Request])]
    BY <1>1, <1>4, PayType DEF LateWrite, TypeInv, IntakeTypeOK
  <2>2. QED
    BY <1>1, <1>4, <2>1, DoneType DEF LateWrite, TypeInv, IntakeTypeOK
<1>5. QED
  BY <1>2, <1>3, <1>4

(* Every step keeps the types.                                              *)
LEMMA TypeNext == TypeInv /\ [IntakeNext]_intakeVars => TypeInv'
<1> SUFFICES ASSUME TypeInv, [IntakeNext]_intakeVars PROVE TypeInv'
  OBVIOUS
<1>1. ASSUME NEW r \in Request, Fail(r) PROVE TypeInv'
  BY <1>1, DoneType DEF Fail, TypeInv, IntakeTypeOK
<1>2. ASSUME NEW h \in Handler, BeginEvent(h) \/ HandlerStep(h) PROVE TypeInv'
  BY <1>2, BeginTypes, SearchTypes, RejectTypes, ConfirmTypes DEF HandlerStep, Request
<1>3. ASSUME NEW a \in Admin, AdminStep(a) PROVE TypeInv'
  BY <1>3, LateTypes, ConfirmTypes DEF AdminStep, Request
<1>4. CASE UNCHANGED intakeVars
  BY <1>4 DEF intakeVars, TypeInv, IntakeTypeOK
<1>5. QED
  BY <1>1, <1>2, <1>3, <1>4, WorldTypes, AskTypes DEF IntakeNext

(* Types are kept for ever: no queue of the phone is too long, no request   *)
(* works on nothing, no event links to what is not an invoice.              *)
THEOREM IntakeTypeCorrect == IntakeSpec => []IntakeTypeOK
<1>1. TypeInv => IntakeTypeOK
  BY DEF TypeInv
<1>2. QED
  BY <1>1, TypeInit, TypeNext, PTL DEF IntakeSpec

------------------------------------------------------------------------------
(* The inductive invariant.  A confirmation reads in one step and writes in *)
(* another, so it says what a request under way has read and may rely on.   *)

(* What has been seen of a transfer.                                        *)
Seen(e) == Queued(e) \/ event[e].status # "NONE"

(* Only transfers that were made are seen.                                  *)
Captured == \A e \in Transfer : Seen(e) => transfer[e].payer # Nobody

(* What is worked on was made and asked for; what is about to be written    *)
(* was found to pay, and neither transfers nor amounts change.              *)
Sound(row) ==
  /\ row.event # Nobody => transfer[row.event].payer # Nobody
  /\ row.stage \in {"COMMIT", "RESERVE", "LATE", "CREDIT"} => invoice[row.invoice].state # "NONE"
  /\ row.stage \in {"COMMIT", "CREDIT"} /\ row.event # Nobody => Pays(row.event, row.invoice)

(* A paid invoice has a confirmed attempt: it cannot be claimed again.      *)
PaidConfirmed == \A i \in Invoice : invoice[i].state = "PAID" => invoice[i].attempt = "CONFIRMED"

(* The unique index on matchedEventId.                                      *)
MatchedOnce ==
  \A i, j \in Invoice :
    SameTable(i, j) /\ invoice[i].matched # Nobody /\ invoice[i].matched = invoice[j].matched => i = j

(* Whatever was credited for a transfer names it and was paid by it.        *)
Evidence ==
  \A e \in Transfer, i \in Invoice :
    CreditedBy(e, i) => invoice[i].matched = e /\ Pays(e, i) /\ transfer[e].payer # Nobody

MoneyInv ==
  /\ TypeInv /\ Captured /\ \A r \in Request : Sound(request[r])
  /\ CreditedOnce /\ PaidConfirmed /\ MatchedOnce /\ Evidence

(* The ways a step changes an invoice and what was given for it.            *)
Opens(i) ==
  /\ invoice[i].state = "NONE" /\ credits' = credits
  /\ \E a \in BilledAmount :
       invoice' = [invoice EXCEPT ![i] = [state |-> "PENDING", created |-> now, amount |-> a,
                                          attempt |-> "AWAITING", matched |-> Nobody]]
Closes(i) ==
  /\ invoice[i].state = "PENDING" /\ credits' = credits
  /\ \E s \in {"EXPIRED", "CANCELLED"} : Close(i, s)
Settles(i, e, r) ==
  /\ AttemptOpen(e, i, {"AWAITING", "EXPIRED"})
  /\ e # Nobody => Pays(e, i) /\ transfer[e].payer # Nobody
  /\ MarkPaid(i, e) /\ Credit(i, e, r)

(* No step changes money in another way: the confirmation of the phone, the *)
(* approval, the late credit and reconciliation all go through the attempt. *)
LEMMA MoneyStep ==
  ASSUME TypeInv, \A r \in Request : Sound(request[r]), IntakeNext
  PROVE  \/ UNCHANGED <<transfer, invoice, credits>>
         \/ UNCHANGED <<invoice, credits>> /\ \E e \in Transfer, i \in Invoice : PayInvoice(e, i)
         \/ /\ UNCHANGED transfer
            /\ \E i \in Invoice :
                 \/ Opens(i) \/ Closes(i)
                 \/ \E e \in Transfer \cup {Nobody}, r \in Request : Settles(i, e, r)
<1> DEFINE Goal == \/ UNCHANGED <<transfer, invoice, credits>>
                   \/ UNCHANGED <<invoice, credits>> /\ \E e \in Transfer, i \in Invoice : PayInvoice(e, i)
                   \/ /\ UNCHANGED transfer
                      /\ \E i \in Invoice :
                           \/ Opens(i) \/ Closes(i)
                           \/ \E e \in Transfer \cup {Nobody}, r \in Request : Settles(i, e, r)
<1> SUFFICES Goal
  OBVIOUS
<1>1. ASSUME NEW i \in Invoice, CreateInvoice(i) PROVE Goal
  BY <1>1 DEF CreateInvoice, Opens
<1>2. ASSUME NEW i \in Invoice, ExpireInvoice(i) \/ CancelInvoice(i) PROVE Goal
  BY <1>2 DEF ExpireInvoice, CancelInvoice, Closes
<1>3. ASSUME NEW e \in Transfer, NEW i \in Invoice, PayInvoice(e, i) PROVE Goal
  BY <1>3 DEF PayInvoice
<1>4. ASSUME NEW r \in Request, ConfirmCommit(r) PROVE Goal
  <2> DEFINE e == request[r].event
             i == request[r].invoice
  <2>1. /\ i \in Invoice /\ e \in Transfer \cup {Nobody}
        /\ e # Nobody => Pays(e, i) /\ transfer[e].payer # Nobody
    BY <1>4 DEF ConfirmCommit, TypeInv, Typed, RequestRow, Sound
  <2>2. CASE AttemptOpen(e, i, {"AWAITING"})
    BY <1>4, <2>1, <2>2 DEF ConfirmCommit, AttemptOpen, Settles
  <2>3. CASE ~AttemptOpen(e, i, {"AWAITING"})
    BY <1>4, <2>3 DEF ConfirmCommit
  <2>4. QED
    BY <2>2, <2>3
<1>5. ASSUME NEW a \in Admin, NEW i \in Invoice, CreditExpired(a, i) PROVE Goal
  BY <1>5 DEF CreditExpired, Settles, Request
<1>6. ASSUME NEW a \in Admin, LateWrite(a) PROVE Goal
  <2> DEFINE e == request[a].event
             i == request[a].invoice
  <2>1. /\ i \in Invoice /\ e \in Transfer \cup {Nobody} /\ a \in Request
        /\ e # Nobody => Pays(e, i) /\ transfer[e].payer # Nobody
    BY <1>6 DEF LateWrite, TypeInv, Typed, RequestRow, Sound, Request
  <2>2. CASE UNCHANGED <<invoice, credits>>
    BY <1>6, <2>2 DEF LateWrite
  <2>3. CASE /\ AttemptOpen(e, i, {"AWAITING", "EXPIRED"})
             /\ MarkPaid(i, e) /\ Credit(i, e, a)
    BY <1>6, <2>1, <2>3 DEF LateWrite, Settles
  <2>4. QED
    BY <1>6, <2>2, <2>3 DEF LateWrite
<1>7. ASSUME NEW h \in Handler, BeginEvent(h) \/ SearchTarget(h) \/ RejectEvent(h) PROVE Goal
  BY <1>7 DEF BeginEvent, SearchTarget, RejectEvent
<1>8. ASSUME NEW r \in Request, ConfirmRead(r) \/ Fail(r) PROVE Goal
  BY <1>8 DEF ConfirmRead, Fail
<1>9. ASSUME NEW a \in Admin, ReserveWrite(a) \/ LateRead(a) PROVE Goal
  BY <1>9 DEF ReserveWrite, LateRead
<1>10. ASSUME NEW a \in Admin, NEW i \in Invoice,
              Approve(a, i) \/ \E e \in Transfer : ReserveRead(a, e, i)
       PROVE  Goal
  BY <1>10 DEF Approve, ReserveRead
<1>11. CASE SendTimeout \/ IntakeTick \/ \E e \in Transfer : Capture(e)
  BY <1>11 DEF SendTimeout, IntakeTick, Capture
<1>12. QED
  BY <1>1, <1>2, <1>3, <1>4, <1>5, <1>6, <1>7, <1>8, <1>9, <1>10, <1>11
  DEF IntakeNext, HandlerStep, AdminStep, Request

(* What an invoice asks for and what a transfer was never change.           *)
LEMMA FactsStand ==
  ASSUME TypeInv, \A r \in Request : Sound(request[r]), IntakeNext
  PROVE  /\ \A e \in Transfer : transfer[e].payer # Nobody => transfer'[e] = transfer[e]
         /\ \A i \in Invoice :
              invoice[i].state # "NONE" =>
                /\ invoice'[i].state # "NONE" /\ invoice'[i].created = invoice[i].created
                /\ invoice'[i].amount = invoice[i].amount
<1>1. invoice \in [Invoice -> InvoiceRow]
  BY DEF TypeInv, IntakeTypeOK
<1>2. \A e \in Transfer : transfer[e].payer # Nobody => transfer'[e] = transfer[e]
  <2>1. CASE UNCHANGED transfer
    BY <2>1
  <2>2. CASE \E e \in Transfer, i \in Invoice : PayInvoice(e, i)
    BY <2>2 DEF PayInvoice, TypeInv, IntakeTypeOK
  <2>3. QED
    BY <2>1, <2>2, MoneyStep
<1>3. ASSUME NEW i \in Invoice, invoice[i].state # "NONE"
      PROVE  /\ invoice'[i].state # "NONE" /\ invoice'[i].created = invoice[i].created
             /\ invoice'[i].amount = invoice[i].amount
  <2>1. CASE UNCHANGED invoice
    BY <1>3, <2>1
  <2>2. ASSUME NEW j \in Invoice, Opens(j) PROVE invoice'[i] = invoice[i]
    BY <1>1, <1>3, <2>2 DEF Opens
  <2>3. ASSUME NEW j \in Invoice, Closes(j)
        PROVE  /\ invoice'[i].state # "NONE" /\ invoice'[i].created = invoice[i].created
               /\ invoice'[i].amount = invoice[i].amount
    BY <1>1, <1>3, <2>3 DEF Closes, Close, InvoiceRow
  <2>4. ASSUME NEW j \in Invoice, NEW e \in Transfer \cup {Nobody}, NEW r \in Request, Settles(j, e, r)
        PROVE  /\ invoice'[i].state # "NONE" /\ invoice'[i].created = invoice[i].created
               /\ invoice'[i].amount = invoice[i].amount
    BY <1>1, <1>3, <2>4 DEF Settles, MarkPaid, InvoiceRow
  <2>5. QED
    BY <1>3, <2>1, <2>2, <2>3, <2>4, MoneyStep
<1>4. QED
  BY <1>2, <1>3

(* So a transfer that pays an invoice goes on doing so, and the rows that   *)
(* were sound stay sound.                                                   *)
LEMMA PaysStands ==
  ASSUME TypeInv, \A r \in Request : Sound(request[r]), IntakeNext
  PROVE  /\ \A e \in Transfer, i \in Invoice :
              transfer[e].payer # Nobody /\ invoice[i].state # "NONE" /\ Pays(e, i) => Pays(e, i)'
         /\ \A r \in Request : Typed(request'[r]) /\ Sound(request'[r]) => Sound(request[r])'
<1>1. \A e \in Transfer, i \in Invoice :
        transfer[e].payer # Nobody /\ invoice[i].state # "NONE" /\ Pays(e, i) => Pays(e, i)'
  BY FactsStand DEF Pays, InWindow, ExpiresAt
<1>2. ASSUME NEW r \in Request, Typed(request'[r]), Sound(request'[r]) PROVE Sound(request[r])'
  <2>1. PICK e, i : e = request'[r].event /\ i = request'[r].invoice
    OBVIOUS
  <2>2. /\ e \in Transfer \cup {Nobody}
        /\ request'[r].stage \in {"COMMIT", "RESERVE", "LATE", "CREDIT"} => i \in Invoice
    BY <1>2, <2>1 DEF Typed, RequestRow
  <2>3. /\ e # Nobody => transfer'[e].payer # Nobody
        /\ request'[r].stage \in {"COMMIT", "RESERVE", "LATE", "CREDIT"} => invoice'[i].state # "NONE"
    BY <1>2, <2>1, <2>2, FactsStand DEF Sound
  <2>4. request'[r].stage \in {"COMMIT", "CREDIT"} /\ e # Nobody => Pays(e, i)'
    BY <1>1, <1>2, <2>1, <2>2 DEF Sound
  <2>5. QED
    BY <2>1, <2>3, <2>4 DEF Sound, Pays, InWindow, ExpiresAt
<1>3. QED
  BY <1>1, <1>2

(* What is reserved or credited late was asked for.                         *)
LEMMA ReserveAsked ==
  ASSUME NEW e \in Transfer, NEW i \in Invoice, Reservable(e, i)
  PROVE  invoice[i].state # "NONE" /\ event[e].status # "NONE"
BY DEF Reservable, ReconciliationState

(* Every row a step writes is sound: the money it is about to move was      *)
(* checked in the state it was read in.                                     *)
LEMMA RowsSound ==
  ASSUME MoneyInv, IntakeNext, NEW r \in Request
  PROVE  Sound(request'[r])
<1>1. /\ request \in [Request -> RequestRow] /\ Typed(request[r]) /\ Sound(request[r])
      /\ TypeInv /\ Captured
  BY DEF MoneyInv, TypeInv, IntakeTypeOK
<1>2. Sound(Idle)
  BY DEF Sound, Idle
<1>3. ASSUME NEW q \in Request, NEW row, Sound(row), request' = [request EXCEPT ![q] = row]
      PROVE  Sound(request'[r])
  BY <1>1, <1>3
<1>4. ASSUME NEW q \in Request, NEW accepted, Done(q, accepted) PROVE Sound(request'[r])
  BY <1>2, <1>3, <1>4 DEF Done
<1>5. ASSUME request' = request PROVE Sound(request'[r])
  BY <1>1, <1>5
<1>6. ASSUME NEW q \in Request, NEW s, Sound([request[q] EXCEPT !.stage = s]), Advance(q, s)
      PROVE  Sound(request'[r])
  BY <1>1, <1>3, <1>6 DEF Advance
<1>7. ASSUME NEW h \in Handler, BeginEvent(h) PROVE Sound(request'[r])
  <2> DEFINE e == Head(phone.queue)
             row == [Idle EXCEPT !.stage = "SEARCH", !.event = e]
  <2>1. phone.queue \in Seq(Transfer) /\ phone.queue # <<>>
    BY <1>1, <1>7 DEF BeginEvent, TypeInv, IntakeTypeOK
  <2>2. e \in Transfer /\ Queued(e)
    <3>1. 1 \in DOMAIN phone.queue /\ e = phone.queue[1] /\ e \in Transfer
      BY <2>1, HeadTailProperties
    <3>2. QED
      BY <3>1 DEF Queued
  <2>3. Sound(row)
    BY <1>1, <2>2 DEF Captured, Seen, Sound, Idle
  <2>4. request' = [request EXCEPT ![h] = row] \/ request' = request
    BY <1>7 DEF BeginEvent
  <2>5. QED
    BY <1>3, <1>5, <2>3, <2>4 DEF Request
<1>8. ASSUME NEW h \in Handler, SearchTarget(h) PROVE Sound(request'[r])
  <2>1. h \in Request /\ Sound(request[h]) /\ request[h] \in RequestRow
    BY <1>1 DEF MoneyInv, Request
  <2>2. PICK row : Sound(row) /\ request' = [request EXCEPT ![h] = row]
    <3>1. CASE request' = [request EXCEPT ![h].stage = "REJECT"]
      <4>1. Sound([request[h] EXCEPT !.stage = "REJECT"])
        BY <2>1 DEF Sound, RequestRow
      <4>2. QED
        BY <1>1, <2>1, <3>1, <4>1
    <3>2. ASSUME NEW i \in Invoice,
                 request' = [request EXCEPT ![h] = [@ EXCEPT !.stage = "CONFIRM", !.invoice = i]]
          PROVE  \E row : Sound(row) /\ request' = [request EXCEPT ![h] = row]
      <4>1. Sound([request[h] EXCEPT !.stage = "CONFIRM", !.invoice = i])
        BY <2>1 DEF Sound, RequestRow
      <4>2. QED
        BY <1>1, <2>1, <3>2, <4>1
    <3>3. QED
      BY <1>8, <3>1, <3>2 DEF SearchTarget, Match
  <2>3. QED
    BY <1>3, <2>1, <2>2
<1>9. ASSUME NEW q \in Request, ConfirmRead(q) PROVE Sound(request'[r])
  <2>1. /\ Sound(request[q]) /\ request[q] \in RequestRow
    BY <1>1 DEF MoneyInv
  <2>2. ASSUME CanConfirm(q) PROVE Sound([request[q] EXCEPT !.stage = "COMMIT"])
    BY <2>1, <2>2 DEF Sound, CanConfirm, EvidenceAccepted, RequestRow
  <2>3. QED
    BY <1>4, <1>6, <1>9, <2>2 DEF ConfirmRead, Advance
<1>10. ASSUME NEW a \in Admin, NEW i \in Invoice, Approve(a, i) PROVE Sound(request'[r])
  <2>1. Sound([stage |-> "CONFIRM", event |-> Nobody, invoice |-> i, late |-> FALSE])
    BY DEF Sound
  <2>2. QED
    BY <1>3, <1>10, <2>1 DEF Approve, Ask, Request
<1>11. ASSUME NEW a \in Admin, NEW e \in Transfer, NEW i \in Invoice, ReserveRead(a, e, i)
       PROVE  Sound(request'[r])
  <2>1. Reservable(e, i) /\ Ask(a, "RESERVE", e, i, ReconciliationState(i) = "expired")
    BY <1>11 DEF ReserveRead
  <2>2. Sound([stage |-> "RESERVE", event |-> e, invoice |-> i,
               late |-> ReconciliationState(i) = "expired"])
    BY <1>1, <2>1, ReserveAsked DEF Sound, Captured, Seen
  <2>3. QED
    BY <1>3, <2>1, <2>2 DEF Ask, Request
<1>12. ASSUME NEW a \in Admin, ReserveWrite(a) \/ LateRead(a) PROVE Sound(request'[r])
  <2>1. /\ a \in Request /\ Sound(request[a]) /\ request[a] \in RequestRow
    BY <1>1 DEF MoneyInv, Request
  <2>2. CASE ReserveWrite(a)
    <3>1. \A s \in {"LATE", "CONFIRM"} : Sound([request[a] EXCEPT !.stage = s])
      BY <2>1, <2>2 DEF ReserveWrite, Sound, RequestRow
    <3>2. QED
      BY <1>6, <2>1, <2>2, <3>1 DEF ReserveWrite
  <2>3. CASE LateRead(a)
    <3>1. ASSUME LateCreditable(request[a].event, request[a].invoice)
          PROVE  Sound([request[a] EXCEPT !.stage = "CREDIT"])
      BY <2>1, <2>3, <3>1 DEF LateRead, LateCreditable, Sound, RequestRow
    <3>2. QED
      BY <1>4, <1>6, <2>1, <2>3, <3>1 DEF LateRead
  <2>4. QED
    BY <1>12, <2>2, <2>3
<1>13. ASSUME NEW q \in Request, RejectEvent(q) \/ ConfirmCommit(q) \/ LateWrite(q) \/ Fail(q)
       PROVE  Sound(request'[r])
  BY <1>4, <1>13 DEF RejectEvent, ConfirmCommit, LateWrite, Fail
<1>14. CASE \/ SendTimeout \/ IntakeTick \/ \E e \in Transfer : Capture(e)
            \/ \E i \in Invoice : CreateInvoice(i) \/ ExpireInvoice(i) \/ CancelInvoice(i)
            \/ \E e \in Transfer, i \in Invoice : PayInvoice(e, i)
            \/ \E a \in Admin, i \in Invoice : CreditExpired(a, i)
  BY <1>5, <1>14 DEF SendTimeout, IntakeTick, Capture, CreateInvoice, ExpireInvoice, CancelInvoice,
                     PayInvoice, CreditExpired
<1>15. QED
  BY <1>7, <1>8, <1>9, <1>10, <1>11, <1>12, <1>13, <1>14 DEF IntakeNext, HandlerStep, AdminStep, Request

(* Only transfers that were made come to be seen.                           *)
LEMMA CapturedNext == ASSUME MoneyInv, IntakeNext PROVE Captured'
<1>1. TypeInv /\ Captured /\ \A r \in Request : Sound(request[r]) /\ Typed(request[r])
  BY DEF MoneyInv, TypeInv
<1>2. \A e \in Transfer : transfer[e].payer # Nobody => transfer'[e].payer # Nobody
  BY <1>1, FactsStand
<1>3. SUFFICES ASSUME NEW e \in Transfer, Queued(e)' \/ event'[e].status # "NONE"
               PROVE  Seen(e) \/ transfer[e].payer # Nobody
  BY <1>1, <1>2 DEF Captured, Seen
<1>4. ASSUME Queued(e)' PROVE Queued(e) \/ transfer[e].payer # Nobody
  <2>1. CASE phone'.queue = phone.queue
    BY <1>4, <2>1 DEF Queued
  <2>2. CASE phone'.queue = Tail(phone.queue) /\ phone.queue # <<>>
    <3>1. phone.queue \in Seq(Transfer)
      BY <1>1 DEF TypeInv, IntakeTypeOK
    <3>2. \A n \in DOMAIN Tail(phone.queue) :
            n + 1 \in DOMAIN phone.queue /\ Tail(phone.queue)[n] = phone.queue[n + 1]
      BY <2>2, <3>1, HeadTailProperties, LenProperties
    <3>3. QED
      BY <1>4, <2>2, <3>2 DEF Queued
  <2>3. CASE \E f \in Transfer : Capture(f)
    <3>1. PICK f \in Transfer : transfer[f].payer # Nobody /\ phone' = [phone EXCEPT !.queue = Append(@, f)]
      BY <2>3 DEF Capture
    <3>2. phone.queue \in Seq(Transfer) /\ phone'.queue = Append(phone.queue, f)
      BY <1>1, <3>1 DEF TypeInv, IntakeTypeOK
    <3>3. ASSUME NEW n \in DOMAIN phone'.queue
          PROVE  phone'.queue[n] = f \/ (n \in DOMAIN phone.queue /\ phone'.queue[n] = phone.queue[n])
      <4>1. /\ Append(phone.queue, f) \in Seq(Transfer)
            /\ Len(Append(phone.queue, f)) = Len(phone.queue) + 1
            /\ \A m \in 1 .. Len(phone.queue) : Append(phone.queue, f)[m] = phone.queue[m]
            /\ Append(phone.queue, f)[Len(phone.queue) + 1] = f
        BY <3>2, AppendProperties
      <4>2. /\ DOMAIN phone.queue = 1 .. Len(phone.queue)
            /\ DOMAIN phone'.queue = 1 .. Len(phone.queue) + 1
            /\ Len(phone.queue) \in Nat
        BY <3>2, <4>1, LenProperties
      <4>3. CASE n = Len(phone.queue) + 1
        BY <3>2, <4>1, <4>3
      <4>4. CASE n \in 1 .. Len(phone.queue)
        BY <3>2, <4>1, <4>2, <4>4
      <4>5. QED
        BY <3>3, <4>2, <4>3, <4>4
    <3>4. QED
      BY <1>4, <3>1, <3>3 DEF Queued
  <2>4. QED
    <3>1. ASSUME NEW r \in Request, NEW ok \in BOOLEAN, Done(r, ok)
          PROVE  phone'.queue = phone.queue \/ (phone'.queue = Tail(phone.queue) /\ phone.queue # <<>>)
      <4>1. CASE phone.waiting # r
        <5>1. phone' = phone
          BY <3>1, <4>1 DEF Done
        <5>2. QED
          BY <5>1
      <4>2. CASE phone.waiting = r
        <5>1. phone.queue # <<>>
          BY <1>1, <4>2, IntakeAssumption DEF TypeInv, Request
        <5>2. phone'.queue = IF ok THEN Tail(phone.queue) ELSE phone.queue
          BY <3>1, <4>2 DEF Done
        <5>3. QED
          BY <5>1, <5>2
      <4>3. QED
        BY <4>1, <4>2
    <3>2. phone \in [queue : Seq(Transfer), waiting : Handler \cup {Nobody}]
      BY <1>1 DEF TypeInv, IntakeTypeOK
    <3>3. ASSUME NEW h \in Handler, BeginEvent(h)
          PROVE  phone'.queue = phone.queue \/ (phone'.queue = Tail(phone.queue) /\ phone.queue # <<>>)
      BY <3>2, <3>3 DEF BeginEvent
    <3>4. ASSUME NEW r \in Request, \/ ConfirmRead(r) \/ ConfirmCommit(r) \/ RejectEvent(r)
                                    \/ LateRead(r) \/ LateWrite(r) \/ Fail(r)
          PROVE  phone'.queue = phone.queue \/ (phone'.queue = Tail(phone.queue) /\ phone.queue # <<>>)
      <4>1. phone' = phone \/ \E ok \in BOOLEAN : Done(r, ok)
        BY <3>4 DEF ConfirmRead, AlreadyPaidBy, ConfirmCommit, AttemptOpen, RejectEvent,
                    LateRead, LateWrite, Fail
      <4>2. phone' = phone => phone'.queue = phone.queue
        OBVIOUS
      <4>3. QED
        BY <3>1, <4>1, <4>2
    <3>5. ASSUME SendTimeout PROVE phone'.queue = phone.queue
      BY <3>2, <3>5 DEF SendTimeout
    <3>6. QED
      BY <2>1, <2>2, <2>3, <3>3, <3>4, <3>5
      DEF IntakeNext, HandlerStep, AdminStep, Request, CreateInvoice, ExpireInvoice, CancelInvoice,
          PayInvoice, IntakeTick, SearchTarget, Approve, CreditExpired, ReserveRead, ReserveWrite
<1>5. ASSUME event'[e].status # "NONE" PROVE Seen(e) \/ transfer[e].payer # Nobody
  <2>1. event \in [Transfer -> EventRow]
    BY <1>1 DEF TypeInv, IntakeTypeOK
  <2>2. CASE UNCHANGED event
    BY <1>5, <2>2 DEF Seen
  <2>3. ASSUME NEW r \in Request,
               \/ RejectEvent(r) \/ ReserveWrite(r)
               \/ \E i : MarkConfirmed(request[r].event, i)
        PROVE  Seen(e) \/ transfer[e].payer # Nobody
    <3>1. event'[e].status = event[e].status \/ e = request[r].event
      BY <2>1, <2>3 DEF RejectEvent, ReserveWrite, MarkConfirmed
    <3>2. e = request[r].event => transfer[e].payer # Nobody
      BY <1>1, IntakeAssumption DEF Sound
    <3>3. QED
      BY <1>5, <3>1, <3>2 DEF Seen
  <2>4. ASSUME NEW h \in Handler, BeginEvent(h) PROVE Seen(e) \/ transfer[e].payer # Nobody
    <3>1. phone.queue \in Seq(Transfer) /\ phone.queue # <<>>
      BY <1>1, <2>4 DEF BeginEvent, TypeInv, IntakeTypeOK
    <3>2. 1 \in DOMAIN phone.queue /\ Head(phone.queue) = phone.queue[1]
      BY <3>1, HeadTailProperties, LenProperties
    <3>3. event'[e].status = event[e].status \/ e = Head(phone.queue)
      BY <2>1, <2>4 DEF BeginEvent
    <3>4. QED
      BY <1>5, <3>2, <3>3 DEF Seen, Queued
  <2>5. ASSUME NEW r \in Request, ConfirmCommit(r) \/ LateWrite(r)
        PROVE  UNCHANGED event \/ \E i : MarkConfirmed(request[r].event, i)
    BY <2>5 DEF ConfirmCommit, LateWrite
  <2>6. QED
    BY <2>2, <2>3, <2>4, <2>5
    DEF IntakeNext, HandlerStep, AdminStep, Request, CreateInvoice, ExpireInvoice, CancelInvoice,
        PayInvoice, Capture, SendTimeout, IntakeTick, SearchTarget, ConfirmRead, Approve,
        CreditExpired, ReserveRead, LateRead, Fail
<1>6. QED
  BY <1>3, <1>4, <1>5 DEF Seen

(* A payment marks one invoice and gives for it what was not given yet.     *)
LEMMA SettleWrites ==
  ASSUME MoneyInv, NEW i \in Invoice, NEW e \in Transfer \cup {Nobody}, NEW r \in Request,
         Settles(i, e, r)
  PROVE  /\ invoice' = [invoice EXCEPT ![i] = [@ EXCEPT !.state = "PAID", !.attempt = "CONFIRMED",
                                                       !.matched = e]]
         /\ invoice'[i].state = "PAID" /\ invoice'[i].attempt = "CONFIRMED"
         /\ invoice'[i].matched = e
         /\ \A j \in Invoice : j # i => invoice'[j] = invoice[j] /\ credits'[j] = credits[j]
         /\ invoice[i].state # "PAID" /\ invoice[i].matched = Nobody
         /\ credits[i] = <<>> /\ credits'[i] = <<[event |-> e, by |-> r]>>
<1>1. invoice \in [Invoice -> InvoiceRow] /\ credits \in [Invoice -> Seq([event : Transfer \cup {Nobody}, by : Request])]
  BY DEF MoneyInv, TypeInv, IntakeTypeOK
<1>2. invoice[i].state # "PAID" /\ invoice[i].matched = Nobody
  BY DEF Settles, AttemptOpen, MoneyInv, PaidConfirmed
<1>3. credits[i] = <<>>
  BY <1>2 DEF MoneyInv, CreditedOnce
<1>4. /\ invoice' = [invoice EXCEPT ![i] = [@ EXCEPT !.state = "PAID", !.attempt = "CONFIRMED",
                                                    !.matched = e]]
      /\ credits' = [credits EXCEPT ![i] = <<[event |-> e, by |-> r]>>]
  BY <1>3 DEF Settles, MarkPaid, Credit
<1>5. [invoice[i] EXCEPT !.state = "PAID", !.attempt = "CONFIRMED", !.matched = e].state = "PAID"
  BY <1>1 DEF InvoiceRow
<1>6. [invoice[i] EXCEPT !.state = "PAID", !.attempt = "CONFIRMED", !.matched = e].attempt = "CONFIRMED"
  BY <1>1 DEF InvoiceRow
<1>7. [invoice[i] EXCEPT !.state = "PAID", !.attempt = "CONFIRMED", !.matched = e].matched = e
  BY <1>1 DEF InvoiceRow
<1>8. QED
  BY <1>1, <1>2, <1>3, <1>4, <1>5, <1>6, <1>7

(* The other changes leave a paid invoice, its transfer and its credit.     *)
LEMMA OtherWrites ==
  ASSUME MoneyInv, NEW i \in Invoice, Opens(i) \/ Closes(i)
  PROVE  /\ credits' = credits
         /\ invoice[i].state \in {"NONE", "PENDING"} /\ invoice'[i].state \in {"PENDING", "EXPIRED", "CANCELLED"}
         /\ invoice'[i].matched \in {Nobody, invoice[i].matched}
         /\ \A j \in Invoice : j # i => invoice'[j] = invoice[j]
<1>1. invoice \in [Invoice -> InvoiceRow]
  BY DEF MoneyInv, TypeInv, IntakeTypeOK
<1>2. CASE Opens(i)
  BY <1>1, <1>2 DEF Opens
<1>3. CASE Closes(i)
  BY <1>1, <1>3 DEF Closes, Close, InvoiceRow
<1>4. QED
  BY <1>2, <1>3

(* A step leaves a paid invoice as it is.                                   *)
LEMMA PaidStays ==
  ASSUME MoneyInv, [IntakeNext]_intakeVars, NEW i \in Invoice, invoice[i].state = "PAID"
  PROVE  invoice'[i] = invoice[i]
<1>1. CASE UNCHANGED invoice
  BY <1>1
<1>2. CASE UNCHANGED intakeVars
  BY <1>2 DEF intakeVars
<1>3. ASSUME NEW j \in Invoice, Opens(j) \/ Closes(j) PROVE invoice'[i] = invoice[i]
  BY <1>3, OtherWrites
<1>4. ASSUME NEW j \in Invoice, NEW e \in Transfer \cup {Nobody}, NEW r \in Request, Settles(j, e, r)
      PROVE  invoice'[i] = invoice[i]
  BY <1>4, SettleWrites
<1>5. QED
  BY <1>1, <1>2, <1>3, <1>4, MoneyStep DEF MoneyInv

(* What is given is given once, and the attempt of what is paid is closed.  *)
LEMMA CreditedOnceNext == ASSUME MoneyInv, IntakeNext PROVE CreditedOnce' /\ PaidConfirmed'
<1>1. CreditedOnce /\ PaidConfirmed
  BY DEF MoneyInv
<1>2. CASE UNCHANGED <<invoice, credits>>
  BY <1>1, <1>2 DEF CreditedOnce, PaidConfirmed
<1>3. ASSUME NEW i \in Invoice, Opens(i) \/ Closes(i) PROVE CreditedOnce' /\ PaidConfirmed'
  BY <1>1, <1>3, OtherWrites DEF CreditedOnce, PaidConfirmed
<1>4. ASSUME NEW i \in Invoice, NEW e \in Transfer \cup {Nobody}, NEW r \in Request, Settles(i, e, r)
      PROVE  CreditedOnce' /\ PaidConfirmed'
  <2>1. Len(<<[event |-> e, by |-> r]>>) = 1 /\ <<[event |-> e, by |-> r]>> # <<>>
    OBVIOUS
  <2>2. ASSUME NEW j \in Invoice
        PROVE  Len(credits'[j]) <= 1 /\ (invoice'[j].state = "PAID" <=> credits'[j] # <<>>)
    <3>1. CASE j = i
      <4>1. invoice'[j].state = "PAID" /\ credits'[j] = <<[event |-> e, by |-> r]>>
        BY <1>4, <3>1, SettleWrites
      <4>2. QED
        BY <2>1, <4>1
    <3>2. CASE j # i
      <4>1. invoice'[j] = invoice[j] /\ credits'[j] = credits[j]
        BY <1>4, <3>2, SettleWrites
      <4>2. QED
        BY <1>1, <4>1 DEF CreditedOnce
    <3>3. QED
      BY <3>1, <3>2
  <2>3. PaidConfirmed'
    BY <1>1, <1>4, SettleWrites DEF PaidConfirmed
  <2>4. QED
    BY <2>2, <2>3 DEF CreditedOnce
<1>5. QED
  BY <1>2, <1>3, <1>4, MoneyStep DEF MoneyInv

(* The unique index holds, as a payment looks for other rows of its event.  *)
LEMMA MatchedOnceNext == ASSUME MoneyInv, IntakeNext PROVE MatchedOnce'
<1>1. MatchedOnce /\ invoice \in [Invoice -> InvoiceRow] /\ provider' = provider
  BY DEF MoneyInv, TypeInv, IntakeTypeOK, IntakeNext, HandlerStep, AdminStep, CreateInvoice,
     ExpireInvoice, CancelInvoice, PayInvoice, Capture, SendTimeout, IntakeTick, BeginEvent,
     SearchTarget, RejectEvent, ConfirmRead, ConfirmCommit, Approve, CreditExpired, ReserveRead,
     ReserveWrite, LateRead, LateWrite, Fail
<1>2. SUFFICES ASSUME NEW j \in Invoice, NEW k \in Invoice, SameTable(j, k)',
                      invoice'[j].matched # Nobody, invoice'[j].matched = invoice'[k].matched
               PROVE  j = k
  BY DEF MatchedOnce
<1>3. SameTable(j, k) /\ SameTable(k, j)
  BY <1>1, <1>2 DEF SameTable
<1>4. CASE UNCHANGED invoice
  BY <1>1, <1>2, <1>3, <1>4 DEF MatchedOnce
<1>5. ASSUME NEW i \in Invoice, Opens(i) \/ Closes(i) PROVE j = k
  <2>1. \A n \in Invoice : invoice'[n].matched \in {Nobody, invoice[n].matched}
    BY <1>5, OtherWrites
  <2>2. QED
    BY <1>1, <1>2, <1>3, <2>1 DEF MatchedOnce
<1>6. ASSUME NEW i \in Invoice, NEW e \in Transfer \cup {Nobody}, NEW r \in Request, Settles(i, e, r)
      PROVE  j = k
  <2>1. e = Nobody \/ \A n \in Invoice : SameTable(i, n) => invoice[n].matched # e
    BY <1>6 DEF Settles, AttemptOpen, Unclaimed
  <2>2. /\ invoice'[i].matched = e
        /\ \A n \in Invoice : n # i => invoice'[n] = invoice[n]
    BY <1>6, SettleWrites
  <2>3. CASE j = i \/ k = i
    BY <1>2, <1>3, <2>1, <2>2, <2>3
  <2>4. CASE j # i /\ k # i
    BY <1>1, <1>2, <1>3, <2>2, <2>4 DEF MatchedOnce
  <2>5. QED
    BY <2>3, <2>4
<1>7. QED
  BY <1>4, <1>5, <1>6, MoneyStep DEF MoneyInv

(* What was given goes on agreeing with its transfer.                       *)
LEMMA EvidenceNext == ASSUME MoneyInv, IntakeNext PROVE Evidence'
<1>1. SUFFICES ASSUME NEW e \in Transfer, NEW i \in Invoice, CreditedBy(e, i)'
               PROVE  invoice'[i].matched = e /\ Pays(e, i)' /\ transfer'[e].payer # Nobody
  BY DEF Evidence
<1>2. /\ TypeInv /\ Evidence /\ CreditedOnce
      /\ \A r \in Request : Sound(request[r])
  BY DEF MoneyInv
<1>3. CASE CreditedBy(e, i)
  <2>1. /\ invoice[i].matched = e /\ Pays(e, i) /\ transfer[e].payer # Nobody
        /\ invoice[i].state = "PAID"
    BY <1>2, <1>3 DEF Evidence, CreditedBy, CreditedOnce
  <2>2. invoice'[i] = invoice[i]
    BY <2>1, PaidStays
  <2>3. QED
    BY <1>2, <2>1, <2>2, PaysStands, FactsStand
<1>4. CASE ~CreditedBy(e, i)
  <2>1. credits'[i] # credits[i]
    BY <1>1, <1>4 DEF CreditedBy
  <2>2. PICK j \in Invoice, f \in Transfer \cup {Nobody}, r \in Request :
             Settles(j, f, r) /\ UNCHANGED transfer
    BY <1>2, <2>1, MoneyStep, OtherWrites
  <2>3. j = i /\ credits'[i] = <<[event |-> f, by |-> r]>>
    BY <2>1, <2>2, SettleWrites
  <2>4. f = e
    BY <1>1, <2>3 DEF CreditedBy
  <2>5. /\ Pays(e, i) /\ transfer[e].payer # Nobody /\ invoice'[i].matched = e
        /\ invoice[i].attempt \in {"AWAITING", "EXPIRED"}
    BY <2>2, <2>3, <2>4, SettleWrites, IntakeAssumption DEF Settles, AttemptOpen
  <2>6. Pays(e, i)'
    <3>1. /\ invoice'[i].amount = invoice[i].amount /\ invoice'[i].created = invoice[i].created
      BY <2>2, <2>3 DEF Settles, MarkPaid, MoneyInv, TypeInv, IntakeTypeOK, InvoiceRow
    <3>2. QED
      BY <2>2, <2>5, <3>1 DEF Pays, InWindow, ExpiresAt
  <2>7. QED
    BY <2>2, <2>5, <2>6
<1>5. QED
  BY <1>3, <1>4

(* The empty shop satisfies the invariant.                                  *)
LEMMA MoneyInit == IntakeInit => MoneyInv
<1> SUFFICES ASSUME IntakeInit PROVE MoneyInv
  OBVIOUS
<1>1. Captured
  BY DEF IntakeInit, Captured, Seen, Queued
<1>2. \A r \in Request : Sound(request[r])
  BY DEF IntakeInit, Sound, Idle
<1>3. CreditedOnce /\ PaidConfirmed /\ MatchedOnce /\ Evidence
  BY DEF IntakeInit, CreditedOnce, PaidConfirmed, MatchedOnce, Evidence, CreditedBy
<1>4. QED
  BY <1>1, <1>2, <1>3, TypeInit DEF MoneyInv

(* Every step keeps it.                                                     *)
LEMMA MoneyNext == MoneyInv /\ [IntakeNext]_intakeVars => MoneyInv'
<1>1. ASSUME MoneyInv, IntakeNext PROVE MoneyInv'
  <2>1. TypeInv' /\ \A r \in Request : Typed(request'[r])
    BY <1>1, TypeNext DEF MoneyInv, TypeInv, Request
  <2>2. \A r \in Request : Sound(request[r])'
    BY <1>1, <2>1, RowsSound, PaysStands DEF MoneyInv
  <2>3. Captured' /\ CreditedOnce' /\ PaidConfirmed' /\ MatchedOnce' /\ Evidence'
    BY <1>1, CapturedNext, CreditedOnceNext, MatchedOnceNext, EvidenceNext
  <2>4. QED
    BY <2>1, <2>2, <2>3 DEF MoneyInv, Request
<1>2. ASSUME MoneyInv, UNCHANGED intakeVars PROVE MoneyInv'
  BY <1>2, TypeNext DEF intakeVars, MoneyInv, Captured, Seen, Queued, Sound, CreditedOnce, PaidConfirmed,
     MatchedOnce, SameTable, Evidence, CreditedBy, Pays, InWindow, ExpiresAt
<1>3. QED
  BY <1>1, <1>2

------------------------------------------------------------------------------
(* The theorems.                                                            *)

(* The invariant holds for ever.                                            *)
LEMMA MoneyInvariant == IntakeSpec => []MoneyInv
BY MoneyInit, MoneyNext, PTL DEF IntakeSpec

(* What an invoice asks for is given at most once, and exactly when it is   *)
(* paid, whoever confirms, reconciles, expires or cancels it meanwhile.     *)
THEOREM InvoicesCreditedOnce == IntakeSpec => []CreditedOnce
<1>1. MoneyInv => CreditedOnce
  BY DEF MoneyInv
<1>2. QED
  BY <1>1, MoneyInvariant, PTL

(* Nothing takes a paid invoice back or gives it another transfer.          *)
THEOREM PaymentsAreFinal == IntakeSpec => PaidIsFinal
<1>1. ASSUME MoneyInv, [IntakeNext]_intakeVars
      PROVE  [\A i \in Invoice : invoice[i].state = "PAID" => invoice'[i] = invoice[i]]_intakeVars
  BY <1>1, PaidStays
<1>2. QED
  BY <1>1, MoneyInvariant, PTL DEF IntakeSpec, PaidIsFinal

(* What was given for a transfer asked for its amount, in its time.         *)
THEOREM CreditsHaveEvidence == IntakeSpec => []EvidenceAgrees
<1>1. ASSUME MoneyInv PROVE EvidenceAgrees
  <2>1. SUFFICES ASSUME NEW e \in Transfer, NEW i \in Invoice, CreditedBy(e, i)
                 PROVE  /\ transfer[e].amount = invoice[i].amount /\ invoice[i].matched = e
                        /\ transfer[e].posted \in invoice[i].created - Skew
                                                  .. invoice[i].created + Life + Skew
    BY DEF EvidenceAgrees
  <2>2. invoice[i].matched = e /\ Pays(e, i)
    BY <1>1, <2>1 DEF MoneyInv, Evidence
  <2>3. invoice[i].created \in Nat /\ transfer[e].posted \in Nat /\ Skew \in Nat /\ Life \in Nat
    BY <1>1, IntakeAssumption DEF MoneyInv, TypeInv, IntakeTypeOK, InvoiceRow
  <2>4. QED
    BY <2>2, <2>3 DEF Pays, InWindow, ExpiresAt
<1>2. QED
  BY <1>1, MoneyInvariant, PTL

(* One transfer pays one invoice of a table.                                *)
THEOREM EventsPayOnce == IntakeSpec => []OneInvoicePerEvent
<1>1. ASSUME MoneyInv PROVE OneInvoicePerEvent
  <2>1. SUFFICES ASSUME NEW e \in Transfer, NEW i \in Invoice, NEW j \in Invoice,
                        CreditedBy(e, i), CreditedBy(e, j), SameTable(i, j)
                 PROVE  i = j
    BY DEF OneInvoicePerEvent
  <2>2. invoice[i].matched = e /\ invoice[j].matched = e /\ e # Nobody
    BY <1>1, <2>1, IntakeAssumption DEF MoneyInv, Evidence
  <2>3. QED
    BY <1>1, <2>1, <2>2 DEF MoneyInv, MatchedOnce
<1>2. QED
  BY <1>1, MoneyInvariant, PTL

------------------------------------------------------------------------------
(* A transfer that is shown as confirmed was credited.  This rests on the  *)
(* lock of an order: while a confirmation is between its read and its      *)
(* write the order stays open, so an order that was late when a payment    *)
(* was reserved for it can only have been credited by an administrator.    *)

CreditedByHand(i) == credits[i] # <<>> /\ credits[i][1].by \in Admin

(* An order a confirmation is about to pay is open.                         *)
CommitsOpen ==
  \A r \in Request :
    Commits(r) /\ request[r].invoice \in OrderInvoice => invoice[request[r].invoice].state = "PENDING"

(* One confirmation at a time is about to pay an invoice.                   *)
CommitsAlone ==
  \A q, r \in Request :
    Commits(q) /\ Commits(r) /\ request[q].invoice = request[r].invoice => q = r

(* What is reserved or credited as late for an order was late, and the      *)
(* order has since been credited by an administrator or not at all.         *)
LateRow(row) ==
  /\ row.stage \in {"LATE", "CREDIT"} => row.late
  /\ row.stage \in {"RESERVE", "LATE", "CREDIT"} /\ row.late /\ row.invoice \in OrderInvoice =>
       invoice[row.invoice].state = "EXPIRED" \/ CreditedByHand(row.invoice)

LockInv ==
  /\ MoneyInv /\ CommitsOpen /\ CommitsAlone
  /\ \A r \in Request : LateRow(request[r])
  /\ ConfirmedIsCredited

------------------------------------------------------------------------------
(* How the rows of the requests change.                                     *)
Unlocking == {"IDLE", "SEARCH", "REJECT", "CONFIRM"}
BeginsCommit(r) ==
  /\ request[r].stage = "CONFIRM" /\ ~Locked(request[r].invoice) /\ CanConfirm(r)
  /\ request'[r].stage = "COMMIT" /\ request'[r].invoice = request[r].invoice
  /\ \A q \in Request : q # r => request'[q] = request[q]
  /\ UNCHANGED <<invoice, credits>>
BeginsReserve(r) ==
  /\ request'[r].stage = "RESERVE"
  /\ request'[r].late => ReconciliationState(request'[r].invoice) = "expired"
  /\ UNCHANGED <<invoice, credits>>
GoesOnLate(r) ==
  /\ request[r].stage \in {"RESERVE", "LATE"} /\ request[r].late
  /\ request'[r].stage \in {"LATE", "CREDIT"} /\ request'[r].late
  /\ request'[r].invoice = request[r].invoice
  /\ UNCHANGED <<invoice, credits>>

(* A row stays, is of no concern here, or changes in one of these ways.     *)
LEMMA RowStep ==
  ASSUME LockInv, IntakeNext, NEW r \in Request
  PROVE  \/ request'[r] = request[r] \/ request'[r].stage \in Unlocking
         \/ BeginsCommit(r) \/ BeginsReserve(r) \/ GoesOnLate(r)
<1> DEFINE Goal == \/ request'[r] = request[r] \/ request'[r].stage \in Unlocking
                   \/ BeginsCommit(r) \/ BeginsReserve(r) \/ GoesOnLate(r)
<1> SUFFICES Goal
  OBVIOUS
<1>1. /\ request \in [Request -> RequestRow] /\ \A q \in Request : Typed(request[q])
      /\ \A q \in Request : LateRow(request[q])
  BY DEF LockInv, MoneyInv, TypeInv, IntakeTypeOK
<1>2. ASSUME NEW q \in Request, NEW accepted, Done(q, accepted) PROVE Goal
  BY <1>1, <1>2 DEF Done, Idle, Unlocking
<1>3. ASSUME NEW h \in Handler, BeginEvent(h) PROVE Goal
  <2>1. \/ request' = request
        \/ request' = [request EXCEPT ![h] = [Idle EXCEPT !.stage = "SEARCH", !.event = Head(phone.queue)]]
    BY <1>3 DEF BeginEvent
  <2>2. QED
    BY <1>1, <2>1 DEF Idle, Unlocking, Request
<1>4. ASSUME NEW h \in Handler, SearchTarget(h) PROVE Goal
  <2>1. \A q \in Request : q # h => request'[q] = request[q]
    BY <1>1, <1>4 DEF SearchTarget
  <2>2. request'[h].stage \in {"REJECT", "CONFIRM"}
    BY <1>1, <1>4 DEF SearchTarget, Request, RequestRow
  <2>3. QED
    BY <2>1, <2>2 DEF Unlocking
<1>5. ASSUME NEW q \in Request, ConfirmRead(q) PROVE Goal
  <2>1. CASE ~CanConfirm(q)
    BY <1>2, <1>5, <2>1 DEF ConfirmRead
  <2>2. CASE CanConfirm(q)
    <3>1. request' = [request EXCEPT ![q].stage = "COMMIT"] /\ UNCHANGED <<invoice, credits>>
      BY <1>5, <2>2 DEF ConfirmRead
    <3>2. /\ request'[q].stage = "COMMIT" /\ request'[q].invoice = request[q].invoice
          /\ \A p \in Request : p # q => request'[p] = request[p]
      BY <1>1, <3>1 DEF RequestRow
    <3>3. BeginsCommit(q)
      BY <1>5, <2>2, <3>1, <3>2 DEF ConfirmRead, BeginsCommit
    <3>4. QED
      BY <3>2, <3>3
  <2>3. QED
    BY <2>1, <2>2
<1>6. ASSUME NEW a \in Admin, NEW i \in Invoice, Approve(a, i) PROVE Goal
  BY <1>1, <1>6 DEF Approve, Ask, Unlocking, Request
<1>7. ASSUME NEW a \in Admin, NEW e \in Transfer, NEW i \in Invoice, ReserveRead(a, e, i) PROVE Goal
  <2>1. ASSUME NEW late \in BOOLEAN, late => ReconciliationState(i) = "expired",
               Ask(a, "RESERVE", e, i, late), UNCHANGED <<invoice, credits>>
        PROVE  Goal
    <3>1. request' = [request EXCEPT ![a] = [stage |-> "RESERVE", event |-> e, invoice |-> i, late |-> late]]
      BY <2>1 DEF Ask
    <3>2. CASE r # a
      BY <1>1, <3>1, <3>2
    <3>3. CASE r = a
      <4>1. request'[r] = [stage |-> "RESERVE", event |-> e, invoice |-> i, late |-> late]
        BY <1>1, <3>1, <3>3
      <4>2. QED
        BY <2>1, <4>1 DEF BeginsReserve
    <3>4. QED
      BY <3>2, <3>3
  <2>2. (ReconciliationState(i) = "expired") \in BOOLEAN
    OBVIOUS
  <2>3. QED
    BY <1>7, <2>1, <2>2 DEF ReserveRead
<1>8. ASSUME NEW a \in Admin, ReserveWrite(a) PROVE Goal
  <2>1. a \in Request /\ request[a].stage = "RESERVE" /\ request[a] \in RequestRow
    BY <1>1, <1>8 DEF ReserveWrite, Request
  <2> DEFINE s == IF request[a].late THEN "LATE" ELSE "CONFIRM"
  <2>2. /\ request' = [request EXCEPT ![a].stage = s]
        /\ UNCHANGED <<invoice, credits>>
    BY <1>8 DEF ReserveWrite, Advance
  <2>3. /\ request'[a].stage = s /\ request'[a].late = request[a].late
        /\ request'[a].invoice = request[a].invoice
        /\ \A p \in Request : p # a => request'[p] = request[p]
    BY <1>1, <2>1, <2>2 DEF RequestRow
  <2>4. CASE request[a].late
    BY <2>1, <2>2, <2>3, <2>4 DEF GoesOnLate
  <2>5. CASE ~request[a].late
    BY <2>3, <2>5 DEF Unlocking
  <2>6. QED
    BY <2>4, <2>5
<1>9. ASSUME NEW a \in Admin, LateRead(a) PROVE Goal
  <2>1. a \in Request /\ request[a].stage = "LATE" /\ request[a] \in RequestRow /\ request[a].late
    BY <1>1, <1>9 DEF LateRead, Request, LateRow
  <2>2. CASE Advance(a, "CREDIT") /\ UNCHANGED phone
    <3>1. /\ request'[a].stage = "CREDIT" /\ request'[a].late = request[a].late
          /\ request'[a].invoice = request[a].invoice
          /\ \A p \in Request : p # a => request'[p] = request[p]
      BY <1>1, <2>1, <2>2 DEF Advance, RequestRow
    <3>2. QED
      BY <1>9, <2>1, <3>1 DEF GoesOnLate, LateRead
  <2>3. CASE Done(a, FALSE)
    BY <1>2, <2>1, <2>3
  <2>4. QED
    BY <1>9, <2>2, <2>3 DEF LateRead
<1>10. ASSUME NEW q \in Request, RejectEvent(q) \/ ConfirmCommit(q) \/ LateWrite(q) \/ Fail(q) PROVE Goal
  BY <1>2, <1>10 DEF RejectEvent, ConfirmCommit, LateWrite, Fail
<1>11. CASE \/ SendTimeout \/ IntakeTick \/ \E e \in Transfer : Capture(e)
            \/ \E i \in Invoice : CreateInvoice(i) \/ ExpireInvoice(i) \/ CancelInvoice(i)
            \/ \E e \in Transfer, i \in Invoice : PayInvoice(e, i)
            \/ \E a \in Admin, i \in Invoice : CreditExpired(a, i)
  BY <1>11 DEF SendTimeout, IntakeTick, Capture, CreateInvoice, ExpireInvoice, CancelInvoice,
               PayInvoice, CreditExpired
<1>12. QED
  BY <1>3, <1>4, <1>5, <1>6, <1>7, <1>8, <1>9, <1>10, <1>11
  DEF IntakeNext, HandlerStep, AdminStep, Request
------------------------------------------------------------------------------
(* An administrator credits an expired order.                               *)
CreditedLate(i) ==
  /\ invoice[i].state = "EXPIRED" /\ credits[i] = <<>>
  /\ credits'[i] # <<>> /\ credits'[i][1].by \in Admin

(* An order and what was given for it change under its lock only, or by the *)
(* transaction that has it.                                                 *)
LEMMA OrderStep ==
  ASSUME LockInv, IntakeNext, NEW i \in OrderInvoice
  PROVE  \/ invoice'[i] = invoice[i] /\ credits'[i] = credits[i]
         \/ invoice[i].state = "NONE" /\ credits'[i] = credits[i]
         \/ \E r \in Request : ConfirmCommit(r) /\ request[r].invoice = i
         \/ ~Locked(i) /\ invoice[i].state = "PENDING" /\ credits'[i] = credits[i]
         \/ ~Locked(i) /\ CreditedLate(i)
<1> DEFINE Same == invoice'[i] = invoice[i] /\ credits'[i] = credits[i]
           Goal == \/ Same
                   \/ invoice[i].state = "NONE" /\ credits'[i] = credits[i]
                   \/ \E r \in Request : ConfirmCommit(r) /\ request[r].invoice = i
                   \/ ~Locked(i) /\ invoice[i].state = "PENDING" /\ credits'[i] = credits[i]
                   \/ ~Locked(i) /\ CreditedLate(i)
<1> SUFFICES Goal
  OBVIOUS
<1>1. /\ MoneyInv /\ TypeInv /\ i \in Invoice /\ invoice \in [Invoice -> InvoiceRow]
      /\ credits \in [Invoice -> Seq([event : Transfer \cup {Nobody}, by : Request])]
      /\ \A r \in Request : Sound(request[r])
  BY DEF LockInv, MoneyInv, TypeInv, IntakeTypeOK, Invoice
<1>2. ASSUME NEW j \in Invoice, CreateInvoice(j) PROVE Goal
  BY <1>1, <1>2 DEF CreateInvoice
<1>3. ASSUME NEW j \in Invoice, ExpireInvoice(j) \/ CancelInvoice(j) PROVE Goal
  BY <1>1, <1>3 DEF ExpireInvoice, CancelInvoice, Close
<1>4. ASSUME NEW j \in Invoice, j # i, NEW e, NEW r, MarkPaid(j, e), Credit(j, e, r) PROVE Goal
  BY <1>1, <1>4 DEF MarkPaid, Credit
<1>5. ASSUME NEW r \in Request, ConfirmCommit(r) PROVE Goal
  <2>1. request[r].invoice \in Invoice
    BY <1>1, <1>5 DEF ConfirmCommit, TypeInv, Typed
  <2>2. CASE request[r].invoice = i
    BY <1>5, <2>2
  <2>3. CASE request[r].invoice # i
    BY <1>4, <1>5, <2>1, <2>3 DEF ConfirmCommit
  <2>4. QED
    BY <2>2, <2>3
<1>6. ASSUME NEW e \in Transfer \cup {Nobody}, NEW a \in Admin, ~Locked(i),
             AttemptOpen(e, i, {"AWAITING", "EXPIRED"}), invoice[i].state = "EXPIRED",
             MarkPaid(i, e), Credit(i, e, a)
      PROVE  Goal
  <2>1. credits[i] = <<>>
    BY <1>1, <1>6 DEF MoneyInv, CreditedOnce
  <2>2. credits'[i] = <<[event |-> e, by |-> a]>>
    BY <1>1, <1>6, <2>1 DEF Credit
  <2>3. credits'[i] # <<>> /\ credits'[i][1] = [event |-> e, by |-> a]
    BY <2>2
  <2>4. QED
    BY <1>6, <2>1, <2>3 DEF CreditedLate
<1>7. ASSUME NEW a \in Admin, NEW j \in Invoice, CreditExpired(a, j) PROVE Goal
  <2>1. invoice[j].state = "EXPIRED"
    BY <1>7 DEF CreditExpired, RecoveryAction
  <2>2. CASE j = i
    BY <1>6, <1>7, <2>1, <2>2 DEF CreditExpired
  <2>3. CASE j # i
    BY <1>4, <1>7, <2>3 DEF CreditExpired
  <2>4. QED
    BY <2>2, <2>3
<1>8. ASSUME NEW a \in Admin, LateWrite(a) PROVE Goal
  <2> DEFINE e == request[a].event
             j == request[a].invoice
  <2>1. j \in Invoice /\ e \in Transfer
    BY <1>1, <1>8 DEF LateWrite, TypeInv, Typed, Request
  <2>2. CASE UNCHANGED <<invoice, credits>>
    BY <2>2
  <2>3. CASE /\ AttemptOpen(e, j, {"AWAITING", "EXPIRED"})
             /\ j \in OrderInvoice => invoice[j].state = "EXPIRED" /\ ~Locked(j)
             /\ MarkPaid(j, e) /\ Credit(j, e, a)
    <3>1. CASE j = i
      BY <1>6, <2>1, <2>3, <3>1
    <3>2. CASE j # i
      BY <1>4, <2>1, <2>3, <3>2
    <3>3. QED
      BY <3>1, <3>2
  <2>4. QED
    BY <1>8, <2>2, <2>3 DEF LateWrite
<1>9. ASSUME UNCHANGED <<invoice, credits>> PROVE Goal
  BY <1>9
<1>10. ASSUME NEW h \in Handler, BeginEvent(h) \/ SearchTarget(h) \/ RejectEvent(h) PROVE Goal
  BY <1>9, <1>10 DEF BeginEvent, SearchTarget, RejectEvent
<1>11. ASSUME NEW r \in Request, ConfirmRead(r) \/ Fail(r) PROVE Goal
  BY <1>9, <1>11 DEF ConfirmRead, Fail
<1>12. ASSUME NEW a \in Admin, ReserveWrite(a) \/ LateRead(a) PROVE Goal
  BY <1>9, <1>12 DEF ReserveWrite, LateRead
<1>13. CASE \/ SendTimeout \/ IntakeTick \/ \E e \in Transfer : Capture(e)
            \/ \E e \in Transfer, j \in Invoice : PayInvoice(e, j)
            \/ \E a \in Admin, j \in Invoice : Approve(a, j)
            \/ \E a \in Admin, e \in Transfer, j \in Invoice : ReserveRead(a, e, j)
  BY <1>9, <1>13 DEF SendTimeout, IntakeTick, Capture, PayInvoice, Approve, ReserveRead
<1>14. QED
  BY <1>2, <1>3, <1>5, <1>7, <1>8, <1>10, <1>11, <1>12, <1>13
  DEF IntakeNext, HandlerStep, AdminStep, Request

(* What is about to be paid stays open and alone.                           *)
LEMMA CommitsNext == ASSUME LockInv, IntakeNext PROVE CommitsOpen' /\ CommitsAlone'
<1>1. /\ CommitsOpen /\ CommitsAlone /\ request \in [Request -> RequestRow]
      /\ \A r \in Request : Sound(request[r])
  BY DEF LockInv, MoneyInv, TypeInv, IntakeTypeOK
<1>2. \A r \in Request : ~BeginsCommit(r) /\ request'[r].stage = "COMMIT" => request'[r] = request[r]
  BY RowStep DEF BeginsReserve, GoesOnLate, Unlocking
<1>3. ASSUME NEW r \in Request, request'[r].stage = "COMMIT", request'[r].invoice \in OrderInvoice
      PROVE  invoice'[request'[r].invoice].state = "PENDING"
  <2> DEFINE i == request'[r].invoice
  <2>1. CASE BeginsCommit(r)
    BY <2>1 DEF BeginsCommit, CanConfirm
  <2>2. CASE request'[r] = request[r]
    <3>1. Commits(r) /\ Locked(i) /\ invoice[i].state = "PENDING" /\ request[r].invoice = i
      BY <1>1, <1>3, <2>2 DEF CommitsOpen, Commits, Locked
    <3>2. ASSUME NEW q \in Request, ConfirmCommit(q), request[q].invoice = i PROVE FALSE
      <4>1. q = r
        BY <1>1, <3>1, <3>2 DEF ConfirmCommit, CommitsAlone, Commits
      <4>2. request'[r].stage = "IDLE"
        BY <1>1, <3>2, <4>1 DEF ConfirmCommit, Done, Idle
      <4>3. QED
        BY <1>3, <4>2
    <3>3. QED
      BY <1>3, <3>1, <3>2, OrderStep
  <2>3. QED
    BY <1>2, <1>3, <2>1, <2>2
<1>4. ASSUME NEW q \in Request, NEW r \in Request, request'[q].stage = "COMMIT",
             request'[r].stage = "COMMIT", request'[q].invoice = request'[r].invoice, q # r
      PROVE  FALSE
  <2>1. ASSUME NEW p \in Request, NEW s \in Request, p # s, BeginsCommit(p), request'[s].stage = "COMMIT",
               request'[p].invoice = request'[s].invoice
        PROVE  FALSE
    BY <2>1 DEF BeginsCommit, Locked, Commits
  <2>2. CASE BeginsCommit(q) \/ BeginsCommit(r)
    BY <1>4, <2>1, <2>2
  <2>3. CASE ~BeginsCommit(q) /\ ~BeginsCommit(r)
    BY <1>1, <1>2, <1>4, <2>3 DEF CommitsAlone, Commits
  <2>4. QED
    BY <2>2, <2>3
<1>5. QED
  BY <1>3, <1>4 DEF CommitsOpen, CommitsAlone, Commits
(* A late row goes on being late, or its order was credited by hand.        *)
LEMMA LateNext == ASSUME LockInv, IntakeNext, NEW r \in Request PROVE LateRow(request[r])'
<1>1. /\ LateRow(request[r]) /\ CommitsOpen /\ CreditedOnce /\ request \in [Request -> RequestRow]
  BY DEF LockInv, MoneyInv, TypeInv, IntakeTypeOK
<1>2. ASSUME NEW i \in OrderInvoice, invoice[i].state = "EXPIRED" \/ CreditedByHand(i)
      PROVE  invoice'[i].state = "EXPIRED" \/ CreditedByHand(i)'
  <2>1. invoice[i].state \in {"EXPIRED", "PAID"}
    BY <1>1, <1>2 DEF CreditedByHand, CreditedOnce, Invoice
  <2>2. ~\E q \in Request : ConfirmCommit(q) /\ request[q].invoice = i
    BY <1>1, <2>1 DEF ConfirmCommit, CommitsOpen, Commits
  <2>3. CASE invoice'[i] = invoice[i] /\ credits'[i] = credits[i]
    BY <1>2, <2>3 DEF CreditedByHand
  <2>4. CASE CreditedLate(i)
    BY <2>4 DEF CreditedLate, CreditedByHand
  <2>5. QED
    BY <2>1, <2>2, <2>3, <2>4, OrderStep
<1>3. CASE request'[r] = request[r]
  BY <1>1, <1>2, <1>3 DEF LateRow, CreditedByHand
<1>4. CASE request'[r].stage \in Unlocking
  BY <1>4 DEF LateRow, Unlocking
<1>5. CASE BeginsCommit(r)
  BY <1>5 DEF BeginsCommit, LateRow
<1>6. CASE BeginsReserve(r)
  <2>1. ASSUME request'[r].late, request'[r].invoice \in OrderInvoice
        PROVE  invoice'[request'[r].invoice].state = "EXPIRED"
    BY <1>6, <2>1, IntakeAssumption DEF BeginsReserve, ReconciliationState
  <2>2. QED
    BY <1>6, <2>1 DEF BeginsReserve, LateRow
<1>7. CASE GoesOnLate(r)
  BY <1>1, <1>2, <1>7 DEF GoesOnLate, LateRow, CreditedByHand
<1>8. QED
  BY <1>3, <1>4, <1>5, <1>6, <1>7, RowStep
------------------------------------------------------------------------------
(* What was given stays given.                                              *)
LEMMA CreditsStand ==
  ASSUME MoneyInv, IntakeNext, NEW i \in Invoice, credits[i] # <<>>
  PROVE  credits'[i] = credits[i]
<1>1. CASE UNCHANGED credits
  BY <1>1
<1>2. ASSUME NEW j \in Invoice, Opens(j) \/ Closes(j) PROVE credits'[i] = credits[i]
  BY <1>2, OtherWrites
<1>3. ASSUME NEW j \in Invoice, NEW e \in Transfer \cup {Nobody}, NEW r \in Request, Settles(j, e, r)
      PROVE  credits'[i] = credits[i]
  BY <1>3, SettleWrites
<1>4. QED
  BY <1>1, <1>2, <1>3, MoneyStep DEF MoneyInv

(* What makes up for a confirmed transfer.                                  *)
Settled(e) ==
  \/ \E i \in Invoice : CreditedBy(e, i)
  \/ \E i \in OrderInvoice : CreditedByHand(i) /\ Pays(e, i)

(* A payment through the attempt credits its transfer.                      *)
LEMMA PaymentCredits ==
  ASSUME MoneyInv, NEW i \in Invoice, NEW e \in Transfer, NEW r \in Request,
         AttemptOpen(e, i, {"AWAITING", "EXPIRED"}), Pays(e, i), transfer[e].payer # Nobody,
         MarkPaid(i, e), Credit(i, e, r)
  PROVE  Settled(e)'
<1>1. Settles(i, e, r)
  BY DEF Settles
<1>2. credits'[i] = <<[event |-> e, by |-> r]>>
  BY <1>1, SettleWrites
<1>3. 1 \in DOMAIN credits'[i] /\ credits'[i][1].event = e
  BY <1>2
<1>4. QED
  BY <1>3 DEF Settled, CreditedBy

(* An event becomes CONFIRMED with a credit, or after that of its order by  *)
(* hand, and what makes up for it stays.                                    *)
LEMMA ConfirmedNext == ASSUME LockInv, IntakeNext PROVE ConfirmedIsCredited'
<1>1. /\ MoneyInv /\ TypeInv /\ Captured /\ CreditedOnce /\ ConfirmedIsCredited
      /\ \A r \in Request : Sound(request[r]) /\ LateRow(request[r])
  BY DEF LockInv, MoneyInv
<1>2. ASSUME NEW e \in Transfer, Settled(e), transfer[e].payer # Nobody PROVE Settled(e)'
  <2>1. ASSUME NEW i \in Invoice, CreditedBy(e, i) PROVE CreditedBy(e, i)'
    BY <1>1, <2>1, CreditsStand DEF CreditedBy
  <2>2. ASSUME NEW i \in OrderInvoice, CreditedByHand(i), Pays(e, i)
        PROVE  CreditedByHand(i)' /\ Pays(e, i)'
    <3>1. i \in Invoice /\ invoice[i].state = "PAID"
      BY <1>1, <2>2 DEF CreditedByHand, CreditedOnce, Invoice
    <3>2. CreditedByHand(i)'
      BY <1>1, <2>2, <3>1, CreditsStand DEF CreditedByHand
    <3>3. Pays(e, i)'
      BY <1>1, <1>2, <2>2, <3>1, PaysStands
    <3>4. QED
      BY <3>2, <3>3
  <2>3. QED
    BY <1>2, <2>1, <2>2 DEF Settled
<1>3. ASSUME NEW e \in Transfer, event[e].status = "CONFIRMED" PROVE Settled(e)'
  <2>1. Settled(e)
    BY <1>1, <1>3 DEF ConfirmedIsCredited, Settled, CreditedByHand
  <2>2. transfer[e].payer # Nobody
    BY <1>1, <1>3 DEF Captured, Seen
  <2>3. QED
    BY <1>2, <2>1, <2>2
<1>4. ASSUME NEW r \in Request, ConfirmCommit(r), NEW e \in Transfer, event'[e] # event[e]
      PROVE  Settled(e)'
  <2> DEFINE i == request[r].invoice
             f == request[r].event
  <2>1. /\ i \in Invoice /\ f \in Transfer \cup {Nobody}
        /\ f # Nobody => Pays(f, i) /\ transfer[f].payer # Nobody
    BY <1>1, <1>4 DEF ConfirmCommit, TypeInv, Typed, RequestRow, Sound
  <2>2. AttemptOpen(f, i, {"AWAITING"}) /\ MarkPaid(i, f) /\ Credit(i, f, r) /\ MarkConfirmed(f, i)
    BY <1>4 DEF ConfirmCommit
  <2>3. f = e /\ f # Nobody
    BY <1>1, <1>4, <2>1, <2>2 DEF MarkConfirmed, TypeInv, IntakeTypeOK
  <2>4. AttemptOpen(e, i, {"AWAITING", "EXPIRED"})
    BY <2>2, <2>3 DEF AttemptOpen
  <2>5. QED
    BY <1>1, <2>1, <2>2, <2>3, <2>4, PaymentCredits
<1>5. ASSUME NEW a \in Admin, LateWrite(a), NEW e \in Transfer, event'[e] # event[e]
      PROVE  Settled(e)'
  <2> DEFINE i == request[a].invoice
             f == request[a].event
  <2>1. /\ i \in Invoice /\ f \in Transfer /\ a \in Request
        /\ f # Nobody => Pays(f, i) /\ transfer[f].payer # Nobody
        /\ request[a].stage = "CREDIT" /\ request[a].late /\ LateRow(request[a])
    BY <1>1, <1>5 DEF LateWrite, TypeInv, Typed, Sound, LateRow, Request
  <2>2. MarkConfirmed(f, i)
    BY <1>5 DEF LateWrite
  <2>3. f = e /\ f # Nobody
    BY <1>1, <1>5, <2>1, <2>2, IntakeAssumption DEF MarkConfirmed, TypeInv, IntakeTypeOK
  <2>4. CASE i \in OrderInvoice /\ credits[i] # <<>>
    <3>1. invoice[i].state = "PAID"
      BY <1>1, <2>1, <2>4 DEF CreditedOnce
    <3>2. CreditedByHand(i)
      BY <2>1, <2>4, <3>1 DEF LateRow
    <3>3. QED
      BY <1>2, <2>1, <2>3, <2>4, <3>2 DEF Settled
  <2>5. CASE ~(i \in OrderInvoice /\ credits[i] # <<>>)
    <3>1. AttemptOpen(f, i, {"AWAITING", "EXPIRED"}) /\ MarkPaid(i, f) /\ Credit(i, f, a)
      BY <1>5, <2>3, <2>5 DEF LateWrite
    <3>2. QED
      BY <1>1, <2>1, <2>3, <3>1, PaymentCredits
  <2>6. QED
    BY <2>4, <2>5
<1>6. ASSUME NEW e \in Transfer, event'[e].status = "CONFIRMED", event'[e] # event[e]
      PROVE  \/ \E r \in Request : ConfirmCommit(r)
             \/ \E a \in Admin : LateWrite(a)
             \/ event[e].status = "CONFIRMED"
  <2>1. event \in [Transfer -> EventRow]
    BY <1>1 DEF TypeInv, IntakeTypeOK
  <2>2. ASSUME NEW h \in Handler, BeginEvent(h) PROVE event[e].status = "CONFIRMED"
    BY <1>6, <2>1, <2>2 DEF BeginEvent, EventRow
  <2>3. ASSUME NEW h \in Handler, RejectEvent(h) PROVE event[e].status = "CONFIRMED"
    BY <1>6, <2>1, <2>3 DEF RejectEvent, EventRow
  <2>4. ASSUME NEW a \in Admin, ReserveWrite(a) PROVE event[e].status = "CONFIRMED"
    BY <1>6, <2>1, <2>4 DEF ReserveWrite, EventRow
  <2>5. QED
    BY <1>6, <2>2, <2>3, <2>4
    DEF IntakeNext, HandlerStep, AdminStep, Request, CreateInvoice, ExpireInvoice, CancelInvoice,
        PayInvoice, Capture, SendTimeout, IntakeTick, SearchTarget, ConfirmRead, Approve,
        CreditExpired, ReserveRead, LateRead, Fail
<1>7. ASSUME NEW e \in Transfer, event'[e].status = "CONFIRMED" PROVE Settled(e)'
  <2>1. CASE event[e].status = "CONFIRMED"
    BY <1>3, <2>1
  <2>2. CASE event[e].status # "CONFIRMED"
    BY <1>4, <1>5, <1>6, <1>7, <2>2
  <2>3. QED
    BY <2>1, <2>2
<1>8. QED
  BY <1>7 DEF ConfirmedIsCredited, Settled, CreditedByHand

------------------------------------------------------------------------------
(* The theorem.                                                             *)

(* Nothing is asked or confirmed in the beginning.                          *)
LEMMA LockInit == IntakeInit => LockInv
BY MoneyInit DEF IntakeInit, LockInv, CommitsOpen, CommitsAlone, Commits, LateRow, Idle, ConfirmedIsCredited

(* Every step keeps the invariant.                                          *)
LEMMA LockNext == LockInv /\ [IntakeNext]_intakeVars => LockInv'
<1>1. ASSUME LockInv, IntakeNext PROVE LockInv'
  <2>1. MoneyInv'
    BY <1>1, MoneyNext DEF LockInv
  <2>2. \A r \in Request : LateRow(request[r])'
    BY <1>1, LateNext
  <2>3. QED
    BY <1>1, <2>1, <2>2, CommitsNext, ConfirmedNext DEF LockInv, Request
<1>2. ASSUME LockInv, UNCHANGED intakeVars PROVE LockInv'
  <2>1. MoneyInv'
    BY <1>2, MoneyNext DEF LockInv
  <2>2. QED
    BY <1>2, <2>1 DEF intakeVars, LockInv, CommitsOpen, CommitsAlone, Commits, LateRow, CreditedByHand,
      ConfirmedIsCredited, CreditedBy, Pays, InWindow, ExpiresAt
<1>3. QED
  BY <1>1, <1>2

(* No transfer is shown as confirmed that nobody was credited for, whatever *)
(* is reconciled and expires at the same time; the one exception is a       *)
(* transfer for an order that an administrator had credited already.        *)
THEOREM ConfirmedTransfersAreCredited == IntakeSpec => []ConfirmedIsCredited
<1>1. LockInv => ConfirmedIsCredited
  BY DEF LockInv
<1>2. QED
  BY <1>1, LockInit, LockNext, PTL DEF IntakeSpec

------------------------------------------------------------------------------
(* The promise of PaymentPromise, which InvoicesCreditedOnce and the unique *)
(* index carry, once the attempt is known to move with its invoice and no   *)
(* money is there before it was sent.                                       *)

AttemptMoves ==
  \A i \in Invoice :
    /\ invoice[i].state = "NONE" => invoice[i].attempt = "NONE"
    /\ invoice[i].state = "PENDING" => invoice[i].attempt = "AWAITING"
    /\ invoice[i].state = "CANCELLED" => invoice[i].attempt = "CANCELLED"

MoneyIsSent == \A e \in Transfer : transfer[e].payer = Nobody => transfer[e].amount = 0

PromiseInv == MoneyInv /\ AttemptMoves /\ MoneyIsSent

(* Every step changes money in a way of MoneyStep, and the rest follows.    *)
LEMMA AttemptMovesNext == ASSUME PromiseInv, IntakeNext PROVE AttemptMoves' /\ MoneyIsSent'
<1>1. /\ invoice \in [Invoice -> InvoiceRow]
      /\ transfer \in [Transfer -> [payer : Invoice \cup {Nobody}, posted : Nat,
                                    amount : BilledAmount \cup {0}]]
  BY DEF PromiseInv, MoneyInv, TypeInv, IntakeTypeOK
<1>2. ASSUME UNCHANGED invoice PROVE AttemptMoves'
  BY <1>2 DEF PromiseInv, AttemptMoves
<1>3. ASSUME NEW i \in Invoice, Opens(i) PROVE AttemptMoves'
  <2>1. /\ invoice'[i].state = "PENDING" /\ invoice'[i].attempt = "AWAITING"
        /\ \A j \in Invoice : j # i => invoice'[j] = invoice[j]
    BY <1>1, <1>3 DEF Opens
  <2> QED BY <2>1 DEF PromiseInv, AttemptMoves
<1>4. ASSUME NEW i \in Invoice, Closes(i) PROVE AttemptMoves'
  <2>1. invoice[i].attempt = "AWAITING"
    BY <1>4 DEF Closes, PromiseInv, AttemptMoves
  <2>2. PICK s \in {"EXPIRED", "CANCELLED"} : Close(i, s)
    BY <1>4 DEF Closes
  <2>3. /\ invoice'[i].state = s /\ invoice'[i].attempt = s
        /\ \A j \in Invoice : j # i => invoice'[j] = invoice[j]
    BY <1>1, <2>1, <2>2 DEF Close, InvoiceRow
  <2> QED BY <2>3 DEF PromiseInv, AttemptMoves
<1>5. ASSUME NEW i \in Invoice, NEW e \in Transfer \cup {Nobody}, NEW r \in Request, Settles(i, e, r)
      PROVE  AttemptMoves'
  <2>1. invoice'[i].state = "PAID" /\ \A j \in Invoice : j # i => invoice'[j] = invoice[j]
    BY <1>5, SettleWrites DEF PromiseInv
  <2> QED BY <2>1 DEF PromiseInv, AttemptMoves
<1>6. MoneyIsSent'
  <2>1. CASE UNCHANGED transfer
    BY <2>1 DEF PromiseInv, MoneyIsSent
  <2>2. ASSUME NEW e \in Transfer, NEW i \in Invoice, PayInvoice(e, i) PROVE MoneyIsSent'
    <3>1. transfer'[e].payer = i /\ \A f \in Transfer : f # e => transfer'[f] = transfer[f]
      BY <1>1, <2>2 DEF PayInvoice
    <3>2. i # Nobody
      BY IntakeAssumption DEF Invoice
    <3> QED BY <3>1, <3>2 DEF PromiseInv, MoneyIsSent
  <2> QED BY <2>1, <2>2, MoneyStep DEF PromiseInv, MoneyInv
<1> QED BY <1>2, <1>3, <1>4, <1>5, <1>6, MoneyStep DEF PromiseInv, MoneyInv

(* PromiseInv holds at the start and for ever.                              *)
LEMMA PromiseInvariant == IntakeSpec => []PromiseInv
<1>1. IntakeInit => PromiseInv
  BY MoneyInit DEF IntakeInit, PromiseInv, AttemptMoves, MoneyIsSent
<1>2. PromiseInv /\ [IntakeNext]_intakeVars => PromiseInv'
  <2> SUFFICES ASSUME PromiseInv, [IntakeNext]_intakeVars PROVE PromiseInv'
    OBVIOUS
  <2>1. MoneyInv'
    BY MoneyNext DEF PromiseInv
  <2>2. CASE IntakeNext
    BY <2>1, <2>2, AttemptMovesNext DEF PromiseInv
  <2>3. CASE UNCHANGED intakeVars
    BY <2>1, <2>3 DEF PromiseInv, AttemptMoves, MoneyIsSent, intakeVars
  <2> QED BY <2>2, <2>3
<1> QED BY <1>1, <1>2, PTL DEF IntakeSpec

(* What an invoice is in the promise depends on its row and its credits     *)
(* only, and the rail never changes.                                        *)
LEMMA RailStays ==
  ASSUME [IntakeNext]_intakeVars
  PROVE  provider' = provider
BY DEF IntakeNext, HandlerStep, AdminStep, CreateInvoice, ExpireInvoice, CancelInvoice, PayInvoice,
   Capture, SendTimeout, IntakeTick, BeginEvent, SearchTarget, RejectEvent, ConfirmRead,
   ConfirmCommit, Approve, CreditExpired, ReserveRead, ReserveWrite, LateRead, LateWrite, Fail,
   intakeVars

PaidFor(i) == [n \in DOMAIN credits[i] |-> credits[i][n].event]

LEMMA PromiseStands ==
  ASSUME [IntakeNext]_intakeVars
  PROVE  /\ [i \in Invoice |-> Table(i)]' = [i \in Invoice |-> Table(i)]
         /\ UNCHANGED <<invoice, credits>> =>
              /\ [i \in Invoice |-> Phase(i)]' = [i \in Invoice |-> Phase(i)]
              /\ [i \in Invoice |-> invoice[i].amount]' = [i \in Invoice |-> invoice[i].amount]
              /\ [i \in Invoice |-> PaidFor(i)]' = [i \in Invoice |-> PaidFor(i)]
         /\ UNCHANGED transfer =>
              [e \in Transfer |-> transfer[e].amount]' = [e \in Transfer |-> transfer[e].amount]
BY RailStays DEF Table, Phase, PaidFor

(* An invoice that is made asks.                                            *)
LEMMA OpensAsks ==
  ASSUME PromiseInv, [IntakeNext]_intakeVars, NEW i \in Invoice, Opens(i), UNCHANGED transfer
  PROVE  Payments!Ask(i)
<1>1. invoice \in [Invoice -> InvoiceRow]
  BY DEF PromiseInv, MoneyInv, TypeInv, IntakeTypeOK
<1>2. PICK a \in BilledAmount :
        invoice' = [invoice EXCEPT ![i] = [state |-> "PENDING", created |-> now, amount |-> a,
                                          attempt |-> "AWAITING", matched |-> Nobody]]
  BY DEF Opens
<1>3. invoice[i].state = "NONE" /\ credits' = credits
  BY DEF Opens
<1>4. /\ invoice'[i].state = "PENDING" /\ invoice'[i].amount = a
      /\ \A j \in Invoice : j # i => invoice'[j] = invoice[j]
  BY <1>1, <1>2
<1>5. Phase(i) = "ABSENT" /\ Phase(i)' = "OPEN" /\ \A j \in Invoice : j # i => Phase(j)' = Phase(j)
  BY <1>3, <1>4 DEF Phase
<1>6. [j \in Invoice |-> Phase(j)]' = [[j \in Invoice |-> Phase(j)] EXCEPT ![i] = "OPEN"]
  BY <1>5
<1>7. [j \in Invoice |-> invoice[j].amount]' = [[j \in Invoice |-> invoice[j].amount] EXCEPT ![i] = a]
  BY <1>4
<1>8. [j \in Invoice |-> PaidFor(j)]' = [j \in Invoice |-> PaidFor(j)]
  BY <1>3 DEF PaidFor
<1> QED BY <1>4, <1>5, <1>6, <1>7, <1>8, PromiseStands DEF Payments!Ask, PaidFor

(* One that expires or is cancelled is given up.                            *)
LEMMA ClosesGiveUp ==
  ASSUME PromiseInv, [IntakeNext]_intakeVars, NEW i \in Invoice, Closes(i), UNCHANGED transfer
  PROVE  Payments!GiveUp(i)
<1>1. invoice \in [Invoice -> InvoiceRow]
  BY DEF PromiseInv, MoneyInv, TypeInv, IntakeTypeOK
<1>2. PICK s \in {"EXPIRED", "CANCELLED"} : Close(i, s)
  BY DEF Closes
<1>3. invoice[i].state = "PENDING" /\ credits' = credits
  BY DEF Closes
<1>4. /\ invoice'[i].state = s /\ invoice'[i].amount = invoice[i].amount
      /\ \A j \in Invoice : j # i => invoice'[j] = invoice[j]
  BY <1>1, <1>2 DEF Close, InvoiceRow
<1>5. Phase(i) = "OPEN" /\ Phase(i)' = s /\ \A j \in Invoice : j # i => Phase(j)' = Phase(j)
  BY <1>3, <1>4 DEF Phase
<1>6. [j \in Invoice |-> Phase(j)]' = [[j \in Invoice |-> Phase(j)] EXCEPT ![i] = s]
  BY <1>5
<1>7. [j \in Invoice |-> invoice[j].amount]' = [j \in Invoice |-> invoice[j].amount]
  BY <1>4
<1>8. [j \in Invoice |-> PaidFor(j)]' = [j \in Invoice |-> PaidFor(j)]
  BY <1>3 DEF PaidFor
<1> QED BY <1>5, <1>6, <1>7, <1>8, PromiseStands DEF Payments!GiveUp, PaidFor

(* A transfer moves what some invoice asks for.                             *)
LEMMA TransfersMove ==
  ASSUME PromiseInv, [IntakeNext]_intakeVars, NEW e \in Transfer, NEW i \in Invoice,
         PayInvoice(e, i)
  PROVE  Payments!Move(e)
<1>1. transfer \in [Transfer -> [payer : Invoice \cup {Nobody}, posted : Nat,
                                 amount : BilledAmount \cup {0}]]
  BY DEF PromiseInv, MoneyInv, TypeInv, IntakeTypeOK
<1>2. /\ transfer[e].payer = Nobody /\ invoice[i].state # "NONE"
      /\ transfer' = [transfer EXCEPT ![e] = [payer |-> i, posted |-> now,
                                             amount |-> invoice[i].amount]]
      /\ UNCHANGED <<invoice, credits>>
  BY DEF PayInvoice
<1>3. transfer[e].amount = 0
  BY <1>2 DEF PromiseInv, MoneyIsSent
<1>4. Phase(i) # "ABSENT"
  BY <1>2 DEF Phase, PromiseInv, MoneyInv, TypeInv, IntakeTypeOK, InvoiceRow
<1>5. [f \in Transfer |-> transfer[f].amount]'
        = [[f \in Transfer |-> transfer[f].amount] EXCEPT ![e] = invoice[i].amount]
  BY <1>1, <1>2
<1> QED BY <1>2, <1>3, <1>4, <1>5, PromiseStands DEF Payments!Move, PaidFor

(* A payment, by whatever way, is of an invoice that is open or ran out, by *)
(* a transfer of its amount that paid nothing else in its table.            *)
LEMMA SettlesPays ==
  ASSUME PromiseInv, [IntakeNext]_intakeVars, NEW i \in Invoice, NEW e \in Transfer \cup {Nobody},
         NEW r \in Request, Settles(i, e, r), UNCHANGED transfer
  PROVE  Payments!Pay(i, e)
<1>1. /\ invoice \in [Invoice -> InvoiceRow]
      /\ transfer \in [Transfer -> [payer : Invoice \cup {Nobody}, posted : Nat,
                                    amount : BilledAmount \cup {0}]]
  BY DEF PromiseInv, MoneyInv, TypeInv, IntakeTypeOK
<1>2. /\ invoice' = [invoice EXCEPT ![i] = [@ EXCEPT !.state = "PAID", !.attempt = "CONFIRMED",
                                                    !.matched = e]]
      /\ invoice'[i].state = "PAID"
      /\ \A j \in Invoice : j # i => invoice'[j] = invoice[j] /\ credits'[j] = credits[j]
      /\ invoice[i].state # "PAID"
      /\ credits[i] = <<>> /\ credits'[i] = <<[event |-> e, by |-> r]>>
  BY SettleWrites DEF PromiseInv
<1>3. Phase(i) \in {"OPEN", "EXPIRED"}
  <2>1. invoice[i].attempt \in {"AWAITING", "EXPIRED"}
    BY DEF Settles, AttemptOpen
  <2>2. invoice[i].state \in {"PENDING", "EXPIRED"}
    BY <1>1, <1>2, <2>1 DEF PromiseInv, AttemptMoves, InvoiceRow
  <2> QED BY <2>2 DEF Phase
<1>4. PaidFor(i) = <<>>
  BY <1>2 DEF PaidFor
<1>5. ASSUME e # Nobody
      PROVE  /\ transfer[e].amount = invoice[i].amount
             /\ \A j \in Invoice : Table(j) = Table(i) => \A n \in DOMAIN PaidFor(j) : PaidFor(j)[n] # e
  <2>1. transfer[e].amount = invoice[i].amount /\ Unclaimed(e, i)
    BY <1>5 DEF Settles, AttemptOpen, Pays
  <2>2. ASSUME NEW j \in Invoice, Table(j) = Table(i), NEW n \in DOMAIN PaidFor(j), PaidFor(j)[n] = e
        PROVE  FALSE
    <3>1. SameTable(i, j)
      BY <2>2 DEF Table, SameTable
    <3>2. n \in DOMAIN credits[j] /\ credits[j][n].event = e
      BY <2>2 DEF PaidFor
    <3>3. CreditedBy(e, j) /\ e \in Transfer
      BY <1>5, <3>2 DEF CreditedBy
    <3>4. invoice[j].matched = e
      BY <3>3 DEF PromiseInv, MoneyInv, Evidence
    <3> QED BY <1>5, <2>1, <3>1, <3>4 DEF Unclaimed
  <2> QED BY <2>1, <2>2
<1>6. [j \in Invoice |-> Phase(j)]' = [[j \in Invoice |-> Phase(j)] EXCEPT ![i] = "PAID"]
  <2>1. Phase(i)' = "PAID" /\ \A j \in Invoice : j # i => Phase(j)' = Phase(j)
    BY <1>2 DEF Phase
  <2> QED BY <2>1
<1>7. [j \in Invoice |-> invoice[j].amount]' = [j \in Invoice |-> invoice[j].amount]
  BY <1>1, <1>2 DEF InvoiceRow
<1>8. [j \in Invoice |-> PaidFor(j)]' = [[j \in Invoice |-> PaidFor(j)] EXCEPT ![i] = <<e>>]
  <2>1. PaidFor(i)' = <<e>>
    <3>1. /\ DOMAIN <<[event |-> e, by |-> r]>> = 1..1 /\ <<[event |-> e, by |-> r]>>[1].event = e
          /\ DOMAIN <<e>> = 1..1 /\ <<e>>[1] = e /\ <<e>> = [n \in DOMAIN <<e>> |-> <<e>>[n]]
      OBVIOUS
    <3>2. \A n \in 1..1 : n = 1
      OBVIOUS
    <3>3. PaidFor(i)' = [n \in DOMAIN <<[event |-> e, by |-> r]>> |-> <<[event |-> e, by |-> r]>>[n].event]
      BY <1>2 DEF PaidFor
    <3>4. PaidFor(i)' = [n \in 1..1 |-> e]
      BY <3>1, <3>2, <3>3
    <3>5. <<e>> = [n \in 1..1 |-> e]
      BY <3>1, <3>2
    <3> QED BY <3>4, <3>5
  <2>2. \A j \in Invoice : j # i => PaidFor(j)' = PaidFor(j)
    BY <1>2 DEF PaidFor
  <2> QED BY <2>1, <2>2
<1>9. Payments!Unspent(e, i) <=>
        \A j \in Invoice : Table(j) = Table(i) => \A n \in DOMAIN PaidFor(j) : PaidFor(j)[n] # e
  BY DEF Payments!Unspent, PaidFor
<1> QED BY <1>3, <1>4, <1>5, <1>6, <1>7, <1>8, <1>9, PromiseStands DEF Payments!Pay, PaidFor

(* With any number of invoices, transfers and requests, Intake implements   *)
(* PaymentPromise: money is entered in one way only, however many handlers, *)
(* administrators and sweepers race (Intake, PaidAsPromised).               *)
THEOREM PaymentsAreAsPromised == IntakeSpec => PaidAsPromised
<1>1. IntakeInit => Payments!PaymentInit
  BY DEF IntakeInit, Payments!PaymentInit, Table, Phase
<1>2. PromiseInv /\ [IntakeNext]_intakeVars => [Payments!PaymentNext]_(Payments!promise)
  <2> SUFFICES ASSUME PromiseInv, [IntakeNext]_intakeVars
               PROVE  Payments!PaymentNext \/ UNCHANGED Payments!promise
    OBVIOUS
  <2>1. CASE UNCHANGED <<transfer, invoice, credits>>
    BY <2>1, PromiseStands DEF Payments!promise, PaidFor
  <2>2. CASE UNCHANGED intakeVars
    BY <2>1, <2>2 DEF intakeVars
  <2>3. ASSUME NEW e \in Transfer, NEW i \in Invoice, PayInvoice(e, i)
        PROVE  Payments!PaymentNext
    BY <2>3, TransfersMove DEF Payments!PaymentNext
  <2>4. ASSUME UNCHANGED transfer, NEW i \in Invoice, Opens(i) \/ Closes(i)
        PROVE  Payments!PaymentNext
    BY <2>4, OpensAsks, ClosesGiveUp DEF Payments!PaymentNext
  <2>5. ASSUME UNCHANGED transfer, NEW i \in Invoice, NEW e \in Transfer \cup {Nobody},
               NEW r \in Request, Settles(i, e, r)
        PROVE  Payments!PaymentNext
    BY <2>5, SettlesPays DEF Payments!PaymentNext
  <2> QED BY <2>1, <2>2, <2>3, <2>4, <2>5, MoneyStep DEF PromiseInv, MoneyInv
<1> QED BY <1>1, <1>2, PromiseInvariant, PTL DEF IntakeSpec, PaidAsPromised, Payments!PaymentSpec
==============================================================================
