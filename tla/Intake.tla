------------------------------- MODULE Intake -------------------------------
(***************************************************************************)
(* Incoming bank money.  A phone sees the notification of a transfer,      *)
(* queues it and posts it to the server until it is acknowledged; the      *)
(* server finds the one invoice, order or wallet top-up, that asks for     *)
(* exactly this amount and confirms it.  What it cannot match an           *)
(* administrator reconciles, and an invoice the phone missed may be        *)
(* approved by hand.                                                       *)
(*                                                                         *)
(* Transactions run at READ COMMITTED and the event of a payment is read   *)
(* without a lock, so a transaction is two steps, what it reads and what   *)
(* it writes; its advisory locks are held from the first to the second.    *)
(* Time is counted in clock skews (five minutes).                          *)
(***************************************************************************)
EXTENDS Integers, Sequences, FiniteSets

CONSTANTS
  OrderInvoice,     \* product orders waiting for a transfer
  TopupInvoice,     \* wallet top-ups
  Transfer,         \* transfers customers make, each one notification
  Handler,          \* requests of the phone the server works on at a time
  Admin,            \* requests of administrators
  BilledAmount,     \* the amounts with a unique code that can be asked for
  Provider,         \* the rails explored: "JAGO", "QRIS"
  Life,             \* how long an invoice can be paid
  Skew,             \* how far the phone's clock may be off
  LastMoment,       \* bound: where the clock stops
  PhoneLimit,       \* bound: what the phone's queue holds
  Nobody            \* no event, no invoice, nobody

ASSUME IntakeAssumption ==
  /\ Nobody \notin OrderInvoice \cup TopupInvoice \cup Transfer \cup Handler \cup Admin
  /\ OrderInvoice \cap TopupInvoice = {} /\ Handler \cap Admin = {}
  /\ Provider \subseteq {"JAGO", "QRIS"}
  /\ Life \in Nat /\ Skew \in Nat /\ LastMoment \in Nat /\ PhoneLimit \in Nat
  /\ BilledAmount \subseteq Nat \ {0}

Invoice == OrderInvoice \cup TopupInvoice
Request == Handler \cup Admin

VARIABLES
  provider,   \* the rail of this behaviour: rails never match each other
  now,        \* the clock
  invoice,    \* Payment with its order, or WalletTopup, and the attempt row
  transfer,   \* what the customers' bank did, which the shop does not know
  event,      \* BridgePaymentEvent
  phone,      \* BridgeQueue and the request the phone waits for
  request,    \* what each request is doing
  credits     \* goods or wallet money given for an invoice, and for what

intakeVars == <<provider, now, invoice, transfer, event, phone, request, credits>>

(* An order and its payment are PAID, EXPIRED or CANCELLED together.        *)
InvoiceRow ==
  [state : {"NONE", "PENDING", "PAID", "EXPIRED", "CANCELLED"},
   created : Nat, amount : BilledAmount \cup {0},
   attempt : {"NONE", "AWAITING", "CONFIRMED", "EXPIRED", "CANCELLED"},
   matched : Transfer \cup {Nobody}]

EventRow ==
  [status : {"NONE", "RECEIVED", "CONFIRMED", "REJECTED"},
   link : Invoice \cup {Nobody}]

RequestRow ==
  [stage : {"IDLE", "SEARCH", "REJECT", "CONFIRM", "COMMIT", "RESERVE", "LATE", "CREDIT"},
   event : Transfer \cup {Nobody}, invoice : Invoice \cup {Nobody}, late : BOOLEAN]

Idle == [stage |-> "IDLE", event |-> Nobody, invoice |-> Nobody, late |-> FALSE]

IntakeInit ==
  /\ provider \in Provider
  /\ now = 0
  /\ invoice = [i \in Invoice |-> [state |-> "NONE", created |-> 0, amount |-> 0,
                                   attempt |-> "NONE", matched |-> Nobody]]
  /\ transfer = [e \in Transfer |-> [payer |-> Nobody, posted |-> 0, amount |-> 0]]
  /\ event = [e \in Transfer |-> [status |-> "NONE", link |-> Nobody]]
  /\ phone = [queue |-> <<>>, waiting |-> Nobody]
  /\ request = [r \in Request |-> Idle]
  /\ credits = [i \in Invoice |-> <<>>]

------------------------------------------------------------------------------
(* Invoices and their time.                                                 *)

ExpiresAt(i) == invoice[i].created + Life
Overdue(i) == ExpiresAt(i) <= now

(* Fault: a transfer made before the invoice counts for it.                 *)
InWindowAnyStart(e, i) == transfer[e].posted <= ExpiresAt(i) + Skew

(* isPaymentEventWithinWindow                                               *)
InWindow(e, i) ==
  /\ invoice[i].created <= transfer[e].posted + Skew
  /\ transfer[e].posted <= ExpiresAt(i) + Skew

Pays(e, i) == transfer[e].amount = invoice[i].amount /\ InWindow(e, i)

(* The advisory locks telegram_payment_<order>, telegram_topup_<top-up> and *)
(* telegram_reconcile_event_<event>.                                        *)
Commits(r) == request[r].stage = "COMMIT"
Locked(i) == \E r \in Request : Commits(r) /\ request[r].invoice = i
EventLocked(e) == \E r \in Admin : request[r].stage \in {"RESERVE", "CREDIT"} /\ request[r].event = e

(* allocateUniqueCode: only what is still PENDING keeps its amount.         *)
AmountFree(a) ==
  \A i \in Invoice :
    ~(invoice[i].state = "PENDING" /\ ExpiresAt(i) + Skew > now /\ invoice[i].amount = a)

(* createWalletTopup and the checkout of an order; the retry of either      *)
(* under its idempotency key returns the row.                               *)
CreateInvoice(i) ==
  /\ invoice[i].state = "NONE"
  /\ \E a \in BilledAmount :
       /\ AmountFree(a)
       /\ invoice' = [invoice EXCEPT ![i] = [state |-> "PENDING", created |-> now, amount |-> a,
                                            attempt |-> "AWAITING", matched |-> Nobody]]
  /\ UNCHANGED <<provider, now, transfer, event, phone, request, credits>>

Close(i, state) ==
  LET attempt == IF invoice[i].attempt = "AWAITING" THEN state ELSE invoice[i].attempt IN
  invoice' = [invoice EXCEPT ![i] = [@ EXCEPT !.state = state, !.attempt = attempt]]

(* Fault: the sweeper writes what it selected without looking again.        *)
ExpireSelected(i) ==
  /\ invoice[i].state # "NONE" /\ Overdue(i)
  /\ Close(i, "EXPIRED")
  /\ UNCHANGED <<provider, now, transfer, event, phone, request, credits>>

(* expirePendingOrders, under the order's lock, and                         *)
(* expirePendingWalletTopups, which takes none.                             *)
ExpireInvoice(i) ==
  /\ invoice[i].state = "PENDING" /\ Overdue(i)
  /\ i \in OrderInvoice => ~Locked(i)
  /\ Close(i, "EXPIRED")
  /\ UNCHANGED <<provider, now, transfer, event, phone, request, credits>>

(* cancelPendingOrder                                                       *)
CancelInvoice(i) ==
  /\ i \in OrderInvoice /\ invoice[i].state = "PENDING" /\ ~Locked(i)
  /\ Close(i, "CANCELLED")
  /\ UNCHANGED <<provider, now, transfer, event, phone, request, credits>>

IntakeTick ==
  /\ now < LastMoment
  /\ now' = now + 1
  /\ UNCHANGED <<provider, invoice, transfer, event, phone, request, credits>>

------------------------------------------------------------------------------
(* The customer and the phone.                                              *)

(* A customer transfers the amount of an invoice, in time or not.           *)
PayInvoice(e, i) ==
  /\ transfer[e].payer = Nobody /\ invoice[i].state # "NONE"
  /\ transfer' = [transfer EXCEPT ![e] = [payer |-> i, posted |-> now,
                                         amount |-> invoice[i].amount]]
  /\ UNCHANGED <<provider, now, invoice, event, phone, request, credits>>

Queued(e) == \E n \in DOMAIN phone.queue : phone.queue[n] = e

(* The listener sees the notification, and sees it again when it            *)
(* reconnects; a full queue stores nothing.                                 *)
Capture(e) ==
  /\ transfer[e].payer # Nobody
  /\ ~Queued(e)
  /\ Len(phone.queue) < PhoneLimit
  /\ phone' = [phone EXCEPT !.queue = Append(@, e)]
  /\ UNCHANGED <<provider, now, invoice, transfer, event, request, credits>>

(* The phone gives up waiting; the server goes on.                          *)
SendTimeout ==
  /\ phone.waiting # Nobody
  /\ phone' = [phone EXCEPT !.waiting = Nobody]
  /\ UNCHANGED <<provider, now, invoice, transfer, event, request, credits>>

(* The answer of a request of the phone: accepted leaves the queue, an      *)
(* error is sent again.                                                     *)
Done(r, accepted) ==
  /\ request' = [request EXCEPT ![r] = Idle]
  /\ phone' = IF phone.waiting # r THEN phone
              ELSE [queue |-> IF accepted THEN Tail(phone.queue) ELSE phone.queue,
                    waiting |-> Nobody]

------------------------------------------------------------------------------
(* The server and a notification (processAndroidBridgeNotification).        *)

(* Fault: what was received once counts as done, also after a crash.        *)
BeginOnce(h) ==
  /\ request[h] = Idle
  /\ phone.waiting = Nobody /\ phone.queue # <<>>
  /\ LET e == Head(phone.queue) IN
       IF event[e].status = "NONE"
       THEN /\ event' = [event EXCEPT ![e].status = "RECEIVED"]
            /\ request' = [request EXCEPT ![h] = [Idle EXCEPT !.stage = "SEARCH", !.event = e]]
            /\ phone' = [phone EXCEPT !.waiting = h]
       ELSE /\ phone' = [phone EXCEPT !.queue = Tail(@)]
            /\ UNCHANGED <<event, request>>
  /\ UNCHANGED <<provider, now, invoice, transfer, credits>>

(* beginEvent, existingBridgeEventDisposition and recordAmount: a new event *)
(* and one still RECEIVED are worked on, any other is a duplicate.          *)
BeginEvent(h) ==
  /\ request[h] = Idle
  /\ phone.waiting = Nobody /\ phone.queue # <<>>
  /\ LET e == Head(phone.queue) IN
       IF event[e].status \in {"NONE", "RECEIVED"}
       THEN /\ event' = [event EXCEPT ![e].status = "RECEIVED"]
            /\ request' = [request EXCEPT ![h] = [Idle EXCEPT !.stage = "SEARCH", !.event = e]]
            /\ phone' = [phone EXCEPT !.waiting = h]
       ELSE /\ phone' = [phone EXCEPT !.queue = Tail(@)]
            /\ UNCHANGED <<event, request>>
  /\ UNCHANGED <<provider, now, invoice, transfer, credits>>

(* findMatchingTargets                                                      *)
Match(e) ==
  {i \in Invoice : /\ invoice[i].state = "PENDING" /\ Pays(e, i)
                   /\ invoice[i].attempt = "AWAITING" /\ invoice[i].matched = Nobody}

(* None and several lead to a rejection, one to a confirmation.             *)
SearchTarget(h) ==
  LET found == Match(request[h].event) IN
  /\ request[h].stage = "SEARCH"
  /\ \/ /\ Cardinality(found) # 1
        /\ request' = [request EXCEPT ![h].stage = "REJECT"]
     \/ /\ Cardinality(found) = 1
        /\ \E i \in found :
             request' = [request EXCEPT ![h] = [@ EXCEPT !.stage = "CONFIRM", !.invoice = i]]
  /\ UNCHANGED <<provider, now, invoice, transfer, event, phone, credits>>

(* rejectEvent, whatever the event has become.                              *)
RejectEvent(h) ==
  /\ request[h].stage = "REJECT"
  /\ event' = [event EXCEPT ![request[h].event].status = "REJECTED"]
  /\ Done(h, TRUE)
  /\ UNCHANGED <<provider, now, invoice, transfer, credits>>

------------------------------------------------------------------------------
(* Confirming (confirmOrderPayment, confirmWalletTopup).                    *)

(* The links an event may have: an order paid by a Jago transfer is         *)
(* confirmed without looking at them (jagoTransferConfirmationBlockReason). *)
LinkAllows(e, i) ==
  \/ provider = "JAGO" /\ i \in OrderInvoice
  \/ event[e].link \in {Nobody, i}

(* walletTopupEventBlockReason and qrisInvoiceEventBlockReason let it pass. *)
EvidenceAccepted(e, i, status) ==
  /\ event[e].status \in status
  /\ LinkAllows(e, i)
  /\ Pays(e, i)
  /\ invoice[i].attempt = "AWAITING" /\ invoice[i].matched = Nobody

CanConfirm(r) ==
  LET i == request[r].invoice
      e == request[r].event
  IN /\ invoice[i].state = "PENDING" /\ ~Overdue(i)
     /\ e # Nobody => EvidenceAccepted(e, i, IF r \in Admin THEN {"RECEIVED", "REJECTED"}
                                                            ELSE {"RECEIVED"})

(* A paid invoice accepts the event that paid it once more.                 *)
AlreadyPaidBy(r) ==
  LET i == request[r].invoice
      e == request[r].event
  IN /\ invoice[i].state = "PAID"
     /\ e # Nobody => event[e] = [status |-> "CONFIRMED", link |-> i]

ConfirmRead(r) ==
  /\ request[r].stage = "CONFIRM" /\ ~Locked(request[r].invoice)
  /\ \/ /\ CanConfirm(r)
        /\ request' = [request EXCEPT ![r].stage = "COMMIT"]
        /\ UNCHANGED phone
     \/ /\ ~CanConfirm(r)
        /\ Done(r, AlreadyPaidBy(r))
  /\ UNCHANGED <<provider, now, invoice, transfer, event, credits>>

(* matchedEventId is unique in each table: Jago orders and Jago top-ups     *)
(* have one each, QRIS orders and top-ups share theirs.                     *)
SameTable(i, j) == provider = "QRIS" \/ (i \in OrderInvoice <=> j \in OrderInvoice)
Unclaimed(e, i) ==
  e = Nobody \/ \A j \in Invoice : SameTable(i, j) => invoice[j].matched # e

(* Fault: the attempt is written without its conditions.                    *)
AttemptAny(e, i, open) == TRUE

(* The attempt's conditional update.                                        *)
AttemptOpen(e, i, open) ==
  invoice[i].attempt \in open /\ invoice[i].matched = Nobody /\ Unclaimed(e, i)

(* applyWalletTransaction posts topup-credit:<id> and                       *)
(* expired-order-payment-credit:<id> once.                                  *)
Credit(i, e, r) ==
  credits' = IF credits[i] = <<>> THEN [credits EXCEPT ![i] = <<[event |-> e, by |-> r]>>]
                                  ELSE credits

MarkPaid(i, e) ==
  invoice' = [invoice EXCEPT ![i] =
                [@ EXCEPT !.state = "PAID", !.attempt = "CONFIRMED", !.matched = e]]

MarkConfirmed(e, i) ==
  event' = IF e = Nobody THEN event
           ELSE [event EXCEPT ![e] = [status |-> "CONFIRMED", link |-> i]]

(* Fault: the event is confirmed before the attempt is claimed, and stays   *)
(* so when that fails.                                                      *)
ConfirmEventFirst(r) ==
  LET i == request[r].invoice
      e == request[r].event
      done == AttemptOpen(e, i, {"AWAITING"})
  IN
  /\ request[r].stage = "COMMIT"
  /\ MarkConfirmed(e, i)
  /\ IF done THEN MarkPaid(i, e) /\ Credit(i, e, r) ELSE UNCHANGED <<invoice, credits>>
  /\ Done(r, done)
  /\ UNCHANGED <<provider, now, transfer>>

ConfirmCommit(r) ==
  LET i == request[r].invoice
      e == request[r].event
      done == AttemptOpen(e, i, {"AWAITING"})
  IN
  /\ request[r].stage = "COMMIT"
  /\ \/ /\ done
        /\ MarkPaid(i, e) /\ Credit(i, e, r) /\ MarkConfirmed(e, i)
     \/ /\ ~done
        /\ UNCHANGED <<invoice, credits, event>>
  /\ Done(r, done)
  /\ UNCHANGED <<provider, now, transfer>>

------------------------------------------------------------------------------
(* The administrator.                                                       *)

Free(a) == request[a] = Idle
Ask(a, stage, e, i, late) ==
  request' = [request EXCEPT ![a] = [stage |-> stage, event |-> e, invoice |-> i, late |-> late]]
Advance(a, stage) == request' = [request EXCEPT ![a].stage = stage]

(* adminOrderPaymentRecoveryAction and adminWalletTopupRecoveryAction.      *)
RecoveryAction(i) ==
  CASE invoice[i].state = "PENDING" /\ ~Overdue(i) -> "CONFIRM_ACTIVE"
    [] invoice[i].state = "EXPIRED" /\ i \in OrderInvoice -> "CREDIT_EXPIRED_TO_WALLET"
    [] invoice[i].state = "EXPIRED" /\ i \in TopupInvoice -> "RECONCILE_EVENT"
    [] OTHER -> "BLOCKED"

(* approveOrderPaymentManually, approveWalletTopupManually                  *)
Approve(a, i) ==
  /\ Free(a) /\ RecoveryAction(i) = "CONFIRM_ACTIVE"
  /\ Ask(a, "CONFIRM", Nobody, i, FALSE)
  /\ UNCHANGED <<provider, now, invoice, transfer, event, phone, credits>>

(* creditExpiredOrderPaymentToWallet, one transaction under the order's     *)
(* lock.                                                                    *)
CreditExpired(a, i) ==
  /\ Free(a) /\ i \in OrderInvoice /\ ~Locked(i)
  /\ RecoveryAction(i) = "CREDIT_EXPIRED_TO_WALLET"
  /\ AttemptOpen(Nobody, i, {"AWAITING", "EXPIRED"})
  /\ MarkPaid(i, Nobody) /\ Credit(i, Nobody, a)
  /\ UNCHANGED <<provider, now, transfer, event, phone, request>>

(* orderReconciliationState and lateTarget                                  *)
ReconciliationState(i) ==
  CASE invoice[i].state = "PENDING" /\ ~Overdue(i) -> "active"
    [] i \in OrderInvoice /\ invoice[i].state = "EXPIRED" /\ Overdue(i) -> "expired"
    [] i \in TopupInvoice /\ invoice[i].state \in {"PENDING", "EXPIRED"} -> "expired"
    [] OTHER -> "unavailable"

(* What reserveEventTarget demands; a QRIS attempt has to be waiting still. *)
Reservable(e, i) ==
  /\ event[e].status = "REJECTED" /\ event[e].link \in {Nobody, i}
  /\ Pays(e, i) /\ ReconciliationState(i) # "unavailable"
  /\ provider = "QRIS" => invoice[i].attempt = "AWAITING" /\ invoice[i].matched = Nobody

ReserveRead(a, e, i) ==
  /\ Free(a) /\ ~EventLocked(e) /\ Reservable(e, i)
  /\ Ask(a, "RESERVE", e, i, ReconciliationState(i) = "expired")
  /\ UNCHANGED <<provider, now, invoice, transfer, event, phone, credits>>

ReserveWrite(a) ==
  /\ request[a].stage = "RESERVE"
  /\ event' = [event EXCEPT ![request[a].event].link = request[a].invoice]
  /\ Advance(a, IF request[a].late THEN "LATE" ELSE "CONFIRM")
  /\ UNCHANGED <<provider, now, invoice, transfer, phone, credits>>

(* What creditLatePayment demands before it moves the money.                *)
LateCreditable(e, i) ==
  /\ event[e].status = "REJECTED" /\ event[e].link = i /\ Pays(e, i)
  /\ i \in TopupInvoice => invoice[i].state # "PAID"
  /\ provider = "QRIS" => /\ invoice[i].attempt \in {"AWAITING", "EXPIRED"}
                          /\ invoice[i].matched = Nobody

LateRead(a) ==
  LET e == request[a].event IN
  /\ request[a].stage = "LATE" /\ ~EventLocked(e)
  /\ IF LateCreditable(e, request[a].invoice)
     THEN Advance(a, "CREDIT") /\ UNCHANGED phone
     ELSE Done(a, FALSE)
  /\ UNCHANGED <<provider, now, invoice, transfer, event, credits>>

(* creditLatePayment; an expired order that was credited before lets the    *)
(* event be confirmed without another credit                                *)
(* (creditExpiredOrderPaymentToWalletTx).                                   *)
LateWrite(a) ==
  LET e == request[a].event
      i == request[a].invoice
      credited == i \in OrderInvoice /\ credits[i] # <<>>
      done == /\ AttemptOpen(e, i, {"AWAITING", "EXPIRED"})
              /\ i \in OrderInvoice => invoice[i].state = "EXPIRED"
  IN
  /\ request[a].stage = "CREDIT"
  /\ i \in OrderInvoice => ~Locked(i)
  /\ \/ /\ credited
        /\ MarkConfirmed(e, i)
        /\ UNCHANGED <<invoice, credits>>
     \/ /\ ~credited /\ done
        /\ MarkPaid(i, e) /\ Credit(i, e, a) /\ MarkConfirmed(e, i)
     \/ /\ ~credited /\ ~done
        /\ UNCHANGED <<invoice, credits, event>>
  /\ Done(a, FALSE)
  /\ UNCHANGED <<provider, now, transfer>>

(* A request fails, its transaction rolls back, or the process stops.       *)
Fail(r) ==
  /\ request[r] # Idle
  /\ Done(r, FALSE)
  /\ UNCHANGED <<provider, now, invoice, transfer, event, credits>>

------------------------------------------------------------------------------
HandlerStep(h) ==
  SearchTarget(h) \/ RejectEvent(h) \/ ConfirmRead(h) \/ ConfirmCommit(h)

AdminStep(a) ==
  \/ ConfirmRead(a) \/ ConfirmCommit(a)
  \/ ReserveWrite(a) \/ LateRead(a) \/ LateWrite(a)

IntakeNext ==
  \/ \E i \in Invoice : CreateInvoice(i) \/ ExpireInvoice(i) \/ CancelInvoice(i)
  \/ \E e \in Transfer, i \in Invoice : PayInvoice(e, i)
  \/ \E e \in Transfer : Capture(e)
  \/ SendTimeout \/ IntakeTick
  \/ \E h \in Handler : BeginEvent(h) \/ HandlerStep(h)
  \/ \E a \in Admin, i \in Invoice : Approve(a, i) \/ CreditExpired(a, i)
  \/ \E a \in Admin, e \in Transfer, i \in Invoice : ReserveRead(a, e, i)
  \/ \E a \in Admin : AdminStep(a)
  \/ \E r \in Request : Fail(r)

IntakeSpec == IntakeInit /\ [][IntakeNext]_intakeVars

(* The phone stops waiting and sends again for as long as its queue holds   *)
(* something, a transaction ends in time or is rolled back, the sweeper     *)
(* runs; a server that fails now and then also works now and then.  Nothing *)
(* is asked of customers, administrators, the clock or the phone's listener.*)
IntakeFairness ==
  /\ WF_intakeVars(SendTimeout)
  /\ WF_intakeVars(\E h \in Handler : BeginEvent(h))
  /\ \A i \in Invoice : WF_intakeVars(ExpireInvoice(i))
  /\ \A r \in Request : WF_intakeVars(ConfirmCommit(r) \/ (Commits(r) /\ Fail(r)))
  /\ SF_intakeVars(\E h \in Handler : SearchTarget(h))
  /\ SF_intakeVars(\E h \in Handler : ConfirmRead(h))
  /\ SF_intakeVars(\E h \in Handler : RejectEvent(h))
  /\ SF_intakeVars(\E r \in Request : ConfirmCommit(r))

IntakeFairSpec == IntakeSpec /\ IntakeFairness

------------------------------------------------------------------------------
(* Properties.                                                              *)

(* The types of all variables.                                              *)
IntakeTypeOK ==
  /\ provider \in {"JAGO", "QRIS"} /\ now \in Nat
  /\ invoice \in [Invoice -> InvoiceRow]
  /\ transfer \in [Transfer -> [payer : Invoice \cup {Nobody}, posted : Nat,
                                amount : BilledAmount \cup {0}]]
  /\ event \in [Transfer -> EventRow]
  /\ phone \in [queue : Seq(Transfer), waiting : Handler \cup {Nobody}]
  /\ Len(phone.queue) <= PhoneLimit
  /\ request \in [Request -> RequestRow]
  /\ credits \in [Invoice -> Seq([event : Transfer \cup {Nobody}, by : Request])]

CreditedBy(e, i) == \E n \in DOMAIN credits[i] : credits[i][n].event = e

(* Whoever confirms, approves, reconciles, expires or cancels an invoice at *)
(* the same time, and whatever is sent twice: what it asks for is given at  *)
(* most once, and exactly when it is PAID.                                  *)
CreditedOnce ==
  \A i \in Invoice : /\ Len(credits[i]) <= 1
                     /\ invoice[i].state = "PAID" <=> credits[i] # <<>>

(* One transfer pays one invoice, even when its notification is worked on   *)
(* twice and reconciled at the same time.  The tables of the Jago attempts  *)
(* are two, so the promise is made for each of them.                        *)
OneInvoicePerEvent ==
  \A e \in Transfer, i, j \in Invoice :
    CreditedBy(e, i) /\ CreditedBy(e, j) /\ SameTable(i, j) => i = j

(* What was given for a transfer was given for one of that amount, made     *)
(* neither before the invoice was there nor after its time, up to the skew, *)
(* and the attempt names it: an amount is used again and again.             *)
EvidenceAgrees ==
  \A e \in Transfer, i \in Invoice :
    CreditedBy(e, i) =>
      /\ transfer[e].amount = invoice[i].amount /\ invoice[i].matched = e
      /\ transfer[e].posted \in invoice[i].created - Skew .. invoice[i].created + Life + Skew

(* A transfer the panel shows as reconciled was credited to some invoice;   *)
(* the one exception is a second transfer for an expired order whose first  *)
(* was credited meanwhile.                                                  *)
ConfirmedIsCredited ==
  \A e \in Transfer :
    event[e].status = "CONFIRMED" =>
      \/ \E i \in Invoice : CreditedBy(e, i)
      \/ \E i \in OrderInvoice : credits[i] # <<>> /\ credits[i][1].by \in Admin /\ Pays(e, i)

(* Once paid, an invoice stays paid, by the same transfer: the sweeper,     *)
(* which takes no lock on a top-up, does not take it back.                  *)
PaidIsFinal ==
  [][\A i \in Invoice : invoice[i].state = "PAID" => invoice'[i] = invoice[i]]_intakeVars

(* An implementation of PaymentPromise: whatever is repeated, raced, read   *)
(* too early or rolled back, an invoice is paid once, for one transfer of   *)
(* its amount that paid nothing else in its table, or by an administrator;  *)
(* never after it was cancelled, and for ever.                              *)
Table(i) == IF provider = "QRIS" THEN "QRIS" ELSE IF i \in OrderInvoice THEN "ORDERS" ELSE "TOPUPS"
Phase(i) == CASE invoice[i].state = "NONE" -> "ABSENT"
              [] invoice[i].state = "PENDING" -> "OPEN"
              [] OTHER -> invoice[i].state

Payments == INSTANCE PaymentPromise
  WITH Amount <- BilledAmount,
       Book <- {"QRIS", "ORDERS", "TOPUPS"},
       Hand <- Nobody,
       book <- [i \in Invoice |-> Table(i)],
       phase <- [i \in Invoice |-> Phase(i)],
       asks <- [i \in Invoice |-> invoice[i].amount],
       moved <- [e \in Transfer |-> transfer[e].amount],
       paid <- [i \in Invoice |-> [n \in DOMAIN credits[i] |-> credits[i][n].event]]

PaidAsPromised == Payments!PaymentSpec

(* A notification the phone has stored is decided in the end, confirmed or  *)
(* rejected, whatever is answered to the requests before it, lost or rolled *)
(* back: the phone sends only the oldest, and one whose invoice is overdue  *)
(* and not yet swept is refused with an error each time.                    *)
QueuedIsDecided ==
  \A e \in Transfer :
    Queued(e) ~> event[e].status \in {"CONFIRMED", "REJECTED"}

(* "keeps expired payment amounts reserved for the full bridge skew"        *)
(* (tests/stock.test.ts:499): money sent for an invoice that expired, and   *)
(* seen within the skew, is never taken for the payment of another invoice. *)
LateMoneyStaysOut ==
  \A e \in Transfer, i \in Invoice :
    LET j == transfer[e].payer IN
    CreditedBy(e, i) /\ credits[i][1].by \in Handler /\ j # i
      => ~(invoice[j].state = "EXPIRED" /\ InWindow(e, j))
==============================================================================
