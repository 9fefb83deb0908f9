-------------------------- MODULE StoreProperties --------------------------
(***************************************************************************)
(* What makes the transactional core correct.                              *)
(***************************************************************************)
EXTENDS Store

(* The values every column may take; no wallet is ever overdrawn.           *)
TypeOK ==
  /\ status \in [Order -> OrderStatus]
  /\ payment \in [Order -> PaymentStatus]
  /\ invoice \in [Order -> Invoice \cup {None}]
  /\ due \in [Order -> {"OPEN", "LAPSED", "CLOSED"}]
  /\ attempt \in [Order -> AttemptStatus]
  /\ paidAt \in [Order -> Nat]
  /\ items \in [Order -> SUBSET Unit]
  /\ stock \in [Unit -> StockStatus]
  /\ holder \in [Unit -> Order \cup {None}]
  /\ deliveredTo \in [Unit -> Order \cup {None}]
  /\ health \in [Unit -> HealthStatus]
  /\ archived \in [Unit -> BOOLEAN]
  /\ policy \in {"BLOCKED", "ALLOW_HTTP_401"}
  /\ receipt \in [Unit -> ReceiptStatus]
  /\ receiptOf \in [Unit -> Order \cup {None}]
  /\ outbox \in [Order -> [Unit -> NotificationStatus]]
  /\ ledger \in [Order -> [Entry -> Int]]
  /\ wallet \in [Buyer -> Nat]

(* The reservation columns of a stock file and the items of the orders say  *)
(* the same thing after every interleaving of checkouts, confirmations,     *)
(* allocations, downloads and inventory edits: a unit is reserved or        *)
(* delivered exactly when one order, and no other, has it as an item.       *)
StockOwnership ==
  /\ \A o \in Order, u \in Unit : u \in items[o] <=> holder[u] = o
  /\ \A u \in Unit :
       /\ holder[u] # None <=> stock[u] \in {"RESERVED", "DELIVERED"}
       /\ deliveredTo[u] = IF stock[u] = "DELIVERED" THEN holder[u] ELSE None
       /\ stock[u] = "RESERVED" => ~archived[u]

(* The units of an order on their way to the buyer.                         *)
Queued(o, u) ==
  IF IsWeb(Owner(o)) THEN receiptOf[u] = o /\ receipt[u] \in {"READY", "SENT"}
                     ELSE outbox[o][u] # "NONE"

(* An order in fulfilment has all its units, each queued on the channel of  *)
(* its buyer; a waiting preorder is short of some; no other order holds a   *)
(* unit or has one queued, so nothing leaves the shop for an order that was *)
(* not paid or whose money went back.                                       *)
FulfilmentComplete ==
  \A o \in Order :
    CASE status[o] \in {"FULFILLING", "COMPLETED"} ->
           /\ Cardinality(items[o]) = invoice[o].quantity
           /\ \A u \in items[o] : Queued(o, u)
      [] status[o] = "PAID_WAITING_STOCK" ->
           /\ Cardinality(items[o]) < invoice[o].quantity
           /\ \A u \in Unit : receiptOf[u] # o /\ outbox[o][u] = "NONE"
      [] OTHER ->
           /\ items[o] = {}
           /\ \A u \in Unit : receiptOf[u] # o /\ outbox[o][u] = "NONE"

------------------------------------------------------------------------------
(* Money.                                                                   *)

(* What the wallet entries of an order add up to, from the buyer's side.    *)
Posted(o) ==
  ledger[o]["PURCHASE_DEBIT"] + ledger[o]["PAYMENT_RELEASE_REFUND"]
    + ledger[o]["STOCK_UNAVAILABLE_REFUND"] + ledger[o]["PREORDER_CANCEL_REFUND"]
    + ledger[o]["DELIVERY_REFUND"] + ledger[o]["EXPIRED_CREDIT"]

(* What was paid from outside the wallet.                                   *)
Transferred(o) ==
  IF payment[o] = "PAID" /\ invoice[o].method # "WALLET" THEN BilledAmount(o) ELSE 0

Kept(o) == Transferred(o) - Posted(o)

(* What the shop keeps of an order follows from its state: the whole price  *)
(* when the buyer has or will get the goods, the wallet part while a mixed  *)
(* invoice is open, nothing after a refund, a cancellation or an expiry,    *)
(* and the unique code when money that came too late was credited.  No      *)
(* order of confirmations, expiries, cancellations, late payments and       *)
(* refunds pays a buyer twice or keeps money for nothing.                   *)
MoneyAccounted ==
  \A o \in Placed :
    Kept(o) =
      CASE status[o] \in {"FULFILLING", "COMPLETED", "PAID_WAITING_STOCK"} -> GrandTotal(o)
        [] status[o] = "PENDING_PAYMENT" -> invoice[o].contribution
        [] status[o] = "EXPIRED" /\ payment[o] = "PAID" -> invoice[o].code
        [] OTHER -> 0

(* A transfer is matched to its invoice by amount alone: two invoices that  *)
(* can still be paid never bill the same amount.                            *)
BilledAmountsDiffer ==
  \A o, p \in Placed :
    /\ o # p
    /\ \A q \in {o, p} : payment[q] = "PENDING" /\ due[q] # "CLOSED" /\ invoice[q].code > 0
    => BilledAmount(o) # BilledAmount(p)

(* An order whose transfer the Binance API verified, under the order's      *)
(* payment lock, can no longer be closed unpaid, neither by the expiry      *)
(* worker nor by the buyer or an admin.  BEP20 and web verification take no *)
(* such lock, and may leave a closed order with a verified transfer.        *)
VerifiedStaysPayable ==
  \A o \in Placed :
    invoice[o].method = "BINANCE_INTERNAL" /\ attempt[o] = "VERIFIED"
    => status[o] = "PENDING_PAYMENT"

------------------------------------------------------------------------------
(* Limits.                                                                  *)

(* The queue of preorders never grows beyond what the product allows, though*)
(* invoices are counted before they are paid and shrink unit by unit.       *)
PreorderQueueBounded == ActivePreorders <= PreorderLimit

(* No buyer has more open invoices than the channel allows (the code has    *)
(* five for a Telegram chat, one for a Web customer), an invoice whose      *)
(* transfer is still being verified included.                               *)
InvoicesBounded == \A b \in Buyer : Cardinality(ActiveInvoices(b)) <= InvoiceLimit(b)

(* README.md:29 speaks of one active unpaid invoice per Telegram chat.      *)
OneInvoicePerChat == \A b \in Buyer \ WebBuyer : Cardinality(ActiveInvoices(b)) <= 1

(* README.md:24 promises new healthy stock to the oldest paid preorder: no  *)
(* order that is not a preorder gets units while a paid preorder waits and  *)
(* the units on sale would serve it.                                        *)
NoQueueJump ==
  [][\A o \in Order :
       /\ items'[o] # items[o]
       /\ ~invoice'[o].preorder
       => \A p \in Waiting : Cardinality(Sellable) < Missing(p)]_vars

------------------------------------------------------------------------------
(* The promise the core implements.                                         *)

PhaseOf(o) ==
  CASE status[o] = "NONE" -> "ABSENT"
    [] status[o] = "PENDING_PAYMENT" -> "INVOICED"
    [] status[o] = "PAID_WAITING_STOCK" -> "OWED"
    [] status[o] = "FULFILLING" -> "ALLOTTED"
    [] status[o] = "COMPLETED" -> "GIVEN"
    [] status[o] = "REFUNDED" -> "COMPENSATED"
    [] status[o] \in {"EXPIRED", "CANCELLED"} ->
         IF payment[o] = "PAID" THEN "COMPENSATED" ELSE "VOID"

Promise == INSTANCE OrderPromise WITH
  Quantity <- 1..MaxQuantity,
  phase <- [o \in Order |-> PhaseOf(o)],
  want <- [o \in Order |-> IF status[o] = "NONE" THEN 0 ELSE invoice[o].quantity],
  goods <- items,
  given <- [o \in Order |-> {u \in Unit : deliveredTo[u] = o}]

(* Every transaction keeps the promise: goods are exclusive and complete,   *)
(* a closed order never comes back, and no unit that was set aside for a    *)
(* paid order is ever taken from it.                                        *)
KeepsPromise == Promise!PromiseSpec

------------------------------------------------------------------------------
(* Liveness.                                                                *)

(* The payment workers confirm what BEP20 and the Binance API verified; a   *)
(* web match is confirmed by itself only when                               *)
(* BINANCE_WEB_SESSION_AUTO_CONFIRM is set, which it is not by default.     *)
ConfirmVerified(o) ==
  attempt[o] = "VERIFIED" /\ invoice[o].method # "BINANCE_WEB" /\ ConfirmPayment(o)

(* The clock moves on, and the expiry and payment workers run again and     *)
(* again; buyers, admins and providers owe nothing.                         *)
FairSpec ==
  /\ Spec
  /\ \A o \in Order :
       /\ WF_vars(TimePasses(o))
       /\ WF_vars(ExpireOrder(o))
       /\ WF_vars(ConfirmVerified(o))

(* A web match that nobody confirmed keeps its invoice from closing.        *)
AwaitsOperator(o) == invoice[o].method = "BINANCE_WEB" /\ attempt[o] = "VERIFIED"

(* No invoice stays open for ever, whatever the provider answers and        *)
(* whenever the answer comes, unless a transfer found in the web history is *)
(* left to an operator.                                                     *)
InvoicesSettle ==
  \A o \in Order :
    status[o] = "PENDING_PAYMENT" ~> (status[o] # "PENDING_PAYMENT" \/ AwaitsOperator(o))
==============================================================================
