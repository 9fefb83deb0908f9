-------------------------------- MODULE Store --------------------------------
(***************************************************************************)
(* The transactional core of the shop: checkout, payment confirmation,     *)
(* expiry, cancellation, preorder allocation, late-payment credit, Web     *)
(* download and the inventory operations, for the stock of one product.    *)
(*                                                                         *)
(* Every action is one committed database transaction.  All of them that   *)
(* read or claim stock hold the advisory lock of the product, and all that *)
(* move an order's payment hold the order's payment lock, so a transaction *)
(* is one atomic step; whatever the code does in a SECOND transaction      *)
(* (allocating after a confirmation, allocating after an upload) is an     *)
(* action of its own, and other transactions may come in between.          *)
(*                                                                         *)
(* payment.status and order.paymentStatus are always written together and  *)
(* are one variable here.  Money is in rupiah units; a crypto invoice is   *)
(* accounted at its rupiah subtotal.                                       *)
(*                                                                         *)
(* A BINANCE_INTERNAL payment keeps the verifier it was created with.  The *)
(* method BINANCE_INTERNAL below is the one verified through the official  *)
(* API, BINANCE_WEB the one matched with the history of the web session.   *)
(***************************************************************************)
EXTENDS Integers, FiniteSets

CONSTANTS
  Order,                 \* checkout idempotency keys, each names one order
  Buyer,                 \* chatIds
  WebBuyer,              \* the chatIds of Web customers; the rest use Telegram
  NumUnits,              \* stock files of the product, numbered by createdAt
  Price,                 \* Product.price
  MaxQuantity,           \* configuredMaximum
  MaxCode,               \* UNIQUE_CODE_MAX (99 in the code)
  Method,                \* the enabled payment methods
  PreorderEnabled,       \* Product.preorderEnabled
  PreorderLimit,         \* Product.preorderLimit, in units
  TelegramInvoiceLimit,  \* 5 in the code
  WebInvoiceLimit,       \* 1 in the code
  OpeningBalance,        \* wallet balance every buyer starts with
  CheckResult,           \* the outcomes a health check may have
  None                   \* no order

Methods == {"WALLET", "WALLET_QRIS", "DANA_RELAY", "JAGO_TRANSFER",
            "USDT_BEP20", "BINANCE_INTERNAL", "BINANCE_WEB"}
CheckResults == {"HEALTHY", "HTTP_401", "HTTP_402", "ERROR"}

ASSUME OrderAssumption == IsFiniteSet(Order) /\ None \notin Order
ASSUME BuyerAssumption == WebBuyer \subseteq Buyer
ASSUME AmountAssumption ==
  /\ NumUnits \in Nat
  /\ Price \in Nat \ {0}
  /\ MaxQuantity \in Nat
  /\ MaxCode \in Nat
  /\ OpeningBalance \in Nat
ASSUME LimitAssumption ==
  /\ PreorderEnabled \in BOOLEAN
  /\ PreorderLimit \in Nat
  /\ TelegramInvoiceLimit \in Nat
  /\ WebInvoiceLimit \in Nat
ASSUME ChoiceAssumption == Method \subseteq Methods /\ CheckResult \subseteq CheckResults

Unit == 1..NumUnits

OrderStatus == {"NONE", "PENDING_PAYMENT", "PAID_WAITING_STOCK", "FULFILLING",
                "COMPLETED", "EXPIRED", "CANCELLED", "REFUNDED"}
PaymentStatus == {"NONE", "PENDING", "PAID", "EXPIRED"}
AttemptStatus == {"NONE", "AWAITING", "VERIFYING", "VERIFIED", "CONFIRMED",
                  "REJECTED", "EXPIRED"}
StockStatus == {"ABSENT", "AVAILABLE", "RESERVED", "DELIVERED", "BANNED",
                "DISABLED", "DELETED"}
HealthStatus == {"UNKNOWN"} \cup CheckResults
ReceiptStatus == {"NONE", "READY", "SENDING", "SENT", "FAILED", "UNKNOWN"}
NotificationStatus == {"NONE", "PENDING", "PROCESSING", "SENT", "FAILED", "MANUAL_REVIEW"}
Entry == {"PURCHASE_DEBIT", "PAYMENT_RELEASE_REFUND", "STOCK_UNAVAILABLE_REFUND",
          "PREORDER_CANCEL_REFUND", "DELIVERY_REFUND", "EXPIRED_CREDIT"}
Invoice == [buyer : Buyer, method : Methods, quantity : Nat, preorder : BOOLEAN,
            contribution : Nat, code : Nat]

VARIABLES
  status,      \* Order.status, NONE before checkout
  payment,     \* Payment.status and Order.paymentStatus
  invoice,     \* the immutable columns of the order and its payment
  due,         \* where now is: OPEN before expiresAt, LAPSED within the grace
               \* after it (verification grace, or clock skew), CLOSED beyond
  attempt,     \* status of the crypto payment attempt
  paidAt,      \* rank of Order.paidAt among all payments, 0 when null
  items,       \* the stockItemIds of the order's items
  stock,       \* DigitalStockItem.status
  holder,      \* DigitalStockItem.reservedOrderId
  deliveredTo, \* DigitalStockItem.deliveredOrderId
  health,      \* healthStatus together with healthHttpStatus
  archived,    \* archivedAt # null
  policy,      \* Product.bannedStockPolicy
  receipt,     \* SentDelivery.status of the unit's only receipt
  receiptOf,   \* SentDelivery.orderId of that receipt
  outbox,      \* status of the DIGITAL_FILE notification of order and unit
  ledger,      \* WalletTransaction.amount under its idempotency key, 0 when absent
  wallet       \* Wallet.balance

orderVars == <<status, payment, invoice, due, attempt, paidAt, items>>
stockVars == <<stock, holder, deliveredTo, health, archived, policy>>
deliveryVars == <<receipt, receiptOf, outbox>>
moneyVars == <<ledger, wallet>>
vars == <<orderVars, stockVars, deliveryVars, moneyVars>>

------------------------------------------------------------------------------
(* What an invoice asks for and what the shop owes on it.                   *)

Placed == {o \in Order : status[o] # "NONE"}
Owner(o) == invoice[o].buyer
IsWeb(b) == b \in WebBuyer
Crypto == {"USDT_BEP20", "BINANCE_INTERNAL", "BINANCE_WEB"}
UniqueCoded == {"DANA_RELAY", "WALLET_QRIS", "JAGO_TRANSFER"}

Subtotal(quantity) == Price * quantity
GrandTotal(o) == Subtotal(invoice[o].quantity) + invoice[o].code
BilledAmount(o) == GrandTotal(o) - invoice[o].contribution

(* Fault: the amount is free again as soon as the invoice expires.          *)
AmountsUntilExpiry ==
  {BilledAmount(p) : p \in {q \in Placed : payment[q] = "PENDING" /\ due[q] = "OPEN"
                                           /\ invoice[q].code > 0}}

(* A coded amount stays reserved until five minutes after the expiry.       *)
ActiveAmounts ==
  {BilledAmount(p) : p \in {q \in Placed : /\ payment[q] = "PENDING"
                                           /\ due[q] # "CLOSED"
                                           /\ invoice[q].code > 0}}

(* allocateUniqueCode picks any code that makes the amount unique.          *)
FreeCodes(base) == {c \in 1..MaxCode : base + c \notin ActiveAmounts}

(* Invoices that count against the buyer's limit: not expired, or a crypto  *)
(* transfer still under verification within its grace.                      *)
ActiveInvoices(b) ==
  {o \in Placed : /\ Owner(o) = b
                  /\ status[o] = "PENDING_PAYMENT"
                  /\ payment[o] = "PENDING"
                  /\ \/ due[o] = "OPEN"
                     \/ /\ due[o] = "LAPSED"
                        /\ attempt[o] \in {"VERIFYING", "VERIFIED"}}

InvoiceLimit(b) == IF IsWeb(b) THEN WebInvoiceLimit ELSE TelegramInvoiceLimit

(* The rank the next payment gets.                                          *)
NextPaidAt == 1 + Cardinality({o \in Order : paidAt[o] # 0})

------------------------------------------------------------------------------
(* Stock: what may be sold, and how units are claimed and let go.           *)

SellableHealth(u) ==
  \/ health[u] = "HEALTHY"
  \/ health[u] = "HTTP_401" /\ policy = "ALLOW_HTTP_401"

BannedHealth(u) == health[u] \in {"HTTP_401", "HTTP_402"}

Sellable == {u \in Unit : stock[u] = "AVAILABLE" /\ ~archived[u] /\ SellableHealth(u)}
ReservedUnits == {u \in Unit : stock[u] = "RESERVED" /\ ~archived[u] /\ SellableHealth(u)}

(* T is the k oldest of S: findMany orderBy createdAt asc, take k.          *)
Oldest(T, S, k) ==
  /\ T \subseteq S
  /\ Cardinality(T) = k
  /\ \A t \in T, s \in S \ T : t < s

Missing(o) == invoice[o].quantity - Cardinality(items[o])

Waiting == {o \in Placed : status[o] = "PAID_WAITING_STOCK"}

(* Units that open preorders still have to get.                             *)
ActivePreorders ==
  LET open == {o \in Placed : /\ invoice[o].preorder
                              /\ status[o] \in {"PENDING_PAYMENT", "PAID_WAITING_STOCK"}}
      slots == UNION {{o} \X (1..Missing(o)) : o \in open}
  IN  Cardinality(slots)

(* updateMany ... RESERVED together with assignOrderItemsToStock.           *)
ClaimUnits(o, T) ==
  /\ items' = [items EXCEPT ![o] = @ \cup T]
  /\ stock' = [u \in Unit |-> IF u \in T THEN "RESERVED" ELSE stock[u]]
  /\ holder' = [u \in Unit |-> IF u \in T THEN o ELSE holder[u]]

ReservedFor(o) == {u \in Unit : holder[u] = o /\ stock[u] = "RESERVED"}

(* Fault: the stock files keep pointing at the closed order.                *)
ReleaseWithoutHolder(o) ==
  /\ items' = [items EXCEPT ![o] = {}]
  /\ stock' = [u \in Unit |-> IF u \in ReservedFor(o) THEN "AVAILABLE" ELSE stock[u]]
  /\ UNCHANGED holder

(* A closing order drops its items; units that became unsellable while      *)
(* reserved go to BANNED, the others back on sale.                          *)
ReleaseUnits(o) ==
  /\ items' = [items EXCEPT ![o] = {}]
  /\ stock' = [u \in Unit |->
                 IF u \notin ReservedFor(o) THEN stock[u]
                 ELSE IF BannedHealth(u) /\ ~SellableHealth(u) THEN "BANNED" ELSE "AVAILABLE"]
  /\ holder' = [u \in Unit |-> IF u \in ReservedFor(o) THEN None ELSE holder[u]]

(* queueOrderDigitalDelivery: a Telegram order gets one outbox row per      *)
(* unit; a Web order gets READY receipts, and the whole transaction fails   *)
(* when a unit already has the receipt of another order.                    *)
QueueTelegram(o, T) ==
  /\ outbox' = [outbox EXCEPT ![o] =
                  [u \in Unit |-> IF u \in T /\ @[u] = "NONE" THEN "PENDING" ELSE @[u]]]
  /\ UNCHANGED <<receipt, receiptOf>>

QueueWeb(o, T) ==
  /\ \A u \in T : receiptOf[u] \in {None, o}
  /\ receipt' = [u \in Unit |-> IF u \in T /\ receipt[u] = "NONE" THEN "READY" ELSE receipt[u]]
  /\ receiptOf' = [u \in Unit |-> IF u \in T THEN o ELSE receiptOf[u]]
  /\ UNCHANGED outbox

QueueDelivery(b, o, T) ==
  \/ IsWeb(b) /\ QueueWeb(o, T)
  \/ ~IsWeb(b) /\ QueueTelegram(o, T)

------------------------------------------------------------------------------
(* The wallet ledger.                                                       *)

(* Fault: a debit is posted whatever the balance.                           *)
PostOverdraft(b, o, kind, amount) ==
  /\ ledger[o][kind] = 0
  /\ ledger' = [ledger EXCEPT ![o][kind] = amount]
  /\ wallet' = [wallet EXCEPT ![b] = @ + amount]

(* Fault: the idempotency key names the order and not the kind of entry.    *)
PostOncePerOrder(b, o, kind, amount) ==
  IF \E k \in Entry : ledger[o][k] # 0 THEN UNCHANGED moneyVars
  ELSE PostOverdraft(b, o, kind, amount)

(* applyWalletTransaction: an entry is posted once under its key, and a     *)
(* debit may not overdraw the wallet.                                       *)
PostEntry(b, o, kind, amount) ==
  \/ /\ ledger[o][kind] = 0
     /\ amount # 0
     /\ wallet[b] + amount >= 0
     /\ ledger' = [ledger EXCEPT ![o][kind] = amount]
     /\ wallet' = [wallet EXCEPT ![b] = @ + amount]
  \/ /\ ledger[o][kind] # 0
     /\ ledger[o][kind] = amount
     /\ UNCHANGED moneyVars

(* Fault: the wallet part of a closed invoice is not given back.            *)
KeepContribution(o) == o \in Order /\ UNCHANGED moneyVars

(* releasePendingWalletContribution                                         *)
ReleaseContribution(o) ==
  \/ /\ ledger[o]["PURCHASE_DEBIT"] < 0
     /\ PostEntry(Owner(o), o, "PAYMENT_RELEASE_REFUND", -ledger[o]["PURCHASE_DEBIT"])
  \/ /\ ledger[o]["PURCHASE_DEBIT"] >= 0
     /\ UNCHANGED moneyVars

------------------------------------------------------------------------------
Init ==
  /\ status = [o \in Order |-> "NONE"]
  /\ payment = [o \in Order |-> "NONE"]
  /\ invoice = [o \in Order |-> None]
  /\ due = [o \in Order |-> "OPEN"]
  /\ attempt = [o \in Order |-> "NONE"]
  /\ paidAt = [o \in Order |-> 0]
  /\ items = [o \in Order |-> {}]
  /\ stock = [u \in Unit |-> "ABSENT"]
  /\ holder = [u \in Unit |-> None]
  /\ deliveredTo = [u \in Unit |-> None]
  /\ health = [u \in Unit |-> "UNKNOWN"]
  /\ archived = [u \in Unit |-> FALSE]
  /\ policy = "BLOCKED"
  /\ receipt = [u \in Unit |-> "NONE"]
  /\ receiptOf = [u \in Unit |-> None]
  /\ outbox = [o \in Order |-> [u \in Unit |-> "NONE"]]
  /\ ledger = [o \in Order |-> [k \in Entry |-> 0]]
  /\ wallet = [b \in Buyer |-> OpeningBalance]

------------------------------------------------------------------------------
(* Checkout (createDigitalOrder).                                           *)

InStock(quantity) == Cardinality(Sellable) >= quantity

(* Fault: the slots are counted without the units asked for.                *)
PreorderOpenForAny(quantity) ==
  /\ PreorderEnabled /\ quantity > 0
  /\ ReservedUnits = {}
  /\ ActivePreorders < PreorderLimit

(* Preorder only opens when no unit is reserved for somebody else, and      *)
(* within the queue limit.                                                  *)
PreorderOpen(quantity) ==
  /\ PreorderEnabled
  /\ ReservedUnits = {}
  /\ ActivePreorders + quantity <= PreorderLimit

(* A mixed wallet and QRIS checkout turns into a wallet purchase when the   *)
(* balance covers it and into a plain QRIS invoice when there is none.      *)
EffectiveMethod(b, requested, quantity) ==
  IF requested # "WALLET_QRIS" THEN requested
  ELSE IF wallet[b] >= Subtotal(quantity) THEN "WALLET"
  ELSE IF wallet[b] > 0 THEN "WALLET_QRIS" ELSE "DANA_RELAY"

(* Fault: off by one at the limit of open invoices.                         *)
CanCheckoutOneMore(o, b, quantity) ==
  /\ status[o] = "NONE"
  /\ quantity \in 1..MaxQuantity
  /\ Cardinality(ActiveInvoices(b)) <= InvoiceLimit(b)
  /\ InStock(quantity) \/ PreorderOpen(quantity)

CanCheckout(o, b, quantity) ==
  /\ status[o] = "NONE"
  /\ quantity \in 1..MaxQuantity
  /\ Cardinality(ActiveInvoices(b)) < InvoiceLimit(b)
  /\ InStock(quantity) \/ PreorderOpen(quantity)

NewInvoice(b, m, quantity, code) ==
  [buyer |-> b, method |-> m, quantity |-> quantity,
   preorder |-> ~InStock(quantity),
   contribution |-> IF m = "WALLET_QRIS" THEN wallet[b] ELSE 0,
   code |-> code]

(* An invoice to be paid outside the wallet reserves no stock; the wallet   *)
(* part of a mixed invoice is debited at once.                              *)
CreateInvoice(o, b, requested, quantity) ==
  LET m == EffectiveMethod(b, requested, quantity)
      contribution == IF m = "WALLET_QRIS" THEN wallet[b] ELSE 0
  IN
  /\ CanCheckout(o, b, quantity)
  /\ m # "WALLET"
  /\ \E code \in IF m \in UniqueCoded
                 THEN FreeCodes(Subtotal(quantity) - contribution) ELSE {0} :
       invoice' = [invoice EXCEPT ![o] = NewInvoice(b, m, quantity, code)]
  /\ status' = [status EXCEPT ![o] = "PENDING_PAYMENT"]
  /\ payment' = [payment EXCEPT ![o] = "PENDING"]
  /\ attempt' = [attempt EXCEPT ![o] = IF m \in Crypto THEN "AWAITING" ELSE "NONE"]
  /\ IF contribution > 0 THEN PostEntry(b, o, "PURCHASE_DEBIT", -contribution)
                         ELSE UNCHANGED moneyVars
  /\ UNCHANGED <<due, paidAt, items, stockVars, deliveryVars>>

(* A wallet purchase is paid in the checkout transaction and takes the      *)
(* oldest units on sale.                                                    *)
BuyFromWallet(o, b, requested, quantity) ==
  /\ CanCheckout(o, b, quantity)
  /\ EffectiveMethod(b, requested, quantity) = "WALLET"
  /\ InStock(quantity)
  /\ \E T \in SUBSET Sellable :
       /\ Oldest(T, Sellable, quantity)
       /\ ClaimUnits(o, T)
       /\ QueueDelivery(b, o, T)
  /\ invoice' = [invoice EXCEPT ![o] = NewInvoice(b, "WALLET", quantity, 0)]
  /\ status' = [status EXCEPT ![o] = "FULFILLING"]
  /\ payment' = [payment EXCEPT ![o] = "PAID"]
  /\ paidAt' = [paidAt EXCEPT ![o] = NextPaidAt]
  /\ PostEntry(b, o, "PURCHASE_DEBIT", -Subtotal(quantity))
  /\ UNCHANGED <<due, attempt, deliveredTo, health, archived, policy>>

PreorderFromWallet(o, b, requested, quantity) ==
  /\ CanCheckout(o, b, quantity)
  /\ EffectiveMethod(b, requested, quantity) = "WALLET"
  /\ ~InStock(quantity)
  /\ invoice' = [invoice EXCEPT ![o] = NewInvoice(b, "WALLET", quantity, 0)]
  /\ status' = [status EXCEPT ![o] = "PAID_WAITING_STOCK"]
  /\ payment' = [payment EXCEPT ![o] = "PAID"]
  /\ paidAt' = [paidAt EXCEPT ![o] = NextPaidAt]
  /\ PostEntry(b, o, "PURCHASE_DEBIT", -Subtotal(quantity))
  /\ UNCHANGED <<due, attempt, items, stockVars, deliveryVars>>

------------------------------------------------------------------------------
(* The clock and the crypto verification.                                   *)

(* Only the clock of an unpaid invoice matters.                             *)
TimePasses(o) ==
  /\ status[o] = "PENDING_PAYMENT"
  /\ \/ due[o] = "OPEN" /\ due' = [due EXCEPT ![o] = "LAPSED"]
     \/ due[o] = "LAPSED" /\ due' = [due EXCEPT ![o] = "CLOSED"]
  /\ UNCHANGED <<status, payment, invoice, attempt, paidAt, items>>
  /\ UNCHANGED <<stockVars, deliveryVars, moneyVars>>

AttemptMoves(o, to) ==
  /\ attempt' = [attempt EXCEPT ![o] = to]
  /\ UNCHANGED <<status, payment, invoice, due, paidAt, items>>
  /\ UNCHANGED <<stockVars, deliveryVars, moneyVars>>

(* The buyer hands in the transaction hash or the Binance order id.         *)
SubmitTransfer(o) ==
  /\ attempt[o] = "AWAITING"
  /\ due[o] = "OPEN"
  /\ status[o] = "PENDING_PAYMENT" /\ payment[o] = "PENDING"
  /\ AttemptMoves(o, "VERIFYING")

(* The grace is tested before the provider is asked, or with the time at    *)
(* which a pass over the web history began, so a transfer may be found      *)
(* verified after the grace has ended.                                      *)
VerifyTransfer(o) ==
  /\ attempt[o] = "VERIFYING"
  /\ AttemptMoves(o, "VERIFIED")

(* A BEP20 transfer is only given up when the grace is over; the Binance API*)
(* may also refuse it (wrong payee, used twice); the web history never does.*)
RejectTransfer(o) ==
  /\ attempt[o] = "VERIFYING"
  /\ \/ invoice[o].method = "USDT_BEP20" /\ due[o] = "CLOSED"
     \/ invoice[o].method = "BINANCE_INTERNAL"
  /\ AttemptMoves(o, "REJECTED")

------------------------------------------------------------------------------
(* Payment confirmation (confirmOrderPayment).                              *)

(* What each method needs: a crypto invoice a verified attempt, at any time *)
(* or, matched with the web history, within the grace, or the approval of an*)
(* admin before it expires; any other invoice must not have expired.        *)
Payable(o) ==
  /\ status[o] = "PENDING_PAYMENT" /\ payment[o] = "PENDING"
  /\ \/ attempt[o] = "VERIFIED" /\ (invoice[o].method = "BINANCE_WEB" => due[o] # "CLOSED")
     \/ due[o] = "OPEN"

(* confirmOrderProviderStateTx                                              *)
ConfirmAttempt(o) ==
  attempt' = [attempt EXCEPT ![o] = IF invoice[o].method \in Crypto THEN "CONFIRMED" ELSE @]

ConfirmFromStock(o) ==
  /\ Payable(o)
  /\ ~invoice[o].preorder
  /\ InStock(invoice[o].quantity)
  /\ \E T \in SUBSET Sellable :
       /\ Oldest(T, Sellable, invoice[o].quantity)
       /\ ClaimUnits(o, T)
       /\ QueueDelivery(Owner(o), o, T)
  /\ status' = [status EXCEPT ![o] = "FULFILLING"]
  /\ payment' = [payment EXCEPT ![o] = "PAID"]
  /\ paidAt' = [paidAt EXCEPT ![o] = NextPaidAt]
  /\ ConfirmAttempt(o)
  /\ UNCHANGED <<invoice, due, deliveredTo, health, archived, policy, moneyVars>>

(* The last units went to somebody else: the whole amount goes to the       *)
(* wallet.                                                                  *)
ConfirmOutOfStock(o) ==
  /\ Payable(o)
  /\ ~invoice[o].preorder
  /\ ~InStock(invoice[o].quantity)
  /\ status' = [status EXCEPT ![o] = "REFUNDED"]
  /\ payment' = [payment EXCEPT ![o] = "PAID"]
  /\ paidAt' = [paidAt EXCEPT ![o] = NextPaidAt]
  /\ ConfirmAttempt(o)
  /\ PostEntry(Owner(o), o, "STOCK_UNAVAILABLE_REFUND", GrandTotal(o))
  /\ UNCHANGED <<invoice, due, items, stockVars, deliveryVars>>

ConfirmPreorder(o) ==
  /\ Payable(o)
  /\ invoice[o].preorder
  /\ status' = [status EXCEPT ![o] = "PAID_WAITING_STOCK"]
  /\ payment' = [payment EXCEPT ![o] = "PAID"]
  /\ paidAt' = [paidAt EXCEPT ![o] = NextPaidAt]
  /\ ConfirmAttempt(o)
  /\ UNCHANGED <<invoice, due, items, stockVars, deliveryVars, moneyVars>>

------------------------------------------------------------------------------
(* Closing an unpaid invoice, and money that arrives afterwards.            *)

(* Only the Binance API records its answer under the payment lock.  The     *)
(* VERIFIED of a BEP20 transfer or of a web match may land between the      *)
(* closing transaction's test of the attempt and its update, which then no  *)
(* longer matches.                                                          *)
ClosedAttempt(o) ==
  IF attempt[o] = "VERIFYING" /\ invoice[o].method \in {"USDT_BEP20", "BINANCE_WEB"}
  THEN {"EXPIRED", "VERIFIED"}
  ELSE IF attempt[o] \in {"AWAITING", "VERIFYING", "REJECTED"} THEN {"EXPIRED"}
  ELSE {attempt[o]}

CloseUnpaid(o, to) ==
  /\ status' = [status EXCEPT ![o] = to]
  /\ payment' = [payment EXCEPT ![o] = "EXPIRED"]
  /\ \E a \in ClosedAttempt(o) : attempt' = [attempt EXCEPT ![o] = a]
  /\ ReleaseUnits(o)
  /\ ReleaseContribution(o)
  /\ UNCHANGED <<invoice, due, paidAt, deliveredTo, health, archived, policy, deliveryVars>>

(* Fault: a verified transfer protects its invoice only within the grace.   *)
VerifiedUntilDeadline(o) == attempt[o] \in {"VERIFYING", "VERIFIED"} /\ due[o] # "CLOSED"

(* Fault: a transfer nobody confirms protects its invoice for ever.         *)
VerifyingForever(o) == attempt[o] \in {"VERIFYING", "VERIFIED"}

UnderVerification(o) ==
  \/ attempt[o] = "VERIFIED"
  \/ attempt[o] = "VERIFYING" /\ due[o] # "CLOSED"

ExpireOrder(o) ==
  /\ status[o] = "PENDING_PAYMENT" /\ payment[o] = "PENDING"
  /\ due[o] # "OPEN"
  /\ ~UnderVerification(o)
  /\ CloseUnpaid(o, "EXPIRED")

CancelOrder(o) ==
  /\ status[o] = "PENDING_PAYMENT" /\ payment[o] = "PENDING"
  /\ ~UnderVerification(o)
  /\ CloseUnpaid(o, "CANCELLED")

(* creditExpiredOrderPaymentToWalletTx: a rupiah payment that arrived after *)
(* the expiry becomes wallet balance, without its unique code, provided     *)
(* nothing of the order was ever on its way to the buyer.                   *)
CreditExpiredOrder(o) ==
  /\ ledger[o]["EXPIRED_CREDIT"] = 0
  /\ status[o] = "EXPIRED" /\ payment[o] = "EXPIRED"
  /\ invoice[o].method \in UniqueCoded
  /\ items[o] = {}
  /\ \A u \in Unit : /\ holder[u] # o /\ deliveredTo[u] # o
                     /\ receiptOf[u] # o /\ outbox[o][u] = "NONE"
  /\ PostEntry(Owner(o), o, "EXPIRED_CREDIT", BilledAmount(o) - invoice[o].code)
  /\ payment' = [payment EXCEPT ![o] = "PAID"]
  /\ paidAt' = [paidAt EXCEPT ![o] = NextPaidAt]
  /\ UNCHANGED <<status, invoice, due, attempt, items, stockVars, deliveryVars>>

------------------------------------------------------------------------------
(* Preorders.                                                               *)

(* Fault: only the units allocated last are queued.                         *)
LastUnits(o, T) == T \ items[o]

(* The units a preorder has once it gets T.                                 *)
AllUnits(o, T) == items[o] \cup T

(* allocatePaidPreorders, one round of its loop: the preorder paid first    *)
(* gets the oldest units, all it still misses or none.                      *)
AllocatePaidPreorder(o) ==
  /\ o \in Waiting
  /\ Missing(o) > 0
  /\ \A p \in Waiting : Missing(p) > 0 => paidAt[o] <= paidAt[p]
  /\ InStock(Missing(o))
  /\ \E T \in SUBSET Sellable :
       /\ Oldest(T, Sellable, Missing(o))
       /\ ClaimUnits(o, T)
       /\ QueueDelivery(Owner(o), o, AllUnits(o, T))
  /\ status' = [status EXCEPT ![o] = "FULFILLING"]
  /\ UNCHANGED <<payment, invoice, due, attempt, paidAt>>
  /\ UNCHANGED <<deliveredTo, health, archived, policy, moneyVars>>

(* assignStockToPaidPreorder: an admin gives one chosen unit to a waiting   *)
(* preorder; the order is complete when nothing is missing any more.        *)
AssignStock(o, u) ==
  /\ o \in Waiting
  /\ Missing(o) > 0
  /\ u \in Sellable
  /\ ClaimUnits(o, {u})
  /\ \/ /\ Missing(o) > 1
        /\ UNCHANGED <<status, deliveryVars>>
     \/ /\ Missing(o) = 1
        /\ status' = [status EXCEPT ![o] = "FULFILLING"]
        /\ QueueDelivery(Owner(o), o, AllUnits(o, {u}))
  /\ UNCHANGED <<payment, invoice, due, attempt, paidAt>>
  /\ UNCHANGED <<deliveredTo, health, archived, policy, moneyVars>>

(* cancelPaidPreorder: only while nothing has been allocated to it.         *)
CancelPaidPreorder(o) ==
  /\ o \in Waiting
  /\ items[o] = {}
  /\ \A u \in Unit : receiptOf[u] # o
  /\ PostEntry(Owner(o), o, "PREORDER_CANCEL_REFUND", GrandTotal(o))
  /\ status' = [status EXCEPT ![o] = "REFUNDED"]
  /\ UNCHANGED <<payment, invoice, due, attempt, paidAt, items, stockVars, deliveryVars>>

------------------------------------------------------------------------------
(* Web download.                                                            *)

Receipts(o) == {u \in Unit : receiptOf[u] = o}

(* One receipt, or the bundle of all once every item has one; each must be  *)
(* in step with its stock file.                                             *)
Downloadable(o, R) ==
  /\ R \subseteq Receipts(o)
  /\ \/ Cardinality(R) = 1
     \/ R = Receipts(o) /\ Cardinality(R) = invoice[o].quantity
  /\ \A u \in R :
       /\ u \in items[o]
       /\ \/ receipt[u] = "READY" /\ stock[u] = "RESERVED" /\ holder[u] = o
          \/ receipt[u] = "SENT" /\ stock[u] = "DELIVERED" /\ deliveredTo[u] = o

(* recordDownloads: a first download delivers the unit, and the last one    *)
(* completes the order.                                                     *)
DownloadWeb(o, R) ==
  LET ready == {u \in R : receipt[u] = "READY"} IN
  /\ status[o] \in {"FULFILLING", "COMPLETED"} /\ payment[o] = "PAID"
  /\ IsWeb(Owner(o))
  /\ Downloadable(o, R)
  /\ ready # {}
  /\ receipt' = [u \in Unit |-> IF u \in ready THEN "SENT" ELSE receipt[u]]
  /\ stock' = [u \in Unit |-> IF u \in ready THEN "DELIVERED" ELSE stock[u]]
  /\ deliveredTo' = [u \in Unit |-> IF u \in ready THEN o ELSE deliveredTo[u]]
  /\ archived' = [u \in Unit |-> archived[u] /\ u \notin ready]
  /\ status' = [status EXCEPT ![o] =
                  IF @ = "FULFILLING" /\ \A u \in Receipts(o) : receipt'[u] = "SENT"
                  THEN "COMPLETED" ELSE @]
  /\ UNCHANGED <<payment, invoice, due, attempt, paidAt, items>>
  /\ UNCHANGED <<holder, health, policy, receiptOf, outbox, moneyVars>>

------------------------------------------------------------------------------
(* Inventory.                                                               *)

StockMoves(u, to) ==
  /\ stock' = [stock EXCEPT ![u] = to]
  /\ UNCHANGED <<orderVars, holder, deliveredTo, policy, deliveryVars, moneyVars>>

(* An uploaded K12 file waits for its first check, a generic one is healthy *)
AddStock(u, h) ==
  /\ stock[u] = "ABSENT"
  /\ \A v \in Unit : v < u => stock[v] # "ABSENT"
  /\ h \in {"UNKNOWN", "HEALTHY"}
  /\ health' = [health EXCEPT ![u] = h]
  /\ UNCHANGED archived
  /\ StockMoves(u, "AVAILABLE")

(* nextStockStatus                                                          *)
CheckedStatus(u, result) ==
  CASE stock[u] = "DELIVERED" -> "DELIVERED"
    [] stock[u] # "DELIVERED" /\ result \in {"HTTP_401", "HTTP_402"} ->
         IF result = "HTTP_401" /\ policy = "ALLOW_HTTP_401" THEN "AVAILABLE" ELSE "BANNED"
    [] stock[u] = "BANNED" /\ result = "HEALTHY" -> "AVAILABLE"
    [] OTHER -> stock[u]

(* checkStockItem re-reads the unit after the network request and gives up  *)
(* when it was reserved, archived or disabled meanwhile.                    *)
CheckHealth(u, result) ==
  /\ stock[u] \in {"AVAILABLE", "BANNED", "DELIVERED"}
  /\ ~archived[u]
  /\ health' = [health EXCEPT ![u] = result]
  /\ UNCHANGED archived
  /\ StockMoves(u, CheckedStatus(u, result))

(* Fault: a reserved unit can be archived.                                  *)
ArchiveReserved(u) ==
  /\ stock[u] \in {"AVAILABLE", "RESERVED", "BANNED", "DISABLED"}
  /\ ~archived[u]
  /\ archived' = [archived EXCEPT ![u] = TRUE]
  /\ UNCHANGED health
  /\ StockMoves(u, "DISABLED")

ArchiveStock(u) ==
  /\ stock[u] \in {"AVAILABLE", "BANNED", "DELIVERED", "DISABLED"}
  /\ ~archived[u]
  /\ archived' = [archived EXCEPT ![u] = TRUE]
  /\ UNCHANGED health
  /\ StockMoves(u, IF stock[u] = "DELIVERED" THEN "DELIVERED" ELSE "DISABLED")

RestoreStock(u) ==
  /\ archived[u]
  /\ stock[u] \in {"DELIVERED", "DISABLED"}
  /\ archived' = [archived EXCEPT ![u] = FALSE]
  /\ UNCHANGED health
  /\ StockMoves(u, IF stock[u] = "DELIVERED" THEN "DELIVERED"
                   ELSE IF BannedHealth(u) /\ ~SellableHealth(u) THEN "BANNED"
                   ELSE "AVAILABLE")

(* permanentlyDeleteStockItem: never a unit any order refers to.            *)
DeleteStock(u) ==
  /\ stock[u] \in {"AVAILABLE", "BANNED", "DISABLED"}
  /\ holder[u] = None /\ deliveredTo[u] = None /\ receiptOf[u] = None
  /\ \A o \in Order : u \notin items[o]
  /\ archived' = [archived EXCEPT ![u] = FALSE]
  /\ UNCHANGED health
  /\ StockMoves(u, "DELETED")

(* The banned-policy route puts unallocated banned units on or off sale.    *)
SetBannedPolicy(p) ==
  LET unallocated == {u \in Unit : /\ ~archived[u] /\ BannedHealth(u)
                                   /\ stock[u] \in {"AVAILABLE", "BANNED"}
                                   /\ holder[u] = None /\ deliveredTo[u] = None}
  IN
  /\ policy # p
  /\ policy' = p
  /\ stock' = [u \in Unit |->
                 IF u \notin unallocated THEN stock[u]
                 ELSE IF p = "ALLOW_HTTP_401" /\ health[u] = "HTTP_401"
                      THEN "AVAILABLE" ELSE "BANNED"]
  /\ UNCHANGED <<orderVars, holder, deliveredTo, health, archived, deliveryVars, moneyVars>>

------------------------------------------------------------------------------
Checkout(o) ==
  \E b \in Buyer, m \in Method, quantity \in 1..MaxQuantity :
    \/ CreateInvoice(o, b, m, quantity)
    \/ BuyFromWallet(o, b, m, quantity)
    \/ PreorderFromWallet(o, b, m, quantity)

ConfirmPayment(o) ==
  \/ ConfirmFromStock(o)
  \/ ConfirmOutOfStock(o)
  \/ ConfirmPreorder(o)

OrderStep(o) ==
  \/ Checkout(o)
  \/ TimePasses(o)
  \/ SubmitTransfer(o)
  \/ VerifyTransfer(o)
  \/ RejectTransfer(o)
  \/ ConfirmPayment(o)
  \/ ExpireOrder(o)
  \/ CancelOrder(o)
  \/ CreditExpiredOrder(o)
  \/ AllocatePaidPreorder(o)
  \/ \E u \in Unit : AssignStock(o, u)
  \/ CancelPaidPreorder(o)
  \/ \E R \in SUBSET Unit : DownloadWeb(o, R)

InventoryStep ==
  \/ \E u \in Unit :
       \/ \E h \in {"UNKNOWN", "HEALTHY"} : AddStock(u, h)
       \/ \E result \in CheckResult : CheckHealth(u, result)
       \/ ArchiveStock(u)
       \/ RestoreStock(u)
       \/ DeleteStock(u)
  \/ \E p \in {"BLOCKED", "ALLOW_HTTP_401"} : SetBannedPolicy(p)

Next == (\E o \in Order : OrderStep(o)) \/ InventoryStep

Spec == Init /\ [][Next]_vars
==============================================================================
