----------------------------- MODULE StoreProofs -----------------------------
(***************************************************************************)
(* The transactional core keeps its types, the stock its owner, the shop   *)
(* exactly the money its orders are worth and open invoices their amounts  *)
(* apart, for any number of orders, buyers and units, any price and any    *)
(* limits.                                                                 *)
(***************************************************************************)
EXTENDS StoreProperties, FiniteSetTheorems, TLAPS

(* Besides TypeOK: a placed order has an invoice.                           *)
TypeInv ==
  /\ TypeOK
  /\ \A o \in Order : status[o] # "NONE" => invoice[o] \in Invoice

------------------------------------------------------------------------------
(* Arithmetic: after these two lemmas the price is only ever used through   *)
(* Subtotal.                                                                *)

(* A subtotal is a natural number.                                          *)
LEMMA SubtotalType ==
  ASSUME NEW q \in Nat
  PROVE  Subtotal(q) \in Nat
BY AmountAssumption DEF Subtotal

(* The rank of the next payment is a natural number.                        *)
LEMMA NextPaidAtType == NextPaidAt \in Nat
<1> DEFINE P == {o \in Order : paidAt[o] # 0}
<1>1. IsFiniteSet(P)
  BY OrderAssumption, FS_Subset
<1>2. Cardinality(P) \in Nat
  BY <1>1, FS_CardinalityType
<1>3. QED
  BY <1>2 DEF NextPaidAt

(* What a placed order bills is an integer.                                 *)
LEMMA AmountsType ==
  ASSUME NEW o \in Order, invoice[o] \in Invoice
  PROVE  /\ GrandTotal(o) \in Nat
         /\ BilledAmount(o) \in Int
<1>1. /\ invoice[o].quantity \in Nat
      /\ invoice[o].code \in Nat
      /\ invoice[o].contribution \in Nat
  BY DEF Invoice
<1>2. Subtotal(invoice[o].quantity) \in Nat
  BY <1>1, SubtotalType
<1>3. QED
  BY <1>1, <1>2 DEF GrandTotal, BilledAmount

------------------------------------------------------------------------------
(* The types of what the shared steps of the transactions write.            *)

(* A wallet posting keeps the types of ledger and balances, and overdraws   *)
(* none.                                                                    *)
LEMMA PostEntryType ==
  ASSUME TypeOK, NEW b \in Buyer, NEW o \in Order, NEW kind \in Entry,
         NEW amount \in Int, PostEntry(b, o, kind, amount)
  PROVE  /\ ledger' \in [Order -> [Entry -> Int]]
         /\ wallet' \in [Buyer -> Nat]
<1>1. CASE UNCHANGED moneyVars
  BY <1>1 DEF TypeOK, moneyVars
<1>2. CASE /\ wallet[b] + amount >= 0
           /\ ledger' = [ledger EXCEPT ![o][kind] = amount]
           /\ wallet' = [wallet EXCEPT ![b] = @ + amount]
  BY <1>2 DEF TypeOK
<1>3. QED
  BY <1>1, <1>2 DEF PostEntry

(* Giving back the wallet part of an invoice keeps the types as well.       *)
LEMMA ReleaseContributionType ==
  ASSUME TypeOK, NEW o \in Order, invoice[o] \in Invoice, ReleaseContribution(o)
  PROVE  /\ ledger' \in [Order -> [Entry -> Int]]
         /\ wallet' \in [Buyer -> Nat]
<1>1. Owner(o) \in Buyer
  BY DEF Owner, Invoice
<1>2. -ledger[o]["PURCHASE_DEBIT"] \in Int
  BY DEF TypeOK, Entry
<1>3. CASE UNCHANGED moneyVars
  BY <1>3 DEF TypeOK, moneyVars
<1>4. CASE PostEntry(Owner(o), o, "PAYMENT_RELEASE_REFUND", -ledger[o]["PURCHASE_DEBIT"])
  BY <1>1, <1>2, <1>4, PostEntryType DEF Entry
<1>5. QED
  BY <1>3, <1>4 DEF ReleaseContribution

(* Claiming units keeps the types of the stock columns.                     *)
LEMMA ClaimUnitsType ==
  ASSUME TypeOK, NEW o \in Order, NEW T \in SUBSET Unit, ClaimUnits(o, T)
  PROVE  /\ items' \in [Order -> SUBSET Unit]
         /\ stock' \in [Unit -> StockStatus]
         /\ holder' \in [Unit -> Order \cup {None}]
BY DEF ClaimUnits, TypeOK, StockStatus

(* So does letting them go.                                                 *)
LEMMA ReleaseUnitsType ==
  ASSUME TypeOK, NEW o \in Order, ReleaseUnits(o)
  PROVE  /\ items' \in [Order -> SUBSET Unit]
         /\ stock' \in [Unit -> StockStatus]
         /\ holder' \in [Unit -> Order \cup {None}]
BY DEF ReleaseUnits, TypeOK, StockStatus

(* Queuing keeps the types of receipts and notifications on both channels.  *)
LEMMA QueueDeliveryType ==
  ASSUME TypeOK, NEW b, NEW o \in Order, NEW T \in SUBSET Unit, QueueDelivery(b, o, T)
  PROVE  /\ receipt' \in [Unit -> ReceiptStatus]
         /\ receiptOf' \in [Unit -> Order \cup {None}]
         /\ outbox' \in [Order -> [Unit -> NotificationStatus]]
<1>1. CASE QueueWeb(o, T)
  BY <1>1 DEF QueueWeb, TypeOK, ReceiptStatus
<1>2. CASE QueueTelegram(o, T)
  BY <1>2 DEF QueueTelegram, TypeOK, NotificationStatus
<1>3. QED
  BY <1>1, <1>2 DEF QueueDelivery

(* The method an invoice ends up with is one of the methods.                *)
LEMMA EffectiveMethodType ==
  ASSUME NEW b \in Buyer, NEW m \in Method, NEW quantity \in Nat
  PROVE  EffectiveMethod(b, m, quantity) \in Methods
BY ChoiceAssumption DEF EffectiveMethod, Methods

(* The record a checkout writes is an invoice.                              *)
LEMMA NewInvoiceType ==
  ASSUME TypeOK, NEW b \in Buyer, NEW m \in Methods, NEW quantity \in 1..MaxQuantity,
         NEW code \in Nat
  PROVE  NewInvoice(b, m, quantity, code) \in Invoice
<1>1. quantity \in Nat
  BY AmountAssumption
<1>2. InStock(quantity) \in BOOLEAN
  BY DEF InStock
<1>3. wallet[b] \in Nat
  BY DEF TypeOK
<1>4. QED
  BY <1>1, <1>2, <1>3 DEF NewInvoice, Invoice

------------------------------------------------------------------------------
(* TypeInv is inductive: one lemma for every group of transactions.         *)

(* The empty shop has the types.                                            *)
LEMMA TypeInit == Init => TypeInv
<1> SUFFICES ASSUME Init PROVE TypeInv
  OBVIOUS
<1>1. TypeOK
  BY AmountAssumption DEF Init, TypeOK, OrderStatus, PaymentStatus, AttemptStatus,
     StockStatus, HealthStatus, ReceiptStatus, NotificationStatus
<1>2. QED
  BY <1>1 DEF Init, TypeInv

(* Checkouts keep them, paid from the wallet or not.                        *)
LEMMA TypeCheckout ==
  ASSUME TypeInv, NEW o \in Order, Checkout(o)
  PROVE  TypeInv'
<1>1. PICK b \in Buyer, m \in Method, quantity \in 1..MaxQuantity :
        \/ CreateInvoice(o, b, m, quantity)
        \/ BuyFromWallet(o, b, m, quantity)
        \/ PreorderFromWallet(o, b, m, quantity)
  BY DEF Checkout
<1> DEFINE e == EffectiveMethod(b, m, quantity)
<1>q. quantity \in Nat /\ Subtotal(quantity) \in Nat
  BY AmountAssumption, SubtotalType
<1>e. e \in Methods
  BY <1>q, EffectiveMethodType
<1>w. wallet[b] \in Nat
  BY DEF TypeInv, TypeOK
<1>k. "PURCHASE_DEBIT" \in Entry
  BY DEF Entry
<1>2. CASE CreateInvoice(o, b, m, quantity)
  <2>1. PICK code \in Nat : invoice' = [invoice EXCEPT ![o] = NewInvoice(b, e, quantity, code)]
    <3>1. (IF e \in UniqueCoded THEN FreeCodes(Subtotal(quantity)
              - (IF e = "WALLET_QRIS" THEN wallet[b] ELSE 0)) ELSE {0}) \subseteq Nat
      BY AmountAssumption DEF FreeCodes
    <3>2. QED
      BY <1>2, <3>1 DEF CreateInvoice
  <2>2. NewInvoice(b, e, quantity, code) \in Invoice
    BY <1>e, NewInvoiceType DEF TypeInv
  <2>3. /\ ledger' \in [Order -> [Entry -> Int]]
        /\ wallet' \in [Buyer -> Nat]
    <3>1. CASE PostEntry(b, o, "PURCHASE_DEBIT", -(IF e = "WALLET_QRIS" THEN wallet[b] ELSE 0))
      BY <3>1, <1>k, <1>w, PostEntryType DEF TypeInv
    <3>2. CASE UNCHANGED moneyVars
      BY <3>2 DEF TypeInv, TypeOK, moneyVars
    <3>3. QED
      BY <1>2, <3>1, <3>2 DEF CreateInvoice
  <2>4. QED
    BY <1>2, <2>1, <2>2, <2>3 DEF CreateInvoice, TypeInv, TypeOK, OrderStatus, PaymentStatus,
       AttemptStatus, stockVars, deliveryVars
<1>d. NewInvoice(b, "WALLET", quantity, 0) \in Invoice
  BY NewInvoiceType DEF TypeInv, Methods
<1>3. CASE BuyFromWallet(o, b, m, quantity)
  <2>1. /\ ledger' \in [Order -> [Entry -> Int]]
        /\ wallet' \in [Buyer -> Nat]
    BY <1>3, <1>k, <1>q, PostEntryType DEF BuyFromWallet, TypeInv
  <2>2. PICK T \in SUBSET Unit : ClaimUnits(o, T) /\ QueueDelivery(b, o, T)
    BY <1>3 DEF BuyFromWallet, Sellable
  <2>3. QED
    BY <1>3, <1>d, <2>1, <2>2, ClaimUnitsType, QueueDeliveryType, NextPaidAtType
       DEF BuyFromWallet, TypeInv, TypeOK, OrderStatus, PaymentStatus
<1>4. CASE PreorderFromWallet(o, b, m, quantity)
  <2>1. /\ ledger' \in [Order -> [Entry -> Int]]
        /\ wallet' \in [Buyer -> Nat]
    BY <1>4, <1>k, <1>q, PostEntryType DEF PreorderFromWallet, TypeInv
  <2>2. QED
    BY <1>4, <1>d, <2>1, NextPaidAtType
       DEF PreorderFromWallet, TypeInv, TypeOK, OrderStatus, PaymentStatus, stockVars, deliveryVars
<1>5. QED
  BY <1>1, <1>2, <1>3, <1>4

(* The clock and the verification of a crypto transfer.                     *)
LEMMA TypeVerification ==
  ASSUME TypeInv, NEW o \in Order,
         \/ TimePasses(o)
         \/ SubmitTransfer(o)
         \/ VerifyTransfer(o)
         \/ RejectTransfer(o)
  PROVE  TypeInv'
<1>1. CASE TimePasses(o)
  BY <1>1 DEF TimePasses, TypeInv, TypeOK, stockVars, deliveryVars, moneyVars
<1>2. CASE \E to \in AttemptStatus : AttemptMoves(o, to)
  BY <1>2 DEF AttemptMoves, TypeInv, TypeOK, stockVars, deliveryVars, moneyVars
<1>3. QED
  BY <1>1, <1>2 DEF SubmitTransfer, VerifyTransfer, RejectTransfer, AttemptStatus

(* Confirmations keep them.                                                 *)
LEMMA TypeConfirm ==
  ASSUME TypeInv, NEW o \in Order, ConfirmPayment(o)
  PROVE  TypeInv'
<1>i. /\ Payable(o)
      /\ invoice[o] \in Invoice
  BY DEF ConfirmPayment, ConfirmFromStock, ConfirmOutOfStock, ConfirmPreorder, Payable, TypeInv
<1>a. ASSUME ConfirmAttempt(o)
      PROVE  attempt' \in [Order -> AttemptStatus]
  BY <1>a DEF ConfirmAttempt, TypeInv, TypeOK, AttemptStatus
<1>1. CASE ConfirmFromStock(o)
  <2>1. PICK T \in SUBSET Unit : ClaimUnits(o, T) /\ QueueDelivery(Owner(o), o, T)
    BY <1>1 DEF ConfirmFromStock, Sellable
  <2>2. QED
    BY <1>1, <1>a, <2>1, ClaimUnitsType, QueueDeliveryType, NextPaidAtType, <1>i
       DEF ConfirmFromStock, TypeInv, TypeOK, OrderStatus, PaymentStatus, moneyVars
<1>2. CASE ConfirmOutOfStock(o)
  <2>1. Owner(o) \in Buyer /\ GrandTotal(o) \in Int /\ "STOCK_UNAVAILABLE_REFUND" \in Entry
    BY <1>i, AmountsType DEF Owner, Invoice, Entry
  <2>2. /\ ledger' \in [Order -> [Entry -> Int]]
        /\ wallet' \in [Buyer -> Nat]
    BY <1>2, <2>1, PostEntryType DEF ConfirmOutOfStock, TypeInv
  <2>3. QED
    BY <1>2, <1>a, <2>2, NextPaidAtType, <1>i
       DEF ConfirmOutOfStock, TypeInv, TypeOK, OrderStatus, PaymentStatus, stockVars, deliveryVars
<1>3. CASE ConfirmPreorder(o)
  BY <1>3, <1>a, NextPaidAtType, <1>i
     DEF ConfirmPreorder, TypeInv, TypeOK, OrderStatus, PaymentStatus, stockVars, deliveryVars,
     moneyVars
<1>4. QED
  BY <1>1, <1>2, <1>3 DEF ConfirmPayment

(* Expiry and cancellation keep them.                                       *)
LEMMA TypeClose ==
  ASSUME TypeInv, NEW o \in Order, ExpireOrder(o) \/ CancelOrder(o)
  PROVE  TypeInv'
<1>1. /\ status[o] = "PENDING_PAYMENT"
      /\ invoice[o] \in Invoice
  BY DEF ExpireOrder, CancelOrder, TypeInv
<1>2. PICK to \in OrderStatus : CloseUnpaid(o, to)
  BY DEF ExpireOrder, CancelOrder, OrderStatus
<1>3. attempt' \in [Order -> AttemptStatus]
  BY <1>2 DEF CloseUnpaid, ClosedAttempt, TypeInv, TypeOK, AttemptStatus
<1>4. QED
  BY <1>1, <1>2, <1>3, ReleaseUnitsType, ReleaseContributionType
     DEF CloseUnpaid, TypeInv, TypeOK, PaymentStatus, deliveryVars

(* Crediting a late payment keeps them.                                     *)
LEMMA TypeCreditExpired ==
  ASSUME TypeInv, NEW o \in Order, CreditExpiredOrder(o)
  PROVE  TypeInv'
<1>1. invoice[o] \in Invoice
  BY DEF CreditExpiredOrder, TypeInv
<1>2. /\ Owner(o) \in Buyer
      /\ BilledAmount(o) - invoice[o].code \in Int
      /\ "EXPIRED_CREDIT" \in Entry
  BY <1>1, AmountsType DEF Owner, Invoice, Entry
<1>3. /\ ledger' \in [Order -> [Entry -> Int]]
      /\ wallet' \in [Buyer -> Nat]
  BY <1>2, PostEntryType DEF CreditExpiredOrder, TypeInv
<1>4. QED
  BY <1>3, NextPaidAtType
     DEF CreditExpiredOrder, TypeInv, TypeOK, PaymentStatus, stockVars, deliveryVars

(* Allocation, manual assignment and cancellation of preorders keep them.   *)
LEMMA TypePreorder ==
  ASSUME TypeInv, NEW o \in Order,
         \/ AllocatePaidPreorder(o)
         \/ \E u \in Unit : AssignStock(o, u)
         \/ CancelPaidPreorder(o)
  PROVE  TypeInv'
<1>i. o \in Waiting /\ invoice[o] \in Invoice
  BY DEF AllocatePaidPreorder, AssignStock, CancelPaidPreorder, Waiting, Placed, TypeInv
<1>u. ASSUME NEW T \in SUBSET Unit PROVE AllUnits(o, T) \in SUBSET Unit
  BY DEF AllUnits, TypeInv, TypeOK
<1>1. CASE AllocatePaidPreorder(o)
  <2>1. PICK T \in SUBSET Unit : ClaimUnits(o, T) /\ QueueDelivery(Owner(o), o, AllUnits(o, T))
    BY <1>1 DEF AllocatePaidPreorder, Sellable
  <2>2. QED
    BY <1>1, <1>i, <1>u, <2>1, ClaimUnitsType, QueueDeliveryType
       DEF AllocatePaidPreorder, TypeInv, TypeOK, OrderStatus, moneyVars
<1>2. ASSUME NEW u \in Unit, AssignStock(o, u)
      PROVE  TypeInv'
  <2>1. /\ ClaimUnits(o, {u})
        /\ \/ UNCHANGED <<status, deliveryVars>>
           \/ /\ status' = [status EXCEPT ![o] = "FULFILLING"]
              /\ QueueDelivery(Owner(o), o, AllUnits(o, {u}))
    BY <1>2 DEF AssignStock
  <2>2. /\ receipt' \in [Unit -> ReceiptStatus]
        /\ receiptOf' \in [Unit -> Order \cup {None}]
        /\ outbox' \in [Order -> [Unit -> NotificationStatus]]
    <3>1. CASE UNCHANGED <<status, deliveryVars>>
      BY <3>1 DEF TypeInv, TypeOK, deliveryVars
    <3>2. CASE QueueDelivery(Owner(o), o, AllUnits(o, {u}))
      BY <1>u, <3>2, QueueDeliveryType DEF TypeInv
    <3>3. QED
      BY <2>1, <3>1, <3>2
  <2>3. QED
    BY <1>2, <1>i, <2>1, <2>2, ClaimUnitsType
       DEF AssignStock, TypeInv, TypeOK, OrderStatus, moneyVars
<1>3. CASE CancelPaidPreorder(o)
  <2>1. Owner(o) \in Buyer /\ GrandTotal(o) \in Int /\ "PREORDER_CANCEL_REFUND" \in Entry
    BY <1>i, AmountsType DEF Owner, Invoice, Entry
  <2>2. /\ ledger' \in [Order -> [Entry -> Int]]
        /\ wallet' \in [Buyer -> Nat]
    BY <1>3, <2>1, PostEntryType DEF CancelPaidPreorder, TypeInv
  <2>3. QED
    BY <1>3, <1>i, <2>2
       DEF CancelPaidPreorder, TypeInv, TypeOK, OrderStatus, stockVars, deliveryVars
<1>4. QED
  BY <1>1, <1>2, <1>3

(* Web downloads keep them.                                                 *)
LEMMA TypeDownload ==
  ASSUME TypeInv, NEW o \in Order, NEW R \in SUBSET Unit, DownloadWeb(o, R)
  PROVE  TypeInv'
BY DEF DownloadWeb, TypeInv, TypeOK, OrderStatus, StockStatus, ReceiptStatus, moneyVars

(* Inventory operations keep them.                                          *)
LEMMA TypeInventory ==
  ASSUME TypeInv, InventoryStep
  PROVE  TypeInv'
<1> USE DEF TypeInv, TypeOK, StockMoves, orderVars, deliveryVars, moneyVars
<1>1. ASSUME NEW u \in Unit, NEW h \in {"UNKNOWN", "HEALTHY"}, AddStock(u, h)
      PROVE  TypeInv'
  BY <1>1 DEF AddStock, StockStatus, HealthStatus, CheckResults
<1>2. ASSUME NEW u \in Unit, NEW result \in CheckResult, CheckHealth(u, result)
      PROVE  TypeInv'
  <2>1. CheckedStatus(u, result) \in StockStatus
    BY <1>2 DEF CheckHealth, CheckedStatus, StockStatus
  <2>2. QED
    BY <1>2, <2>1, ChoiceAssumption DEF CheckHealth, HealthStatus
<1>3. ASSUME NEW u \in Unit, ArchiveStock(u)
      PROVE  TypeInv'
  BY <1>3 DEF ArchiveStock, StockStatus
<1>4. ASSUME NEW u \in Unit, RestoreStock(u)
      PROVE  TypeInv'
  BY <1>4 DEF RestoreStock, StockStatus
<1>5. ASSUME NEW u \in Unit, DeleteStock(u)
      PROVE  TypeInv'
  BY <1>5 DEF DeleteStock, StockStatus
<1>6. ASSUME NEW p \in {"BLOCKED", "ALLOW_HTTP_401"}, SetBannedPolicy(p)
      PROVE  TypeInv'
  BY <1>6 DEF SetBannedPolicy, StockStatus
<1>7. QED
  BY <1>1, <1>2, <1>3, <1>4, <1>5, <1>6 DEF InventoryStep

(* A step that changes nothing keeps them.                                  *)
LEMMA TypeStutter ==
  ASSUME TypeInv, UNCHANGED vars
  PROVE  TypeInv'
BY DEF TypeInv, TypeOK, vars, orderVars, stockVars, deliveryVars, moneyVars

(* TypeInv is inductive.                                                    *)
LEMMA TypeStep == TypeInv /\ [Next]_vars => TypeInv'
<1> SUFFICES ASSUME TypeInv, [Next]_vars PROVE TypeInv'
  OBVIOUS
<1>1. ASSUME NEW o \in Order, OrderStep(o) PROVE TypeInv'
  BY <1>1, TypeCheckout, TypeVerification, TypeConfirm, TypeClose, TypeCreditExpired,
     TypePreorder, TypeDownload DEF OrderStep
<1>2. QED
  BY <1>1, TypeInventory, TypeStutter DEF Next

(* Every column keeps its type and no wallet is ever overdrawn.             *)
THEOREM TypeCorrect == Spec => []TypeOK
<1>1. TypeInv => TypeOK
  BY DEF TypeInv
<1>2. QED
  BY TypeInit, TypeStep, <1>1, PTL DEF Spec

(* TypeInv always holds: beside the types, every placed order has an        *)
(* invoice (Store, Init and the checkouts).                                 *)
THEOREM TypeInvariant == Spec => []TypeInv
BY TypeInit, TypeStep, PTL DEF Spec

------------------------------------------------------------------------------
(* StockOwnership is not inductive alone: a closing order releases only its *)
(* RESERVED units, so one has to know that an order that may still close,   *)
(* or is closed already, has none at all.                                   *)

Empty == {"NONE", "PENDING_PAYMENT", "EXPIRED", "CANCELLED", "REFUNDED"}

OwnerInv ==
  /\ StockOwnership
  /\ \A o \in Order : status[o] \in Empty => items[o] = {}

(* An empty shop owns nothing.                                              *)
LEMMA OwnerInit == Init => OwnerInv
BY OrderAssumption DEF Init, OwnerInv, StockOwnership

(* Units on sale may be given to any one order.                             *)
LEMMA ClaimKeepsOwnership ==
  ASSUME TypeOK, StockOwnership, NEW o \in Order, NEW T \in SUBSET Sellable,
         ClaimUnits(o, T), UNCHANGED <<deliveredTo, archived>>
  PROVE  /\ StockOwnership'
         /\ \A p \in Order \ {o} : items'[p] = items[p]
<1>1. \A u \in T : u \in Unit /\ holder[u] = None /\ deliveredTo[u] = None /\ ~archived[u]
  BY DEF Sellable, StockOwnership
<1>2. \A p \in Order : items'[p] = IF p = o THEN items[p] \cup T ELSE items[p]
  BY DEF ClaimUnits, TypeOK
<1>3. \A u \in Unit : /\ stock'[u] = IF u \in T THEN "RESERVED" ELSE stock[u]
                      /\ holder'[u] = IF u \in T THEN o ELSE holder[u]
  BY DEF ClaimUnits
<1>4. \A p \in Order, u \in Unit : u \in items'[p] <=> holder'[u] = p
  <2> SUFFICES ASSUME NEW p \in Order, NEW u \in Unit
               PROVE  u \in items'[p] <=> holder'[u] = p
    OBVIOUS
  <2>1. u \in items[p] <=> holder[u] = p
    BY DEF StockOwnership
  <2>2. CASE u \in T
    BY <1>1, <1>2, <1>3, <2>1, <2>2, OrderAssumption
  <2>3. CASE u \notin T
    BY <1>2, <1>3, <2>1, <2>3
  <2>4. QED
    BY <2>2, <2>3
<1>5. \A u \in Unit :
        /\ holder'[u] # None <=> stock'[u] \in {"RESERVED", "DELIVERED"}
        /\ deliveredTo'[u] = IF stock'[u] = "DELIVERED" THEN holder'[u] ELSE None
        /\ stock'[u] = "RESERVED" => ~archived'[u]
  BY <1>1, <1>3, OrderAssumption DEF StockOwnership
<1>6. QED
  BY <1>2, <1>4, <1>5 DEF StockOwnership

(* An order without units has nothing to release.                           *)
LEMMA ReleaseOfNothing ==
  ASSUME TypeOK, StockOwnership, NEW o \in Order, items[o] = {}, ReleaseUnits(o)
  PROVE  UNCHANGED <<items, stock, holder>>
<1>1. ReservedFor(o) = {}
  BY DEF ReservedFor, StockOwnership
<1>2. QED
  BY <1>1 DEF ReleaseUnits, TypeOK

(* Steps that touch no stock column and empty no order keep the ownership.  *)
LEMMA OwnerFrame ==
  ASSUME OwnerInv, UNCHANGED <<items, stockVars>>,
         \A o \in Order : status'[o] \in Empty => status[o] \in Empty \/ items[o] = {}
  PROVE  OwnerInv'
BY DEF OwnerInv, StockOwnership, stockVars

(* A claim by an order that ends outside Empty keeps OwnerInv.              *)
LEMMA OwnerClaim ==
  ASSUME TypeInv, OwnerInv, NEW o \in Order, NEW T \in SUBSET Sellable,
         ClaimUnits(o, T), UNCHANGED <<deliveredTo, archived>>,
         status' \in [Order -> OrderStatus], status'[o] \notin Empty,
         \A p \in Order \ {o} : status'[p] = status[p]
  PROVE  OwnerInv'
BY ClaimKeepsOwnership DEF OwnerInv, TypeInv

(* Transactions of orders keep OwnerInv.                                    *)
LEMMA OwnerOrderStep ==
  ASSUME TypeInv, OwnerInv, NEW o \in Order, OrderStep(o)
  PROVE  OwnerInv'
<1> USE DEF TypeInv
<1>t. status \in [Order -> OrderStatus] /\ TypeOK /\ StockOwnership
  BY DEF TypeOK, OwnerInv
<1>1. CASE Checkout(o)
  <2>1. PICK b \in Buyer, m \in Method, quantity \in 1..MaxQuantity :
          \/ CreateInvoice(o, b, m, quantity)
          \/ BuyFromWallet(o, b, m, quantity)
          \/ PreorderFromWallet(o, b, m, quantity)
    BY <1>1 DEF Checkout
  <2>2. status[o] = "NONE"
    BY <2>1 DEF CreateInvoice, BuyFromWallet, PreorderFromWallet, CanCheckout
  <2>3. CASE CreateInvoice(o, b, m, quantity)
    BY <1>t, <2>2, <2>3, OwnerFrame DEF CreateInvoice, Empty
  <2>4. CASE BuyFromWallet(o, b, m, quantity)
    <3>1. PICK T \in SUBSET Sellable : ClaimUnits(o, T)
      BY <2>4 DEF BuyFromWallet
    <3>2. /\ status' = [status EXCEPT ![o] = "FULFILLING"]
          /\ UNCHANGED <<deliveredTo, archived>>
      BY <2>4 DEF BuyFromWallet
    <3>3. QED
      BY <1>t, <3>1, <3>2, OwnerClaim DEF OrderStatus, Empty
  <2>5. CASE PreorderFromWallet(o, b, m, quantity)
    BY <1>t, <2>5, OwnerFrame DEF PreorderFromWallet, Empty
  <2>6. QED
    BY <2>1, <2>3, <2>4, <2>5
<1>2. CASE TimePasses(o) \/ SubmitTransfer(o) \/ VerifyTransfer(o) \/ RejectTransfer(o)
  BY <1>2, OwnerFrame DEF TimePasses, SubmitTransfer, VerifyTransfer, RejectTransfer, AttemptMoves
<1>3. CASE ConfirmPayment(o)
  <2>1. CASE ConfirmFromStock(o)
    <3>1. PICK T \in SUBSET Sellable : ClaimUnits(o, T)
      BY <2>1 DEF ConfirmFromStock
    <3>2. /\ status' = [status EXCEPT ![o] = "FULFILLING"]
          /\ UNCHANGED <<deliveredTo, archived>>
      BY <2>1 DEF ConfirmFromStock
    <3>3. QED
      BY <1>t, <3>1, <3>2, OwnerClaim DEF OrderStatus, Empty
  <2>2. CASE ConfirmOutOfStock(o)
    BY <1>t, <2>2, OwnerFrame DEF ConfirmOutOfStock, Payable, Empty
  <2>3. CASE ConfirmPreorder(o)
    BY <1>t, <2>3, OwnerFrame DEF ConfirmPreorder, Empty
  <2>4. QED
    BY <1>3, <2>1, <2>2, <2>3 DEF ConfirmPayment
<1>4. CASE ExpireOrder(o) \/ CancelOrder(o)
  <2>1. PICK to : CloseUnpaid(o, to)
    BY <1>4 DEF ExpireOrder, CancelOrder
  <2>2. items[o] = {}
    BY <1>4 DEF ExpireOrder, CancelOrder, OwnerInv, Empty
  <2>3. UNCHANGED <<items, stockVars>>
    BY <1>t, <2>1, <2>2, ReleaseOfNothing DEF CloseUnpaid, stockVars
  <2>4. QED
    BY <1>t, <2>1, <2>2, <2>3, OwnerFrame DEF CloseUnpaid
<1>5. CASE CreditExpiredOrder(o)
  BY <1>5, OwnerFrame DEF CreditExpiredOrder
<1>6. CASE AllocatePaidPreorder(o)
  <2>1. PICK T \in SUBSET Sellable : ClaimUnits(o, T)
    BY <1>6 DEF AllocatePaidPreorder
  <2>2. /\ status' = [status EXCEPT ![o] = "FULFILLING"]
        /\ UNCHANGED <<deliveredTo, archived>>
    BY <1>6 DEF AllocatePaidPreorder
  <2>3. QED
    BY <1>t, <2>1, <2>2, OwnerClaim DEF OrderStatus, Empty
<1>7. ASSUME NEW u \in Unit, AssignStock(o, u)
      PROVE  OwnerInv'
  <2>1. /\ ClaimUnits(o, {u}) /\ {u} \in SUBSET Sellable
        /\ status[o] = "PAID_WAITING_STOCK"
        /\ status' \in {status, [status EXCEPT ![o] = "FULFILLING"]}
        /\ UNCHANGED <<deliveredTo, archived>>
    BY <1>7 DEF AssignStock, Waiting
  <2>2. QED
    BY <1>t, <2>1, OwnerClaim DEF OrderStatus, Empty
<1>8. CASE CancelPaidPreorder(o)
  BY <1>t, <1>8, OwnerFrame DEF CancelPaidPreorder
<1>9. ASSUME NEW R \in SUBSET Unit, DownloadWeb(o, R)
      PROVE  OwnerInv'
  <2> DEFINE ready == {u \in R : receipt[u] = "READY"}
  <2>1. \A u \in ready : u \in Unit /\ stock[u] = "RESERVED" /\ holder[u] = o
    BY <1>9 DEF DownloadWeb, Downloadable
  <2>2. \A u \in Unit :
          /\ stock'[u] = IF u \in ready THEN "DELIVERED" ELSE stock[u]
          /\ deliveredTo'[u] = IF u \in ready THEN o ELSE deliveredTo[u]
          /\ archived'[u] => archived[u]
    BY <1>9 DEF DownloadWeb
  <2>3. UNCHANGED <<items, holder>>
    BY <1>9 DEF DownloadWeb
  <2>4. StockOwnership'
    <3>1. \A p \in Order, u \in Unit : u \in items'[p] <=> holder'[u] = p
      BY <1>t, <2>3 DEF StockOwnership
    <3>2. ASSUME NEW u \in Unit
          PROVE  /\ holder'[u] # None <=> stock'[u] \in {"RESERVED", "DELIVERED"}
                 /\ deliveredTo'[u] = IF stock'[u] = "DELIVERED" THEN holder'[u] ELSE None
                 /\ stock'[u] = "RESERVED" => ~archived'[u]
      BY <1>t, <2>1, <2>2, <2>3, OrderAssumption DEF StockOwnership
    <3>3. QED
      BY <3>1, <3>2 DEF StockOwnership
  <2>5. \A p \in Order : status'[p] = status[p] \/ status'[p] = "COMPLETED"
    BY <1>t, <1>9 DEF DownloadWeb
  <2>6. QED
    BY <2>3, <2>4, <2>5 DEF OwnerInv, Empty
<1>10. QED
  BY <1>1, <1>2, <1>3, <1>4, <1>5, <1>6, <1>7, <1>8, <1>9 DEF OrderStep

(* No inventory operation touches a unit that an order has.                 *)
LEMMA OwnerInventory ==
  ASSUME TypeInv, OwnerInv, InventoryStep
  PROVE  OwnerInv'
<1> USE DEF StockMoves, orderVars
<1>t. TypeOK
  BY DEF TypeInv
<1>1. ASSUME NEW u \in Unit, NEW to \in StockStatus \ {"RESERVED"},
             stock' = [stock EXCEPT ![u] = to],
             UNCHANGED <<orderVars, holder, deliveredTo>>,
             archived' \in [Unit -> BOOLEAN],
             \A v \in Unit \ {u} : archived'[v] = archived[v],
             stock[u] # "RESERVED",
             stock[u] = "DELIVERED" <=> to = "DELIVERED"
      PROVE  OwnerInv'
  BY <1>t, <1>1 DEF OwnerInv, StockOwnership, TypeOK
<1>2. ASSUME NEW u \in Unit, NEW h, AddStock(u, h)
      PROVE  OwnerInv'
  BY <1>t, <1>1, <1>2 DEF AddStock, TypeOK, StockStatus
<1>3. ASSUME NEW u \in Unit, NEW result \in CheckResult, CheckHealth(u, result)
      PROVE  OwnerInv'
  <2>1. /\ CheckedStatus(u, result) \in StockStatus \ {"RESERVED"}
        /\ stock[u] = "DELIVERED" <=> CheckedStatus(u, result) = "DELIVERED"
    BY <1>3 DEF CheckHealth, CheckedStatus, StockStatus
  <2>2. QED
    BY <1>t, <1>1, <1>3, <2>1 DEF CheckHealth, TypeOK
<1>4. ASSUME NEW u \in Unit, ArchiveStock(u)
      PROVE  OwnerInv'
  BY <1>t, <1>1, <1>4 DEF ArchiveStock, TypeOK, StockStatus
<1>5. ASSUME NEW u \in Unit, RestoreStock(u)
      PROVE  OwnerInv'
  BY <1>t, <1>1, <1>5 DEF RestoreStock, TypeOK, StockStatus
<1>6. ASSUME NEW u \in Unit, DeleteStock(u)
      PROVE  OwnerInv'
  BY <1>t, <1>1, <1>6 DEF DeleteStock, TypeOK, StockStatus
<1>7. ASSUME NEW p, SetBannedPolicy(p)
      PROVE  OwnerInv'
  <2>1. \A u \in Unit : \/ stock'[u] = stock[u]
                        \/ /\ stock'[u] \in {"AVAILABLE", "BANNED"}
                           /\ stock[u] \in {"AVAILABLE", "BANNED"}
    BY <1>7 DEF SetBannedPolicy
  <2>2. UNCHANGED <<orderVars, holder, deliveredTo, archived>>
    BY <1>7 DEF SetBannedPolicy
  <2>3. QED
    BY <2>1, <2>2 DEF OwnerInv, StockOwnership
<1>8. QED
  BY <1>2, <1>3, <1>4, <1>5, <1>6, <1>7 DEF InventoryStep

(* OwnerInv is inductive relative to the types.                             *)
LEMMA OwnerStep == TypeInv /\ OwnerInv /\ [Next]_vars => OwnerInv'
<1> SUFFICES ASSUME TypeInv, OwnerInv, [Next]_vars PROVE OwnerInv'
  OBVIOUS
<1>1. CASE UNCHANGED vars
  BY <1>1, OwnerFrame DEF vars, orderVars
<1>2. QED
  BY <1>1, OwnerOrderStep, OwnerInventory DEF Next

(* A unit is reserved or delivered exactly when one order has it, whatever  *)
(* the number of orders, units, buyers and administrators at work.          *)
THEOREM StockHasOneOwner == Spec => []StockOwnership
<1>1. OwnerInv => StockOwnership
  BY DEF OwnerInv
<1>2. QED
  BY OwnerInit, OwnerStep, TypeInvariant, <1>1, PTL DEF Spec

------------------------------------------------------------------------------
(* No money is lost, kept for nothing or paid out twice, amounts that can  *)
(* still be paid differ, and a verified transfer keeps its invoice open,   *)
(* for any number of orders, buyers and units and any price.               *)

Closed == {"EXPIRED", "CANCELLED"}
Kind == {"STOCK_UNAVAILABLE_REFUND", "PREORDER_CANCEL_REFUND", "DELIVERY_REFUND"}

(* MoneyAccounted relates sums; what is inductive is the whole page of the  *)
(* ledger: which entries an order has in which state, and of what amount.   *)
Books(o) ==
  /\ payment[o] \in
       IF status[o] = "PENDING_PAYMENT" THEN {"PENDING"}
       ELSE IF status[o] \in Closed
            THEN IF status[o] = "EXPIRED" THEN {"EXPIRED", "PAID"} ELSE {"EXPIRED"}
            ELSE {"PAID"}
  /\ invoice[o].method = "WALLET" =>
       /\ invoice[o].contribution = 0
       /\ status[o] \notin Closed \cup {"PENDING_PAYMENT"}
  /\ ledger[o]["PURCHASE_DEBIT"] =
       -(IF invoice[o].method = "WALLET" THEN GrandTotal(o) ELSE invoice[o].contribution)
  /\ ledger[o]["PAYMENT_RELEASE_REFUND"] =
       IF status[o] \in Closed THEN invoice[o].contribution ELSE 0
  /\ ledger[o]["STOCK_UNAVAILABLE_REFUND"] + ledger[o]["PREORDER_CANCEL_REFUND"]
       + ledger[o]["DELIVERY_REFUND"] = IF status[o] = "REFUNDED" THEN GrandTotal(o) ELSE 0
  /\ status[o] # "REFUNDED" => \A kind \in Kind : ledger[o][kind] = 0
  /\ ledger[o]["EXPIRED_CREDIT"] =
       IF status[o] = "EXPIRED" /\ payment[o] = "PAID"
       THEN BilledAmount(o) - invoice[o].code ELSE 0

MoneyInv ==
  \A o \in Order : IF status[o] = "NONE" THEN \A kind \in Entry : ledger[o][kind] = 0
                                         ELSE Books(o)

(* The books imply the accounting property.                                 *)
LEMMA BooksBalance == TypeInv /\ MoneyInv => MoneyAccounted
<1> SUFFICES ASSUME TypeInv, MoneyInv, NEW o \in Order, status[o] # "NONE"
             PROVE  Kept(o) =
               CASE status[o] \in {"FULFILLING", "COMPLETED", "PAID_WAITING_STOCK"} -> GrandTotal(o)
                 [] status[o] = "PENDING_PAYMENT" -> invoice[o].contribution
                 [] status[o] = "EXPIRED" /\ payment[o] = "PAID" -> invoice[o].code
                 [] OTHER -> 0
  BY DEF MoneyAccounted, Placed
<1>1. Books(o) /\ invoice[o] \in Invoice
  BY DEF MoneyInv, TypeInv
<1>2. GrandTotal(o) \in Nat /\ BilledAmount(o) = GrandTotal(o) - invoice[o].contribution
  BY <1>1, AmountsType DEF BilledAmount
<1>3. /\ invoice[o].contribution \in Nat
      /\ invoice[o].code \in Nat
      /\ status[o] \in OrderStatus \ {"NONE"}
      /\ \A kind \in Entry : ledger[o][kind] \in Int
  BY <1>1 DEF Invoice, TypeInv, TypeOK
<1> DEFINE back == ledger[o]["STOCK_UNAVAILABLE_REFUND"] + ledger[o]["PREORDER_CANCEL_REFUND"]
                     + ledger[o]["DELIVERY_REFUND"]
           debit == ledger[o]["PURCHASE_DEBIT"]
           release == ledger[o]["PAYMENT_RELEASE_REFUND"]
           credit == ledger[o]["EXPIRED_CREDIT"]
<1>4. /\ back \in Int /\ debit \in Int /\ release \in Int /\ credit \in Int
      /\ Posted(o) = debit + release + back + credit
  BY <1>3 DEF Posted, Entry
<1>5. /\ debit = -(IF invoice[o].method = "WALLET" THEN GrandTotal(o) ELSE invoice[o].contribution)
      /\ release = IF status[o] \in Closed THEN invoice[o].contribution ELSE 0
      /\ back = IF status[o] = "REFUNDED" THEN GrandTotal(o) ELSE 0
      /\ credit = IF status[o] = "EXPIRED" /\ payment[o] = "PAID"
                  THEN BilledAmount(o) - invoice[o].code ELSE 0
  BY <1>1 DEF Books
<1> HIDE DEF back, debit, release, credit
<1>6. CASE status[o] \in {"FULFILLING", "COMPLETED", "PAID_WAITING_STOCK"}
  <2>1. payment[o] = "PAID"
    BY <1>1, <1>6 DEF Books, Closed
  <2>2. Kept(o) = GrandTotal(o)
    <3>1. CASE invoice[o].method = "WALLET"
      <4>1. Transferred(o) = 0 /\ debit = -GrandTotal(o)
        BY <1>5, <3>1 DEF Transferred
      <4>2. release = 0 /\ back = 0 /\ credit = 0
        BY <1>5, <1>6 DEF Closed
      <4>3. QED
        BY <1>2, <1>4, <4>1, <4>2 DEF Kept
    <3>2. CASE invoice[o].method # "WALLET"
      <4>1. Transferred(o) = BilledAmount(o) /\ debit = -invoice[o].contribution
        BY <1>5, <2>1, <3>2 DEF Transferred
      <4>2. release = 0 /\ back = 0 /\ credit = 0
        BY <1>5, <1>6 DEF Closed
      <4>3. QED
        BY <1>2, <1>3, <1>4, <4>1, <4>2 DEF Kept
    <3>3. QED
      BY <3>1, <3>2
  <2>3. QED
    BY <1>6, <2>2
<1>7. CASE status[o] = "PENDING_PAYMENT"
  BY <1>1, <1>2, <1>3, <1>4, <1>5, <1>7 DEF Books, Kept, Transferred, Closed
<1>8. CASE status[o] = "EXPIRED"
  BY <1>1, <1>2, <1>3, <1>4, <1>5, <1>8 DEF Books, Kept, Transferred, Closed
<1>9. CASE status[o] = "CANCELLED"
  BY <1>1, <1>2, <1>3, <1>4, <1>5, <1>9 DEF Books, Kept, Transferred, Closed
<1>r. CASE status[o] = "REFUNDED"
  <2>1. payment[o] = "PAID"
    BY <1>1, <1>r DEF Books, Closed
  <2>2. Kept(o) = 0
    <3>1. CASE invoice[o].method = "WALLET"
      <4>1. Transferred(o) = 0 /\ debit = -GrandTotal(o)
        BY <1>5, <3>1 DEF Transferred
      <4>2. release = 0 /\ back = GrandTotal(o) /\ credit = 0
        BY <1>5, <1>r DEF Closed
      <4>3. QED
        BY <1>2, <1>4, <4>1, <4>2 DEF Kept
    <3>2. CASE invoice[o].method # "WALLET"
      <4>1. Transferred(o) = BilledAmount(o) /\ debit = -invoice[o].contribution
        BY <1>5, <2>1, <3>2 DEF Transferred
      <4>2. release = 0 /\ back = GrandTotal(o) /\ credit = 0
        BY <1>5, <1>r DEF Closed
      <4>3. QED
        BY <1>2, <1>3, <1>4, <4>1, <4>2 DEF Kept
    <3>3. QED
      BY <3>1, <3>2
  <2>3. QED
    BY <1>r, <2>2
<1>10. QED
  BY <1>3, <1>6, <1>7, <1>8, <1>9, <1>r DEF OrderStatus

(* With nothing posted the books balance.                                   *)
LEMMA MoneyInit == Init => MoneyInv
BY DEF Init, MoneyInv, Entry

(* A transaction of order o leaves the books of the others alone.           *)
LEMMA MoneyFrame ==
  ASSUME MoneyInv, NEW o,
         \A p \in Order \ {o} : /\ status'[p] = status[p]
                                /\ payment'[p] = payment[p]
                                /\ invoice'[p] = invoice[p]
                                /\ ledger'[p] = ledger[p],
         o \in Order => status'[o] # "NONE" /\ Books(o)'
  PROVE  MoneyInv'
<1> SUFFICES ASSUME NEW p \in Order \ {o}
             PROVE  IF status'[p] = "NONE" THEN \A kind \in Entry : ledger'[p][kind] = 0
                                           ELSE Books(p)'
  BY DEF MoneyInv
<1>1. IF status[p] = "NONE" THEN \A kind \in Entry : ledger[p][kind] = 0 ELSE Books(p)
  BY DEF MoneyInv
<1>2. QED
  BY <1>1 DEF Books, GrandTotal, BilledAmount

(* A step that touches none of the columns the books depend on.             *)
LEMMA MoneyUntouched ==
  ASSUME MoneyInv, UNCHANGED <<status, payment, invoice, ledger>>
  PROVE  MoneyInv'
BY DEF MoneyInv, Books, GrandTotal, BilledAmount

(* The first posting under a key writes that entry and no other.            *)
LEMMA FirstPosting ==
  ASSUME TypeOK, NEW b \in Buyer, NEW o \in Order, NEW kind \in Entry, NEW amount \in Int,
         ledger[o][kind] = 0, PostEntry(b, o, kind, amount)
  PROVE  /\ \A p \in Order \ {o} : ledger'[p] = ledger[p]
         /\ \A k \in Entry : ledger'[o][k] = IF k = kind THEN amount ELSE ledger[o][k]
<1>1. ledger' = [ledger EXCEPT ![o][kind] = amount]
  BY DEF PostEntry
<1>2. QED
  BY <1>1 DEF TypeOK

(* The columns of a transaction of one order.                               *)
LEMMA OnlyThisOrder ==
  ASSUME TypeInv, NEW o \in Order, NEW s, NEW p,
         status' = [status EXCEPT ![o] = s], payment' = [payment EXCEPT ![o] = p]
  PROVE  /\ status'[o] = s
         /\ payment'[o] = p
         /\ \A q \in Order \ {o} : status'[q] = status[q] /\ payment'[q] = payment[q]
BY DEF TypeInv, TypeOK

(* The amounts of an invoice follow from the invoice.                       *)
LEMMA AmountsStay ==
  ASSUME NEW o, invoice'[o] = invoice[o]
  PROVE  /\ GrandTotal(o)' = GrandTotal(o)
         /\ BilledAmount(o)' = BilledAmount(o)
BY DEF GrandTotal, BilledAmount

------------------------------------------------------------------------------
(* MoneyInv is inductive.                                                   *)

(* Checkouts keep the books.                                                *)
LEMMA MoneyCheckout ==
  ASSUME TypeInv, MoneyInv, NEW o \in Order, Checkout(o)
  PROVE  MoneyInv'
<1>1. PICK b \in Buyer, m \in Method, quantity \in 1..MaxQuantity :
        \/ CreateInvoice(o, b, m, quantity)
        \/ BuyFromWallet(o, b, m, quantity)
        \/ PreorderFromWallet(o, b, m, quantity)
  BY DEF Checkout
<1> DEFINE e == EffectiveMethod(b, m, quantity)
           contribution == IF e = "WALLET_QRIS" THEN wallet[b] ELSE 0
<1>q. quantity \in Nat /\ Subtotal(quantity) \in Nat
  BY AmountAssumption, SubtotalType
<1>w. contribution \in Nat
  BY DEF TypeInv, TypeOK
<1>n. status[o] = "NONE" /\ \A kind \in Entry : ledger[o][kind] = 0
  BY <1>1 DEF CreateInvoice, BuyFromWallet, PreorderFromWallet, CanCheckout, MoneyInv
<1>k. "PURCHASE_DEBIT" \in Entry /\ Kind \subseteq Entry \ {"PURCHASE_DEBIT"}
      /\ {"PAYMENT_RELEASE_REFUND", "EXPIRED_CREDIT"} \subseteq Entry
  BY DEF Entry, Kind
<1>2. CASE CreateInvoice(o, b, m, quantity)
  <2>1. PICK code : invoice' = [invoice EXCEPT ![o] = NewInvoice(b, e, quantity, code)]
    BY <1>2 DEF CreateInvoice
  <2>2. /\ status'[o] = "PENDING_PAYMENT" /\ payment'[o] = "PENDING"
        /\ \A q \in Order \ {o} : status'[q] = status[q] /\ payment'[q] = payment[q]
    BY <1>2, OnlyThisOrder DEF CreateInvoice
  <2>3. /\ invoice'[o].method = e /\ e # "WALLET"
        /\ invoice'[o].contribution = contribution
        /\ \A q \in Order \ {o} : invoice'[q] = invoice[q]
    BY <1>2, <2>1 DEF CreateInvoice, NewInvoice, TypeInv, TypeOK
  <2>4. /\ \A q \in Order \ {o} : ledger'[q] = ledger[q]
        /\ \A k \in Entry : ledger'[o][k] = IF k = "PURCHASE_DEBIT" THEN -contribution ELSE 0
    <3>1. CASE contribution > 0
      BY <1>2, <1>n, <1>k, <1>w, <3>1, FirstPosting DEF CreateInvoice, TypeInv
    <3>2. CASE ~(contribution > 0)
      BY <1>2, <1>n, <1>w, <3>2 DEF CreateInvoice, moneyVars
    <3>3. QED
      BY <3>1, <3>2
  <2> HIDE DEF e, contribution
  <2>5. Books(o)'
    BY <1>w, <1>k, <2>2, <2>3, <2>4 DEF Books, Closed, Kind
  <2>6. QED
    BY <2>2, <2>3, <2>4, <2>5, MoneyFrame
<1>3. CASE BuyFromWallet(o, b, m, quantity) \/ PreorderFromWallet(o, b, m, quantity)
  <2>1. PICK s \in {"FULFILLING", "PAID_WAITING_STOCK"} :
          /\ invoice' = [invoice EXCEPT ![o] = NewInvoice(b, "WALLET", quantity, 0)]
          /\ status' = [status EXCEPT ![o] = s]
          /\ payment' = [payment EXCEPT ![o] = "PAID"]
          /\ PostEntry(b, o, "PURCHASE_DEBIT", -Subtotal(quantity))
    BY <1>3 DEF BuyFromWallet, PreorderFromWallet
  <2>2. /\ status'[o] = s /\ payment'[o] = "PAID"
        /\ \A q \in Order \ {o} : status'[q] = status[q] /\ payment'[q] = payment[q]
    BY <2>1, SMTT(30) DEF TypeInv, TypeOK
  <2>3. /\ invoice'[o].method = "WALLET" /\ invoice'[o].contribution = 0
        /\ invoice'[o].quantity = quantity /\ invoice'[o].code = 0
        /\ \A q \in Order \ {o} : invoice'[q] = invoice[q]
    BY <2>1 DEF NewInvoice, TypeInv, TypeOK
  <2>4. /\ \A q \in Order \ {o} : ledger'[q] = ledger[q]
        /\ \A k \in Entry :
             ledger'[o][k] = IF k = "PURCHASE_DEBIT" THEN -Subtotal(quantity) ELSE 0
    BY <1>n, <1>k, <1>q, <2>1, FirstPosting DEF TypeInv
  <2>5. GrandTotal(o)' = Subtotal(quantity)
    BY <1>q, <2>3 DEF GrandTotal
  <2>6. Books(o)'
    BY <1>k, <2>1, <2>2, <2>3, <2>4, <2>5 DEF Books, Closed, Kind
  <2>7. QED
    BY <2>1, <2>2, <2>3, <2>4, <2>6, MoneyFrame
<1>4. QED
  BY <1>1, <1>2, <1>3

(* Confirmations keep the books, with and without stock.                    *)
LEMMA MoneyConfirm ==
  ASSUME TypeInv, MoneyInv, NEW o \in Order, ConfirmPayment(o)
  PROVE  MoneyInv'
<1>i. status[o] = "PENDING_PAYMENT" /\ Books(o) /\ invoice[o] \in Invoice /\ UNCHANGED invoice
  BY DEF ConfirmPayment, ConfirmFromStock, ConfirmOutOfStock, ConfirmPreorder, Payable, TypeInv,
     MoneyInv
<1>a. GrandTotal(o)' = GrandTotal(o) /\ BilledAmount(o)' = BilledAmount(o)
  BY <1>i, AmountsStay
<1>1. CASE ConfirmFromStock(o) \/ ConfirmPreorder(o)
  <2>1. PICK s \in {"FULFILLING", "PAID_WAITING_STOCK"} :
          /\ status' = [status EXCEPT ![o] = s]
          /\ payment' = [payment EXCEPT ![o] = "PAID"]
          /\ UNCHANGED ledger
    BY <1>1 DEF ConfirmFromStock, ConfirmPreorder, moneyVars
  <2>2. /\ status'[o] = s /\ payment'[o] = "PAID"
        /\ \A q \in Order \ {o} : status'[q] = status[q] /\ payment'[q] = payment[q]
    BY <2>1, OnlyThisOrder
  <2>3. Books(o)'
    BY <1>i, <1>a, <2>1, <2>2 DEF Books, Closed
  <2>4. QED
    BY <1>i, <2>1, <2>2, <2>3, MoneyFrame
<1>2. CASE ConfirmOutOfStock(o)
  <2>1. /\ status'[o] = "REFUNDED" /\ payment'[o] = "PAID"
        /\ \A q \in Order \ {o} : status'[q] = status[q] /\ payment'[q] = payment[q]
    BY <1>2, OnlyThisOrder DEF ConfirmOutOfStock
  <2>2. /\ Owner(o) \in Buyer
        /\ GrandTotal(o) \in Int
        /\ ledger[o]["STOCK_UNAVAILABLE_REFUND"] = 0
    BY <1>i, AmountsType DEF Owner, Invoice, Books, Kind
  <2>3. /\ \A q \in Order \ {o} : ledger'[q] = ledger[q]
        /\ \A k \in Entry :
             ledger'[o][k] = IF k = "STOCK_UNAVAILABLE_REFUND" THEN GrandTotal(o) ELSE ledger[o][k]
    BY <1>2, <2>2, FirstPosting DEF ConfirmOutOfStock, TypeInv, Entry
  <2>4. Books(o)'
    BY <1>i, <1>a, <2>1, <2>2, <2>3 DEF Books, Closed, Kind, Entry
  <2>5. QED
    BY <1>i, <2>1, <2>3, <2>4, MoneyFrame
<1>3. QED
  BY <1>1, <1>2 DEF ConfirmPayment

(* Expiry and cancellation keep the books.                                  *)
LEMMA MoneyClose ==
  ASSUME TypeInv, MoneyInv, NEW o \in Order, ExpireOrder(o) \/ CancelOrder(o)
  PROVE  MoneyInv'
<1>1. PICK s \in Closed : CloseUnpaid(o, s)
  BY DEF ExpireOrder, CancelOrder, Closed
<1>i. /\ status[o] = "PENDING_PAYMENT"
      /\ Books(o)
      /\ invoice[o] \in Invoice
      /\ UNCHANGED invoice
  BY <1>1 DEF ExpireOrder, CancelOrder, CloseUnpaid, TypeInv, MoneyInv
<1>c. invoice[o].contribution \in Nat /\ Owner(o) \in Buyer
  BY <1>i DEF Invoice, Owner
<1>a. GrandTotal(o)' = GrandTotal(o) /\ BilledAmount(o)' = BilledAmount(o)
  BY <1>i, AmountsStay
<1>2. /\ status'[o] = s /\ payment'[o] = "EXPIRED"
      /\ \A q \in Order \ {o} : status'[q] = status[q] /\ payment'[q] = payment[q]
  BY <1>1, OnlyThisOrder DEF CloseUnpaid
<1>3. /\ ledger[o]["PURCHASE_DEBIT"] = -invoice[o].contribution
      /\ ledger[o]["PAYMENT_RELEASE_REFUND"] = 0
  BY <1>i DEF Books, Closed
<1>4. /\ \A q \in Order \ {o} : ledger'[q] = ledger[q]
      /\ \A k \in Entry :
           ledger'[o][k] = IF k = "PAYMENT_RELEASE_REFUND" THEN invoice[o].contribution
                           ELSE ledger[o][k]
  <2>1. CASE PostEntry(Owner(o), o, "PAYMENT_RELEASE_REFUND", -ledger[o]["PURCHASE_DEBIT"])
    <3>1. -ledger[o]["PURCHASE_DEBIT"] = invoice[o].contribution
      BY <1>c, <1>3
    <3>2. QED
      BY <1>c, <1>3, <2>1, <3>1, FirstPosting DEF TypeInv, Entry
  <2>2. CASE ledger[o]["PURCHASE_DEBIT"] >= 0 /\ UNCHANGED moneyVars
    BY <1>c, <1>3, <2>2 DEF moneyVars
  <2>3. QED
    BY <1>1, <2>1, <2>2 DEF CloseUnpaid, ReleaseContribution
<1>5. Books(o)'
  BY <1>i, <1>a, <1>1, <1>2, <1>3, <1>4 DEF Books, Closed, Kind, Entry
<1>6. QED
  BY <1>i, <1>1, <1>2, <1>4, <1>5, MoneyFrame DEF Closed

(* Crediting a late payment keeps the books.                                *)
LEMMA MoneyCreditExpired ==
  ASSUME TypeInv, MoneyInv, NEW o \in Order, CreditExpiredOrder(o)
  PROVE  MoneyInv'
<1>i. /\ status[o] = "EXPIRED" /\ payment[o] = "EXPIRED"
      /\ Books(o)
      /\ invoice[o] \in Invoice
      /\ UNCHANGED <<status, invoice>>
  BY DEF CreditExpiredOrder, TypeInv, MoneyInv
<1>a. GrandTotal(o)' = GrandTotal(o) /\ BilledAmount(o)' = BilledAmount(o)
  BY <1>i, AmountsStay
<1>1. payment'[o] = "PAID" /\ \A q \in Order \ {o} : payment'[q] = payment[q]
  BY DEF CreditExpiredOrder, TypeInv, TypeOK
<1> DEFINE credit == BilledAmount(o) - invoice[o].code
<1>2. Owner(o) \in Buyer /\ credit \in Int /\ ledger[o]["EXPIRED_CREDIT"] = 0
  BY <1>i, AmountsType DEF Owner, Invoice, CreditExpiredOrder
<1>3. /\ \A q \in Order \ {o} : ledger'[q] = ledger[q]
      /\ \A k \in Entry : ledger'[o][k] = IF k = "EXPIRED_CREDIT" THEN credit ELSE ledger[o][k]
  BY <1>2, FirstPosting DEF CreditExpiredOrder, TypeInv, Entry
<1>4. Books(o)'
  BY <1>i, <1>a, <1>1, <1>3 DEF Books, Closed, Kind, Entry
<1>5. QED
  BY <1>i, <1>1, <1>3, <1>4, MoneyFrame

(* Between the payment and the delivery only the status moves.              *)
LEMMA MoneyFulfil ==
  ASSUME TypeInv, MoneyInv, NEW o \in Order,
         \/ AllocatePaidPreorder(o)
         \/ \E u \in Unit : AssignStock(o, u)
         \/ \E R \in SUBSET Unit : DownloadWeb(o, R)
  PROVE  MoneyInv'
<1> DEFINE served == {"PAID_WAITING_STOCK", "FULFILLING", "COMPLETED"}
<1>1. /\ status[o] \in served
      /\ status'[o] \in served
      /\ \A q \in Order \ {o} : status'[q] = status[q]
      /\ UNCHANGED <<payment, invoice, ledger>>
  BY DEF AllocatePaidPreorder, AssignStock, DownloadWeb, Waiting, moneyVars, TypeInv, TypeOK
<1>2. Books(o) /\ GrandTotal(o)' = GrandTotal(o) /\ BilledAmount(o)' = BilledAmount(o)
  BY <1>1, AmountsStay DEF MoneyInv
<1>3. Books(o)'
  BY <1>1, <1>2 DEF Books, Closed
<1>4. QED
  BY <1>1, <1>3, MoneyFrame

(* The refund of a cancelled preorder keeps the books.                      *)
LEMMA MoneyCancelPreorder ==
  ASSUME TypeInv, MoneyInv, NEW o \in Order, CancelPaidPreorder(o)
  PROVE  MoneyInv'
<1>i. /\ status[o] = "PAID_WAITING_STOCK"
      /\ Books(o)
      /\ invoice[o] \in Invoice
      /\ UNCHANGED <<payment, invoice>>
  BY DEF CancelPaidPreorder, Waiting, Placed, TypeInv, MoneyInv
<1>a. GrandTotal(o)' = GrandTotal(o) /\ BilledAmount(o)' = BilledAmount(o)
  BY <1>i, AmountsStay
<1>1. status'[o] = "REFUNDED" /\ \A q \in Order \ {o} : status'[q] = status[q]
  BY DEF CancelPaidPreorder, TypeInv, TypeOK
<1>2. /\ Owner(o) \in Buyer
      /\ GrandTotal(o) \in Int
      /\ ledger[o]["PREORDER_CANCEL_REFUND"] = 0
  BY <1>i, AmountsType DEF Owner, Invoice, Books, Kind
<1>3. /\ \A q \in Order \ {o} : ledger'[q] = ledger[q]
      /\ \A k \in Entry :
           ledger'[o][k] = IF k = "PREORDER_CANCEL_REFUND" THEN GrandTotal(o) ELSE ledger[o][k]
  BY <1>2, FirstPosting DEF CancelPaidPreorder, TypeInv, Entry
<1>4. Books(o)'
  BY <1>i, <1>a, <1>1, <1>2, <1>3 DEF Books, Closed, Kind, Entry
<1>5. QED
  BY <1>i, <1>1, <1>3, <1>4, MoneyFrame

(* MoneyInv is inductive relative to the types.                             *)
LEMMA MoneyStep == TypeInv /\ MoneyInv /\ [Next]_vars => MoneyInv'
<1> SUFFICES ASSUME TypeInv, MoneyInv, [Next]_vars PROVE MoneyInv'
  OBVIOUS
<1>1. ASSUME NEW o \in Order, OrderStep(o) PROVE MoneyInv'
  <2>1. CASE TimePasses(o) \/ SubmitTransfer(o) \/ VerifyTransfer(o) \/ RejectTransfer(o)
    BY <2>1, MoneyUntouched
       DEF TimePasses, SubmitTransfer, VerifyTransfer, RejectTransfer, AttemptMoves, moneyVars
  <2>2. QED
    BY <1>1, <2>1, MoneyCheckout, MoneyConfirm, MoneyClose, MoneyCreditExpired, MoneyFulfil,
       MoneyCancelPreorder DEF OrderStep
<1>2. CASE InventoryStep \/ UNCHANGED vars
  <2>1. UNCHANGED <<status, payment, invoice, ledger>>
    BY <1>2 DEF InventoryStep, AddStock, CheckHealth, ArchiveStock, RestoreStock, DeleteStock,
       SetBannedPolicy, StockMoves, vars, orderVars, moneyVars
  <2>2. QED
    BY <2>1, MoneyUntouched
<1>3. QED
  BY <1>1, <1>2 DEF Next

(* What the shop keeps of every order follows from its state, whatever the  *)
(* interleaving of confirmations, expiries, cancellations, late payments,   *)
(* refunds and downloads: nobody is paid back twice and no money is kept    *)
(* for nothing.                                                             *)
THEOREM MoneyIsAccounted == Spec => []MoneyAccounted
<1>1. Init => TypeInv /\ MoneyInv
  BY TypeInit, MoneyInit
<1>2. (TypeInv /\ MoneyInv) /\ [Next]_vars => (TypeInv /\ MoneyInv)'
  BY TypeStep, MoneyStep
<1>3. QED
  BY <1>1, <1>2, BooksBalance, PTL DEF Spec

------------------------------------------------------------------------------
(* Amounts that can still be paid.                                          *)

Live(o) == payment[o] = "PENDING" /\ due[o] # "CLOSED" /\ invoice[o].code > 0

(* No transaction but a checkout makes an invoice payable, and none changes *)
(* an invoice afterwards.                                                   *)
LEMMA LiveOnlyEnds ==
  ASSUME TypeInv, [Next]_vars, NEW o \in Order, ~Checkout(o),
         status'[o] # "NONE", Live(o)'
  PROVE  status[o] # "NONE" /\ Live(o) /\ invoice'[o] = invoice[o]
<1>1. TypeOK
  BY DEF TypeInv
<1>2. CASE \E p \in Order : Checkout(p)
  <2>1. PICK p \in Order : Checkout(p)
    BY <1>2
  <2>2. p # o
    BY <2>1
  <2>3. /\ status'[o] = status[o] /\ payment'[o] = payment[o] /\ due'[o] = due[o]
        /\ invoice'[o] = invoice[o]
    BY <1>1, <2>1, <2>2 DEF Checkout, CreateInvoice, BuyFromWallet, PreorderFromWallet, TypeOK
  <2>4. QED
    BY <2>3 DEF Live
<1>3. CASE \E p \in Order : TimePasses(p)
  BY <1>1, <1>3 DEF TimePasses, Live, TypeOK
<1>4. CASE \E p \in Order : SubmitTransfer(p) \/ VerifyTransfer(p) \/ RejectTransfer(p)
  BY <1>4 DEF SubmitTransfer, VerifyTransfer, RejectTransfer, AttemptMoves, Live
<1>5. CASE \E p \in Order : \/ ConfirmPayment(p) \/ ExpireOrder(p) \/ CancelOrder(p)
                            \/ CreditExpiredOrder(p)
  <2>1. PICK p \in Order, s \in OrderStatus \ {"NONE"}, t \in {"PAID", "EXPIRED"} :
          /\ status' \in {status, [status EXCEPT ![p] = s]}
          /\ payment' = [payment EXCEPT ![p] = t]
          /\ UNCHANGED <<due, invoice>>
          /\ status[p] # "NONE"
    BY <1>5 DEF ConfirmPayment, ConfirmFromStock, ConfirmOutOfStock, ConfirmPreorder, Payable,
       ExpireOrder, CancelOrder, CloseUnpaid, CreditExpiredOrder, OrderStatus
  <2>2. QED
    BY <1>1, <2>1 DEF Live, TypeOK
<1>6. CASE \E p \in Order : \/ AllocatePaidPreorder(p) \/ CancelPaidPreorder(p)
                            \/ \E u \in Unit : AssignStock(p, u)
                            \/ \E R \in SUBSET Unit : DownloadWeb(p, R)
  <2>1. PICK p \in Order : /\ UNCHANGED <<payment, due, invoice>>
                          /\ status[p] # "NONE"
                          /\ \A q \in Order \ {p} : status'[q] = status[q]
    BY <1>1, <1>6 DEF AllocatePaidPreorder, AssignStock, CancelPaidPreorder, DownloadWeb, Waiting,
       TypeOK
  <2>2. QED
    BY <2>1 DEF Live
<1>7. CASE InventoryStep \/ UNCHANGED vars
  BY <1>7 DEF InventoryStep, AddStock, CheckHealth, ArchiveStock, RestoreStock, DeleteStock,
     SetBannedPolicy, StockMoves, vars, orderVars, Live
<1>8. QED
  BY <1>2, <1>3, <1>4, <1>5, <1>6, <1>7 DEF Next, OrderStep

(* A coded amount is only given out while no payable invoice bills it.      *)
LEMMA AmountsStep == TypeInv /\ BilledAmountsDiffer /\ [Next]_vars => BilledAmountsDiffer'
<1> SUFFICES ASSUME TypeInv, BilledAmountsDiffer, [Next]_vars,
                    NEW o \in Order, NEW p \in Order, o # p,
                    status'[o] # "NONE", status'[p] # "NONE", Live(o)', Live(p)'
             PROVE  BilledAmount(o)' # BilledAmount(p)'
  BY DEF BilledAmountsDiffer, Placed, Live
<1> DEFINE Old(q) == /\ status[q] # "NONE" /\ Live(q)
                     /\ BilledAmount(q)' = BilledAmount(q)
<1>1. ASSUME NEW q \in Order, ~Checkout(q), status'[q] # "NONE", Live(q)'
      PROVE  Old(q)
  BY <1>1, LiveOnlyEnds, AmountsStay
<1>2. ASSUME NEW q \in Order, NEW r \in Order, q # r, Checkout(q), Old(r), Live(q)'
      PROVE  BilledAmount(q)' # BilledAmount(r)'
  <2>1. PICK b \in Buyer, m \in Method, quantity \in 1..MaxQuantity :
          \/ CreateInvoice(q, b, m, quantity)
          \/ BuyFromWallet(q, b, m, quantity)
          \/ PreorderFromWallet(q, b, m, quantity)
    BY <1>2 DEF Checkout
  <2> DEFINE e == EffectiveMethod(b, m, quantity)
             contribution == IF e = "WALLET_QRIS" THEN wallet[b] ELSE 0
  <2>2. CreateInvoice(q, b, m, quantity)
    BY <1>2, <2>1 DEF BuyFromWallet, PreorderFromWallet, Live, TypeInv, TypeOK
  <2>3. PICK code \in IF e \in UniqueCoded THEN FreeCodes(Subtotal(quantity) - contribution)
                      ELSE {0} :
          invoice' = [invoice EXCEPT ![q] = NewInvoice(b, e, quantity, code)]
    BY <2>2 DEF CreateInvoice
  <2>4. /\ invoice'[q].code = code /\ invoice'[q].quantity = quantity
        /\ invoice'[q].contribution = contribution
    BY <2>3 DEF NewInvoice, TypeInv, TypeOK
  <2>5. code \in FreeCodes(Subtotal(quantity) - contribution)
    BY <1>2, <2>3, <2>4 DEF Live
  <2>6. Subtotal(quantity) \in Nat /\ contribution \in Nat /\ code \in Nat
    BY <2>5, AmountAssumption, SubtotalType DEF FreeCodes, TypeInv, TypeOK
  <2>7. BilledAmount(q)' = Subtotal(quantity) - contribution + code
    BY <2>4, <2>6 DEF BilledAmount, GrandTotal
  <2>8. BilledAmount(r) \in ActiveAmounts
    BY <1>2 DEF ActiveAmounts, Placed, Live
  <2>9. QED
    BY <1>2, <2>5, <2>7, <2>8 DEF FreeCodes
<1>3. ~(Checkout(o) /\ Checkout(p))
  <2>1. ASSUME NEW q \in Order, Checkout(q)
        PROVE  status[q] = "NONE" /\ \A r \in Order \ {q} : status'[r] = status[r]
    BY <2>1 DEF Checkout, CreateInvoice, BuyFromWallet, PreorderFromWallet, CanCheckout,
       TypeInv, TypeOK
  <2>2. QED
    BY <2>1
<1>4. CASE Checkout(o)
  BY <1>1, <1>2, <1>3, <1>4
<1>5. CASE Checkout(p)
  BY <1>1, <1>2, <1>3, <1>5
<1>6. CASE ~Checkout(o) /\ ~Checkout(p)
  BY <1>1, <1>6 DEF BilledAmountsDiffer, Placed, Live
<1>7. QED
  BY <1>4, <1>5, <1>6

(* Two invoices that can still be paid never bill the same amount, however  *)
(* many are open and however many codes there are.                          *)
THEOREM AmountsAreUnique == Spec => []BilledAmountsDiffer
<1>1. Init => BilledAmountsDiffer
  BY DEF Init, BilledAmountsDiffer, Placed
<1>2. QED
  BY <1>1, AmountsStep, TypeInvariant, PTL DEF Spec

------------------------------------------------------------------------------
(* Verified transfers.                                                      *)

(* VerifiedStaysPayable is not inductive alone: a transfer becomes verified *)
(* long after it was handed in, so its invoice must be open from then on.   *)
BinanceInv ==
  \A o \in Order :
    /\ status[o] # "NONE"
    /\ invoice[o].method = "BINANCE_INTERNAL"
    /\ attempt[o] \in {"AWAITING", "VERIFYING", "VERIFIED"}
    => status[o] = "PENDING_PAYMENT"

(* A transaction of one order leaves those columns of the others alone.     *)
LEMMA OrdersApart ==
  ASSUME TypeInv, NEW o \in Order, OrderStep(o), NEW p \in Order \ {o}
  PROVE  status'[p] = status[p] /\ invoice'[p] = invoice[p] /\ attempt'[p] = attempt[p]
<1>t. TypeOK
  BY DEF TypeInv
<1>1. CASE Checkout(o)
  BY <1>t, <1>1 DEF Checkout, CreateInvoice, BuyFromWallet, PreorderFromWallet, TypeOK
<1>2. CASE TimePasses(o) \/ SubmitTransfer(o) \/ VerifyTransfer(o) \/ RejectTransfer(o)
  BY <1>t, <1>2 DEF TimePasses, SubmitTransfer, VerifyTransfer, RejectTransfer, AttemptMoves, TypeOK
<1>3. CASE ConfirmPayment(o)
  BY <1>t, <1>3 DEF ConfirmPayment, ConfirmFromStock, ConfirmOutOfStock, ConfirmPreorder,
     ConfirmAttempt, TypeOK
<1>4. CASE ExpireOrder(o) \/ CancelOrder(o) \/ CreditExpiredOrder(o)
  BY <1>t, <1>4 DEF ExpireOrder, CancelOrder, CloseUnpaid, CreditExpiredOrder, TypeOK
<1>5. CASE \/ AllocatePaidPreorder(o) \/ CancelPaidPreorder(o)
           \/ \E u \in Unit : AssignStock(o, u)
           \/ \E R \in SUBSET Unit : DownloadWeb(o, R)
  BY <1>t, <1>5 DEF AllocatePaidPreorder, AssignStock, CancelPaidPreorder, DownloadWeb, TypeOK
<1>6. QED
  BY <1>1, <1>2, <1>3, <1>4, <1>5 DEF OrderStep

(* BinanceInv is inductive relative to the types.                           *)
LEMMA BinanceStep == TypeInv /\ BinanceInv /\ [Next]_vars => BinanceInv'
<1> SUFFICES ASSUME TypeInv, BinanceInv, [Next]_vars PROVE BinanceInv'
  OBVIOUS
<1>t. TypeOK
  BY DEF TypeInv
<1> DEFINE Guarded(o) == /\ invoice[o].method = "BINANCE_INTERNAL"
                         /\ attempt[o] \in {"AWAITING", "VERIFYING", "VERIFIED"}
<1>1. ASSUME NEW o \in Order, OrderStep(o) PROVE BinanceInv'
  <2>1. status'[o] # "NONE" /\ Guarded(o)' => status'[o] = "PENDING_PAYMENT"
    <3>1. CASE Checkout(o)
      <4>1. PICK b \in Buyer, m \in Method, quantity \in 1..MaxQuantity :
              \/ CreateInvoice(o, b, m, quantity)
              \/ BuyFromWallet(o, b, m, quantity)
              \/ PreorderFromWallet(o, b, m, quantity)
        BY <3>1 DEF Checkout
      <4>2. CASE CreateInvoice(o, b, m, quantity)
        BY <1>t, <4>2 DEF CreateInvoice, TypeOK
      <4>3. CASE BuyFromWallet(o, b, m, quantity) \/ PreorderFromWallet(o, b, m, quantity)
        BY <1>t, <4>3 DEF BuyFromWallet, PreorderFromWallet, NewInvoice, TypeOK
      <4>4. QED
        BY <4>1, <4>2, <4>3
    <3>2. CASE TimePasses(o) \/ SubmitTransfer(o) \/ VerifyTransfer(o) \/ RejectTransfer(o)
      BY <1>t, <3>2 DEF TimePasses, SubmitTransfer, VerifyTransfer, RejectTransfer, AttemptMoves,
         BinanceInv, TypeOK
    <3>3. CASE ConfirmPayment(o)
      <4>1. ConfirmAttempt(o) /\ UNCHANGED invoice
        BY <3>3 DEF ConfirmPayment, ConfirmFromStock, ConfirmOutOfStock, ConfirmPreorder
      <4>2. QED
        BY <1>t, <4>1 DEF ConfirmAttempt, Crypto, TypeOK
    <3>4. CASE ExpireOrder(o) \/ CancelOrder(o)
      <4>1. PICK to : CloseUnpaid(o, to)
        BY <3>4 DEF ExpireOrder, CancelOrder
      <4>2. attempt[o] # "VERIFIED"
        BY <3>4 DEF ExpireOrder, CancelOrder, UnderVerification
      <4>3. invoice[o].method = "BINANCE_INTERNAL" =>
              attempt'[o] \in AttemptStatus \ {"AWAITING", "VERIFYING", "VERIFIED"}
        BY <1>t, <4>1, <4>2 DEF CloseUnpaid, ClosedAttempt, TypeOK, AttemptStatus
      <4>4. QED
        BY <4>1, <4>3 DEF CloseUnpaid
    <3>5. CASE CreditExpiredOrder(o)
      BY <3>5 DEF CreditExpiredOrder, BinanceInv
    <3>6. CASE \/ AllocatePaidPreorder(o) \/ CancelPaidPreorder(o)
               \/ \E u \in Unit : AssignStock(o, u)
               \/ \E R \in SUBSET Unit : DownloadWeb(o, R)
      BY <3>6 DEF AllocatePaidPreorder, AssignStock, CancelPaidPreorder, DownloadWeb, Waiting,
         Placed, BinanceInv
    <3>7. QED
      BY <1>1, <3>1, <3>2, <3>3, <3>4, <3>5, <3>6 DEF OrderStep
  <2>2. QED
    BY <1>1, <2>1, OrdersApart DEF BinanceInv
<1>2. CASE InventoryStep \/ UNCHANGED vars
  BY <1>2 DEF InventoryStep, AddStock, CheckHealth, ArchiveStock, RestoreStock, DeleteStock,
     SetBannedPolicy, StockMoves, vars, orderVars, BinanceInv
<1>3. QED
  BY <1>1, <1>2 DEF Next

(* Neither expiry nor cancellation ever closes an order whose transfer was  *)
(* verified through Binance's API, at whatever moment the answer comes: it  *)
(* is recorded under the order's payment lock (binance-internal.ts,         *)
(* verifyBinanceInternalAttempt).  The two kinds of attempt recorded        *)
(* without that lock, BEP20 and the Binance web session, are closed in the  *)
(* same race and are no part of the property.                               *)
THEOREM VerifiedTransferStays == Spec => []VerifiedStaysPayable
<1>1. Init => BinanceInv
  BY DEF Init, BinanceInv
<1>2. BinanceInv => VerifiedStaysPayable
  BY DEF BinanceInv, VerifiedStaysPayable, Placed
<1>3. QED
  BY <1>1, <1>2, BinanceStep, TypeInvariant, PTL DEF Spec
==============================================================================
