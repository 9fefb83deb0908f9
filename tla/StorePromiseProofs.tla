------------------------- MODULE StorePromiseProofs -------------------------
(***************************************************************************)
(* An order in fulfilment is complete and queued, the limits hold, and the *)
(* shop keeps the promise of OrderPromise, for any number of orders,       *)
(* buyers and units.                                                       *)
(***************************************************************************)
EXTENDS StoreProofs

(* FulfilmentComplete, one order at a time, with what a confirmation, a     *)
(* download and the last unit of a preorder rely on: the quantity is one    *)
(* the shop sells, nothing is delivered or lies ready before the order is   *)
(* in fulfilment, and it is completed with its last unit.                   *)
Filled(o) ==
  /\ status[o] # "NONE" => invoice[o].quantity \in 1..MaxQuantity
  /\ status[o] \in {"FULFILLING", "COMPLETED"} =>
       /\ Cardinality(items[o]) = invoice[o].quantity
       /\ IsWeb(Owner(o)) => \A u \in items[o] : receiptOf[u] = o
  /\ status[o] = "PAID_WAITING_STOCK" => Cardinality(items[o]) < invoice[o].quantity
  /\ status[o] \notin {"FULFILLING", "COMPLETED", "REFUNDED"} =>
       \A u \in Unit : receiptOf[u] # o /\ deliveredTo[u] # o
  /\ status[o] = "FULFILLING" => \E u \in items[o] : deliveredTo[u] # o
  /\ status[o] = "COMPLETED" => \A u \in items[o] : deliveredTo[u] = o

(* The receipt of a Web order belongs to the order that holds the unit, and *)
(* is SENT once the unit is delivered; a unit without a receipt has none.   *)
WebReceipts ==
  \A u \in Unit :
    /\ receiptOf[u] = None => receipt[u] = "NONE"
    /\ receiptOf[u] # None /\ IsWeb(Owner(receiptOf[u])) =>
         /\ receipt[u] \in {"READY", "SENT"} /\ holder[u] = receiptOf[u]
         /\ receipt[u] = "SENT" <=> deliveredTo[u] # None

(* What an order has, in the core alone as beside the delivery worker.      *)
GoodsInv == (\A o \in Order : Filled(o)) /\ WebReceipts

(* In the core alone nothing is on its way but for an order in fulfilment.  *)
Noticed(o) ==
  /\ status[o] \in {"FULFILLING", "COMPLETED"} /\ ~IsWeb(Owner(o)) =>
       \A u \in items[o] : outbox[o][u] # "NONE"
  /\ status[o] \notin {"FULFILLING", "COMPLETED"} =>
       \A u \in Unit : receiptOf[u] # o /\ outbox[o][u] = "NONE"

NoticeInv == \A o \in Order : Noticed(o)

(* A transaction of the core keeps the goods right whatever is on its way,  *)
(* and the notices with them.                                               *)
FillKept == GoodsInv' /\ (NoticeInv => NoticeInv')

------------------------------------------------------------------------------
(* Counting units.                                                          *)

(* The units of an order are finitely many.                                 *)
LEMMA UnitsAreFinite ==
  ASSUME NEW S \in SUBSET Unit
  PROVE  IsFiniteSet(S) /\ Cardinality(S) \in Nat
<1>1. IsFiniteSet(Unit)
  BY AmountAssumption, FS_Interval DEF Unit
<1>2. QED
  BY <1>1, FS_Subset, FS_CardinalityType

(* Units on sale are nobody's, so a claim adds its number to the items.     *)
LEMMA ClaimCount ==
  ASSUME TypeInv, OwnerInv, NEW o \in Order, NEW T \in SUBSET Sellable
  PROVE  /\ Cardinality(items[o]) \in Nat /\ Cardinality(T) \in Nat
         /\ Cardinality(items[o] \cup T) = Cardinality(items[o]) + Cardinality(T)
<1>1. items[o] \in SUBSET Unit /\ T \in SUBSET Unit
  BY DEF TypeInv, TypeOK, Sellable
<1>2. items[o] \cap T = {}
  BY OrderAssumption DEF OwnerInv, StockOwnership, Sellable
<1>3. /\ IsFiniteSet(items[o]) /\ Cardinality(items[o]) \in Nat
      /\ IsFiniteSet(T) /\ Cardinality(T) \in Nat
  BY <1>1, UnitsAreFinite
<1>4. Cardinality(items[o] \cup T)
        = Cardinality(items[o]) + Cardinality(T) - Cardinality(items[o] \cap T)
  BY <1>3, FS_Union
<1>5. Cardinality(items[o] \cap T) = 0
  BY <1>2, FS_EmptySet
<1>6. QED
  BY <1>3, <1>4, <1>5

------------------------------------------------------------------------------
(* GoodsInv and NoticeInv are inductive.                                    *)

(* The empty shop has nothing to fill.                                      *)
LEMMA FillInit == Init => GoodsInv /\ NoticeInv
BY OrderAssumption DEF Init, GoodsInv, Filled, WebReceipts, NoticeInv, Noticed

(* An order is filled as before when a transaction of another order leaves  *)
(* its columns alone and takes no receipt from it.                          *)
LEMMA OthersStayFilled ==
  ASSUME GoodsInv, NEW p \in Order,
         status'[p] = status[p], invoice'[p] = invoice[p], items'[p] = items[p],
         \A u \in Unit : /\ receiptOf'[u] = p <=> receiptOf[u] = p
                         /\ deliveredTo'[u] = p <=> deliveredTo[u] = p,
         items[p] \in SUBSET Unit
  PROVE  /\ Filled(p)'
         /\ outbox'[p] = outbox[p] => (Noticed(p) => Noticed(p)')
<1>1. Filled(p) /\ Owner(p)' = Owner(p)
  BY DEF GoodsInv, Owner
<1>2. Filled(p)'
  BY <1>1 DEF Filled
<1>3. QED
  BY <1>1, <1>2 DEF Noticed

(* A step that moves only the state of one order, and not its goods, keeps  *)
(* the rest filled.                                                         *)
LEMMA FillFrame ==
  ASSUME TypeInv, GoodsInv, NEW o \in Order,
         UNCHANGED <<items, holder, deliveredTo, deliveryVars>>,
         \A p \in Order \ {o} : status'[p] = status[p] /\ invoice'[p] = invoice[p],
         invoice'[o] = invoice[o] \/ status[o] \notin {"FULFILLING", "COMPLETED", "REFUNDED"},
         Filled(o)', Noticed(o) => Noticed(o)'
  PROVE  FillKept
<1>1. WebReceipts'
  <2> SUFFICES ASSUME NEW u \in Unit, receiptOf[u] # None, IsWeb(Owner(receiptOf[u]))'
               PROVE  /\ receipt[u] \in {"READY", "SENT"} /\ holder[u] = receiptOf[u]
                      /\ receipt[u] = "SENT" <=> deliveredTo[u] # None
    BY DEF GoodsInv, WebReceipts, deliveryVars
  <2>1. receiptOf[u] \in Order
    BY DEF TypeInv, TypeOK
  <2>2. receiptOf[u] = o => invoice'[o] = invoice[o]
    BY DEF GoodsInv, Filled
  <2>3. IsWeb(Owner(receiptOf[u]))
    BY <2>1, <2>2 DEF Owner, deliveryVars
  <2>4. QED
    BY <2>3 DEF GoodsInv, WebReceipts
<1>2. \A p \in Order \ {o} : Filled(p)' /\ (Noticed(p) => Noticed(p)')
  BY OthersStayFilled DEF deliveryVars, TypeInv, TypeOK
<1>3. QED
  BY <1>1, <1>2 DEF GoodsInv, NoticeInv, FillKept

(* An order without goods, before or outside fulfilment, needs none.        *)
LEMMA FillNothing ==
  ASSUME TypeInv, GoodsInv, NEW o \in Order, items[o] = {},
         status[o] \notin {"FULFILLING", "COMPLETED", "REFUNDED"},
         UNCHANGED <<items, holder, deliveredTo, deliveryVars>>,
         \A p \in Order \ {o} : status'[p] = status[p] /\ invoice'[p] = invoice[p],
         status'[o] \notin {"FULFILLING", "COMPLETED"},
         invoice'[o].quantity \in 1..MaxQuantity
  PROVE  FillKept
<1>1. Cardinality(items[o]) = 0 /\ invoice'[o].quantity > 0
  BY AmountAssumption, FS_EmptySet
<1>2. Filled(o)
  BY DEF GoodsInv
<1>3. Filled(o)'
  BY <1>1, <1>2 DEF Filled, deliveryVars
<1>4. Noticed(o) => Noticed(o)'
  BY DEF Noticed, deliveryVars
<1>5. QED
  BY <1>3, <1>4, FillFrame

(* A claim that completes an order and queues all its units fills it.       *)
LEMMA FillClaim ==
  ASSUME TypeInv, OwnerInv, GoodsInv, NEW o \in Order, NEW T \in SUBSET Sellable, NEW b,
         ClaimUnits(o, T), QueueDelivery(b, o, items[o] \cup T),
         status[o] \notin {"FULFILLING", "COMPLETED", "REFUNDED"},
         status'[o] = "FULFILLING", invoice'[o].buyer = b,
         invoice'[o].quantity \in 1..MaxQuantity,
         Cardinality(items[o] \cup T) = invoice'[o].quantity,
         \A p \in Order \ {o} : status'[p] = status[p] /\ invoice'[p] = invoice[p],
         UNCHANGED deliveredTo
  PROVE  FillKept
<1> DEFINE G == items[o] \cup T
<1>1. G \in SUBSET Unit /\ items' = [items EXCEPT ![o] = G]
  BY DEF TypeInv, TypeOK, Sellable, ClaimUnits
<1>2. /\ items'[o] = G
      /\ \A p \in Order \ {o} : items'[p] = items[p] /\ items[p] \in SUBSET Unit
  BY <1>1 DEF TypeInv, TypeOK
<1>3. \A u \in Unit : holder'[u] = IF u \in T THEN o ELSE holder[u]
  BY DEF ClaimUnits
<1>4. \A u \in Unit : receiptOf[u] # o /\ deliveredTo[u] # o
  BY DEF GoodsInv, Filled
<1>5. G # {}
  BY FS_EmptySet, AmountAssumption
<1>6. \A u \in G : u \in Unit /\ holder'[u] = o /\ deliveredTo[u] = None
  <2>1. \A u \in T : u \in Unit /\ deliveredTo[u] = None
    BY OrderAssumption DEF Sellable, OwnerInv, StockOwnership
  <2>2. \A u \in items[o] : u \in Unit /\ holder[u] = o
    BY <1>1 DEF OwnerInv, StockOwnership
  <2>3. \A u \in items[o] : deliveredTo[u] \in {None, o}
    BY <2>2 DEF OwnerInv, StockOwnership
  <2>4. QED
    BY <1>3, <1>4, <2>1, <2>2, <2>3
<1>7. \A u \in Unit \ G : holder'[u] = holder[u]
  BY <1>3
<1>8. \E u \in G : deliveredTo'[u] # o
  BY <1>4, <1>5, <1>6
<1>9. CASE IsWeb(b)
  <2>1. QueueWeb(o, G)
    BY <1>9 DEF QueueDelivery
  <2>2. \A u \in G : receiptOf[u] = None /\ receipt[u] = "NONE"
    BY <2>1, <1>4, <1>6 DEF QueueWeb, GoodsInv, WebReceipts
  <2>3. /\ \A u \in Unit : /\ receipt'[u] = IF u \in G THEN "READY" ELSE receipt[u]
                           /\ receiptOf'[u] = IF u \in G THEN o ELSE receiptOf[u]
        /\ UNCHANGED outbox
    BY <2>1, <2>2 DEF QueueWeb
  <2> HIDE DEF G
  <2>4. WebReceipts'
    <3>1. SUFFICES ASSUME NEW u \in Unit
                   PROVE  /\ receiptOf'[u] = None => receipt'[u] = "NONE"
                          /\ receiptOf'[u] # None /\ invoice'[receiptOf'[u]].buyer \in WebBuyer =>
                               /\ receipt'[u] \in {"READY", "SENT"} /\ holder'[u] = receiptOf'[u]
                               /\ receipt'[u] = "SENT" <=> deliveredTo'[u] # None
      BY DEF WebReceipts, IsWeb, Owner
    <3>2. CASE u \in G
      BY <3>2, <1>6, <2>3, OrderAssumption
    <3>3. CASE u \notin G
      <4>1. receiptOf'[u] = receiptOf[u] /\ receipt'[u] = receipt[u] /\ holder'[u] = holder[u]
        BY <3>3, <1>7, <2>3
      <4>2. receiptOf[u] # None => receiptOf[u] \in Order \ {o}
        BY <1>4 DEF TypeInv, TypeOK
      <4>3. QED
        BY <4>1, <4>2 DEF GoodsInv, WebReceipts, IsWeb, Owner
    <3>4. QED
      BY <3>2, <3>3
  <2>5. Filled(o)'
    BY <1>1, <1>2, <1>6, <1>8, <2>3 DEF Filled, G
  <2>6. Noticed(o)'
    BY <1>9 DEF Noticed, Owner
  <2>7. \A p \in Order \ {o} : Filled(p)' /\ (Noticed(p) => Noticed(p)')
    <3>1. \A p \in Order \ {o}, u \in Unit : receiptOf'[u] = p <=> receiptOf[u] = p
      BY <2>2, <2>3, OrderAssumption
    <3>2. QED
      BY <3>1, <2>3, <1>2, OthersStayFilled
  <2>8. QED
    BY <2>4, <2>5, <2>6, <2>7 DEF GoodsInv, NoticeInv, FillKept
<1>10. CASE ~IsWeb(b)
  <2>1. QueueTelegram(o, G)
    BY <1>10 DEF QueueDelivery
  <2>2. /\ UNCHANGED <<receipt, receiptOf>>
        /\ \A u \in G : outbox'[o][u] # "NONE"
        /\ \A p \in Order \ {o} : outbox'[p] = outbox[p]
    BY <2>1, <1>1 DEF QueueTelegram, TypeInv, TypeOK
  <2> HIDE DEF G
  <2>3. WebReceipts'
    <3>1. SUFFICES ASSUME NEW u \in Unit, receiptOf[u] # None,
                          invoice'[receiptOf[u]].buyer \in WebBuyer
                   PROVE  /\ receipt[u] \in {"READY", "SENT"} /\ holder'[u] = receiptOf[u]
                          /\ receipt[u] = "SENT" <=> deliveredTo[u] # None
      BY <2>2 DEF WebReceipts, IsWeb, Owner, GoodsInv
    <3>2. receiptOf[u] \in Order \ {o}
      BY <1>4, <3>1 DEF TypeInv, TypeOK
    <3>3. /\ receipt[u] \in {"READY", "SENT"} /\ holder[u] = receiptOf[u]
          /\ receipt[u] = "SENT" <=> deliveredTo[u] # None
      BY <3>1, <3>2 DEF GoodsInv, WebReceipts, IsWeb, Owner
    <3>4. u \notin T
      BY <3>1, <3>3, OrderAssumption DEF Sellable, OwnerInv, StockOwnership
    <3>5. QED
      BY <3>3, <3>4, <1>3
  <2>4. Filled(o)'
    BY <1>1, <1>2, <1>8, <1>10 DEF Filled, Owner, G
  <2>5. Noticed(o)'
    BY <1>2, <2>2 DEF Noticed
  <2>6. \A p \in Order \ {o} : Filled(p)' /\ (Noticed(p) => Noticed(p)')
    BY <2>2, <1>2, OthersStayFilled
  <2>7. QED
    BY <2>3, <2>4, <2>5, <2>6 DEF GoodsInv, NoticeInv, FillKept
<1>11. QED
  BY <1>9, <1>10

(* A download delivers what lies ready, and completes the order with the    *)
(* last of its units.                                                       *)
LEMMA FillDownload ==
  ASSUME TypeInv, OwnerInv, GoodsInv, NEW o \in Order, NEW R \in SUBSET Unit, DownloadWeb(o, R)
  PROVE  FillKept
<1> DEFINE ready == {u \in R : receipt[u] = "READY"}
<1>1. \A u \in ready : u \in Unit /\ receiptOf[u] = o /\ u \in items[o]
  BY DEF DownloadWeb, Downloadable, Receipts
<1>2. \A u \in Unit : /\ receipt'[u] = IF u \in ready THEN "SENT" ELSE receipt[u]
                      /\ deliveredTo'[u] = IF u \in ready THEN o ELSE deliveredTo[u]
  BY DEF DownloadWeb
<1>3. UNCHANGED <<invoice, items, holder, receiptOf, outbox>>
  BY DEF DownloadWeb
<1>4. /\ status[o] \in {"FULFILLING", "COMPLETED"} /\ IsWeb(Owner(o))
      /\ \A p \in Order \ {o} : status'[p] = status[p]
      /\ status'[o] = IF status[o] = "FULFILLING" /\ \A u \in Receipts(o) : receipt'[u] = "SENT"
                      THEN "COMPLETED" ELSE status[o]
  BY DEF DownloadWeb, TypeInv, TypeOK
<1>f. Filled(o) /\ items[o] \in SUBSET Unit
  BY DEF GoodsInv, TypeInv, TypeOK
<1> HIDE DEF ready
<1>5. WebReceipts'
  <2>1. SUFFICES ASSUME NEW u \in Unit, receiptOf[u] # None, IsWeb(Owner(receiptOf[u]))
                 PROVE  /\ receipt'[u] \in {"READY", "SENT"} /\ holder[u] = receiptOf[u]
                        /\ receipt'[u] = "SENT" <=> deliveredTo'[u] # None
    BY <1>1, <1>2, <1>3, OrderAssumption DEF GoodsInv, WebReceipts, Owner
  <2>2. QED
    BY <2>1, <1>2, OrderAssumption DEF GoodsInv, WebReceipts
<1>6. \A u \in Unit : u \in items[o] <=> u \in Receipts(o)
  <2>1. ASSUME NEW u \in Unit, u \in items[o] PROVE u \in Receipts(o)
    BY <1>f, <1>4, <2>1 DEF Filled, Receipts
  <2>2. ASSUME NEW u \in Unit, u \in Receipts(o) PROVE u \in items[o]
    BY <1>4, <2>2, OrderAssumption DEF Receipts, GoodsInv, WebReceipts, OwnerInv, StockOwnership
  <2>3. QED
    BY <2>1, <2>2
<1>7. \A u \in items[o] : receipt'[u] = "SENT" <=> deliveredTo'[u] = o
  <2>1. ASSUME NEW u \in items[o] PROVE receipt[u] = "SENT" <=> deliveredTo[u] = o
    <3>1. u \in Unit /\ receiptOf[u] = o
      BY <1>f, <1>6 DEF Receipts
    <3>2. deliveredTo[u] \in {None, o}
      BY <1>f, <3>1 DEF OwnerInv, StockOwnership
    <3>3. QED
      BY <3>1, <3>2, <1>4, OrderAssumption DEF GoodsInv, WebReceipts
  <2>2. QED
    BY <2>1, <1>2, <1>f
<1>8. /\ status'[o] = "COMPLETED" => \A u \in items[o] : deliveredTo'[u] = o
      /\ status'[o] = "FULFILLING" => \E u \in items[o] : deliveredTo'[u] # o
  <2>1. CASE status[o] = "COMPLETED"
    BY <2>1, <1>2, <1>4, <1>f DEF Filled
  <2>2. CASE status[o] = "FULFILLING"
    BY <2>2, <1>f, <1>4, <1>6, <1>7 DEF Receipts
  <2>3. QED
    BY <1>4, <2>1, <2>2
<1>9. Filled(o)'
  BY <1>f, <1>3, <1>4, <1>8 DEF Filled, Owner
<1>10. Noticed(o)'
  BY <1>3, <1>4 DEF Noticed, Owner
<1>11. \A p \in Order \ {o} : Filled(p)' /\ (Noticed(p) => Noticed(p)')
  <2>1. ASSUME NEW p \in Order \ {o}, NEW u \in Unit
        PROVE  deliveredTo'[u] = p <=> deliveredTo[u] = p
    <3>1. u \in ready => deliveredTo[u] \in {None, o}
      BY <1>1 DEF OwnerInv, StockOwnership
    <3>2. QED
      BY <3>1, <1>2, OrderAssumption
  <2>2. \A p \in Order : items[p] \in SUBSET Unit
    BY DEF TypeInv, TypeOK
  <2>3. QED
    BY <2>1, <2>2, <1>3, <1>4, OthersStayFilled
<1>12. QED
  BY <1>5, <1>9, <1>10, <1>11 DEF GoodsInv, NoticeInv, FillKept

(* Transactions of orders keep both.                                        *)
LEMMA FillOrderStep ==
  ASSUME TypeInv, OwnerInv, GoodsInv, NEW o \in Order, OrderStep(o)
  PROVE  FillKept
<1>t. /\ TypeOK /\ StockOwnership /\ Filled(o)
      /\ items \in [Order -> SUBSET Unit] /\ status \in [Order -> OrderStatus]
      /\ invoice \in [Order -> Invoice \cup {None}]
  BY DEF TypeInv, TypeOK, OwnerInv, GoodsInv
<1>e. status[o] \in Empty => items[o] = {}
  BY DEF OwnerInv
<1>1. CASE Checkout(o)
  <2>1. PICK b \in Buyer, m \in Method, quantity \in 1..MaxQuantity :
          \/ CreateInvoice(o, b, m, quantity)
          \/ BuyFromWallet(o, b, m, quantity)
          \/ PreorderFromWallet(o, b, m, quantity)
    BY <1>1 DEF Checkout
  <2>2. status[o] = "NONE"
    BY <2>1 DEF CreateInvoice, BuyFromWallet, PreorderFromWallet, CanCheckout
  <2>3. items[o] = {}
    BY <1>e, <2>2 DEF Empty
  <2>4. PICK e, code : invoice' = [invoice EXCEPT ![o] = NewInvoice(b, e, quantity, code)]
    BY <2>1 DEF CreateInvoice, BuyFromWallet, PreorderFromWallet
  <2>5. /\ invoice'[o].buyer = b /\ invoice'[o].quantity = quantity
        /\ \A p \in Order \ {o} : invoice'[p] = invoice[p]
    BY <1>t, <2>4 DEF NewInvoice
  <2>6. CASE CreateInvoice(o, b, m, quantity)
    <3>1. /\ UNCHANGED <<items, holder, deliveredTo, deliveryVars>>
          /\ status' = [status EXCEPT ![o] = "PENDING_PAYMENT"]
      BY <2>6 DEF CreateInvoice, stockVars
    <3>2. QED
      BY <1>t, <2>2, <2>3, <2>5, <3>1, FillNothing
  <2>7. CASE BuyFromWallet(o, b, m, quantity)
    <3>1. PICK T \in SUBSET Sellable :
            Oldest(T, Sellable, quantity) /\ ClaimUnits(o, T) /\ QueueDelivery(b, o, T)
      BY <2>7 DEF BuyFromWallet
    <3>2. T = items[o] \cup T
      BY <2>3
    <3>3. Cardinality(items[o] \cup T) = quantity /\ QueueDelivery(b, o, items[o] \cup T)
      BY <3>1, <3>2 DEF Oldest
    <3>4. status' = [status EXCEPT ![o] = "FULFILLING"] /\ UNCHANGED deliveredTo
      BY <2>7 DEF BuyFromWallet
    <3>5. QED
      BY <1>t, <2>2, <2>5, <3>1, <3>3, <3>4, FillClaim
  <2>8. CASE PreorderFromWallet(o, b, m, quantity)
    <3>1. /\ UNCHANGED <<items, holder, deliveredTo, deliveryVars>>
          /\ status' = [status EXCEPT ![o] = "PAID_WAITING_STOCK"]
      BY <2>8 DEF PreorderFromWallet, stockVars
    <3>2. QED
      BY <1>t, <2>2, <2>3, <2>5, <3>1, FillNothing
  <2>9. QED
    BY <2>1, <2>6, <2>7, <2>8
<1>2. CASE TimePasses(o) \/ SubmitTransfer(o) \/ VerifyTransfer(o) \/ RejectTransfer(o)
  <2>1. UNCHANGED <<status, invoice, items, holder, deliveredTo, deliveryVars>>
    BY <1>2 DEF TimePasses, SubmitTransfer, VerifyTransfer, RejectTransfer, AttemptMoves, stockVars
  <2>2. Filled(o)' /\ (Noticed(o) => Noticed(o)')
    BY <1>t, <2>1 DEF Filled, Noticed, Owner, deliveryVars
  <2>3. QED
    BY <2>1, <2>2, FillFrame
<1>3. CASE ConfirmPayment(o)
  <2>1. Payable(o) /\ UNCHANGED invoice
    BY <1>3 DEF ConfirmPayment, ConfirmFromStock, ConfirmOutOfStock, ConfirmPreorder
  <2>2. status[o] = "PENDING_PAYMENT"
    BY <2>1 DEF Payable
  <2>3. items[o] = {} /\ invoice[o].quantity \in 1..MaxQuantity
    BY <1>e, <1>t, <2>2 DEF Empty, Filled
  <2>4. CASE ConfirmFromStock(o)
    <3>1. PICK T \in SUBSET Sellable : /\ Oldest(T, Sellable, invoice[o].quantity)
                                       /\ ClaimUnits(o, T)
                                       /\ QueueDelivery(Owner(o), o, T)
      BY <2>4 DEF ConfirmFromStock
    <3>2. T = items[o] \cup T
      BY <2>3
    <3>3. /\ Cardinality(items[o] \cup T) = invoice[o].quantity
          /\ QueueDelivery(invoice[o].buyer, o, items[o] \cup T)
      BY <3>1, <3>2 DEF Oldest, Owner
    <3>4. status' = [status EXCEPT ![o] = "FULFILLING"] /\ UNCHANGED deliveredTo
      BY <2>4 DEF ConfirmFromStock
    <3>5. QED
      BY <1>t, <2>1, <2>2, <2>3, <3>1, <3>3, <3>4, FillClaim
  <2>5. CASE ConfirmOutOfStock(o) \/ ConfirmPreorder(o)
    <3>1. /\ UNCHANGED <<items, holder, deliveredTo, deliveryVars>>
          /\ \/ status' = [status EXCEPT ![o] = "REFUNDED"]
             \/ status' = [status EXCEPT ![o] = "PAID_WAITING_STOCK"]
      BY <2>5 DEF ConfirmOutOfStock, ConfirmPreorder, stockVars
    <3>2. QED
      BY <1>t, <2>1, <2>2, <2>3, <3>1, FillNothing
  <2>6. QED
    BY <1>3, <2>4, <2>5 DEF ConfirmPayment
<1>4. CASE ExpireOrder(o) \/ CancelOrder(o)
  <2>1. PICK to \in {"EXPIRED", "CANCELLED"} : CloseUnpaid(o, to)
    BY <1>4 DEF ExpireOrder, CancelOrder
  <2>2. status[o] = "PENDING_PAYMENT"
    BY <1>4 DEF ExpireOrder, CancelOrder
  <2>3. items[o] = {} /\ invoice[o].quantity \in 1..MaxQuantity
    BY <1>e, <1>t, <2>2 DEF Empty, Filled
  <2>4. /\ UNCHANGED <<invoice, items, holder, deliveredTo, deliveryVars>>
        /\ status' = [status EXCEPT ![o] = to]
    BY <1>t, <2>1, <2>3, ReleaseOfNothing DEF CloseUnpaid
  <2>5. QED
    BY <1>t, <2>2, <2>3, <2>4, FillNothing
<1>5. CASE CreditExpiredOrder(o)
  <2>1. UNCHANGED <<status, invoice, items, holder, deliveredTo, deliveryVars>>
    BY <1>5 DEF CreditExpiredOrder, stockVars
  <2>2. Filled(o)' /\ (Noticed(o) => Noticed(o)')
    BY <1>t, <2>1 DEF Filled, Noticed, Owner, deliveryVars
  <2>3. QED
    BY <2>1, <2>2, FillFrame
<1>6. CASE AllocatePaidPreorder(o)
  <2>1. status[o] = "PAID_WAITING_STOCK"
    BY <1>6 DEF AllocatePaidPreorder, Waiting
  <2>2. PICK T \in SUBSET Sellable : /\ Oldest(T, Sellable, Missing(o))
                                     /\ ClaimUnits(o, T)
                                     /\ QueueDelivery(invoice[o].buyer, o, items[o] \cup T)
    BY <1>6 DEF AllocatePaidPreorder, AllUnits, Owner
  <2>3. invoice[o].quantity \in 1..MaxQuantity
    BY <1>t, <2>1 DEF Filled
  <2>4. Cardinality(items[o] \cup T) = invoice[o].quantity
    BY <2>2, <2>3, ClaimCount, AmountAssumption DEF Oldest, Missing
  <2>5. /\ status' = [status EXCEPT ![o] = "FULFILLING"]
        /\ UNCHANGED <<invoice, deliveredTo>>
    BY <1>6 DEF AllocatePaidPreorder
  <2>6. QED
    BY <1>t, <2>1, <2>2, <2>3, <2>4, <2>5, FillClaim
<1>7. ASSUME NEW u \in Unit, AssignStock(o, u)
      PROVE  FillKept
  <2>1. /\ status[o] = "PAID_WAITING_STOCK" /\ ClaimUnits(o, {u})
        /\ {u} \in SUBSET Sellable /\ UNCHANGED <<invoice, deliveredTo>>
    BY <1>7 DEF AssignStock, Waiting
  <2>2. invoice[o].quantity \in 1..MaxQuantity
    BY <1>t, <2>1 DEF Filled
  <2>3. /\ Cardinality(items[o]) \in Nat
        /\ Cardinality(items[o] \cup {u}) = Cardinality(items[o]) + 1
    BY <2>1, ClaimCount, FS_Singleton
  <2>4. CASE Missing(o) > 1 /\ UNCHANGED <<status, deliveryVars>>
    <3>1. /\ items'[o] = items[o] \cup {u}
          /\ \A p \in Order \ {o} : items'[p] = items[p]
      BY <1>t, <2>1 DEF ClaimUnits
    <3>2. \A v \in Unit : holder'[v] = IF v = u THEN o ELSE holder[v]
      BY <2>1 DEF ClaimUnits
    <3>n. Noticed(o) => Noticed(o)'
      BY <2>1, <2>4, <3>1 DEF Noticed, deliveryVars
    <3>3. Filled(o)'
      <4>1. Cardinality(items'[o]) < invoice[o].quantity
        BY <2>2, <2>3, <2>4, <3>1, AmountAssumption DEF Missing
      <4>2. QED
        BY <1>t, <2>1, <2>4, <4>1 DEF Filled, deliveryVars
    <3>4. WebReceipts'
      <4>1. \A v \in Unit : receiptOf[v] # None /\ IsWeb(Owner(receiptOf[v])) => v # u
        BY <1>t, <2>1, OrderAssumption DEF StockOwnership, Sellable, GoodsInv, WebReceipts
      <4>2. QED
        BY <2>1, <2>4, <3>2, <4>1 DEF GoodsInv, WebReceipts, Owner, deliveryVars
    <3>5. \A p \in Order \ {o} : Filled(p)' /\ (Noticed(p) => Noticed(p)')
      BY <1>t, <2>1, <2>4, <3>1, OthersStayFilled DEF deliveryVars
    <3>6. QED
      BY <3>n, <3>3, <3>4, <3>5 DEF GoodsInv, NoticeInv, FillKept
  <2>5. CASE /\ Missing(o) = 1
             /\ status' = [status EXCEPT ![o] = "FULFILLING"]
             /\ QueueDelivery(Owner(o), o, AllUnits(o, {u}))
    <3>1. Cardinality(items[o] \cup {u}) = invoice[o].quantity
      BY <2>2, <2>3, <2>5, AmountAssumption DEF Missing
    <3>2. QueueDelivery(invoice[o].buyer, o, items[o] \cup {u})
      BY <2>5 DEF AllUnits, Owner
    <3>3. QED
      BY <1>t, <2>1, <2>2, <2>5, <3>1, <3>2, FillClaim
  <2>6. QED
    BY <1>7, <2>4, <2>5 DEF AssignStock
<1>8. CASE CancelPaidPreorder(o)
  <2>1. /\ status[o] = "PAID_WAITING_STOCK" /\ items[o] = {}
        /\ status' = [status EXCEPT ![o] = "REFUNDED"]
        /\ UNCHANGED <<invoice, items, holder, deliveredTo, deliveryVars>>
    BY <1>8 DEF CancelPaidPreorder, Waiting, stockVars
  <2>2. invoice[o].quantity \in 1..MaxQuantity
    BY <1>t, <2>1 DEF Filled
  <2>3. QED
    BY <1>t, <2>1, <2>2, FillNothing
<1>9. QED
  BY <1>1, <1>2, <1>3, <1>4, <1>5, <1>6, <1>7, <1>8, FillDownload DEF OrderStep

(* Inventory operations move neither goods nor receipts.                    *)
LEMMA InventoryKeepsGoods ==
  ASSUME InventoryStep
  PROVE  UNCHANGED <<orderVars, holder, deliveredTo, deliveryVars>>
BY DEF InventoryStep, AddStock, CheckHealth, ArchiveStock, RestoreStock, DeleteStock,
   SetBannedPolicy, StockMoves

(* Nothing moves in them while the goods and the orders stand still.        *)
LEMMA FillStandsStill ==
  ASSUME GoodsInv, UNCHANGED <<orderVars, holder, deliveredTo, deliveryVars>>
  PROVE  FillKept
BY DEF FillKept, GoodsInv, Filled, WebReceipts, NoticeInv, Noticed, Owner, orderVars, deliveryVars

(* Both are inductive relative to the types and the ownership, and GoodsInv *)
(* without NoticeInv.                                                       *)
LEMMA FillStep == TypeInv /\ OwnerInv /\ GoodsInv /\ [Next]_vars => FillKept
<1> SUFFICES ASSUME TypeInv, OwnerInv, GoodsInv, [Next]_vars PROVE FillKept
  OBVIOUS
<1>1. CASE UNCHANGED vars
  BY <1>1, FillStandsStill DEF vars, stockVars
<1>2. QED
  BY <1>1, FillOrderStep, InventoryKeepsGoods, FillStandsStill DEF Next

(* What they say of one order is what FulfilmentComplete asks.              *)
LEMMA FilledIsComplete ==
  ASSUME TypeInv, OwnerInv, GoodsInv, NoticeInv
  PROVE  FulfilmentComplete
<1>s. \A o \in Order : status[o] \in OrderStatus
  BY DEF TypeInv, TypeOK
<1>1. ASSUME NEW o \in Order
      PROVE  Filled(o) /\ Noticed(o) /\ (status[o] \in Empty => items[o] = {})
  BY DEF GoodsInv, NoticeInv, OwnerInv
<1>2. SUFFICES ASSUME NEW o \in Order
      PROVE  CASE status[o] \in {"FULFILLING", "COMPLETED"} ->
                    /\ Cardinality(items[o]) = invoice[o].quantity
                    /\ \A u \in items[o] : Queued(o, u)
               [] status[o] = "PAID_WAITING_STOCK" ->
                    /\ Cardinality(items[o]) < invoice[o].quantity
                    /\ \A u \in Unit : receiptOf[u] # o /\ outbox[o][u] = "NONE"
               [] OTHER ->
                    /\ items[o] = {}
                    /\ \A u \in Unit : receiptOf[u] # o /\ outbox[o][u] = "NONE"
  BY DEF FulfilmentComplete
<1>3. CASE status[o] \in {"FULFILLING", "COMPLETED"}
  <2>1. ASSUME NEW u \in items[o] PROVE Queued(o, u)
    <3>1. u \in Unit
      BY DEF TypeInv, TypeOK
    <3>2. CASE IsWeb(Owner(o))
      BY <1>1, <1>3, <3>1, <3>2, OrderAssumption DEF Filled, Queued, GoodsInv, WebReceipts
    <3>3. CASE ~IsWeb(Owner(o))
      BY <1>1, <1>3, <3>3 DEF Noticed, Queued
    <3>4. QED
      BY <3>2, <3>3
  <2>2. QED
    BY <1>1, <1>3, <2>1 DEF Filled
<1>4. CASE status[o] = "PAID_WAITING_STOCK"
  BY <1>1, <1>4 DEF Filled, Noticed
<1>5. CASE status[o] \notin {"FULFILLING", "COMPLETED", "PAID_WAITING_STOCK"}
  <2>1. status[o] \in Empty
    BY <1>5, <1>s DEF OrderStatus, Empty
  <2>2. QED
    BY <1>1, <1>5, <2>1 DEF Filled, Noticed
<1>6. QED
  BY <1>3, <1>4, <1>5

(* The invariants of the core together.                                     *)
THEOREM CoreInvariant == Spec => [](TypeInv /\ OwnerInv /\ GoodsInv /\ NoticeInv)
<1>1. TypeInv /\ OwnerInv /\ GoodsInv /\ NoticeInv /\ [Next]_vars => GoodsInv' /\ NoticeInv'
  BY FillStep DEF FillKept
<1>2. QED
  BY TypeInit, TypeStep, OwnerInit, OwnerStep, FillInit, <1>1, PTL DEF Spec

(* An order in fulfilment has exactly its units, all queued for its buyer;  *)
(* no other order has anything on its way (ConfirmFromStock, BuyFromWallet, *)
(* AllocatePaidPreorder, AssignStock and every way an order closes).        *)
THEOREM FulfilmentIsComplete == Spec => []FulfilmentComplete
BY CoreInvariant, FilledIsComplete, PTL

------------------------------------------------------------------------------
(* The limits.                                                              *)

(* The steps of an order that is not just being placed.                     *)
LaterStep(o) ==
  \/ TimePasses(o)
  \/ SubmitTransfer(o)
  \/ VerifyTransfer(o)
  \/ RejectTransfer(o)
  \/ ConfirmPayment(o)
  \/ ExpireOrder(o)
  \/ CancelOrder(o)
  \/ CreditExpiredOrder(o)
  \/ AllocatePaidPreorder(o)
  \/ \E u \in Unit : AssignStock(o, u)
  \/ CancelPaidPreorder(o)
  \/ \E R \in SUBSET Unit : DownloadWeb(o, R)

(* Later steps write no invoice, and no column of another order.            *)
LEMMA LaterStepFrame ==
  ASSUME TypeInv, NEW o \in Order, LaterStep(o)
  PROVE  /\ UNCHANGED invoice
         /\ \A p \in Order \ {o} : /\ status'[p] = status[p]
                                   /\ payment'[p] = payment[p]
                                   /\ due'[p] = due[p]
                                   /\ attempt'[p] = attempt[p]
                                   /\ items'[p] = items[p]
<1>t. /\ status \in [Order -> OrderStatus] /\ payment \in [Order -> PaymentStatus]
      /\ due \in [Order -> {"OPEN", "LAPSED", "CLOSED"}] /\ attempt \in [Order -> AttemptStatus]
      /\ items \in [Order -> SUBSET Unit]
  BY DEF TypeInv, TypeOK
<1>1. CASE TimePasses(o) \/ SubmitTransfer(o) \/ VerifyTransfer(o) \/ RejectTransfer(o)
  BY <1>t, <1>1 DEF TimePasses, SubmitTransfer, VerifyTransfer, RejectTransfer, AttemptMoves
<1>2. CASE ConfirmPayment(o)
  BY <1>t, <1>2 DEF ConfirmPayment, ConfirmFromStock, ConfirmOutOfStock, ConfirmPreorder,
     ConfirmAttempt, ClaimUnits
<1>3. CASE ExpireOrder(o) \/ CancelOrder(o)
  BY <1>t, <1>3 DEF ExpireOrder, CancelOrder, CloseUnpaid, ReleaseUnits
<1>4. CASE CreditExpiredOrder(o)
  BY <1>t, <1>4 DEF CreditExpiredOrder
<1>5. CASE AllocatePaidPreorder(o)
  BY <1>t, <1>5 DEF AllocatePaidPreorder, ClaimUnits
<1>6. ASSUME NEW u \in Unit, AssignStock(o, u)
      PROVE  /\ UNCHANGED <<invoice, payment, due, attempt>>
             /\ \A p \in Order \ {o} : status'[p] = status[p] /\ items'[p] = items[p]
  BY <1>t, <1>6 DEF AssignStock, ClaimUnits
<1>7. CASE CancelPaidPreorder(o)
  BY <1>t, <1>7 DEF CancelPaidPreorder
<1>8. ASSUME NEW R \in SUBSET Unit, DownloadWeb(o, R)
      PROVE  /\ UNCHANGED <<invoice, payment, due, attempt, items>>
             /\ \A p \in Order \ {o} : status'[p] = status[p]
  BY <1>t, <1>8 DEF DownloadWeb
<1>9. QED
  BY <1>1, <1>2, <1>3, <1>4, <1>5, <1>6, <1>7, <1>8 DEF LaterStep

(* An invoice that no longer counts never counts again: an order leaves     *)
(* PENDING_PAYMENT for good, and a transfer is only handed in while OPEN.   *)
LEMMA ActiveInvoicesShrink ==
  ASSUME TypeInv, NEW o \in Order, LaterStep(o), NEW b \in Buyer
  PROVE  ActiveInvoices(b)' \subseteq ActiveInvoices(b)
<1>t. /\ status \in [Order -> OrderStatus] /\ due \in [Order -> {"OPEN", "LAPSED", "CLOSED"}]
      /\ attempt \in [Order -> AttemptStatus]
  BY DEF TypeInv, TypeOK
<1>f. /\ UNCHANGED invoice
      /\ \A p \in Order \ {o} : /\ status'[p] = status[p]
                                /\ payment'[p] = payment[p]
                                /\ due'[p] = due[p]
                                /\ attempt'[p] = attempt[p]
  BY LaterStepFrame
<1>1. CASE status'[o] # "PENDING_PAYMENT"
  BY <1>f, <1>1 DEF ActiveInvoices, Placed, Owner
<1>2. CASE \/ TimePasses(o)
           \/ SubmitTransfer(o)
           \/ VerifyTransfer(o)
           \/ RejectTransfer(o)
  <2>1. UNCHANGED <<status, payment>>
    BY <1>2 DEF TimePasses, SubmitTransfer, VerifyTransfer, RejectTransfer, AttemptMoves
  <2>2. ASSUME due'[o] = "OPEN" \/ (due'[o] = "LAPSED" /\ attempt'[o] \in {"VERIFYING", "VERIFIED"})
        PROVE  due[o] = "OPEN" \/ (due[o] = "LAPSED" /\ attempt[o] \in {"VERIFYING", "VERIFIED"})
    <3>1. CASE TimePasses(o)
      BY <1>t, <2>2, <3>1 DEF TimePasses
    <3>2. CASE SubmitTransfer(o)
      BY <3>2 DEF SubmitTransfer
    <3>3. CASE VerifyTransfer(o) \/ RejectTransfer(o)
      BY <1>t, <2>2, <3>3 DEF VerifyTransfer, RejectTransfer, AttemptMoves
    <3>4. QED
      BY <1>2, <3>1, <3>2, <3>3
  <2>3. QED
    BY <1>f, <2>1, <2>2 DEF ActiveInvoices, Placed, Owner
<1>3. CASE ConfirmPayment(o)
  BY <1>t, <1>1, <1>3 DEF ConfirmPayment, ConfirmFromStock, ConfirmOutOfStock, ConfirmPreorder
<1>4. CASE ExpireOrder(o) \/ CancelOrder(o)
  BY <1>t, <1>1, <1>4 DEF ExpireOrder, CancelOrder, CloseUnpaid
<1>5. CASE CreditExpiredOrder(o)
  BY <1>t, <1>1, <1>5 DEF CreditExpiredOrder
<1>6. CASE AllocatePaidPreorder(o)
  BY <1>t, <1>1, <1>6 DEF AllocatePaidPreorder
<1>7. ASSUME NEW u \in Unit, AssignStock(o, u)
      PROVE  status'[o] # "PENDING_PAYMENT"
  BY <1>t, <1>7 DEF AssignStock, Waiting
<1>8. CASE CancelPaidPreorder(o)
  BY <1>t, <1>1, <1>8 DEF CancelPaidPreorder
<1>9. ASSUME NEW R \in SUBSET Unit, DownloadWeb(o, R)
      PROVE  status'[o] # "PENDING_PAYMENT"
  BY <1>t, <1>9 DEF DownloadWeb
<1>10. QED
  BY <1>1, <1>2, <1>3, <1>4, <1>5, <1>6, <1>7, <1>8, <1>9 DEF LaterStep

(* The open invoices of a buyer are finitely many.                          *)
LEMMA ActiveInvoicesFinite ==
  ASSUME NEW b
  PROVE  IsFiniteSet(ActiveInvoices(b)) /\ Cardinality(ActiveInvoices(b)) \in Nat
<1>1. ActiveInvoices(b) \subseteq Order
  BY DEF ActiveInvoices, Placed
<1>2. QED
  BY <1>1, OrderAssumption, FS_Subset, FS_CardinalityType

(* A checkout adds at most its own order, and only below the limit.         *)
LEMMA InvoicesCheckout ==
  ASSUME TypeInv, InvoicesBounded, NEW o \in Order, Checkout(o)
  PROVE  InvoicesBounded'
<1>1. PICK b \in Buyer, m \in Method, quantity \in 1..MaxQuantity :
        \/ CreateInvoice(o, b, m, quantity)
        \/ BuyFromWallet(o, b, m, quantity)
        \/ PreorderFromWallet(o, b, m, quantity)
  BY DEF Checkout
<1>2. status[o] = "NONE" /\ Cardinality(ActiveInvoices(b)) < InvoiceLimit(b)
  BY <1>1 DEF CreateInvoice, BuyFromWallet, PreorderFromWallet, CanCheckout
<1>3. PICK e, code : invoice' = [invoice EXCEPT ![o] = NewInvoice(b, e, quantity, code)]
  BY <1>1 DEF CreateInvoice, BuyFromWallet, PreorderFromWallet
<1>4. /\ invoice'[o].buyer = b
      /\ \A p \in Order \ {o} : /\ invoice'[p] = invoice[p] /\ status'[p] = status[p]
                                /\ payment'[p] = payment[p] /\ attempt'[p] = attempt[p]
      /\ UNCHANGED due
  BY <1>1, <1>3 DEF NewInvoice, CreateInvoice, BuyFromWallet, PreorderFromWallet, TypeInv, TypeOK
<1>5. /\ ActiveInvoices(b)' \subseteq ActiveInvoices(b) \cup {o}
      /\ \A c \in Buyer \ {b} : ActiveInvoices(c)' \subseteq ActiveInvoices(c)
  BY <1>4 DEF ActiveInvoices, Placed, Owner
<1>6. ASSUME NEW c \in Buyer
      PROVE  Cardinality(ActiveInvoices(c)') <= InvoiceLimit(c)
  <2>1. /\ IsFiniteSet(ActiveInvoices(c)) /\ Cardinality(ActiveInvoices(c)) \in Nat
        /\ InvoiceLimit(c) \in Nat
    BY ActiveInvoicesFinite, LimitAssumption DEF InvoiceLimit
  <2>2. CASE c = b
    <3>1. o \notin ActiveInvoices(b)
      BY <1>2 DEF ActiveInvoices
    <3>2. /\ IsFiniteSet(ActiveInvoices(b) \cup {o})
          /\ Cardinality(ActiveInvoices(b) \cup {o}) = Cardinality(ActiveInvoices(b)) + 1
      BY <2>1, <2>2, <3>1, FS_AddElement
    <3>3. /\ Cardinality(ActiveInvoices(b)') <= Cardinality(ActiveInvoices(b) \cup {o})
          /\ IsFiniteSet(ActiveInvoices(b)')
      BY <1>5, <3>2, FS_Subset
    <3>4. Cardinality(ActiveInvoices(b)') \in Nat
      BY <3>3, FS_CardinalityType
    <3>5. QED
      BY <1>2, <2>1, <2>2, <3>2, <3>3, <3>4
  <2>3. CASE c # b
    <3>1. /\ Cardinality(ActiveInvoices(c)') <= Cardinality(ActiveInvoices(c))
          /\ IsFiniteSet(ActiveInvoices(c)')
      BY <1>5, <2>1, <2>3, FS_Subset
    <3>2. Cardinality(ActiveInvoices(c)') \in Nat
      BY <3>1, FS_CardinalityType
    <3>3. QED
      BY <2>1, <3>1, <3>2 DEF InvoicesBounded
  <2>4. QED
    BY <2>2, <2>3
<1>7. QED
  BY <1>6 DEF InvoicesBounded, InvoiceLimit

(* InvoicesBounded is inductive relative to the types.                      *)
LEMMA InvoicesStep == TypeInv /\ InvoicesBounded /\ [Next]_vars => InvoicesBounded'
<1> SUFFICES ASSUME TypeInv, InvoicesBounded, [Next]_vars PROVE InvoicesBounded'
  OBVIOUS
<1>1. ASSUME \A b \in Buyer : ActiveInvoices(b)' \subseteq ActiveInvoices(b)
      PROVE  InvoicesBounded'
  <2>1. SUFFICES ASSUME NEW b \in Buyer
                 PROVE  Cardinality(ActiveInvoices(b)') <= InvoiceLimit(b)
    BY DEF InvoicesBounded, InvoiceLimit
  <2>2. /\ IsFiniteSet(ActiveInvoices(b)) /\ Cardinality(ActiveInvoices(b)) \in Nat
        /\ InvoiceLimit(b) \in Nat
    BY ActiveInvoicesFinite, LimitAssumption DEF InvoiceLimit
  <2>3. /\ Cardinality(ActiveInvoices(b)') <= Cardinality(ActiveInvoices(b))
        /\ IsFiniteSet(ActiveInvoices(b)')
    BY <1>1, <2>2, FS_Subset
  <2>4. Cardinality(ActiveInvoices(b)') \in Nat
    BY <2>3, FS_CardinalityType
  <2>5. QED
    BY <2>2, <2>3, <2>4 DEF InvoicesBounded
<1>2. CASE \E o \in Order : LaterStep(o)
  BY <1>1, <1>2, ActiveInvoicesShrink
<1>3. CASE \E o \in Order : Checkout(o)
  BY <1>3, InvoicesCheckout
<1>4. CASE InventoryStep \/ UNCHANGED vars
  <2>1. UNCHANGED orderVars
    BY <1>4, InventoryKeepsGoods DEF vars
  <2>2. QED
    BY <1>1, <2>1 DEF orderVars, ActiveInvoices, Placed, Owner
<1>5. QED
  BY <1>2, <1>3, <1>4 DEF Next, OrderStep, LaterStep

(* No buyer ever has more open invoices than the channel allows, though     *)
(* checkouts of one buyer interleave with expiries, late verifications and  *)
(* confirmations (CanCheckout, ActiveInvoices).                             *)
THEOREM OpenInvoicesAreBounded == Spec => []InvoicesBounded
<1>1. Init => InvoicesBounded
  <2> SUFFICES ASSUME Init, NEW b \in Buyer
               PROVE  Cardinality(ActiveInvoices(b)) <= InvoiceLimit(b)
    BY DEF InvoicesBounded
  <2>1. ActiveInvoices(b) = {}
    BY DEF Init, ActiveInvoices, Placed
  <2>2. QED
    BY <2>1, FS_EmptySet, LimitAssumption DEF InvoiceLimit
<1>2. QED
  BY <1>1, InvoicesStep, TypeInvariant, PTL DEF Spec

(* The units open preorders still have to get, one slot for each.           *)
OpenPreorders == {o \in Placed : /\ invoice[o].preorder
                                 /\ status[o] \in {"PENDING_PAYMENT", "PAID_WAITING_STOCK"}}
SlotsOf(o) == {o} \X (1..Missing(o))
Slots == UNION {SlotsOf(o) : o \in OpenPreorders}

(* The queue is counted by its slots.                                       *)
LEMMA ActivePreordersAreSlots == ActivePreorders = Cardinality(Slots)
BY DEF ActivePreorders, Slots, SlotsOf, OpenPreorders

(* What a placed order still misses is an integer.                          *)
LEMMA MissingType ==
  ASSUME TypeInv, NEW o \in Order, invoice[o] \in Invoice
  PROVE  Missing(o) \in Int
<1>1. Cardinality(items[o]) \in Nat
  BY UnitsAreFinite DEF TypeInv, TypeOK
<1>2. QED
  BY <1>1 DEF Missing, Invoice

(* There are finitely many slots.                                           *)
LEMMA SlotsAreFinite ==
  ASSUME TypeInv
  PROVE  IsFiniteSet(Slots) /\ Cardinality(Slots) \in Nat
<1> DEFINE parts == {SlotsOf(o) : o \in OpenPreorders}
<1>1. IsFiniteSet(OpenPreorders)
  BY OrderAssumption, FS_Subset DEF OpenPreorders, Placed
<1>2. IsFiniteSet(parts)
  <2> DEFINE f == [o \in OpenPreorders |-> SlotsOf(o)]
  <2>1. f \in [OpenPreorders -> parts] /\ \A S \in parts : \E o \in OpenPreorders : f[o] = S
    OBVIOUS
  <2> HIDE DEF parts, f
  <2>2. f \in Surjection(OpenPreorders, parts)
    BY <2>1 DEF Surjection
  <2>3. QED
    BY <1>1, <2>2, FS_Surjection
<1>3. ASSUME NEW S \in parts PROVE IsFiniteSet(S)
  <2>1. PICK o \in Order : S = SlotsOf(o) /\ status[o] # "NONE"
    BY DEF OpenPreorders, Placed
  <2>2. Missing(o) \in Int
    BY <2>1, MissingType DEF TypeInv
  <2>3. IsFiniteSet({o}) /\ IsFiniteSet(1..Missing(o))
    <3>1. IsFiniteSet({o})
      BY FS_Singleton
    <3>2. IsFiniteSet(1..Missing(o))
      BY <2>2, FS_Interval
    <3>3. QED
      BY <3>1, <3>2
  <2>4. QED
    BY <2>1, <2>3, FS_Product DEF SlotsOf
<1>4. QED
  BY <1>2, <1>3, FS_UNION, FS_CardinalityType DEF Slots

(* An order in the queue was there before, and misses no more than before,  *)
(* after any step but its checkout.                                         *)
LEMMA QueueEntryShrinks ==
  ASSUME TypeInv, NEW o \in Order, LaterStep(o), invoice[o].preorder,
         status'[o] \in {"PENDING_PAYMENT", "PAID_WAITING_STOCK"}
  PROVE  /\ status[o] \in {"PENDING_PAYMENT", "PAID_WAITING_STOCK"}
         /\ items[o] \subseteq items'[o]
<1>t. status \in [Order -> OrderStatus] /\ items \in [Order -> SUBSET Unit]
  BY DEF TypeInv, TypeOK
<1>1. CASE TimePasses(o) \/ SubmitTransfer(o) \/ VerifyTransfer(o) \/ RejectTransfer(o)
  BY <1>1 DEF TimePasses, SubmitTransfer, VerifyTransfer, RejectTransfer, AttemptMoves
<1>2. CASE ConfirmPayment(o)
  BY <1>t, <1>2 DEF ConfirmPayment, ConfirmFromStock, ConfirmOutOfStock, ConfirmPreorder, Payable
<1>3. CASE ExpireOrder(o) \/ CancelOrder(o)
  BY <1>t, <1>3 DEF ExpireOrder, CancelOrder, CloseUnpaid
<1>4. CASE CreditExpiredOrder(o)
  BY <1>4 DEF CreditExpiredOrder
<1>5. CASE AllocatePaidPreorder(o)
  BY <1>t, <1>5 DEF AllocatePaidPreorder
<1>6. ASSUME NEW u \in Unit, AssignStock(o, u)
      PROVE  status[o] = "PAID_WAITING_STOCK" /\ items[o] \subseteq items'[o]
  BY <1>t, <1>6 DEF AssignStock, Waiting, ClaimUnits
<1>7. CASE CancelPaidPreorder(o)
  BY <1>t, <1>7 DEF CancelPaidPreorder
<1>8. ASSUME NEW R \in SUBSET Unit, DownloadWeb(o, R)
      PROVE  status'[o] \in {"FULFILLING", "COMPLETED"}
  BY <1>t, <1>8 DEF DownloadWeb
<1>9. QED
  BY <1>1, <1>2, <1>3, <1>4, <1>5, <1>6, <1>7, <1>8 DEF LaterStep

(* The slots can be counted, and their number is the length of the queue.   *)
SlotsCount ==
  /\ IsFiniteSet(Slots) /\ Cardinality(Slots) \in Nat
  /\ ActivePreorders = Cardinality(Slots)

(* They can before every step, and after it.                                *)
LEMMA SlotsStayFinite == TypeInv' => SlotsCount'
<1>1. TypeInv => SlotsCount
  BY SlotsAreFinite, ActivePreordersAreSlots DEF SlotsCount
<1>2. QED
  BY <1>1, PTL

(* So the queue has no slot it did not have.                                *)
LEMMA SlotsShrink ==
  ASSUME TypeInv, TypeInv', NEW o \in Order, LaterStep(o)
  PROVE  Slots' \subseteq Slots
<1>f. /\ UNCHANGED invoice
      /\ \A p \in Order \ {o} : status'[p] = status[p] /\ items'[p] = items[p]
  BY LaterStepFrame
<1>1. ASSUME NEW p \in Order, p \in OpenPreorders'
      PROVE  p \in OpenPreorders /\ SlotsOf(p)' \subseteq SlotsOf(p)
  <2>1. CASE p # o
    BY <1>f, <1>1, <2>1 DEF OpenPreorders, Placed, SlotsOf, Missing
  <2>2. CASE p = o
    <3>1. /\ status'[o] \in {"PENDING_PAYMENT", "PAID_WAITING_STOCK"}
          /\ invoice[o].preorder
      BY <1>f, <1>1, <2>2 DEF OpenPreorders
    <3>2. /\ status[o] \in {"PENDING_PAYMENT", "PAID_WAITING_STOCK"}
          /\ items[o] \subseteq items'[o]
      BY <3>1, QueueEntryShrinks
    <3>3. /\ items'[o] \in SUBSET Unit /\ items[o] \in SUBSET Unit
          /\ invoice[o] \in Invoice
      BY <3>2 DEF TypeInv, TypeOK
    <3>4. /\ IsFiniteSet(items'[o]) /\ Cardinality(items'[o]) \in Nat
          /\ IsFiniteSet(items[o]) /\ Cardinality(items[o]) \in Nat
      BY <3>3, UnitsAreFinite
    <3>5. Cardinality(items[o]) <= Cardinality(items'[o])
      BY <3>2, <3>4, FS_Subset
    <3>6. invoice[o].quantity \in Nat
      BY <3>3 DEF Invoice
    <3>7. Missing(o)' <= Missing(o) /\ Missing(o)' \in Int /\ Missing(o) \in Int
      BY <1>f, <3>4, <3>5, <3>6 DEF Missing
    <3>8. SlotsOf(o)' \subseteq SlotsOf(o)
      BY <3>7 DEF SlotsOf
    <3>9. QED
      BY <2>2, <3>1, <3>2, <3>8 DEF OpenPreorders, Placed
  <2>3. QED
    BY <2>1, <2>2
<1>2. QED
  BY <1>1 DEF Slots, OpenPreorders, Placed

(* A checkout queues its quantity, and only where the limit leaves room for *)
(* it.                                                                      *)
LEMMA QueueCheckout ==
  ASSUME TypeInv, TypeInv', PreorderQueueBounded, NEW o \in Order, Checkout(o)
  PROVE  PreorderQueueBounded'
<1>1. PICK b \in Buyer, m \in Method, quantity \in 1..MaxQuantity :
        \/ CreateInvoice(o, b, m, quantity)
        \/ BuyFromWallet(o, b, m, quantity)
        \/ PreorderFromWallet(o, b, m, quantity)
  BY DEF Checkout
<1>2. status[o] = "NONE" /\ (InStock(quantity) \/ PreorderOpen(quantity))
  BY <1>1 DEF CreateInvoice, BuyFromWallet, PreorderFromWallet, CanCheckout
<1>3. PICK e, code : invoice' = [invoice EXCEPT ![o] = NewInvoice(b, e, quantity, code)]
  BY <1>1 DEF CreateInvoice, BuyFromWallet, PreorderFromWallet
<1>4. /\ invoice'[o].quantity = quantity /\ invoice'[o].preorder = ~InStock(quantity)
      /\ \A p \in Order \ {o} : invoice'[p] = invoice[p] /\ status'[p] = status[p]
                                /\ items'[p] = items[p]
  BY <1>1, <1>3 DEF NewInvoice, CreateInvoice, BuyFromWallet, PreorderFromWallet, TypeInv, TypeOK,
     ClaimUnits
<1> DEFINE added == {o} \X (1..quantity)
<1>5. \A p \in Order \ {o} :
        p \in OpenPreorders' => p \in OpenPreorders /\ SlotsOf(p)' = SlotsOf(p)
  BY <1>4 DEF OpenPreorders, Placed, SlotsOf, Missing
<1>q. quantity \in Nat
  BY AmountAssumption
<1>6. SlotsOf(o)' \subseteq added
  <2>1. Cardinality(items'[o]) \in Nat
    BY UnitsAreFinite DEF TypeInv, TypeOK
  <2>2. Missing(o)' \in Int /\ Missing(o)' <= quantity
    BY <1>4, <1>q, <2>1 DEF Missing
  <2>3. QED
    BY <1>q, <2>2 DEF SlotsOf
<1>s. /\ IsFiniteSet(Slots) /\ Cardinality(Slots) \in Nat
      /\ IsFiniteSet(Slots') /\ Cardinality(Slots') \in Nat
      /\ Cardinality(Slots) <= PreorderLimit /\ PreorderLimit \in Nat
  <2>1. IsFiniteSet(Slots') /\ Cardinality(Slots') \in Nat
    BY SlotsStayFinite DEF SlotsCount
  <2>2. QED
    BY <2>1, SlotsAreFinite, ActivePreordersAreSlots, LimitAssumption DEF PreorderQueueBounded
<1>7. CASE InStock(quantity)
  <2>1. o \notin OpenPreorders'
    BY <1>4, <1>7 DEF OpenPreorders
  <2>2. Slots' \subseteq Slots
    BY <1>5, <2>1 DEF Slots, OpenPreorders, Placed
  <2>3. Cardinality(Slots') <= Cardinality(Slots)
    BY <1>s, <2>2, FS_Subset
  <2>4. QED
    BY <1>s, <2>3, SlotsStayFinite DEF SlotsCount, PreorderQueueBounded
<1>8. CASE ~InStock(quantity)
  <2>1. Cardinality(Slots) + quantity <= PreorderLimit
    BY <1>2, <1>8, ActivePreordersAreSlots DEF PreorderOpen
  <2>2. IsFiniteSet(added) /\ Cardinality(added) = quantity
    <3>1. IsFiniteSet({o}) /\ Cardinality({o}) = 1
      BY FS_Singleton
    <3>2. IsFiniteSet(1..quantity) /\ Cardinality(1..quantity) = quantity
      BY <1>q, FS_Interval
    <3>3. IsFiniteSet(added) /\ Cardinality(added) = Cardinality({o}) * Cardinality(1..quantity)
      BY <3>1, <3>2, FS_Product
    <3>4. QED
      BY <1>q, <3>1, <3>2, <3>3
  <2>3. Slots' \subseteq Slots \cup added
    BY <1>5, <1>6 DEF Slots, OpenPreorders, Placed
  <2> HIDE DEF added
  <2>4. /\ IsFiniteSet(Slots \cup added) /\ IsFiniteSet(Slots \cap added)
        /\ Cardinality(Slots \cup added)
             = Cardinality(Slots) + quantity - Cardinality(Slots \cap added)
    BY <1>s, <2>2, FS_Union, FS_Subset
  <2>5. Cardinality(Slots \cap added) \in Nat
    BY <2>4, FS_CardinalityType
  <2>6. Cardinality(Slots') <= Cardinality(Slots \cup added)
    BY <2>3, <2>4, FS_Subset
  <2>7. QED
    BY <1>q, <1>s, <2>1, <2>4, <2>5, <2>6, SlotsStayFinite DEF SlotsCount, PreorderQueueBounded
<1>9. QED
  BY <1>7, <1>8

(* The bound on the queue is inductive relative to the types.               *)
LEMMA QueueStep == TypeInv /\ PreorderQueueBounded /\ [Next]_vars => PreorderQueueBounded'
<1> SUFFICES ASSUME TypeInv, PreorderQueueBounded, [Next]_vars PROVE PreorderQueueBounded'
  OBVIOUS
<1>t. TypeInv'
  BY TypeStep
<1>1. ASSUME Slots' \subseteq Slots
      PROVE  PreorderQueueBounded'
  <2>1. IsFiniteSet(Slots') /\ Cardinality(Slots') \in Nat
    BY <1>t, SlotsStayFinite DEF SlotsCount
  <2>2. IsFiniteSet(Slots) /\ Cardinality(Slots) \in Nat /\ PreorderLimit \in Nat
    BY SlotsAreFinite, LimitAssumption
  <2>3. Cardinality(Slots') <= Cardinality(Slots)
    BY <1>1, <2>2, FS_Subset
  <2>4. QED
    BY <2>1, <2>2, <2>3, <1>t, SlotsStayFinite, ActivePreordersAreSlots DEF SlotsCount, PreorderQueueBounded
<1>2. CASE \E o \in Order : LaterStep(o)
  BY <1>t, <1>1, <1>2, SlotsShrink
<1>3. CASE \E o \in Order : Checkout(o)
  BY <1>t, <1>3, QueueCheckout
<1>4. CASE InventoryStep \/ UNCHANGED vars
  <2>1. UNCHANGED orderVars
    BY <1>4, InventoryKeepsGoods DEF vars
  <2>2. QED
    BY <1>1, <2>1 DEF orderVars, Slots, SlotsOf, OpenPreorders, Placed, Missing
<1>5. QED
  BY <1>2, <1>3, <1>4 DEF Next, OrderStep, LaterStep

(* The preorder queue never grows beyond the product's limit, though        *)
(* invoices count before they are paid and shrink unit by unit while other  *)
(* checkouts come in (PreorderOpen, ActivePreorders, AssignStock).          *)
THEOREM PreorderQueueIsBounded == Spec => []PreorderQueueBounded
<1>1. Init => PreorderQueueBounded
  <2> SUFFICES ASSUME Init PROVE PreorderQueueBounded
    OBVIOUS
  <2>1. Slots = {}
    BY DEF Init, Slots, OpenPreorders, Placed
  <2>2. QED
    BY <2>1, FS_EmptySet, ActivePreordersAreSlots, LimitAssumption DEF PreorderQueueBounded
<1>2. QED
  BY <1>1, QueueStep, TypeInvariant, PTL DEF Spec

------------------------------------------------------------------------------
(* The core implements OrderPromise: every transaction is a step of the     *)
(* promise, or changes nothing of what it speaks about.                     *)

(* The state of the promise, as the core shows it.                          *)
Phases == [o \in Order |-> PhaseOf(o)]
Wants == [o \in Order |-> IF status[o] = "NONE" THEN 0 ELSE invoice[o].quantity]
Givens == [o \in Order |-> {u \in Unit : deliveredTo[u] = o}]

CoreInv == TypeInv /\ OwnerInv /\ GoodsInv

(* The promise counts units as the core does.                               *)
LEMMA SameCount == \A S : Promise!Cardinality(S) = Cardinality(S)
BY DEF Promise!Cardinality, Cardinality

(* The phase of an order follows from its status and payment, so one order  *)
(* at a time moves on.                                                      *)
LEMMA OnePhaseMoves ==
  ASSUME NEW o \in Order,
         \A p \in Order \ {o} : status'[p] = status[p] /\ payment'[p] = payment[p]
  PROVE  Phases' = [Phases EXCEPT ![o] = PhaseOf(o)']
<1>1. \A p \in Order \ {o} : PhaseOf(p)' = PhaseOf(p)
  BY DEF PhaseOf
<1>2. QED
  BY <1>1 DEF Phases

(* What an order asked for stays.                                           *)
LEMMA WantsStay ==
  ASSUME UNCHANGED invoice, \A p \in Order : status'[p] = "NONE" <=> status[p] = "NONE"
  PROVE  UNCHANGED Wants
BY DEF Wants

(* What was given changes with deliveredTo only.                            *)
LEMMA GivensStay ==
  ASSUME UNCHANGED deliveredTo
  PROVE  UNCHANGED Givens
BY DEF Givens

(* Units on sale are free, so a claim sets units aside.                     *)
LEMMA ClaimSetsAside ==
  ASSUME OwnerInv, NEW o \in Order, NEW T \in SUBSET Sellable, ClaimUnits(o, T)
  PROVE  T \in SUBSET Unit /\ Promise!SetAside(o, T)
<1>1. \A u \in T : u \in Unit /\ holder[u] = None
  BY DEF Sellable, OwnerInv, StockOwnership
<1>2. \A u \in T, p \in Order : u \notin items[p]
  BY <1>1, OrderAssumption DEF OwnerInv, StockOwnership
<1>3. QED
  BY <1>1, <1>2 DEF ClaimUnits, Promise!SetAside, Promise!Free

(* A step outside the promise.                                              *)
LEMMA PromiseStutters ==
  ASSUME UNCHANGED <<status, payment, invoice, items, deliveredTo>>
  PROVE  UNCHANGED Promise!promise
BY DEF Promise!promise, PhaseOf

(* The empty shop has promised nothing.                                     *)
LEMMA PromiseStarts == Init => Promise!PromiseInit
BY OrderAssumption DEF Init, Promise!PromiseInit, PhaseOf

(* A checkout places the order.                                             *)
LEMMA CheckoutPlaces ==
  ASSUME CoreInv, NEW o \in Order, Checkout(o)
  PROVE  Promise!Place(o)
<1>1. PICK b \in Buyer, m \in Method, quantity \in 1..MaxQuantity :
        \/ CreateInvoice(o, b, m, quantity)
        \/ BuyFromWallet(o, b, m, quantity)
        \/ PreorderFromWallet(o, b, m, quantity)
  BY DEF Checkout
<1>t. /\ status \in [Order -> OrderStatus] /\ payment \in [Order -> PaymentStatus]
      /\ invoice \in [Order -> Invoice \cup {None}]
  BY DEF CoreInv, TypeInv, TypeOK
<1>2. status[o] = "NONE"
  BY <1>1 DEF CreateInvoice, BuyFromWallet, PreorderFromWallet, CanCheckout
<1>3. PICK e, code : invoice' = [invoice EXCEPT ![o] = NewInvoice(b, e, quantity, code)]
  BY <1>1 DEF CreateInvoice, BuyFromWallet, PreorderFromWallet
<1>4. /\ \A p \in Order \ {o} : status'[p] = status[p] /\ payment'[p] = payment[p]
      /\ \/ status'[o] = "PENDING_PAYMENT" /\ CreateInvoice(o, b, m, quantity)
         \/ status'[o] = "FULFILLING" /\ BuyFromWallet(o, b, m, quantity)
         \/ status'[o] = "PAID_WAITING_STOCK" /\ PreorderFromWallet(o, b, m, quantity)
      /\ UNCHANGED deliveredTo
  BY <1>1, <1>t DEF CreateInvoice, BuyFromWallet, PreorderFromWallet, stockVars
<1>5. /\ invoice'[o].quantity = quantity
      /\ \A p \in Order \ {o} : invoice'[p] = invoice[p]
  BY <1>t, <1>3 DEF NewInvoice
<1>6. Phases[o] = "ABSENT"
  BY <1>2 DEF Phases, PhaseOf
<1>7. Phases' = [Phases EXCEPT ![o] = PhaseOf(o)']
  BY <1>4, OnePhaseMoves
<1>8. Wants' = [Wants EXCEPT ![o] = quantity] /\ Wants'[o] = quantity
  BY <1>4, <1>5 DEF Wants
<1>9. UNCHANGED Givens
  BY <1>4, GivensStay
<1>10. CASE CreateInvoice(o, b, m, quantity) /\ status'[o] = "PENDING_PAYMENT"
  <2>1. PhaseOf(o)' = "INVOICED" /\ UNCHANGED items
    BY <1>10 DEF PhaseOf, CreateInvoice
  <2>2. Promise!Become(o, "INVOICED")
    BY <1>7, <2>1 DEF Promise!Become, Phases
  <2>3. QED
    BY <1>6, <1>8, <1>9, <2>1, <2>2 DEF Promise!Place, Phases, Wants, Givens
<1>11. CASE PreorderFromWallet(o, b, m, quantity) /\ status'[o] = "PAID_WAITING_STOCK"
  <2>1. PhaseOf(o)' = "OWED" /\ UNCHANGED items
    BY <1>11 DEF PhaseOf, PreorderFromWallet
  <2>2. Promise!Become(o, "OWED")
    BY <1>7, <2>1 DEF Promise!Become, Phases
  <2>3. QED
    BY <1>6, <1>8, <1>9, <2>1, <2>2 DEF Promise!Place, Phases, Wants, Givens
<1>12. CASE BuyFromWallet(o, b, m, quantity) /\ status'[o] = "FULFILLING"
  <2>1. PICK T \in SUBSET Sellable : Oldest(T, Sellable, quantity) /\ ClaimUnits(o, T)
    BY <1>12 DEF BuyFromWallet
  <2>2. T \in SUBSET Unit /\ Promise!SetAside(o, T) /\ Cardinality(T) = quantity
    BY <2>1, ClaimSetsAside DEF CoreInv, Oldest
  <2>3. PhaseOf(o)' = "ALLOTTED"
    BY <1>12 DEF PhaseOf
  <2>4. Promise!Become(o, "ALLOTTED")
    BY <1>7, <2>3 DEF Promise!Become, Phases
  <2>5. \E U \in SUBSET Unit : /\ Cardinality(U) = Wants'[o]
                               /\ Promise!SetAside(o, U)
                               /\ Promise!Become(o, "ALLOTTED")
    BY <1>8, <2>2, <2>4
  <2>6. QED
    BY <1>6, <1>8, <1>9, <2>5, SameCount DEF Promise!Place, Phases, Wants, Givens
<1>13. QED
  BY <1>4, <1>10, <1>11, <1>12

(* A confirmation is a payment: it allots, owes or compensates.             *)
LEMMA ConfirmPays ==
  ASSUME CoreInv, NEW o \in Order, ConfirmPayment(o)
  PROVE  Promise!Pay(o)
<1>t. /\ status \in [Order -> OrderStatus] /\ payment \in [Order -> PaymentStatus]
  BY DEF CoreInv, TypeInv, TypeOK
<1>1. /\ status[o] = "PENDING_PAYMENT" /\ UNCHANGED <<invoice, deliveredTo>>
      /\ \A p \in Order \ {o} : status'[p] = status[p] /\ payment'[p] = payment[p]
      /\ status'[o] \in {"FULFILLING", "REFUNDED", "PAID_WAITING_STOCK"}
  BY <1>t DEF ConfirmPayment, ConfirmFromStock, ConfirmOutOfStock, ConfirmPreorder, Payable, stockVars
<1>2. Phases[o] = "INVOICED"
  BY <1>1 DEF Phases, PhaseOf
<1>3. Phases' = [Phases EXCEPT ![o] = PhaseOf(o)']
  BY <1>1, OnePhaseMoves
<1>4. UNCHANGED Wants
  BY <1>1, WantsStay
<1>5. UNCHANGED Givens
  BY <1>1, GivensStay
<1>w. Wants[o] = invoice[o].quantity
  BY <1>1 DEF Wants
<1>6. CASE ConfirmFromStock(o)
  <2>1. PICK T \in SUBSET Sellable : Oldest(T, Sellable, invoice[o].quantity) /\ ClaimUnits(o, T)
    BY <1>6 DEF ConfirmFromStock
  <2>2. T \in SUBSET Unit /\ Promise!SetAside(o, T) /\ Cardinality(T) = Wants[o]
    BY <1>w, <2>1, ClaimSetsAside DEF CoreInv, Oldest
  <2>3. PhaseOf(o)' = "ALLOTTED"
    BY <1>t, <1>6 DEF PhaseOf, ConfirmFromStock
  <2>4. Promise!Become(o, "ALLOTTED")
    BY <1>3, <2>3 DEF Promise!Become, Phases
  <2>5. \E U \in SUBSET Unit : /\ Cardinality(U) = Wants[o]
                               /\ Promise!SetAside(o, U)
                               /\ Promise!Become(o, "ALLOTTED")
    BY <2>2, <2>4
  <2>6. QED
    BY <1>2, <1>4, <1>5, <2>5, SameCount DEF Promise!Pay, Phases, Wants, Givens
<1>7. CASE ConfirmOutOfStock(o)
  <2>1. PhaseOf(o)' = "COMPENSATED" /\ UNCHANGED items
    BY <1>t, <1>7 DEF PhaseOf, ConfirmOutOfStock
  <2>2. Promise!Become(o, "COMPENSATED")
    BY <1>3, <2>1 DEF Promise!Become, Phases
  <2>3. QED
    BY <1>2, <1>4, <1>5, <2>1, <2>2 DEF Promise!Pay, Phases, Wants, Givens
<1>8. CASE ConfirmPreorder(o)
  <2>1. PhaseOf(o)' = "OWED" /\ UNCHANGED items
    BY <1>t, <1>8 DEF PhaseOf, ConfirmPreorder
  <2>2. Promise!Become(o, "OWED")
    BY <1>3, <2>1 DEF Promise!Become, Phases
  <2>3. QED
    BY <1>2, <1>4, <1>5, <2>1, <2>2 DEF Promise!Pay, Phases, Wants, Givens
<1>9. QED
  BY <1>6, <1>7, <1>8 DEF ConfirmPayment

(* An expiry or a cancellation abandons the order, which has no units.      *)
LEMMA CloseAbandons ==
  ASSUME CoreInv, NEW o \in Order, ExpireOrder(o) \/ CancelOrder(o)
  PROVE  Promise!Abandon(o)
<1>t. status \in [Order -> OrderStatus] /\ payment \in [Order -> PaymentStatus]
  BY DEF CoreInv, TypeInv, TypeOK
<1>1. status[o] = "PENDING_PAYMENT"
  BY DEF ExpireOrder, CancelOrder
<1>2. PICK to \in {"EXPIRED", "CANCELLED"} : CloseUnpaid(o, to)
  BY DEF ExpireOrder, CancelOrder
<1>3. items[o] = {}
  BY <1>1 DEF CoreInv, OwnerInv, Empty
<1>4. /\ UNCHANGED <<invoice, items, deliveredTo>>
      /\ status' = [status EXCEPT ![o] = to] /\ payment' = [payment EXCEPT ![o] = "EXPIRED"]
  BY <1>2, <1>3, ReleaseOfNothing DEF CloseUnpaid, CoreInv, TypeInv, OwnerInv
<1>5. Phases[o] = "INVOICED" /\ PhaseOf(o)' = "VOID"
  BY <1>t, <1>1, <1>4 DEF Phases, PhaseOf
<1>6. Phases' = [Phases EXCEPT ![o] = "VOID"]
  BY <1>t, <1>4, <1>5, OnePhaseMoves
<1>7. UNCHANGED Wants /\ UNCHANGED Givens
  BY <1>t, <1>1, <1>4, WantsStay, GivensStay
<1>8. QED
  BY <1>4, <1>5, <1>6, <1>7 DEF Promise!Abandon, Promise!Become, Phases, Wants, Givens

(* Crediting late money compensates an abandoned order.                     *)
LEMMA CreditPaysTooLate ==
  ASSUME CoreInv, NEW o \in Order, CreditExpiredOrder(o)
  PROVE  Promise!PayTooLate(o)
<1>t. status \in [Order -> OrderStatus] /\ payment \in [Order -> PaymentStatus]
  BY DEF CoreInv, TypeInv, TypeOK
<1>1. /\ status[o] = "EXPIRED" /\ payment[o] = "EXPIRED"
      /\ UNCHANGED <<status, invoice, items, deliveredTo>>
      /\ payment' = [payment EXCEPT ![o] = "PAID"]
  BY DEF CreditExpiredOrder, stockVars
<1>2. Phases[o] = "VOID" /\ PhaseOf(o)' = "COMPENSATED"
  BY <1>t, <1>1 DEF Phases, PhaseOf
<1>3. Phases' = [Phases EXCEPT ![o] = "COMPENSATED"]
  BY <1>t, <1>1, <1>2, OnePhaseMoves
<1>4. UNCHANGED Wants /\ UNCHANGED Givens
  BY <1>1, WantsStay, GivensStay
<1>5. QED
  BY <1>1, <1>2, <1>3, <1>4 DEF Promise!PayTooLate, Promise!Become, Phases, Wants, Givens

(* An allocation, or one unit from an admin, allots; the order is complete  *)
(* exactly when it has all it asked for.                                    *)
LEMMA AllocationAllots ==
  ASSUME CoreInv, NEW o \in Order,
         AllocatePaidPreorder(o) \/ \E u \in Unit : AssignStock(o, u)
  PROVE  Promise!Allot(o)
<1>t. status \in [Order -> OrderStatus] /\ items \in [Order -> SUBSET Unit]
  BY DEF CoreInv, TypeInv, TypeOK
<1>1. /\ status[o] = "PAID_WAITING_STOCK" /\ Missing(o) > 0
      /\ UNCHANGED <<invoice, payment, deliveredTo>>
  BY DEF AllocatePaidPreorder, AssignStock, Waiting
<1>q. invoice[o].quantity \in 1..MaxQuantity
  BY <1>1 DEF CoreInv, GoodsInv, Filled
<1>2. PICK T \in SUBSET Sellable :
        /\ T # {} /\ ClaimUnits(o, T)
        /\ status' = [status EXCEPT ![o] =
                        IF Cardinality(T) = Missing(o) THEN "FULFILLING" ELSE @]
  <2>1. CASE AllocatePaidPreorder(o)
    <3>1. PICK T \in SUBSET Sellable : Oldest(T, Sellable, Missing(o)) /\ ClaimUnits(o, T)
      BY <2>1 DEF AllocatePaidPreorder
    <3>2. Cardinality(T) = Missing(o) /\ T # {}
      BY <1>1, <3>1, FS_EmptySet DEF Oldest
    <3>3. status' = [status EXCEPT ![o] = "FULFILLING"]
      BY <2>1 DEF AllocatePaidPreorder
    <3>4. QED
      BY <3>1, <3>2, <3>3
  <2>2. ASSUME NEW u \in Unit, AssignStock(o, u)
        PROVE  \E T \in SUBSET Sellable :
                 /\ T # {} /\ ClaimUnits(o, T)
                 /\ status' = [status EXCEPT ![o] =
                                 IF Cardinality(T) = Missing(o) THEN "FULFILLING" ELSE @]
    <3>1. {u} \in SUBSET Sellable /\ {u} # {} /\ ClaimUnits(o, {u})
      BY <2>2 DEF AssignStock
    <3>2. Cardinality({u}) = 1
      BY FS_Singleton
    <3>3. status' = [status EXCEPT ![o] = IF 1 = Missing(o) THEN "FULFILLING" ELSE @]
      BY <1>t, <2>2 DEF AssignStock
    <3>4. status' = [status EXCEPT ![o] = IF Cardinality({u}) = Missing(o) THEN "FULFILLING" ELSE @]
      BY <3>2, <3>3
    <3>5. QED
      BY <3>1, <3>4
  <2>3. QED
    BY <2>1, <2>2
<1>3. T \in (SUBSET Unit) \ {{}} /\ Promise!SetAside(o, T)
  <2>1. T \in SUBSET Unit /\ Promise!SetAside(o, T)
    BY <1>2, ClaimSetsAside DEF CoreInv
  <2>2. T # {}
    BY <1>2
  <2>3. QED
    BY <2>1, <2>2
<1>4. /\ items'[o] = items[o] \cup T
      /\ Cardinality(T) = Missing(o) <=> Cardinality(items'[o]) = invoice[o].quantity
  <2>1. items'[o] = items[o] \cup T
    BY <1>t, <1>2 DEF ClaimUnits
  <2>2. QED
    BY <1>q, <2>1, ClaimCount, AmountAssumption DEF CoreInv, Missing
<1>5. \A p \in Order \ {o} : status'[p] = status[p] /\ payment'[p] = payment[p]
  BY <1>t, <1>1, <1>2
<1>6. Phases[o] = "OWED" /\ Wants[o] = invoice[o].quantity
  BY <1>1 DEF Phases, PhaseOf, Wants
<1>7. PhaseOf(o)' = IF Cardinality(items'[o]) = Wants[o] THEN "ALLOTTED" ELSE "OWED"
  BY <1>t, <1>1, <1>2, <1>4, <1>6 DEF PhaseOf
<1>8. Promise!Become(o, IF Cardinality(items'[o]) = Wants[o] THEN "ALLOTTED" ELSE "OWED")
  BY <1>5, <1>7, OnePhaseMoves DEF Promise!Become, Phases
<1>9. UNCHANGED Wants /\ UNCHANGED Givens
  BY <1>t, <1>1, <1>2, WantsStay, GivensStay
<1>10. QED
  BY <1>3, <1>6, <1>8, <1>9, SameCount DEF Promise!Allot, Phases, Wants, Givens

(* A cancelled preorder got nothing and is compensated.                     *)
LEMMA CancelCompensates ==
  ASSUME CoreInv, NEW o \in Order, CancelPaidPreorder(o)
  PROVE  Promise!Compensate(o)
<1>t. status \in [Order -> OrderStatus] /\ items \in [Order -> SUBSET Unit]
  BY DEF CoreInv, TypeInv, TypeOK
<1>1. /\ status[o] = "PAID_WAITING_STOCK" /\ items[o] = {}
      /\ UNCHANGED <<payment, invoice, items, deliveredTo>>
      /\ status' = [status EXCEPT ![o] = "REFUNDED"]
  BY DEF CancelPaidPreorder, Waiting, stockVars
<1>2. Phases[o] = "OWED" /\ PhaseOf(o)' = "COMPENSATED"
  BY <1>t, <1>1 DEF Phases, PhaseOf
<1>3. Phases' = [Phases EXCEPT ![o] = "COMPENSATED"]
  BY <1>t, <1>1, <1>2, OnePhaseMoves
<1>4. UNCHANGED Wants /\ UNCHANGED Givens
  BY <1>t, <1>1, WantsStay, GivensStay
<1>5. Givens[o] = {}
  BY <1>1, OrderAssumption DEF Givens, CoreInv, OwnerInv, StockOwnership
<1>6. items' = [items EXCEPT ![o] = {}]
  BY <1>t, <1>1
<1>7. QED
  BY <1>2, <1>3, <1>4, <1>5, <1>6 DEF Promise!Compensate, Promise!Become, Phases, Wants, Givens

(* A download gives units the order has and did not give before; the order  *)
(* is complete exactly when all of them are given.                          *)
LEMMA DownloadGives ==
  ASSUME CoreInv, NEW o \in Order, NEW R \in SUBSET Unit, DownloadWeb(o, R)
  PROVE  Promise!Give(o)
<1> DEFINE ready == {u \in R : receipt[u] = "READY"}
<1>t. /\ status \in [Order -> OrderStatus] /\ items \in [Order -> SUBSET Unit]
      /\ Filled(o)
  BY DEF CoreInv, TypeInv, TypeOK, GoodsInv
<1>1. /\ \A u \in ready : u \in Unit /\ receiptOf[u] = o /\ u \in items[o] /\ receipt[u] = "READY"
      /\ ready # {}
  BY DEF DownloadWeb, Downloadable, Receipts
<1>2. /\ \A u \in Unit : /\ receipt'[u] = IF u \in ready THEN "SENT" ELSE receipt[u]
                         /\ deliveredTo'[u] = IF u \in ready THEN o ELSE deliveredTo[u]
      /\ UNCHANGED <<invoice, payment, items, receiptOf, holder>>
  BY DEF DownloadWeb
<1>3. /\ status[o] \in {"FULFILLING", "COMPLETED"} /\ IsWeb(Owner(o))
      /\ status' = [status EXCEPT ![o] =
                      IF @ = "FULFILLING" /\ \A u \in Receipts(o) : receipt'[u] = "SENT"
                      THEN "COMPLETED" ELSE @]
  BY DEF DownloadWeb
<1> HIDE DEF ready
<1>4. \A u \in ready : deliveredTo[u] = None
  BY <1>1, <1>3, OrderAssumption DEF CoreInv, GoodsInv, WebReceipts
<1>5. status[o] = "FULFILLING"
  BY <1>t, <1>1, <1>3, <1>4, OrderAssumption DEF Filled
<1>6. \A u \in Unit : u \in items[o] <=> u \in Receipts(o)
  <2>1. ASSUME NEW u \in Unit, u \in items[o] PROVE u \in Receipts(o)
    BY <1>t, <1>3, <1>5, <2>1 DEF Filled, Receipts
  <2>2. ASSUME NEW u \in Unit, u \in Receipts(o) PROVE u \in items[o]
    BY <1>3, <2>2, OrderAssumption DEF Receipts, CoreInv, GoodsInv, WebReceipts, OwnerInv, StockOwnership
  <2>3. QED
    BY <2>1, <2>2
<1>7. \A u \in items[o] : u \in Unit /\ (receipt'[u] = "SENT" <=> deliveredTo'[u] = o)
  <2>1. ASSUME NEW u \in items[o] PROVE u \in Unit /\ (receipt[u] = "SENT" <=> deliveredTo[u] = o)
    <3>1. u \in Unit /\ receiptOf[u] = o
      BY <1>t, <1>6 DEF Receipts
    <3>2. deliveredTo[u] \in {None, o}
      BY <1>t, <3>1 DEF CoreInv, OwnerInv, StockOwnership
    <3>3. QED
      BY <3>1, <3>2, <1>3, OrderAssumption DEF CoreInv, GoodsInv, WebReceipts
  <2>2. QED
    BY <2>1, <1>2
<1>8. /\ Givens' = [Givens EXCEPT ![o] = @ \cup ready]
      /\ Givens'[o] = {u \in Unit : deliveredTo'[u] = o}
  <2>1. ASSUME NEW p \in Order
        PROVE  {u \in Unit : deliveredTo'[u] = p}
                 = IF p = o THEN {u \in Unit : deliveredTo[u] = p} \cup ready
                            ELSE {u \in Unit : deliveredTo[u] = p}
    BY <1>1, <1>2, <1>4, OrderAssumption
  <2>2. QED
    BY <2>1 DEF Givens
<1>9. Givens'[o] \subseteq items[o]
  BY <1>1, <1>2, <1>8, OrderAssumption DEF CoreInv, OwnerInv, StockOwnership
<1>10. Givens'[o] = items'[o] <=> \A u \in Receipts(o) : receipt'[u] = "SENT"
  BY <1>t, <1>2, <1>6, <1>7, <1>8, <1>9 DEF Receipts
<1>11. PhaseOf(o)' = IF Givens'[o] = items'[o] THEN "GIVEN" ELSE "ALLOTTED"
  BY <1>t, <1>3, <1>5, <1>10 DEF PhaseOf
<1>12. Phases' = [Phases EXCEPT ![o] = IF Givens'[o] = items'[o] THEN "GIVEN" ELSE "ALLOTTED"]
  BY <1>t, <1>2, <1>3, <1>11, OnePhaseMoves
<1>13. Phases[o] = "ALLOTTED"
  BY <1>5 DEF Phases, PhaseOf
<1>14. UNCHANGED Wants
  BY <1>t, <1>2, <1>3, WantsStay
<1>15. ready \in SUBSET (items[o] \ Givens[o]) /\ ready # {}
  BY <1>1, <1>4, OrderAssumption DEF Givens
<1>16. QED
  BY <1>2, <1>8, <1>12, <1>13, <1>14, <1>15 DEF Promise!Give, Promise!Become, Phases, Wants, Givens

(* Every step of the core is a step of the promise or leaves it alone.      *)
LEMMA PromiseIsKept ==
  CoreInv /\ [Next]_vars => [Promise!PromiseNext]_(Promise!promise)
<1> SUFFICES ASSUME CoreInv, [Next]_vars
             PROVE  Promise!PromiseNext \/ UNCHANGED Promise!promise
  OBVIOUS
<1>1. CASE InventoryStep \/ UNCHANGED vars
  <2>1. UNCHANGED <<status, payment, invoice, items, deliveredTo>>
    BY <1>1, InventoryKeepsGoods DEF vars, orderVars, stockVars
  <2>2. QED
    BY <2>1, PromiseStutters
<1>2. ASSUME NEW o \in Order, OrderStep(o)
      PROVE  Promise!PromiseStep(o) \/ UNCHANGED Promise!promise
  <2>1. CASE Checkout(o)
    BY <2>1, CheckoutPlaces DEF Promise!PromiseStep
  <2>2. CASE TimePasses(o) \/ SubmitTransfer(o) \/ VerifyTransfer(o) \/ RejectTransfer(o)
    <3>1. UNCHANGED <<status, payment, invoice, items, deliveredTo>>
      BY <2>2 DEF TimePasses, SubmitTransfer, VerifyTransfer, RejectTransfer, AttemptMoves, stockVars
    <3>2. QED
      BY <3>1, PromiseStutters
  <2>3. CASE ConfirmPayment(o)
    BY <2>3, ConfirmPays DEF Promise!PromiseStep
  <2>4. CASE ExpireOrder(o) \/ CancelOrder(o)
    BY <2>4, CloseAbandons DEF Promise!PromiseStep
  <2>5. CASE CreditExpiredOrder(o)
    BY <2>5, CreditPaysTooLate DEF Promise!PromiseStep
  <2>6. CASE AllocatePaidPreorder(o) \/ \E u \in Unit : AssignStock(o, u)
    BY <2>6, AllocationAllots DEF Promise!PromiseStep
  <2>7. CASE CancelPaidPreorder(o)
    BY <2>7, CancelCompensates DEF Promise!PromiseStep
  <2>8. CASE \E R \in SUBSET Unit : DownloadWeb(o, R)
    BY <2>8, DownloadGives DEF Promise!PromiseStep
  <2>9. QED
    BY <1>2, <2>1, <2>2, <2>3, <2>4, <2>5, <2>6, <2>7, <2>8 DEF OrderStep
<1>3. QED
  BY <1>1, <1>2 DEF Next, Promise!PromiseNext

(* The core implements the promise: goods are exclusive and complete, a     *)
(* closed order never comes back, and no unit set aside for a paid order is *)
(* taken from it (Store, all transactions).                                 *)
THEOREM CoreKeepsPromise == Spec => KeepsPromise
<1>1. Spec => []CoreInv
  BY CoreInvariant DEF CoreInv
<1>2. QED
  BY <1>1, PromiseStarts, PromiseIsKept, PTL DEF Spec, KeepsPromise, Promise!PromiseSpec
==============================================================================
