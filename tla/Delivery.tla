------------------------------ MODULE Delivery ------------------------------
(***************************************************************************)
(* The Telegram delivery worker on top of the transactional core: several  *)
(* worker slots claim DIGITAL_FILE notifications under a lease, reserve a  *)
(* receipt for every file, hand the files to Telegram, and record what     *)
(* came of it in a later transaction.  A slot may crash, or outlive its    *)
(* lease, between any two steps, and Telegram may accept a file without    *)
(* the worker hearing of it, or with an answer that it takes for a refusal.*)
(*                                                                         *)
(* The files of one claim go out as one document (up to 100 files and 20   *)
(* MB in the code), in processSingleDelivery when it is one file and in    *)
(* the grouped path otherwise.                                             *)
(***************************************************************************)
EXTENDS StoreProperties

CONSTANTS
  Worker,        \* the slots of all running workers
  MaxAttempts,   \* 5 in the code
  Outcome        \* what Telegram may answer

Outcomes == {"ACCEPTED", "AMBIGUOUS", "TRANSIENT", "REJECTED", "RECIPIENT_GONE"}

ASSUME DeliveryAssumption == MaxAttempts \in Nat \ {0} /\ Outcome \subseteq Outcomes

VARIABLES
  worker,    \* what each slot is doing
  leased,    \* leaseUntil of the notification is in the future
  attempts,  \* TelegramNotification.attempts, counted up to MaxAttempts
  copies,    \* how often Telegram accepted the file of unit u for order o,
             \* as far as the slot heard of it or must reckon with it
  misread    \* the files accepted with an answer taken for a refusal; no
             \* action reads it

sentVars == <<copies, misread>>
workerVars == <<worker, leased, attempts, sentVars>>
allVars == <<vars, workerVars>>

(* After a failed bundle the rest of the order's notifications is settled:  *)
(* it waits, fails or is parked.                                            *)
Settlement == {"RETRY_REST", "FAIL_REST", "PARK_REST"}

Stage == {"IDLE", "CLAIMED", "RESERVING", "DOUBTING", "PARKING", "REFUND", "REFUNDING"}
           \cup Outcomes \cup Settlement

(* claimed is the claim, todo its files without receipt yet, batch the      *)
(* files to send, tries the attempts counted at the claim.                  *)
Slot == [stage : Stage, order : Order \cup {None}, claimed : SUBSET Unit,
         todo : SUBSET Unit, batch : SUBSET Unit, tries : 0..MaxAttempts]

Idle == [stage |-> "IDLE", order |-> None, claimed |-> {}, todo |-> {},
         batch |-> {}, tries |-> 0]

Stop(w) == worker' = [worker EXCEPT ![w] = Idle]
GoTo(w, stage) == worker' = [worker EXCEPT ![w].stage = stage]

(* The notifications N of order o get the value s, those in keep excepted.  *)
Notify(o, N, s) ==
  outbox' = [outbox EXCEPT ![o] = [u \in Unit |-> IF u \in N THEN s ELSE @[u]]]

In(o, S) == {u \in Unit : outbox[o][u] \in S}

DeliveryInit ==
  /\ Init
  /\ worker = [w \in Worker |-> Idle]
  /\ leased = [o \in Order |-> [u \in Unit |-> FALSE]]
  /\ attempts = [o \in Order |-> [u \in Unit |-> 0]]
  /\ copies = [o \in Order |-> [u \in Unit |-> 0]]
  /\ misread = [o \in Order |-> {}]

------------------------------------------------------------------------------
(* Claiming (claimNextNotification).                                        *)

Expired(o) == {u \in In(o, {"PROCESSING"}) : ~leased[o][u]}

(* One slot at a time works for a chat.                                     *)
ChatBusy(b) ==
  \E o \in Placed : Owner(o) = b /\ \E u \in In(o, {"PROCESSING"}) : leased[o][u]

(* C are the order's notifications that are due: the expired claims and the *)
(* pending ones whose nextAttemptAt has come.  A bundle counts as tried as  *)
(* often as the most tried of its files, which may be any of the claim's.   *)
Claim(w, o, C) ==
  /\ worker[w].stage = "IDLE"
  /\ o \in Placed
  /\ ~ChatBusy(Owner(o))
  /\ C # {}
  /\ Expired(o) \subseteq C
  /\ C \subseteq Expired(o) \cup In(o, {"PENDING"})
  /\ Notify(o, C, "PROCESSING")
  /\ leased' = [leased EXCEPT ![o] = [u \in Unit |-> u \in C \/ @[u]]]
  /\ attempts' = [attempts EXCEPT ![o] =
                    [u \in Unit |-> IF u \in C /\ @[u] < MaxAttempts THEN @[u] + 1 ELSE @[u]]]
  /\ \E n \in {attempts'[o][u] : u \in C} :
       worker' = [worker EXCEPT ![w] = [stage |-> "CLAIMED", order |-> o, claimed |-> C,
                                        todo |-> {}, batch |-> {}, tries |-> n]]
  /\ UNCHANGED <<orderVars, stockVars, receipt, receiptOf, moneyVars, sentVars>>

(* processDelivery reads the order; a notification whose file the order has *)
(* lost since is parked.                                                    *)
Inspect(w) ==
  LET o == worker[w].order
      files == worker[w].claimed \cap items[o]
      lost == worker[w].claimed \ items[o]
  IN
  /\ worker[w].stage = "CLAIMED"
  /\ Notify(o, lost \cap In(o, {"PROCESSING"}), "MANUAL_REVIEW")
  /\ worker' = [worker EXCEPT ![w].stage = "RESERVING", ![w].claimed = files, ![w].todo = files]
  /\ UNCHANGED <<orderVars, stockVars, receipt, receiptOf, moneyVars>>
  /\ UNCHANGED <<leased, attempts, sentVars>>

(* Five minutes pass; the slot may be gone or only slow.                    *)
LeaseExpires(o) ==
  /\ \E u \in In(o, {"PROCESSING"}) : leased[o][u]
  /\ leased' = [leased EXCEPT ![o] = [u \in Unit |-> FALSE]]
  /\ UNCHANGED <<vars, worker, attempts, sentVars>>

Crash(w) ==
  /\ worker[w].stage # "IDLE"
  /\ Stop(w)
  /\ UNCHANGED <<vars, leased, attempts, sentVars>>

(* markUnhandledNotificationFailure: an error nobody caught puts back what  *)
(* is still in process.                                                     *)
Throw(w) ==
  LET s == worker[w]
      mine == s.claimed \cap In(s.order, {"PROCESSING"})
  IN
  /\ s.stage \notin {"IDLE", "ACCEPTED", "REFUND", "REFUNDING"}
  /\ Notify(s.order, mine, IF s.tries < MaxAttempts THEN "PENDING" ELSE "FAILED")
  /\ Stop(w)
  /\ UNCHANGED <<orderVars, stockVars, receipt, receiptOf, moneyVars>>
  /\ UNCHANGED <<leased, attempts, sentVars>>

------------------------------------------------------------------------------
(* Reserving receipts (reserveDeliveryReceipt), file by file.               *)

Deliverable(o) == status[o] = "FULFILLING" /\ payment[o] = "PAID"

(* A failed receipt of a refunded order goes with the file to its next one. *)
CanMoveReceipt(u, o) ==
  /\ receipt[u] = "FAILED"
  /\ status[receiptOf[u]] = "REFUNDED"
  /\ stock[u] = "RESERVED" /\ holder[u] = o /\ u \in items[o]

(* Fault: an upload that got no answer is simply made again.                *)
MaySendAgain(o, u) ==
  /\ Deliverable(o)
  /\ \/ receiptOf[u] = None
     \/ receiptOf[u] = o /\ receipt[u] \in {"FAILED", "SENDING"}

MaySend(o, u) ==
  /\ Deliverable(o)
  /\ \/ receiptOf[u] = None
     \/ receiptOf[u] = o /\ receipt[u] = "FAILED"
     \/ receiptOf[u] \notin {None, o} /\ CanMoveReceipt(u, o)

NextFile(w) == CHOOSE u \in worker[w].todo : \A v \in worker[w].todo : u <= v

Reserve(w) ==
  LET o == worker[w].order
      u == NextFile(w)
  IN
  /\ worker[w].stage = "RESERVING" /\ worker[w].todo # {}
  /\ MaySend(o, u)
  /\ receipt' = [receipt EXCEPT ![u] = "SENDING"]
  /\ receiptOf' = [receiptOf EXCEPT ![u] = o]
  /\ worker' = [worker EXCEPT ![w].todo = @ \ {u}, ![w].batch = @ \cup {u}]
  /\ UNCHANGED <<orderVars, stockVars, outbox, moneyVars, leased, attempts, sentVars>>

(* Blocked files fail (unless the claim is gone), files already sent are    *)
(* settled, files whose outcome is unknown are parked for an operator.      *)
Refuse(w) ==
  LET o == worker[w].order
      u == NextFile(w)
      own == receiptOf[u] = o
  IN
  /\ worker[w].stage = "RESERVING" /\ worker[w].todo # {}
  /\ ~MaySend(o, u)
  /\ \/ /\ own /\ receipt[u] = "SENT"
        /\ Notify(o, {u}, "SENT")
     \/ /\ own /\ receipt[u] = "UNKNOWN"
        /\ Notify(o, {u}, "MANUAL_REVIEW")
     \/ /\ ~own \/ receipt[u] = "FAILED"
        /\ Notify(o, {u} \cap In(o, {"PROCESSING"}), "FAILED")
  /\ worker' = [worker EXCEPT ![w].todo = @ \ {u}]
  /\ UNCHANGED <<orderVars, stockVars, receipt, receiptOf, moneyVars>>
  /\ UNCHANGED <<leased, attempts, sentVars>>

(* A receipt found SENDING is doubted: two updates by id, each of its own.  *)
Doubt(w) ==
  LET u == NextFile(w) IN
  /\ worker[w].stage = "RESERVING" /\ worker[w].todo # {}
  /\ receiptOf[u] = worker[w].order /\ receipt[u] = "SENDING"
  /\ GoTo(w, "DOUBTING")
  /\ UNCHANGED <<vars, leased, attempts, sentVars>>

MarkUnknown(w) ==
  /\ worker[w].stage = "DOUBTING"
  /\ receipt' = [receipt EXCEPT ![NextFile(w)] = "UNKNOWN"]
  /\ GoTo(w, "PARKING")
  /\ UNCHANGED <<orderVars, stockVars, receiptOf, outbox, moneyVars>>
  /\ UNCHANGED <<leased, attempts, sentVars>>

Park(w) ==
  /\ worker[w].stage = "PARKING"
  /\ Notify(worker[w].order, {NextFile(w)}, "MANUAL_REVIEW")
  /\ worker' = [worker EXCEPT ![w].stage = "RESERVING", ![w].todo = @ \ {NextFile(w)}]
  /\ UNCHANGED <<orderVars, stockVars, receipt, receiptOf, moneyVars>>
  /\ UNCHANGED <<leased, attempts, sentVars>>

NothingToSend(w) ==
  /\ worker[w].stage = "RESERVING" /\ worker[w].todo = {} /\ worker[w].batch = {}
  /\ Stop(w)
  /\ UNCHANGED <<vars, leased, attempts, sentVars>>

------------------------------------------------------------------------------
(* The upload.  An ambiguous answer (none, or a 5xx) may hide an accepted   *)
(* file, and so may what passes for a refusal: a 200 whose body cannot be   *)
(* read.                                                                    *)
Send(w, outcome) ==
  LET s == worker[w] IN
  /\ s.stage = "RESERVING" /\ s.todo = {} /\ s.batch # {}
  /\ GoTo(w, outcome)
  /\ \/ /\ outcome \in {"ACCEPTED", "AMBIGUOUS"}
        /\ copies' = [copies EXCEPT ![s.order] =
                        [u \in Unit |-> IF u \in s.batch THEN @[u] + 1 ELSE @[u]]]
        /\ UNCHANGED misread
     \/ /\ outcome = "REJECTED"
        /\ misread' = [misread EXCEPT ![s.order] = @ \cup s.batch]
        /\ UNCHANGED copies
     \/ /\ outcome # "ACCEPTED"
        /\ UNCHANGED sentVars
  /\ UNCHANGED <<vars, leased, attempts>>

(* A lone file leaves the rest of the order alone, a bundle settles it.     *)
ThenSettle(w, settlement) ==
  IF Cardinality(worker[w].claimed) = 1 THEN Stop(w) ELSE GoTo(w, settlement)

(* Updates by id, whatever the rows have become meanwhile.                  *)
RecordFiles(w, files, s) ==
  /\ receipt' = [u \in Unit |-> IF u \in worker[w].batch THEN files ELSE receipt[u]]
  /\ Notify(worker[w].order, worker[w].batch, s)
  /\ UNCHANGED receiptOf

(* Fault: notifications that wait give back an attempt like claimed ones.   *)
HeldBackWaiting(w, s) == In(worker[w].order, {"PENDING", "PROCESSING"}) \ worker[w].batch

HeldBack(w, s) ==
  In(worker[w].order, IF s = "PENDING" THEN {"PROCESSING"} ELSE {"PENDING", "PROCESSING"})
    \ worker[w].batch

(* settleRemainingOrderDeliveryNotifications; a notification that was       *)
(* claimed for nothing gets its attempt back.                               *)
Settle(w, s) ==
  LET o == worker[w].order IN
  /\ Notify(o, HeldBack(w, s), s)
  /\ attempts' = [attempts EXCEPT ![o] =
                    [u \in Unit |-> IF s = "PENDING" /\ u \in HeldBack(w, s)
                                    THEN @[u] - 1 ELSE @[u]]]
  /\ Stop(w)
  /\ UNCHANGED <<orderVars, stockVars, receipt, receiptOf, moneyVars, leased, sentVars>>

SettleRest(w) ==
  \/ worker[w].stage = "RETRY_REST" /\ Settle(w, "PENDING")
  \/ worker[w].stage = "FAIL_REST" /\ Settle(w, "FAILED")
  \/ worker[w].stage = "PARK_REST" /\ Settle(w, "MANUAL_REVIEW")

(* Fault: the first file that arrives completes the order.                  *)
AnyUnitDelivered(o) == \E u \in items[o] : stock'[u] = "DELIVERED"

(* Fault: the files are counted before this delivery is recorded.           *)
AllDeliveredBefore(o) ==
  Missing(o) = 0 /\ \A u \in items[o] : stock[u] = "DELIVERED"

(* allOrderUnitsDelivered                                                   *)
AllUnitsDelivered(o) ==
  Missing(o) = 0 /\ \A u \in items[o] : stock'[u] = "DELIVERED"

(* finalizeGroupedDelivery, and the end of processSingleDelivery.           *)
RecordAccepted(w) ==
  LET o == worker[w].order
      sent == worker[w].batch
  IN
  /\ worker[w].stage = "ACCEPTED"
  /\ receipt' = [u \in Unit |-> IF u \in sent THEN "SENT" ELSE receipt[u]]
  /\ Notify(o, sent, "SENT")
  /\ stock' = [u \in Unit |-> IF u \in sent THEN "DELIVERED" ELSE stock[u]]
  /\ deliveredTo' = [u \in Unit |-> IF u \in sent THEN o ELSE deliveredTo[u]]
  /\ archived' = [u \in Unit |-> archived[u] /\ u \notin sent]
  /\ status' = [status EXCEPT ![o] =
                  IF AllUnitsDelivered(o) THEN "COMPLETED" ELSE @]
  /\ Stop(w)
  /\ UNCHANGED <<payment, invoice, due, attempt, paidAt, items>>
  /\ UNCHANGED <<holder, health, policy, receiptOf, moneyVars, leased, attempts, sentVars>>

(* No answer, or the commit after an accepted upload failed, in which case  *)
(* even this record of it may fail.                                         *)
RecordUnknown(w) ==
  /\ \/ /\ worker[w].stage \in {"ACCEPTED", "AMBIGUOUS"}
        /\ RecordFiles(w, "UNKNOWN", "MANUAL_REVIEW")
     \/ /\ worker[w].stage = "ACCEPTED"
        /\ UNCHANGED deliveryVars
  /\ ThenSettle(w, "PARK_REST")
  /\ UNCHANGED <<orderVars, stockVars, moneyVars, leased, attempts, sentVars>>

RecordTransient(w) ==
  /\ worker[w].stage = "TRANSIENT"
  /\ \/ /\ worker[w].tries < MaxAttempts
        /\ RecordFiles(w, "FAILED", "PENDING")
        /\ ThenSettle(w, "RETRY_REST")
     \/ /\ worker[w].tries >= MaxAttempts
        /\ RecordFiles(w, "FAILED", "FAILED")
        /\ ThenSettle(w, "FAIL_REST")
  /\ UNCHANGED <<orderVars, stockVars, moneyVars, leased, attempts, sentVars>>

(* A refusal that proves nothing about the recipient is left to an operator.*)
RecordRejected(w) ==
  /\ worker[w].stage = "REJECTED"
  /\ RecordFiles(w, "FAILED", "FAILED")
  /\ ThenSettle(w, "FAIL_REST")
  /\ UNCHANGED <<orderVars, stockVars, moneyVars, leased, attempts, sentVars>>

(* The recipient can get no message at all: the refund follows at once.     *)
RecordRecipientGone(w) ==
  /\ worker[w].stage = "RECIPIENT_GONE"
  /\ RecordFiles(w, "FAILED", "FAILED")
  /\ GoTo(w, "REFUND")
  /\ UNCHANGED <<orderVars, stockVars, moneyVars, leased, attempts, sentVars>>

------------------------------------------------------------------------------
(* The refund (refundFailedDeliveryToWallet).  Its transaction holds the    *)
(* inventory lock but not the payment lock under which receipts are         *)
(* reserved, so slots go on between its check and its commit.               *)

InventoryLocked == \E w \in Worker : worker[w].stage = "REFUNDING"

Refundable(w) ==
  LET o == worker[w].order IN
  /\ worker[w].batch \cap In(o, {"FAILED"}) # {}
  /\ \E u \in Receipts(o) : receipt[u] = "FAILED"
  /\ status[o] \notin {"PAID_WAITING_STOCK", "COMPLETED"}
  /\ \A u \in Receipts(o) : receipt[u] \notin {"SENDING", "SENT", "UNKNOWN"}

RefundCheck(w) ==
  /\ worker[w].stage = "REFUND"
  /\ ~InventoryLocked
  /\ Refundable(w)
  /\ \/ /\ status[worker[w].order] # "REFUNDED"
        /\ GoTo(w, "REFUNDING")
     \/ /\ status[worker[w].order] = "REFUNDED"
        /\ ThenSettle(w, "FAIL_REST")
  /\ UNCHANGED <<vars, leased, attempts, sentVars>>

(* The check or the database refuses.                                       *)
RefundDenied(w) ==
  /\ worker[w].stage = "REFUND"
  /\ ~InventoryLocked
  /\ Notify(worker[w].order, worker[w].batch, "MANUAL_REVIEW")
  /\ ThenSettle(w, "PARK_REST")
  /\ UNCHANGED <<orderVars, stockVars, receipt, receiptOf, moneyVars>>
  /\ UNCHANGED <<leased, attempts, sentVars>>

RefundCommit(w) ==
  LET o == worker[w].order IN
  /\ worker[w].stage = "REFUNDING"
  /\ PostEntry(Owner(o), o, "DELIVERY_REFUND", GrandTotal(o))
  /\ Notify(o, In(o, {"PENDING", "PROCESSING"}), "FAILED")
  /\ ReleaseUnits(o)
  /\ status' = [status EXCEPT ![o] = "REFUNDED"]
  /\ ThenSettle(w, "FAIL_REST")
  /\ UNCHANGED <<payment, invoice, due, attempt, paidAt>>
  /\ UNCHANGED <<deliveredTo, health, archived, policy, receipt, receiptOf>>
  /\ UNCHANGED <<leased, attempts, sentVars>>

------------------------------------------------------------------------------
(* The operator's two retries.                                              *)

Requeue(o, u) ==
  /\ Notify(o, {u}, "PENDING")
  /\ attempts' = [attempts EXCEPT ![o][u] = 0]
  /\ leased' = [leased EXCEPT ![o][u] = FALSE]
  /\ UNCHANGED <<orderVars, stockVars, receiptOf, moneyVars, worker, sentVars>>

StillAssigned(o, u) ==
  /\ u \in items[o] /\ stock[u] = "RESERVED" /\ holder[u] = o
  /\ status[o] \notin {"REFUNDED", "CANCELLED", "COMPLETED"}
  /\ ledger[o]["DELIVERY_REFUND"] = 0

(* queueFailedDeliveryRetry                                                 *)
RetryFailed(o, u) ==
  /\ ~InventoryLocked
  /\ receiptOf[u] = o /\ receipt[u] = "FAILED"
  /\ outbox[o][u] \in {"FAILED", "PENDING"}
  /\ StillAssigned(o, u)
  /\ \A v \in Receipts(o) : receipt[v] \notin {"SENDING", "UNKNOWN"}
  /\ UNCHANGED receipt
  /\ Requeue(o, u)

(* queueAcknowledgedMissingDeliveryRetry.  The attestation is the           *)
(* operator's: the buyer has no file, and no upload of it is under way.     *)
RetryAcknowledged(o, u) ==
  /\ ~InventoryLocked
  /\ receiptOf[u] = o /\ receipt[u] = "UNKNOWN"
  /\ StillAssigned(o, u)
  /\ copies[o][u] = 0 /\ \A w \in Worker : u \notin worker[w].batch
  /\ outbox[o][u] \in {"FAILED", "PENDING", "SENT"}
  /\ receipt' = [receipt EXCEPT ![u] = "FAILED"]
  /\ Requeue(o, u)

------------------------------------------------------------------------------
(* The transactions of the core take the inventory lock or the payment lock.*)
CoreStep ==
  /\ ~InventoryLocked
  /\ Next
  /\ UNCHANGED workerVars

Reserving(w) == Reserve(w) \/ Refuse(w) \/ Doubt(w) \/ MarkUnknown(w) \/ Park(w) \/ NothingToSend(w)

Recording(w) ==
  \/ RecordAccepted(w)
  \/ RecordUnknown(w)
  \/ RecordTransient(w)
  \/ RecordRejected(w)
  \/ RecordRecipientGone(w)
  \/ SettleRest(w)

Refunding(w) == RefundCheck(w) \/ RefundDenied(w) \/ RefundCommit(w)

WorkerStep(w) ==
  \/ \E o \in Order, C \in SUBSET Unit : Claim(w, o, C)
  \/ Inspect(w)
  \/ Reserving(w)
  \/ \E outcome \in Outcome : Send(w, outcome)
  \/ Recording(w)
  \/ Refunding(w)
  \/ Throw(w)
  \/ Crash(w)

DeliveryNext ==
  \/ CoreStep
  \/ \E w \in Worker : WorkerStep(w)
  \/ \E o \in Order : LeaseExpires(o)
  \/ \E o \in Order, u \in Unit : RetryFailed(o, u) \/ RetryAcknowledged(o, u)

DeliverySpec == DeliveryInit /\ [][DeliveryNext]_allVars

(* A slot that outlived its lease writes the receipt of an order that is    *)
(* being refunded or was refunded, although the refund's check allowed for  *)
(* no such receipt: the race that RefundsRejectUncertain shows.             *)
OvertakesRefund ==
  \E u \in Unit :
    LET o == receiptOf'[u] IN
    /\ receipt'[u] # receipt[u] \/ receiptOf'[u] # receiptOf[u]
    /\ \/ status[o] = "REFUNDED"
       \/ \E w \in Worker : worker[w].stage = "REFUNDING" /\ worker[w].order = o

(* Any number of slots, refunds and crashes, apart from that race.          *)
OrderlySpec == DeliveryInit /\ [][DeliveryNext /\ ~OvertakesRefund]_allVars

------------------------------------------------------------------------------
(* Properties.                                                              *)

(* The values of the worker's own state.                                    *)
DeliveryTypeOK ==
  /\ TypeOK
  /\ worker \in [Worker -> Slot]
  /\ leased \in [Order -> [Unit -> BOOLEAN]]
  /\ attempts \in [Order -> [Unit -> 0..MaxAttempts]]
  /\ copies \in [Order -> [Unit -> Nat]]
  /\ misread \in [Order -> SUBSET Unit]

(* Whatever crashes, overlong claims, lost answers, failed commits, retries *)
(* of workers and of operators, refunds, and moves of receipts from a       *)
(* refunded order to the next, Telegram accepts the file of a unit at most  *)
(* once and for one order, the answers that were misread aside.             *)
DeliveredOnce ==
  \A u \in Unit, o, p \in Order :
    /\ copies[o][u] <= 1
    /\ copies[o][u] = 1 /\ copies[p][u] = 1 => o = p

(* PROJECT_COMPACT.md:395 says that one stock credential must never be      *)
(* delivered twice, whatever the answer was taken for.                      *)
NeverDeliveredTwice ==
  \A u \in Unit, o \in Order : copies[o][u] + (IF u \in misread[o] THEN 1 ELSE 0) <= 1

(* No buyer gets the file and the money back, and no other buyer gets the   *)
(* same file: a unit whose file Telegram accepted, even if the worker does  *)
(* not know it (but not if it misread the answer), stays an item of its     *)
(* order, which is neither refunded nor does it lose the unit to a later    *)
(* sale.                                                                    *)
SentUnitsStayTaken ==
  \A o \in Order, u \in Unit : copies[o][u] > 0 => holder[u] = o /\ u \in items[o]

(* What the database calls sent was accepted by Telegram and is delivered,  *)
(* and a completed order is sent in full.                                   *)
SentIsTrue ==
  \A o \in Order :
    /\ \A u \in Unit : outbox[o][u] = "SENT" => copies[o][u] = 1 /\ deliveredTo[u] = o
    /\ status[o] = "COMPLETED" /\ ~IsWeb(Owner(o)) => \A u \in items[o] : copies[o][u] = 1

(* PROJECT_CONTEXT.md:2232 says that refunds are rejected for any order with*)
(* a SENDING, SENT or UNKNOWN receipt: none is posted while there is one.   *)
RefundsRejectUncertain ==
  [][\A o \in Order :
       ledger'[o]["DELIVERY_REFUND"] # ledger[o]["DELIVERY_REFUND"]
       => \A u \in Receipts(o) : receipt[u] \notin {"SENDING", "SENT", "UNKNOWN"}]_allVars
==============================================================================
