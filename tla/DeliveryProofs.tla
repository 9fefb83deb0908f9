--------------------------- MODULE DeliveryProofs ---------------------------
(***************************************************************************)
(* The delivery worker with any number of slots, orders and files: no file *)
(* goes out twice and nothing is called sent that was not, whatever        *)
(* crashes, outlives its lease, gets lost or is retried; the shop with its *)
(* worker keeps its money and its limits; and as long as no slot writes a  *)
(* receipt behind the back of a refund (OrderlySpec, any number of slots,  *)
(* refunds and retries), also stock, promise, complete orders and receipts *)
(* that block nobody.                                                      *)
(***************************************************************************)
EXTENDS Delivery, StorePromiseProofs

USE DEF sentVars

(* A set of naturals that is not empty has a least element.                 *)
LEMMA LeastExists ==
  ASSUME NEW T \in SUBSET Nat, T # {}
  PROVE  \E x \in T : \A y \in T : x <= y
<1> DEFINE R == OpToRel(<, Nat)
<1>1. IsWellFoundedOn(R, Nat)
  BY NatLessThanWellFounded
<1>2. \A x, y \in T : y < x => <<y, x>> \in R
  BY DEF OpToRel
<1> HIDE DEF R
<1>3. PICK x \in T : \A y \in T : <<y, x>> \notin R
  BY <1>1, WFMin
<1>4. ASSUME NEW y \in T PROVE x <= y
  <2>1. ~(y < x)
    BY <1>2, <1>3
  <2>2. x \in Nat /\ y \in Nat
    OBVIOUS
  <2> QED BY <2>1, <2>2
<1> QED BY <1>4

------------------------------------------------------------------------------
(* Types.                                                                   *)

(* The values of everything an action reads.                                *)
WorkerTypeOK ==
  /\ TypeOK
  /\ worker \in [Worker -> Slot]
  /\ leased \in [Order -> [Unit -> BOOLEAN]]
  /\ attempts \in [Order -> [Unit -> 0..MaxAttempts]]
  /\ copies \in [Order -> [Unit -> Nat]]

(* A slot at work has an order that was placed; one that starts to reserve  *)
(* has nothing to send yet, and one that doubts a file has it before it.    *)
SlotHolds(w) ==
  /\ worker[w].stage # "IDLE" => worker[w].order \in Placed
  /\ worker[w].stage \in {"DOUBTING", "PARKING"} => worker[w].todo # {}
  /\ worker[w].stage = "CLAIMED" => worker[w].batch = {}

(* A claimed notification counts the attempt, so that Settle has one to     *)
(* give back.                                                               *)
Counted == \A o \in Order, u \in Unit : outbox[o][u] = "PROCESSING" => attempts[o][u] >= 1

WorkInv == TypeInv /\ WorkerTypeOK /\ (\A w \in Worker : SlotHolds(w)) /\ Counted

(* It holds before anything is sold.                                        *)
LEMMA WorkStart == DeliveryInit => WorkInv
<1> SUFFICES ASSUME DeliveryInit PROVE WorkInv
  OBVIOUS
<1>1. TypeInv
  BY TypeInit DEF DeliveryInit
<1>2. /\ worker \in [Worker -> Slot]
      /\ leased \in [Order -> [Unit -> BOOLEAN]]
      /\ attempts \in [Order -> [Unit -> 0..MaxAttempts]]
      /\ copies \in [Order -> [Unit -> Nat]]
  BY DeliveryAssumption DEF DeliveryInit, Slot, Idle, Stage
<1>3. \A w \in Worker : SlotHolds(w)
  BY DEF DeliveryInit, SlotHolds, Idle
<1>4. Counted
  BY DEF DeliveryInit, Init, Counted
<1> QED BY <1>1, <1>2, <1>3, <1>4 DEF WorkInv, WorkerTypeOK, TypeInv

(* The next file of a claim is one of its files.                            *)
LEMMA NextFileIsOne ==
  ASSUME WorkInv, NEW w \in Worker, worker[w].todo # {}
  PROVE  NextFile(w) \in worker[w].todo /\ NextFile(w) \in Unit
<1>1. worker[w].todo \in SUBSET Unit
  BY DEF WorkInv, WorkerTypeOK, Slot
<1>2. worker[w].todo \in SUBSET Nat
  BY <1>1, AmountAssumption DEF Unit
<1>3. \E u \in worker[w].todo : \A v \in worker[w].todo : u <= v
  BY <1>2, LeastExists
<1> QED BY <1>1, <1>3 DEF NextFile

(* What Notify writes.                                                      *)
LEMMA Notified ==
  ASSUME WorkInv, NEW o \in Order, NEW N, NEW s \in NotificationStatus, Notify(o, N, s)
  PROVE  /\ outbox' \in [Order -> [Unit -> NotificationStatus]]
         /\ \A p \in Order, u \in Unit :
              outbox'[p][u] = IF p = o /\ u \in N THEN s ELSE outbox[p][u]
<1>1. outbox \in [Order -> [Unit -> NotificationStatus]]
  BY DEF WorkInv, TypeInv, TypeOK
<1>2. outbox' = [outbox EXCEPT ![o] = [u \in Unit |-> IF u \in N THEN s ELSE outbox[o][u]]]
  BY DEF Notify
<1>3. [u \in Unit |-> IF u \in N THEN s ELSE outbox[o][u]] \in [Unit -> NotificationStatus]
  BY <1>1
<1> QED BY <1>1, <1>2, <1>3

(* How a slot ends, or goes on to another stage with the same claim.        *)
LEMMA SlotMoves ==
  ASSUME WorkInv, NEW w \in Worker
  PROVE  /\ Stop(w) => /\ worker' \in [Worker -> Slot] /\ worker'[w] = Idle
                       /\ \A v \in Worker : v # w => worker'[v] = worker[v]
         /\ \A stage \in Stage : GoTo(w, stage) =>
              /\ worker' \in [Worker -> Slot]
              /\ worker'[w] = [worker[w] EXCEPT !.stage = stage]
              /\ \A v \in Worker : v # w => worker'[v] = worker[v]
<1>1. worker \in [Worker -> Slot] /\ worker[w] \in Slot
  BY DEF WorkInv, WorkerTypeOK
<1>2. Idle \in Slot
  BY DeliveryAssumption DEF Idle, Slot, Stage
<1>3. Stop(w) => /\ worker' \in [Worker -> Slot] /\ worker'[w] = Idle
                 /\ \A v \in Worker : v # w => worker'[v] = worker[v]
  BY <1>1, <1>2 DEF Stop
<1>4. ASSUME NEW stage \in Stage, GoTo(w, stage)
      PROVE  /\ worker' \in [Worker -> Slot]
             /\ worker'[w] = [worker[w] EXCEPT !.stage = stage]
             /\ \A v \in Worker : v # w => worker'[v] = worker[v]
  <2>1. [worker[w] EXCEPT !.stage = stage] \in Slot
    BY <1>1 DEF Slot
  <2>2. worker' = [worker EXCEPT ![w] = [worker[w] EXCEPT !.stage = stage]]
    BY <1>4 DEF GoTo
  <2> QED BY <1>1, <2>1, <2>2
<1> QED BY <1>3, <1>4

(* A step of one slot that leaves orders, stock and money alone.            *)
LEMMA WorkStepOf ==
  ASSUME WorkInv, NEW w \in Worker,
         UNCHANGED <<orderVars, stockVars, moneyVars>>,
         receipt' \in [Unit -> ReceiptStatus], receiptOf' \in [Unit -> Order \cup {None}],
         outbox' \in [Order -> [Unit -> NotificationStatus]],
         worker' \in [Worker -> Slot], leased' \in [Order -> [Unit -> BOOLEAN]],
         attempts' \in [Order -> [Unit -> 0..MaxAttempts]], copies' \in [Order -> [Unit -> Nat]],
         \A v \in Worker : v # w => worker'[v] = worker[v], SlotHolds(w)',
         \A o \in Order, u \in Unit :
           outbox'[o][u] = "PROCESSING" => attempts'[o][u] >= 1
  PROVE  WorkInv'
<1>1. TypeInv'
  BY DEF WorkInv, TypeInv, TypeOK, orderVars, stockVars, moneyVars
<1>2. \A v \in Worker : SlotHolds(v)'
  BY DEF WorkInv, SlotHolds, Placed, orderVars
<1> QED BY <1>1, <1>2 DEF WorkInv, WorkerTypeOK, TypeInv, Counted

(* Slot w becomes s, and no other slot notices.                             *)
Becomes(w, s) ==
  /\ worker' \in [Worker -> Slot] /\ worker'[w] = s
  /\ \A v \in Worker : v # w => worker'[v] = worker[v]

(* The types of the columns a slot may leave alone.                         *)
LEMMA WorkColumns ==
  WorkInv => /\ receipt \in [Unit -> ReceiptStatus] /\ receiptOf \in [Unit -> Order \cup {None}]
             /\ outbox \in [Order -> [Unit -> NotificationStatus]]
             /\ worker \in [Worker -> Slot] /\ leased \in [Order -> [Unit -> BOOLEAN]]
             /\ attempts \in [Order -> [Unit -> 0..MaxAttempts]]
             /\ copies \in [Order -> [Unit -> Nat]]
             /\ \A o \in Order, u \in Unit : outbox[o][u] = "PROCESSING" => attempts[o][u] >= 1
             /\ MaxAttempts \in Nat /\ MaxAttempts >= 1
BY DeliveryAssumption DEF WorkInv, TypeInv, TypeOK, WorkerTypeOK, Counted

(* A step of a slot that claims, reads, parks or settles: receipts and      *)
(* uploads stay as they are, and nothing new is put in process.             *)
LEMMA WorkNotifies ==
  ASSUME WorkInv, NEW w \in Worker, NEW o \in Order, NEW N, NEW s \in NotificationStatus,
         s # "PROCESSING", Notify(o, N, s), NEW row \in Slot, Becomes(w, row),
         row.stage # "IDLE" => row.order \in Placed,
         row.stage \in {"DOUBTING", "PARKING"} => row.todo # {},
         row.stage = "CLAIMED" => row.batch = {},
         UNCHANGED <<orderVars, stockVars, moneyVars, leased, attempts, copies>>,
         receipt' \in [Unit -> ReceiptStatus], receiptOf' \in [Unit -> Order \cup {None}]
  PROVE  WorkInv'
<1>1. /\ outbox' \in [Order -> [Unit -> NotificationStatus]]
      /\ \A p \in Order, u \in Unit :
           outbox'[p][u] = IF p = o /\ u \in N THEN s ELSE outbox[p][u]
  BY Notified
<1>2. SlotHolds(w)'
  BY DEF SlotHolds, Becomes, Placed, orderVars
<1>3. \A p \in Order, u \in Unit : outbox'[p][u] = "PROCESSING" => attempts'[p][u] >= 1
  BY <1>1, WorkColumns
<1> QED BY <1>1, <1>2, <1>3, WorkColumns, WorkStepOf DEF Becomes

(* A step of a slot that writes nothing but its own state.                  *)
LEMMA WorkMoves ==
  ASSUME WorkInv, NEW w \in Worker, NEW row \in Slot, Becomes(w, row),
         row.stage # "IDLE" => row.order \in Placed,
         row.stage \in {"DOUBTING", "PARKING"} => row.todo # {},
         row.stage = "CLAIMED" => row.batch = {},
         UNCHANGED <<orderVars, stockVars, moneyVars, outbox, leased, attempts>>,
         receipt' \in [Unit -> ReceiptStatus], receiptOf' \in [Unit -> Order \cup {None}],
         copies' \in [Order -> [Unit -> Nat]]
  PROVE  WorkInv'
<1>1. SlotHolds(w)'
  BY DEF SlotHolds, Becomes, Placed, orderVars
<1> QED BY <1>1, WorkColumns, WorkStepOf DEF Becomes

(* Ending or settling after a record, with the same claim.                  *)
LEMMA ThenSettles ==
  ASSUME WorkInv, NEW w \in Worker, NEW settlement \in Settlement, ThenSettle(w, settlement)
  PROVE  \E row \in {Idle, [worker[w] EXCEPT !.stage = settlement]} : row \in Slot /\ Becomes(w, row)
<1>1. settlement \in Stage
  BY DEF Stage
<1>2. CASE Stop(w)
  BY <1>2, SlotMoves DEF Becomes
<1>3. CASE GoTo(w, settlement)
  BY <1>1, <1>3, SlotMoves DEF Becomes
<1> QED BY <1>2, <1>3 DEF ThenSettle

------------------------------------------------------------------------------
(* Claiming, step by step.                                                  *)

(* A claim takes notifications that wait, or whose lease ran out, of an     *)
(* order that was placed.                                                   *)
LEMMA Claims ==
  ASSUME WorkInv, NEW w \in Worker, NEW o \in Order, NEW C \in SUBSET Unit, Claim(w, o, C)
  PROVE  /\ WorkInv' /\ o \in Placed
         /\ UNCHANGED <<orderVars, stockVars, receipt, receiptOf, moneyVars, copies>>
         /\ \E row \in Slot : /\ Becomes(w, row)
                              /\ row.stage = "CLAIMED" /\ row.order = o /\ row.batch = {}
         /\ \E u \in Unit : outbox[o][u] \in {"PENDING", "PROCESSING"}
         /\ \A p \in Order, u \in Unit :
              outbox'[p][u] # outbox[p][u]
              => p = o /\ outbox[o][u] = "PENDING" /\ outbox'[o][u] = "PROCESSING"
<1>1. /\ UNCHANGED <<orderVars, stockVars, receipt, receiptOf, moneyVars, copies>>
      /\ o \in Placed /\ C # {} /\ Notify(o, C, "PROCESSING")
      /\ \A u \in C : outbox[o][u] \in {"PENDING", "PROCESSING"}
  BY DEF Claim, Expired, In
<1>2. /\ outbox' \in [Order -> [Unit -> NotificationStatus]]
      /\ \A p \in Order, u \in Unit :
           outbox'[p][u] = IF p = o /\ u \in C THEN "PROCESSING" ELSE outbox[p][u]
  BY <1>1, Notified DEF NotificationStatus
<1>3. leased' \in [Order -> [Unit -> BOOLEAN]]
  <2> DEFINE row == [u \in Unit |-> u \in C \/ leased[o][u]]
  <2>1. row \in [Unit -> BOOLEAN]
    BY WorkColumns
  <2>2. leased' = [leased EXCEPT ![o] = row]
    BY DEF Claim
  <2> HIDE DEF row
  <2> QED BY <2>1, <2>2, WorkColumns
<1>4. /\ attempts' \in [Order -> [Unit -> 0..MaxAttempts]]
      /\ \A p \in Order, u \in Unit : p # o \/ u \notin C => attempts'[p][u] = attempts[p][u]
      /\ \A u \in C : attempts'[o][u] >= 1
  <2> DEFINE row == [u \in Unit |-> IF u \in C /\ attempts[o][u] < MaxAttempts
                                    THEN attempts[o][u] + 1 ELSE attempts[o][u]]
  <2>1. attempts' = [attempts EXCEPT ![o] = row]
    BY DEF Claim
  <2>2. \A u \in Unit : attempts[o][u] \in 0..MaxAttempts
    BY WorkColumns
  <2>3. row \in [Unit -> 0..MaxAttempts] /\ \A u \in C : row[u] >= 1
    BY <2>2, WorkColumns
  <2>4. \A u \in Unit : u \notin C => row[u] = attempts[o][u]
    OBVIOUS
  <2> HIDE DEF row
  <2> QED BY <2>1, <2>3, <2>4, WorkColumns
<1>5. PICK n \in 0..MaxAttempts :
        worker' = [worker EXCEPT ![w] = [stage |-> "CLAIMED", order |-> o, claimed |-> C,
                                         todo |-> {}, batch |-> {}, tries |-> n]]
  BY <1>4 DEF Claim
<1> DEFINE row == [stage |-> "CLAIMED", order |-> o, claimed |-> C,
                   todo |-> {}, batch |-> {}, tries |-> n]
<1>6. row \in Slot /\ row.stage = "CLAIMED" /\ row.order = o /\ row.batch = {}
  BY DEF Slot, Stage
<1> HIDE DEF row
<1>7. Becomes(w, row)
  BY <1>5, <1>6, WorkColumns DEF Becomes, row
<1>8. SlotHolds(w)'
  BY <1>1, <1>6, <1>7 DEF SlotHolds, Becomes, Placed, orderVars
<1>9. \A p \in Order, u \in Unit : outbox'[p][u] = "PROCESSING" => attempts'[p][u] >= 1
  BY <1>2, <1>4, WorkColumns
<1>10. WorkInv'
  BY <1>1, <1>2, <1>3, <1>4, <1>7, <1>8, <1>9, WorkColumns, WorkStepOf DEF Becomes
<1> QED BY <1>1, <1>2, <1>6, <1>7, <1>10

(* Reading the order parks the files it has lost.                           *)
LEMMA Inspects ==
  ASSUME WorkInv, NEW w \in Worker, Inspect(w)
  PROVE  /\ WorkInv' /\ worker[w].stage = "CLAIMED"
         /\ UNCHANGED <<orderVars, stockVars, receipt, receiptOf, moneyVars, copies>>
         /\ \E row \in Slot : /\ Becomes(w, row) /\ row.stage = "RESERVING" /\ row.batch = {}
                              /\ row.order = worker[w].order
                              /\ row.todo \subseteq items[worker[w].order]
         /\ \A p \in Order, u \in Unit :
              outbox'[p][u] # outbox[p][u]
              => outbox[p][u] # "NONE" /\ outbox'[p][u] = "MANUAL_REVIEW"
<1>a. PICK o \in Order : o = worker[w].order /\ o \in Placed
  BY DEF Inspect, WorkInv, SlotHolds, Placed
<1> DEFINE files == worker[w].claimed \cap items[o]
           lost == worker[w].claimed \ items[o]
           row == [worker[w] EXCEPT !.stage = "RESERVING", !.claimed = files, !.todo = files]
<1>1. /\ worker[w].stage = "CLAIMED" /\ worker[w].batch = {}
      /\ UNCHANGED <<orderVars, stockVars, receipt, receiptOf, moneyVars, leased, attempts, copies>>
      /\ Notify(o, lost \cap In(o, {"PROCESSING"}), "MANUAL_REVIEW")
      /\ worker' = [worker EXCEPT ![w].stage = "RESERVING", ![w].claimed = files, ![w].todo = files]
  BY <1>a DEF Inspect, WorkInv, SlotHolds
<1>2. worker[w] \in Slot /\ worker[w].claimed \in SUBSET Unit
  BY WorkColumns DEF Slot
<1>3. /\ row \in Slot /\ row.stage = "RESERVING" /\ row.batch = {} /\ row.order = o
      /\ row.todo = files
  BY <1>1, <1>2, <1>a DEF Slot, Stage
<1>4. worker' = [worker EXCEPT ![w] = row]
  BY <1>1, WorkColumns
<1>5. Becomes(w, row)
  <2> HIDE DEF row
  <2> QED BY <1>3, <1>4, WorkColumns DEF Becomes
<1>6. files \subseteq items[o]
  OBVIOUS
<1> HIDE DEF row, files, lost
<1>7. WorkInv'
  BY <1>1, <1>3, <1>5, <1>a, WorkColumns, WorkNotifies DEF NotificationStatus
<1>8. \A p \in Order, u \in Unit :
        outbox'[p][u] # outbox[p][u]
        => outbox[p][u] # "NONE" /\ outbox'[p][u] = "MANUAL_REVIEW"
  <2>1. \A p \in Order, u \in Unit :
          outbox'[p][u] = IF p = o /\ u \in lost \cap In(o, {"PROCESSING"})
                          THEN "MANUAL_REVIEW" ELSE outbox[p][u]
    BY <1>1, Notified DEF NotificationStatus
  <2>2. \A u \in In(o, {"PROCESSING"}) : outbox[o][u] = "PROCESSING"
    BY DEF In
  <2> QED BY <2>1, <2>2
<1> QED BY <1>1, <1>3, <1>5, <1>6, <1>7, <1>8, <1>a

------------------------------------------------------------------------------
(* The steps between, which neither reserve nor upload nor record.          *)

(* A slot has files to send, or waits for what came of them.                *)
Holding == {"RESERVING", "DOUBTING", "PARKING"}
Active == Holding \cup Outcomes

(* A slot whose recipient is gone.                                          *)
Lost == {"RECIPIENT_GONE", "REFUND", "REFUNDING"}

(* The slot goes on with its order and the files it has, or has none yet.   *)
QuietSlot(w) ==
  \E row \in Slot :
    /\ Becomes(w, row)
    /\ row.stage # "IDLE" => row.order = worker[w].order /\ worker[w].stage # "IDLE"
    /\ row.stage \in Active =>
         /\ row.stage \in Holding
         /\ \/ /\ worker[w].stage \in Holding
               /\ row.batch = worker[w].batch /\ row.todo \subseteq worker[w].todo
            \/ row.batch = {} /\ row.todo \subseteq items[row.order]
    /\ row.stage \in Lost =>
         /\ row.stage = "REFUNDING" /\ worker[w].stage = "REFUND"
         /\ Refundable(w) /\ status[worker[w].order] # "REFUNDED"

(* A notification of the slot's order is called sent only when the receipt  *)
(* of its file is.                                                          *)
QuietOutbox(w) ==
  \A p \in Order, u \in Unit :
    outbox'[p][u] # outbox[p][u] =>
      /\ worker[w].stage # "IDLE" /\ p = worker[w].order
      /\ outbox'[p][u] = "SENT" => receipt[u] = "SENT" /\ receiptOf[u] = p

Quiet(w) ==
  /\ QuietSlot(w) /\ QuietOutbox(w)
  /\ UNCHANGED <<receipt, receiptOf, copies, orderVars, stockVars, moneyVars>>

(* Reading the order is such a step ...                                     *)
LEMMA InspectsQuietly == ASSUME WorkInv, NEW w \in Worker, Inspect(w) PROVE WorkInv' /\ Quiet(w)
<1>1. /\ WorkInv' /\ worker[w].stage = "CLAIMED"
      /\ UNCHANGED <<orderVars, stockVars, receipt, receiptOf, moneyVars, copies>>
  BY Inspects
<1>2. PICK row \in Slot :
        /\ Becomes(w, row) /\ row.stage = "RESERVING" /\ row.batch = {}
        /\ row.order = worker[w].order /\ row.todo \subseteq items[worker[w].order]
  BY Inspects
<1>3. QuietSlot(w)
  BY <1>1, <1>2 DEF QuietSlot, Holding, Active, Lost, Outcomes
<1>4. QuietOutbox(w)
  <2>1. PICK o \in Order : o = worker[w].order
    BY <1>1 DEF WorkInv, SlotHolds, Placed
  <2>2. \E N : Notify(o, N, "MANUAL_REVIEW")
    BY <2>1 DEF Inspect
  <2> QED BY <1>1, <2>1, <2>2, Notified DEF QuietOutbox, NotificationStatus
<1> QED BY <1>1, <1>3, <1>4 DEF Quiet

(* ... and so are the end of a slot, by a crash or for want of files, ...   *)
LEMMA StopsQuietly ==
  ASSUME WorkInv, NEW w \in Worker, Stop(w),
         UNCHANGED <<vars, leased, attempts, copies>>
  PROVE  WorkInv' /\ Quiet(w)
<1>1. Idle \in Slot /\ Becomes(w, Idle) /\ Idle.stage = "IDLE"
  BY SlotMoves DEF Becomes, Idle, Slot, Stage, WorkInv, WorkerTypeOK
<1>2. UNCHANGED <<orderVars, stockVars, moneyVars, outbox, receipt, receiptOf, leased, attempts, copies>>
  BY DEF vars, deliveryVars
<1>3. WorkInv'
  BY <1>1, <1>2, WorkMoves, WorkColumns
<1> QED BY <1>1, <1>2, <1>3 DEF Quiet, QuietSlot, QuietOutbox, Active, Holding, Lost, Outcomes

(* ... a step to the next stage of the same claim, ...                      *)
LEMMA GoesOnQuietly ==
  ASSUME WorkInv, NEW w \in Worker, worker[w].stage # "IDLE",
         NEW stage \in Stage \ ({"IDLE", "CLAIMED"} \cup Outcomes), GoTo(w, stage),
         stage \in Holding => worker[w].stage \in Holding /\ worker[w].todo # {},
         stage \in Lost => /\ stage = "REFUNDING" /\ worker[w].stage = "REFUND"
                           /\ Refundable(w) /\ status[worker[w].order] # "REFUNDED",
         UNCHANGED <<vars, leased, attempts, copies>>
  PROVE  WorkInv' /\ Quiet(w)
<1> DEFINE row == [worker[w] EXCEPT !.stage = stage]
<1>0. worker[w] \in Slot
  BY WorkColumns
<1>1. row.stage = stage /\ row.order = worker[w].order /\ row.batch = worker[w].batch
      /\ row.todo = worker[w].todo
  BY <1>0 DEF Slot
<1>2. row \in Slot /\ Becomes(w, row)
  BY <1>0, SlotMoves DEF Becomes, Slot
<1> HIDE DEF row
<1>3. UNCHANGED <<orderVars, stockVars, moneyVars, outbox, receipt, receiptOf, leased, attempts, copies>>
  BY DEF vars, deliveryVars
<1>4. row.order \in Placed
  BY <1>1 DEF WorkInv, SlotHolds
<1>5. WorkInv'
  BY <1>1, <1>2, <1>3, <1>4, WorkMoves, WorkColumns DEF Holding
<1>6. QuietSlot(w)
  BY <1>1, <1>2 DEF QuietSlot, Active, Outcomes
<1> QED BY <1>3, <1>5, <1>6 DEF Quiet, QuietOutbox

(* ... and a notice to the claim's order, with which the slot ends or goes  *)
(* on to the next of its files.                                             *)
LEMMA NotifiesQuietly ==
  ASSUME WorkInv, NEW w \in Worker, worker[w].stage # "IDLE",
         NEW N, NEW s \in NotificationStatus \ {"PROCESSING"}, Notify(worker[w].order, N, s),
         s = "SENT" => \A u \in N : receipt[u] = "SENT" /\ receiptOf[u] = worker[w].order,
         NEW row \in Slot, Becomes(w, row),
         row.stage # "IDLE" => row.order = worker[w].order,
         row.stage \in {"IDLE", "RESERVING"} \cup Settlement,
         row.stage = "RESERVING" => /\ worker[w].stage \in Holding
                                    /\ row.batch = worker[w].batch
                                    /\ row.todo \subseteq worker[w].todo,
         UNCHANGED <<orderVars, stockVars, receipt, receiptOf, moneyVars, leased, attempts, copies>>
  PROVE  WorkInv' /\ Quiet(w)
<1>1. PICK o \in Order : o = worker[w].order /\ o \in Placed
  BY DEF WorkInv, SlotHolds, Placed
<1>2. WorkInv'
  BY <1>1, WorkNotifies, WorkColumns DEF Settlement
<1>3. QuietSlot(w)
  BY DEF QuietSlot, Active, Holding, Lost, Outcomes, Settlement
<1>4. QuietOutbox(w)
  BY <1>1, Notified DEF QuietOutbox
<1> QED BY <1>2, <1>3, <1>4 DEF Quiet

(* An error nobody caught.                                                  *)
LEMMA ThrowsQuietly == ASSUME WorkInv, NEW w \in Worker, Throw(w) PROVE WorkInv' /\ Quiet(w)
<1>1. /\ worker[w].stage # "IDLE" /\ Stop(w)
      /\ UNCHANGED <<orderVars, stockVars, receipt, receiptOf, moneyVars, leased, attempts, copies>>
  BY DEF Throw
<1>2. PICK N \in SUBSET Unit, s \in {"PENDING", "FAILED"} : Notify(worker[w].order, N, s)
  BY DEF Throw, In
<1>3. Idle \in Slot /\ Becomes(w, Idle) /\ Idle.stage = "IDLE"
  BY <1>1, SlotMoves DEF Becomes, Idle, Slot, Stage, WorkInv, WorkerTypeOK
<1> QED BY <1>1, <1>2, <1>3, NotifiesQuietly DEF NotificationStatus

(* The next file is taken off the list.                                     *)
LEMMA NextIsDone ==
  ASSUME WorkInv, NEW w \in Worker, worker[w].stage \in Holding, NEW u,
         worker' = [worker EXCEPT ![w].stage = "RESERVING", ![w].todo = @ \ {u}]
  PROVE  \E row \in Slot :
           /\ Becomes(w, row) /\ row.stage = "RESERVING" /\ row.order = worker[w].order
           /\ row.batch = worker[w].batch /\ row.todo \subseteq worker[w].todo
<1> DEFINE row == [worker[w] EXCEPT !.stage = "RESERVING", !.todo = worker[w].todo \ {u}]
<1>1. worker[w] \in Slot
  BY WorkColumns
<1>2. /\ row \in Slot /\ row.stage = "RESERVING" /\ row.order = worker[w].order
      /\ row.batch = worker[w].batch /\ row.todo \subseteq worker[w].todo
  BY <1>1 DEF Slot, Stage
<1>3. worker' = [worker EXCEPT ![w] = row]
  BY WorkColumns
<1> HIDE DEF row
<1>4. Becomes(w, row)
  BY <1>2, <1>3, WorkColumns DEF Becomes
<1> QED BY <1>2, <1>4

(* A file that may not be sent.                                             *)
LEMMA RefusesQuietly == ASSUME WorkInv, NEW w \in Worker, Refuse(w) PROVE WorkInv' /\ Quiet(w)
<1>1. /\ worker[w].stage = "RESERVING"
      /\ UNCHANGED <<orderVars, stockVars, receipt, receiptOf, moneyVars, leased, attempts, copies>>
      /\ worker' = [worker EXCEPT ![w].todo = @ \ {NextFile(w)}]
  BY DEF Refuse
<1>2. PICK N \in SUBSET Unit, s \in {"SENT", "MANUAL_REVIEW", "FAILED"} :
        /\ Notify(worker[w].order, N, s)
        /\ s = "SENT" => \A u \in N : receipt[u] = "SENT" /\ receiptOf[u] = worker[w].order
  <2>1. {NextFile(w)} \in SUBSET Unit
    BY NextFileIsOne DEF Refuse
  <2> QED BY <2>1 DEF Refuse
<1>3. worker' = [worker EXCEPT ![w].stage = "RESERVING", ![w].todo = @ \ {NextFile(w)}]
  <2>1. worker[w] \in Slot
    BY WorkColumns
  <2>2. [worker[w] EXCEPT !.todo = worker[w].todo \ {NextFile(w)}]
        = [worker[w] EXCEPT !.stage = "RESERVING", !.todo = worker[w].todo \ {NextFile(w)}]
    BY <1>1, <2>1 DEF Slot
  <2> QED BY <1>1, <2>2, WorkColumns
<1>4. PICK row \in Slot :
        /\ Becomes(w, row) /\ row.stage = "RESERVING" /\ row.order = worker[w].order
        /\ row.batch = worker[w].batch /\ row.todo \subseteq worker[w].todo
  BY <1>1, <1>3, NextIsDone DEF Holding
<1> QED BY <1>1, <1>2, <1>4, NotifiesQuietly DEF NotificationStatus, Holding

(* A file whose outcome is unknown is parked.                               *)
LEMMA ParksQuietly == ASSUME WorkInv, NEW w \in Worker, Park(w) PROVE WorkInv' /\ Quiet(w)
<1>1. /\ worker[w].stage = "PARKING"
      /\ UNCHANGED <<orderVars, stockVars, receipt, receiptOf, moneyVars, leased, attempts, copies>>
      /\ Notify(worker[w].order, {NextFile(w)}, "MANUAL_REVIEW")
      /\ worker' = [worker EXCEPT ![w].stage = "RESERVING", ![w].todo = @ \ {NextFile(w)}]
  BY DEF Park
<1>2. PICK row \in Slot :
        /\ Becomes(w, row) /\ row.stage = "RESERVING" /\ row.order = worker[w].order
        /\ row.batch = worker[w].batch /\ row.todo \subseteq worker[w].todo
  BY <1>1, NextIsDone DEF Holding
<1>3. "MANUAL_REVIEW" \in NotificationStatus \ {"PROCESSING"} /\ worker[w].stage \in Holding
  BY <1>1 DEF NotificationStatus, Holding
<1>4. row.stage \in {"IDLE", "RESERVING"} \cup Settlement
  BY <1>2
<1> HIDE DEF Notify, Becomes
<1> QED BY <1>1, <1>2, <1>3, <1>4, NotifiesQuietly

(* The rest of a failed bundle is settled; what was claimed for nothing     *)
(* gets its attempt back.                                                   *)
LEMMA SettlesQuietly == ASSUME WorkInv, NEW w \in Worker, SettleRest(w) PROVE WorkInv' /\ Quiet(w)
<1>1. PICK s \in {"PENDING", "FAILED", "MANUAL_REVIEW"} :
        Settle(w, s) /\ worker[w].stage \in Settlement
  BY DEF SettleRest, Settlement
<1>2. PICK o \in Order : o = worker[w].order /\ o \in Placed
  BY <1>1 DEF WorkInv, SlotHolds, Placed, Settlement
<1> DEFINE held == HeldBack(w, s)
           row == [u \in Unit |-> IF s = "PENDING" /\ u \in held
                                  THEN attempts[o][u] - 1 ELSE attempts[o][u]]
<1>3. /\ Notify(o, held, s) /\ Stop(w) /\ attempts' = [attempts EXCEPT ![o] = row]
      /\ UNCHANGED <<orderVars, stockVars, receipt, receiptOf, moneyVars, leased, copies>>
  BY <1>1, <1>2 DEF Settle
<1>4. s = "PENDING" => \A u \in held : outbox[o][u] = "PROCESSING"
  BY <1>2 DEF HeldBack, In
<1>5. row \in [Unit -> 0..MaxAttempts]
  <2>1. ASSUME NEW u \in Unit PROVE row[u] \in 0..MaxAttempts
    <3>1. attempts[o][u] \in 0..MaxAttempts
      BY WorkColumns
    <3>2. CASE s = "PENDING" /\ u \in held
      <4>1. attempts[o][u] >= 1
        BY <1>4, <3>2, WorkColumns
      <4> QED BY <3>1, <3>2, <4>1, WorkColumns
    <3>3. CASE ~(s = "PENDING" /\ u \in held)
      BY <3>1, <3>3
    <3> QED BY <3>2, <3>3
  <2> QED BY <2>1
<1>6. \A u \in Unit : s # "PENDING" \/ u \notin held => row[u] = attempts[o][u]
  OBVIOUS
<1> HIDE DEF row, held
<1>7. Idle \in Slot /\ Becomes(w, Idle) /\ Idle.stage = "IDLE"
  BY <1>3, SlotMoves DEF Becomes, Idle, Slot, Stage, WorkInv, WorkerTypeOK
<1>8. /\ outbox' \in [Order -> [Unit -> NotificationStatus]]
      /\ \A p \in Order, u \in Unit :
           outbox'[p][u] = IF p = o /\ u \in held THEN s ELSE outbox[p][u]
  BY <1>3, Notified DEF NotificationStatus
<1>9. attempts' \in [Order -> [Unit -> 0..MaxAttempts]]
  BY <1>3, <1>5, WorkColumns
<1>10. \A p \in Order, u \in Unit : outbox'[p][u] = "PROCESSING" => attempts'[p][u] >= 1
  <2> SUFFICES ASSUME NEW p \in Order, NEW u \in Unit, outbox'[p][u] = "PROCESSING"
               PROVE  attempts'[p][u] >= 1
    OBVIOUS
  <2>1. outbox[p][u] = "PROCESSING" /\ ~(p = o /\ u \in held)
    BY <1>8
  <2>2. attempts'[p][u] = attempts[p][u]
    BY <1>3, <1>5, <1>6, <2>1, WorkColumns
  <2> QED BY <2>1, <2>2, WorkColumns
<1>11. WorkInv'
  BY <1>3, <1>7, <1>8, <1>9, <1>10, WorkColumns, WorkStepOf DEF Becomes, SlotHolds, Placed, orderVars
<1>12. QuietSlot(w)
  BY <1>7 DEF QuietSlot, Active, Holding, Lost, Outcomes
<1>13. QuietOutbox(w)
  BY <1>1, <1>2, <1>8 DEF QuietOutbox, Settlement
<1> QED BY <1>3, <1>11, <1>12, <1>13 DEF Quiet

(* Whatever becomes of a check for a refund, or of a record that fails.     *)
LEMMA DecidesQuietly ==
  ASSUME WorkInv, NEW w \in Worker, RefundCheck(w) \/ RefundDenied(w) PROVE WorkInv' /\ Quiet(w)
<1>1. worker[w].stage = "REFUND"
  BY DEF RefundCheck, RefundDenied
<1>2. CASE RefundDenied(w)
  <2>1. /\ Notify(worker[w].order, worker[w].batch, "MANUAL_REVIEW") /\ ThenSettle(w, "PARK_REST")
        /\ UNCHANGED <<orderVars, stockVars, receipt, receiptOf, moneyVars, leased, attempts, copies>>
    BY <1>2 DEF RefundDenied
  <2>2. PICK row \in {Idle, [worker[w] EXCEPT !.stage = "PARK_REST"]} : row \in Slot /\ Becomes(w, row)
    BY <2>1, ThenSettles DEF Settlement
  <2>3. row.stage \in {"IDLE", "PARK_REST"} /\ (row.stage # "IDLE" => row.order = worker[w].order)
    BY WorkColumns DEF Idle, Slot
  <2>4. "MANUAL_REVIEW" \in NotificationStatus \ {"PROCESSING"} /\ row.stage # "RESERVING"
    BY <2>3 DEF NotificationStatus
  <2>5. row.stage \in {"IDLE", "RESERVING"} \cup Settlement
    BY <2>3 DEF Settlement
  <2> QED BY <1>1, <2>1, <2>2, <2>3, <2>4, <2>5, NotifiesQuietly
<1>3. CASE RefundCheck(w)
  <2>1. UNCHANGED <<vars, leased, attempts, copies>>
    BY <1>3 DEF RefundCheck
  <2>2. CASE GoTo(w, "REFUNDING") /\ Refundable(w) /\ status[worker[w].order] # "REFUNDED"
    BY <1>1, <2>1, <2>2, GoesOnQuietly DEF Stage, Holding, Lost, Outcomes
  <2>3. CASE GoTo(w, "FAIL_REST")
    BY <1>1, <2>1, <2>3, GoesOnQuietly DEF Stage, Settlement, Holding, Lost, Outcomes
  <2>4. CASE Stop(w)
    BY <2>1, <2>4, StopsQuietly
  <2> QED BY <1>3, <2>2, <2>3, <2>4 DEF RefundCheck, ThenSettle
<1> QED BY <1>2, <1>3

(* An accepted upload whose records both fail.                              *)
LEMMA ForgetsQuietly ==
  ASSUME WorkInv, NEW w \in Worker, RecordUnknown(w), UNCHANGED deliveryVars
  PROVE  WorkInv' /\ Quiet(w)
<1>1. UNCHANGED <<vars, leased, attempts, copies>> /\ worker[w].stage # "IDLE"
  BY DEF RecordUnknown, vars
<1>2. CASE GoTo(w, "PARK_REST")
  BY <1>1, <1>2, GoesOnQuietly DEF Stage, Settlement, Holding, Lost, Outcomes
<1>3. CASE Stop(w)
  BY <1>1, <1>3, StopsQuietly
<1> QED BY <1>2, <1>3 DEF RecordUnknown, ThenSettle

(* All of them together.                                                    *)
QuietStep(w) ==
  \/ Inspect(w) \/ Crash(w) \/ Throw(w) \/ Refuse(w) \/ Doubt(w) \/ Park(w) \/ NothingToSend(w)
  \/ SettleRest(w) \/ RefundCheck(w) \/ RefundDenied(w)
  \/ RecordUnknown(w) /\ UNCHANGED deliveryVars

(* They keep the types and do as Quiet says.                                *)
LEMMA QuietSteps == ASSUME WorkInv, NEW w \in Worker, QuietStep(w) PROVE WorkInv' /\ Quiet(w)
<1>1. CASE Crash(w) \/ NothingToSend(w)
  BY <1>1, StopsQuietly DEF Crash, NothingToSend
<1>2. CASE Doubt(w)
  BY <1>2, GoesOnQuietly DEF Doubt, Stage, Holding, Lost, Outcomes
<1> QED
  BY <1>1, <1>2, InspectsQuietly, ThrowsQuietly, RefusesQuietly, ParksQuietly, SettlesQuietly,
     DecidesQuietly, ForgetsQuietly DEF QuietStep

------------------------------------------------------------------------------
(* The steps that reserve, upload and record.                               *)

(* A slot at work has a placed order.                                       *)
LEMMA ActsForPlaced ==
  ASSUME WorkInv, NEW w \in Worker, worker[w].stage # "IDLE"
  PROVE  \E o \in Order : o = worker[w].order /\ o \in Placed /\ invoice[o] \in Invoice
BY DEF WorkInv, SlotHolds, Placed, TypeInv

(* Reserving the next file gives it the order's receipt.                    *)
LEMMA Reserves ==
  ASSUME WorkInv, NEW w \in Worker, Reserve(w)
  PROVE  /\ WorkInv' /\ worker[w].stage = "RESERVING"
         /\ UNCHANGED <<orderVars, stockVars, outbox, moneyVars, copies>>
         /\ \E u \in Unit, row \in Slot :
              /\ u \in worker[w].todo /\ MaySend(worker[w].order, u)
              /\ receipt' = [receipt EXCEPT ![u] = "SENDING"]
              /\ receiptOf' = [receiptOf EXCEPT ![u] = worker[w].order]
              /\ Becomes(w, row) /\ row.stage = "RESERVING" /\ row.order = worker[w].order
              /\ row.batch = worker[w].batch \cup {u} /\ row.todo \subseteq worker[w].todo
<1> DEFINE u == NextFile(w)
           row == [worker[w] EXCEPT !.todo = worker[w].todo \ {u},
                                    !.batch = worker[w].batch \cup {u}]
<1>1. /\ worker[w].stage = "RESERVING" /\ worker[w].todo # {} /\ MaySend(worker[w].order, u)
      /\ receipt' = [receipt EXCEPT ![u] = "SENDING"]
      /\ receiptOf' = [receiptOf EXCEPT ![u] = worker[w].order]
      /\ worker' = [worker EXCEPT ![w].todo = @ \ {u}, ![w].batch = @ \cup {u}]
      /\ UNCHANGED <<orderVars, stockVars, outbox, moneyVars, leased, attempts, copies>>
  BY DEF Reserve
<1>2. u \in worker[w].todo /\ u \in Unit
  BY <1>1, NextFileIsOne
<1>3. PICK o \in Order : o = worker[w].order /\ o \in Placed
  BY <1>1, ActsForPlaced
<1> HIDE DEF u
<1>4. worker[w] \in Slot
  BY WorkColumns
<1>5. /\ row \in Slot /\ row.stage = "RESERVING" /\ row.order = o
      /\ row.batch = worker[w].batch \cup {u} /\ row.todo \subseteq worker[w].todo
  BY <1>1, <1>2, <1>3, <1>4 DEF Slot
<1>6. worker' = [worker EXCEPT ![w] = row]
  BY <1>1, WorkColumns
<1> HIDE DEF row
<1>7. Becomes(w, row)
  BY <1>5, <1>6, WorkColumns DEF Becomes
<1>8. receipt' \in [Unit -> ReceiptStatus] /\ receiptOf' \in [Unit -> Order \cup {None}]
  BY <1>1, <1>2, <1>3, WorkColumns DEF ReceiptStatus
<1>9. WorkInv'
  BY <1>1, <1>3, <1>5, <1>7, <1>8, WorkColumns, WorkMoves
<1> QED BY <1>1, <1>2, <1>3, <1>5, <1>7, <1>9

(* A doubted receipt becomes UNKNOWN.                                       *)
LEMMA MarksUnknown ==
  ASSUME WorkInv, NEW w \in Worker, MarkUnknown(w)
  PROVE  /\ WorkInv' /\ worker[w].stage = "DOUBTING"
         /\ UNCHANGED <<orderVars, stockVars, receiptOf, outbox, moneyVars, copies>>
         /\ \E u \in Unit : receipt' = [receipt EXCEPT ![u] = "UNKNOWN"]
         /\ \E row \in Slot :
              /\ Becomes(w, row) /\ row.stage = "PARKING" /\ row.order = worker[w].order
              /\ row.batch = worker[w].batch /\ row.todo = worker[w].todo
<1> DEFINE row == [worker[w] EXCEPT !.stage = "PARKING"]
<1>1. /\ worker[w].stage = "DOUBTING" /\ worker[w].todo # {}
      /\ receipt' = [receipt EXCEPT ![NextFile(w)] = "UNKNOWN"] /\ GoTo(w, "PARKING")
      /\ UNCHANGED <<orderVars, stockVars, receiptOf, outbox, moneyVars, leased, attempts, copies>>
  BY DEF MarkUnknown, WorkInv, SlotHolds
<1>2. NextFile(w) \in Unit
  BY <1>1, NextFileIsOne
<1>3. worker[w] \in Slot /\ worker[w].order \in Placed
  BY <1>1, WorkColumns, ActsForPlaced
<1>4. /\ row \in Slot /\ row.stage = "PARKING" /\ row.order = worker[w].order
      /\ row.batch = worker[w].batch /\ row.todo = worker[w].todo
  BY <1>3 DEF Slot, Stage
<1>5. Becomes(w, row)
  BY <1>1, <1>4, SlotMoves DEF Becomes, Stage
<1> HIDE DEF row
<1>6. receipt' \in [Unit -> ReceiptStatus] /\ receiptOf' \in [Unit -> Order \cup {None}]
  BY <1>1, <1>2, WorkColumns DEF ReceiptStatus
<1>7. WorkInv'
  BY <1>1, <1>3, <1>4, <1>5, <1>6, WorkColumns, WorkMoves
<1> QED BY <1>1, <1>2, <1>4, <1>5, <1>7

(* An upload: what Telegram accepted is counted, known to the slot or not.  *)
LEMMA Sends ==
  ASSUME WorkInv, NEW w \in Worker, NEW outcome \in Outcome, Send(w, outcome)
  PROVE  /\ WorkInv' /\ worker[w].stage = "RESERVING"
         /\ UNCHANGED vars
         /\ \E row \in Slot :
              /\ Becomes(w, row) /\ row.stage = outcome /\ row.order = worker[w].order
              /\ row.batch = worker[w].batch /\ row.todo = worker[w].todo
         /\ \/ outcome # "ACCEPTED" /\ UNCHANGED copies
            \/ /\ outcome \in {"ACCEPTED", "AMBIGUOUS"}
               /\ \A p \in Order, u \in Unit :
                    copies'[p][u] = IF p = worker[w].order /\ u \in worker[w].batch
                                    THEN copies[p][u] + 1 ELSE copies[p][u]
<1> DEFINE row == [worker[w] EXCEPT !.stage = outcome]
<1>1. worker[w].stage = "RESERVING" /\ GoTo(w, outcome) /\ UNCHANGED <<vars, leased, attempts>>
  BY DEF Send
<1>2. outcome \in Stage /\ outcome \in Outcomes
  BY DeliveryAssumption DEF Stage
<1>3. PICK o \in Order : o = worker[w].order /\ o \in Placed
  BY <1>1, ActsForPlaced
<1>4. worker[w] \in Slot /\ worker[w].batch \in SUBSET Unit
  BY WorkColumns DEF Slot
<1>5. /\ row \in Slot /\ row.stage = outcome /\ row.order = o
      /\ row.batch = worker[w].batch /\ row.todo = worker[w].todo
  BY <1>2, <1>3, <1>4 DEF Slot
<1>6. Becomes(w, row)
  BY <1>1, <1>2, <1>5, SlotMoves DEF Becomes
<1> HIDE DEF row
<1> DEFINE hit == [u \in Unit |-> IF u \in worker[w].batch
                                  THEN copies[o][u] + 1 ELSE copies[o][u]]
<1>7. \/ outcome # "ACCEPTED" /\ UNCHANGED copies
      \/ outcome \in {"ACCEPTED", "AMBIGUOUS"} /\ copies' = [copies EXCEPT ![o] = hit]
  BY <1>3 DEF Send
<1>8. hit \in [Unit -> Nat]
  BY WorkColumns
<1>9. \A u \in Unit : hit[u] = IF u \in worker[w].batch THEN copies[o][u] + 1 ELSE copies[o][u]
  OBVIOUS
<1> HIDE DEF hit
<1>10. copies' \in [Order -> [Unit -> Nat]]
  BY <1>7, <1>8, WorkColumns
<1>11. UNCHANGED <<orderVars, stockVars, moneyVars, outbox, receipt, receiptOf>>
  BY <1>1 DEF vars, deliveryVars
<1>12. row.stage \notin {"IDLE", "DOUBTING", "PARKING", "CLAIMED"}
  BY <1>2, <1>5 DEF Outcomes
<1>13. WorkInv'
  BY <1>1, <1>3, <1>5, <1>6, <1>10, <1>11, <1>12, WorkColumns, WorkMoves
<1>14. \/ outcome # "ACCEPTED" /\ UNCHANGED copies
       \/ /\ outcome \in {"ACCEPTED", "AMBIGUOUS"}
          /\ \A p \in Order, u \in Unit :
               copies'[p][u] = IF p = worker[w].order /\ u \in worker[w].batch
                               THEN copies[p][u] + 1 ELSE copies[p][u]
  <2>1. CASE copies' = [copies EXCEPT ![o] = hit]
    BY <1>3, <1>7, <1>9, <2>1, WorkColumns
  <2> QED BY <1>7, <2>1
<1> QED BY <1>1, <1>3, <1>5, <1>6, <1>13, <1>14

(* The record of an upload that was not seen to arrive: the receipts get    *)
(* one value, the notifications another, and the slot settles the rest,     *)
(* asks for a refund or ends.                                               *)
Recorded(w, files) ==
  /\ \A u \in Unit : receipt'[u] = IF u \in worker[w].batch THEN files ELSE receipt[u]
  /\ UNCHANGED <<receiptOf, copies, orderVars, stockVars, moneyVars>>
  /\ \A p \in Order, u \in Unit :
       outbox'[p][u] # outbox[p][u] => p = worker[w].order /\ outbox'[p][u] # "SENT"
  /\ \E row \in Slot :
       /\ Becomes(w, row) /\ row.stage \in {"IDLE", "REFUND"} \cup Settlement
       /\ row.stage # "IDLE" => row.order = worker[w].order
       /\ row.stage = "REFUND" => worker[w].stage = "RECIPIENT_GONE"

(* Its parts do what it says and keep the types.                            *)
LEMMA RecordsFiles ==
  ASSUME WorkInv, NEW w \in Worker, worker[w].stage # "IDLE", NEW files \in {"UNKNOWN", "FAILED"},
         NEW s \in {"PENDING", "FAILED", "MANUAL_REVIEW"}, RecordFiles(w, files, s),
         NEW row \in Slot, Becomes(w, row), row.stage \in {"IDLE", "REFUND"} \cup Settlement,
         row.stage # "IDLE" => row.order = worker[w].order,
         row.stage = "REFUND" => worker[w].stage = "RECIPIENT_GONE",
         UNCHANGED <<orderVars, stockVars, moneyVars, leased, attempts, copies>>
  PROVE  WorkInv' /\ Recorded(w, files)
<1>1. PICK o \in Order : o = worker[w].order /\ o \in Placed
  BY ActsForPlaced
<1>2. s \in NotificationStatus /\ s \notin {"PROCESSING", "SENT"}
  BY DEF NotificationStatus
<1>3. /\ receipt' = [u \in Unit |-> IF u \in worker[w].batch THEN files ELSE receipt[u]]
      /\ Notify(o, worker[w].batch, s) /\ UNCHANGED receiptOf
  BY <1>1 DEF RecordFiles
<1>4. receipt' \in [Unit -> ReceiptStatus] /\ receiptOf' \in [Unit -> Order \cup {None}]
  <2>1. files \in ReceiptStatus
    BY DEF ReceiptStatus
  <2> QED BY <1>3, <2>1, WorkColumns
<1>5. row.stage \notin {"DOUBTING", "PARKING", "CLAIMED"}
  BY DEF Settlement
<1>6. WorkInv'
  BY <1>1, <1>2, <1>3, <1>4, <1>5, WorkNotifies
<1>7. \A p \in Order, u \in Unit :
        outbox'[p][u] # outbox[p][u] => p = worker[w].order /\ outbox'[p][u] # "SENT"
  BY <1>1, <1>2, <1>3, Notified
<1> QED BY <1>3, <1>6, <1>7 DEF Recorded

(* No answer, or an accepted upload whose record failed.                    *)
LEMMA RecordsUnknown ==
  ASSUME WorkInv, NEW w \in Worker, RecordUnknown(w), ~(UNCHANGED deliveryVars)
  PROVE  /\ WorkInv' /\ Recorded(w, "UNKNOWN") /\ worker[w].stage \in {"ACCEPTED", "AMBIGUOUS"}
<1>1. /\ worker[w].stage \in {"ACCEPTED", "AMBIGUOUS"}
      /\ RecordFiles(w, "UNKNOWN", "MANUAL_REVIEW") /\ ThenSettle(w, "PARK_REST")
      /\ UNCHANGED <<orderVars, stockVars, moneyVars, leased, attempts, copies>>
  BY DEF RecordUnknown
<1>2. PICK row \in {Idle, [worker[w] EXCEPT !.stage = "PARK_REST"]} : row \in Slot /\ Becomes(w, row)
  BY <1>1, ThenSettles DEF Settlement
<1>3. /\ row.stage \in {"IDLE", "REFUND"} \cup Settlement /\ row.stage # "REFUND"
      /\ row.stage # "IDLE" => row.order = worker[w].order
  BY <1>2, WorkColumns DEF Settlement, Idle, Slot
<1> QED BY <1>1, <1>2, <1>3, RecordsFiles

(* A failure that will be tried again, or not, or of the recipient.         *)
LEMMA RecordsFailed ==
  ASSUME WorkInv, NEW w \in Worker, RecordTransient(w) \/ RecordRejected(w) \/ RecordRecipientGone(w)
  PROVE  /\ WorkInv' /\ Recorded(w, "FAILED")
         /\ worker[w].stage \in {"TRANSIENT", "REJECTED", "RECIPIENT_GONE"}
<1>1. CASE RecordTransient(w) \/ RecordRejected(w)
  <2>1. /\ worker[w].stage \in {"TRANSIENT", "REJECTED"}
        /\ UNCHANGED <<orderVars, stockVars, moneyVars, leased, attempts, copies>>
    BY <1>1 DEF RecordTransient, RecordRejected
  <2>2. PICK s \in {"PENDING", "FAILED"}, settlement \in {"RETRY_REST", "FAIL_REST"} :
          RecordFiles(w, "FAILED", s) /\ ThenSettle(w, settlement)
    BY <1>1 DEF RecordTransient, RecordRejected
  <2>3. PICK row \in {Idle, [worker[w] EXCEPT !.stage = settlement]} : row \in Slot /\ Becomes(w, row)
    BY <2>2, ThenSettles DEF Settlement
  <2>4. /\ row.stage \in {"IDLE", "REFUND"} \cup Settlement /\ row.stage # "REFUND"
        /\ row.stage # "IDLE" => row.order = worker[w].order
    BY <2>3, WorkColumns DEF Settlement, Idle, Slot
  <2> QED BY <2>1, <2>2, <2>3, <2>4, RecordsFiles
<1>2. CASE RecordRecipientGone(w)
  <2> DEFINE row == [worker[w] EXCEPT !.stage = "REFUND"]
  <2>1. /\ worker[w].stage = "RECIPIENT_GONE" /\ RecordFiles(w, "FAILED", "FAILED") /\ GoTo(w, "REFUND")
        /\ UNCHANGED <<orderVars, stockVars, moneyVars, leased, attempts, copies>>
    BY <1>2 DEF RecordRecipientGone
  <2>2. row \in Slot /\ row.stage = "REFUND" /\ row.order = worker[w].order
    BY WorkColumns DEF Slot, Stage
  <2>3. Becomes(w, row)
    BY <2>1, <2>2, SlotMoves DEF Becomes, Stage
  <2> HIDE DEF row
  <2>4. row.stage \in {"IDLE", "REFUND"} \cup Settlement
    BY <2>2
  <2> QED BY <2>1, <2>2, <2>3, <2>4, RecordsFiles
<1> QED BY <1>1, <1>2

(* The record of an upload that was accepted delivers its files, and the    *)
(* last of them completes the order.                                        *)
LEMMA RecordsAccepted ==
  ASSUME WorkInv, NEW w \in Worker, RecordAccepted(w)
  PROVE  /\ WorkInv' /\ worker[w].stage = "ACCEPTED" /\ Becomes(w, Idle)
         /\ UNCHANGED <<receiptOf, copies, invoice, items, holder, ledger, wallet>>
         /\ \A u \in Unit :
              /\ receipt'[u] = IF u \in worker[w].batch THEN "SENT" ELSE receipt[u]
              /\ stock'[u] = IF u \in worker[w].batch THEN "DELIVERED" ELSE stock[u]
              /\ deliveredTo'[u] = IF u \in worker[w].batch THEN worker[w].order ELSE deliveredTo[u]
              /\ archived'[u] => archived[u] /\ u \notin worker[w].batch
              /\ \A p \in Order :
                   outbox'[p][u] = IF p = worker[w].order /\ u \in worker[w].batch
                                   THEN "SENT" ELSE outbox[p][u]
         /\ \A p \in Order :
              status'[p] # status[p] => /\ p = worker[w].order /\ status'[p] = "COMPLETED"
                                        /\ \A u \in items[p] : stock'[u] = "DELIVERED"
<1> DEFINE sent == worker[w].batch
<1>1. /\ worker[w].stage = "ACCEPTED" /\ Stop(w)
      /\ receipt' = [u \in Unit |-> IF u \in sent THEN "SENT" ELSE receipt[u]]
      /\ Notify(worker[w].order, sent, "SENT")
      /\ stock' = [u \in Unit |-> IF u \in sent THEN "DELIVERED" ELSE stock[u]]
      /\ deliveredTo' = [u \in Unit |-> IF u \in sent THEN worker[w].order ELSE deliveredTo[u]]
      /\ archived' = [u \in Unit |-> archived[u] /\ u \notin sent]
      /\ UNCHANGED <<payment, invoice, due, attempt, paidAt, items>>
      /\ UNCHANGED <<holder, health, policy, receiptOf, ledger, wallet, leased, attempts, copies>>
  BY DEF RecordAccepted, moneyVars
<1>2. PICK o \in Order : o = worker[w].order /\ o \in Placed
  BY <1>1, ActsForPlaced
<1>3. PICK done \in BOOLEAN :
        /\ done => \A u \in items[o] : stock'[u] = "DELIVERED"
        /\ status' = [status EXCEPT ![o] = IF done THEN "COMPLETED" ELSE status[o]]
  <2>1. AllUnitsDelivered(o) \in BOOLEAN
    BY DEF AllUnitsDelivered
  <2>2. status' = [status EXCEPT ![o] = IF AllUnitsDelivered(o) THEN "COMPLETED" ELSE status[o]]
    BY <1>2 DEF RecordAccepted
  <2>3. AllUnitsDelivered(o) => \A u \in items[o] : stock'[u] = "DELIVERED"
    BY DEF AllUnitsDelivered
  <2> QED BY <2>1, <2>2, <2>3
<1> HIDE DEF sent
<1>4. TypeInv
  BY DEF WorkInv
<1>5. Becomes(w, Idle)
  BY <1>1, SlotMoves DEF Becomes
<1>6. /\ outbox' \in [Order -> [Unit -> NotificationStatus]]
      /\ \A p \in Order, u \in Unit :
           outbox'[p][u] = IF p = o /\ u \in sent THEN "SENT" ELSE outbox[p][u]
  BY <1>1, <1>2, Notified DEF NotificationStatus
<1>7. /\ status' \in [Order -> OrderStatus]
      /\ \A p \in Order : status'[p] # status[p] =>
           /\ p = o /\ status'[p] = "COMPLETED"
           /\ \A u \in items[p] : stock'[u] = "DELIVERED"
  BY <1>3, <1>4 DEF TypeInv, TypeOK, OrderStatus
<1>8. /\ receipt' \in [Unit -> ReceiptStatus] /\ stock' \in [Unit -> StockStatus]
      /\ deliveredTo' \in [Unit -> Order \cup {None}] /\ archived' \in [Unit -> BOOLEAN]
  BY <1>1, <1>2, <1>4 DEF TypeInv, TypeOK, ReceiptStatus, StockStatus
<1>9. TypeInv'
  BY <1>1, <1>2, <1>4, <1>6, <1>7, <1>8 DEF TypeInv, TypeOK, Placed
<1>10. \A v \in Worker : SlotHolds(v)'
  <2>1. \A p \in Placed : p \in Placed'
    BY <1>7 DEF Placed
  <2>2. \A v \in Worker : v # w => SlotHolds(v)'
    BY <1>5, <2>1 DEF WorkInv, SlotHolds, Becomes
  <2> QED BY <1>5, <2>2 DEF SlotHolds, Becomes, Idle
<1>11. Counted' /\ WorkerTypeOK'
  BY <1>1, <1>5, <1>6, <1>9, WorkColumns DEF Counted, WorkerTypeOK, TypeInv, Becomes
<1>12. WorkInv'
  BY <1>9, <1>10, <1>11 DEF WorkInv
<1>13. \A u \in Unit :
         /\ receipt'[u] = IF u \in sent THEN "SENT" ELSE receipt[u]
         /\ stock'[u] = IF u \in sent THEN "DELIVERED" ELSE stock[u]
         /\ deliveredTo'[u] = IF u \in sent THEN o ELSE deliveredTo[u]
         /\ archived'[u] => archived[u] /\ u \notin sent
  BY <1>1, <1>2
<1> QED BY <1>1, <1>2, <1>5, <1>6, <1>7, <1>12, <1>13 DEF sent

(* The refund of a delivery gives the money back, lets the units go and     *)
(* ends every notification of the order.                                    *)
LEMMA RefundsCommit ==
  ASSUME WorkInv, NEW w \in Worker, RefundCommit(w)
  PROVE  /\ WorkInv' /\ worker[w].stage = "REFUNDING" /\ QuietSlot(w)
         /\ worker'[w].stage \in {"IDLE", "FAIL_REST"}
         /\ ReleaseUnits(worker[w].order)
         /\ status' = [status EXCEPT ![worker[w].order] = "REFUNDED"]
         /\ UNCHANGED <<invoice, deliveredTo, archived, receipt, receiptOf, copies>>
         /\ \A p \in Order, u \in Unit :
              outbox'[p][u] # outbox[p][u] => p = worker[w].order /\ outbox'[p][u] # "SENT"
<1>1. PICK o \in Order : o = worker[w].order /\ o \in Placed /\ invoice[o] \in Invoice
  BY ActsForPlaced DEF RefundCommit
<1>2. /\ worker[w].stage = "REFUNDING"
      /\ PostEntry(Owner(o), o, "DELIVERY_REFUND", GrandTotal(o))
      /\ Notify(o, In(o, {"PENDING", "PROCESSING"}), "FAILED")
      /\ ReleaseUnits(o) /\ status' = [status EXCEPT ![o] = "REFUNDED"]
      /\ ThenSettle(w, "FAIL_REST")
      /\ UNCHANGED <<payment, invoice, due, attempt, paidAt>>
      /\ UNCHANGED <<deliveredTo, health, archived, policy, receipt, receiptOf>>
      /\ UNCHANGED <<leased, attempts, copies>>
  BY <1>1 DEF RefundCommit
<1>3. TypeInv /\ TypeOK
  BY DEF WorkInv, TypeInv
<1>4. ledger' \in [Order -> [Entry -> Int]] /\ wallet' \in [Buyer -> Nat]
  <2>1. Owner(o) \in Buyer /\ GrandTotal(o) \in Int /\ "DELIVERY_REFUND" \in Entry
    BY <1>1, AmountsType DEF Owner, Invoice, Entry
  <2> QED BY <1>2, <1>3, <2>1, PostEntryType
<1>5. /\ items' \in [Order -> SUBSET Unit] /\ stock' \in [Unit -> StockStatus]
      /\ holder' \in [Unit -> Order \cup {None}]
  BY <1>2, <1>3, ReleaseUnitsType
<1>6. /\ outbox' \in [Order -> [Unit -> NotificationStatus]]
      /\ \A p \in Order, u \in Unit :
           outbox'[p][u] = IF p = o /\ u \in In(o, {"PENDING", "PROCESSING"})
                           THEN "FAILED" ELSE outbox[p][u]
  BY <1>2, Notified DEF NotificationStatus
<1>7. TypeInv'
  <2>1. status' \in [Order -> OrderStatus]
    BY <1>2, <1>3 DEF TypeOK, OrderStatus
  <2>2. \A p \in Order : status'[p] # "NONE" => status[p] # "NONE"
    BY <1>1, <1>2, <1>3 DEF TypeOK, Placed
  <2>3. TypeOK'
    BY <1>2, <1>3, <1>4, <1>5, <1>6, <2>1 DEF TypeOK
  <2> QED BY <1>2, <1>3, <2>2, <2>3 DEF TypeInv
<1>8. PICK row \in {Idle, [worker[w] EXCEPT !.stage = "FAIL_REST"]} : row \in Slot /\ Becomes(w, row)
  BY <1>2, ThenSettles DEF Settlement
<1>9. /\ row.stage \in {"IDLE", "FAIL_REST"}
      /\ row.stage # "IDLE" => row.order = worker[w].order
  BY <1>8, WorkColumns DEF Idle, Slot
<1>10. \A v \in Worker : SlotHolds(v)'
  <2>1. \A p \in Placed : p \in Placed'
    BY <1>2, <1>3 DEF Placed, TypeOK
  <2>2. \A v \in Worker : v # w => SlotHolds(v)'
    BY <1>8, <2>1 DEF WorkInv, SlotHolds, Becomes
  <2>3. worker'[w] = row
    BY <1>8 DEF Becomes
  <2>4. SlotHolds(w)'
    BY <1>1, <1>9, <2>1, <2>3 DEF SlotHolds
  <2> QED BY <2>2, <2>4
<1>11. Counted'
  BY <1>2, <1>6, WorkColumns DEF Counted
<1>12. WorkerTypeOK'
  BY <1>2, <1>7, <1>8, WorkColumns DEF WorkerTypeOK, TypeInv, Becomes
<1>13. QuietSlot(w)
  BY <1>2, <1>8, <1>9 DEF QuietSlot, Active, Holding, Outcomes, Lost
<1>14. \A p \in Order, u \in Unit :
         outbox'[p][u] # outbox[p][u] => p = o /\ outbox'[p][u] # "SENT"
  BY <1>6
<1>15. worker'[w].stage \in {"IDLE", "FAIL_REST"}
  BY <1>8, <1>9 DEF Becomes
<1> QED BY <1>1, <1>2, <1>7, <1>10, <1>11, <1>12, <1>13, <1>14, <1>15 DEF WorkInv

(* A lease that runs out takes nothing else with it.                        *)
LEMMA LeaseRunsOut ==
  ASSUME WorkInv, NEW o \in Order, LeaseExpires(o)
  PROVE  WorkInv' /\ UNCHANGED <<vars, worker, copies>>
<1>1. UNCHANGED <<vars, worker, attempts, copies>>
  BY DEF LeaseExpires
<1>2. leased' \in [Order -> [Unit -> BOOLEAN]]
  BY WorkColumns DEF LeaseExpires
<1>3. TypeInv'
  BY <1>1, TypeStutter DEF WorkInv
<1>4. (\A w \in Worker : SlotHolds(w)') /\ Counted'
  BY <1>1 DEF WorkInv, SlotHolds, Placed, Counted, vars, orderVars, deliveryVars
<1> QED BY <1>1, <1>2, <1>3, <1>4, WorkColumns DEF WorkInv, WorkerTypeOK, TypeInv

(* A retry by an operator puts one notification back, and makes an          *)
(* attested receipt a failed one.                                           *)
LEMMA Retries ==
  ASSUME WorkInv, NEW o \in Order, NEW u \in Unit, RetryFailed(o, u) \/ RetryAcknowledged(o, u)
  PROVE  /\ WorkInv' /\ ~InventoryLocked /\ receiptOf[u] = o
         /\ UNCHANGED <<worker, orderVars, stockVars, receiptOf, moneyVars, copies>>
         /\ \A p \in Order, v \in Unit :
              outbox'[p][v] # outbox[p][v]
              => p = o /\ v = u /\ outbox[o][u] # "NONE" /\ outbox'[p][v] = "PENDING"
         /\ \/ UNCHANGED receipt
            \/ /\ receipt' = [receipt EXCEPT ![u] = "FAILED"] /\ receipt[u] = "UNKNOWN"
               /\ copies[o][u] = 0 /\ \A w \in Worker : u \notin worker[w].batch
<1>1. /\ Requeue(o, u) /\ StillAssigned(o, u) /\ receiptOf[u] = o
      /\ outbox[o][u] \in {"FAILED", "PENDING", "SENT"} /\ ~InventoryLocked
  BY DEF RetryFailed, RetryAcknowledged
<1>2. \/ UNCHANGED receipt
      \/ /\ receipt' = [receipt EXCEPT ![u] = "FAILED"] /\ receipt[u] = "UNKNOWN"
         /\ copies[o][u] = 0 /\ \A w \in Worker : u \notin worker[w].batch
  BY DEF RetryFailed, RetryAcknowledged
<1>3. /\ Notify(o, {u}, "PENDING")
      /\ attempts' = [attempts EXCEPT ![o][u] = 0] /\ leased' = [leased EXCEPT ![o][u] = FALSE]
      /\ UNCHANGED <<orderVars, stockVars, receiptOf, moneyVars, worker, copies>>
  BY <1>1 DEF Requeue
<1>4. /\ outbox' \in [Order -> [Unit -> NotificationStatus]]
      /\ \A p \in Order, v \in Unit :
           outbox'[p][v] = IF p = o /\ v \in {u} THEN "PENDING" ELSE outbox[p][v]
  BY <1>3, Notified DEF NotificationStatus
<1>5. receipt' \in [Unit -> ReceiptStatus] /\ receiptOf' \in [Unit -> Order \cup {None}]
  BY <1>2, <1>3, WorkColumns DEF ReceiptStatus
<1>6. attempts' \in [Order -> [Unit -> 0..MaxAttempts]] /\ leased' \in [Order -> [Unit -> BOOLEAN]]
  BY <1>3, WorkColumns
<1>7. TypeInv'
  BY <1>3, <1>4, <1>5 DEF WorkInv, TypeInv, TypeOK, orderVars, stockVars, moneyVars
<1>8. \A w \in Worker : SlotHolds(w)'
  BY <1>3 DEF WorkInv, SlotHolds, Placed, orderVars
<1>9. Counted'
  BY <1>3, <1>4, WorkColumns DEF Counted
<1>10. WorkInv'
  BY <1>3, <1>6, <1>7, <1>8, <1>9, WorkColumns DEF WorkInv, WorkerTypeOK, TypeInv
<1> QED BY <1>1, <1>2, <1>3, <1>4, <1>10

------------------------------------------------------------------------------
(* What a transaction of the core may do to an order that has files on      *)
(* their way.                                                               *)

(* An order keeps its invoice; one in fulfilment keeps its units and can    *)
(* only be completed, by a download.                                        *)
OrdersKept ==
  \A o \in Order :
    /\ status[o] # "NONE" => status'[o] # "NONE" /\ invoice'[o] = invoice[o]
    /\ status[o] \in {"FULFILLING", "COMPLETED", "REFUNDED"} => items'[o] = items[o]
    /\ status[o] \in {"COMPLETED", "REFUNDED"} => status'[o] = status[o]
    /\ status[o] = "FULFILLING" /\ status'[o] # "FULFILLING"
         => status'[o] = "COMPLETED" /\ IsWeb(Owner(o))
    /\ status'[o] = "COMPLETED" => status[o] \in {"FULFILLING", "COMPLETED"}

(* Notifications are new, for a Telegram order in fulfilment.               *)
NoticesKept ==
  \A o \in Order, u \in Unit :
    outbox'[o][u] # outbox[o][u]
    => /\ outbox[o][u] = "NONE" /\ outbox'[o][u] = "PENDING"
       /\ status'[o] = "FULFILLING" /\ ~IsWeb(Owner(o))'

(* Receipts are new, or downloaded, and of a Web order.                     *)
ReceiptsKept ==
  \A u \in Unit :
    /\ receiptOf'[u] # receiptOf[u] => receiptOf[u] = None
    /\ receipt'[u] # receipt[u] =>
         /\ \/ receipt[u] = "NONE" /\ receipt'[u] = "READY"
            \/ receipt[u] = "READY" /\ receipt'[u] = "SENT"
         /\ receiptOf'[u] \in Order
    /\ receipt'[u] # receipt[u] \/ receiptOf'[u] # receiptOf[u] =>
         /\ receiptOf'[u] \in Order /\ status'[receiptOf'[u]] # "NONE"
         /\ invoice'[receiptOf'[u]].buyer \in WebBuyer
    /\ deliveredTo'[u] # deliveredTo[u] =>
         /\ receipt[u] = "READY" /\ deliveredTo'[u] = receiptOf[u]
         /\ receiptOf[u] \in Order /\ status[receiptOf[u]] # "NONE"
         /\ invoice[receiptOf[u]].buyer \in WebBuyer

CoreKeeps == OrdersKept /\ NoticesKept /\ ReceiptsKept

(* An order that is not yet in fulfilment moves, and no other loses a unit. *)
LEMMA OrderMoves ==
  ASSUME TypeInv, NEW o \in Order, NEW to,
         status[o] \notin {"FULFILLING", "COMPLETED", "REFUNDED"}, to \notin {"NONE", "COMPLETED"},
         status' = [status EXCEPT ![o] = to],
         \A p \in Order \ {o} : items'[p] = items[p] /\ invoice'[p] = invoice[p],
         status[o] # "NONE" => invoice'[o] = invoice[o]
  PROVE  OrdersKept
<1>1. \A p \in Order : status'[p] = IF p = o THEN to ELSE status[p]
  BY DEF TypeInv, TypeOK
<1> QED BY <1>1 DEF OrdersKept

(* A transaction that leaves orders alone.                                  *)
LEMMA OrdersStay == UNCHANGED <<status, invoice, items>> => OrdersKept
BY DEF OrdersKept

(* A transaction that delivers and queues nothing.                          *)
LEMMA QueueStays == UNCHANGED <<deliveryVars, deliveredTo>> => NoticesKept /\ ReceiptsKept
BY DEF NoticesKept, ReceiptsKept, deliveryVars

(* Queuing the units of an order that is now in fulfilment.                 *)
LEMMA QueueKeeps ==
  ASSUME TypeInv, NEW o \in Order, NEW b, NEW T \in SUBSET Unit, QueueDelivery(b, o, T),
         invoice'[o].buyer = b, status'[o] = "FULFILLING", UNCHANGED deliveredTo
  PROVE  NoticesKept /\ ReceiptsKept
<1>1. CASE IsWeb(b) /\ QueueWeb(o, T)
  <2>1. /\ \A u \in T : receiptOf[u] \in {None, o}
        /\ \A u \in Unit : /\ receipt'[u] = IF u \in T /\ receipt[u] = "NONE" THEN "READY" ELSE receipt[u]
                           /\ receiptOf'[u] = IF u \in T THEN o ELSE receiptOf[u]
        /\ UNCHANGED outbox
    BY <1>1 DEF QueueWeb
  <2>2. b \in WebBuyer
    BY <1>1 DEF IsWeb
  <2>3. NoticesKept
    BY <2>1 DEF NoticesKept
  <2>4. ASSUME NEW u \in Unit, receipt'[u] # receipt[u] \/ receiptOf'[u] # receiptOf[u]
        PROVE  receiptOf'[u] = o
    BY <2>1, <2>4
  <2>5. ReceiptsKept
    BY <2>1, <2>2, <2>4 DEF ReceiptsKept
  <2> QED BY <2>3, <2>5
<1>2. CASE ~IsWeb(b) /\ QueueTelegram(o, T)
  <2>1. /\ outbox' = [outbox EXCEPT ![o] =
                        [u \in Unit |-> IF u \in T /\ outbox[o][u] = "NONE" THEN "PENDING"
                                        ELSE outbox[o][u]]]
        /\ UNCHANGED <<receipt, receiptOf>>
    BY <1>2 DEF QueueTelegram
  <2>2. outbox \in [Order -> [Unit -> NotificationStatus]]
    BY DEF TypeInv, TypeOK
  <2>3. ASSUME NEW p \in Order, NEW u \in Unit, outbox'[p][u] # outbox[p][u]
        PROVE  p = o /\ outbox[p][u] = "NONE" /\ outbox'[p][u] = "PENDING"
    BY <2>1, <2>2, <2>3
  <2>4. NoticesKept
    BY <1>2, <2>3 DEF NoticesKept, IsWeb, Owner
  <2> QED BY <2>1, <2>4 DEF ReceiptsKept
<1> QED BY <1>1, <1>2 DEF QueueDelivery

(* Checkouts keep all this ...                                              *)
LEMMA CheckoutKeeps == ASSUME TypeInv, NEW o \in Order, Checkout(o) PROVE CoreKeeps
<1>1. PICK b \in Buyer, m \in Method, quantity \in 1..MaxQuantity :
        \/ CreateInvoice(o, b, m, quantity)
        \/ BuyFromWallet(o, b, m, quantity)
        \/ PreorderFromWallet(o, b, m, quantity)
  BY DEF Checkout
<1>2. /\ status[o] = "NONE"
      /\ status \in [Order -> OrderStatus] /\ invoice \in [Order -> Invoice \cup {None}]
      /\ items \in [Order -> SUBSET Unit]
  BY <1>1 DEF CreateInvoice, BuyFromWallet, PreorderFromWallet, CanCheckout, TypeInv, TypeOK
<1>3. CASE CreateInvoice(o, b, m, quantity) \/ PreorderFromWallet(o, b, m, quantity)
  <2>1. /\ UNCHANGED <<items, deliveryVars, deliveredTo>>
        /\ \E to \in {"PENDING_PAYMENT", "PAID_WAITING_STOCK"} : status' = [status EXCEPT ![o] = to]
        /\ \E i : invoice' = [invoice EXCEPT ![o] = i]
    BY <1>3 DEF CreateInvoice, PreorderFromWallet, stockVars
  <2>2. \A p \in Order \ {o} : items'[p] = items[p] /\ invoice'[p] = invoice[p]
    BY <1>2, <2>1
  <2>3. OrdersKept
    BY <1>2, <2>1, <2>2, OrderMoves
  <2> QED BY <2>1, <2>3, QueueStays DEF CoreKeeps
<1>4. CASE BuyFromWallet(o, b, m, quantity)
  <2>1. PICK T \in SUBSET Unit : ClaimUnits(o, T) /\ QueueDelivery(b, o, T)
    BY <1>4 DEF BuyFromWallet, Sellable
  <2>2. /\ status' = [status EXCEPT ![o] = "FULFILLING"] /\ UNCHANGED deliveredTo
        /\ invoice' = [invoice EXCEPT ![o] = NewInvoice(b, "WALLET", quantity, 0)]
    BY <1>4 DEF BuyFromWallet
  <2>3. NewInvoice(b, "WALLET", quantity, 0).buyer = b
    BY DEF NewInvoice
  <2>4. \A p \in Order \ {o} : items'[p] = items[p] /\ invoice'[p] = invoice[p]
    BY <1>2, <2>1, <2>2 DEF ClaimUnits
  <2>5. OrdersKept
    BY <1>2, <2>2, <2>4, OrderMoves
  <2>6. invoice'[o].buyer = b /\ status'[o] = "FULFILLING"
    BY <1>2, <2>2, <2>3
  <2>7. NoticesKept /\ ReceiptsKept
    BY <2>1, <2>2, <2>6, QueueKeeps
  <2> QED BY <2>5, <2>7 DEF CoreKeeps
<1> QED BY <1>1, <1>3, <1>4

(* ... and so do confirmations, ...                                         *)
LEMMA ConfirmKeeps == ASSUME TypeInv, NEW o \in Order, ConfirmPayment(o) PROVE CoreKeeps
<1>1. /\ status[o] = "PENDING_PAYMENT" /\ UNCHANGED <<invoice, deliveredTo>>
      /\ items \in [Order -> SUBSET Unit] /\ status \in [Order -> OrderStatus]
  BY DEF ConfirmPayment, ConfirmFromStock, ConfirmOutOfStock, ConfirmPreorder, Payable, stockVars,
     TypeInv, TypeOK
<1>2. CASE ConfirmFromStock(o)
  <2>1. PICK T \in SUBSET Unit : ClaimUnits(o, T) /\ QueueDelivery(Owner(o), o, T)
    BY <1>2 DEF ConfirmFromStock, Sellable
  <2>2. status' = [status EXCEPT ![o] = "FULFILLING"]
    BY <1>2 DEF ConfirmFromStock
  <2>3. \A p \in Order \ {o} : items'[p] = items[p]
    BY <1>1, <2>1 DEF ClaimUnits
  <2>4. OrdersKept
    BY <1>1, <2>2, <2>3, OrderMoves
  <2>5. NoticesKept /\ ReceiptsKept
    BY <1>1, <2>1, <2>2, QueueKeeps DEF Owner
  <2> QED BY <2>4, <2>5 DEF CoreKeeps
<1>3. CASE ConfirmOutOfStock(o) \/ ConfirmPreorder(o)
  <2>1. /\ UNCHANGED <<items, deliveryVars>>
        /\ \E to \in {"REFUNDED", "PAID_WAITING_STOCK"} : status' = [status EXCEPT ![o] = to]
    BY <1>3 DEF ConfirmOutOfStock, ConfirmPreorder
  <2>2. OrdersKept
    BY <1>1, <2>1, OrderMoves
  <2> QED BY <1>1, <2>1, <2>2, QueueStays DEF CoreKeeps
<1> QED BY <1>2, <1>3 DEF ConfirmPayment

(* ... the end of an unpaid invoice and the money that comes after it, ...  *)
LEMMA CloseKeeps ==
  ASSUME TypeInv, NEW o \in Order, ExpireOrder(o) \/ CancelOrder(o) \/ CreditExpiredOrder(o)
  PROVE  CoreKeeps
<1>1. CASE CreditExpiredOrder(o)
  BY <1>1, OrdersStay, QueueStays DEF CreditExpiredOrder, CoreKeeps, stockVars
<1>2. CASE ExpireOrder(o) \/ CancelOrder(o)
  <2>1. PICK to \in {"EXPIRED", "CANCELLED"} : CloseUnpaid(o, to)
    BY <1>2 DEF ExpireOrder, CancelOrder
  <2>2. /\ status[o] = "PENDING_PAYMENT" /\ items \in [Order -> SUBSET Unit]
        /\ status' = [status EXCEPT ![o] = to] /\ ReleaseUnits(o)
        /\ UNCHANGED <<invoice, deliveredTo, deliveryVars>>
    BY <1>2, <2>1 DEF ExpireOrder, CancelOrder, CloseUnpaid, TypeInv, TypeOK
  <2>3. \A p \in Order \ {o} : items'[p] = items[p]
    BY <2>2 DEF ReleaseUnits
  <2>4. OrdersKept
    BY <2>2, <2>3, OrderMoves
  <2> QED BY <2>2, <2>4, QueueStays DEF CoreKeeps
<1> QED BY <1>1, <1>2

(* ... preorders, ...                                                       *)
LEMMA PreorderKeeps ==
  ASSUME TypeInv, NEW o \in Order,
         AllocatePaidPreorder(o) \/ (\E u \in Unit : AssignStock(o, u)) \/ CancelPaidPreorder(o)
  PROVE  CoreKeeps
<1>1. /\ status[o] = "PAID_WAITING_STOCK" /\ UNCHANGED <<invoice, deliveredTo>>
      /\ items \in [Order -> SUBSET Unit] /\ status \in [Order -> OrderStatus]
  BY DEF AllocatePaidPreorder, AssignStock, CancelPaidPreorder, Waiting, stockVars, TypeInv, TypeOK
<1>2. ASSUME NEW T \in SUBSET Unit, NEW S \in SUBSET Unit, ClaimUnits(o, T),
             QueueDelivery(Owner(o), o, S), status' = [status EXCEPT ![o] = "FULFILLING"]
      PROVE  CoreKeeps
  <2>1. \A p \in Order \ {o} : items'[p] = items[p]
    BY <1>1, <1>2 DEF ClaimUnits
  <2>2. OrdersKept
    BY <1>1, <1>2, <2>1, OrderMoves
  <2>3. NoticesKept /\ ReceiptsKept
    BY <1>1, <1>2, QueueKeeps DEF Owner
  <2> QED BY <2>2, <2>3 DEF CoreKeeps
<1>3. ASSUME NEW T \in SUBSET Unit PROVE AllUnits(o, T) \in SUBSET Unit
  BY <1>1 DEF AllUnits
<1>4. CASE AllocatePaidPreorder(o)
  <2>1. PICK T \in SUBSET Unit : ClaimUnits(o, T) /\ QueueDelivery(Owner(o), o, AllUnits(o, T))
    BY <1>4 DEF AllocatePaidPreorder, Sellable
  <2>2. status' = [status EXCEPT ![o] = "FULFILLING"]
    BY <1>4 DEF AllocatePaidPreorder
  <2> QED BY <1>2, <1>3, <2>1, <2>2
<1>5. ASSUME NEW u \in Unit, AssignStock(o, u) PROVE CoreKeeps
  <2>1. /\ ClaimUnits(o, {u})
        /\ \/ UNCHANGED <<status, deliveryVars>>
           \/ /\ status' = [status EXCEPT ![o] = "FULFILLING"]
              /\ QueueDelivery(Owner(o), o, AllUnits(o, {u}))
    BY <1>5 DEF AssignStock
  <2>2. CASE UNCHANGED <<status, deliveryVars>>
    <3>1. status' = [status EXCEPT ![o] = "PAID_WAITING_STOCK"]
      BY <1>1, <2>2
    <3>2. \A p \in Order \ {o} : items'[p] = items[p]
      BY <1>1, <2>1 DEF ClaimUnits
    <3>3. OrdersKept
      BY <1>1, <3>1, <3>2, OrderMoves
    <3> QED BY <1>1, <2>2, <3>3, QueueStays DEF CoreKeeps
  <2> QED BY <1>2, <1>3, <2>1, <2>2
<1>6. CASE CancelPaidPreorder(o)
  <2>1. UNCHANGED <<items, deliveryVars>> /\ status' = [status EXCEPT ![o] = "REFUNDED"]
    BY <1>6 DEF CancelPaidPreorder
  <2>2. OrdersKept
    BY <1>1, <2>1, OrderMoves
  <2> QED BY <1>1, <2>1, <2>2, QueueStays DEF CoreKeeps
<1> QED BY <1>4, <1>5, <1>6

(* ... and downloads.                                                       *)
LEMMA DownloadKeeps ==
  ASSUME TypeInv, NEW o \in Order, NEW R \in SUBSET Unit, DownloadWeb(o, R)
  PROVE  CoreKeeps
<1> DEFINE ready == {u \in R : receipt[u] = "READY"}
<1>1. /\ status[o] \in {"FULFILLING", "COMPLETED"} /\ IsWeb(Owner(o))
      /\ \A u \in ready : receipt[u] = "READY" /\ receiptOf[u] = o
      /\ UNCHANGED <<invoice, items, receiptOf, outbox>>
  BY DEF DownloadWeb, Downloadable, Receipts
<1>2. \A u \in Unit : /\ receipt'[u] = IF u \in ready THEN "SENT" ELSE receipt[u]
                      /\ deliveredTo'[u] = IF u \in ready THEN o ELSE deliveredTo[u]
  BY DEF DownloadWeb
<1>3. /\ status \in [Order -> OrderStatus]
      /\ \/ UNCHANGED status
         \/ status[o] = "FULFILLING" /\ status' = [status EXCEPT ![o] = "COMPLETED"]
  BY DEF DownloadWeb, TypeInv, TypeOK
<1> HIDE DEF ready
<1>4. OrdersKept
  BY <1>1, <1>3 DEF OrdersKept
<1>5. NoticesKept
  BY <1>1 DEF NoticesKept
<1>6. \A p \in Order : status[p] # "NONE" => status'[p] # "NONE"
  BY <1>4 DEF OrdersKept
<1>7. ReceiptsKept
  BY <1>1, <1>2, <1>6 DEF ReceiptsKept, IsWeb, Owner
<1> QED BY <1>4, <1>5, <1>7 DEF CoreKeeps

(* Every transaction of the core keeps what is on its way.                  *)
LEMMA CoreStepKeeps == ASSUME TypeInv, [Next]_vars PROVE CoreKeeps
<1>1. CASE UNCHANGED vars
  BY <1>1, OrdersStay, QueueStays DEF CoreKeeps, vars, orderVars, stockVars
<1>2. CASE InventoryStep
  <2>1. UNCHANGED <<orderVars, deliveredTo, deliveryVars>>
    BY <1>2 DEF InventoryStep, AddStock, CheckHealth, ArchiveStock, RestoreStock, DeleteStock,
       StockMoves, SetBannedPolicy
  <2> QED BY <2>1, OrdersStay, QueueStays DEF CoreKeeps, orderVars
<1>3. ASSUME NEW o \in Order, OrderStep(o) PROVE CoreKeeps
  <2>1. CASE TimePasses(o) \/ SubmitTransfer(o) \/ VerifyTransfer(o) \/ RejectTransfer(o)
    BY <2>1, OrdersStay, QueueStays DEF TimePasses, SubmitTransfer, VerifyTransfer, RejectTransfer,
       AttemptMoves, CoreKeeps, stockVars
  <2> QED BY <1>3, <2>1, CheckoutKeeps, ConfirmKeeps, CloseKeeps, PreorderKeeps, DownloadKeeps
          DEF OrderStep
<1> QED BY <1>1, <1>2, <1>3 DEF Next

(* With the types of the worker's own columns.                              *)
LEMMA CoreStepWorks ==
  ASSUME WorkInv, CoreStep \/ UNCHANGED allVars
  PROVE  /\ WorkInv' /\ CoreKeeps /\ UNCHANGED <<worker, copies>> /\ [Next]_vars
         /\ (~InventoryLocked \/ UNCHANGED vars)
<1>1. [Next]_vars /\ UNCHANGED workerVars /\ (~InventoryLocked \/ UNCHANGED vars)
  BY DEF CoreStep, allVars
<1>2. TypeInv /\ TypeInv' /\ CoreKeeps
  BY <1>1, TypeStep, CoreStepKeeps DEF WorkInv
<1>3. UNCHANGED <<worker, leased, attempts, copies>>
  BY <1>1 DEF workerVars
<1>4. \A w \in Worker : SlotHolds(w)'
  BY <1>2, <1>3 DEF WorkInv, SlotHolds, Placed, CoreKeeps, OrdersKept
<1>5. Counted'
  BY <1>2, <1>3, WorkColumns DEF Counted, CoreKeeps, NoticesKept
<1> QED BY <1>1, <1>2, <1>3, <1>4, <1>5, WorkColumns DEF WorkInv, WorkerTypeOK, TypeInv

------------------------------------------------------------------------------
(* The types hold for ever.                                                 *)

(* What a slot does that is not quiet.                                      *)
LoudStep(w) ==
  \/ \E o \in Order, C \in SUBSET Unit : Claim(w, o, C)
  \/ Reserve(w) \/ MarkUnknown(w)
  \/ \E outcome \in Outcome : Send(w, outcome)
  \/ RecordAccepted(w)
  \/ RecordUnknown(w) /\ ~(UNCHANGED deliveryVars)
  \/ RecordTransient(w) \/ RecordRejected(w) \/ RecordRecipientGone(w)
  \/ RefundCommit(w)

(* The kinds of steps there are.                                            *)
LEMMA StepKinds ==
  ASSUME [DeliveryNext]_allVars
  PROVE  \/ CoreStep \/ UNCHANGED allVars
         \/ \E o \in Order : LeaseExpires(o)
         \/ \E o \in Order, u \in Unit : RetryFailed(o, u) \/ RetryAcknowledged(o, u)
         \/ \E w \in Worker : QuietStep(w) \/ LoudStep(w)
BY DEF DeliveryNext, WorkerStep, Reserving, Recording, Refunding, QuietStep, LoudStep

(* Each keeps the types, and those of the worker's own columns with them.   *)
LEMMA WorkStep == WorkInv /\ [DeliveryNext]_allVars => WorkInv'
<1> SUFFICES ASSUME WorkInv, [DeliveryNext]_allVars PROVE WorkInv'
  OBVIOUS
<1>1. ASSUME NEW w \in Worker, LoudStep(w) PROVE WorkInv'
  BY <1>1, Claims, Reserves, MarksUnknown, Sends, RecordsAccepted, RecordsUnknown, RecordsFailed,
     RefundsCommit DEF LoudStep
<1> QED BY <1>1, StepKinds, CoreStepWorks, LeaseRunsOut, Retries, QuietSteps

(* Only an upload adds to the history of misread answers.                   *)
LEMMA MisreadGrows ==
  ASSUME WorkInv, misread \in [Order -> SUBSET Unit], [DeliveryNext]_allVars
  PROVE  misread' \in [Order -> SUBSET Unit]
<1>1. CASE CoreStep \/ UNCHANGED allVars
  BY <1>1 DEF CoreStep, workerVars, allVars
<1>2. CASE \E o \in Order : LeaseExpires(o)
  BY <1>2 DEF LeaseExpires
<1>3. CASE \E o \in Order, u \in Unit : RetryFailed(o, u) \/ RetryAcknowledged(o, u)
  BY <1>3 DEF RetryFailed, RetryAcknowledged, Requeue
<1>4. ASSUME NEW w \in Worker, WorkerStep(w) PROVE misread' \in [Order -> SUBSET Unit]
  <2>1. CASE \E o \in Order, C \in SUBSET Unit : Claim(w, o, C)
    BY <2>1 DEF Claim
  <2>2. CASE Inspect(w) \/ Throw(w) \/ Crash(w)
    BY <2>2 DEF Inspect, Throw, Crash
  <2>3. CASE Reserving(w)
    BY <2>3 DEF Reserving, Reserve, Refuse, Doubt, MarkUnknown, Park, NothingToSend
  <2>4. ASSUME NEW outcome \in Outcome, Send(w, outcome) PROVE misread' \in [Order -> SUBSET Unit]
    <3>1. worker[w].batch \in SUBSET Unit
      BY WorkColumns DEF Slot
    <3>2. \/ UNCHANGED misread
          \/ misread' = [misread EXCEPT ![worker[w].order] = @ \cup worker[w].batch]
      BY <2>4 DEF Send
    <3> QED BY <3>1, <3>2
  <2>5. CASE Recording(w)
    <3>1. UNCHANGED sentVars
      BY <2>5 DEF Recording, RecordAccepted, RecordUnknown, RecordTransient, RecordRejected,
         RecordRecipientGone, SettleRest, Settle
    <3> QED BY <3>1
  <2>6. CASE Refunding(w)
    BY <2>6 DEF Refunding, RefundCheck, RefundDenied, RefundCommit
  <2> QED BY <1>4, <2>1, <2>2, <2>3, <2>4, <2>5, <2>6 DEF WorkerStep
<1> QED BY <1>1, <1>2, <1>3, <1>4 DEF DeliveryNext

(* Whatever crashes, is late, lost or retried, every column of the shop and *)
(* of the worker keeps its type: a bundle gives back no attempt that was    *)
(* not counted, and no wallet is overdrawn by a refund (Delivery,           *)
(* DeliveryTypeOK).                                                         *)
THEOREM DeliveryTypesHold == DeliverySpec => []DeliveryTypeOK
<1> DEFINE Typed == WorkInv /\ misread \in [Order -> SUBSET Unit]
<1>1. DeliveryInit => Typed
  BY WorkStart DEF DeliveryInit
<1>2. Typed /\ [DeliveryNext]_allVars => Typed'
  BY WorkStep, MisreadGrows
<1>3. Typed => DeliveryTypeOK
  BY DEF WorkInv, WorkerTypeOK, DeliveryTypeOK
<1> QED BY <1>1, <1>2, <1>3, PTL DEF DeliverySpec

------------------------------------------------------------------------------
(* One file, one upload.  DeliveredOnce is not inductive: it needs that a   *)
(* slot with files to send owns their receipts, that no two slots have the  *)
(* same file, that what a slot has not sent was never accepted, and that    *)
(* the receipt of an accepted file is not free to be reserved.              *)

OwnsReceipts(w) ==
  worker[w].stage \in Active =>
    \A u \in worker[w].batch :
      receiptOf[u] = worker[w].order /\ receipt[u] \in {"SENDING", "UNKNOWN"}

BatchesApart ==
  \A v, w \in Worker :
    v # w /\ worker[v].stage \in Active /\ worker[w].stage \in Active
    => worker[v].batch \cap worker[w].batch = {}

NotYetAccepted(w) ==
  worker[w].stage \in Active \ {"ACCEPTED", "AMBIGUOUS"} =>
    \A o \in Order : \A u \in worker[w].batch : copies[o][u] = 0

AcceptedHasReceipt ==
  \A o \in Order, u \in Unit :
    copies[o][u] # 0 => /\ copies[o][u] = 1 /\ receiptOf[u] = o
                        /\ receipt[u] \in {"SENDING", "UNKNOWN", "SENT"}

OnceInv ==
  /\ \A w \in Worker : OwnsReceipts(w) /\ NotYetAccepted(w)
  /\ BatchesApart
  /\ AcceptedHasReceipt

(* Nothing is sent at first.                                                *)
LEMMA OnceStart == DeliveryInit => OnceInv
BY DEF DeliveryInit, Idle, OnceInv, OwnsReceipts, NotYetAccepted, BatchesApart, AcceptedHasReceipt,
   Active, Holding, Outcomes

(* A slot keeps its files or drops them, and takes no new ones.             *)
LEMMA OnceSlot ==
  ASSUME WorkInv, OnceInv, NEW w \in Worker, NEW row \in Slot, Becomes(w, row),
         row.stage \in Active /\ row.batch # {} =>
           /\ worker[w].stage \in Active /\ row.batch = worker[w].batch
           /\ row.order = worker[w].order
           /\ row.stage \notin {"ACCEPTED", "AMBIGUOUS"}
                => worker[w].stage \notin {"ACCEPTED", "AMBIGUOUS"},
         UNCHANGED <<receiptOf, copies>>,
         \A u \in Unit : receipt'[u] = receipt[u] \/ receipt'[u] = "UNKNOWN"
  PROVE  OnceInv'
<1>1. ASSUME NEW v \in Worker PROVE OwnsReceipts(v)' /\ NotYetAccepted(v)'
  <2>1. worker[v].batch \subseteq Unit
    BY WorkColumns DEF Slot
  <2>2. CASE v = w
    BY <2>1, <2>2 DEF OnceInv, OwnsReceipts, NotYetAccepted, Becomes
  <2>3. CASE v # w
    BY <2>1, <2>3 DEF OnceInv, OwnsReceipts, NotYetAccepted, Becomes
  <2> QED BY <2>2, <2>3
<1>2. BatchesApart'
  BY DEF OnceInv, BatchesApart, Becomes
<1>3. AcceptedHasReceipt'
  BY DEF OnceInv, AcceptedHasReceipt
<1> QED BY <1>1, <1>2, <1>3 DEF OnceInv

(* Reserving takes a file that no slot has and that nobody got.             *)
LEMMA OnceReserve ==
  ASSUME WorkInv, OnceInv, NEW w \in Worker, Reserve(w)
  PROVE  OnceInv'
<1>1. worker[w].stage = "RESERVING" /\ UNCHANGED <<orderVars, stockVars, outbox, moneyVars, copies>>
  BY Reserves
<1>2. PICK u \in Unit, row \in Slot :
        /\ MaySend(worker[w].order, u)
        /\ receipt' = [receipt EXCEPT ![u] = "SENDING"]
        /\ receiptOf' = [receiptOf EXCEPT ![u] = worker[w].order]
        /\ Becomes(w, row) /\ row.stage = "RESERVING" /\ row.order = worker[w].order
        /\ row.batch = worker[w].batch \cup {u}
  BY Reserves
<1>3. \A v \in Unit : /\ receipt'[v] = IF v = u THEN "SENDING" ELSE receipt[v]
                      /\ receiptOf'[v] = IF v = u THEN worker[w].order ELSE receiptOf[v]
  BY <1>2, WorkColumns
<1>4. receiptOf[u] = None \/ receipt[u] = "FAILED"
  BY <1>2 DEF MaySend, CanMoveReceipt
<1>5. ASSUME NEW v \in Worker, worker[v].stage \in Active PROVE u \notin worker[v].batch
  <2>1. worker[v].order \in Order
    BY <1>5, ActsForPlaced DEF Active, Holding, Outcomes
  <2> QED BY <1>4, <1>5, <2>1, OrderAssumption DEF OnceInv, OwnsReceipts
<1>6. \A o \in Order : copies[o][u] = 0
  BY <1>4, OrderAssumption DEF OnceInv, AcceptedHasReceipt
<1>7. worker[w].stage \in Active \ {"ACCEPTED", "AMBIGUOUS"}
  BY <1>1 DEF Active, Holding
<1>8. \A v \in Worker : worker[v].batch \subseteq Unit
  BY WorkColumns DEF Slot
<1>9. ASSUME NEW v \in Worker PROVE OwnsReceipts(v)' /\ NotYetAccepted(v)'
  <2>1. CASE v = w
    BY <1>1, <1>2, <1>3, <1>6, <1>7, <1>8, <2>1 DEF OnceInv, OwnsReceipts, NotYetAccepted, Becomes
  <2>2. CASE v # w
    BY <1>1, <1>2, <1>3, <1>5, <1>8, <2>2 DEF OnceInv, OwnsReceipts, NotYetAccepted, Becomes
  <2> QED BY <2>1, <2>2
<1>10. BatchesApart'
  BY <1>2, <1>5, <1>7 DEF OnceInv, BatchesApart, Becomes
<1>11. AcceptedHasReceipt'
  BY <1>1, <1>3, <1>6 DEF OnceInv, AcceptedHasReceipt
<1> QED BY <1>9, <1>10, <1>11 DEF OnceInv

(* An upload counts once for each file of the batch, which had none.        *)
LEMMA OnceSend ==
  ASSUME WorkInv, OnceInv, NEW w \in Worker, NEW outcome \in Outcome, Send(w, outcome)
  PROVE  OnceInv'
<1>1. worker[w].stage = "RESERVING" /\ UNCHANGED <<receipt, receiptOf>>
  BY Sends DEF vars, deliveryVars
<1>2. PICK row \in Slot :
        /\ Becomes(w, row) /\ row.stage = outcome /\ row.order = worker[w].order
        /\ row.batch = worker[w].batch
  BY Sends
<1>3. worker[w].stage \in Active \ {"ACCEPTED", "AMBIGUOUS"}
  BY <1>1 DEF Active, Holding
<1>4. PICK hit \in BOOLEAN :
        /\ hit => outcome \in {"ACCEPTED", "AMBIGUOUS"}
        /\ \A p \in Order, u \in Unit :
             copies'[p][u] = IF hit /\ p = worker[w].order /\ u \in worker[w].batch
                             THEN copies[p][u] + 1 ELSE copies[p][u]
  <2>1. CASE UNCHANGED copies
    BY <2>1
  <2>2. CASE /\ outcome \in {"ACCEPTED", "AMBIGUOUS"}
             /\ \A p \in Order, u \in Unit :
                  copies'[p][u] = IF p = worker[w].order /\ u \in worker[w].batch
                                  THEN copies[p][u] + 1 ELSE copies[p][u]
    BY <2>2
  <2> QED BY <2>1, <2>2, Sends
<1>5. \A v \in Worker : worker[v].batch \subseteq Unit
  BY WorkColumns DEF Slot
<1>6. \A u \in worker[w].batch :
        /\ \A o \in Order : copies[o][u] = 0
        /\ receiptOf[u] = worker[w].order /\ receipt[u] \in {"SENDING", "UNKNOWN"}
  BY <1>3 DEF OnceInv, OwnsReceipts, NotYetAccepted
<1>7. ASSUME NEW v \in Worker PROVE OwnsReceipts(v)' /\ NotYetAccepted(v)'
  <2>1. CASE v = w
    BY <1>1, <1>2, <1>3, <1>4, <1>5, <1>6, <2>1 DEF OwnsReceipts, NotYetAccepted, Becomes
  <2>2. CASE v # w
    <3>1. worker'[v] = worker[v]
      BY <1>2, <2>2 DEF Becomes
    <3>2. worker[v].stage \in Active => worker[v].batch \cap worker[w].batch = {}
      BY <1>3, <2>2 DEF OnceInv, BatchesApart
    <3> QED BY <1>1, <1>4, <1>5, <3>1, <3>2 DEF OnceInv, OwnsReceipts, NotYetAccepted
  <2> QED BY <2>1, <2>2
<1>8. BatchesApart'
  BY <1>2, <1>3 DEF OnceInv, BatchesApart, Becomes
<1>9. AcceptedHasReceipt'
  <2> SUFFICES ASSUME NEW o \in Order, NEW u \in Unit, copies'[o][u] # 0
               PROVE  copies'[o][u] = 1 /\ receiptOf[u] = o /\ receipt[u] \in {"SENDING", "UNKNOWN", "SENT"}
    BY <1>1 DEF AcceptedHasReceipt
  <2>1. CASE hit /\ o = worker[w].order /\ u \in worker[w].batch
    BY <1>4, <1>6, <2>1
  <2>2. CASE ~(hit /\ o = worker[w].order /\ u \in worker[w].batch)
    BY <1>4, <2>2 DEF OnceInv, AcceptedHasReceipt
  <2> QED BY <2>1, <2>2
<1> QED BY <1>7, <1>8, <1>9 DEF OnceInv

(* Recording what came of a batch touches no other slot's receipts, and     *)
(* frees only those of files that were not accepted.                        *)
LEMMA OnceRecord ==
  ASSUME WorkInv, OnceInv, NEW w \in Worker, worker[w].stage \in Active,
         NEW files \in {"UNKNOWN", "FAILED", "SENT"},
         files = "FAILED" => worker[w].stage \notin {"ACCEPTED", "AMBIGUOUS"},
         \A u \in Unit : receipt'[u] = IF u \in worker[w].batch THEN files ELSE receipt[u],
         UNCHANGED <<receiptOf, copies>>,
         NEW row \in Slot, Becomes(w, row), row.stage \notin Active
  PROVE  OnceInv'
<1>1. \A v \in Worker : worker[v].batch \subseteq Unit
  BY WorkColumns DEF Slot
<1>2. ASSUME NEW v \in Worker PROVE OwnsReceipts(v)' /\ NotYetAccepted(v)'
  <2>1. CASE v = w
    BY <2>1 DEF OwnsReceipts, NotYetAccepted, Becomes
  <2>2. CASE v # w
    <3>1. worker'[v] = worker[v]
      BY <2>2 DEF Becomes
    <3>2. worker[v].stage \in Active => worker[v].batch \cap worker[w].batch = {}
      BY <2>2 DEF OnceInv, BatchesApart
    <3> QED BY <1>1, <3>1, <3>2 DEF OnceInv, OwnsReceipts, NotYetAccepted
  <2> QED BY <2>1, <2>2
<1>3. BatchesApart'
  BY DEF OnceInv, BatchesApart, Becomes
<1>4. \A o \in Order, u \in Unit : copies[o][u] # 0 /\ u \in worker[w].batch => files # "FAILED"
  BY DEF OnceInv, NotYetAccepted
<1>5. AcceptedHasReceipt'
  BY <1>4 DEF OnceInv, AcceptedHasReceipt
<1> QED BY <1>2, <1>3, <1>5 DEF OnceInv

(* The core neither takes a receipt away nor sends.                         *)
LEMMA OnceCore ==
  ASSUME WorkInv, OnceInv, CoreKeeps, UNCHANGED <<worker, copies>>
  PROVE  OnceInv'
<1>1. \A u \in Unit : receiptOf[u] # None => receiptOf'[u] = receiptOf[u]
  BY DEF CoreKeeps, ReceiptsKept
<1>2. \A u \in Unit : receipt[u] \in {"SENDING", "UNKNOWN", "SENT"} => receipt'[u] = receipt[u]
  BY DEF CoreKeeps, ReceiptsKept
<1>3. ASSUME NEW w \in Worker PROVE OwnsReceipts(w)' /\ NotYetAccepted(w)'
  <2>1. worker[w].batch \subseteq Unit
    BY WorkColumns DEF Slot
  <2>2. worker[w].stage \in Active => worker[w].order \in Order
    BY ActsForPlaced DEF Active, Holding, Outcomes
  <2> QED BY <1>1, <1>2, <2>1, <2>2, OrderAssumption DEF OnceInv, OwnsReceipts, NotYetAccepted
<1>4. BatchesApart'
  BY DEF OnceInv, BatchesApart
<1>5. AcceptedHasReceipt'
  BY <1>1, <1>2, OrderAssumption DEF OnceInv, AcceptedHasReceipt
<1> QED BY <1>3, <1>4, <1>5 DEF OnceInv

(* An operator frees a receipt only when no copy is out and no slot has it. *)
LEMMA OnceRetry ==
  ASSUME WorkInv, OnceInv, NEW o \in Order, NEW u \in Unit, RetryFailed(o, u) \/ RetryAcknowledged(o, u)
  PROVE  OnceInv'
<1>1. receiptOf[u] = o /\ UNCHANGED <<worker, receiptOf, copies>>
  BY Retries
<1>2. CASE UNCHANGED receipt
  BY <1>1, <1>2 DEF OnceInv, OwnsReceipts, NotYetAccepted, BatchesApart, AcceptedHasReceipt
<1>3. CASE ~UNCHANGED receipt
  <2>1. /\ receipt' = [receipt EXCEPT ![u] = "FAILED"]
        /\ copies[o][u] = 0 /\ \A w \in Worker : u \notin worker[w].batch
    BY <1>3, Retries
  <2>2. \A v \in Unit : v # u => receipt'[v] = receipt[v]
    BY <2>1, WorkColumns
  <2>3. \A w \in Worker : worker[w].batch \subseteq Unit
    BY WorkColumns DEF Slot
  <2>4. \A w \in Worker : OwnsReceipts(w)' /\ NotYetAccepted(w)'
    BY <1>1, <2>1, <2>2, <2>3 DEF OnceInv, OwnsReceipts, NotYetAccepted
  <2>5. BatchesApart'
    BY <1>1 DEF OnceInv, BatchesApart
  <2>6. AcceptedHasReceipt'
    BY <1>1, <2>1, <2>2 DEF OnceInv, AcceptedHasReceipt
  <2> QED BY <2>4, <2>5, <2>6 DEF OnceInv
<1> QED BY <1>2, <1>3

(* A slot that neither reserves nor sends.                                  *)
LEMMA OnceQuiet ==
  ASSUME WorkInv, OnceInv, NEW w \in Worker, QuietSlot(w), UNCHANGED <<receipt, receiptOf, copies>>
  PROVE  OnceInv'
<1>1. PICK row \in Slot :
        /\ Becomes(w, row)
        /\ row.stage # "IDLE" => row.order = worker[w].order
        /\ row.stage \in Active =>
             \/ worker[w].stage \in Holding /\ row.batch = worker[w].batch
             \/ row.batch = {}
  BY DEF QuietSlot
<1>2. worker[w].stage \in Holding => worker[w].stage \in Active \ {"ACCEPTED", "AMBIGUOUS"}
  BY DEF Active, Holding
<1>3. row.stage \in Active => row.stage # "IDLE"
  BY DEF Active, Holding, Outcomes
<1> QED BY <1>1, <1>2, <1>3, OnceSlot

(* Every step keeps it.                                                     *)
LEMMA OnceStep == WorkInv /\ OnceInv /\ [DeliveryNext]_allVars => OnceInv'
<1> SUFFICES ASSUME WorkInv, OnceInv, [DeliveryNext]_allVars PROVE OnceInv'
  OBVIOUS
<1>1. ASSUME NEW w \in Worker, LoudStep(w) PROVE OnceInv'
  <2>1. ASSUME NEW o \in Order, NEW C \in SUBSET Unit, Claim(w, o, C) PROVE OnceInv'
    BY <2>1, Claims, OnceSlot
  <2>2. CASE MarkUnknown(w)
    <3>1. /\ worker[w].stage = "DOUBTING" /\ UNCHANGED <<receiptOf, copies>>
          /\ \E u \in Unit : receipt' = [receipt EXCEPT ![u] = "UNKNOWN"]
      BY <2>2, MarksUnknown
    <3>2. PICK row \in Slot :
            /\ Becomes(w, row) /\ row.order = worker[w].order /\ row.batch = worker[w].batch
      BY <2>2, MarksUnknown
    <3>3. worker[w].stage \in Active \ {"ACCEPTED", "AMBIGUOUS"}
      BY <3>1 DEF Active, Holding
    <3>4. \A u \in Unit : receipt'[u] = receipt[u] \/ receipt'[u] = "UNKNOWN"
      BY <3>1, WorkColumns
    <3> QED BY <3>1, <3>2, <3>3, <3>4, OnceSlot
  <2>3. CASE RecordAccepted(w)
    <3>1. /\ worker[w].stage = "ACCEPTED" /\ Becomes(w, Idle) /\ UNCHANGED <<receiptOf, copies>>
          /\ \A u \in Unit : receipt'[u] = IF u \in worker[w].batch THEN "SENT" ELSE receipt[u]
      BY <2>3, RecordsAccepted
    <3>2. Idle \in Slot /\ Idle.stage \notin Active /\ worker[w].stage \in Active
      BY <3>1, DeliveryAssumption DEF Idle, Slot, Stage, Active, Holding, Outcomes
    <3> QED BY <3>1, <3>2, OnceRecord
  <2>4. ASSUME NEW files \in {"UNKNOWN", "FAILED"}, Recorded(w, files), worker[w].stage \in Outcomes,
               files = "FAILED" => worker[w].stage \notin {"ACCEPTED", "AMBIGUOUS"}
        PROVE  OnceInv'
    <3>1. PICK row \in Slot : Becomes(w, row) /\ row.stage \in {"IDLE", "REFUND"} \cup Settlement
      BY <2>4 DEF Recorded
    <3>2. row.stage \notin Active /\ worker[w].stage \in Active
      BY <2>4, <3>1 DEF Active, Holding, Outcomes, Settlement
    <3> QED BY <2>4, <3>1, <3>2, OnceRecord DEF Recorded
  <2>5. CASE RecordUnknown(w) /\ ~(UNCHANGED deliveryVars)
    BY <2>4, <2>5, RecordsUnknown DEF Outcomes
  <2>6. CASE RecordTransient(w) \/ RecordRejected(w) \/ RecordRecipientGone(w)
    BY <2>4, <2>6, RecordsFailed DEF Outcomes
  <2>7. CASE RefundCommit(w)
    BY <2>7, RefundsCommit, OnceQuiet
  <2> QED BY <1>1, <2>1, <2>2, <2>3, <2>5, <2>6, <2>7, OnceReserve, OnceSend DEF LoudStep
<1>2. ASSUME NEW w \in Worker, QuietStep(w) PROVE OnceInv'
  BY <1>2, QuietSteps, OnceQuiet DEF Quiet
<1>3. ASSUME NEW o \in Order, LeaseExpires(o) PROVE OnceInv'
  BY <1>3, LeaseRunsOut DEF OnceInv, OwnsReceipts, NotYetAccepted, BatchesApart, AcceptedHasReceipt,
     vars, deliveryVars
<1> QED BY <1>1, <1>2, <1>3, StepKinds, CoreStepWorks, OnceCore, OnceRetry

(* Telegram accepts the file of a unit at most once and for one order,      *)
(* however many slots work, crash, outlive their leases or miss an answer,  *)
(* and whatever operators retry (Delivery, DeliveredOnce).  An answer that  *)
(* comes but cannot be read is the one way out: the worker takes it for a   *)
(* refusal, DeliveredOnce does not count it, and TwiceDelivered shows the   *)
(* second copy.                                                             *)
THEOREM FilesGoOutOnce == DeliverySpec => []DeliveredOnce
<1>1. WorkInv /\ OnceInv => DeliveredOnce
  <2> SUFFICES ASSUME WorkInv, OnceInv, NEW u \in Unit, NEW o \in Order, NEW p \in Order
               PROVE  copies[o][u] <= 1 /\ (copies[o][u] = 1 /\ copies[p][u] = 1 => o = p)
    BY DEF DeliveredOnce
  <2>1. copies[o][u] \in Nat /\ copies[p][u] \in Nat
    BY WorkColumns
  <2> QED BY <2>1 DEF OnceInv, AcceptedHasReceipt
<1> QED BY WorkStart, WorkStep, OnceStart, OnceStep, <1>1, PTL DEF DeliverySpec

------------------------------------------------------------------------------
(* What is called sent was sent.  This needs that everything the worker     *)
(* touches belongs to a Telegram order in fulfilment or past it, and that   *)
(* the receipt and the delivery of a file say the same as its notification. *)

ToTelegram(o) == ~IsWeb(Owner(o)) /\ status[o] \in {"FULFILLING", "COMPLETED", "REFUNDED"}

SlotToTelegram(w) ==
  /\ worker[w].stage # "IDLE" => ToTelegram(worker[w].order)
  /\ worker[w].stage = "ACCEPTED" =>
       \A u \in worker[w].batch : copies[worker[w].order][u] = 1

OutboxTrue ==
  \A o \in Order, u \in Unit :
    /\ outbox[o][u] # "NONE" => ToTelegram(o)
    /\ outbox[o][u] = "SENT" => copies[o][u] = 1 /\ deliveredTo[u] = o

ReceiptsTrue ==
  \A o \in Order, u \in Unit :
    /\ receiptOf[u] = o \/ deliveredTo[u] = o => status[o] # "NONE"
    /\ receiptOf[u] = o /\ receipt[u] = "SENT" /\ ~IsWeb(Owner(o))
         => copies[o][u] = 1 /\ deliveredTo[u] = o
    /\ deliveredTo[u] = o /\ ~IsWeb(Owner(o)) => copies[o][u] = 1

SentInv == (\A w \in Worker : SlotToTelegram(w)) /\ OutboxTrue /\ ReceiptsTrue

(* Nothing is called sent at first.                                         *)
LEMMA SentStart == DeliveryInit => SentInv
BY OrderAssumption DEF DeliveryInit, Init, Idle, SentInv, SlotToTelegram, OutboxTrue, ReceiptsTrue

(* A slot that does not upload and records no success.                      *)
LEMMA SentSlot ==
  ASSUME WorkInv, SentInv, NEW w \in Worker, NEW row \in Slot, Becomes(w, row),
         row.stage # "IDLE" => row.order \in Order /\ ToTelegram(row.order), row.stage # "ACCEPTED",
         UNCHANGED <<invoice, deliveredTo, copies>>,
         \A o \in Order : status'[o] # status[o] => status'[o] = "REFUNDED" /\ ToTelegram(o),
         \A o \in Order, u \in Unit : outbox'[o][u] # outbox[o][u] =>
           /\ ToTelegram(o)
           /\ outbox'[o][u] = "SENT" => copies[o][u] = 1 /\ deliveredTo[u] = o,
         \A u \in Unit :
           /\ receipt'[u] = "SENT" => receipt[u] = "SENT" /\ receiptOf'[u] = receiptOf[u]
           /\ \A o \in Order : receiptOf'[u] = o => receiptOf[u] = o \/ ToTelegram(o)
  PROVE  SentInv'
<1>1. \A o \in Order : ToTelegram(o) => ToTelegram(o)'
  BY DEF ToTelegram, Owner
<1>2. \A o \in Order : status[o] # "NONE" => status'[o] # "NONE"
  OBVIOUS
<1>3. \A o \in Order : ToTelegram(o) => status'[o] # "NONE"
  BY <1>1 DEF ToTelegram
<1>4. \A o \in Order : IsWeb(Owner(o))' <=> IsWeb(Owner(o))
  BY DEF Owner, IsWeb
<1>5. ASSUME NEW v \in Worker PROVE SlotToTelegram(v)'
  <2>1. CASE v = w
    <3>1. worker'[v] = row
      BY <2>1 DEF Becomes
    <3>2. row.stage # "IDLE" => ToTelegram(row.order)'
      BY <1>1
    <3> QED BY <3>1, <3>2 DEF SlotToTelegram
  <2>2. CASE v # w
    <3>1. worker'[v] = worker[v]
      BY <2>2 DEF Becomes
    <3>2. worker[v].stage # "IDLE" => worker[v].order \in Order
      BY ActsForPlaced
    <3> QED BY <1>1, <3>1, <3>2 DEF SentInv, SlotToTelegram
  <2> QED BY <2>1, <2>2
<1>6. OutboxTrue'
  BY <1>1 DEF SentInv, OutboxTrue
<1>7. ReceiptsTrue'
  BY <1>2, <1>3, <1>4 DEF SentInv, ReceiptsTrue
<1> QED BY <1>5, <1>6, <1>7 DEF SentInv

(* An upload is accepted for files that were called sent for no order.      *)
LEMMA SentSend ==
  ASSUME WorkInv, OnceInv, SentInv, NEW w \in Worker, NEW outcome \in Outcome, Send(w, outcome)
  PROVE  SentInv'
<1>1. worker[w].stage = "RESERVING" /\ UNCHANGED <<status, invoice, deliveredTo, receipt, receiptOf, outbox>>
  BY Sends DEF vars, orderVars, stockVars, deliveryVars
<1>2. PICK row \in Slot :
        /\ Becomes(w, row) /\ row.stage = outcome /\ row.order = worker[w].order
        /\ row.batch = worker[w].batch
  BY Sends
<1>3. PICK o \in Order : o = worker[w].order
  BY <1>1, ActsForPlaced
<1>4. \A u \in worker[w].batch : \A p \in Order : copies[p][u] = 0
  BY <1>1 DEF OnceInv, NotYetAccepted, Active, Holding
<1>5. worker[w].batch \subseteq Unit
  BY WorkColumns DEF Slot
<1>6. /\ \A p \in Order, u \in Unit : copies[p][u] = 1 => copies'[p][u] = 1
      /\ outcome = "ACCEPTED" => \A u \in worker[w].batch : copies'[o][u] = 1
  <2>1. CASE outcome # "ACCEPTED" /\ UNCHANGED copies
    BY <2>1
  <2>2. CASE \A p \in Order, u \in Unit :
               copies'[p][u] = IF p = worker[w].order /\ u \in worker[w].batch
                               THEN copies[p][u] + 1 ELSE copies[p][u]
    BY <1>3, <1>4, <1>5, <2>2
  <2> QED BY <2>1, <2>2, Sends
<1>7. ASSUME NEW v \in Worker PROVE SlotToTelegram(v)'
  <2>1. CASE v = w
    <3>1. worker'[v] = row
      BY <1>2, <2>1 DEF Becomes
    <3>2. ToTelegram(o)'
      BY <1>1, <1>3 DEF SentInv, SlotToTelegram, ToTelegram, Owner, IsWeb
    <3> QED BY <1>2, <1>3, <1>6, <3>1, <3>2 DEF SlotToTelegram
  <2>2. CASE v # w
    <3>1. worker'[v] = worker[v] /\ worker[v].batch \subseteq Unit
      BY <1>2, <2>2, WorkColumns DEF Becomes, Slot
    <3>2. worker[v].stage # "IDLE" => worker[v].order \in Order
      BY ActsForPlaced
    <3>3. SlotToTelegram(v)
      BY DEF SentInv
    <3> QED BY <1>1, <1>6, <3>1, <3>2, <3>3 DEF SlotToTelegram, ToTelegram, Owner, IsWeb
  <2> QED BY <2>1, <2>2
<1>8. OutboxTrue'
  BY <1>1, <1>6 DEF SentInv, OutboxTrue, ToTelegram, Owner, IsWeb
<1>9. ReceiptsTrue'
  BY <1>1, <1>6 DEF SentInv, ReceiptsTrue, Owner, IsWeb
<1> QED BY <1>7, <1>8, <1>9 DEF SentInv

(* The record of an accepted upload calls its own files sent, and those     *)
(* were called sent for no other order.                                     *)
LEMMA SentRecord ==
  ASSUME WorkInv, OnceInv, SentInv, NEW w \in Worker, RecordAccepted(w)
  PROVE  SentInv'
<1>1. /\ worker[w].stage = "ACCEPTED" /\ Becomes(w, Idle) /\ UNCHANGED <<receiptOf, copies, invoice>>
      /\ \A u \in Unit :
           /\ receipt'[u] = IF u \in worker[w].batch THEN "SENT" ELSE receipt[u]
           /\ deliveredTo'[u] = IF u \in worker[w].batch THEN worker[w].order ELSE deliveredTo[u]
           /\ \A p \in Order :
                outbox'[p][u] = IF p = worker[w].order /\ u \in worker[w].batch
                                THEN "SENT" ELSE outbox[p][u]
      /\ \A p \in Order : status'[p] # status[p] => p = worker[w].order /\ status'[p] = "COMPLETED"
  BY RecordsAccepted
<1>2. PICK o \in Order : o = worker[w].order /\ o \in Placed
  BY <1>1, ActsForPlaced
<1>3. /\ ToTelegram(o)
      /\ \A u \in worker[w].batch : copies[o][u] = 1 /\ receiptOf[u] = o
  BY <1>1, <1>2 DEF SentInv, SlotToTelegram, OnceInv, OwnsReceipts, Active, Outcomes
<1>4. \A p \in Order : ToTelegram(p) => ToTelegram(p)'
  BY <1>1 DEF ToTelegram, Owner, IsWeb
<1>5. \A p \in Order : (IsWeb(Owner(p))' <=> IsWeb(Owner(p))) /\ (status[p] # "NONE" => status'[p] # "NONE")
  BY <1>1 DEF Owner, IsWeb
<1>6. ASSUME NEW p \in Order, NEW u \in worker[w].batch, copies[p][u] = 1 PROVE p = o
  <2>1. u \in Unit
    BY WorkColumns DEF Slot
  <2> QED BY <1>3, <1>6, <2>1 DEF OnceInv, AcceptedHasReceipt
<1>7. ASSUME NEW v \in Worker PROVE SlotToTelegram(v)'
  <2>1. CASE v = w
    BY <1>1, <2>1 DEF SlotToTelegram, Becomes, Idle
  <2>2. CASE v # w
    <3>1. worker'[v] = worker[v]
      BY <1>1, <2>2 DEF Becomes
    <3>2. worker[v].stage # "IDLE" => worker[v].order \in Order
      BY ActsForPlaced
    <3> QED BY <1>1, <1>4, <3>1, <3>2 DEF SentInv, SlotToTelegram
  <2> QED BY <2>1, <2>2
<1>8. OutboxTrue'
  <2> SUFFICES ASSUME NEW p \in Order, NEW u \in Unit
               PROVE  /\ outbox'[p][u] # "NONE" => ToTelegram(p)'
                      /\ outbox'[p][u] = "SENT" => copies'[p][u] = 1 /\ deliveredTo'[u] = p
    BY DEF OutboxTrue
  <2>1. CASE p = o /\ u \in worker[w].batch
    BY <1>1, <1>2, <1>3, <1>4, <2>1
  <2>2. CASE ~(p = o /\ u \in worker[w].batch)
    BY <1>1, <1>2, <1>4, <1>6, <2>2 DEF SentInv, OutboxTrue
  <2> QED BY <2>1, <2>2
<1>9. ReceiptsTrue'
  <2> SUFFICES ASSUME NEW p \in Order, NEW u \in Unit
               PROVE  /\ receiptOf'[u] = p \/ deliveredTo'[u] = p => status'[p] # "NONE"
                      /\ receiptOf'[u] = p /\ receipt'[u] = "SENT" /\ ~IsWeb(Owner(p))'
                           => copies'[p][u] = 1 /\ deliveredTo'[u] = p
                      /\ deliveredTo'[u] = p /\ ~IsWeb(Owner(p))' => copies'[p][u] = 1
    BY DEF ReceiptsTrue
  <2>1. CASE u \in worker[w].batch
    BY <1>1, <1>2, <1>3, <1>5, <2>1 DEF Placed
  <2>2. CASE u \notin worker[w].batch
    BY <1>1, <1>5, <2>2 DEF SentInv, ReceiptsTrue
  <2> QED BY <2>1, <2>2
<1> QED BY <1>7, <1>8, <1>9 DEF SentInv

(* The core calls a file sent, or delivers it, for Web orders only, and     *)
(* never one that the worker has delivered.                                 *)
LEMMA SentCore ==
  ASSUME WorkInv, OnceInv, SentInv, CoreKeeps, UNCHANGED <<worker, copies>>
  PROVE  SentInv'
<1>1. \A o \in Order : status[o] # "NONE" =>
        status'[o] # "NONE" /\ (IsWeb(Owner(o))' <=> IsWeb(Owner(o)))
  BY DEF CoreKeeps, OrdersKept, Owner, IsWeb
<1>2. ASSUME NEW o \in Order, ToTelegram(o) PROVE ToTelegram(o)'
  <2>1. status'[o] \in {"FULFILLING", "COMPLETED", "REFUNDED"}
    BY <1>2 DEF CoreKeeps, OrdersKept, ToTelegram
  <2> QED BY <1>1, <1>2, <2>1 DEF ToTelegram
<1>3. \A w \in Worker : SlotToTelegram(w)'
  <2> SUFFICES ASSUME NEW w \in Worker PROVE SlotToTelegram(w)'
    OBVIOUS
  <2>1. worker[w].stage # "IDLE" => worker[w].order \in Order
    BY ActsForPlaced
  <2> QED BY <1>2, <2>1 DEF SentInv, SlotToTelegram
<1>4. ASSUME NEW o \in Order, NEW u \in Unit, copies[o][u] = 1, deliveredTo[u] = o
      PROVE  deliveredTo'[u] = o
  BY <1>4 DEF CoreKeeps, ReceiptsKept, OnceInv, AcceptedHasReceipt
<1>5. OutboxTrue'
  <2> SUFFICES ASSUME NEW o \in Order, NEW u \in Unit
               PROVE  /\ outbox'[o][u] # "NONE" => ToTelegram(o)'
                      /\ outbox'[o][u] = "SENT" => copies'[o][u] = 1 /\ deliveredTo'[u] = o
    BY DEF OutboxTrue
  <2>1. CASE outbox'[o][u] = outbox[o][u]
    BY <1>2, <1>4, <2>1 DEF SentInv, OutboxTrue
  <2>2. CASE outbox'[o][u] # outbox[o][u]
    BY <2>2 DEF CoreKeeps, NoticesKept, ToTelegram
  <2> QED BY <2>1, <2>2
<1>6. ReceiptsTrue'
  <2> SUFFICES ASSUME NEW o \in Order, NEW u \in Unit
               PROVE  /\ receiptOf'[u] = o \/ deliveredTo'[u] = o => status'[o] # "NONE"
                      /\ receiptOf'[u] = o /\ receipt'[u] = "SENT" /\ ~IsWeb(Owner(o))'
                           => copies'[o][u] = 1 /\ deliveredTo'[u] = o
                      /\ deliveredTo'[u] = o /\ ~IsWeb(Owner(o))' => copies'[o][u] = 1
    BY DEF ReceiptsTrue
  <2>1. /\ receiptOf'[u] # receiptOf[u] \/ receipt'[u] # receipt[u]
             => \A p \in Order : receiptOf'[u] = p => status'[p] # "NONE" /\ IsWeb(Owner(p))'
        /\ deliveredTo'[u] # deliveredTo[u]
             => \A p \in Order : deliveredTo'[u] = p => status[p] # "NONE" /\ IsWeb(Owner(p))
    BY DEF CoreKeeps, ReceiptsKept, IsWeb, Owner
  <2>2. receiptOf'[u] = o \/ deliveredTo'[u] = o => status'[o] # "NONE"
    BY <1>1, <2>1 DEF SentInv, ReceiptsTrue
  <2>3. receiptOf'[u] = o /\ receipt'[u] = "SENT" /\ ~IsWeb(Owner(o))'
          => copies'[o][u] = 1 /\ deliveredTo'[u] = o
    BY <1>1, <1>4, <2>1 DEF SentInv, ReceiptsTrue
  <2>4. deliveredTo'[u] = o /\ ~IsWeb(Owner(o))' => copies'[o][u] = 1
    BY <1>1, <2>1 DEF SentInv, ReceiptsTrue
  <2> QED BY <2>2, <2>3, <2>4
<1> QED BY <1>3, <1>5, <1>6 DEF SentInv

(* A retry calls nothing sent.                                              *)
LEMMA SentRetry ==
  ASSUME WorkInv, SentInv, NEW o \in Order, NEW u \in Unit, RetryFailed(o, u) \/ RetryAcknowledged(o, u)
  PROVE  SentInv'
<1>1. /\ UNCHANGED <<worker, status, invoice, deliveredTo, receiptOf, copies>>
      /\ \A p \in Order, v \in Unit :
           outbox'[p][v] # outbox[p][v]
           => p = o /\ v = u /\ outbox[o][u] # "NONE" /\ outbox'[p][v] = "PENDING"
  BY Retries DEF orderVars, stockVars
<1>2. \A v \in Unit : receipt'[v] = "SENT" => receipt[v] = "SENT"
  <2>1. UNCHANGED receipt \/ receipt' = [receipt EXCEPT ![u] = "FAILED"]
    BY Retries
  <2> QED BY <2>1, WorkColumns
<1>3. \A p \in Order : ToTelegram(p)' <=> ToTelegram(p)
  BY <1>1 DEF ToTelegram, Owner, IsWeb
<1>4. ASSUME NEW w \in Worker PROVE SlotToTelegram(w)'
  <2>1. worker[w].stage # "IDLE" => worker[w].order \in Order
    BY ActsForPlaced
  <2> QED BY <1>1, <1>3, <2>1 DEF SentInv, SlotToTelegram
<1>5. OutboxTrue'
  BY <1>1, <1>3 DEF SentInv, OutboxTrue
<1>6. ReceiptsTrue'
  BY <1>1, <1>2 DEF SentInv, ReceiptsTrue, Owner, IsWeb
<1> QED BY <1>4, <1>5, <1>6 DEF SentInv

(* Every step keeps it.                                                     *)
LEMMA SentStep == WorkInv /\ OnceInv /\ SentInv /\ [DeliveryNext]_allVars => SentInv'
<1> SUFFICES ASSUME WorkInv, OnceInv, SentInv, [DeliveryNext]_allVars PROVE SentInv'
  OBVIOUS
<1>1. ASSUME NEW w \in Worker, worker[w].stage # "IDLE" PROVE worker[w].order \in Order /\ ToTelegram(worker[w].order)
  BY <1>1, ActsForPlaced DEF SentInv, SlotToTelegram
<1>2. ASSUME NEW w \in Worker, LoudStep(w) PROVE SentInv'
  <2>1. ASSUME NEW o \in Order, NEW C \in SUBSET Unit, Claim(w, o, C) PROVE SentInv'
    <3>1. /\ UNCHANGED <<status, invoice, deliveredTo, receipt, receiptOf, copies>>
          /\ \E u \in Unit : outbox[o][u] \in {"PENDING", "PROCESSING"}
      BY <2>1, Claims DEF orderVars, stockVars
    <3>2. ToTelegram(o)
      BY <3>1 DEF SentInv, OutboxTrue
    <3>3. PICK row \in Slot : Becomes(w, row) /\ row.stage = "CLAIMED" /\ row.order = o
      BY <2>1, Claims
    <3>4. \A p \in Order, u \in Unit : outbox'[p][u] # outbox[p][u] => p = o /\ outbox'[p][u] = "PROCESSING"
      BY <2>1, Claims
    <3> QED BY <3>1, <3>2, <3>3, <3>4, SentSlot
  <2>2. CASE Reserve(w)
    <3>1. worker[w].stage = "RESERVING" /\ UNCHANGED <<status, invoice, deliveredTo, outbox, copies>>
      BY <2>2, Reserves DEF orderVars, stockVars
    <3>2. PICK u \in Unit, row \in Slot :
            /\ receipt' = [receipt EXCEPT ![u] = "SENDING"]
            /\ receiptOf' = [receiptOf EXCEPT ![u] = worker[w].order]
            /\ Becomes(w, row) /\ row.stage = "RESERVING" /\ row.order = worker[w].order
      BY <2>2, Reserves
    <3>3. \A v \in Unit :
            /\ receipt'[v] = "SENT" => receipt[v] = "SENT" /\ receiptOf'[v] = receiptOf[v]
            /\ \A o \in Order : receiptOf'[v] = o => receiptOf[v] = o \/ ToTelegram(o)
      BY <1>1, <3>1, <3>2, WorkColumns
    <3> QED BY <1>1, <3>1, <3>2, <3>3, SentSlot
  <2>3. CASE MarkUnknown(w)
    <3>1. worker[w].stage = "DOUBTING" /\ UNCHANGED <<status, invoice, deliveredTo, receiptOf, outbox, copies>>
      BY <2>3, MarksUnknown DEF orderVars, stockVars
    <3>2. PICK u \in Unit : receipt' = [receipt EXCEPT ![u] = "UNKNOWN"]
      BY <2>3, MarksUnknown
    <3>3. PICK row \in Slot : Becomes(w, row) /\ row.stage = "PARKING" /\ row.order = worker[w].order
      BY <2>3, MarksUnknown
    <3>4. \A v \in Unit : receipt'[v] = "SENT" => receipt[v] = "SENT"
      BY <3>2, WorkColumns
    <3> QED BY <1>1, <3>1, <3>3, <3>4, SentSlot
  <2>4. ASSUME NEW files \in {"UNKNOWN", "FAILED"}, Recorded(w, files), worker[w].stage # "IDLE"
        PROVE  SentInv'
    <3>1. PICK row \in Slot :
            /\ Becomes(w, row) /\ row.stage \in {"IDLE", "REFUND"} \cup Settlement
            /\ row.stage # "IDLE" => row.order = worker[w].order
      BY <2>4 DEF Recorded
    <3>2. /\ UNCHANGED <<status, invoice, deliveredTo, receiptOf, copies>>
          /\ \A p \in Order, u \in Unit :
               outbox'[p][u] # outbox[p][u] => p = worker[w].order /\ outbox'[p][u] # "SENT"
          /\ \A u \in Unit : receipt'[u] = "SENT" => receipt[u] = "SENT"
      BY <2>4 DEF Recorded, orderVars, stockVars
    <3>3. row.stage # "ACCEPTED"
      BY <3>1 DEF Settlement
    <3> QED BY <1>1, <2>4, <3>1, <3>2, <3>3, SentSlot
  <2>5. CASE RecordUnknown(w) /\ ~(UNCHANGED deliveryVars)
    BY <2>4, <2>5, RecordsUnknown
  <2>6. CASE RecordTransient(w) \/ RecordRejected(w) \/ RecordRecipientGone(w)
    BY <2>4, <2>6, RecordsFailed
  <2>7. CASE RefundCommit(w)
    <3>1. /\ worker[w].stage = "REFUNDING" /\ QuietSlot(w)
          /\ status' = [status EXCEPT ![worker[w].order] = "REFUNDED"]
          /\ UNCHANGED <<invoice, deliveredTo, receipt, receiptOf, copies>>
          /\ \A p \in Order, u \in Unit :
               outbox'[p][u] # outbox[p][u] => p = worker[w].order /\ outbox'[p][u] # "SENT"
      BY <2>7, RefundsCommit
    <3>2. PICK row \in Slot :
            /\ Becomes(w, row) /\ row.stage # "ACCEPTED"
            /\ row.stage # "IDLE" => row.order = worker[w].order
      BY <3>1 DEF QuietSlot, Active, Holding, Outcomes
    <3>3. \A p \in Order : status'[p] # status[p] => status'[p] = "REFUNDED" /\ ToTelegram(p)
      BY <1>1, <3>1 DEF WorkInv, TypeInv, TypeOK
    <3> QED BY <1>1, <3>1, <3>2, <3>3, SentSlot
  <2> QED BY <1>2, <2>1, <2>2, <2>3, <2>5, <2>6, <2>7, SentSend, SentRecord DEF LoudStep
<1>3. ASSUME NEW w \in Worker, QuietStep(w) PROVE SentInv'
  <2>1. /\ QuietSlot(w) /\ QuietOutbox(w)
        /\ UNCHANGED <<status, invoice, deliveredTo, receipt, receiptOf, copies>>
    BY <1>3, QuietSteps DEF Quiet, orderVars, stockVars
  <2>2. PICK row \in Slot :
          /\ Becomes(w, row) /\ row.stage # "ACCEPTED"
          /\ row.stage # "IDLE" => row.order = worker[w].order /\ worker[w].stage # "IDLE"
    BY <2>1 DEF QuietSlot, Active, Holding, Outcomes
  <2>3. \A p \in Order, u \in Unit : outbox'[p][u] # outbox[p][u] =>
          /\ ToTelegram(p)
          /\ outbox'[p][u] = "SENT" => copies[p][u] = 1 /\ deliveredTo[u] = p
    <3> SUFFICES ASSUME NEW p \in Order, NEW u \in Unit, outbox'[p][u] # outbox[p][u]
                 PROVE  /\ ToTelegram(p)
                        /\ outbox'[p][u] = "SENT" => copies[p][u] = 1 /\ deliveredTo[u] = p
      OBVIOUS
    <3>1. /\ worker[w].stage # "IDLE" /\ p = worker[w].order
          /\ outbox'[p][u] = "SENT" => receipt[u] = "SENT" /\ receiptOf[u] = p
      BY <2>1 DEF QuietOutbox
    <3>2. ToTelegram(p)
      BY <1>1, <3>1
    <3> QED BY <3>1, <3>2 DEF SentInv, ReceiptsTrue, ToTelegram
  <2> QED BY <1>1, <2>1, <2>2, <2>3, SentSlot
<1>4. ASSUME NEW o \in Order, LeaseExpires(o) PROVE SentInv'
  BY <1>4, LeaseRunsOut DEF SentInv, SlotToTelegram, OutboxTrue, ReceiptsTrue, ToTelegram, Owner,
     IsWeb, vars, orderVars, stockVars, deliveryVars
<1> QED BY <1>2, <1>3, <1>4, StepKinds, CoreStepWorks, SentCore, SentRetry

(* The notification of a file is SENT only when Telegram accepted the file  *)
(* for that very order, once (uploads taken for refused aside, as above),   *)
(* and the stock says so (Delivery, the first part of SentIsTrue; the       *)
(* completed orders are below).                                             *)
THEOREM SentMeansAccepted ==
  DeliverySpec => [](\A o \in Order, u \in Unit :
                       outbox[o][u] = "SENT" => copies[o][u] = 1 /\ deliveredTo[u] = o)
<1>1. SentInv => \A o \in Order, u \in Unit :
                   outbox[o][u] = "SENT" => copies[o][u] = 1 /\ deliveredTo[u] = o
  BY DEF SentInv, OutboxTrue
<1> QED BY WorkStart, WorkStep, OnceStart, OnceStep, SentStart, SentStep, <1>1, PTL DEF DeliverySpec

------------------------------------------------------------------------------
(* The money and the limits, whatever the workers do.  None of this relies  *)
(* on the units: while one worker refunds an order another may reserve its  *)
(* files, and files may go to two buyers; but the money goes back once.     *)

(* An order asks for something, and has nothing before it is allotted nor   *)
(* after it is closed or refunded.                                          *)
Sized(o) == status[o] # "NONE" => invoice[o].quantity \in 1..MaxQuantity
Bare(o) == status[o] \in Empty => items[o] = {}

(* One slot at a time refunds, an order that was paid and not yet refunded. *)
RefundsPaid(w) ==
  worker[w].stage = "REFUNDING" => status[worker[w].order] \in {"FULFILLING", "COMPLETED"}

OneRefund ==
  \A v, w \in Worker : worker[v].stage = "REFUNDING" /\ worker[w].stage = "REFUNDING" => v = w

PayInv ==
  /\ MoneyInv /\ OneRefund
  /\ \A o \in Order : Sized(o) /\ Bare(o)
  /\ \A w \in Worker : RefundsPaid(w)

(* A checkout asks for what may be asked for, and allots an order that is   *)
(* not in fulfilment nothing.                                               *)
LEMMA CheckoutSizes ==
  ASSUME TypeInv, NEW o \in Order, Checkout(o), \A p \in Order : Sized(p) /\ Bare(p)
  PROVE  \A p \in Order : Sized(p)' /\ Bare(p)'
<1>1. PICK b \in Buyer, m \in Method, quantity \in 1..MaxQuantity :
        \/ CreateInvoice(o, b, m, quantity)
        \/ BuyFromWallet(o, b, m, quantity)
        \/ PreorderFromWallet(o, b, m, quantity)
  BY DEF Checkout
<1>2. PICK e, code : invoice' = [invoice EXCEPT ![o] = NewInvoice(b, e, quantity, code)]
  BY <1>1 DEF CreateInvoice, BuyFromWallet, PreorderFromWallet
<1>3. /\ invoice'[o].quantity = quantity
      /\ \A p \in Order \ {o} : invoice'[p] = invoice[p]
  BY <1>2 DEF NewInvoice, TypeInv, TypeOK
<1>4. \A p \in Order \ {o} : status'[p] = status[p] /\ items'[p] = items[p]
  BY <1>1 DEF CreateInvoice, BuyFromWallet, PreorderFromWallet, ClaimUnits, TypeInv, TypeOK
<1>5. Bare(o)'
  <2>1. CASE CreateInvoice(o, b, m, quantity)
    <3>1. status[o] = "NONE" /\ UNCHANGED items
      BY <2>1 DEF CreateInvoice, CanCheckout
    <3> QED BY <3>1 DEF Bare, Empty
  <2>2. CASE BuyFromWallet(o, b, m, quantity) \/ PreorderFromWallet(o, b, m, quantity)
    <3>1. status'[o] \in {"FULFILLING", "PAID_WAITING_STOCK"}
      BY <2>2 DEF BuyFromWallet, PreorderFromWallet, TypeInv, TypeOK
    <3> QED BY <3>1 DEF Bare, Empty
  <2> QED BY <1>1, <2>1, <2>2
<1> QED BY <1>3, <1>4, <1>5 DEF Sized, Bare

(* Any later transaction claims units only for an order that is paid, and   *)
(* releases all of one that it closes.                                      *)
LEMMA LaterStepSizes ==
  ASSUME TypeInv, NEW o \in Order, LaterStep(o), \A p \in Order : Sized(p) /\ Bare(p)
  PROVE  \A p \in Order : Sized(p)' /\ Bare(p)'
<1>t. status \in [Order -> OrderStatus] /\ items \in [Order -> SUBSET Unit]
  BY DEF TypeInv, TypeOK
<1>f. /\ UNCHANGED invoice
      /\ \A p \in Order \ {o} : status'[p] = status[p] /\ items'[p] = items[p]
  BY LaterStepFrame
<1>1. Bare(o)
  OBVIOUS
<1>2. /\ Bare(o)'
      /\ status'[o] # "NONE" => status[o] # "NONE"
  <2>1. CASE TimePasses(o) \/ SubmitTransfer(o) \/ VerifyTransfer(o) \/ RejectTransfer(o)
    BY <1>1, <2>1 DEF TimePasses, SubmitTransfer, VerifyTransfer, RejectTransfer, AttemptMoves, Bare
  <2>2. CASE ConfirmPayment(o)
    BY <1>t, <1>1, <2>2 DEF ConfirmPayment, ConfirmFromStock, ConfirmOutOfStock, ConfirmPreorder,
       Payable, Bare, Empty
  <2>3. CASE ExpireOrder(o) \/ CancelOrder(o)
    <3>1. items'[o] = {} /\ status[o] = "PENDING_PAYMENT"
      BY <1>t, <2>3 DEF ExpireOrder, CancelOrder, CloseUnpaid, ReleaseUnits
    <3> QED BY <3>1 DEF Bare
  <2>4. CASE CreditExpiredOrder(o)
    BY <1>1, <2>4 DEF CreditExpiredOrder, Bare
  <2>5. CASE AllocatePaidPreorder(o)
    BY <1>t, <2>5 DEF AllocatePaidPreorder, Waiting, Placed, Bare, Empty
  <2>6. ASSUME NEW u \in Unit, AssignStock(o, u)
        PROVE  /\ Bare(o)'
               /\ status[o] # "NONE"
    BY <1>t, <2>6 DEF AssignStock, Waiting, Placed, Bare, Empty
  <2>7. CASE CancelPaidPreorder(o)
    BY <1>t, <2>7 DEF CancelPaidPreorder, Waiting, Placed, Bare
  <2>8. ASSUME NEW R \in SUBSET Unit, DownloadWeb(o, R)
        PROVE  /\ Bare(o)'
               /\ status[o] # "NONE"
    BY <1>t, <2>8 DEF DownloadWeb, Bare, Empty
  <2> QED BY <2>1, <2>2, <2>3, <2>4, <2>5, <2>6, <2>7, <2>8 DEF LaterStep
<1> QED BY <1>f, <1>2 DEF Sized, Bare

(* So every transaction of the core keeps both.                             *)
LEMMA CoreStepSizes ==
  ASSUME TypeInv, [Next]_vars, \A p \in Order : Sized(p) /\ Bare(p)
  PROVE  \A p \in Order : Sized(p)' /\ Bare(p)'
<1>1. CASE InventoryStep \/ UNCHANGED vars
  <2>1. UNCHANGED orderVars
    BY <1>1, InventoryKeepsGoods DEF vars
  <2> QED BY <2>1 DEF orderVars, Sized, Bare
<1>2. ASSUME NEW o \in Order, OrderStep(o) PROVE \A p \in Order : Sized(p)' /\ Bare(p)'
  <2>1. Checkout(o) \/ LaterStep(o)
    BY <1>2 DEF OrderStep, LaterStep
  <2> QED BY <2>1, CheckoutSizes, LaterStepSizes
<1> QED BY <1>1, <1>2 DEF Next

(* A slot begins a refund only while no other is at one, and of an order in *)
(* fulfilment.                                                              *)
LEMMA RefundStarts ==
  ASSUME WorkInv, SentInv, NEW w \in Worker, QuietStep(w) \/ LoudStep(w)
  PROVE  /\ \A v \in Worker : v # w => worker'[v] = worker[v]
         /\ worker'[w].stage = "REFUNDING" =>
              /\ ~InventoryLocked /\ UNCHANGED status
              /\ worker'[w].order = worker[w].order /\ status[worker[w].order] = "FULFILLING"
<1>1. CASE QuietStep(w)
  <2>1. QuietSlot(w) /\ UNCHANGED status
    BY <1>1, QuietSteps DEF Quiet, orderVars
  <2>2. PICK row \in Slot :
          /\ Becomes(w, row)
          /\ row.stage # "IDLE" => row.order = worker[w].order
          /\ row.stage \in Lost =>
               /\ worker[w].stage = "REFUND"
               /\ Refundable(w) /\ status[worker[w].order] # "REFUNDED"
    BY <2>1 DEF QuietSlot
  <2>3. ASSUME row.stage = "REFUNDING"
        PROVE  ~InventoryLocked /\ status[worker[w].order] = "FULFILLING"
    <3>1. worker[w].stage = "REFUND" /\ Refundable(w) /\ status[worker[w].order] # "REFUNDED"
      BY <2>2, <2>3 DEF Lost
    <3>2. ~Crash(w)
      BY <2>2, <2>3, WorkColumns DEF Crash, Stop, Idle, Becomes
    <3>3. RefundCheck(w) \/ RefundDenied(w)
      BY <1>1, <3>1, <3>2
         DEF QuietStep, Inspect, Throw, Refuse, Doubt, Park, NothingToSend, SettleRest, RecordUnknown
    <3>4. ToTelegram(worker[w].order)
      BY <3>1 DEF SentInv, SlotToTelegram
    <3> QED BY <3>1, <3>3, <3>4 DEF RefundCheck, RefundDenied, Refundable, ToTelegram
  <2> QED BY <2>1, <2>2, <2>3 DEF Becomes
<1>2. CASE LoudStep(w)
  <2>1. PICK row \in Slot : Becomes(w, row) /\ row.stage # "REFUNDING"
    <3>1. CASE \/ \E o \in Order, C \in SUBSET Unit : Claim(w, o, C)
               \/ Reserve(w) \/ MarkUnknown(w)
      BY <3>1, Claims, Reserves, MarksUnknown
    <3>2. ASSUME NEW outcome \in Outcome, Send(w, outcome)
          PROVE  \E row \in Slot : Becomes(w, row) /\ row.stage # "REFUNDING"
      <4>1. outcome # "REFUNDING"
        BY DeliveryAssumption DEF Outcomes
      <4> QED BY <3>2, <4>1, Sends
    <3>3. ASSUME NEW files \in {"UNKNOWN", "FAILED"}, Recorded(w, files)
          PROVE  \E row \in Slot : Becomes(w, row) /\ row.stage # "REFUNDING"
      BY <3>3 DEF Recorded, Settlement
    <3>4. CASE RecordUnknown(w) /\ ~(UNCHANGED deliveryVars)
      BY <3>3, <3>4, RecordsUnknown
    <3>5. CASE RecordTransient(w) \/ RecordRejected(w) \/ RecordRecipientGone(w)
      BY <3>3, <3>5, RecordsFailed
    <3>6. CASE RecordAccepted(w)
      <4>1. Becomes(w, Idle) /\ Idle.stage # "REFUNDING"
        BY <3>6, RecordsAccepted DEF Idle
      <4>2. Idle \in Slot
        BY DeliveryAssumption DEF Idle, Slot, Stage
      <4> QED BY <4>1, <4>2
    <3>7. CASE RefundCommit(w)
      BY <3>7, RefundsCommit DEF QuietSlot, Becomes
    <3> QED BY <1>2, <3>1, <3>2, <3>4, <3>5, <3>6, <3>7 DEF LoudStep
  <2> QED BY <2>1 DEF Becomes
<1> QED BY <1>1, <1>2

(* What a slot does to the orders and the money: nothing, or it settles an  *)
(* order that was paid.                                                     *)
Settled ==
  /\ UNCHANGED <<payment, invoice, due, attempt>>
  /\ \A p \in Order :
       \/ status'[p] = status[p] /\ items'[p] = items[p]
       \/ {status[p], status'[p]} \subseteq {"FULFILLING", "COMPLETED", "REFUNDED"}

Pays == Settled /\ MoneyInv' /\ \A p \in Order : Bare(p)'

(* The record of an accepted upload completes no order that was refunded,   *)
(* for such an order has no units and wants some; the books stay.           *)
LEMMA RecordPays == ASSUME WorkInv, SentInv, PayInv, NEW w \in Worker, RecordAccepted(w) PROVE Pays
<1>1. /\ worker[w].stage = "ACCEPTED"
      /\ UNCHANGED <<payment, invoice, due, attempt, items, ledger>>
      /\ \A p \in Order : status'[p] # status[p] => p = worker[w].order /\ status'[p] = "COMPLETED"
  BY RecordsAccepted DEF RecordAccepted
<1>2. PICK o \in Order : o = worker[w].order /\ o \in Placed
  BY <1>1, ActsForPlaced
<1>3. status[o] \in {"FULFILLING", "COMPLETED", "REFUNDED"}
  BY <1>1, <1>2 DEF SentInv, SlotToTelegram, ToTelegram
<1>4. status[o] = "REFUNDED" => status'[o] = "REFUNDED"
  <2> SUFFICES ASSUME status[o] = "REFUNDED" PROVE ~AllUnitsDelivered(o)
    BY <1>2 DEF RecordAccepted, WorkInv, TypeInv, TypeOK
  <2>1. items[o] = {} /\ invoice[o].quantity \in Nat \ {0}
    BY <1>3, AmountAssumption DEF PayInv, Sized, Bare, Empty
  <2>2. Missing(o) # 0
    BY <2>1, FS_EmptySet DEF Missing
  <2> QED BY <2>2 DEF AllUnitsDelivered
<1>5. /\ \A p \in Order \ {o} : status'[p] = status[p]
      /\ status'[o] \in {status[o], "COMPLETED"}
  BY <1>1, <1>2
<1>6. Settled
  BY <1>1, <1>3, <1>5 DEF Settled
<1>7. Books(o) /\ GrandTotal(o)' = GrandTotal(o) /\ BilledAmount(o)' = BilledAmount(o)
  BY <1>1, <1>3, AmountsStay DEF PayInv, MoneyInv
<1>8. Books(o)' /\ status'[o] # "NONE"
  BY <1>1, <1>3, <1>4, <1>5, <1>7 DEF Books, Closed
<1>9. MoneyInv'
  BY <1>1, <1>5, <1>8, MoneyFrame DEF PayInv
<1>10. \A p \in Order : Bare(p)'
  BY <1>1, <1>3, <1>4, <1>5 DEF PayInv, Bare, Empty
<1> QED BY <1>6, <1>9, <1>10 DEF Pays

(* A refund pays an order back that was paid and has no refund yet: no      *)
(* other slot has refunded it since the check.                              *)
LEMMA RefundPays == ASSUME WorkInv, PayInv, NEW w \in Worker, RefundCommit(w) PROVE Pays
<1>1. PICK o \in Order : o = worker[w].order /\ o \in Placed /\ invoice[o] \in Invoice
  BY ActsForPlaced DEF RefundCommit
<1>2. /\ worker[w].stage = "REFUNDING" /\ ReleaseUnits(o)
      /\ PostEntry(Owner(o), o, "DELIVERY_REFUND", GrandTotal(o))
      /\ status' = [status EXCEPT ![o] = "REFUNDED"]
      /\ UNCHANGED <<payment, invoice, due, attempt>>
  BY <1>1 DEF RefundCommit
<1>3. TypeOK
  BY DEF WorkInv, TypeInv
<1>4. /\ status'[o] = "REFUNDED" /\ items'[o] = {}
      /\ \A p \in Order \ {o} : status'[p] = status[p] /\ items'[p] = items[p]
  BY <1>2, <1>3 DEF TypeOK, ReleaseUnits
<1>5. status[o] \in {"FULFILLING", "COMPLETED"}
  BY <1>1, <1>2 DEF PayInv, RefundsPaid
<1>6. Settled
  BY <1>2, <1>4, <1>5 DEF Settled
<1>7. Books(o) /\ GrandTotal(o)' = GrandTotal(o) /\ BilledAmount(o)' = BilledAmount(o)
  BY <1>2, <1>5, AmountsStay DEF PayInv, MoneyInv
<1>8. /\ Owner(o) \in Buyer /\ GrandTotal(o) \in Int
      /\ ledger[o]["DELIVERY_REFUND"] = 0 /\ "DELIVERY_REFUND" \in Entry
  BY <1>1, <1>5, <1>7, AmountsType DEF Owner, Invoice, Books, Kind, Entry
<1>9. /\ \A q \in Order \ {o} : ledger'[q] = ledger[q]
      /\ \A k \in Entry :
           ledger'[o][k] = IF k = "DELIVERY_REFUND" THEN GrandTotal(o) ELSE ledger[o][k]
  BY <1>2, <1>3, <1>8, FirstPosting
<1>10. Books(o)'
  BY <1>2, <1>4, <1>5, <1>7, <1>8, <1>9 DEF Books, Closed, Kind, Entry
<1>11. MoneyInv'
  BY <1>2, <1>4, <1>9, <1>10, MoneyFrame DEF PayInv
<1>12. \A p \in Order : Bare(p)'
  BY <1>4 DEF PayInv, Bare
<1> QED BY <1>6, <1>11, <1>12 DEF Pays

(* No other step of a slot touches an order or the money.                   *)
LEMMA OthersPayNothing ==
  ASSUME WorkInv, NEW w \in Worker, QuietStep(w) \/ LoudStep(w), ~RecordAccepted(w), ~RefundCommit(w)
  PROVE  UNCHANGED <<orderVars, stockVars, moneyVars>>
<1>1. CASE QuietStep(w)
  BY <1>1, QuietSteps DEF Quiet
<1>2. CASE LoudStep(w)
  <2>1. CASE \/ \E o \in Order, C \in SUBSET Unit : Claim(w, o, C)
             \/ Reserve(w) \/ MarkUnknown(w)
             \/ RecordUnknown(w) \/ RecordTransient(w) \/ RecordRejected(w) \/ RecordRecipientGone(w)
    BY <2>1 DEF Claim, Reserve, MarkUnknown, RecordUnknown, RecordTransient, RecordRejected,
       RecordRecipientGone
  <2>2. CASE \E outcome \in Outcome : Send(w, outcome)
    BY <2>2 DEF Send, vars
  <2> QED BY <1>2, <2>1, <2>2 DEF LoudStep
<1> QED BY <1>1, <1>2

(* So every step of a slot keeps the books, and the refunds one at a time.  *)
LEMMA WorkerPays ==
  ASSUME WorkInv, SentInv, PayInv, NEW w \in Worker, QuietStep(w) \/ LoudStep(w)
  PROVE  PayInv' /\ Settled
<1>1. Pays
  <2>1. CASE ~RecordAccepted(w) /\ ~RefundCommit(w)
    <3>1. UNCHANGED <<orderVars, moneyVars>>
      BY <2>1, OthersPayNothing
    <3> QED BY <3>1, MoneyUntouched DEF Pays, Settled, PayInv, Bare, orderVars, moneyVars
  <2> QED BY <2>1, RecordPays, RefundPays
<1>2. \A p \in Order : Sized(p)'
  BY <1>1 DEF Pays, Settled, PayInv, Sized
<1>3. /\ \A v \in Worker : v # w => worker'[v] = worker[v]
      /\ worker'[w].stage = "REFUNDING" =>
           /\ ~InventoryLocked /\ UNCHANGED status
           /\ worker'[w].order = worker[w].order /\ status[worker[w].order] = "FULFILLING"
  BY RefundStarts
<1>4. OneRefund'
  BY <1>3 DEF PayInv, OneRefund, InventoryLocked
<1>5. ASSUME NEW v \in Worker, worker'[v].stage = "REFUNDING"
      PROVE  status'[worker'[v].order] \in {"FULFILLING", "COMPLETED"}
  <2>1. CASE v = w
    BY <1>3, <1>5, <2>1
  <2>2. CASE v # w
    <3>1. worker'[v] = worker[v] /\ status[worker[v].order] \in {"FULFILLING", "COMPLETED"}
      BY <1>3, <1>5, <2>2 DEF PayInv, RefundsPaid
    <3>2. ~RefundCommit(w)
      BY <1>5, <2>2, <3>1 DEF RefundCommit, PayInv, OneRefund
    <3>3. worker[v].order \in Order
      BY <1>5, <3>1, ActsForPlaced
    <3>4. CASE RecordAccepted(w)
      <4>1. status'[worker[v].order] \in {status[worker[v].order], "COMPLETED"}
        BY <3>3, <3>4, RecordsAccepted
      <4> QED BY <3>1, <4>1
    <3>5. CASE ~RecordAccepted(w)
      BY <3>1, <3>2, <3>5, OthersPayNothing DEF orderVars
    <3> QED BY <3>4, <3>5
  <2> QED BY <2>1, <2>2
<1> QED BY <1>1, <1>2, <1>4, <1>5 DEF Pays, PayInv, RefundsPaid

(* And so does every step there is.  The core waits for a refund under way. *)
LEMMA PayStep == WorkInv /\ SentInv /\ PayInv /\ [DeliveryNext]_allVars => PayInv'
<1> SUFFICES ASSUME WorkInv, SentInv, PayInv, [DeliveryNext]_allVars PROVE PayInv'
  OBVIOUS
<1>1. CASE CoreStep \/ UNCHANGED allVars
  <2>1. /\ UNCHANGED worker /\ [Next]_vars
        /\ ~InventoryLocked \/ UNCHANGED vars
    BY <1>1, CoreStepWorks
  <2>2. TypeInv
    BY DEF WorkInv
  <2>3. MoneyInv' /\ \A p \in Order : Sized(p)' /\ Bare(p)'
    BY <2>1, <2>2, MoneyStep, CoreStepSizes DEF PayInv
  <2>4. OneRefund' /\ \A w \in Worker : RefundsPaid(w)'
    BY <2>1 DEF PayInv, OneRefund, RefundsPaid, InventoryLocked, vars, orderVars
  <2> QED BY <2>3, <2>4 DEF PayInv
<1>2. ASSUME UNCHANGED <<worker, orderVars, moneyVars>> PROVE PayInv'
  BY <1>2, MoneyUntouched DEF PayInv, OneRefund, RefundsPaid, Sized, Bare, orderVars, moneyVars
<1>3. ASSUME NEW o \in Order, LeaseExpires(o) PROVE PayInv'
  BY <1>2, <1>3, LeaseRunsOut DEF vars
<1>4. ASSUME NEW o \in Order, NEW u \in Unit, RetryFailed(o, u) \/ RetryAcknowledged(o, u)
      PROVE  PayInv'
  BY <1>2, <1>4, Retries
<1> QED BY <1>1, <1>3, <1>4, StepKinds, WorkerPays

(* Nothing is bought or refunded at first.                                  *)
LEMMA PayStart == DeliveryInit => PayInv
<1> SUFFICES ASSUME DeliveryInit PROVE PayInv
  OBVIOUS
<1>1. MoneyInv
  BY MoneyInit DEF DeliveryInit
<1>2. \A o \in Order : Sized(o) /\ Bare(o)
  BY DEF DeliveryInit, Init, Sized, Bare
<1>3. OneRefund /\ \A w \in Worker : RefundsPaid(w)
  BY DEF DeliveryInit, Idle, OneRefund, RefundsPaid
<1> QED BY <1>1, <1>2, <1>3 DEF PayInv

(* The invariant of the money, with what it relies on.                      *)
LEMMA PayInvariant == DeliverySpec => [](WorkInv /\ PayInv)
BY WorkStart, WorkStep, OnceStart, OnceStep, SentStart, SentStep, PayStart, PayStep, PTL
   DEF DeliverySpec

(* The shop keeps exactly the money its orders are worth, whatever uploads  *)
(* are made, lost, retried or refunded, and however many workers there are: *)
(* a refund for a recipient who is gone pays the order's price back, once,  *)
(* even where its units go astray (StoreProperties, MoneyAccounted, under   *)
(* the worker's specification).                                             *)
THEOREM MoneyStaysAccounted == DeliverySpec => []MoneyAccounted
<1>1. WorkInv /\ PayInv => MoneyAccounted
  BY BooksBalance DEF WorkInv, PayInv
<1> QED BY PayInvariant, <1>1, PTL

(* The limits of the shop and the amounts it waits for.                     *)
LimitInv == InvoicesBounded /\ PreorderQueueBounded /\ BilledAmountsDiffer /\ BinanceInv

(* Settling a paid order opens no invoice and lengthens no queue.           *)
LEMMA SettledKeepsLimits == ASSUME WorkInv, WorkInv', LimitInv, Settled PROVE LimitInv'
<1>1. /\ \A p \in Order :
           /\ status'[p] # "NONE" <=> status[p] # "NONE"
           /\ status'[p] = "PENDING_PAYMENT" <=> status[p] = "PENDING_PAYMENT"
           /\ status'[p] \in {"PENDING_PAYMENT", "PAID_WAITING_STOCK"} =>
                status'[p] = status[p] /\ items'[p] = items[p]
           /\ status[p] \in {"PENDING_PAYMENT", "PAID_WAITING_STOCK"} => status'[p] = status[p]
      /\ UNCHANGED <<payment, invoice, due, attempt>>
  BY DEF Settled
<1>2. Placed' = Placed
  BY <1>1 DEF Placed
<1>3. InvoicesBounded'
  <2>1. \A b \in Buyer : ActiveInvoices(b)' = ActiveInvoices(b)
    BY <1>1, <1>2 DEF ActiveInvoices, Owner, Placed
  <2> QED BY <2>1 DEF LimitInv, InvoicesBounded, InvoiceLimit
<1>4. PreorderQueueBounded'
  <2>1. OpenPreorders' = OpenPreorders
    BY <1>1, <1>2 DEF OpenPreorders, Placed
  <2>2. \A o \in OpenPreorders : SlotsOf(o)' = SlotsOf(o)
    BY <1>1 DEF OpenPreorders, Placed, SlotsOf, Missing
  <2>3. Slots' = Slots
    BY <2>1, <2>2 DEF Slots
  <2>4. Cardinality(Slots)' = Cardinality(Slots)
    BY <2>3
  <2>5. ActivePreorders' = Cardinality(Slots)'
    BY SlotsStayFinite DEF WorkInv, SlotsCount
  <2> QED BY <2>4, <2>5, ActivePreordersAreSlots DEF LimitInv, PreorderQueueBounded
<1>5. BilledAmountsDiffer'
  BY <1>1, <1>2, AmountsStay DEF LimitInv, BilledAmountsDiffer, Placed
<1>6. BinanceInv'
  BY <1>1 DEF LimitInv, BinanceInv
<1> QED BY <1>3, <1>4, <1>5, <1>6 DEF LimitInv

(* So the limits hold beside the worker as in the core.                     *)
LEMMA LimitStep == WorkInv /\ SentInv /\ PayInv /\ LimitInv /\ [DeliveryNext]_allVars => LimitInv'
<1> SUFFICES ASSUME WorkInv, SentInv, PayInv, LimitInv, [DeliveryNext]_allVars PROVE LimitInv'
  OBVIOUS
<1>1. CASE CoreStep \/ UNCHANGED allVars
  <2>1. TypeInv /\ [Next]_vars
    BY <1>1, CoreStepWorks DEF WorkInv
  <2> QED BY <2>1, InvoicesStep, QueueStep, AmountsStep, BinanceStep DEF LimitInv
<1>2. WorkInv'
  BY WorkStep
<1>3. ASSUME UNCHANGED orderVars PROVE LimitInv'
  <2>1. Settled
    BY <1>3 DEF Settled, orderVars
  <2> QED BY <1>2, <2>1, SettledKeepsLimits
<1>4. ASSUME NEW o \in Order, LeaseExpires(o) PROVE LimitInv'
  BY <1>3, <1>4, LeaseRunsOut DEF vars
<1>5. ASSUME NEW o \in Order, NEW u \in Unit, RetryFailed(o, u) \/ RetryAcknowledged(o, u)
      PROVE  LimitInv'
  BY <1>3, <1>5, Retries
<1> QED BY <1>1, <1>2, <1>4, <1>5, StepKinds, WorkerPays, SettledKeepsLimits

(* They hold before anything is ordered.                                    *)
LEMMA LimitStart == DeliveryInit => LimitInv
<1> SUFFICES ASSUME DeliveryInit PROVE LimitInv
  OBVIOUS
<1>1. \A o \in Order : status[o] = "NONE"
  BY DEF DeliveryInit, Init
<1>2. InvoicesBounded
  <2> SUFFICES ASSUME NEW b \in Buyer PROVE Cardinality(ActiveInvoices(b)) <= InvoiceLimit(b)
    BY DEF InvoicesBounded
  <2>1. ActiveInvoices(b) = {}
    BY <1>1 DEF ActiveInvoices, Placed
  <2> QED BY <2>1, FS_EmptySet, LimitAssumption DEF InvoiceLimit
<1>3. PreorderQueueBounded
  <2>1. Slots = {}
    BY <1>1 DEF Slots, OpenPreorders, Placed
  <2> QED BY <2>1, FS_EmptySet, ActivePreordersAreSlots, LimitAssumption DEF PreorderQueueBounded
<1>4. BilledAmountsDiffer /\ BinanceInv
  BY <1>1 DEF BilledAmountsDiffer, BinanceInv, Placed
<1> QED BY <1>2, <1>3, <1>4 DEF LimitInv

(* All of it together.                                                      *)
LEMMA LimitInvariant == DeliverySpec => []LimitInv
BY WorkStart, WorkStep, OnceStart, OnceStep, SentStart, SentStep, PayStart, PayStep,
   LimitStart, LimitStep, PTL DEF DeliverySpec

(* No buyer has more open invoices than the channel allows, and the queue   *)
(* of preorders stays within the product's limit, also while workers        *)
(* deliver and refund: a refund frees units and not a place in either       *)
(* (StoreProperties, InvoicesBounded and PreorderQueueBounded, under the    *)
(* worker's specification).                                                 *)
THEOREM LimitsStay == DeliverySpec => [](InvoicesBounded /\ PreorderQueueBounded)
<1>1. LimitInv => InvoicesBounded /\ PreorderQueueBounded
  BY DEF LimitInv
<1> QED BY LimitInvariant, <1>1, PTL

(* Nor does a worker's step make two open invoices ask for one amount, or   *)
(* close an order whose transfer was verified through Binance's API         *)
(* (StoreProperties, BilledAmountsDiffer and VerifiedStaysPayable, under    *)
(* the worker's specification).                                             *)
THEOREM InvoicesStayPayable == DeliverySpec => [](BilledAmountsDiffer /\ VerifiedStaysPayable)
<1>1. LimitInv => BilledAmountsDiffer /\ VerifiedStaysPayable
  BY DEF LimitInv, BinanceInv, VerifiedStaysPayable, Placed
<1> QED BY LimitInvariant, <1>1, PTL

------------------------------------------------------------------------------
(* What was sent stays taken.  The rest of this module is about the         *)
(* behaviours in which no slot writes a receipt of an order behind the back *)
(* of its refund (Delivery, OrderlySpec); any number of slots work, crash   *)
(* and refund at the same time.  The run RefundRace shows what comes of the *)
(* others.                                                                  *)

(* Such a behaviour is one of the worker's, step by step.                   *)
LEMMA OrderlySteps ==
  [DeliveryNext /\ ~OvertakesRefund]_allVars => [DeliveryNext]_allVars /\ ~OvertakesRefund
<1>1. UNCHANGED allVars => ~OvertakesRefund
  BY DEF allVars, vars, deliveryVars, OvertakesRefund
<1> QED BY <1>1

(* A slot has only files of its order, and the files it may still reserve   *)
(* are the order's as long as that is in fulfilment.                        *)
HoldsItems(w) ==
  /\ worker[w].stage \in Active => worker[w].batch \subseteq items[worker[w].order]
  /\ worker[w].stage \in Outcomes => worker[w].batch # {}
  /\ worker[w].stage \in Holding /\ status[worker[w].order] = "FULFILLING"
       => worker[w].todo \subseteq items[worker[w].order]

(* It refunds an order only when nothing of it is or may be with the buyer. *)
NothingOut(o) ==
  \A u \in Unit : receiptOf[u] = o => receipt[u] \notin {"SENDING", "SENT", "UNKNOWN"}

RefundsUndelivered(w) ==
  worker[w].stage = "REFUNDING" =>
    status[worker[w].order] = "FULFILLING" /\ NothingOut(worker[w].order)

AcceptedAreItems ==
  \A o \in Order, u \in Unit : copies[o][u] # 0 => u \in items[o] /\ ToTelegram(o)

CompletedAreSent ==
  \A o \in Order : status[o] = "COMPLETED" /\ ~IsWeb(Owner(o)) => \A u \in items[o] : copies[o][u] = 1

StayInv ==
  /\ OwnerInv /\ AcceptedAreItems /\ CompletedAreSent
  /\ \A w \in Worker : HoldsItems(w) /\ RefundsUndelivered(w)

(* Nothing is taken at first.                                               *)
LEMMA StayStart == DeliveryInit => StayInv
<1> SUFFICES ASSUME DeliveryInit PROVE StayInv
  OBVIOUS
<1>1. OwnerInv
  BY OwnerInit DEF DeliveryInit
<1>2. AcceptedAreItems /\ CompletedAreSent
  BY DEF DeliveryInit, Init, AcceptedAreItems, CompletedAreSent
<1>3. \A w \in Worker : HoldsItems(w) /\ RefundsUndelivered(w)
  BY DEF DeliveryInit, Idle, HoldsItems, RefundsUndelivered, Active, Holding, Lost, Outcomes
<1> QED BY <1>1, <1>2, <1>3 DEF StayInv

(* While an order is refunded none of its files goes out.                   *)
LEMMA NothingGoesOut ==
  ASSUME ~OvertakesRefund, NEW v \in Worker, worker[v].stage = "REFUNDING",
         NEW o, o = worker[v].order, NothingOut(o)
  PROVE  NothingOut(o)'
<1>1. \A u \in Unit : receiptOf'[u] = o => receipt'[u] = receipt[u] /\ receiptOf'[u] = receiptOf[u]
  BY DEF OvertakesRefund
<1> QED BY <1>1 DEF NothingOut

(* A slot that changes neither orders nor stock.                            *)
LEMMA StaySlot ==
  ASSUME WorkInv, SentInv, StayInv, ~OvertakesRefund, NEW w \in Worker,
         NEW row \in Slot, Becomes(w, row),
         row.stage \in Active => row.batch \subseteq items[row.order],
         row.stage \in Outcomes => row.batch # {},
         row.stage \in Holding /\ status[row.order] = "FULFILLING"
           => row.todo \subseteq items[row.order],
         row.stage = "REFUNDING" => /\ status[row.order] = "FULFILLING" /\ NothingOut(row.order)
                                    /\ UNCHANGED <<receipt, receiptOf>>,
         UNCHANGED <<orderVars, stockVars>>,
         \A o \in Order, u \in Unit : copies'[o][u] # copies[o][u] =>
           copies[o][u] = 0 /\ u \in items[o] /\ ToTelegram(o)
  PROVE  StayInv'
<1>1. /\ UNCHANGED <<status, invoice, items, stock, holder, deliveredTo, archived>>
  BY DEF orderVars, stockVars
<1>2. OwnerInv'
  BY <1>1 DEF StayInv, OwnerInv, StockOwnership
<1>3. AcceptedAreItems'
  BY <1>1 DEF StayInv, AcceptedAreItems, ToTelegram, Owner, IsWeb
<1>4. CompletedAreSent'
  <2> SUFFICES ASSUME NEW o \in Order, status[o] = "COMPLETED", ~IsWeb(Owner(o)), NEW u \in items[o]
               PROVE  copies'[o][u] = 1
    BY <1>1 DEF CompletedAreSent, Owner, IsWeb
  <2>1. copies[o][u] = 1
    BY DEF StayInv, CompletedAreSent
  <2>2. u \in Unit
    BY DEF WorkInv, TypeInv, TypeOK
  <2> QED BY <2>1, <2>2
<1>5. ASSUME NEW v \in Worker PROVE HoldsItems(v)' /\ RefundsUndelivered(v)'
  <2>1. CASE v = w
    <3>1. worker'[v] = row
      BY <2>1 DEF Becomes
    <3>2. HoldsItems(v)'
      BY <1>1, <3>1 DEF HoldsItems
    <3>3. row.stage = "REFUNDING" => status'[row.order] = "FULFILLING" /\ NothingOut(row.order)'
      BY <1>1 DEF NothingOut
    <3> QED BY <3>1, <3>2, <3>3 DEF RefundsUndelivered
  <2>2. CASE v # w
    <3>1. worker'[v] = worker[v]
      BY <2>2 DEF Becomes
    <3>2. HoldsItems(v)'
      BY <1>1, <3>1 DEF StayInv, HoldsItems
    <3>3. ASSUME worker[v].stage = "REFUNDING"
          PROVE  status[worker[v].order] = "FULFILLING" /\ NothingOut(worker[v].order)'
      <4>1. status[worker[v].order] = "FULFILLING" /\ NothingOut(worker[v].order)
        BY <3>3 DEF StayInv, RefundsUndelivered
      <4>2. PICK o : o = worker[v].order
        OBVIOUS
      <4>3. NothingOut(o)'
        BY <3>3, <4>1, <4>2, NothingGoesOut
      <4> QED BY <3>1, <4>1, <4>2, <4>3 DEF NothingOut
    <3> QED BY <1>1, <3>1, <3>2, <3>3 DEF RefundsUndelivered
  <2> QED BY <2>1, <2>2
<1> QED BY <1>2, <1>3, <1>4, <1>5 DEF StayInv

(* The record of an accepted upload delivers units that its order has, and  *)
(* completes the order only with the last of them.                          *)
LEMMA StayRecord ==
  ASSUME WorkInv, OnceInv, SentInv, StayInv, ~OvertakesRefund, NEW w \in Worker, RecordAccepted(w)
  PROVE  StayInv'
<1>1. /\ worker[w].stage = "ACCEPTED" /\ Becomes(w, Idle)
      /\ UNCHANGED <<receiptOf, copies, invoice, items, holder>>
      /\ \A u \in Unit :
           /\ stock'[u] = IF u \in worker[w].batch THEN "DELIVERED" ELSE stock[u]
           /\ deliveredTo'[u] = IF u \in worker[w].batch THEN worker[w].order ELSE deliveredTo[u]
           /\ archived'[u] => archived[u] /\ u \notin worker[w].batch
      /\ \A p \in Order :
           status'[p] # status[p] => /\ p = worker[w].order /\ status'[p] = "COMPLETED"
                                     /\ \A u \in items[p] : stock'[u] = "DELIVERED"
  BY RecordsAccepted
<1>2. PICK o \in Order : o = worker[w].order /\ o \in Placed
  BY <1>1, ActsForPlaced
<1>3. /\ ToTelegram(o) /\ worker[w].batch \subseteq items[o] /\ worker[w].batch \subseteq Unit
      /\ \A u \in worker[w].batch : copies[o][u] = 1
  <2>1. worker[w].batch \subseteq Unit
    BY WorkColumns DEF Slot
  <2>2. ToTelegram(o) /\ \A u \in worker[w].batch : copies[o][u] = 1
    BY <1>1, <1>2 DEF SentInv, SlotToTelegram
  <2>3. worker[w].batch \subseteq items[o]
    BY <1>1, <1>2 DEF StayInv, HoldsItems, Active, Outcomes
  <2> QED BY <2>1, <2>2, <2>3
<1>4. StockOwnership
  BY DEF StayInv, OwnerInv
<1>5. StockOwnership'
  <2>1. \A p \in Order, u \in Unit : u \in items'[p] <=> holder'[u] = p
    BY <1>1, <1>4 DEF StockOwnership
  <2>2. ASSUME NEW u \in Unit
        PROVE  /\ holder'[u] # None <=> stock'[u] \in {"RESERVED", "DELIVERED"}
               /\ deliveredTo'[u] = IF stock'[u] = "DELIVERED" THEN holder'[u] ELSE None
               /\ stock'[u] = "RESERVED" => ~archived'[u]
    <3>1. CASE u \in worker[w].batch
      <4>1. holder[u] = o
        BY <1>3, <1>4, <3>1 DEF StockOwnership
      <4> QED BY <1>1, <1>2, <3>1, <4>1, OrderAssumption
    <3>2. CASE u \notin worker[w].batch
      BY <1>1, <1>4, <3>2 DEF StockOwnership
    <3> QED BY <3>1, <3>2
  <2> QED BY <2>1, <2>2 DEF StockOwnership
<1>6. OwnerInv'
  <2>1. \A p \in Order : status'[p] \in Empty => status[p] \in Empty
    BY <1>1 DEF Empty
  <2> QED BY <1>1, <1>5, <2>1 DEF StayInv, OwnerInv
<1>7. AcceptedAreItems'
  BY <1>1 DEF StayInv, AcceptedAreItems, ToTelegram, Owner, IsWeb
<1>8. CompletedAreSent'
  <2> SUFFICES ASSUME NEW p \in Order, status'[p] = "COMPLETED", ~IsWeb(Owner(p)), NEW u \in items[p]
               PROVE  copies[p][u] = 1
    BY <1>1 DEF CompletedAreSent, Owner, IsWeb
  <2>1. CASE status'[p] = status[p]
    BY <2>1 DEF StayInv, CompletedAreSent
  <2>2. CASE status'[p] # status[p]
    <3>1. p = o /\ u \in Unit /\ stock'[u] = "DELIVERED"
      BY <1>1, <1>2, <2>2 DEF WorkInv, TypeInv, TypeOK
    <3>2. CASE u \notin worker[w].batch
      <4>1. stock[u] = "DELIVERED" /\ holder[u] = o
        BY <1>1, <1>4, <3>1, <3>2 DEF StockOwnership
      <4>2. deliveredTo[u] = o
        BY <1>4, <3>1, <4>1 DEF StockOwnership
      <4> QED BY <3>1, <4>2 DEF SentInv, ReceiptsTrue
    <3> QED BY <1>3, <3>1, <3>2
  <2> QED BY <2>1, <2>2
<1>9. ASSUME NEW v \in Worker PROVE HoldsItems(v)' /\ RefundsUndelivered(v)'
  <2>1. CASE v = w
    BY <1>1, <2>1 DEF Becomes, Idle, HoldsItems, RefundsUndelivered, Active, Holding, Outcomes
  <2>2. CASE v # w
    <3>1. worker'[v] = worker[v] /\ HoldsItems(v)
      BY <1>1, <2>2 DEF Becomes, StayInv
    <3>2. worker[v].stage # "IDLE" => worker[v].order \in Order
      BY ActsForPlaced
    <3>3. worker[v].stage \in Active => worker[v].stage # "IDLE"
      BY DEF Active, Holding, Outcomes
    <3>4. worker[v].stage \in Holding => worker[v].stage \in Active
      BY DEF Active
    <3>5. worker[v].stage \in Holding /\ status'[worker[v].order] = "FULFILLING"
          => status[worker[v].order] = "FULFILLING"
      BY <1>1, <3>2, <3>3, <3>4
    <3>6. HoldsItems(v)'
      BY <1>1, <3>1, <3>5 DEF HoldsItems
    <3>7. ASSUME worker[v].stage = "REFUNDING"
          PROVE  status'[worker[v].order] = "FULFILLING" /\ NothingOut(worker[v].order)'
      <4>1. PICK r : r = worker[v].order /\ r \in Order
        BY <3>2, <3>7
      <4>2. status[r] = "FULFILLING" /\ NothingOut(r)
        BY <3>7, <4>1 DEF StayInv, RefundsUndelivered
      <4>3. NothingOut(r)'
        BY <3>7, <4>1, <4>2, NothingGoesOut
      <4>4. PICK u \in Unit : u \in worker[w].batch
        BY <1>1, <1>3 DEF StayInv, HoldsItems, Outcomes
      <4>5. receiptOf[u] = o /\ receipt[u] \in {"SENDING", "UNKNOWN"}
        BY <1>1, <1>2, <4>4 DEF OnceInv, OwnsReceipts, Active, Outcomes
      <4>6. r # o
        BY <4>2, <4>5 DEF NothingOut
      <4>7. status'[r] = status[r]
        BY <1>1, <1>2, <4>1, <4>6
      <4> QED BY <3>1, <4>1, <4>2, <4>3, <4>7 DEF NothingOut
    <3> QED BY <3>1, <3>6, <3>7 DEF RefundsUndelivered
  <2> QED BY <2>1, <2>2
<1> QED BY <1>6, <1>7, <1>8, <1>9 DEF StayInv

(* A refund lets go of units that were never accepted nor delivered, and of *)
(* all its order has.                                                       *)
LEMMA RefundReleases ==
  ASSUME WorkInv, OnceInv, SentInv, StayInv, NEW w \in Worker, RefundCommit(w)
  PROVE  \E o \in Order :
           /\ o = worker[w].order /\ ToTelegram(o) /\ status[o] = "FULFILLING"
           /\ \A u \in Unit : copies[o][u] = 0 /\ deliveredTo[u] # o
           /\ \A p \in Order : /\ status'[p] = IF p = o THEN "REFUNDED" ELSE status[p]
                              /\ items'[p] = IF p = o THEN {} ELSE items[p]
           /\ \A u \in Unit :
                /\ holder'[u] = IF holder[u] = o THEN None ELSE holder[u]
                /\ holder[u] # o => stock'[u] = stock[u]
                /\ holder[u] = o => stock'[u] \in {"BANNED", "AVAILABLE"} /\ stock[u] = "RESERVED"
<1>1. PICK o \in Order : o = worker[w].order /\ o \in Placed
  BY RefundsCommit, ActsForPlaced
<1>2. /\ worker[w].stage = "REFUNDING" /\ ReleaseUnits(o)
      /\ status' = [status EXCEPT ![o] = "REFUNDED"]
      /\ UNCHANGED <<invoice, deliveredTo, archived, receipt, receiptOf, copies>>
  BY <1>1, RefundsCommit
<1>3. TypeOK /\ StockOwnership
  BY DEF WorkInv, TypeInv, StayInv, OwnerInv
<1>4. ToTelegram(o)
  BY <1>1, <1>2 DEF SentInv, SlotToTelegram
<1>5. \A p \in Order : status'[p] = IF p = o THEN "REFUNDED" ELSE status[p]
  BY <1>2, <1>3 DEF TypeOK
<1>6. status[o] = "FULFILLING" /\ \A u \in Unit : copies[o][u] = 0
  <2>1. status[o] = "FULFILLING" /\ NothingOut(o)
    BY <1>1, <1>2 DEF StayInv, RefundsUndelivered
  <2> QED BY <2>1 DEF NothingOut, OnceInv, AcceptedHasReceipt
<1>7. \A u \in Unit : deliveredTo[u] # o
  BY <1>4, <1>6 DEF SentInv, ReceiptsTrue, ToTelegram
<1>8. \A u \in Unit : u \in ReservedFor(o) <=> holder[u] = o
  <2> SUFFICES ASSUME NEW u \in Unit, holder[u] = o PROVE stock[u] = "RESERVED"
    BY DEF ReservedFor
  <2>1. stock[u] \in {"RESERVED", "DELIVERED"}
    BY <1>3, OrderAssumption DEF StockOwnership
  <2>2. stock[u] # "DELIVERED"
    BY <1>3, <1>7 DEF StockOwnership
  <2> QED BY <2>1, <2>2
<1>9. /\ \A p \in Order : items'[p] = IF p = o THEN {} ELSE items[p]
      /\ \A u \in Unit :
           /\ holder'[u] = IF holder[u] = o THEN None ELSE holder[u]
           /\ holder[u] # o => stock'[u] = stock[u]
           /\ holder[u] = o => stock'[u] \in {"BANNED", "AVAILABLE"} /\ stock[u] = "RESERVED"
  BY <1>2, <1>3, <1>8 DEF ReleaseUnits, TypeOK, ReservedFor
<1> QED BY <1>1, <1>4, <1>5, <1>6, <1>7, <1>9

(* So nothing that was sent is taken away.                                  *)
LEMMA StayRefund ==
  ASSUME WorkInv, OnceInv, SentInv, PayInv, StayInv, NEW w \in Worker, RefundCommit(w)
  PROVE  StayInv'
<1>1. PICK o \in Order :
        /\ o = worker[w].order /\ ToTelegram(o) /\ status[o] = "FULFILLING"
        /\ \A u \in Unit : copies[o][u] = 0 /\ deliveredTo[u] # o
        /\ \A p \in Order : /\ status'[p] = IF p = o THEN "REFUNDED" ELSE status[p]
                           /\ items'[p] = IF p = o THEN {} ELSE items[p]
        /\ \A u \in Unit :
             /\ holder'[u] = IF holder[u] = o THEN None ELSE holder[u]
             /\ holder[u] # o => stock'[u] = stock[u]
             /\ holder[u] = o => stock'[u] \in {"BANNED", "AVAILABLE"} /\ stock[u] = "RESERVED"
  BY RefundReleases
<1>2. /\ worker[w].stage = "REFUNDING"
      /\ worker'[w].stage \in {"IDLE", "FAIL_REST"}
      /\ UNCHANGED <<invoice, deliveredTo, archived, receipt, receiptOf, copies>>
  BY RefundsCommit
<1>3. StockOwnership
  BY DEF StayInv, OwnerInv
<1>4. ASSUME NEW v \in Worker, v # w PROVE worker'[v] = worker[v] /\ worker[v].stage # "REFUNDING"
  <2>1. worker'[v] = worker[v]
    BY <1>4, RefundStarts DEF LoudStep
  <2> QED BY <1>2, <1>4, <2>1 DEF PayInv, OneRefund
<1>5. StockOwnership'
  <2>1. \A p \in Order, u \in Unit : u \in items'[p] <=> holder'[u] = p
    BY <1>1, <1>3, OrderAssumption DEF StockOwnership
  <2>2. ASSUME NEW u \in Unit
        PROVE  /\ holder'[u] # None <=> stock'[u] \in {"RESERVED", "DELIVERED"}
               /\ deliveredTo'[u] = IF stock'[u] = "DELIVERED" THEN holder'[u] ELSE None
               /\ stock'[u] = "RESERVED" => ~archived'[u]
    <3>1. CASE holder[u] = o
      BY <1>1, <1>2, <1>3, <3>1 DEF StockOwnership
    <3>2. CASE holder[u] # o
      BY <1>1, <1>2, <1>3, <3>2 DEF StockOwnership
    <3> QED BY <3>1, <3>2
  <2> QED BY <2>1, <2>2 DEF StockOwnership
<1>6. OwnerInv'
  BY <1>1, <1>5 DEF StayInv, OwnerInv
<1>7. AcceptedAreItems'
  BY <1>1, <1>2 DEF StayInv, AcceptedAreItems, ToTelegram, Owner, IsWeb
<1>8. CompletedAreSent'
  BY <1>1, <1>2 DEF StayInv, CompletedAreSent, Owner, IsWeb
<1>9. ASSUME NEW v \in Worker PROVE HoldsItems(v)' /\ RefundsUndelivered(v)'
  <2>1. CASE v = w
    BY <1>2, <2>1 DEF HoldsItems, RefundsUndelivered, Active, Holding, Outcomes
  <2>2. CASE v # w
    <3>1. worker'[v] = worker[v] /\ worker[v].stage # "REFUNDING" /\ HoldsItems(v)
      BY <1>4, <2>2 DEF StayInv
    <3>2. worker[v].stage \in Active => worker[v].order \in Order
      BY ActsForPlaced DEF Active, Holding, Outcomes
    <3>3. worker[v].stage \in Active /\ worker[v].order = o => worker[v].batch = {}
      <4> SUFFICES ASSUME worker[v].stage \in Active, worker[v].order = o, NEW u \in worker[v].batch
                   PROVE  FALSE
        OBVIOUS
      <4>1. receiptOf[u] = o /\ receipt[u] \in {"SENDING", "UNKNOWN"} /\ u \in Unit
        BY WorkColumns DEF OnceInv, OwnsReceipts, Slot
      <4>2. NothingOut(o)
        BY <1>1, <1>2 DEF StayInv, RefundsUndelivered
      <4> QED BY <4>1, <4>2 DEF NothingOut
    <3>4. worker[v].stage \in Holding => worker[v].stage \in Active
      BY DEF Active
    <3>5. HoldsItems(v)'
      BY <1>1, <3>1, <3>2, <3>3, <3>4 DEF HoldsItems
    <3> QED BY <3>1, <3>5 DEF RefundsUndelivered
  <2> QED BY <2>1, <2>2
<1> QED BY <1>6, <1>7, <1>8, <1>9 DEF StayInv

(* The core takes nothing from an order with files out, and waits for a     *)
(* refund under way.                                                        *)
LEMMA StayCore ==
  ASSUME WorkInv, SentInv, StayInv, CoreKeeps, [Next]_vars, ~InventoryLocked \/ UNCHANGED vars,
         UNCHANGED <<worker, copies>>
  PROVE  StayInv'
<1>1. OwnerInv'
  BY OwnerStep DEF WorkInv, StayInv
<1>2. ASSUME NEW o \in Order, ToTelegram(o) PROVE ToTelegram(o)' /\ items'[o] = items[o]
  BY <1>2 DEF ToTelegram, CoreKeeps, OrdersKept, Owner, IsWeb
<1>3. AcceptedAreItems'
  BY <1>2 DEF StayInv, AcceptedAreItems
<1>4. CompletedAreSent'
  <2> SUFFICES ASSUME NEW o \in Order, status'[o] = "COMPLETED", ~IsWeb(Owner(o))'
               PROVE  \A u \in items'[o] : copies[o][u] = 1
    BY DEF CompletedAreSent
  <2>1. status[o] = "COMPLETED" /\ invoice'[o] = invoice[o]
    BY DEF CoreKeeps, OrdersKept, Owner, IsWeb
  <2>2. items'[o] = items[o] /\ ~IsWeb(Owner(o))
    BY <2>1 DEF CoreKeeps, OrdersKept, Owner, IsWeb
  <2> QED BY <2>1, <2>2 DEF StayInv, CompletedAreSent
<1>5. ASSUME NEW w \in Worker PROVE HoldsItems(w)' /\ RefundsUndelivered(w)'
  <2>1. worker[w].stage # "IDLE" => worker[w].order \in Order /\ ToTelegram(worker[w].order)
    BY ActsForPlaced DEF SentInv, SlotToTelegram
  <2>2. HoldsItems(w)'
    <3>1. worker[w].stage \in Active \cup Holding => worker[w].stage # "IDLE"
      BY DEF Active, Holding, Outcomes
    <3>2. worker[w].stage # "IDLE" =>
            /\ items'[worker[w].order] = items[worker[w].order]
            /\ status'[worker[w].order] = "FULFILLING" => status[worker[w].order] = "FULFILLING"
      BY <1>2, <2>1 DEF ToTelegram, CoreKeeps, OrdersKept
    <3> QED BY <3>1, <3>2 DEF StayInv, HoldsItems
  <2>3. worker[w].stage = "REFUNDING" => UNCHANGED <<status, receipt, receiptOf>>
    BY DEF InventoryLocked, vars, orderVars, deliveryVars
  <2>4. RefundsUndelivered(w)'
    BY <2>3 DEF StayInv, RefundsUndelivered, NothingOut
  <2> QED BY <2>2, <2>4
<1> QED BY <1>1, <1>3, <1>4, <1>5 DEF StayInv

(* Retries only happen while no refund is under way.                        *)
LEMMA StayRetry ==
  ASSUME WorkInv, StayInv, NEW o \in Order, NEW u \in Unit, RetryFailed(o, u) \/ RetryAcknowledged(o, u)
  PROVE  StayInv'
<1>1. /\ ~InventoryLocked
      /\ UNCHANGED <<worker, copies, status, invoice, items, stock, holder, deliveredTo, archived>>
  BY Retries DEF orderVars, stockVars
<1>2. \A w \in Worker : worker[w].stage # "REFUNDING"
  BY <1>1 DEF InventoryLocked
<1>3. OwnerInv'
  BY <1>1 DEF StayInv, OwnerInv, StockOwnership
<1>4. AcceptedAreItems' /\ CompletedAreSent'
  BY <1>1 DEF StayInv, AcceptedAreItems, CompletedAreSent, ToTelegram, Owner, IsWeb
<1>5. \A w \in Worker : HoldsItems(w)' /\ RefundsUndelivered(w)'
  BY <1>1, <1>2 DEF StayInv, HoldsItems, RefundsUndelivered
<1> QED BY <1>3, <1>4, <1>5 DEF StayInv

(* Every step keeps it.                                                     *)
LEMMA StayStep ==
  WorkInv /\ OnceInv /\ SentInv /\ PayInv /\ StayInv /\ [DeliveryNext]_allVars /\ ~OvertakesRefund
  => StayInv'
<1> SUFFICES ASSUME WorkInv, OnceInv, SentInv, PayInv, StayInv, [DeliveryNext]_allVars,
                    ~OvertakesRefund
             PROVE  StayInv'
  OBVIOUS
<1>1. ASSUME NEW w \in Worker, worker[w].stage # "IDLE"
      PROVE  worker[w].order \in Order /\ ToTelegram(worker[w].order)
  BY <1>1, ActsForPlaced DEF SentInv, SlotToTelegram
<1>2. ASSUME NEW w \in Worker, LoudStep(w) PROVE StayInv'
  <2>1. ASSUME NEW o \in Order, NEW C \in SUBSET Unit, Claim(w, o, C) PROVE StayInv'
    <3>1. UNCHANGED <<orderVars, stockVars, copies>>
      BY <2>1, Claims
    <3>2. PICK row \in Slot : Becomes(w, row) /\ row.stage = "CLAIMED"
      BY <2>1, Claims
    <3>3. row.stage \notin Active /\ row.stage \notin Outcomes /\ row.stage \notin Holding
      BY <3>2 DEF Active, Holding, Outcomes
    <3> QED BY <3>1, <3>2, <3>3, StaySlot
  <2>2. CASE Reserve(w)
    <3>1. worker[w].stage = "RESERVING" /\ UNCHANGED <<orderVars, stockVars, copies>>
      BY <2>2, Reserves
    <3>2. PICK u \in Unit, row \in Slot :
            /\ u \in worker[w].todo /\ MaySend(worker[w].order, u)
            /\ Becomes(w, row) /\ row.stage = "RESERVING" /\ row.order = worker[w].order
            /\ row.batch = worker[w].batch \cup {u} /\ row.todo \subseteq worker[w].todo
      BY <2>2, Reserves
    <3>3. HoldsItems(w)
      BY DEF StayInv
    <3>4. row.batch \subseteq items[row.order] /\ row.todo \subseteq items[row.order]
      BY <3>1, <3>2, <3>3 DEF HoldsItems, Active, Holding, MaySend, Deliverable
    <3>5. row.stage \notin Outcomes
      BY <3>2 DEF Outcomes
    <3> QED BY <3>1, <3>2, <3>4, <3>5, StaySlot
  <2>3. CASE MarkUnknown(w)
    <3>1. worker[w].stage = "DOUBTING" /\ UNCHANGED <<orderVars, stockVars, copies>>
      BY <2>3, MarksUnknown
    <3>2. PICK row \in Slot :
            /\ Becomes(w, row) /\ row.stage = "PARKING" /\ row.order = worker[w].order
            /\ row.batch = worker[w].batch /\ row.todo = worker[w].todo
      BY <2>3, MarksUnknown
    <3>3. HoldsItems(w)
      BY DEF StayInv
    <3>4. /\ row.batch \subseteq items[row.order]
          /\ status[row.order] = "FULFILLING" => row.todo \subseteq items[row.order]
      BY <3>1, <3>2, <3>3 DEF HoldsItems, Active, Holding
    <3>5. row.stage \notin Outcomes
      BY <3>2 DEF Outcomes
    <3> QED BY <3>1, <3>2, <3>4, <3>5, StaySlot
  <2>4. ASSUME NEW outcome \in Outcome, Send(w, outcome) PROVE StayInv'
    <3>1. worker[w].stage = "RESERVING" /\ UNCHANGED <<orderVars, stockVars>>
      BY <2>4, Sends DEF vars
    <3>2. PICK row \in Slot :
            /\ Becomes(w, row) /\ row.stage = outcome /\ row.order = worker[w].order
            /\ row.batch = worker[w].batch
      BY <2>4, Sends
    <3>3. HoldsItems(w) /\ NotYetAccepted(w)
      BY DEF StayInv, OnceInv
    <3>4. row.batch \subseteq items[row.order] /\ row.batch # {}
      BY <2>4, <3>1, <3>2, <3>3 DEF HoldsItems, Active, Holding, Send
    <3>5. \A u \in worker[w].batch : \A o \in Order : copies[o][u] = 0
      BY <3>1, <3>3 DEF NotYetAccepted, Active, Holding
    <3>6. \A o \in Order, u \in Unit : copies'[o][u] # copies[o][u] =>
            copies[o][u] = 0 /\ u \in items[o] /\ ToTelegram(o)
      <4>1. \A o \in Order, u \in Unit :
              copies'[o][u] # copies[o][u] => o = worker[w].order /\ u \in worker[w].batch
        BY <2>4, Sends
      <4> QED BY <1>1, <3>1, <3>2, <3>4, <3>5, <4>1
    <3>7. row.stage \notin Holding /\ row.stage # "REFUNDING"
      BY <3>2, DeliveryAssumption DEF Outcomes, Holding
    <3> QED BY <3>1, <3>2, <3>4, <3>6, <3>7, StaySlot
  <2>5. ASSUME NEW files \in {"UNKNOWN", "FAILED"}, Recorded(w, files), worker[w].stage \in Outcomes
        PROVE  StayInv'
    <3>1. PICK row \in Slot :
            /\ Becomes(w, row) /\ row.stage \in {"IDLE", "REFUND"} \cup Settlement
            /\ row.stage = "REFUND" => worker[w].stage = "RECIPIENT_GONE"
      BY <2>5 DEF Recorded
    <3>2. UNCHANGED <<orderVars, stockVars, copies>>
      BY <2>5 DEF Recorded
    <3>3. /\ row.stage \notin Active /\ row.stage \notin Holding /\ row.stage \notin Outcomes
          /\ row.stage # "REFUNDING"
      BY <3>1 DEF Active, Holding, Outcomes, Settlement
    <3> QED BY <3>1, <3>2, <3>3, StaySlot
  <2>6. CASE RecordUnknown(w) /\ ~(UNCHANGED deliveryVars)
    BY <2>5, <2>6, RecordsUnknown DEF Outcomes
  <2>7. CASE RecordTransient(w) \/ RecordRejected(w) \/ RecordRecipientGone(w)
    BY <2>5, <2>7, RecordsFailed DEF Outcomes
  <2> QED BY <1>2, <2>1, <2>2, <2>3, <2>4, <2>6, <2>7, StayRecord, StayRefund DEF LoudStep
<1>3. ASSUME NEW w \in Worker, QuietStep(w) PROVE StayInv'
  <2>1. QuietSlot(w) /\ UNCHANGED <<orderVars, stockVars, receipt, receiptOf, copies>>
    BY <1>3, QuietSteps DEF Quiet
  <2>2. PICK row \in Slot :
          /\ Becomes(w, row)
          /\ row.stage # "IDLE" => row.order = worker[w].order /\ worker[w].stage # "IDLE"
          /\ row.stage \in Active =>
               /\ row.stage \in Holding
               /\ \/ /\ worker[w].stage \in Holding
                     /\ row.batch = worker[w].batch /\ row.todo \subseteq worker[w].todo
                  \/ row.batch = {} /\ row.todo \subseteq items[row.order]
          /\ row.stage \in Lost =>
               /\ row.stage = "REFUNDING" /\ worker[w].stage = "REFUND"
               /\ Refundable(w) /\ status[worker[w].order] # "REFUNDED"
    BY <2>1 DEF QuietSlot
  <2>3. HoldsItems(w) /\ RefundsUndelivered(w)
    BY DEF StayInv
  <2>4. /\ row.stage \in Active => row.batch \subseteq items[row.order]
        /\ row.stage \in Holding /\ status[row.order] = "FULFILLING"
             => row.todo \subseteq items[row.order]
    <3> SUFFICES ASSUME row.stage \in Active
                 PROVE  /\ row.batch \subseteq items[row.order]
                        /\ status[row.order] = "FULFILLING" => row.todo \subseteq items[row.order]
      BY DEF Active
    <3>1. row.order = worker[w].order
      BY <2>2 DEF Active, Holding, Outcomes
    <3> QED BY <2>2, <2>3, <3>1 DEF HoldsItems, Active
  <2>5. row.stage \notin Outcomes
    BY <2>2 DEF Active, Holding, Outcomes
  <2>7. row.stage = "REFUNDING" => status[row.order] = "FULFILLING" /\ NothingOut(row.order)
    <3> SUFFICES ASSUME row.stage = "REFUNDING"
                 PROVE  status[row.order] = "FULFILLING" /\ NothingOut(row.order)
      OBVIOUS
    <3>1. /\ row.order = worker[w].order /\ worker[w].stage # "IDLE"
          /\ Refundable(w) /\ status[row.order] # "REFUNDED"
      BY <2>2 DEF Lost
    <3>2. NothingOut(row.order)
      BY <3>1 DEF Refundable, Receipts, NothingOut
    <3> QED BY <1>1, <3>1, <3>2 DEF ToTelegram, Refundable
  <2> QED BY <2>1, <2>2, <2>4, <2>5, <2>7, StaySlot
<1>4. ASSUME NEW o \in Order, LeaseExpires(o) PROVE StayInv'
  <2>1. UNCHANGED <<worker, copies, status, invoice, items, stock, holder, deliveredTo, archived,
                    receipt, receiptOf>>
    BY <1>4, LeaseRunsOut DEF vars, orderVars, stockVars, deliveryVars
  <2>2. OwnerInv' /\ AcceptedAreItems' /\ CompletedAreSent'
    BY <2>1 DEF StayInv, OwnerInv, StockOwnership, AcceptedAreItems, CompletedAreSent, ToTelegram,
       Owner, IsWeb
  <2>3. \A w \in Worker : HoldsItems(w)' /\ RefundsUndelivered(w)'
    BY <2>1 DEF StayInv, HoldsItems, RefundsUndelivered, NothingOut
  <2> QED BY <2>2, <2>3 DEF StayInv
<1> QED BY <1>2, <1>3, <1>4, StepKinds, CoreStepWorks, StayCore, StayRetry

(* So it holds in every orderly behaviour, with what holds in all.          *)
LEMMA StayInvariant ==
  OrderlySpec => [](WorkInv /\ OnceInv /\ SentInv /\ PayInv /\ StayInv)
BY OrderlySteps, WorkStart, WorkStep, OnceStart, OnceStep, SentStart, SentStep, PayStart, PayStep,
   StayStart, StayStep, PTL DEF OrderlySpec

(* A unit whose file Telegram accepted, even if the worker does not know    *)
(* it, stays an item of its order: no refund and no later sale takes it,    *)
(* with any number of slots that crash, outlive their leases and refund,    *)
(* as long as none writes a receipt behind the back of a refund (Delivery,  *)
(* SentUnitsStayTaken, OrderlySpec) ...                                     *)
THEOREM SentUnitsStay == OrderlySpec => []SentUnitsStayTaken
<1>1. WorkInv /\ StayInv => SentUnitsStayTaken
  <2> SUFFICES ASSUME WorkInv, StayInv, NEW o \in Order, NEW u \in Unit, copies[o][u] > 0
               PROVE  holder[u] = o /\ u \in items[o]
    BY DEF SentUnitsStayTaken
  <2>1. u \in items[o]
    BY WorkColumns DEF StayInv, AcceptedAreItems
  <2> QED BY <2>1 DEF StayInv, OwnerInv, StockOwnership
<1> QED BY StayInvariant, <1>1, PTL

(* ... what the database calls sent was accepted, and a completed Telegram  *)
(* order was sent in full (Delivery, SentIsTrue) ...                        *)
THEOREM SentStaysTrue == OrderlySpec => []SentIsTrue
<1>1. SentInv /\ StayInv => SentIsTrue
  BY DEF SentInv, OutboxTrue, StayInv, CompletedAreSent, SentIsTrue
<1> QED BY StayInvariant, <1>1, PTL

(* ... and a unit is reserved or delivered exactly when one order has it,   *)
(* with the delivery worker at work as without it (StoreProperties,         *)
(* StockOwnership).                                                         *)
THEOREM StockKeepsItsOwner == OrderlySpec => []StockOwnership
<1>1. StayInv => StockOwnership
  BY DEF StayInv, OwnerInv
<1> QED BY StayInvariant, <1>1, PTL

(* Only a refund of a delivery posts one.                                   *)
LEMMA PostsNoRefund ==
  ASSUME TypeOK, NEW b, NEW o, NEW kind, kind # "DELIVERY_REFUND", NEW amount,
         PostEntry(b, o, kind, amount)
  PROVE  \A p \in Order : ledger'[p]["DELIVERY_REFUND"] = ledger[p]["DELIVERY_REFUND"]
<1>1. UNCHANGED ledger \/ ledger' = [ledger EXCEPT ![o][kind] = amount]
  BY DEF PostEntry, moneyVars
<1>2. ledger \in [Order -> [Entry -> Int]]
  BY DEF TypeOK
<1>3. "DELIVERY_REFUND" \in Entry
  BY DEF Entry
<1> QED BY <1>1, <1>2, <1>3

(* No transaction of the core does.                                         *)
LEMMA CoreRefundsNothing ==
  ASSUME TypeInv, [Next]_vars
  PROVE  \A p \in Order : ledger'[p]["DELIVERY_REFUND"] = ledger[p]["DELIVERY_REFUND"]
<1>t. TypeOK
  BY DEF TypeInv
<1>1. CASE InventoryStep \/ UNCHANGED vars
  <2>1. UNCHANGED moneyVars
    BY <1>1 DEF InventoryStep, AddStock, CheckHealth, ArchiveStock, RestoreStock, DeleteStock,
       StockMoves, SetBannedPolicy, vars
  <2> QED BY <2>1 DEF moneyVars
<1>2. ASSUME NEW o \in Order, OrderStep(o)
      PROVE  UNCHANGED ledger \/ \E b, kind, amount : kind # "DELIVERY_REFUND" /\ PostEntry(b, o, kind, amount)
  <2>1. CASE Checkout(o)
    <3>1. PICK b \in Buyer, m \in Method, quantity \in 1..MaxQuantity :
            \/ CreateInvoice(o, b, m, quantity)
            \/ BuyFromWallet(o, b, m, quantity)
            \/ PreorderFromWallet(o, b, m, quantity)
      BY <2>1 DEF Checkout
    <3> QED BY <3>1 DEF CreateInvoice, BuyFromWallet, PreorderFromWallet, moneyVars
  <2>2. CASE ConfirmPayment(o)
    BY <2>2 DEF ConfirmPayment, ConfirmFromStock, ConfirmOutOfStock, ConfirmPreorder, moneyVars
  <2>3. CASE ExpireOrder(o) \/ CancelOrder(o)
    <3>1. ReleaseContribution(o)
      BY <2>3 DEF ExpireOrder, CancelOrder, CloseUnpaid
    <3> QED BY <3>1 DEF ReleaseContribution, moneyVars
  <2>4. CASE CreditExpiredOrder(o) \/ CancelPaidPreorder(o)
    BY <2>4 DEF CreditExpiredOrder, CancelPaidPreorder
  <2>5. CASE TimePasses(o) \/ SubmitTransfer(o) \/ VerifyTransfer(o) \/ RejectTransfer(o)
    BY <2>5 DEF TimePasses, SubmitTransfer, VerifyTransfer, RejectTransfer, AttemptMoves, moneyVars
  <2>6. CASE \/ AllocatePaidPreorder(o) \/ \E u \in Unit : AssignStock(o, u)
             \/ \E R \in SUBSET Unit : DownloadWeb(o, R)
    BY <2>6 DEF AllocatePaidPreorder, AssignStock, DownloadWeb, moneyVars
  <2> QED BY <1>2, <2>1, <2>2, <2>3, <2>4, <2>5, <2>6 DEF OrderStep
<1>3. ASSUME NEW o \in Order, OrderStep(o)
      PROVE  \A p \in Order : ledger'[p]["DELIVERY_REFUND"] = ledger[p]["DELIVERY_REFUND"]
  BY <1>t, <1>2, <1>3, PostsNoRefund
<1> QED BY <1>1, <1>3 DEF Next

(* What PROJECT_CONTEXT.md says of refunds, that none is posted for an order*)
(* with a receipt that is SENDING, SENT or UNKNOWN (Delivery,               *)
(* RefundsRejectUncertain), fails in no other way than by that race: every  *)
(* behaviour without a receipt written behind the back of a refund has it,  *)
(* and RefundRace shows one with it that has not.                           *)
THEOREM OrderlyRefundsRejectUncertain == OrderlySpec => RefundsRejectUncertain
<1> DEFINE Rejects ==
      \A o \in Order :
        ledger'[o]["DELIVERY_REFUND"] # ledger[o]["DELIVERY_REFUND"]
        => \A u \in Receipts(o) : receipt[u] \notin {"SENDING", "SENT", "UNKNOWN"}
<1>1. WorkInv /\ StayInv /\ [DeliveryNext]_allVars => [Rejects]_allVars
  <2> SUFFICES ASSUME WorkInv, StayInv, [DeliveryNext]_allVars PROVE Rejects
    OBVIOUS
  <2>1. CASE CoreStep \/ UNCHANGED allVars
    BY <2>1, CoreStepWorks, CoreRefundsNothing DEF WorkInv
  <2>2. ASSUME NEW w \in Worker, RefundCommit(w) PROVE Rejects
    <3>1. PICK o \in Order : o = worker[w].order /\ worker[w].stage = "REFUNDING"
      BY <2>2, ActsForPlaced DEF RefundCommit
    <3>2. NothingOut(o)
      BY <3>1 DEF StayInv, RefundsUndelivered
    <3>3. UNCHANGED ledger \/ \E a : ledger' = [ledger EXCEPT ![o]["DELIVERY_REFUND"] = a]
      BY <2>2, <3>1 DEF RefundCommit, PostEntry, moneyVars
    <3>4. \A p \in Order \ {o} : ledger'[p] = ledger[p]
      BY <3>3 DEF WorkInv, TypeInv, TypeOK
    <3> QED BY <3>2, <3>4 DEF NothingOut, Receipts
  <2>3. ASSUME NEW w \in Worker, QuietStep(w) \/ LoudStep(w), ~RefundCommit(w) PROVE Rejects
    <3>1. UNCHANGED ledger
      BY <2>3, OthersPayNothing, RecordsAccepted DEF moneyVars
    <3> QED BY <3>1
  <2>4. ASSUME NEW o \in Order, LeaseExpires(o) PROVE Rejects
    BY <2>4 DEF LeaseExpires, vars, moneyVars
  <2>5. ASSUME NEW o \in Order, NEW u \in Unit, RetryFailed(o, u) \/ RetryAcknowledged(o, u)
        PROVE  Rejects
    BY <2>5, Retries DEF moneyVars
  <2> QED BY <2>1, <2>2, <2>3, <2>4, <2>5, StepKinds
<1> HIDE DEF Rejects
<1>2. OrderlySpec => [][Rejects]_allVars
  BY OrderlySteps, StayInvariant, <1>1, PTL DEF OrderlySpec
<1> QED BY <1>2 DEF RefundsRejectUncertain, Rejects

------------------------------------------------------------------------------
(* The goods and the promise, beside the delivery worker.                   *)

(* A receipt of a Telegram order.                                           *)
ForTelegram(u) == receiptOf[u] # None /\ ~IsWeb(Owner(receiptOf[u]))

(* The slot that doubts a receipt has found such a one.                     *)
DoubtsReceipt(w) == worker[w].stage = "DOUBTING" => ForTelegram(NextFile(w))

ServeInv == GoodsInv /\ \A w \in Worker : DoubtsReceipt(w)

(* It holds before anything is sold.                                        *)
LEMMA ServeStart == DeliveryInit => ServeInv
BY FillInit DEF DeliveryInit, ServeInv, DoubtsReceipt, Idle

(* Only Doubt doubts; a slot that goes on keeps what it read.               *)
LEMMA OnlyDoubtDoubts ==
  ASSUME WorkInv, NEW w \in Worker, QuietStep(w), ~Doubt(w)
  PROVE  worker'[w].stage # "DOUBTING"
<1>1. worker \in [Worker -> Slot]
  BY WorkColumns
<1>2. CASE Inspect(w) \/ Crash(w) \/ Park(w) \/ NothingToSend(w)
  BY <1>1, <1>2 DEF Inspect, Crash, Park, NothingToSend, Stop, Idle, Slot
<1>3. CASE Throw(w) \/ SettleRest(w)
  BY <1>1, <1>3 DEF Throw, SettleRest, Settle, Stop, Idle, Slot
<1>4. CASE Refuse(w)
  BY <1>1, <1>4 DEF Refuse, Slot
<1>5. CASE RefundCheck(w) \/ RefundDenied(w) \/ RecordUnknown(w)
  BY <1>1, <1>5 DEF RefundCheck, RefundDenied, RecordUnknown, ThenSettle, GoTo, Stop, Idle, Slot,
     Settlement
<1> QED BY <1>2, <1>3, <1>4, <1>5 DEF QuietStep

(* A step that gives no such receipt to a Web order keeps what the slots    *)
(* that doubt have found, if it doubts nothing new.                         *)
LEMMA DoubtStays ==
  ASSUME WorkInv, ServeInv,
         \A u \in Unit : ForTelegram(u) => ForTelegram(u)',
         \A v \in Worker : worker'[v].stage = "DOUBTING" => worker'[v] = worker[v]
  PROVE  \A v \in Worker : DoubtsReceipt(v)'
<1> SUFFICES ASSUME NEW v \in Worker, worker'[v].stage = "DOUBTING"
             PROVE  ForTelegram(NextFile(v))'
  BY DEF DoubtsReceipt
<1>1. worker'[v] = worker[v] /\ worker[v].stage = "DOUBTING"
  OBVIOUS
<1>2. NextFile(v)' = NextFile(v)
  BY <1>1 DEF NextFile
<1>3. PICK u \in Unit : u = NextFile(v) /\ ForTelegram(u)
  BY <1>1, NextFileIsOne DEF WorkInv, SlotHolds, ServeInv, DoubtsReceipt
<1>4. ForTelegram(u)'
  BY <1>3
<1> QED BY <1>2, <1>3, <1>4 DEF ForTelegram

(* A step that moves no order and no unit keeps the goods as long as it     *)
(* leaves the receipts of Web orders alone.                                 *)
LEMMA GoodsStay ==
  ASSUME WorkInv, GoodsInv, UNCHANGED <<orderVars, stockVars>>,
         \A u \in Unit :
           receipt'[u] # receipt[u] \/ receiptOf'[u] # receiptOf[u] =>
             /\ receiptOf'[u] \in Order /\ ~IsWeb(Owner(receiptOf'[u]))
             /\ receiptOf[u] # None => ~IsWeb(Owner(receiptOf[u]))
             /\ receiptOf'[u] # receiptOf[u] => ToTelegram(receiptOf'[u])
  PROVE  GoodsInv'
<1>1. /\ UNCHANGED <<status, invoice, items, holder, deliveredTo>>
      /\ \A p : Owner(p)' = Owner(p)
  BY DEF orderVars, stockVars, Owner
<1>2. WebReceipts'
  <2> SUFFICES ASSUME NEW u \in Unit
               PROVE  /\ receiptOf'[u] = None => receipt'[u] = "NONE"
                      /\ receiptOf'[u] # None /\ IsWeb(Owner(receiptOf'[u])) =>
                           /\ receipt'[u] \in {"READY", "SENT"} /\ holder[u] = receiptOf'[u]
                           /\ receipt'[u] = "SENT" <=> deliveredTo[u] # None
    BY <1>1 DEF WebReceipts, IsWeb, Owner
  <2>1. CASE receipt'[u] = receipt[u] /\ receiptOf'[u] = receiptOf[u]
    BY <2>1 DEF GoodsInv, WebReceipts
  <2>2. CASE receipt'[u] # receipt[u] \/ receiptOf'[u] # receiptOf[u]
    BY <2>2, OrderAssumption
  <2> QED BY <2>1, <2>2
<1>3. ASSUME NEW o \in Order PROVE Filled(o)'
  <2>1. Filled(o)
    BY DEF GoodsInv
  <2>2. status[o] \notin {"FULFILLING", "COMPLETED", "REFUNDED"} =>
          \A u \in Unit : receiptOf'[u] # o
    BY <2>1 DEF Filled, ToTelegram
  <2>3. IsWeb(Owner(o)) => \A u \in Unit : receiptOf[u] = o => receiptOf'[u] = o
    BY OrderAssumption
  <2>4. items[o] \in SUBSET Unit
    BY DEF WorkInv, TypeInv, TypeOK
  <2> QED BY <1>1, <2>1, <2>2, <2>3, <2>4 DEF Filled
<1> QED BY <1>2, <1>3 DEF GoodsInv

(* The record of an accepted upload: an order is completed with the last    *)
(* of its units, and one that was refunded never is.                        *)
LEMMA RecordCompletes ==
  ASSUME WorkInv, OnceInv, SentInv, StayInv, GoodsInv, ~OvertakesRefund,
         NEW w \in Worker, RecordAccepted(w)
  PROVE  \E o \in Order, sent \in SUBSET Unit :
           /\ ToTelegram(o) /\ sent \subseteq items[o]
           /\ \A u \in sent : u \in Unit /\ receiptOf[u] = o
           /\ \A u \in Unit :
                /\ receipt'[u] = IF u \in sent THEN "SENT" ELSE receipt[u]
                /\ deliveredTo'[u] = IF u \in sent THEN o ELSE deliveredTo[u]
           /\ UNCHANGED <<payment, invoice, items, holder, receiptOf, ledger>>
           /\ \A p \in Order \ {o} : status'[p] = status[p]
           /\ status'[o] = IF status[o] # "REFUNDED" /\ \A u \in items[o] : deliveredTo'[u] = o
                           THEN "COMPLETED" ELSE status[o]
<1> DEFINE sent == worker[w].batch
<1>1. /\ worker[w].stage = "ACCEPTED"
      /\ UNCHANGED <<payment, invoice, items, holder, receiptOf, ledger>>
      /\ \A u \in Unit :
           /\ receipt'[u] = IF u \in sent THEN "SENT" ELSE receipt[u]
           /\ deliveredTo'[u] = IF u \in sent THEN worker[w].order ELSE deliveredTo[u]
  BY RecordsAccepted DEF RecordAccepted
<1>2. PICK o \in Order : o = worker[w].order /\ o \in Placed
  BY <1>1, ActsForPlaced
<1>3. /\ ToTelegram(o) /\ sent \subseteq items[o] /\ items[o] \subseteq Unit
      /\ \A u \in sent : receiptOf[u] = o
  <2>1. ToTelegram(o)
    BY <1>1, <1>2 DEF SentInv, SlotToTelegram
  <2>2. sent \subseteq items[o]
    BY <1>1, <1>2 DEF StayInv, HoldsItems, Active, Outcomes
  <2>3. \A u \in sent : receiptOf[u] = o
    BY <1>1, <1>2 DEF OnceInv, OwnsReceipts, Active, Outcomes
  <2> QED BY <2>1, <2>2, <2>3 DEF WorkInv, TypeInv, TypeOK
<1>4. /\ \A p \in Order \ {o} : status'[p] = status[p]
      /\ status'[o] = IF AllUnitsDelivered(o) THEN "COMPLETED" ELSE status[o]
  BY <1>2 DEF RecordAccepted, WorkInv, TypeInv, TypeOK
<1>5. StockOwnership' /\ StockOwnership
  BY StayRecord DEF StayInv, OwnerInv
<1>6. (\A u \in items[o] : stock'[u] = "DELIVERED") <=> \A u \in items[o] : deliveredTo'[u] = o
  <2>1. \A u \in items[o] : u \in Unit /\ holder'[u] = o
    BY <1>1, <1>3, <1>5 DEF StockOwnership
  <2> QED BY <2>1, <1>5, OrderAssumption DEF StockOwnership
<1>7. Missing(o) = 0 <=> status[o] # "REFUNDED"
  <2>1. Filled(o) /\ invoice[o].quantity \in Nat \ {0}
    BY <1>2, AmountAssumption DEF GoodsInv, Filled, Placed
  <2>2. CASE status[o] = "REFUNDED"
    <3>1. Cardinality(items[o]) = 0
      BY <2>2, FS_EmptySet DEF StayInv, OwnerInv, Empty
    <3> QED BY <2>1, <2>2, <3>1 DEF Missing
  <2>3. CASE status[o] # "REFUNDED"
    <3>1. Cardinality(items[o]) = invoice[o].quantity
      BY <1>3, <2>1, <2>3 DEF ToTelegram, Filled
    <3> QED BY <2>1, <2>3, <3>1 DEF Missing
  <2> QED BY <2>2, <2>3
<1>8. status'[o] = IF status[o] # "REFUNDED" /\ \A u \in items[o] : deliveredTo'[u] = o
                   THEN "COMPLETED" ELSE status[o]
  BY <1>4, <1>6, <1>7 DEF AllUnitsDelivered
<1> HIDE DEF sent
<1> QED BY <1>1, <1>2, <1>3, <1>4, <1>8

(* So it keeps the goods.                                                   *)
LEMMA GoodsRecord ==
  ASSUME WorkInv, OnceInv, SentInv, StayInv, GoodsInv, ~OvertakesRefund,
         NEW w \in Worker, RecordAccepted(w)
  PROVE  GoodsInv'
<1>1. PICK o \in Order, sent \in SUBSET Unit :
        /\ ToTelegram(o) /\ sent \subseteq items[o]
        /\ \A u \in sent : u \in Unit /\ receiptOf[u] = o
        /\ \A u \in Unit :
             /\ receipt'[u] = IF u \in sent THEN "SENT" ELSE receipt[u]
             /\ deliveredTo'[u] = IF u \in sent THEN o ELSE deliveredTo[u]
        /\ UNCHANGED <<payment, invoice, items, holder, receiptOf, ledger>>
        /\ \A p \in Order \ {o} : status'[p] = status[p]
        /\ status'[o] = IF status[o] # "REFUNDED" /\ \A u \in items[o] : deliveredTo'[u] = o
                        THEN "COMPLETED" ELSE status[o]
  BY RecordCompletes
<1>2. StockOwnership /\ Filled(o) /\ \A p \in Order : items[p] \in SUBSET Unit
  BY DEF StayInv, OwnerInv, GoodsInv, WorkInv, TypeInv, TypeOK
<1>3. WebReceipts'
  <2> SUFFICES ASSUME NEW u \in Unit, receiptOf[u] # None
               PROVE  IsWeb(Owner(receiptOf[u])) =>
                        /\ receipt'[u] \in {"READY", "SENT"} /\ holder[u] = receiptOf[u]
                        /\ receipt'[u] = "SENT" <=> deliveredTo'[u] # None
    BY <1>1, OrderAssumption DEF WebReceipts, IsWeb, Owner, GoodsInv
  <2>1. u \in sent => ~IsWeb(Owner(receiptOf[u]))
    BY <1>1 DEF ToTelegram
  <2> QED BY <1>1, <2>1 DEF GoodsInv, WebReceipts
<1>4. ASSUME NEW p \in Order \ {o} PROVE Filled(p)'
  <2>1. \A u \in sent : u \in Unit /\ deliveredTo[u] \in {None, o}
    BY <1>1, <1>2 DEF StockOwnership
  <2>2. \A u \in Unit : deliveredTo'[u] = p <=> deliveredTo[u] = p
    BY <1>1, <2>1, OrderAssumption
  <2> QED BY <1>1, <1>2, <2>2, OthersStayFilled
<1>5. Filled(o)'
  <2>1. status[o] \in {"FULFILLING", "COMPLETED", "REFUNDED"} /\ ~IsWeb(Owner(o))
    BY <1>1 DEF ToTelegram
  <2>2. status[o] = "COMPLETED" => \A u \in items[o] : deliveredTo'[u] = o
    BY <1>1, <1>2 DEF Filled
  <2> QED BY <1>1, <1>2, <2>1, <2>2 DEF Filled, Owner, IsWeb
<1> QED BY <1>3, <1>4, <1>5 DEF GoodsInv

(* A refund keeps the goods of the other orders, and needs none.            *)
LEMMA GoodsRefund ==
  ASSUME WorkInv, OnceInv, SentInv, StayInv, GoodsInv,
         NEW w \in Worker, RefundCommit(w)
  PROVE  GoodsInv'
<1>1. PICK o \in Order :
        /\ ToTelegram(o) /\ status[o] = "FULFILLING"
        /\ \A p \in Order : /\ status'[p] = IF p = o THEN "REFUNDED" ELSE status[p]
                           /\ items'[p] = IF p = o THEN {} ELSE items[p]
        /\ \A u \in Unit : holder'[u] = IF holder[u] = o THEN None ELSE holder[u]
  BY RefundReleases
<1>2. UNCHANGED <<invoice, deliveredTo, receipt, receiptOf>>
  BY RefundsCommit
<1>3. WebReceipts'
  <2> SUFFICES ASSUME NEW u \in Unit, receiptOf[u] # None, IsWeb(Owner(receiptOf[u]))
               PROVE  /\ receipt[u] \in {"READY", "SENT"} /\ holder'[u] = receiptOf[u]
                      /\ receipt[u] = "SENT" <=> deliveredTo[u] # None
    BY <1>2 DEF WebReceipts, IsWeb, Owner, GoodsInv
  <2>1. receiptOf[u] # o
    BY <1>1 DEF ToTelegram
  <2> QED BY <1>1, <2>1 DEF GoodsInv, WebReceipts
<1>4. ASSUME NEW p \in Order \ {o} PROVE Filled(p)'
  <2>1. items[p] \in SUBSET Unit
    BY DEF WorkInv, TypeInv, TypeOK
  <2> QED BY <1>1, <1>2, <2>1, OthersStayFilled
<1>5. Filled(o)'
  BY <1>1, <1>2 DEF GoodsInv, Filled
<1> QED BY <1>3, <1>4, <1>5 DEF GoodsInv

(* A step of the worker that touches no order and no unit.                  *)
LEMMA ServeStays ==
  ASSUME WorkInv, ServeInv, UNCHANGED <<orderVars, stockVars>>,
         \A v \in Worker : worker'[v].stage = "DOUBTING" => worker'[v] = worker[v],
         \A u \in Unit :
           receipt'[u] # receipt[u] \/ receiptOf'[u] # receiptOf[u] =>
             /\ receiptOf'[u] \in Order /\ ~IsWeb(Owner(receiptOf'[u]))
             /\ receiptOf[u] # None => ~IsWeb(Owner(receiptOf[u]))
             /\ receiptOf'[u] # receiptOf[u] => ToTelegram(receiptOf'[u])
  PROVE  ServeInv'
<1>1. GoodsInv'
  BY GoodsStay DEF ServeInv
<1>2. \A u \in Unit : ForTelegram(u) => ForTelegram(u)'
  BY OrderAssumption DEF ForTelegram, Owner, IsWeb, orderVars
<1> QED BY <1>1, <1>2, DoubtStays DEF ServeInv

(* A slot that goes on to a stage that is not DOUBTING doubts nothing new.  *)
LEMMA DoubtsNothing ==
  ASSUME NEW w \in Worker, NEW row, Becomes(w, row), row.stage # "DOUBTING"
  PROVE  \A v \in Worker : worker'[v].stage = "DOUBTING" => worker'[v] = worker[v]
BY DEF Becomes

(* Reserving gives a file the receipt of the order that has it, for which   *)
(* no Web order's receipt is taken.                                         *)
LEMMA ServeReserve ==
  ASSUME WorkInv, SentInv, ServeInv, NEW w \in Worker, Reserve(w)
  PROVE  ServeInv'
<1>1. PICK u \in Unit, row \in Slot :
        /\ MaySend(worker[w].order, u)
        /\ receipt' = [receipt EXCEPT ![u] = "SENDING"]
        /\ receiptOf' = [receiptOf EXCEPT ![u] = worker[w].order]
        /\ Becomes(w, row) /\ row.stage = "RESERVING"
  BY Reserves
<1>2. worker[w].stage = "RESERVING" /\ UNCHANGED <<orderVars, stockVars, moneyVars>>
  BY Reserves
<1>3. PICK o \in Order : o = worker[w].order
  BY <1>2, ActsForPlaced
<1>4. ToTelegram(o)
  BY <1>2, <1>3 DEF SentInv, SlotToTelegram
<1>5. receiptOf[u] # None => ~IsWeb(Owner(receiptOf[u]))
  BY <1>1, <1>3, <1>4 DEF MaySend, CanMoveReceipt, ToTelegram, ServeInv, GoodsInv, WebReceipts
<1>6. \A v \in Unit :
        receipt'[v] # receipt[v] \/ receiptOf'[v] # receiptOf[v] => v = u /\ receiptOf'[v] = o
  BY <1>1, <1>3, WorkColumns
<1>7. \A v \in Worker : worker'[v].stage = "DOUBTING" => worker'[v] = worker[v]
  BY <1>1, DoubtsNothing
<1> QED BY <1>2, <1>4, <1>5, <1>6, <1>7, ServeStays DEF ToTelegram

(* The receipt a slot doubts is of a Telegram order.                        *)
LEMMA ServeMark ==
  ASSUME WorkInv, ServeInv, NEW w \in Worker, MarkUnknown(w)
  PROVE  ServeInv'
<1> DEFINE u == NextFile(w)
<1>1. /\ worker[w].stage = "DOUBTING" /\ worker[w].todo # {}
      /\ receipt' = [receipt EXCEPT ![u] = "UNKNOWN"]
      /\ UNCHANGED <<orderVars, stockVars, receiptOf, moneyVars>>
  BY DEF MarkUnknown, WorkInv, SlotHolds
<1>2. u \in Unit
  BY <1>1, NextFileIsOne
<1>3. ForTelegram(u)
  BY <1>1 DEF ServeInv, DoubtsReceipt
<1> HIDE DEF u
<1>4. receiptOf[u] \in Order /\ ~IsWeb(Owner(receiptOf[u]))
  BY <1>2, <1>3, WorkColumns DEF ForTelegram
<1>5. \A v \in Unit : receipt'[v] # receipt[v] => v = u
  BY <1>1, WorkColumns
<1>6. PICK row \in Slot : Becomes(w, row) /\ row.stage = "PARKING"
  BY MarksUnknown
<1>7. \A v \in Worker : worker'[v].stage = "DOUBTING" => worker'[v] = worker[v]
  BY <1>6, DoubtsNothing
<1> QED BY <1>1, <1>4, <1>5, <1>7, ServeStays

(* The record of an upload that failed, or of which nothing is known, is    *)
(* one of receipts the slot owns.                                           *)
LEMMA ServeRecorded ==
  ASSUME WorkInv, OnceInv, SentInv, ServeInv, NEW w \in Worker,
         NEW files \in {"UNKNOWN", "FAILED"}, Recorded(w, files), worker[w].stage \in Outcomes
  PROVE  ServeInv'
<1>1. PICK row \in Slot : Becomes(w, row) /\ row.stage \in {"IDLE", "REFUND"} \cup Settlement
  BY DEF Recorded
<1>2. /\ \A u \in Unit : receipt'[u] = IF u \in worker[w].batch THEN files ELSE receipt[u]
      /\ UNCHANGED <<receiptOf, orderVars, stockVars, moneyVars>>
  BY DEF Recorded
<1>3. PICK o \in Order : o = worker[w].order
  BY ActsForPlaced DEF Outcomes
<1>4. ToTelegram(o)
  BY <1>3 DEF SentInv, SlotToTelegram, Outcomes
<1>5. \A u \in worker[w].batch : receiptOf[u] = o
  BY <1>3 DEF OnceInv, OwnsReceipts, Active
<1>6. \A u \in Unit : receipt'[u] # receipt[u] => receiptOf[u] = o
  BY <1>2, <1>5
<1>7. row.stage # "DOUBTING"
  BY <1>1 DEF Settlement
<1>8. \A v \in Worker : worker'[v].stage = "DOUBTING" => worker'[v] = worker[v]
  BY <1>1, <1>7, DoubtsNothing
<1> QED BY <1>2, <1>4, <1>6, <1>8, ServeStays DEF ToTelegram

(* Every step keeps the goods.                                              *)
LEMMA ServeStep ==
  WorkInv /\ OnceInv /\ SentInv /\ StayInv /\ ServeInv /\ [DeliveryNext]_allVars
  /\ ~OvertakesRefund => ServeInv'
<1> SUFFICES ASSUME WorkInv, OnceInv, SentInv, StayInv, ServeInv, [DeliveryNext]_allVars,
                    ~OvertakesRefund
             PROVE  ServeInv'
  OBVIOUS
<1>1. CASE CoreStep \/ UNCHANGED allVars
  <2>1. [Next]_vars /\ UNCHANGED worker /\ CoreKeeps
    BY <1>1, CoreStepWorks
  <2>2. TypeInv /\ OwnerInv /\ GoodsInv
    BY DEF WorkInv, StayInv, ServeInv
  <2>3. GoodsInv'
    BY <2>1, <2>2, FillStep DEF FillKept
  <2>4. ASSUME NEW u \in Unit, ForTelegram(u) PROVE ForTelegram(u)'
    <3>1. PICK o \in Order : o = receiptOf[u] /\ ~IsWeb(Owner(o))
      BY <2>4, WorkColumns DEF ForTelegram
    <3>2. receiptOf'[u] = o /\ status[o] # "NONE"
      BY <2>1, <2>4, <3>1 DEF ForTelegram, CoreKeeps, ReceiptsKept, SentInv, ReceiptsTrue
    <3>3. invoice'[o] = invoice[o]
      BY <2>1, <3>2 DEF CoreKeeps, OrdersKept
    <3> QED BY <3>1, <3>2, <3>3, OrderAssumption DEF ForTelegram, Owner, IsWeb
  <2> QED BY <2>1, <2>3, <2>4, DoubtStays DEF ServeInv
<1>2. ASSUME NEW o \in Order, LeaseExpires(o) PROVE ServeInv'
  BY <1>2, LeaseRunsOut, ServeStays DEF vars, deliveryVars
<1>3. ASSUME NEW o \in Order, NEW u \in Unit, RetryFailed(o, u) \/ RetryAcknowledged(o, u)
      PROVE  ServeInv'
  <2>1. /\ receiptOf[u] = o /\ UNCHANGED <<worker, orderVars, stockVars, receiptOf, moneyVars>>
        /\ \/ UNCHANGED receipt
           \/ receipt' = [receipt EXCEPT ![u] = "FAILED"] /\ receipt[u] = "UNKNOWN"
    BY <1>3, Retries
  <2>2. \A v \in Unit : receipt'[v] # receipt[v] => v = u /\ receipt[u] = "UNKNOWN"
    BY <2>1, WorkColumns
  <2>3. receipt[u] = "UNKNOWN" => ~IsWeb(Owner(o))
    BY <2>1, OrderAssumption DEF ServeInv, GoodsInv, WebReceipts
  <2> QED BY <2>1, <2>2, <2>3, ServeStays
<1>4. ASSUME NEW w \in Worker, QuietStep(w) PROVE ServeInv'
  <2>1. QuietSlot(w) /\ UNCHANGED <<receipt, receiptOf, orderVars, stockVars, moneyVars>>
    BY <1>4, QuietSteps DEF Quiet
  <2>2. PICK row \in Slot : Becomes(w, row)
    BY <2>1 DEF QuietSlot
  <2>3. CASE ~Doubt(w)
    <3>1. row.stage # "DOUBTING"
      BY <1>4, <2>2, <2>3, OnlyDoubtDoubts DEF Becomes
    <3> QED BY <2>1, <2>2, <3>1, DoubtsNothing, ServeStays
  <2>4. CASE Doubt(w)
    <3>1. /\ worker[w].todo # {} /\ receiptOf[NextFile(w)] = worker[w].order
          /\ worker[w].stage # "IDLE" /\ GoTo(w, "DOUBTING")
      BY <2>4 DEF Doubt
    <3>2. ForTelegram(NextFile(w))
      BY <3>1, ActsForPlaced, OrderAssumption DEF ForTelegram, SentInv, SlotToTelegram, ToTelegram
    <3>3. NextFile(w)' = NextFile(w)
      BY <3>1, WorkColumns DEF GoTo, NextFile
    <3>4. \A v \in Worker : DoubtsReceipt(v)'
      <4>1. DoubtsReceipt(w)'
        BY <2>1, <3>2, <3>3 DEF DoubtsReceipt, ForTelegram, Owner, IsWeb, orderVars
      <4>2. ASSUME NEW v \in Worker, v # w PROVE DoubtsReceipt(v)'
        BY <2>1, <2>2, <4>2 DEF Becomes, ServeInv, DoubtsReceipt, NextFile,
           ForTelegram, Owner, IsWeb, orderVars
      <4> QED BY <4>1, <4>2
    <3>5. GoodsInv'
      BY <2>1, GoodsStay DEF ServeInv
    <3> QED BY <3>4, <3>5 DEF ServeInv
  <2> QED BY <2>3, <2>4
<1>5. ASSUME NEW w \in Worker, LoudStep(w) PROVE ServeInv'
  <2>1. ASSUME NEW o \in Order, NEW C \in SUBSET Unit, Claim(w, o, C) PROVE ServeInv'
    <3>1. UNCHANGED <<orderVars, stockVars, moneyVars, receipt, receiptOf>>
      BY <2>1 DEF Claim
    <3>2. PICK row \in Slot : Becomes(w, row) /\ row.stage = "CLAIMED"
      BY <2>1, Claims
    <3> QED BY <3>1, <3>2, DoubtsNothing, ServeStays
  <2>2. ASSUME NEW outcome \in Outcome, Send(w, outcome) PROVE ServeInv'
    <3>1. UNCHANGED <<orderVars, stockVars, moneyVars, receipt, receiptOf>>
      BY <2>2 DEF Send, vars, deliveryVars
    <3>2. PICK row \in Slot : Becomes(w, row) /\ row.stage = outcome
      BY <2>2, Sends
    <3>3. row.stage # "DOUBTING"
      BY <3>2, DeliveryAssumption DEF Outcomes
    <3> QED BY <3>1, <3>2, <3>3, DoubtsNothing, ServeStays
  <2>3. CASE RecordUnknown(w) /\ ~(UNCHANGED deliveryVars)
    BY <2>3, RecordsUnknown, ServeRecorded DEF Outcomes
  <2>4. CASE RecordTransient(w) \/ RecordRejected(w) \/ RecordRecipientGone(w)
    BY <2>4, RecordsFailed, ServeRecorded DEF Outcomes
  <2>5. CASE RecordAccepted(w) \/ RefundCommit(w)
    <3>1. UNCHANGED receiptOf /\ worker'[w].stage \in {"IDLE", "FAIL_REST"}
      BY <2>5, RecordsAccepted, RefundsCommit DEF Becomes, Idle
    <3>2. PICK row \in Slot : Becomes(w, row)
      BY <2>5, RecordsAccepted, RefundsCommit DEF QuietSlot, Becomes
    <3>3. row.stage # "DOUBTING"
      BY <3>1, <3>2 DEF Becomes
    <3>4. GoodsInv'
      BY <2>5, GoodsRecord, GoodsRefund DEF ServeInv
    <3>5. UNCHANGED invoice
      BY <2>5, RecordsAccepted, RefundsCommit
    <3>6. \A u \in Unit : ForTelegram(u) => ForTelegram(u)'
      BY <3>1, <3>5 DEF ForTelegram, Owner, IsWeb
    <3> QED BY <3>2, <3>3, <3>4, <3>6, DoubtsNothing, DoubtStays DEF ServeInv
  <2> QED BY <1>5, <2>1, <2>2, <2>3, <2>4, <2>5, ServeReserve, ServeMark DEF LoudStep
<1> QED BY <1>1, <1>2, <1>3, <1>4, <1>5, StepKinds

------------------------------------------------------------------------------
(* The worker keeps the promise: it gives what was allotted, or compensates *)
(* an order of which nothing was given.                                     *)

(* The record of an accepted upload gives its files, or says again what was *)
(* given.                                                                   *)
LEMMA RecordGives ==
  ASSUME WorkInv, OnceInv, SentInv, StayInv, GoodsInv, ~OvertakesRefund,
         NEW w \in Worker, RecordAccepted(w)
  PROVE  \E o \in Order : Promise!Give(o) \/ UNCHANGED Promise!promise
<1>1. PICK o \in Order, sent \in SUBSET Unit :
        /\ ToTelegram(o) /\ sent \subseteq items[o]
        /\ \A u \in Unit : deliveredTo'[u] = IF u \in sent THEN o ELSE deliveredTo[u]
        /\ UNCHANGED <<payment, invoice, items>>
        /\ \A p \in Order \ {o} : status'[p] = status[p]
        /\ status'[o] = IF status[o] # "REFUNDED" /\ \A u \in items[o] : deliveredTo'[u] = o
                        THEN "COMPLETED" ELSE status[o]
  BY RecordCompletes
<1>t. /\ status \in [Order -> OrderStatus] /\ items \in [Order -> SUBSET Unit]
      /\ Filled(o) /\ StockOwnership
  BY DEF WorkInv, TypeInv, TypeOK, GoodsInv, StayInv, OwnerInv
<1> DEFINE new == {u \in sent : deliveredTo[u] # o}
<1>2. CASE new = {}
  <2>1. \A u \in Unit : deliveredTo'[u] = deliveredTo[u]
    BY <1>1, <1>2
  <2>2. UNCHANGED Givens
    BY <2>1 DEF Givens
  <2>3. status'[o] = status[o]
    BY <1>1, <1>t, <2>1 DEF ToTelegram, Filled
  <2>4. \A p \in Order : status'[p] = status[p]
    BY <1>1, <2>3
  <2>5. \A p \in Order : PhaseOf(p)' = PhaseOf(p)
    BY <1>1, <2>4 DEF PhaseOf
  <2>6. UNCHANGED Phases
    BY <2>5 DEF Phases
  <2>7. UNCHANGED Wants
    BY <1>1, <2>4, WantsStay
  <2> QED BY <1>1, <2>2, <2>6, <2>7 DEF Promise!promise, Phases, Wants, Givens
<1>3. CASE new # {}
  <2>1. status[o] = "FULFILLING"
    BY <1>1, <1>3, <1>t DEF ToTelegram, Filled, StayInv, OwnerInv, Empty
  <2>2. Givens' = [Givens EXCEPT ![o] = @ \cup new]
    <3>1. ASSUME NEW p \in Order
          PROVE  {u \in Unit : deliveredTo'[u] = p}
                   = IF p = o THEN {u \in Unit : deliveredTo[u] = p} \cup new
                              ELSE {u \in Unit : deliveredTo[u] = p}
      BY <1>1, <1>t, OrderAssumption DEF StockOwnership
    <3> HIDE DEF new
    <3> QED BY <3>1 DEF Givens
  <2>3. Givens'[o] = {u \in Unit : deliveredTo'[u] = o}
    BY DEF Givens
  <2>4. Givens'[o] = items'[o] <=> \A u \in items[o] : deliveredTo'[u] = o
    <3>1. Givens'[o] \subseteq items[o]
      BY <1>1, <1>t, <2>3, OrderAssumption DEF StockOwnership
    <3> QED BY <1>1, <1>t, <2>3, <3>1
  <2>5. PhaseOf(o)' = IF Givens'[o] = items'[o] THEN "GIVEN" ELSE "ALLOTTED"
    BY <1>1, <2>1, <2>4 DEF PhaseOf
  <2>6. Phases' = [Phases EXCEPT ![o] = IF Givens'[o] = items'[o] THEN "GIVEN" ELSE "ALLOTTED"]
    BY <1>1, <2>5, OnePhaseMoves
  <2>7. Phases[o] = "ALLOTTED"
    BY <2>1 DEF Phases, PhaseOf
  <2>8. UNCHANGED Wants
    BY <1>1, <2>1, WantsStay
  <2>9. new \in SUBSET (items[o] \ Givens[o])
    BY <1>1 DEF Givens
  <2> HIDE DEF new
  <2> QED BY <1>1, <1>3, <2>2, <2>6, <2>7, <2>8, <2>9
          DEF Promise!Give, Promise!Become, Phases, Wants, Givens
<1> QED BY <1>2, <1>3

(* A refund compensates.                                                    *)
LEMMA RefundCompensates ==
  ASSUME WorkInv, OnceInv, SentInv, StayInv, NEW w \in Worker, RefundCommit(w)
  PROVE  \E o \in Order : Promise!Compensate(o)
<1>t. /\ status \in [Order -> OrderStatus] /\ items \in [Order -> SUBSET Unit]
  BY DEF WorkInv, TypeInv, TypeOK
<1>1. PICK o \in Order :
        /\ ToTelegram(o) /\ status[o] = "FULFILLING"
        /\ \A u \in Unit : deliveredTo[u] # o
        /\ \A p \in Order : /\ status'[p] = IF p = o THEN "REFUNDED" ELSE status[p]
                           /\ items'[p] = IF p = o THEN {} ELSE items[p]
  BY RefundReleases
<1>2. UNCHANGED <<payment, invoice, deliveredTo>>
  BY DEF RefundCommit
<1>3. items' = [items EXCEPT ![o] = {}]
  <2>1. items' \in [Order -> SUBSET Unit]
    BY RefundsCommit DEF WorkInv, TypeInv, TypeOK
  <2> QED BY <1>t, <1>1, <2>1
<1>4. Phases' = [Phases EXCEPT ![o] = "COMPENSATED"]
  <2>1. PhaseOf(o)' = "COMPENSATED"
    BY <1>1 DEF PhaseOf
  <2> QED BY <1>1, <1>2, <2>1, OnePhaseMoves
<1>5. Phases[o] = "ALLOTTED"
  BY <1>1 DEF Phases, PhaseOf
<1>6. UNCHANGED Wants /\ UNCHANGED Givens
  BY <1>1, <1>2, WantsStay, GivensStay
<1>7. Givens[o] = {}
  BY <1>1 DEF Givens
<1> QED BY <1>3, <1>4, <1>5, <1>6, <1>7 DEF Promise!Compensate, Promise!Become, Phases, Wants, Givens

(* Every step of shop and worker is a step of the promise, or none of its   *)
(* business.                                                                *)
LEMMA WorkerKeepsPromise ==
  WorkInv /\ OnceInv /\ SentInv /\ StayInv /\ ServeInv /\ [DeliveryNext]_allVars
  /\ ~OvertakesRefund => [Promise!PromiseNext]_(Promise!promise)
<1> SUFFICES ASSUME WorkInv, OnceInv, SentInv, StayInv, ServeInv, [DeliveryNext]_allVars,
                    ~OvertakesRefund
             PROVE  Promise!PromiseNext \/ UNCHANGED Promise!promise
  OBVIOUS
<1>1. CASE CoreStep \/ UNCHANGED allVars
  <2>1. [Next]_vars
    BY <1>1, CoreStepWorks
  <2>2. CoreInv
    BY DEF CoreInv, WorkInv, StayInv, ServeInv
  <2> QED BY <2>1, <2>2, PromiseIsKept
<1>2. ASSUME UNCHANGED <<orderVars, stockVars>>
      PROVE  UNCHANGED Promise!promise
  BY <1>2, PromiseStutters DEF orderVars, stockVars
<1>3. ASSUME NEW o \in Order, LeaseExpires(o) PROVE UNCHANGED Promise!promise
  BY <1>2, <1>3, LeaseRunsOut DEF vars
<1>4. ASSUME NEW o \in Order, NEW u \in Unit, RetryFailed(o, u) \/ RetryAcknowledged(o, u)
      PROVE  UNCHANGED Promise!promise
  BY <1>2, <1>4, Retries
<1>5. ASSUME NEW w \in Worker, QuietStep(w) PROVE UNCHANGED Promise!promise
  BY <1>2, <1>5, QuietSteps DEF Quiet
<1>6. ASSUME NEW w \in Worker, LoudStep(w)
      PROVE  Promise!PromiseNext \/ UNCHANGED Promise!promise
  <2>1. CASE RecordAccepted(w)
    BY <2>1, RecordGives DEF ServeInv, Promise!PromiseNext, Promise!PromiseStep
  <2>2. CASE RefundCommit(w)
    BY <2>2, RefundCompensates DEF Promise!PromiseNext, Promise!PromiseStep
  <2>3. CASE \/ \E o \in Order, C \in SUBSET Unit : Claim(w, o, C)
             \/ Reserve(w) \/ MarkUnknown(w) \/ \E outcome \in Outcome : Send(w, outcome)
    BY <1>2, <2>3 DEF Claim, Reserve, MarkUnknown, Send, vars
  <2>4. CASE RecordUnknown(w) \/ RecordTransient(w) \/ RecordRejected(w) \/ RecordRecipientGone(w)
    BY <1>2, <2>4 DEF RecordUnknown, RecordTransient, RecordRejected, RecordRecipientGone
  <2> QED BY <1>6, <2>1, <2>2, <2>3, <2>4 DEF LoudStep
<1> QED BY <1>1, <1>3, <1>4, <1>5, <1>6, StepKinds

(* The invariants of the shop with its delivery worker.                     *)
LEMMA ShopInvariant ==
  OrderlySpec => [](WorkInv /\ OnceInv /\ SentInv /\ StayInv /\ ServeInv)
BY OrderlySteps, StayInvariant, ServeStart, ServeStep, PTL DEF OrderlySpec

(* The shop with its delivery worker implements OrderPromise: a refund      *)
(* comes only to an order of which nothing was given, an upload gives only  *)
(* what the order was allotted, and the order is given with its last file,  *)
(* with any number of slots, unless one writes a receipt behind the back of *)
(* a refund (StoreProperties, KeepsPromise, under Delivery's OrderlySpec).  *)
THEOREM WorkerPromiseHolds == OrderlySpec => KeepsPromise
<1>1. DeliveryInit => Promise!PromiseInit
  BY PromiseStarts DEF DeliveryInit
<1> QED BY OrderlySteps, ShopInvariant, WorkerKeepsPromise, <1>1, PTL
        DEF OrderlySpec, KeepsPromise, Promise!PromiseSpec

------------------------------------------------------------------------------
(* What a refund leaves behind, and what an order in fulfilment has, beside *)
(* the delivery worker.                                                     *)

(* A receipt names the order that has the file; only a refund leaves one    *)
(* behind, and it is a failed one.                                          *)
LeftBehind(u) ==
  \/ receiptOf[u] = None \/ receiptOf[u] = holder[u]
  \/ receipt[u] = "FAILED" /\ status[receiptOf[u]] = "REFUNDED"

(* A Telegram order's receipt is of an upload.                              *)
OfUpload(u) ==
  receiptOf[u] # None /\ ~IsWeb(Owner(receiptOf[u]))
    => receipt[u] \in {"SENDING", "SENT", "FAILED", "UNKNOWN"}

(* A Telegram order in fulfilment has a notification for every file.        *)
NoticedInFull(o) ==
  status[o] \in {"FULFILLING", "COMPLETED"} /\ ~IsWeb(Owner(o)) =>
    \A u \in items[o] : outbox[o][u] # "NONE"

LeftInv ==
  /\ \A u \in Unit : LeftBehind(u) /\ OfUpload(u)
  /\ \A o \in Order : NoticedInFull(o)

(* Nothing is there to leave at first.                                      *)
LEMMA LeftStart == DeliveryInit => LeftInv
BY DEF DeliveryInit, Init, Idle, LeftInv, LeftBehind, OfUpload, NoticedInFull

(* A transaction that puts a Telegram order into fulfilment queues all it   *)
(* has.                                                                     *)
LEMMA CoreNotices ==
  ASSUME TypeInv, OwnerInv, [Next]_vars, NEW o \in Order,
         status[o] \notin {"FULFILLING", "COMPLETED"}, status'[o] \in {"FULFILLING", "COMPLETED"},
         ~IsWeb(Owner(o))'
  PROVE  \A u \in items'[o] : outbox'[o][u] # "NONE"
<1>t. /\ status \in [Order -> OrderStatus] /\ items \in [Order -> SUBSET Unit]
      /\ outbox \in [Order -> [Unit -> NotificationStatus]] /\ TypeOK
  BY DEF TypeInv, TypeOK
<1>1. OrderStep(o)
  <2>1. CASE InventoryStep \/ UNCHANGED vars
    BY <2>1, InventoryKeepsGoods DEF vars, orderVars
  <2>2. ASSUME NEW p \in Order, OrderStep(p) PROVE p = o
    <3>1. p # o => status'[o] = status[o]
      BY <2>2, OrdersApart
    <3> QED BY <3>1
  <2> QED BY <2>1, <2>2 DEF Next
<1>2. ASSUME NEW T \in SUBSET Unit, NEW b, QueueDelivery(b, o, T), ~IsWeb(b), items'[o] \subseteq T
      PROVE  \A u \in items'[o] : outbox'[o][u] # "NONE"
  BY <1>t, <1>2 DEF QueueDelivery, QueueTelegram
<1>3. \A T \in SUBSET Sellable : ClaimUnits(o, T) => items'[o] = items[o] \cup T /\ T \in SUBSET Unit
  BY <1>t DEF ClaimUnits, Sellable
<1>4. status[o] \in Empty => items[o] = {}
  BY DEF OwnerInv
<1>5. CASE Checkout(o)
  <2>1. PICK b \in Buyer, m \in Method, quantity \in 1..MaxQuantity :
          \/ CreateInvoice(o, b, m, quantity)
          \/ BuyFromWallet(o, b, m, quantity)
          \/ PreorderFromWallet(o, b, m, quantity)
    BY <1>5 DEF Checkout
  <2>2. BuyFromWallet(o, b, m, quantity)
    BY <1>t, <2>1 DEF CreateInvoice, PreorderFromWallet
  <2>3. PICK T \in SUBSET Sellable : ClaimUnits(o, T) /\ QueueDelivery(b, o, T)
    BY <2>2 DEF BuyFromWallet
  <2>4. status[o] = "NONE" /\ Owner(o)' = b
    BY <2>2 DEF BuyFromWallet, CanCheckout, NewInvoice, Owner, TypeInv, TypeOK
  <2> QED BY <1>2, <1>3, <1>4, <2>3, <2>4 DEF Empty, IsWeb
<1>6. CASE LaterStep(o)
  <2>1. ~IsWeb(Owner(o))
    BY <1>6, LaterStepFrame DEF IsWeb, Owner
  <2>2. ConfirmFromStock(o) \/ AllocatePaidPreorder(o) \/ \E u \in Unit : AssignStock(o, u)
    BY <1>t, <1>6 DEF LaterStep, TimePasses, SubmitTransfer, VerifyTransfer, RejectTransfer,
       AttemptMoves, ConfirmPayment, ConfirmOutOfStock, ConfirmPreorder, ExpireOrder, CancelOrder,
       CloseUnpaid, CreditExpiredOrder, CancelPaidPreorder, DownloadWeb
  <2>3. CASE ConfirmFromStock(o)
    <3>1. PICK T \in SUBSET Sellable : ClaimUnits(o, T) /\ QueueDelivery(Owner(o), o, T)
      BY <2>3 DEF ConfirmFromStock
    <3>2. items[o] = {}
      BY <1>4, <2>3 DEF ConfirmFromStock, Payable, Empty
    <3> QED BY <1>2, <1>3, <2>1, <3>1, <3>2
  <2>4. CASE AllocatePaidPreorder(o)
    <3>1. PICK T \in SUBSET Sellable : ClaimUnits(o, T) /\ QueueDelivery(Owner(o), o, AllUnits(o, T))
      BY <2>4 DEF AllocatePaidPreorder
    <3> QED BY <1>t, <1>2, <1>3, <2>1, <3>1 DEF AllUnits
  <2>5. ASSUME NEW u \in Unit, AssignStock(o, u) PROVE \A v \in items'[o] : outbox'[o][v] # "NONE"
    <3>1. /\ ClaimUnits(o, {u}) /\ u \in Sellable
          /\ QueueDelivery(Owner(o), o, AllUnits(o, {u}))
      BY <2>5 DEF AssignStock
    <3> QED BY <1>t, <1>2, <1>3, <2>1, <3>1 DEF AllUnits
  <2> QED BY <2>2, <2>3, <2>4, <2>5
<1> QED BY <1>1, <1>5, <1>6 DEF OrderStep, LaterStep

(* No worker takes a notification away.                                     *)
LEMMA NoticesStay ==
  ASSUME WorkInv, NEW w \in Worker, QuietStep(w) \/ LoudStep(w), NEW o \in Order, NEW u \in Unit,
         outbox[o][u] # "NONE"
  PROVE  outbox'[o][u] # "NONE"
<1>1. ASSUME NEW p, NEW N, NEW s, s # "NONE", Notify(p, N, s) PROVE outbox'[o][u] # "NONE"
  BY <1>1 DEF Notify, WorkInv, TypeInv, TypeOK
<1>2. CASE \/ Crash(w) \/ Doubt(w) \/ NothingToSend(w) \/ RefundCheck(w)
           \/ RecordUnknown(w) /\ UNCHANGED deliveryVars
           \/ Reserve(w) \/ MarkUnknown(w) \/ \E outcome \in Outcome : Send(w, outcome)
  BY <1>2 DEF Crash, Doubt, NothingToSend, RefundCheck, Reserve, MarkUnknown, Send, vars, deliveryVars
<1>3. CASE Inspect(w) \/ Throw(w) \/ Refuse(w) \/ Park(w) \/ RefundDenied(w)
  BY <1>1, <1>3 DEF Inspect, Throw, Refuse, Park, RefundDenied
<1>4. CASE SettleRest(w)
  BY <1>1, <1>4 DEF SettleRest, Settle
<1>5. CASE \E p \in Order, C \in SUBSET Unit : Claim(w, p, C)
  BY <1>1, <1>5 DEF Claim
<1>6. CASE RecordAccepted(w) \/ RefundCommit(w)
  BY <1>1, <1>6 DEF RecordAccepted, RefundCommit
<1>7. CASE /\ RecordUnknown(w) \/ RecordTransient(w) \/ RecordRejected(w) \/ RecordRecipientGone(w)
           /\ ~(RecordUnknown(w) /\ UNCHANGED deliveryVars)
  <2>1. PICK files, s : RecordFiles(w, files, s) /\ s # "NONE"
    BY <1>7 DEF RecordUnknown, RecordTransient, RecordRejected, RecordRecipientGone
  <2> QED BY <1>1, <2>1 DEF RecordFiles
<1> QED BY <1>2, <1>3, <1>4, <1>5, <1>6, <1>7 DEF QuietStep, LoudStep

(* A step that takes no unit from an order, and writes a receipt only of    *)
(* the order that has the file.                                             *)
LEMMA LeftStays ==
  ASSUME WorkInv, LeftInv, UNCHANGED <<invoice, items, holder>>,
         \A o \in Order : /\ status[o] = "REFUNDED" => status'[o] = "REFUNDED"
                          /\ status'[o] \in {"FULFILLING", "COMPLETED"}
                               => status[o] \in {"FULFILLING", "COMPLETED"},
         \A o \in Order, u \in Unit : outbox[o][u] # "NONE" => outbox'[o][u] # "NONE",
         \A u \in Unit :
           receipt'[u] # receipt[u] \/ receiptOf'[u] # receiptOf[u] =>
             /\ receiptOf'[u] = holder[u]
             /\ receipt'[u] \in {"SENDING", "SENT", "FAILED", "UNKNOWN"}
  PROVE  LeftInv'
<1>1. ASSUME NEW u \in Unit PROVE LeftBehind(u)' /\ OfUpload(u)'
  <2>1. LeftBehind(u) /\ OfUpload(u) /\ receiptOf[u] \in Order \cup {None}
    BY WorkColumns DEF LeftInv
  <2>2. CASE receipt'[u] = receipt[u] /\ receiptOf'[u] = receiptOf[u]
    BY <2>1, <2>2 DEF LeftBehind, OfUpload, IsWeb, Owner
  <2>3. CASE receipt'[u] # receipt[u] \/ receiptOf'[u] # receiptOf[u]
    BY <2>3 DEF LeftBehind, OfUpload
  <2> QED BY <2>2, <2>3
<1>2. \A o \in Order : NoticedInFull(o)'
  <2>1. \A o \in Order : items[o] \in SUBSET Unit
    BY DEF WorkInv, TypeInv, TypeOK
  <2> QED BY <2>1 DEF LeftInv, NoticedInFull, IsWeb, Owner
<1> QED BY <1>1, <1>2 DEF LeftInv

(* A refund leaves failed receipts, of its order and of no other.           *)
LEMMA LeftRefund ==
  ASSUME WorkInv, OnceInv, SentInv, StayInv, LeftInv, NEW w \in Worker, RefundCommit(w)
  PROVE  LeftInv'
<1>1. PICK o \in Order :
        /\ o = worker[w].order /\ ToTelegram(o)
        /\ \A p \in Order : /\ status'[p] = IF p = o THEN "REFUNDED" ELSE status[p]
                           /\ items'[p] = IF p = o THEN {} ELSE items[p]
        /\ \A u \in Unit : holder'[u] = IF holder[u] = o THEN None ELSE holder[u]
  BY RefundReleases
<1>2. /\ worker[w].stage = "REFUNDING" /\ worker'[w].stage \in {"IDLE", "FAIL_REST"}
      /\ UNCHANGED <<invoice, receipt, receiptOf>>
  BY RefundsCommit
<1>3. NothingOut(o)
  BY <1>1, <1>2 DEF StayInv, RefundsUndelivered
<1>4. ASSUME NEW u \in Unit PROVE LeftBehind(u)' /\ OfUpload(u)'
  <2>1. LeftBehind(u) /\ OfUpload(u) /\ receiptOf[u] \in Order \cup {None}
    BY WorkColumns DEF LeftInv
  <2>2. OfUpload(u)'
    BY <1>2, <2>1 DEF OfUpload, IsWeb, Owner
  <2>3. CASE receiptOf[u] = o
    <3>1. receipt[u] = "FAILED"
      BY <1>1, <1>3, <2>1, <2>3, OrderAssumption DEF NothingOut, OfUpload, ToTelegram
    <3> QED BY <1>1, <1>2, <2>2, <2>3, <3>1 DEF LeftBehind
  <2>4. CASE receiptOf[u] # o
    BY <1>1, <1>2, <2>1, <2>2, <2>4 DEF LeftBehind
  <2> QED BY <2>3, <2>4
<1>5. \A p \in Order : NoticedInFull(p)'
  <2> SUFFICES ASSUME NEW p \in Order, status'[p] \in {"FULFILLING", "COMPLETED"},
                      ~IsWeb(Owner(p))', NEW u \in items'[p]
               PROVE  outbox'[p][u] # "NONE"
    BY DEF NoticedInFull
  <2>1. p # o /\ status'[p] = status[p] /\ items'[p] = items[p] /\ u \in Unit
    BY <1>1 DEF WorkInv, TypeInv, TypeOK
  <2>2. outbox[p][u] # "NONE"
    BY <1>2, <2>1 DEF LeftInv, NoticedInFull, IsWeb, Owner
  <2> QED BY <2>1, <2>2, NoticesStay DEF LoudStep
<1> QED BY <1>4, <1>5 DEF LeftInv

(* The core gives new receipts to Web orders only, of what they have.       *)
LEMMA LeftCore ==
  ASSUME WorkInv, SentInv, StayInv, StayInv', ServeInv, ServeInv', LeftInv, [Next]_vars, CoreKeeps,
         UNCHANGED worker, WorkInv'
  PROVE  LeftInv'
<1>1. ASSUME NEW u \in Unit PROVE LeftBehind(u)' /\ OfUpload(u)'
  <2>1. LeftBehind(u) /\ OfUpload(u) /\ receiptOf[u] \in Order \cup {None}
    BY WorkColumns DEF LeftInv
  <2>2. CASE receipt'[u] # receipt[u] \/ receiptOf'[u] # receiptOf[u]
    <3>1. receiptOf'[u] \in Order /\ IsWeb(Owner(receiptOf[u]))'
      BY <2>2 DEF CoreKeeps, ReceiptsKept, IsWeb, Owner
    <3>2. holder'[u] = receiptOf'[u]
      BY <3>1, OrderAssumption DEF ServeInv, GoodsInv, WebReceipts
    <3> QED BY <3>1, <3>2 DEF LeftBehind, OfUpload
  <2>3. CASE receipt'[u] = receipt[u] /\ receiptOf'[u] = receiptOf[u] /\ receiptOf[u] = None
    BY <2>3 DEF LeftBehind, OfUpload
  <2>4. CASE receipt'[u] = receipt[u] /\ receiptOf'[u] = receiptOf[u] /\ receiptOf[u] # None
    <3>1. PICK o \in Order : receiptOf[u] = o
      BY <2>1, <2>4
    <3>2. status[o] # "NONE" /\ invoice'[o] = invoice[o]
      BY <3>1 DEF SentInv, ReceiptsTrue, CoreKeeps, OrdersKept
    <3>3. OfUpload(u)'
      BY <2>1, <2>4, <3>1, <3>2 DEF OfUpload, IsWeb, Owner
    <3>4. LeftBehind(u)'
      <4>1. CASE receipt[u] = "FAILED" /\ status[o] = "REFUNDED"
        BY <2>4, <3>1, <4>1 DEF CoreKeeps, OrdersKept, LeftBehind
      <4>2. CASE holder[u] = o
        <5>1. u \in items[o]
          BY <4>2 DEF StayInv, OwnerInv, StockOwnership
        <5>2. items'[o] = items[o]
          <6>1. status[o] \in {"FULFILLING", "COMPLETED", "REFUNDED"}
            BY <3>1 DEF ServeInv, GoodsInv, Filled
          <6> QED BY <6>1 DEF CoreKeeps, OrdersKept
        <5>3. holder'[u] = o
          BY <5>1, <5>2 DEF StayInv, OwnerInv, StockOwnership
        <5> QED BY <2>4, <3>1, <5>3 DEF LeftBehind
      <4> QED BY <2>1, <2>4, <3>1, <4>1, <4>2 DEF LeftBehind
    <3> QED BY <3>3, <3>4
  <2> QED BY <2>2, <2>3, <2>4
<1>2. \A o \in Order : NoticedInFull(o)'
  <2> SUFFICES ASSUME NEW o \in Order, status'[o] \in {"FULFILLING", "COMPLETED"},
                      ~IsWeb(Owner(o))', NEW u \in items'[o]
               PROVE  outbox'[o][u] # "NONE"
    BY DEF NoticedInFull
  <2>1. CASE status[o] \in {"FULFILLING", "COMPLETED"}
    <3>1. items'[o] = items[o] /\ invoice'[o] = invoice[o] /\ u \in Unit
      BY <2>1 DEF CoreKeeps, OrdersKept, WorkInv, TypeInv, TypeOK
    <3>2. outbox[o][u] # "NONE"
      BY <2>1, <3>1 DEF LeftInv, NoticedInFull, IsWeb, Owner
    <3> QED BY <3>1, <3>2 DEF CoreKeeps, NoticesKept
  <2>2. CASE status[o] \notin {"FULFILLING", "COMPLETED"}
    BY <2>2, CoreNotices DEF WorkInv, StayInv
  <2> QED BY <2>1, <2>2
<1> QED BY <1>1, <1>2 DEF LeftInv

(* The files of a slot are those of its order's units.                      *)
LEMMA BatchIsHeld ==
  ASSUME WorkInv, StayInv, NEW w \in Worker, NEW u \in Unit,
         \/ worker[w].stage \in Active /\ u \in worker[w].batch
         \/ /\ worker[w].stage \in Holding /\ u \in worker[w].todo
            /\ status[worker[w].order] = "FULFILLING"
  PROVE  holder[u] = worker[w].order
<1>1. worker[w].order \in Order /\ u \in items[worker[w].order]
  BY ActsForPlaced DEF StayInv, HoldsItems, Active, Holding, Outcomes
<1> QED BY <1>1 DEF StayInv, OwnerInv, StockOwnership

(* The worker writes receipts of the files of its order only, and otherwise *)
(* none.                                                                    *)
LEMMA LeftQuiet ==
  ASSUME WorkInv, LeftInv, NEW w \in Worker, QuietStep(w)
  PROVE  LeftInv'
<1>1. UNCHANGED <<receipt, receiptOf, orderVars, stockVars, moneyVars>>
  BY QuietSteps DEF Quiet
<1>2. \A o \in Order, u \in Unit : outbox[o][u] # "NONE" => outbox'[o][u] # "NONE"
  BY NoticesStay
<1> QED BY <1>1, <1>2, LeftStays DEF orderVars, stockVars

(* So with what it reserves, doubts, uploads and records.                   *)
LEMMA LeftLoud ==
  ASSUME WorkInv, OnceInv, SentInv, StayInv, ServeInv, LeftInv, ~OvertakesRefund,
         NEW w \in Worker, LoudStep(w), ~RefundCommit(w)
  PROVE  LeftInv'
<1>1. \A o \in Order, u \in Unit : outbox[o][u] # "NONE" => outbox'[o][u] # "NONE"
  BY NoticesStay
<1>2. CASE \/ \E o \in Order, C \in SUBSET Unit : Claim(w, o, C)
           \/ \E outcome \in Outcome : Send(w, outcome)
  <2>1. UNCHANGED <<orderVars, stockVars, receipt, receiptOf>>
    BY <1>2 DEF Claim, Send, vars, deliveryVars
  <2> QED BY <1>1, <2>1, LeftStays DEF orderVars, stockVars
<1>3. CASE Reserve(w)
  <2>1. /\ worker[w].stage = "RESERVING" /\ UNCHANGED <<orderVars, stockVars>>
        /\ \E u \in Unit :
             /\ u \in worker[w].todo /\ MaySend(worker[w].order, u)
             /\ receipt' = [receipt EXCEPT ![u] = "SENDING"]
             /\ receiptOf' = [receiptOf EXCEPT ![u] = worker[w].order]
    BY <1>3, Reserves
  <2>2. PICK u \in Unit :
             /\ u \in worker[w].todo /\ MaySend(worker[w].order, u)
             /\ receipt' = [receipt EXCEPT ![u] = "SENDING"]
             /\ receiptOf' = [receiptOf EXCEPT ![u] = worker[w].order]
    BY <2>1
  <2>3. holder[u] = worker[w].order
    BY <2>1, <2>2, BatchIsHeld DEF Holding, MaySend, Deliverable
  <2>4. \A v \in Unit :
          receipt'[v] # receipt[v] \/ receiptOf'[v] # receiptOf[v] =>
            receiptOf'[v] = holder[v] /\ receipt'[v] = "SENDING"
    BY <2>2, <2>3, WorkColumns
  <2> QED BY <1>1, <2>1, <2>4, LeftStays DEF orderVars, stockVars
<1>4. CASE MarkUnknown(w)
  <2>1. /\ worker[w].stage = "DOUBTING" /\ UNCHANGED <<orderVars, stockVars, receiptOf>>
        /\ receipt' = [receipt EXCEPT ![NextFile(w)] = "UNKNOWN"] /\ worker[w].todo # {}
    BY <1>4 DEF MarkUnknown, WorkInv, SlotHolds
  <2>2. PICK u \in Unit : u = NextFile(w)
    BY <2>1, NextFileIsOne
  <2>3. receiptOf[u] # None /\ LeftBehind(u)
    BY <2>1, <2>2 DEF ServeInv, DoubtsReceipt, ForTelegram, LeftInv
  <2>4. receipt'[u] # receipt[u] => receiptOf[u] = holder[u]
    BY <2>1, <2>3 DEF OvertakesRefund, LeftBehind
  <2>5. \A v \in Unit :
          receipt'[v] # receipt[v] => receiptOf[v] = holder[v] /\ receipt'[v] = "UNKNOWN"
    BY <2>1, <2>2, <2>4, WorkColumns
  <2> QED BY <1>1, <2>1, <2>5, LeftStays DEF orderVars, stockVars
<1>5. ASSUME NEW files \in {"UNKNOWN", "FAILED"}, Recorded(w, files), worker[w].stage \in Active
      PROVE  LeftInv'
  <2>1. /\ UNCHANGED <<receiptOf, orderVars, stockVars>>
        /\ \A u \in Unit : receipt'[u] = IF u \in worker[w].batch THEN files ELSE receipt[u]
    BY <1>5 DEF Recorded
  <2>2. \A u \in Unit : u \in worker[w].batch => receiptOf[u] = holder[u]
    BY <1>5, BatchIsHeld DEF OnceInv, OwnsReceipts
  <2> QED BY <1>1, <1>5, <2>1, <2>2, LeftStays DEF orderVars, stockVars
<1>6. CASE \/ RecordUnknown(w) /\ ~(UNCHANGED deliveryVars)
           \/ RecordTransient(w) \/ RecordRejected(w) \/ RecordRecipientGone(w)
  BY <1>5, <1>6, RecordsUnknown, RecordsFailed DEF Active, Outcomes
<1>7. CASE RecordAccepted(w)
  <2>1. PICK o \in Order, sent \in SUBSET Unit :
           /\ ToTelegram(o) /\ sent \subseteq items[o]
           /\ \A u \in sent : u \in Unit /\ receiptOf[u] = o
           /\ \A u \in Unit : receipt'[u] = IF u \in sent THEN "SENT" ELSE receipt[u]
           /\ UNCHANGED <<invoice, items, holder, receiptOf>>
           /\ \A p \in Order \ {o} : status'[p] = status[p]
           /\ \/ status'[o] = status[o]
              \/ status[o] # "REFUNDED" /\ status'[o] = "COMPLETED"
    BY <1>7, RecordCompletes DEF ServeInv
  <2>2. \A u \in sent : holder[u] = o
    BY <2>1 DEF StayInv, OwnerInv, StockOwnership
  <2>3. \A p \in Order : /\ status[p] = "REFUNDED" => status'[p] = "REFUNDED"
                         /\ status'[p] \in {"FULFILLING", "COMPLETED"}
                              => status[p] \in {"FULFILLING", "COMPLETED"}
    BY <2>1 DEF ToTelegram
  <2> QED BY <1>1, <2>1, <2>2, <2>3, LeftStays
<1> QED BY <1>2, <1>3, <1>4, <1>6, <1>7 DEF LoudStep

(* Every step keeps it.                                                     *)
LEMMA LeftStep ==
  WorkInv /\ OnceInv /\ SentInv /\ PayInv /\ StayInv /\ ServeInv /\ LeftInv
  /\ [DeliveryNext]_allVars /\ ~OvertakesRefund => LeftInv'
<1> SUFFICES ASSUME WorkInv, OnceInv, SentInv, PayInv, StayInv, ServeInv, LeftInv,
                    [DeliveryNext]_allVars, ~OvertakesRefund
             PROVE  LeftInv'
  OBVIOUS
<1>1. CASE CoreStep \/ UNCHANGED allVars
  <2>1. WorkInv' /\ CoreKeeps /\ UNCHANGED worker /\ [Next]_vars
    BY <1>1, CoreStepWorks
  <2>2. StayInv' /\ ServeInv'
    BY StayStep, ServeStep
  <2> QED BY <2>1, <2>2, LeftCore
<1>2. ASSUME NEW o \in Order, LeaseExpires(o) PROVE LeftInv'
  BY <1>2, LeaseRunsOut, LeftStays DEF vars, orderVars, stockVars, deliveryVars
<1>3. ASSUME NEW o \in Order, NEW u \in Unit, RetryFailed(o, u) \/ RetryAcknowledged(o, u)
      PROVE  LeftInv'
  <2>1. /\ receiptOf[u] = o /\ UNCHANGED <<worker, orderVars, stockVars, receiptOf>>
        /\ \A p \in Order, v \in Unit : outbox'[p][v] # outbox[p][v] => outbox'[p][v] = "PENDING"
        /\ \/ UNCHANGED receipt
           \/ receipt' = [receipt EXCEPT ![u] = "FAILED"]
    BY <1>3, Retries
  <2>2. holder[u] = o
    BY <1>3 DEF RetryFailed, RetryAcknowledged, StillAssigned
  <2>3. \A v \in Unit : receipt'[v] # receipt[v] => receiptOf[v] = holder[v] /\ receipt'[v] = "FAILED"
    BY <2>1, <2>2, WorkColumns
  <2> QED BY <2>1, <2>3, LeftStays DEF orderVars, stockVars
<1>4. ASSUME NEW w \in Worker, QuietStep(w) \/ LoudStep(w) PROVE LeftInv'
  BY <1>4, LeftQuiet, LeftLoud, LeftRefund
<1> QED BY <1>1, <1>2, <1>3, <1>4, StepKinds

(* The shop's invariants with this one.                                     *)
LEMMA LeftInvariant == OrderlySpec => [](WorkInv /\ StayInv /\ ServeInv /\ LeftInv)
BY OrderlySteps, StayInvariant, ShopInvariant, LeftStart, LeftStep, PTL DEF OrderlySpec

(* Whatever an earlier order left on a file (delivery-worker.ts,            *)
(* reserveDeliveryReceipt): the order that has the file now finds no        *)
(* receipt, its own, or one it may take over.  So a receipt that still      *)
(* names another order never makes an upload to Telegram refuse.            *)
THEOREM LeftReceiptsMove ==
  OrderlySpec =>
    [](\A o \in Order : \A u \in items[o] :
         Deliverable(o) /\ ~IsWeb(Owner(o)) /\ stock[u] = "RESERVED"
         => receiptOf[u] \in {None, o} \/ CanMoveReceipt(u, o))
<1>1. StayInv /\ LeftInv /\ WorkInv =>
        \A o \in Order : \A u \in items[o] :
          Deliverable(o) /\ ~IsWeb(Owner(o)) /\ stock[u] = "RESERVED"
          => receiptOf[u] \in {None, o} \/ CanMoveReceipt(u, o)
  <2> SUFFICES ASSUME StayInv, LeftInv, WorkInv, NEW o \in Order, NEW u \in items[o],
                      stock[u] = "RESERVED", receiptOf[u] \notin {None, o}
               PROVE  CanMoveReceipt(u, o)
    OBVIOUS
  <2>1. u \in Unit
    BY DEF WorkInv, TypeInv, TypeOK
  <2>2. holder[u] = o /\ LeftBehind(u)
    BY <2>1 DEF StayInv, OwnerInv, StockOwnership, LeftInv
  <2> QED BY <2>2 DEF LeftBehind, CanMoveReceipt
<1> QED BY LeftInvariant, <1>1, PTL

(* An order in fulfilment has what was bought, and every unit of it a       *)
(* notification or a download (StoreProperties, FulfilmentComplete), beside *)
(* the delivery worker too: no crash, failure or retry leaves a paid unit   *)
(* that nobody will send.                                                   *)
THEOREM FulfilmentStaysComplete ==
  OrderlySpec =>
    [](\A o \in Order :
         status[o] \in {"FULFILLING", "COMPLETED"} =>
           /\ Cardinality(items[o]) = invoice[o].quantity
           /\ \A u \in items[o] : Queued(o, u))
<1>1. WorkInv /\ ServeInv /\ LeftInv =>
        \A o \in Order :
          status[o] \in {"FULFILLING", "COMPLETED"} =>
            /\ Cardinality(items[o]) = invoice[o].quantity
            /\ \A u \in items[o] : Queued(o, u)
  <2> SUFFICES ASSUME WorkInv, ServeInv, LeftInv, NEW o \in Order,
                      status[o] \in {"FULFILLING", "COMPLETED"}
               PROVE  /\ Cardinality(items[o]) = invoice[o].quantity
                      /\ \A u \in items[o] : Queued(o, u)
    OBVIOUS
  <2>1. Filled(o) /\ WebReceipts /\ NoticedInFull(o) /\ items[o] \in SUBSET Unit
    BY DEF ServeInv, GoodsInv, LeftInv, WorkInv, TypeInv, TypeOK
  <2>2. \A u \in items[o] : Queued(o, u)
    BY <2>1, OrderAssumption DEF Filled, WebReceipts, NoticedInFull, Queued
  <2> QED BY <2>1, <2>2 DEF Filled
<1> QED BY LeftInvariant, <1>1, PTL

------------------------------------------------------------------------------
(* A file that is given up in the middle.                                   *)

(* A slot has the file in hand.                                             *)
Handles(w, u) ==
  IF worker[w].stage = "CLAIMED" THEN u \in worker[w].claimed
                                 ELSE u \in worker[w].todo \cup worker[w].batch

(* What markUnhandledNotificationFailure leaves of a file on its last       *)
(* attempt: a failed notification, and a receipt that was reserved, in      *)
(* nobody's hand.                                                           *)
Abandoned(o, u) ==
  /\ status[o] = "FULFILLING" /\ u \in items[o] /\ stock[u] = "RESERVED"
  /\ receiptOf[u] = o /\ receipt[u] = "SENDING" /\ outbox[o][u] = "FAILED"
  /\ \A w \in Worker : /\ worker[w].order = o => ~Handles(w, u)
                       /\ worker[w].stage = "DOUBTING" => NextFile(w) # u

(* No slot gets hold of a file but by a claim.                              *)
LEMMA OnlyClaimsTake ==
  ASSUME WorkInv, NEW w \in Worker, QuietStep(w) \/ LoudStep(w),
         ~\E o \in Order, C \in SUBSET Unit : Claim(w, o, C), NEW u \in Unit
  PROVE  /\ \A v \in Worker : v # w => worker'[v] = worker[v]
         /\ \/ worker'[w] = Idle
            \/ /\ worker'[w].order = worker[w].order
               /\ Handles(w, u)' => Handles(w, u)
<1>w. worker \in [Worker -> Slot] /\ (worker[w].stage = "CLAIMED" => worker[w].batch = {})
  BY WorkColumns DEF WorkInv, SlotHolds
<1> DEFINE Goal == /\ \A v \in Worker : v # w => worker'[v] = worker[v]
                   /\ \/ worker'[w] = Idle
                      \/ /\ worker'[w].order = worker[w].order
                         /\ Handles(w, u)' => Handles(w, u)
<1>1. Stop(w) => Goal
  BY <1>w DEF Stop
<1>2. ASSUME NEW s, s # "CLAIMED", worker[w].stage # "CLAIMED", GoTo(w, s) PROVE Goal
  BY <1>w, <1>2 DEF GoTo, Handles, Slot
<1>3. ASSUME NEW s, s # "CLAIMED", worker[w].stage # "CLAIMED", ThenSettle(w, s) PROVE Goal
  BY <1>1, <1>2, <1>3 DEF ThenSettle
<1>4. CASE Inspect(w)
  BY <1>w, <1>4 DEF Inspect, Handles, Slot
<1>5. CASE Crash(w) \/ Throw(w) \/ NothingToSend(w) \/ RecordAccepted(w) \/ SettleRest(w)
  BY <1>1, <1>5 DEF Crash, Throw, NothingToSend, RecordAccepted, SettleRest, Settle
<1>6. CASE Refuse(w) \/ Park(w) \/ Reserve(w)
  <2>1. NextFile(w) \in worker[w].todo
    BY <1>6, NextFileIsOne DEF Refuse, Park, Reserve, WorkInv, SlotHolds
  <2> QED BY <1>w, <1>6, <2>1 DEF Refuse, Park, Reserve, Handles, Slot
<1>7. CASE Doubt(w) \/ MarkUnknown(w) \/ RecordRecipientGone(w)
  BY <1>2, <1>7 DEF Doubt, MarkUnknown, RecordRecipientGone
<1>8. CASE \E outcome \in Outcome : Send(w, outcome)
  BY <1>2, <1>8, DeliveryAssumption DEF Send, Outcomes
<1>9. CASE RefundCheck(w) \/ RefundDenied(w) \/ RefundCommit(w)
  BY <1>2, <1>3, <1>9 DEF RefundCheck, RefundDenied, RefundCommit
<1>10. CASE RecordUnknown(w) \/ RecordTransient(w) \/ RecordRejected(w)
  BY <1>3, <1>10 DEF RecordUnknown, RecordTransient, RecordRejected
<1> QED BY <1>4, <1>5, <1>6, <1>7, <1>8, <1>9, <1>10 DEF QuietStep, LoudStep

(* A slot writes failed notifications of files in its hand only.            *)
LEMMA FailedStaysFailed ==
  ASSUME WorkInv, NEW w \in Worker, QuietStep(w) \/ LoudStep(w), NEW o \in Order, NEW u \in Unit,
         outbox[o][u] = "FAILED", worker[w].order = o => ~Handles(w, u)
  PROVE  outbox'[o][u] = "FAILED"
<1>1. ASSUME NEW p, NEW N, NEW s, Notify(p, N, s), p # o \/ u \notin N \/ s = "FAILED"
      PROVE  outbox'[o][u] = "FAILED"
  BY <1>1 DEF Notify, WorkInv, TypeInv, TypeOK
<1>2. CASE \/ Crash(w) \/ Doubt(w) \/ NothingToSend(w) \/ RefundCheck(w)
           \/ RecordUnknown(w) /\ UNCHANGED deliveryVars
           \/ Reserve(w) \/ MarkUnknown(w) \/ \E outcome \in Outcome : Send(w, outcome)
  BY <1>2 DEF Crash, Doubt, NothingToSend, RefundCheck, Reserve, MarkUnknown, Send, vars, deliveryVars
<1>3. CASE Inspect(w)
  BY <1>1, <1>3 DEF Inspect, In
<1>4. CASE Throw(w)
  BY <1>1, <1>4 DEF Throw, In
<1>5. CASE Refuse(w) \/ Park(w)
  <2>1. NextFile(w) \in worker[w].todo /\ worker[w].stage # "CLAIMED"
    BY <1>5, NextFileIsOne DEF Refuse, Park, WorkInv, SlotHolds
  <2>2. worker[w].order = o => u # NextFile(w)
    BY <2>1 DEF Handles
  <2> QED BY <1>1, <1>5, <2>2 DEF Refuse, Park
<1>6. CASE SettleRest(w)
  BY <1>1, <1>6 DEF SettleRest, Settle, HeldBack, In
<1>7. CASE \E p \in Order, C \in SUBSET Unit : Claim(w, p, C)
  BY <1>1, <1>7 DEF Claim, Expired, In
<1>8. CASE RefundCommit(w)
  BY <1>1, <1>8 DEF RefundCommit
<1>9. CASE RefundDenied(w) \/ RecordAccepted(w)
  BY <1>1, <1>9 DEF RefundDenied, RecordAccepted, Handles
<1>10. CASE /\ RecordUnknown(w) \/ RecordTransient(w) \/ RecordRejected(w) \/ RecordRecipientGone(w)
            /\ ~(RecordUnknown(w) /\ UNCHANGED deliveryVars)
  <2>1. worker[w].stage # "CLAIMED" /\ \E files, s : RecordFiles(w, files, s)
    BY <1>10 DEF RecordUnknown, RecordTransient, RecordRejected, RecordRecipientGone
  <2> QED BY <1>1, <2>1 DEF RecordFiles, Handles
<1> QED BY <1>2, <1>3, <1>4, <1>5, <1>6, <1>7, <1>8, <1>9, <1>10 DEF QuietStep, LoudStep

(* A receipt that is reserved for an order is written by the slot that has  *)
(* the file in hand, and only its record delivers the file.                 *)
LEMMA ReservedStays ==
  ASSUME WorkInv, OnceInv, NEW w \in Worker, QuietStep(w) \/ LoudStep(w), ~RefundCommit(w),
         NEW o \in Order, NEW u \in Unit, receiptOf[u] = o, receipt[u] = "SENDING",
         worker[w].order = o => ~Handles(w, u),
         worker[w].stage = "DOUBTING" => NextFile(w) # u
  PROVE  /\ UNCHANGED items /\ receiptOf'[u] = o /\ receipt'[u] = "SENDING" /\ stock'[u] = stock[u]
         /\ status'[o] # status[o] => \A v \in items[o] : stock'[v] = "DELIVERED"
<1>1. CASE QuietStep(w)
  BY <1>1, QuietSteps DEF Quiet, orderVars, stockVars
<1>2. CASE \/ \E p \in Order, C \in SUBSET Unit : Claim(w, p, C)
           \/ \E outcome \in Outcome : Send(w, outcome)
  BY <1>2 DEF Claim, Send, vars, deliveryVars, orderVars, stockVars
<1>3. CASE Reserve(w)
  <2>1. /\ NextFile(w) # u /\ UNCHANGED <<orderVars, stockVars>>
        /\ receipt' = [receipt EXCEPT ![NextFile(w)] = "SENDING"]
        /\ receiptOf' = [receiptOf EXCEPT ![NextFile(w)] = worker[w].order]
    BY <1>3, NextFileIsOne, OrderAssumption DEF Reserve, Handles, MaySend, CanMoveReceipt
  <2> QED BY <2>1, WorkColumns DEF orderVars, stockVars
<1>4. CASE MarkUnknown(w)
  BY <1>4, WorkColumns DEF MarkUnknown, orderVars, stockVars
<1>5. ASSUME worker[w].stage \in Active PROVE u \notin worker[w].batch
  BY <1>5 DEF OnceInv, OwnsReceipts, Handles, Active, Holding, Outcomes
<1>6. CASE \/ RecordUnknown(w) /\ ~(UNCHANGED deliveryVars)
           \/ RecordTransient(w) \/ RecordRejected(w) \/ RecordRecipientGone(w)
  <2>1. PICK files \in {"UNKNOWN", "FAILED"} : Recorded(w, files) /\ worker[w].stage \in Active
    BY <1>6, RecordsUnknown, RecordsFailed DEF Active, Outcomes
  <2> QED BY <1>5, <2>1 DEF Recorded, orderVars, stockVars
<1>7. CASE RecordAccepted(w)
  BY <1>5, <1>7, RecordsAccepted DEF Active, Outcomes
<1> QED BY <1>1, <1>2, <1>3, <1>4, <1>6, <1>7 DEF LoudStep

(* A loud step doubts nothing.                                              *)
LEMMA LoudDoubtsNothing ==
  ASSUME WorkInv, NEW w \in Worker, LoudStep(w)
  PROVE  worker'[w].stage # "DOUBTING"
<1>1. ASSUME NEW files \in {"UNKNOWN", "FAILED"}, Recorded(w, files)
      PROVE  worker'[w].stage # "DOUBTING"
  BY <1>1 DEF Recorded, Becomes, Settlement
<1>2. CASE \/ RecordUnknown(w) /\ ~(UNCHANGED deliveryVars)
           \/ RecordTransient(w) \/ RecordRejected(w) \/ RecordRecipientGone(w)
  BY <1>1, <1>2, RecordsUnknown, RecordsFailed
<1>3. CASE \/ \E o \in Order, C \in SUBSET Unit : Claim(w, o, C)
           \/ Reserve(w) \/ MarkUnknown(w)
  BY <1>3, Claims, Reserves, MarksUnknown DEF Becomes
<1>4. CASE \E outcome \in Outcome : Send(w, outcome)
  BY <1>4, Sends, DeliveryAssumption DEF Becomes, Outcomes
<1>5. CASE RecordAccepted(w) \/ RefundCommit(w)
  BY <1>5, RecordsAccepted, RefundsCommit DEF Becomes, Idle
<1> QED BY <1>2, <1>3, <1>4, <1>5 DEF LoudStep

(* So a file that was given up stays given up, whatever the step.           *)
LEMMA AbandonedStays ==
  ASSUME WorkInv, OnceInv, SentInv, PayInv, StayInv, [DeliveryNext]_allVars, ~OvertakesRefund,
         NEW o \in Order, NEW u \in Unit, Abandoned(o, u)
  PROVE  Abandoned(o, u)'
<1>1. ~IsWeb(Owner(o)) /\ status[o] = "FULFILLING"
  BY DEF Abandoned, SentInv, OutboxTrue, ToTelegram
<1>2. CASE CoreStep \/ UNCHANGED allVars
  <2>1. WorkInv' /\ CoreKeeps /\ UNCHANGED worker /\ [Next]_vars
    BY <1>2, CoreStepWorks
  <2>2. StayInv'
    BY StayStep
  <2>3. status'[o] = "FULFILLING" /\ items'[o] = items[o] /\ u \in items'[o]
    BY <1>1, <2>1 DEF CoreKeeps, OrdersKept, Abandoned
  <2>4. receiptOf'[u] = o /\ receipt'[u] = "SENDING" /\ outbox'[o][u] = "FAILED"
    BY <2>1, OrderAssumption DEF CoreKeeps, ReceiptsKept, NoticesKept, Abandoned
  <2>5. stock'[u] = "RESERVED"
    <3>1. holder[u] = o /\ deliveredTo[u] = None /\ holder'[u] = o
      BY <2>2, <2>3, OrderAssumption DEF StayInv, OwnerInv, StockOwnership, Abandoned
    <3>2. deliveredTo'[u] = None
      BY <2>1, <3>1 DEF CoreKeeps, ReceiptsKept, Abandoned
    <3> QED BY <2>2, <3>1, <3>2, OrderAssumption DEF StayInv, OwnerInv, StockOwnership
  <2> QED BY <2>1, <2>3, <2>4, <2>5 DEF Abandoned, Handles, NextFile
<1>3. ASSUME NEW p \in Order, LeaseExpires(p) PROVE Abandoned(o, u)'
  BY <1>3, LeaseRunsOut DEF vars, orderVars, stockVars, deliveryVars, Abandoned, Handles,
     NextFile
<1>4. ASSUME NEW p \in Order, NEW v \in Unit, RetryFailed(p, v) \/ RetryAcknowledged(p, v)
      PROVE  Abandoned(o, u)'
  <2>1. receiptOf[v] = p /\ receipt[v] # "SENDING"
    BY <1>4 DEF RetryFailed, RetryAcknowledged
  <2>2. v # u
    BY <2>1 DEF Abandoned
  <2>3. receipt'[u] = receipt[u] /\ outbox'[o][u] = outbox[o][u]
    BY <1>4, <2>2, Retries, WorkColumns
  <2> QED BY <1>4, <2>3, Retries DEF orderVars, stockVars, Abandoned, Handles, NextFile
<1>5. ASSUME NEW w \in Worker, QuietStep(w) \/ LoudStep(w) PROVE Abandoned(o, u)'
  <2>1. ~RefundCommit(w) \/ worker[w].order # o
    <3>1. worker[w].stage = "REFUNDING" => NothingOut(worker[w].order)
      BY DEF StayInv, RefundsUndelivered
    <3> QED BY <3>1 DEF RefundCommit, NothingOut, Abandoned
  <2>2. /\ u \in items'[o] /\ receiptOf'[u] = o /\ receipt'[u] = "SENDING"
        /\ stock'[u] = "RESERVED" /\ status'[o] = "FULFILLING"
    <3>1. CASE ~RefundCommit(w)
      BY <1>5, <3>1, ReservedStays DEF Abandoned
    <3>2. CASE RefundCommit(w)
      <4>1. UNCHANGED <<receipt, receiptOf>>
        BY <3>2, RefundsCommit
      <4>2. holder[u] = o
        BY DEF StayInv, OwnerInv, StockOwnership, Abandoned
      <4> QED BY <2>1, <3>2, <4>1, <4>2, RefundReleases DEF Abandoned
    <3> QED BY <3>1, <3>2
  <2>3. outbox'[o][u] = "FAILED"
    BY <1>5, FailedStaysFailed DEF Abandoned
  <2>4. ASSUME NEW v \in Worker, v # w PROVE worker'[v] = worker[v]
    <3>1. CASE \E p \in Order, C \in SUBSET Unit : Claim(w, p, C)
      BY <2>4, <3>1, Claims DEF Becomes
    <3> QED BY <1>5, <2>4, <3>1, OnlyClaimsTake
  <2>5. ASSUME NEW v \in Worker, worker'[v].order = o PROVE ~Handles(v, u)'
    <3>1. CASE v = w /\ \E p \in Order, C \in SUBSET Unit : Claim(w, p, C)
      <4>1. PICK p \in Order, C \in SUBSET Unit : Claim(w, p, C)
        BY <3>1
      <4>2. worker'[w].stage = "CLAIMED" /\ worker'[w].claimed = C /\ worker'[w].order = p
        BY <4>1, WorkColumns DEF Claim
      <4>3. C \subseteq In(p, {"PENDING", "PROCESSING"})
        BY <4>1 DEF Claim, Expired, In
      <4> QED BY <2>5, <3>1, <4>2, <4>3 DEF Handles, In, Abandoned
    <3>2. CASE v = w /\ ~\E p \in Order, C \in SUBSET Unit : Claim(w, p, C)
      <4>1. worker'[w] # Idle
        BY <2>5, <3>2, OrderAssumption DEF Idle
      <4> QED BY <1>5, <2>5, <3>2, <4>1, OnlyClaimsTake DEF Abandoned
    <3>3. CASE v # w
      BY <2>4, <2>5, <3>3 DEF Handles, Abandoned
    <3> QED BY <3>1, <3>2, <3>3
  <2>6. ASSUME NEW v \in Worker, worker'[v].stage = "DOUBTING" PROVE NextFile(v)' # u
    <3>1. CASE v # w
      BY <2>4, <2>6, <3>1 DEF NextFile, Abandoned
    <3>2. CASE v = w
      <4>1. Doubt(w)
        BY <1>5, <2>6, <3>2, OnlyDoubtDoubts, LoudDoubtsNothing
      <4>2. /\ worker[w].todo # {} /\ receiptOf[NextFile(w)] = worker[w].order
            /\ worker[w].stage = "RESERVING" /\ GoTo(w, "DOUBTING")
        BY <4>1 DEF Doubt
      <4>3. NextFile(w)' = NextFile(w) /\ NextFile(w) \in worker[w].todo
        BY <4>2, WorkColumns, NextFileIsOne DEF GoTo, NextFile
      <4> QED BY <3>2, <4>2, <4>3 DEF Abandoned, Handles
    <3> QED BY <3>1, <3>2
  <2> QED BY <2>2, <2>3, <2>5, <2>6 DEF Abandoned
<1> QED BY <1>2, <1>3, <1>4, <1>5, StepKinds

(* A delivery that an unexpected error ends on its last attempt             *)
(* (delivery-worker.ts, markUnhandledNotificationFailure) is not taken up   *)
(* again by anything the code does, whatever the other slots are at: no     *)
(* claim, retry of an operator, refund, record or inventory edit moves the  *)
(* file, and its order, paid for, is neither completed nor refunded.  It    *)
(* takes a hand on the database.                                            *)
THEOREM AbandonedForGood ==
  OrderlySpec => [][\A o \in Order, u \in Unit : Abandoned(o, u) => Abandoned(o, u)']_allVars
<1> DEFINE Stays == \A o \in Order, u \in Unit : Abandoned(o, u) => Abandoned(o, u)'
<1>1. WorkInv /\ OnceInv /\ SentInv /\ PayInv /\ StayInv /\ [DeliveryNext]_allVars
      /\ ~OvertakesRefund => [Stays]_allVars
  BY AbandonedStays
<1> HIDE DEF Stays
<1>2. OrderlySpec => [][Stays]_allVars
  BY OrderlySteps, StayInvariant, <1>1, PTL DEF OrderlySpec
<1> QED BY <1>2 DEF Stays
==============================================================================
