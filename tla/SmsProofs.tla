----------------------------- MODULE SmsProofs -----------------------------
(***************************************************************************)
(* The charges of the SMS orders, with any number of orders and requests,  *)
(* any quote and any actual prices; what the double refund costs, for      *)
(* RefundedOnce is nothing the code keeps; and what a purchase that is cut *)
(* off comes to.                                                           *)
(***************************************************************************)
EXTENDS SmsPool, TLAPS


Purchasing == {"BUYING", "BOUGHT", "BUY_FAILED"}

(* What each stage of a task means for its order: a purchase under way is   *)
(* the only one of its order and the order waits for it, everything else    *)
(* works on an order whose number was bought, a refund was decided on a     *)
(* number that is given up and a code was read from one that has it.        *)
StagesHold ==
  \A t \in Task :
    LET k == task[t].order IN
    /\ task[t].stage # "IDLE" => k \in SmsOrder
    /\ task[t].stage \in Purchasing =>
         /\ sms[k].status = "PROCESSING"
         /\ \A u \in Task : task[u].stage \in Purchasing /\ task[u].order = k => u = t
    /\ task[t].stage = "BOUGHT" => task[t].price \in ActualPrice
    /\ task[t].stage \notin Purchasing \cup {"IDLE"} => sms[k].bought
    /\ task[t].stage \in {"CANCEL_CHECK", "REFUND_CANCEL", "REFUNDED", "REFUND_PROVIDER"}
         => number[k] = "CANCELLED"
    /\ task[t].stage = "COMPLETED" => number[k] = "CODE"

(* The entries of a number that was bought.                                 *)
BoughtBooks(k) ==
  /\ sms[k].price >= 1 /\ sms[k].price <= Quote
  /\ posted[k]["DEBIT"] = -Quote
  /\ posted[k]["PROVIDER_FAILED"] = 0 /\ posted[k]["PRICE_EXCEEDED"] = 0
  /\ posted[k]["PRICE_DIFFERENCE"] = Quote - sms[k].price
  /\ posted[k]["PROVIDER"] \in {0, sms[k].price} /\ posted[k]["CANCEL"] \in {0, sms[k].price}
  /\ sms[k].refunded <=> posted[k]["PROVIDER"] # 0 \/ posted[k]["CANCEL"] # 0
  /\ sms[k].code => number[k] = "CODE"
  /\ sms[k].refunded => number[k] = "CANCELLED"

(* The entries of every order, by what became of it.                        *)
Books(k) ==
  /\ sms[k].bought <=> sms[k].status \in Answer
  /\ sms[k].bought => BoughtBooks(k)
  /\ ~sms[k].bought =>
       /\ ~sms[k].code
       /\ posted[k]["PRICE_DIFFERENCE"] = 0
       /\ posted[k]["PROVIDER"] = 0 /\ posted[k]["CANCEL"] = 0
       /\ posted[k]["DEBIT"] = IF sms[k].status = "NONE" THEN 0 ELSE -Quote
       /\ IF sms[k].status = "FAILED"
          THEN posted[k]["PROVIDER_FAILED"] + posted[k]["PRICE_EXCEEDED"] = Quote
          ELSE posted[k]["PROVIDER_FAILED"] = 0 /\ posted[k]["PRICE_EXCEEDED"] = 0
  /\ sms[k].status = "PROCESSING" => sms[k].price = Quote
  /\ sms[k].status \in {"NONE", "PROCESSING"} => ~sms[k].refunded

BooksKept == \A k \in SmsOrder : Books(k)

SmsInv == SmsTypeOK /\ StagesHold /\ BooksKept

------------------------------------------------------------------------------
(* All of it holds at the start.                                            *)
LEMMA SmsStart == SmsInit => SmsInv
<1> SUFFICES ASSUME SmsInit PROVE SmsInv
  OBVIOUS
<1>1. SmsTypeOK
  BY SmsAssumption
  DEF SmsInit, SmsTypeOK, Row, SmsStatus, NumberState, IdleTask, SmsStage, Answer
<1>2. StagesHold
  BY DEF SmsInit, StagesHold, IdleTask, Purchasing
<1>3. BooksKept
  <2> SUFFICES ASSUME NEW k \in SmsOrder PROVE Books(k)
    BY DEF BooksKept
  <2>1. sms[k] = [status |-> "NONE", bought |-> FALSE, refunded |-> FALSE, code |-> FALSE, price |-> 0]
    BY DEF SmsInit
  <2>2. \A e \in Key : posted[k][e] = 0
    BY DEF SmsInit
  <2> QED BY <2>1, <2>2 DEF Books, Key, Debit, Refund, Answer
<1> QED BY <1>1, <1>2, <1>3 DEF SmsInv

(* An entry is posted once under its key, and no other entry moves.         *)
LEMMA Posting ==
  ASSUME SmsTypeOK, NEW k \in SmsOrder, NEW key \in Key, NEW amount \in Int,
         Post(k, key, amount)
  PROVE  /\ posted' \in [SmsOrder -> [Key -> Int]] /\ balance' \in Nat
         /\ posted'[k][key] = amount
         /\ \A o \in SmsOrder, e \in Key : o # k \/ e # key => posted'[o][e] = posted[o][e]
<1>1. CASE posted[k][key] = 0 /\ balance + amount >= 0
           /\ posted' = [posted EXCEPT ![k][key] = amount] /\ balance' = balance + amount
  <2>1. posted' = [posted EXCEPT ![k] = [posted[k] EXCEPT ![key] = amount]]
    BY <1>1
  <2>2. [posted[k] EXCEPT ![key] = amount] \in [Key -> Int]
    BY DEF SmsTypeOK
  <2> QED BY <1>1, <2>1, <2>2 DEF SmsTypeOK
<1>2. CASE posted[k][key] = amount /\ UNCHANGED <<posted, balance>>
  BY <1>2 DEF SmsTypeOK
<1> QED BY <1>1, <1>2 DEF Post

(* The values a task may take.                                              *)
TaskRow == [stage : SmsStage, order : SmsOrder \cup {Nothing}, price : Nat]

(* A task moves to another stage with its order, ends, or starts with one.  *)
LEMMA TaskMoves ==
  ASSUME SmsTypeOK, NEW t \in Task
  PROVE  /\ Finish(t) =>
              /\ task' \in [Task -> TaskRow] /\ task'[t].stage = "IDLE"
              /\ \A u \in Task : u # t => task'[u] = task[u]
         /\ \A stage \in SmsStage : Move(t, stage) =>
              /\ task' \in [Task -> TaskRow] /\ task'[t].stage = stage
              /\ task'[t].order = task[t].order /\ task'[t].price = task[t].price
              /\ \A u \in Task : u # t => task'[u] = task[u]
         /\ \A stage \in SmsStage, k \in SmsOrder : Start(t, k, stage) =>
              /\ task' \in [Task -> TaskRow] /\ task[t].stage = "IDLE"
              /\ task'[t].stage = stage /\ task'[t].order = k
              /\ \A u \in Task : u # t => task'[u] = task[u]
<1>1. task \in [Task -> TaskRow] /\ task[t] \in TaskRow
  BY DEF SmsTypeOK, TaskRow
<1>2. IdleTask \in TaskRow /\ IdleTask.stage = "IDLE"
  BY DEF TaskRow, IdleTask, SmsStage
<1>3. \A stage \in SmsStage : [task[t] EXCEPT !.stage = stage] \in TaskRow
  BY <1>1 DEF TaskRow
<1>4. \A stage \in SmsStage :
        Move(t, stage) => task' = [task EXCEPT ![t] = [task[t] EXCEPT !.stage = stage]]
  BY <1>1 DEF Move
<1>5. \A stage \in SmsStage, k \in SmsOrder : [stage |-> stage, order |-> k, price |-> 0] \in TaskRow
  BY DEF TaskRow
<1>6. ASSUME Finish(t)
      PROVE  /\ task' \in [Task -> TaskRow] /\ task'[t].stage = "IDLE"
             /\ \A u \in Task : u # t => task'[u] = task[u]
  BY <1>1, <1>2, <1>6 DEF Finish
<1>7. ASSUME NEW stage \in SmsStage, Move(t, stage)
      PROVE  /\ task' \in [Task -> TaskRow] /\ task'[t].stage = stage
             /\ task'[t].order = task[t].order /\ task'[t].price = task[t].price
             /\ \A u \in Task : u # t => task'[u] = task[u]
  BY <1>1, <1>3, <1>4, <1>7 DEF TaskRow
<1>8. ASSUME NEW stage \in SmsStage, NEW k \in SmsOrder, Start(t, k, stage)
      PROVE  /\ task' \in [Task -> TaskRow] /\ task[t].stage = "IDLE"
             /\ task'[t].stage = stage /\ task'[t].order = k
             /\ \A u \in Task : u # t => task'[u] = task[u]
  BY <1>1, <1>5, <1>8 DEF Start, At
<1> QED BY <1>6, <1>7, <1>8

------------------------------------------------------------------------------
(* Only the task that works on an order in purchase changes its status, and *)
(* what SMSPool settled about a number that was bought stays.               *)
OthersKept(t) ==
  /\ \A u \in Task : u # t => task'[u] = task[u]
  /\ \A k \in SmsOrder :
       /\ sms[k].bought => sms'[k].bought
       /\ sms[k].status = "PROCESSING" =>
            \/ sms'[k].status = "PROCESSING"
            \/ task[t].stage \in Purchasing /\ task[t].order = k
       /\ sms[k].bought /\ number[k] \in {"CODE", "CANCELLED"} => number'[k] = number[k]

(* The part of StagesHold that is about one task.                           *)
StageOf(t) ==
  LET k == task[t].order IN
  /\ task[t].stage # "IDLE" => k \in SmsOrder
  /\ task[t].stage \in Purchasing => sms[k].status = "PROCESSING"
  /\ task[t].stage = "BOUGHT" => task[t].price \in ActualPrice
  /\ task[t].stage \notin Purchasing \cup {"IDLE"} => sms[k].bought
  /\ task[t].stage \in {"CANCEL_CHECK", "REFUND_CANCEL", "REFUNDED", "REFUND_PROVIDER"}
       => number[k] = "CANCELLED"
  /\ task[t].stage = "COMPLETED" => number[k] = "CODE"

(* A purchase begins on an order that has none under way.                   *)
PurchaseGoesOn(t) ==
  task'[t].stage \in Purchasing =>
    \/ task[t].stage \in Purchasing /\ task[t].order = task'[t].order
    \/ sms[task'[t].order].status = "NONE"

(* StagesHold after a step of one task that the others do not notice.       *)
LEMMA StagesOfOthers ==
  ASSUME StagesHold, NEW t \in Task, OthersKept(t), StageOf(t)', PurchaseGoesOn(t)
  PROVE  StagesHold'
<1>1. \A u \in Task : StageOf(u)'
  <2> SUFFICES ASSUME NEW u \in Task, u # t PROVE StageOf(u)'
    OBVIOUS
  <2>1. task'[u] = task[u] /\ StageOf(u)
    BY DEF OthersKept, StagesHold, StageOf
  <2>2. CASE task[u].stage = "IDLE"
    BY <2>1, <2>2 DEF StageOf, Purchasing
  <2>3. CASE task[u].stage \in Purchasing
    <3>1. task[u].order \in SmsOrder /\ sms[task[u].order].status = "PROCESSING"
      BY <2>1, <2>3 DEF StageOf, Purchasing
    <3>2. ~(task[t].stage \in Purchasing /\ task[t].order = task[u].order)
      BY <2>3 DEF StagesHold
    <3>3. sms'[task[u].order].status = "PROCESSING"
      BY <3>1, <3>2 DEF OthersKept
    <3> QED BY <2>1, <2>3, <3>1, <3>3 DEF StageOf, Purchasing
  <2>4. CASE task[u].stage \notin Purchasing \cup {"IDLE"}
    <3>1. task[u].order \in SmsOrder /\ sms[task[u].order].bought
      BY <2>1, <2>4 DEF StageOf
    <3>2. /\ sms'[task[u].order].bought
          /\ number[task[u].order] \in {"CODE", "CANCELLED"}
               => number'[task[u].order] = number[task[u].order]
      BY <3>1 DEF OthersKept
    <3> QED BY <2>1, <2>4, <3>1, <3>2 DEF StageOf, Purchasing
  <2> QED BY <2>2, <2>3, <2>4
<1>2. ASSUME NEW u \in Task, NEW v \in Task, task'[u].stage \in Purchasing,
             task'[v].stage \in Purchasing, task'[v].order = task'[u].order
      PROVE  u = v
  <2>1. \A w \in Task : w # t => task'[w] = task[w]
    BY DEF OthersKept
  <2>2. \A w \in Task : task[w].stage \in Purchasing => sms[task[w].order].status = "PROCESSING"
    BY DEF StagesHold
  <2>3. \A w, x \in Task : task[w].stage \in Purchasing /\ task[x].stage \in Purchasing
                           /\ task[w].order = task[x].order => w = x
    BY DEF StagesHold
  <2>4. \A w \in Task : w # t /\ task'[w].stage \in Purchasing
                        /\ task'[t].stage \in Purchasing => task'[w].order # task'[t].order
    BY <2>1, <2>2, <2>3 DEF PurchaseGoesOn
  <2> QED BY <1>2, <2>1, <2>3, <2>4
<1> QED BY <1>1, <1>2 DEF StagesHold, StageOf

(* The books of an order nobody writes.                                     *)
LEMMA BooksOfOthers ==
  ASSUME SmsTypeOK, NEW o \in SmsOrder, Books(o), sms'[o] = sms[o],
         \A e \in Key : posted'[o][e] = posted[o][e],
         sms[o].bought /\ number[o] \in {"CODE", "CANCELLED"} => number'[o] = number[o]
  PROVE  Books(o)'
<1>1. \A e \in {"DEBIT", "PROVIDER_FAILED", "PRICE_EXCEEDED", "PRICE_DIFFERENCE", "PROVIDER", "CANCEL"} :
        posted'[o][e] = posted[o][e]
  BY DEF Key, Debit, Refund
<1>2. CASE sms[o].bought
  BY <1>1, <1>2 DEF Books, BoughtBooks
<1>3. CASE ~sms[o].bought
  BY <1>1, <1>3 DEF Books, BoughtBooks
<1> QED BY <1>2, <1>3

(* A step that writes no order and no entry.                                *)
LEMMA QuietSmsStep ==
  ASSUME SmsInv, NEW t \in Task, UNCHANGED <<sms, posted, balance>>,
         number' \in [SmsOrder -> NumberState], task' \in [Task -> TaskRow],
         OthersKept(t), StageOf(t)', PurchaseGoesOn(t)
  PROVE  SmsInv'
<1>1. SmsTypeOK'
  BY DEF SmsInv, SmsTypeOK, TaskRow
<1>2. StagesHold'
  BY StagesOfOthers DEF SmsInv
<1>3. BooksKept'
  <2> SUFFICES ASSUME NEW o \in SmsOrder PROVE Books(o)'
    BY DEF BooksKept
  <2> QED BY BooksOfOthers DEF SmsInv, BooksKept, OthersKept
<1> QED BY <1>1, <1>2, <1>3 DEF SmsInv

(* A task starts to ask for a code or to cancel, goes on to a stage its     *)
(* order is in, or ends.                                                    *)
LEMMA QuietMove ==
  ASSUME SmsInv, NEW t \in Task, UNCHANGED <<sms, number, posted, balance>>,
         task' \in [Task -> TaskRow], \A u \in Task : u # t => task'[u] = task[u],
         task'[t].stage \notin Purchasing, StageOf(t)'
  PROVE  SmsInv'
<1>1. OthersKept(t) /\ PurchaseGoesOn(t)
  BY DEF OthersKept, PurchaseGoesOn
<1> QED BY <1>1, QuietSmsStep DEF SmsInv, SmsTypeOK

(* A request for the code begins ...                                        *)
LEMMA LooksUp ==
  ASSUME SmsInv, NEW t \in Task, NEW k \in SmsOrder, LookUp(t, k) PROVE SmsInv'
<1>1. SmsTypeOK /\ Start(t, k, "ASKING") /\ sms[k].bought
  BY DEF LookUp, SmsInv
<1>2. /\ task' \in [Task -> TaskRow] /\ task'[t].stage = "ASKING" /\ task'[t].order = k
      /\ \A u \in Task : u # t => task'[u] = task[u]
  BY <1>1, TaskMoves DEF SmsStage
<1>3. UNCHANGED <<sms, number, posted, balance>>
  BY DEF LookUp
<1> QED BY <1>1, <1>2, <1>3, QuietMove DEF StageOf, Purchasing

(* ... and one to cancel.                                                   *)
LEMMA Cancels ==
  ASSUME SmsInv, NEW t \in Task, NEW k \in SmsOrder, CancelSms(t, k) PROVE SmsInv'
<1>1. SmsTypeOK /\ Start(t, k, "CANCELLING") /\ sms[k].bought
  BY DEF CancelSms, SmsInv
<1>2. /\ task' \in [Task -> TaskRow] /\ task'[t].stage = "CANCELLING" /\ task'[t].order = k
      /\ \A u \in Task : u # t => task'[u] = task[u]
  BY <1>1, TaskMoves DEF SmsStage
<1>3. UNCHANGED <<sms, number, posted, balance>>
  BY DEF CancelSms
<1> QED BY <1>1, <1>2, <1>3, QuietMove DEF StageOf, Purchasing

(* A task that ends without writing.                                        *)
LEMMA Ends ==
  ASSUME SmsInv, NEW t \in Task, Finish(t), UNCHANGED <<sms, number, posted, balance>>
  PROVE  SmsInv'
<1>1. SmsTypeOK
  BY DEF SmsInv
<1>2. /\ task' \in [Task -> TaskRow] /\ task'[t].stage = "IDLE"
      /\ \A u \in Task : u # t => task'[u] = task[u]
  BY <1>1, TaskMoves DEF Finish
<1> QED BY <1>2, QuietMove DEF StageOf, Purchasing

(* SMSPool's answer, or none.                                               *)
LEMMA Tells ==
  ASSUME SmsInv, NEW t \in Task, Told(t) \/ NotTold(t) PROVE SmsInv'
<1> DEFINE k == task[t].order
<1>1. SmsTypeOK /\ UNCHANGED <<sms, number, posted, balance>>
  BY DEF Told, NotTold, SmsInv
<1>2. k \in SmsOrder /\ sms[k].bought
  BY DEF Told, NotTold, At, SmsInv, StagesHold, Purchasing
<1>3. PICK stage \in {"COMPLETED", "REFUNDED", "ACTIVE"} :
        /\ Move(t, stage)
        /\ stage = "COMPLETED" => number[k] = "CODE"
        /\ stage = "REFUNDED" => number[k] = "CANCELLED"
  BY DEF Told, NotTold, Resolved
<1>4. stage \in SmsStage
  BY DEF SmsStage, Answer
<1>5. /\ task' \in [Task -> TaskRow] /\ task'[t].stage = stage /\ task'[t].order = k
      /\ \A u \in Task : u # t => task'[u] = task[u]
  BY <1>1, <1>3, <1>4, TaskMoves
<1>6. StageOf(t)'
  BY <1>1, <1>2, <1>3, <1>5 DEF StageOf, Purchasing
<1> QED BY <1>1, <1>3, <1>5, <1>6, QuietMove DEF Purchasing

(* A refund is decided on an order that shows none.                         *)
LEMMA DecidesRefund ==
  ASSUME SmsInv, NEW t \in Task,
         NEW asked \in {"REFUNDED", "CANCEL_CHECK"},
         NEW next \in {"REFUND_PROVIDER", "REFUND_CANCEL"}, RefundCheckSms(t, asked, next)
  PROVE  SmsInv'
<1> DEFINE k == task[t].order
<1>1. SmsTypeOK /\ UNCHANGED <<sms, number, posted, balance>>
  BY DEF RefundCheckSms, SmsInv
<1>2. k \in SmsOrder /\ sms[k].bought /\ number[k] = "CANCELLED"
  BY DEF RefundCheckSms, At, SmsInv, StagesHold, Purchasing
<1>3. CASE Finish(t)
  BY <1>1, <1>3, Ends
<1>4. CASE Move(t, next)
  <2>1. /\ task' \in [Task -> TaskRow] /\ task'[t].stage = next /\ task'[t].order = k
        /\ \A u \in Task : u # t => task'[u] = task[u]
    <3>1. next \in SmsStage
      BY DEF SmsStage
    <3> QED BY <1>1, <1>4, <3>1, TaskMoves
  <2>2. StageOf(t)'
    BY <1>1, <1>2, <2>1 DEF StageOf, Purchasing
  <2> QED BY <1>1, <2>1, <2>2, QuietMove DEF Purchasing
<1> QED BY <1>3, <1>4 DEF RefundCheckSms

(* SMSPool is asked to cancel.                                              *)
LEMMA AsksToCancel == ASSUME SmsInv, NEW t \in Task, AskToCancel(t) PROVE SmsInv'
<1> DEFINE k == task[t].order
<1>1. SmsTypeOK /\ UNCHANGED <<sms, posted, balance>>
  BY DEF AskToCancel, SmsInv
<1>2. k \in SmsOrder /\ sms[k].bought
  BY DEF AskToCancel, At, SmsInv, StagesHold, Purchasing
<1>3. CASE UNCHANGED number /\ Finish(t)
  BY <1>1, <1>3, Ends
<1>4. CASE /\ number[k] # "CODE"
           /\ number' = [number EXCEPT ![k] = "CANCELLED"]
           /\ Move(t, "CANCEL_CHECK") \/ Finish(t)
  <2>1. number' \in [SmsOrder -> NumberState] /\ number'[k] = "CANCELLED"
        /\ \A o \in SmsOrder : o # k => number'[o] = number[o]
    BY <1>1, <1>2, <1>4 DEF SmsTypeOK, NumberState
  <2>2. PICK stage \in {"CANCEL_CHECK", "IDLE"} :
          /\ task' \in [Task -> TaskRow] /\ task'[t].stage = stage
          /\ stage = "CANCEL_CHECK" => task'[t].order = k
    BY <1>1, <1>4, TaskMoves DEF SmsStage
  <2>3. \A u \in Task : u # t => task'[u] = task[u]
    BY <1>1, <1>4, TaskMoves DEF SmsStage
  <2>4. OthersKept(t)
    BY <1>1, <1>4, <2>1, <2>3 DEF OthersKept
  <2>5. StageOf(t)' /\ PurchaseGoesOn(t)
    BY <1>1, <1>2, <2>1, <2>2 DEF StageOf, PurchaseGoesOn, Purchasing
  <2> QED BY <1>1, <2>1, <2>2, <2>4, <2>5, QuietSmsStep
<1> QED BY <1>3, <1>4 DEF AskToCancel

(* The provider is asked for a number.                                      *)
LEMMA Buys == ASSUME SmsInv, NEW t \in Task, Buy(t) PROVE SmsInv'
<1> DEFINE k == task[t].order
<1>1. SmsTypeOK /\ UNCHANGED <<sms, posted, balance>>
  BY DEF Buy, SmsInv
<1>2. k \in SmsOrder /\ sms[k].status = "PROCESSING" /\ task[t].stage \in Purchasing
  BY DEF Buy, At, SmsInv, StagesHold, Purchasing
<1>3. ~sms[k].bought
  BY <1>2 DEF SmsInv, BooksKept, Books, Answer
<1>4. /\ number' \in [SmsOrder -> NumberState]
      /\ \A o \in SmsOrder : o # k => number'[o] = number[o]
  BY <1>1, <1>2 DEF Buy, SmsTypeOK, NumberState
<1>5. /\ task' \in [Task -> TaskRow] /\ task'[t].order = k
      /\ task'[t].stage \in {"BOUGHT", "BUY_FAILED"}
      /\ task'[t].stage = "BOUGHT" => task'[t].price \in ActualPrice
      /\ \A u \in Task : u # t => task'[u] = task[u]
  <2>1. CASE Move(t, "BUY_FAILED")
    BY <1>1, <2>1, TaskMoves DEF SmsStage
  <2>2. ASSUME NEW p \in ActualPrice, task' = [task EXCEPT ![t].stage = "BOUGHT", ![t].price = p]
        PROVE  /\ task' \in [Task -> TaskRow] /\ task'[t].order = k
               /\ task'[t].stage = "BOUGHT" /\ task'[t].price \in ActualPrice
               /\ \A u \in Task : u # t => task'[u] = task[u]
    <3>1. task \in [Task -> TaskRow] /\ task[t] \in TaskRow /\ p \in Nat
      BY <1>1, SmsAssumption DEF SmsTypeOK, TaskRow
    <3>2. [task[t] EXCEPT !.stage = "BOUGHT", !.price = p] \in TaskRow
      BY <3>1 DEF TaskRow, SmsStage
    <3>3. task' = [task EXCEPT ![t] = [task[t] EXCEPT !.stage = "BOUGHT", !.price = p]]
      BY <2>2
    <3> QED BY <3>1, <3>2, <3>3 DEF TaskRow
  <2> QED BY <2>1, <2>2 DEF Buy
<1>6. OthersKept(t)
  BY <1>1, <1>3, <1>4, <1>5 DEF OthersKept
<1>7. StageOf(t)' /\ PurchaseGoesOn(t)
  BY <1>1, <1>2, <1>5 DEF StageOf, PurchaseGoesOn, Purchasing
<1> QED BY <1>1, <1>4, <1>5, <1>6, <1>7, QuietSmsStep

(* A message comes, or the provider gives a number up.                      *)
LEMMA NumbersMove == ASSUME SmsInv, NEW k \in SmsOrder, NumberMoves(k) PROVE SmsInv'
<1>1. /\ SmsTypeOK /\ UNCHANGED <<sms, posted, balance, task>> /\ number[k] = "LIVE"
      /\ number' \in [SmsOrder -> NumberState]
      /\ \A o \in SmsOrder : o # k => number'[o] = number[o]
  BY DEF NumberMoves, SmsInv, SmsTypeOK, NumberState
<1>2. SmsTypeOK'
  BY <1>1 DEF SmsTypeOK
<1>3. StagesHold'
  BY <1>1 DEF SmsInv, StagesHold, Purchasing
<1>4. BooksKept'
  <2> SUFFICES ASSUME NEW o \in SmsOrder PROVE Books(o)'
    BY DEF BooksKept
  <2> QED BY <1>1, BooksOfOthers DEF SmsInv, BooksKept
<1> QED BY <1>2, <1>3, <1>4 DEF SmsInv

------------------------------------------------------------------------------
(* A step that writes one order and its entries.                            *)
LEMMA RowWritten ==
  ASSUME SmsInv, NEW t \in Task, NEW k \in SmsOrder, NEW row \in Row,
         sms' = [sms EXCEPT ![k] = row],
         posted' \in [SmsOrder -> [Key -> Int]], balance' \in Nat,
         \A o \in SmsOrder, e \in Key : o # k => posted'[o][e] = posted[o][e],
         number' \in [SmsOrder -> NumberState],
         \A o \in SmsOrder : o # k => number'[o] = number[o],
         task' \in [Task -> TaskRow],
         OthersKept(t), StageOf(t)', PurchaseGoesOn(t), Books(k)'
  PROVE  SmsInv'
<1>1. SmsTypeOK /\ sms \in [SmsOrder -> Row]
  BY DEF SmsInv, SmsTypeOK
<1>2. SmsTypeOK'
  BY <1>1 DEF SmsTypeOK, TaskRow
<1>3. StagesHold'
  BY StagesOfOthers DEF SmsInv
<1>4. BooksKept'
  <2> SUFFICES ASSUME NEW o \in SmsOrder, o # k PROVE Books(o)'
    BY DEF BooksKept
  <2>1. sms'[o] = sms[o]
    BY <1>1
  <2> QED BY <1>1, <2>1, BooksOfOthers DEF SmsInv, BooksKept
<1> QED BY <1>2, <1>3, <1>4 DEF SmsInv

(* The wallet is debited for a new order ...                                *)
LEMMA Prepares == ASSUME SmsInv, NEW t \in Task, NEW k \in SmsOrder, Prepare(t, k) PROVE SmsInv'
<1> DEFINE row == [sms[k] EXCEPT !.status = "PROCESSING", !.price = Quote]
<1>1. SmsTypeOK /\ Books(k) /\ sms \in [SmsOrder -> Row] /\ sms[k] \in Row
  BY DEF SmsInv, SmsTypeOK, BooksKept
<1>2. /\ sms[k].status = "NONE" /\ Start(t, k, "BUYING") /\ Post(k, Debit, -Quote)
      /\ sms' = [sms EXCEPT ![k] = row] /\ number' = number
  BY <1>1 DEF Prepare
<1>3. row \in Row
  BY <1>1, SmsAssumption DEF Row, SmsStatus
<1>4. row.status = "PROCESSING" /\ row.price = Quote /\ row.bought = sms[k].bought
      /\ row.refunded = sms[k].refunded /\ row.code = sms[k].code
  BY <1>1 DEF Row
<1> HIDE DEF row
<1>5. sms'[k] = row /\ \A o \in SmsOrder : o # k => sms'[o] = sms[o]
  BY <1>1, <1>2
<1>6. /\ posted' \in [SmsOrder -> [Key -> Int]] /\ balance' \in Nat
      /\ posted'[k]["DEBIT"] = -Quote
      /\ \A o \in SmsOrder, e \in Key : o # k \/ e # "DEBIT" => posted'[o][e] = posted[o][e]
  <2>1. Debit \in Key /\ -Quote \in Int /\ Debit = "DEBIT"
    BY SmsAssumption DEF Key, Debit
  <2> QED BY <1>1, <1>2, <2>1, Posting
<1>7. ~sms[k].bought /\ ~sms[k].code /\ ~sms[k].refunded
  BY <1>1, <1>2 DEF Books, Answer
<1>8. Books(k)'
  BY <1>1, <1>2, <1>4, <1>5, <1>6, <1>7 DEF Books, Key, Debit, Refund, Answer
<1>9. /\ task' \in [Task -> TaskRow] /\ task'[t].stage = "BUYING" /\ task'[t].order = k
      /\ \A u \in Task : u # t => task'[u] = task[u]
  BY <1>1, <1>2, TaskMoves DEF SmsStage
<1>10. OthersKept(t)
  BY <1>1, <1>2, <1>4, <1>5, <1>7, <1>9 DEF OthersKept
<1>11. StageOf(t)' /\ PurchaseGoesOn(t)
  BY <1>2, <1>4, <1>5, <1>9 DEF StageOf, PurchaseGoesOn, Purchasing
<1> QED
  BY <1>1, <1>2, <1>3, <1>6, <1>8, <1>9, <1>10, <1>11, RowWritten DEF SmsTypeOK

(* ... and gets its money back when the number cannot be had, or only for   *)
(* more than was quoted.                                                    *)
LEMMA FailsPurchase ==
  ASSUME SmsInv, NEW t \in Task, NEW key \in {"PROVIDER_FAILED", "PRICE_EXCEEDED"},
         task[t].stage \in Purchasing, FailPurchase(t, key),
         number' \in {number, [number EXCEPT ![task[t].order] = "CANCELLED"]}
  PROVE  SmsInv'
<1>a. PICK k \in SmsOrder : k = task[t].order
  BY DEF SmsInv, StagesHold, Purchasing
<1> DEFINE row == [sms[k] EXCEPT !.status = "FAILED", !.refunded = TRUE]
<1>0. SmsTypeOK /\ sms[k].status = "PROCESSING"
  BY <1>a DEF SmsInv, StagesHold, Purchasing
<1>1. Books(k) /\ sms \in [SmsOrder -> Row] /\ sms[k] \in Row
  BY <1>0 DEF SmsInv, SmsTypeOK, BooksKept
<1>2. /\ Post(k, key, sms[k].price) /\ Finish(t) /\ sms' = [sms EXCEPT ![k] = row]
      /\ number' \in {number, [number EXCEPT ![k] = "CANCELLED"]}
  BY <1>a, <1>0, <1>1 DEF FailPurchase
<1>3. row \in Row
  BY <1>1 DEF Row, SmsStatus
<1>4. row.status = "FAILED" /\ row.price = sms[k].price /\ row.bought = sms[k].bought
      /\ row.code = sms[k].code
  BY <1>1 DEF Row
<1> HIDE DEF row
<1>5. sms'[k] = row /\ \A o \in SmsOrder : o # k => sms'[o] = sms[o]
  BY <1>0, <1>1, <1>2
<1>6. /\ ~sms[k].bought /\ ~sms[k].code /\ sms[k].price = Quote
      /\ posted[k]["PROVIDER_FAILED"] = 0 /\ posted[k]["PRICE_EXCEEDED"] = 0
  BY <1>0, <1>1 DEF Books, Answer
<1>7. /\ posted' \in [SmsOrder -> [Key -> Int]] /\ balance' \in Nat
      /\ posted'[k][key] = Quote
      /\ \A o \in SmsOrder, e \in Key : o # k \/ e # key => posted'[o][e] = posted[o][e]
  <2>1. key \in Key /\ Quote \in Int
    BY SmsAssumption DEF Key, Refund
  <2> QED BY <1>0, <1>2, <1>6, <2>1, Posting
<1>8. Books(k)'
  <2>1. CASE key = "PROVIDER_FAILED"
    BY <1>0, <1>1, <1>4, <1>5, <1>6, <1>7, <2>1, SmsAssumption DEF Books, Key, Debit, Refund, Answer
  <2>2. CASE key = "PRICE_EXCEEDED"
    BY <1>0, <1>1, <1>4, <1>5, <1>6, <1>7, <2>2, SmsAssumption DEF Books, Key, Debit, Refund, Answer
  <2> QED BY <2>1, <2>2
<1>9. /\ task' \in [Task -> TaskRow] /\ task'[t].stage = "IDLE"
      /\ \A u \in Task : u # t => task'[u] = task[u]
  BY <1>0, <1>2, TaskMoves
<1>10. /\ number' \in [SmsOrder -> NumberState]
       /\ \A o \in SmsOrder : o # k => number'[o] = number[o]
  BY <1>0, <1>2 DEF SmsTypeOK, NumberState
<1>11. OthersKept(t)
  BY <1>a, <1>0, <1>4, <1>5, <1>6, <1>9, <1>10 DEF OthersKept
<1>12. StageOf(t)' /\ PurchaseGoesOn(t)
  BY <1>9 DEF StageOf, PurchaseGoesOn, Purchasing
<1> QED
  BY <1>0, <1>2, <1>3, <1>7, <1>8, <1>9, <1>10, <1>11, <1>12, RowWritten

(* The order becomes active at its actual price, and the difference to the  *)
(* quote goes back.                                                         *)
LEMMA Activates == ASSUME SmsInv, NEW t \in Task, Activate(t) PROVE SmsInv'
<1>a. PICK k \in SmsOrder, p \in ActualPrice : k = task[t].order /\ p = task[t].price
  BY DEF Activate, At, SmsInv, StagesHold
<1> DEFINE row == [sms[k] EXCEPT !.status = "ACTIVE", !.bought = TRUE, !.price = p]
<1>0. SmsTypeOK /\ sms[k].status = "PROCESSING" /\ task[t].stage = "BOUGHT"
  BY <1>a DEF Activate, At, SmsInv, StagesHold, Purchasing
<1>1. Books(k) /\ sms \in [SmsOrder -> Row] /\ sms[k] \in Row
  BY <1>0 DEF SmsInv, SmsTypeOK, BooksKept
<1>2. /\ p \in Nat /\ p >= 1 /\ Quote \in Nat /\ sms[k].price = Quote
      /\ ~sms[k].bought /\ ~sms[k].code /\ ~sms[k].refunded
  BY <1>0, <1>1, SmsAssumption DEF Books, Answer
<1>3. /\ p <= Quote
      /\ p < Quote => Post(k, "PRICE_DIFFERENCE", Quote - p)
      /\ p = Quote => UNCHANGED <<posted, balance>>
      /\ sms' = [sms EXCEPT ![k] = row] /\ Finish(t) /\ number' = number
  <2>1. /\ Quote - p >= 0
        /\ IF Quote - p > 0 THEN Post(k, "PRICE_DIFFERENCE", Quote - p)
                            ELSE UNCHANGED <<posted, balance>>
        /\ sms' = [sms EXCEPT ![k] = row] /\ Finish(t) /\ number' = number
    BY <1>a, <1>1, <1>2 DEF Activate
  <2> HIDE DEF row
  <2> QED BY <1>2, <2>1
<1>4. row \in Row
  BY <1>1, <1>2 DEF Row, SmsStatus
<1>5. row.status = "ACTIVE" /\ row.price = p /\ row.refunded = sms[k].refunded
      /\ row.code = sms[k].code
  BY <1>1 DEF Row
<1>6. row.bought = TRUE
  BY <1>1 DEF Row
<1> HIDE DEF row
<1>7. sms'[k] = row /\ \A o \in SmsOrder : o # k => sms'[o] = sms[o]
  BY <1>0, <1>1, <1>3
<1>8. /\ posted' \in [SmsOrder -> [Key -> Int]] /\ balance' \in Nat
      /\ posted'[k]["PRICE_DIFFERENCE"] = Quote - p
      /\ \A o \in SmsOrder, e \in Key :
           o # k \/ e # "PRICE_DIFFERENCE" => posted'[o][e] = posted[o][e]
  <2>1. CASE p < Quote
    <3>1. "PRICE_DIFFERENCE" \in Key /\ Quote - p \in Int
      BY <1>2 DEF Key, Refund
    <3> QED BY <1>0, <1>3, <2>1, <3>1, Posting
  <2>2. CASE p = Quote
    <3>1. posted[k]["PRICE_DIFFERENCE"] = 0
      BY <1>1, <1>2 DEF Books
    <3> QED BY <1>2, <1>0, <1>3, <2>2, <3>1 DEF SmsTypeOK
  <2> QED BY <1>2, <1>3, <2>1, <2>2
<1>9. Books(k)'
  <2>1. \A e \in {"DEBIT", "PROVIDER_FAILED", "PRICE_EXCEEDED", "PROVIDER", "CANCEL"} :
          posted'[k][e] = posted[k][e]
    BY <1>0, <1>8 DEF Key, Debit, Refund
  <2>2. BoughtBooks(k)'
    BY <1>0, <1>1, <1>2, <1>3, <1>5, <1>7, <1>8, <2>1 DEF Books, BoughtBooks
  <2> QED BY <1>5, <1>6, <1>7, <2>2 DEF Books, Answer
<1>10. /\ task' \in [Task -> TaskRow] /\ task'[t].stage = "IDLE"
       /\ \A u \in Task : u # t => task'[u] = task[u]
  BY <1>0, <1>3, TaskMoves
<1>11. OthersKept(t)
  <2>1. task[t].order = k /\ task[t].stage \in Purchasing
    BY <1>a, <1>0 DEF Purchasing
  <2> QED BY <1>0, <1>2, <1>3, <1>6, <1>7, <1>10, <2>1 DEF OthersKept
<1>12. StageOf(t)' /\ PurchaseGoesOn(t)
  BY <1>10 DEF StageOf, PurchaseGoesOn, Purchasing
<1> QED
  BY <1>0, <1>3, <1>4, <1>8, <1>9, <1>10, <1>11, <1>12, RowWritten DEF SmsTypeOK

(* What was told is stored, whatever the order has become: a code only for  *)
(* a number that has one.                                                   *)
LEMMA Stores == ASSUME SmsInv, NEW t \in Task, StoreActive(t) \/ StoreCode(t) PROVE SmsInv'
<1>a. PICK k \in SmsOrder : k = task[t].order
  BY DEF StoreActive, StoreCode, At, SmsInv, StagesHold
<1>0. SmsTypeOK /\ sms[k].bought /\ UNCHANGED <<number, posted, balance>> /\ Finish(t)
  BY <1>a DEF StoreActive, StoreCode, At, SmsInv, StagesHold, Purchasing
<1>1. Books(k) /\ sms \in [SmsOrder -> Row] /\ sms[k] \in Row
  BY <1>0 DEF SmsInv, SmsTypeOK, BooksKept
<1>2. PICK row \in Row :
        /\ sms' = [sms EXCEPT ![k] = row]
        /\ row.status \in {"ACTIVE", "COMPLETED"} /\ row.price = sms[k].price
        /\ row.bought = sms[k].bought /\ row.refunded = sms[k].refunded
        /\ row.code => sms[k].code \/ number[k] = "CODE"
  <2>1. CASE StoreActive(t)
    <3> DEFINE row == [sms[k] EXCEPT !.status = "ACTIVE"]
    <3>1. row \in Row /\ sms' = [sms EXCEPT ![k] = row]
      BY <1>a, <1>1, <2>1 DEF Row, SmsStatus, StoreActive
    <3>2. row.status = "ACTIVE" /\ row.price = sms[k].price
          /\ row.bought = sms[k].bought /\ row.refunded = sms[k].refunded
          /\ row.code = sms[k].code
      BY <1>1 DEF Row
    <3> QED BY <3>1, <3>2
  <2>2. CASE StoreCode(t)
    <3> DEFINE row == [sms[k] EXCEPT !.status = "COMPLETED", !.code = TRUE]
    <3>1. row \in Row /\ sms' = [sms EXCEPT ![k] = row]
      BY <1>a, <1>1, <2>2 DEF Row, SmsStatus, StoreCode
    <3>2. row.status = "COMPLETED" /\ row.price = sms[k].price
          /\ row.bought = sms[k].bought /\ row.refunded = sms[k].refunded
      BY <1>1 DEF Row
    <3>3. number[k] = "CODE"
      BY <1>a, <2>2 DEF StoreCode, At, SmsInv, StagesHold
    <3> QED BY <3>1, <3>2, <3>3
  <2> QED BY <2>1, <2>2
<1>3. sms'[k] = row /\ \A o \in SmsOrder : o # k => sms'[o] = sms[o]
  BY <1>0, <1>1, <1>2
<1>4. Books(k)'
  <2>1. BoughtBooks(k)
    BY <1>0, <1>1 DEF Books
  <2>2. BoughtBooks(k)'
    BY <1>0, <1>2, <1>3, <2>1 DEF BoughtBooks
  <2> QED BY <1>0, <1>2, <1>3, <2>2 DEF Books, Answer
<1>5. /\ task' \in [Task -> TaskRow] /\ task'[t].stage = "IDLE"
      /\ \A u \in Task : u # t => task'[u] = task[u]
  BY <1>0, TaskMoves
<1>6. OthersKept(t)
  <2>1. sms[k].status # "PROCESSING"
    BY <1>0, <1>1 DEF Books, Answer
  <2> QED BY <1>0, <1>2, <1>3, <1>5, <2>1 DEF OthersKept
<1>7. StageOf(t)' /\ PurchaseGoesOn(t)
  BY <1>5 DEF StageOf, PurchaseGoesOn, Purchasing
<1> QED BY <1>0, <1>2, <1>4, <1>5, <1>6, <1>7, RowWritten DEF SmsTypeOK

(* A refund is paid for a number that was given up.                         *)
LEMMA Refunds ==
  ASSUME SmsInv, NEW t \in Task, NEW stage \in {"REFUND_PROVIDER", "REFUND_CANCEL"},
         NEW key \in {"PROVIDER", "CANCEL"}, RefundCommitSms(t, stage, key)
  PROVE  SmsInv'
<1>a. PICK k \in SmsOrder : k = task[t].order
  BY DEF RefundCommitSms, At, SmsInv, StagesHold
<1> DEFINE row == [sms[k] EXCEPT !.status = "REFUNDED", !.refunded = TRUE]
<1>0. SmsTypeOK /\ sms[k].bought /\ number[k] = "CANCELLED"
  BY <1>a DEF RefundCommitSms, At, SmsInv, StagesHold, Purchasing
<1>1. Books(k) /\ sms \in [SmsOrder -> Row] /\ sms[k] \in Row
  BY <1>0 DEF SmsInv, SmsTypeOK, BooksKept
<1>2. /\ Post(k, key, sms[k].price) /\ Finish(t) /\ number' = number
      /\ sms' = [sms EXCEPT ![k] = row]
  BY <1>a, <1>1 DEF RefundCommitSms
<1>3. row \in Row
  BY <1>1 DEF Row, SmsStatus
<1>4. row.status = "REFUNDED" /\ row.price = sms[k].price /\ row.bought = sms[k].bought
      /\ row.code = sms[k].code
  BY <1>1 DEF Row
<1>5. row.refunded = TRUE
  BY <1>1 DEF Row
<1> HIDE DEF row
<1>6. sms'[k] = row /\ \A o \in SmsOrder : o # k => sms'[o] = sms[o]
  BY <1>0, <1>1, <1>2
<1>7. BoughtBooks(k) /\ sms[k].price \in Nat
  BY <1>0, <1>1 DEF Books, Row
<1>8. /\ posted' \in [SmsOrder -> [Key -> Int]] /\ balance' \in Nat
      /\ posted'[k][key] = sms[k].price
      /\ \A o \in SmsOrder, e \in Key : o # k \/ e # key => posted'[o][e] = posted[o][e]
  <2>1. key \in Key /\ sms[k].price \in Int
    BY <1>7 DEF Key, Refund
  <2> QED BY <1>0, <1>2, <2>1, Posting
<1>9. Books(k)'
  <2>1. \A e \in {"DEBIT", "PROVIDER_FAILED", "PRICE_EXCEEDED", "PRICE_DIFFERENCE", "PROVIDER", "CANCEL"} :
          e # key => posted'[k][e] = posted[k][e]
    BY <1>0, <1>8 DEF Key, Debit, Refund
  <2>2. CASE key = "PROVIDER"
    <3>1. BoughtBooks(k)'
      BY <1>0, <1>2, <1>4, <1>5, <1>6, <1>7, <1>8, <2>1, <2>2 DEF BoughtBooks
    <3> QED BY <1>0, <1>4, <1>6, <3>1 DEF Books, Answer
  <2>3. CASE key = "CANCEL"
    <3>1. BoughtBooks(k)'
      BY <1>0, <1>2, <1>4, <1>5, <1>6, <1>7, <1>8, <2>1, <2>3 DEF BoughtBooks
    <3> QED BY <1>0, <1>4, <1>6, <3>1 DEF Books, Answer
  <2> QED BY <2>2, <2>3
<1>10. /\ task' \in [Task -> TaskRow] /\ task'[t].stage = "IDLE"
       /\ \A u \in Task : u # t => task'[u] = task[u]
  BY <1>0, <1>2, TaskMoves
<1>11. OthersKept(t)
  <2>1. sms[k].status # "PROCESSING"
    BY <1>0, <1>1 DEF Books, Answer
  <2> QED BY <1>0, <1>2, <1>4, <1>6, <1>10, <2>1 DEF OthersKept
<1>12. StageOf(t)' /\ PurchaseGoesOn(t)
  BY <1>10 DEF StageOf, PurchaseGoesOn, Purchasing
<1> QED
  BY <1>0, <1>2, <1>3, <1>8, <1>9, <1>10, <1>11, <1>12, RowWritten DEF SmsTypeOK

------------------------------------------------------------------------------
(* Every step keeps the invariant.                                          *)
LEMMA SmsStep == SmsInv /\ [SmsNext]_smsVars => SmsInv'
<1> SUFFICES ASSUME SmsInv, [SmsNext]_smsVars PROVE SmsInv'
  OBVIOUS
<1>1. CASE UNCHANGED smsVars
  BY <1>1 DEF smsVars, SmsInv, SmsTypeOK, StagesHold, BooksKept, Books, BoughtBooks
<1>2. ASSUME NEW t \in Task, NEW k \in SmsOrder, Prepare(t, k) \/ LookUp(t, k) \/ CancelSms(t, k)
      PROVE  SmsInv'
  BY <1>2, Prepares, LooksUp, Cancels
<1>3. ASSUME NEW t \in Task, PurchaseFailed(t) \/ PriceExceeded(t) PROVE SmsInv'
  BY <1>3, FailsPurchase DEF PurchaseFailed, PriceExceeded, At, Purchasing
<1>4. ASSUME NEW t \in Task, ProviderRefund(t) PROVE SmsInv'
  BY <1>4, DecidesRefund, Refunds DEF ProviderRefund
<1>5. ASSUME NEW t \in Task, CancelRefund(t) PROVE SmsInv'
  BY <1>5, DecidesRefund, Refunds DEF CancelRefund
<1>6. ASSUME NEW t \in Task, TaskStep(t) PROVE SmsInv'
  BY <1>3, <1>4, <1>5, <1>6, Buys, Activates, Tells, Stores, AsksToCancel DEF TaskStep
<1>7. ASSUME NEW t \in Task, Abort(t) PROVE SmsInv'
  BY <1>7, Ends DEF Abort
<1> QED BY <1>1, <1>2, <1>6, <1>7, NumbersMove DEF SmsNext

(* What the invariant says of the charges.                                  *)
LEMMA BooksAreCharges == SmsInv => ChargedForWhatWasGot
<1> SUFFICES ASSUME SmsInv, NEW k \in SmsOrder
             PROVE  CASE sms[k].status = "NONE" -> Charge(k) = 0
                      [] sms[k].status = "PROCESSING" -> Charge(k) = Quote
                      [] sms[k].status = "FAILED" -> Charge(k) = 0
                      [] sms[k].code -> Charge(k) = sms[k].price /\ ~sms[k].refunded
                      [] OTHER -> IF sms[k].refunded THEN Charge(k) <= 0
                                                     ELSE Charge(k) = sms[k].price
  BY DEF ChargedForWhatWasGot
<1>1. Books(k) /\ sms[k] \in Row /\ Quote \in Nat /\ sms[k].price \in Nat
      /\ \A e \in Key : posted[k][e] \in Int
  BY SmsAssumption DEF SmsInv, BooksKept, SmsTypeOK, Row
<1>2. \A e \in {"DEBIT", "PROVIDER_FAILED", "PRICE_EXCEEDED", "PRICE_DIFFERENCE", "PROVIDER", "CANCEL"} :
        posted[k][e] \in Int
  BY <1>1 DEF Key, Debit, Refund
<1>3. CASE sms[k].bought
  <2>1. BoughtBooks(k) /\ sms[k].status \in Answer
    BY <1>1, <1>3 DEF Books
  <2>2. Charge(k) = sms[k].price - (posted[k]["PROVIDER"] + posted[k]["CANCEL"])
    BY <1>1, <1>2, <2>1 DEF BoughtBooks, Charge
  <2>3. ~sms[k].refunded => Charge(k) = sms[k].price
    BY <1>1, <1>2, <2>1, <2>2 DEF BoughtBooks
  <2>4. sms[k].refunded => Charge(k) <= 0
    BY <1>1, <1>2, <2>1, <2>2 DEF BoughtBooks
  <2>5. sms[k].code => ~sms[k].refunded
    BY <2>1 DEF BoughtBooks
  <2> QED BY <2>1, <2>3, <2>4, <2>5 DEF Answer
<1>4. CASE ~sms[k].bought
  <2>1. /\ posted[k]["PRICE_DIFFERENCE"] = 0
        /\ posted[k]["PROVIDER"] = 0 /\ posted[k]["CANCEL"] = 0
        /\ ~sms[k].code
    BY <1>1, <1>4 DEF Books
  <2>2. Charge(k) = 0 - (posted[k]["DEBIT"] + posted[k]["PROVIDER_FAILED"] + posted[k]["PRICE_EXCEEDED"])
    BY <1>2, <2>1 DEF Charge
  <2>3. CASE sms[k].status = "NONE"
    <3>1. posted[k]["DEBIT"] = 0 /\ posted[k]["PROVIDER_FAILED"] = 0 /\ posted[k]["PRICE_EXCEEDED"] = 0
      BY <1>1, <1>4, <2>3 DEF Books
    <3>2. Charge(k) = 0
      BY <1>2, <2>2, <3>1
    <3> QED BY <2>1, <2>3, <3>2
  <2>4. CASE sms[k].status = "PROCESSING"
    <3>1. /\ posted[k]["DEBIT"] = -Quote
          /\ posted[k]["PROVIDER_FAILED"] = 0 /\ posted[k]["PRICE_EXCEEDED"] = 0
      BY <1>1, <1>4, <2>4 DEF Books
    <3>2. Charge(k) = Quote
      BY <1>1, <2>2, <3>1
    <3> QED BY <2>1, <2>4, <3>2
  <2>5. CASE sms[k].status = "FAILED"
    <3>1. /\ posted[k]["DEBIT"] = -Quote
          /\ posted[k]["PROVIDER_FAILED"] + posted[k]["PRICE_EXCEEDED"] = Quote
      BY <1>1, <1>4, <2>5 DEF Books
    <3>2. Charge(k) = 0
      BY <1>1, <1>2, <2>2, <3>1
    <3> QED BY <2>1, <2>5, <3>2
  <2>6. sms[k].status \in {"NONE", "PROCESSING", "FAILED"}
    BY <1>1, <1>4 DEF Books, Row, SmsStatus, Answer
  <2> QED BY <2>3, <2>4, <2>5, <2>6
<1> QED BY <1>3, <1>4

(* Whatever the purchase, the refreshes, the cancellations and the provider *)
(* do at the same time, the buyer of a number pays for what he got and      *)
(* nothing else, and the wallet is never overdrawn.                         *)
THEOREM ChargesAreRight == SmsSpec => [](SmsTypeOK /\ ChargedForWhatWasGot)
<1>1. SmsInv => SmsTypeOK /\ ChargedForWhatWasGot
  BY BooksAreCharges DEF SmsInv
<1> QED BY <1>1, SmsStart, SmsStep, PTL DEF SmsSpec

(* RefundedOnce fails, and this is all that it can cost (SmsPool,           *)
(* refundSmsPoolOrderWithoutCode and cancelResolvedSmsPoolCustomerOrder): a *)
(* buyer who got back more than was paid was refunded by a refresh and by a *)
(* cancellation, each under its own key, and is ahead by the price of that  *)
(* one number, whose code the buyer never got.                              *)
THEOREM RefundedTwiceAtMost ==
  SmsSpec => [](\A k \in SmsOrder :
                  Charge(k) < 0 =>
                    /\ posted[k]["PROVIDER"] # 0 /\ posted[k]["CANCEL"] # 0
                    /\ Charge(k) = -sms[k].price
                    /\ sms[k].refunded /\ ~sms[k].code)
<1>1. SmsInv => \A k \in SmsOrder :
                  Charge(k) < 0 =>
                    /\ posted[k]["PROVIDER"] # 0 /\ posted[k]["CANCEL"] # 0
                    /\ Charge(k) = -sms[k].price
                    /\ sms[k].refunded /\ ~sms[k].code
  <2> SUFFICES ASSUME SmsInv, NEW k \in SmsOrder, Charge(k) < 0
               PROVE  /\ posted[k]["PROVIDER"] # 0 /\ posted[k]["CANCEL"] # 0
                      /\ Charge(k) = -sms[k].price
                      /\ sms[k].refunded /\ ~sms[k].code
    OBVIOUS
  <2>1. /\ Books(k) /\ sms[k] \in Row /\ Quote \in Nat /\ sms[k].price \in Nat
        /\ sms[k].refunded \in BOOLEAN /\ sms[k].code \in BOOLEAN
        /\ \A e \in Key : posted[k][e] \in Int
    BY SmsAssumption DEF SmsInv, BooksKept, SmsTypeOK, Row
  <2>2. sms[k].bought
    <3>1. CASE sms[k].status \in {"NONE", "PROCESSING", "FAILED"}
      <4>1. Charge(k) >= 0
        BY <2>1, <3>1, BooksAreCharges DEF ChargedForWhatWasGot
      <4>2. Charge(k) \in Int
        BY <2>1 DEF Charge, Key, Debit, Refund
      <4> QED BY <4>1, <4>2
    <3> QED BY <2>1, <3>1 DEF Books, Row, SmsStatus, Answer
  <2>3. BoughtBooks(k)
    BY <2>1, <2>2 DEF Books
  <2>4. posted[k]["PROVIDER"] \in Int /\ posted[k]["CANCEL"] \in Int
    BY <2>1 DEF Key, Debit, Refund
  <2>5. Charge(k) = sms[k].price - (posted[k]["PROVIDER"] + posted[k]["CANCEL"])
    BY <2>1, <2>3, <2>4 DEF BoughtBooks, Charge
  <2>6. posted[k]["PROVIDER"] = sms[k].price /\ posted[k]["CANCEL"] = sms[k].price
    BY <2>1, <2>3, <2>4, <2>5 DEF BoughtBooks
  <2>7. Charge(k) = -sms[k].price /\ sms[k].price >= 1
    BY <2>1, <2>3, <2>5, <2>6 DEF BoughtBooks
  <2> QED BY <2>1, <2>3, <2>6, <2>7 DEF BoughtBooks
<1> QED BY <1>1, SmsStart, SmsStep, PTL DEF SmsSpec

------------------------------------------------------------------------------
(* A purchase that was cut off.                                             *)

(* The wallet was debited for the order and no request is buying its number *)
(* any more.                                                                *)
CutOff(k) ==
  /\ sms[k].status = "PROCESSING"
  /\ \A t \in Task : ~(task[t].stage \in Purchasing /\ task[t].order = k)

(* Only a purchase writes an order that has no number yet.                  *)
LEMMA OnlyPurchasesWrite ==
  ASSUME SmsInv, NEW k \in SmsOrder, CutOff(k), [SmsNext]_smsVars
  PROVE  sms'[k] = sms[k]
<1>1. sms \in [SmsOrder -> Row] /\ ~sms[k].bought
  BY DEF SmsInv, SmsTypeOK, BooksKept, Books, CutOff, Answer
<1>2. ASSUME NEW t \in Task, NEW p \in SmsOrder, Prepare(t, p) PROVE sms'[k] = sms[k]
  BY <1>1, <1>2 DEF Prepare, CutOff
<1>3. ASSUME NEW t \in Task, PurchaseFailed(t) \/ PriceExceeded(t) \/ Activate(t)
      PROVE  sms'[k] = sms[k]
  <2>1. task[t].stage \in Purchasing /\ task[t].order # k
    BY <1>3 DEF PurchaseFailed, PriceExceeded, Activate, At, Purchasing, CutOff
  <2> QED BY <1>1, <1>3, <2>1 DEF PurchaseFailed, PriceExceeded, Activate, FailPurchase
<1>4. ASSUME NEW t \in Task, StoreActive(t) \/ StoreCode(t) \/ ProviderRefund(t) \/ CancelRefund(t)
      PROVE  sms'[k] = sms[k]
  <2>1. task[t].stage \notin Purchasing \cup {"IDLE"}
    BY <1>4 DEF StoreActive, StoreCode, ProviderRefund, CancelRefund, RefundCheckSms,
       RefundCommitSms, At, Purchasing
  <2>2. task[t].order # k
    BY <1>1, <2>1 DEF SmsInv, StagesHold
  <2> QED BY <1>1, <1>4, <2>2 DEF StoreActive, StoreCode, ProviderRefund, CancelRefund,
          RefundCheckSms, RefundCommitSms
<1>5. ASSUME NEW t \in Task, Buy(t) \/ Told(t) \/ NotTold(t) \/ AskToCancel(t) \/ Abort(t)
      PROVE  sms'[k] = sms[k]
  BY <1>5 DEF Buy, Told, NotTold, AskToCancel, Abort
<1>6. ASSUME NEW t \in Task, NEW p \in SmsOrder, LookUp(t, p) \/ CancelSms(t, p)
      PROVE  sms'[k] = sms[k]
  BY <1>6 DEF LookUp, CancelSms
<1>7. CASE UNCHANGED smsVars \/ \E p \in SmsOrder : NumberMoves(p)
  BY <1>7 DEF smsVars, NumberMoves
<1> QED BY <1>2, <1>3, <1>4, <1>5, <1>6, <1>7 DEF SmsNext, TaskStep

(* A purchase cut off between its debit and its last transaction            *)
(* (purchaseSmsPoolForOwner) is never taken up again: the order stays in    *)
(* PROCESSING and the buyer charged at the quote.  Refreshing, cancelling   *)
(* and refunding all pass it by, so that only an operator can settle it.    *)
THEOREM CutOffStaysCharged ==
  SmsSpec => [][\A k \in SmsOrder : CutOff(k) => CutOff(k)' /\ Charge(k)' = Quote]_smsVars
<1> DEFINE Stays == \A k \in SmsOrder : CutOff(k) => CutOff(k)' /\ Charge(k)' = Quote
           Debited == \A k \in SmsOrder : sms[k].status = "PROCESSING" => Charge(k) = Quote
<1>0. SmsInv => Debited
  <2> SUFFICES ASSUME SmsInv, NEW k \in SmsOrder, sms[k].status = "PROCESSING" PROVE Charge(k) = Quote
    OBVIOUS
  <2>1. Books(k) /\ sms[k] \in Row /\ Quote \in Nat /\ \A e \in Key : posted[k][e] \in Int
    BY SmsAssumption DEF SmsInv, BooksKept, SmsTypeOK, Row
  <2>2. /\ posted[k]["DEBIT"] = -Quote
        /\ \A e \in {"PROVIDER_FAILED", "PRICE_EXCEEDED", "PRICE_DIFFERENCE", "PROVIDER", "CANCEL"} :
             posted[k][e] = 0
    BY <2>1 DEF Books, Answer, Key, Debit, Refund
  <2> QED BY <2>1, <2>2 DEF Charge
<1>1. SmsInv' => Debited'
  BY <1>0, PTL
<1>2. SmsInv /\ [SmsNext]_smsVars => [Stays]_smsVars
  <2> SUFFICES ASSUME SmsInv, [SmsNext]_smsVars, NEW k \in SmsOrder, CutOff(k)
               PROVE  CutOff(k)' /\ Charge(k)' = Quote
    OBVIOUS
  <2>1. sms'[k] = sms[k] /\ SmsInv'
    BY OnlyPurchasesWrite, SmsStep
  <2>2. sms'[k].status = "PROCESSING"
    BY <2>1 DEF CutOff
  <2>3. ASSUME NEW t \in Task, task'[t].stage \in Purchasing, task'[t].order = k PROVE FALSE
    <3>1. task \in [Task -> TaskRow] /\ ~(task[t].stage \in Purchasing /\ task[t].order = k)
      BY DEF SmsInv, SmsTypeOK, TaskRow, CutOff
    <3>2. task'[t] # task[t]
      BY <2>3, <3>1
    <3>3. ASSUME NEW u \in Task, NEW p \in SmsOrder,
                 Prepare(u, p) \/ LookUp(u, p) \/ CancelSms(u, p)
          PROVE  FALSE
      <4>1. CASE Prepare(u, p)
        <5>1. p # k /\ Start(u, p, "BUYING")
          BY <4>1 DEF Prepare, CutOff
        <5> QED BY <2>3, <3>1, <3>2, <5>1 DEF Start
      <4>2. CASE LookUp(u, p) \/ CancelSms(u, p)
        BY <2>3, <3>1, <3>2, <4>2 DEF LookUp, CancelSms, Start, Purchasing
      <4> QED BY <3>3, <4>1, <4>2
    <3>4. ASSUME NEW u \in Task, Abort(u) \/ PurchaseFailed(u) \/ PriceExceeded(u) \/ Activate(u)
                                 \/ StoreActive(u) \/ StoreCode(u)
          PROVE  FALSE
      BY <2>3, <3>1, <3>2, <3>4
      DEF Abort, PurchaseFailed, PriceExceeded, Activate, StoreActive, StoreCode, FailPurchase,
          Finish, IdleTask, Purchasing
    <3>5. ASSUME NEW u \in Task, Buy(u) PROVE FALSE
      <4>1. At(u, "BUYING") /\ \A v \in Task : v # u => task'[v] = task[v]
        BY <3>1, <3>5 DEF Buy, Move
      <4>2. task'[u].order = task[u].order
        BY <3>1, <3>5 DEF Buy, Move, TaskRow
      <4> QED BY <2>3, <3>1, <3>2, <4>1, <4>2 DEF At, Purchasing
    <3>6. ASSUME NEW u \in Task, Told(u) \/ NotTold(u) \/ ProviderRefund(u) \/ AskToCancel(u)
                                 \/ CancelRefund(u)
          PROVE  FALSE
      <4>1. \/ Finish(u)
            \/ \E s \in {"ACTIVE", "COMPLETED", "REFUNDED", "CANCEL_CHECK", "REFUND_PROVIDER",
                         "REFUND_CANCEL"} : Move(u, s)
        BY <3>6 DEF Told, NotTold, ProviderRefund, AskToCancel, CancelRefund, RefundCheckSms,
           RefundCommitSms, Resolved
      <4>2. \A v \in Task : v # u => task'[v] = task[v]
        BY <3>1, <4>1 DEF Finish, Move
      <4>3. task'[u].stage \notin Purchasing
        BY <3>1, <4>1 DEF Finish, Move, IdleTask, Purchasing, TaskRow
      <4> QED BY <2>3, <3>2, <4>2, <4>3
    <3>7. ~(UNCHANGED smsVars) /\ \A p \in SmsOrder : ~NumberMoves(p)
      BY <3>2 DEF smsVars, NumberMoves
    <3> QED BY <3>3, <3>4, <3>5, <3>6, <3>7 DEF SmsNext, TaskStep
  <2>4. Charge(k)' = Quote
    BY <1>1, <2>1, <2>2
  <2> QED BY <2>2, <2>3, <2>4 DEF CutOff
<1> HIDE DEF Stays
<1>3. SmsSpec => [][Stays]_smsVars
  BY <1>2, SmsStart, SmsStep, PTL DEF SmsSpec
<1> QED BY <1>3 DEF Stays
==============================================================================
