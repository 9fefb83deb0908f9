------------------------------ MODULE SmsPool ------------------------------
(***************************************************************************)
(* Phone numbers bought for customers from SMSPool: the wallet is debited, *)
(* a number is bought over the network, and from then on the buyer, the    *)
(* administrator and the cron job ask for its code or cancel it, each with *)
(* a network request between reading the order and writing it.             *)
(*                                                                         *)
(* A transaction reads the order first and takes the wallet's lock when it *)
(* posts the entry; the read takes no lock, so the read is a step of its   *)
(* own wherever another task may refund in between.  All orders modelled   *)
(* belong to one wallet.                                                   *)
(***************************************************************************)
EXTENDS Integers

CONSTANTS
  SmsOrder,        \* purchase idempotency keys, each names one order
  Task,            \* requests in progress at a time, and the cron job
  Cron,            \* the cron job, one of the tasks: it only asks for codes
  Quote,           \* the quoted sell price, debited in advance
  ActualPrice,     \* the sell prices the purchase may turn out to have
  Balance,         \* what the wallet starts with
  Nothing          \* no order

ASSUME SmsAssumption ==
  /\ Nothing \notin SmsOrder /\ Cron \in Task
  /\ Quote \in Nat \ {0} /\ ActualPrice \subseteq Nat \ {0}
  /\ Balance \in Nat

Debit == "DEBIT"
Refund == {"PROVIDER_FAILED", "PRICE_EXCEEDED", "PRICE_DIFFERENCE", "PROVIDER", "CANCEL"}
Key == {Debit} \cup Refund

VARIABLES
  sms,       \* the columns of SmsPoolCustomerOrder
  number,    \* what SMSPool knows of the order's number
  posted,    \* WalletTransaction.amount under its idempotency key, 0 when absent
  balance,   \* Wallet.balance
  task       \* what each task is doing

smsVars == <<sms, number, posted, balance, task>>

SmsStatus == {"NONE", "PROCESSING", "ACTIVE", "COMPLETED", "REFUNDED", "FAILED"}

(* bought: providerOrderId is set; refunded: refundedAt is; code: a message *)
(* was stored.                                                              *)
Row == [status : SmsStatus, bought : BOOLEAN, refunded : BOOLEAN, code : BOOLEAN, price : Nat]

NumberState == {"NONE", "LIVE", "CODE", "CANCELLED"}

Answer == {"ACTIVE", "COMPLETED", "REFUNDED"}
SmsStage == {"IDLE", "BUYING", "BOUGHT", "BUY_FAILED", "CANCELLING", "CANCEL_CHECK",
             "REFUND_CANCEL", "ASKING", "REFUND_PROVIDER"} \cup Answer

IdleTask == [stage |-> "IDLE", order |-> Nothing, price |-> 0]

SmsInit ==
  /\ sms = [k \in SmsOrder |-> [status |-> "NONE", bought |-> FALSE, refunded |-> FALSE,
                                code |-> FALSE, price |-> 0]]
  /\ number = [k \in SmsOrder |-> "NONE"]
  /\ posted = [k \in SmsOrder |-> [e \in Key |-> 0]]
  /\ balance = Balance
  /\ task = [t \in Task |-> IdleTask]

------------------------------------------------------------------------------
At(t, stage) == task[t].stage = stage
Move(t, stage) == task' = [task EXCEPT ![t].stage = stage]
Finish(t) == task' = [task EXCEPT ![t] = IdleTask]
Start(t, k, stage) ==
  /\ At(t, "IDLE")
  /\ task' = [task EXCEPT ![t] = [stage |-> stage, order |-> k, price |-> 0]]

(* applyWalletTransaction                                                   *)
Post(k, key, amount) ==
  \/ /\ posted[k][key] = 0 /\ balance + amount >= 0
     /\ posted' = [posted EXCEPT ![k][key] = amount]
     /\ balance' = balance + amount
  \/ /\ posted[k][key] = amount
     /\ UNCHANGED <<posted, balance>>

------------------------------------------------------------------------------
(* Buying (purchaseSmsPoolForOwner).                                        *)

(* Debit and order in one transaction; a request that repeats a key gets    *)
(* the order it made the first time.                                        *)
Prepare(t, k) ==
  /\ t # Cron /\ sms[k].status = "NONE"
  /\ Start(t, k, "BUYING")
  /\ Post(k, Debit, -Quote)
  /\ sms' = [sms EXCEPT ![k].status = "PROCESSING", ![k].price = Quote]
  /\ UNCHANGED number

(* The request fails, with or without a number bought, or tells the price.  *)
Buy(t) ==
  LET k == task[t].order IN
  /\ At(t, "BUYING")
  /\ \/ /\ number' = [number EXCEPT ![k] = "LIVE"]
        /\ \E p \in ActualPrice :
             task' = [task EXCEPT ![t].stage = "BOUGHT", ![t].price = p]
     \/ /\ number' \in {number, [number EXCEPT ![k] = "LIVE"]}
        /\ Move(t, "BUY_FAILED")
  /\ UNCHANGED <<sms, posted, balance>>

(* Nobody else touches an order that has no provider order yet.             *)
FailPurchase(t, key) ==
  LET k == task[t].order IN
  /\ Post(k, key, sms[k].price)
  /\ sms' = [sms EXCEPT ![k].status = "FAILED", ![k].refunded = TRUE]
  /\ Finish(t)

PurchaseFailed(t) ==
  /\ At(t, "BUY_FAILED")
  /\ FailPurchase(t, "PROVIDER_FAILED")
  /\ UNCHANGED number

(* Too expensive: the number is given back if the provider lets us.         *)
PriceExceeded(t) ==
  /\ At(t, "BOUGHT") /\ task[t].price > sms[task[t].order].price
  /\ FailPurchase(t, "PRICE_EXCEEDED")
  /\ number' \in {number, [number EXCEPT ![task[t].order] = "CANCELLED"]}

Activate(t) ==
  LET k == task[t].order
      difference == sms[k].price - task[t].price
  IN
  /\ At(t, "BOUGHT") /\ difference >= 0
  /\ IF difference > 0 THEN Post(k, "PRICE_DIFFERENCE", difference)
                       ELSE UNCHANGED <<posted, balance>>
  /\ sms' = [sms EXCEPT ![k].status = "ACTIVE", ![k].bought = TRUE, ![k].price = task[t].price]
  /\ Finish(t)
  /\ UNCHANGED number

------------------------------------------------------------------------------
(* Asking for the code (refreshSmsPoolCustomerOrder, by the buyer, and      *)
(* refreshActiveSmsPoolOrders, by the cron job).                            *)

LookUp(t, k) ==
  /\ sms[k].bought /\ sms[k].status = "ACTIVE"
  /\ Start(t, k, "ASKING")
  /\ UNCHANGED <<sms, number, posted, balance>>

(* resolveSmsPoolOrderState and resolveSmsPoolCheckState                    *)
Resolved(k) == CASE number[k] = "CODE" -> "COMPLETED"
                 [] number[k] = "CANCELLED" -> "REFUNDED"
                 [] OTHER -> "ACTIVE"

(* SMSPool tells the state of the number.                                   *)
Told(t) ==
  /\ At(t, "ASKING")
  /\ Move(t, Resolved(task[t].order))
  /\ UNCHANGED <<sms, number, posted, balance>>

(* Fault: an order that cannot be looked up counts as refunded.             *)
NotToldRefunds(t) ==
  /\ At(t, "ASKING")
  /\ Move(t, "REFUNDED")
  /\ UNCHANGED <<sms, number, posted, balance>>

(* The order is missing from the list and the single check fails.           *)
NotTold(t) ==
  /\ At(t, "ASKING")
  /\ Move(t, "ACTIVE")
  /\ UNCHANGED <<sms, number, posted, balance>>

(* Updates by id, whatever the order has become.                            *)
StoreActive(t) ==
  /\ At(t, "ACTIVE")
  /\ sms' = [sms EXCEPT ![task[t].order].status = "ACTIVE"]
  /\ Finish(t)
  /\ UNCHANGED <<number, posted, balance>>

StoreCode(t) ==
  /\ At(t, "COMPLETED")
  /\ sms' = [sms EXCEPT ![task[t].order].status = "COMPLETED", ![task[t].order].code = TRUE]
  /\ Finish(t)
  /\ UNCHANGED <<number, posted, balance>>

------------------------------------------------------------------------------
(* Refunds: the transaction reads the order, then locks the wallet.         *)

RefundCheckSms(t, asked, next) ==
  LET row == sms[task[t].order] IN
  /\ At(t, asked)
  /\ IF row.refunded \/ (asked = "REFUNDED" /\ row.status = "REFUNDED")
     THEN Finish(t) ELSE Move(t, next)
  /\ UNCHANGED <<sms, number, posted, balance>>

RefundCommitSms(t, stage, key) ==
  LET k == task[t].order IN
  /\ At(t, stage)
  /\ Post(k, key, sms[k].price)
  /\ sms' = [sms EXCEPT ![k].status = "REFUNDED", ![k].refunded = TRUE]
  /\ Finish(t)
  /\ UNCHANGED number

(* refundSmsPoolOrderWithoutCode                                            *)
ProviderRefund(t) ==
  \/ RefundCheckSms(t, "REFUNDED", "REFUND_PROVIDER")
  \/ RefundCommitSms(t, "REFUND_PROVIDER", "PROVIDER")

(* cancelResolvedSmsPoolCustomerOrder, by the buyer or an administrator.    *)
CancelSms(t, k) ==
  /\ t # Cron
  /\ ~sms[k].refunded /\ sms[k].bought /\ sms[k].status = "ACTIVE"
  /\ Start(t, k, "CANCELLING")
  /\ UNCHANGED <<sms, number, posted, balance>>

(* Fault: a refusal of the provider is swallowed.                           *)
CancelAnyway(t) ==
  /\ At(t, "CANCELLING")
  /\ Move(t, "CANCEL_CHECK")
  /\ UNCHANGED <<sms, number, posted, balance>>

(* SMSPool gives a number back until its code has come; its answer may get  *)
(* lost, and it may refuse to cancel twice.                                 *)
AskToCancel(t) ==
  LET k == task[t].order IN
  /\ At(t, "CANCELLING")
  /\ \/ /\ number[k] # "CODE"
        /\ number' = [number EXCEPT ![k] = "CANCELLED"]
        /\ Move(t, "CANCEL_CHECK") \/ Finish(t)
     \/ /\ UNCHANGED number
        /\ Finish(t)
  /\ UNCHANGED <<sms, posted, balance>>

CancelRefund(t) ==
  \/ RefundCheckSms(t, "CANCEL_CHECK", "REFUND_CANCEL")
  \/ RefundCommitSms(t, "REFUND_CANCEL", "CANCEL")

------------------------------------------------------------------------------
(* The number: a message comes, or SMSPool gives it up.                     *)
NumberMoves(k) ==
  /\ number[k] = "LIVE"
  /\ \E s \in {"CODE", "CANCELLED"} : number' = [number EXCEPT ![k] = s]
  /\ UNCHANGED <<sms, posted, balance, task>>

(* The request is aborted, the transaction fails or the process stops.      *)
Abort(t) ==
  /\ ~At(t, "IDLE")
  /\ Finish(t)
  /\ UNCHANGED <<sms, number, posted, balance>>

------------------------------------------------------------------------------
TaskStep(t) ==
  \/ Buy(t) \/ PurchaseFailed(t) \/ PriceExceeded(t) \/ Activate(t)
  \/ Told(t) \/ NotTold(t) \/ StoreActive(t) \/ StoreCode(t) \/ ProviderRefund(t)
  \/ AskToCancel(t) \/ CancelRefund(t)

SmsNext ==
  \/ \E t \in Task, k \in SmsOrder : Prepare(t, k) \/ LookUp(t, k) \/ CancelSms(t, k)
  \/ \E t \in Task : TaskStep(t) \/ Abort(t)
  \/ \E k \in SmsOrder : NumberMoves(k)

SmsSpec == SmsInit /\ [][SmsNext]_smsVars

------------------------------------------------------------------------------
(* Properties.                                                              *)

(* The types of all variables; the wallet is never overdrawn.               *)
SmsTypeOK ==
  /\ sms \in [SmsOrder -> Row]
  /\ number \in [SmsOrder -> NumberState]
  /\ posted \in [SmsOrder -> [Key -> Int]]
  /\ balance \in Nat
  /\ task \in [Task -> [stage : SmsStage, order : SmsOrder \cup {Nothing}, price : Nat]]

(* What the buyer is down by an order.                                      *)
Charge(k) ==
  -(posted[k]["DEBIT"] + posted[k]["PROVIDER_FAILED"] + posted[k]["PRICE_EXCEEDED"]
    + posted[k]["PRICE_DIFFERENCE"] + posted[k]["PROVIDER"] + posted[k]["CANCEL"])

(* Whatever the purchase, the refreshes, the cancellations and the provider *)
(* do at the same time: a purchase under way, or one that a crash cut off,  *)
(* is charged at the quote, a failed one at nothing, and a number whose     *)
(* code was stored, or that was not refunded, at exactly its actual price.  *)
(* Nobody gets a code for free, and nobody is charged after a refund.       *)
ChargedForWhatWasGot ==
  \A k \in SmsOrder :
    CASE sms[k].status = "NONE" -> Charge(k) = 0
      [] sms[k].status = "PROCESSING" -> Charge(k) = Quote
      [] sms[k].status = "FAILED" -> Charge(k) = 0
      [] sms[k].code -> Charge(k) = sms[k].price /\ ~sms[k].refunded
      [] OTHER -> IF sms[k].refunded THEN Charge(k) <= 0 ELSE Charge(k) = sms[k].price

(* A refund is paid once (tests/smspool-cancel-db.test.ts:27,               *)
(* tests/web-sms-purchase-db.test.ts:77): whoever asks for it, the buyer    *)
(* never gets back more than was paid.                                      *)
RefundedOnce == \A k \in SmsOrder : Charge(k) >= 0

(* The cron job takes the orders it has not checked for longest, so each    *)
(* has its turn; SMSPool is not unreachable, and the job is not cut off,    *)
(* every time.  Nothing is assumed of the requests.                         *)
SmsFairness ==
  /\ WF_smsVars(TaskStep(Cron))
  /\ \A k \in SmsOrder :
       /\ SF_smsVars(LookUp(Cron, k))
       /\ SF_smsVars(task[Cron].order = k /\ Told(Cron))
       /\ SF_smsVars(task[Cron].order = k /\ StoreCode(Cron))

SmsFairSpec == SmsSpec /\ SmsFairness

(* A code that came for a number the shop knows is stored for its buyer,    *)
(* whatever stale answers of other requests are written in between and      *)
(* however often the buyer tries to cancel.                                 *)
CodeReachesBuyer ==
  \A k \in SmsOrder : sms[k].bought /\ number[k] = "CODE" ~> sms[k].code
==============================================================================
