# A verification of the shop: orders, stock, money and delivery

The program is a shop for digital files (account credentials): a Next.js server
with a PostgreSQL database, a Telegram bot and a Web storefront as its two sales
channels, several ways to pay, and background workers that expire invoices,
verify crypto transfers, check stock and hand files to Telegram. This directory
models its core in TLA+, checks it with TLC and proves its safety properties with
TLAPS for every number of orders, buyers, files and transfers.

Paths below are relative to `src/src/server/` unless they start with `src/`.

## 1. Inventory

### Components, their state and their operations

| Component | State | Operations | Correct when |
|---|---|---|---|
| Checkout (`checkout/`, `preorder/policy.ts`) | `Order`, `OrderItem`, `Payment` rows, reserved codes | `createDigitalOrder` | invoice and preorder limits hold under concurrency; payable amounts differ; a wallet purchase takes money and stock together |
| Payment confirmation (`payment/confirm-payment.ts`) | order, payment, attempt status, `paidAt` | `confirmOrderPayment` | a payment is counted once and yields goods, a place in the preorder queue, or a refund |
| Expiry, cancellation, late money (`payment/expire-orders.ts`, `payment/cancel-order.ts`, `wallet/expired-order-credit.ts`) | same rows | close an unpaid invoice, credit late money | what was reserved is released once; nothing that was verified is thrown away |
| Crypto verification (`payment/usdt-bep20.ts`, `payment/binance-internal.ts`) | `UsdtBep20Attempt`, `BinanceInternalPaymentAttempt` | submit, verify, reject | answers recorded late neither lose nor double a payment |
| Wallet (`wallet/ledger.ts`, `wallet/payment-release.ts`) | `Wallet.balance`, `WalletTransaction` | `applyWalletTransaction` | one entry per key, no overdraft, the entries of an order match its fate |
| Preorders (`preorder/`) | waiting orders, `paidAt` | allocate, assign by hand, cancel | first paid first served; all items or none |
| Inventory (`stock/`, the stock and banned-policy routes) | `DigitalStockItem`, `Product.bannedStockPolicy` | upload, edit, health check by hand and by the cron job, archive, restore, takeout, delete, the rule for banned files, the owner's approval | a file somebody bought is never sold, archived or deleted again; what is on offer is permitted by its last verdict; every file is checked |
| Web download (`storefront/web-delivery.ts`) | `SentDelivery` | single and bundle download | a file is delivered once, the order completes with its last file |
| Telegram delivery (`telegram/delivery-worker.ts`) | `TelegramNotification`, `SentDelivery`, leases | claim, reserve, send, record, settle | a credential leaves once; what is recorded as sent was sent |
| Delivery refund and retry (`wallet/refund.ts`, `telegram/delivery-retry.ts`) | same rows and the wallet | refund, two operator retries | nobody has both the file and the money; nothing is stuck |
| Top-ups, bridge, reconciliation (`wallet/topup.ts`, `payment/android-bridge.ts`, `payment/reconciliation.ts`, `wallet/expired-order-credit.ts`) | `WalletTopup`, `BridgePaymentEvent`, QRIS and Jago attempts | create, record, match, confirm, expire, reconcile, approve, credit late | an incoming payment is credited once, to an invoice it pays, and every notification is decided |
| Android app (`src/android/dana-notification-bridge/`) | the queue of notifications | capture, send the oldest until acknowledged | nothing the bank announced is lost or stops what follows it |
| SMS numbers (`smspool/`) | `SmsPoolCustomerOrder` | buy, refresh, cancel, refund | one refund at most |
| Telegram updates (`telegram/update-store.ts`, `telegram/flow.ts`) | `TelegramProcessedUpdate`, `BotSession` | claim, complete, fail, the start of every handler | an update is worked on by one request per lease; a second run does no harm |
| Redeem (`redeem/`) | the session's batch, `AccountRedeemBatch` and its events | open, upload, finish, clear, cancel | a batch of logins leaves once, its record is true, no upload is lost |
| Referral (`referral/`) | referrals, points, claims | first /start, claim | one reward for a newcomer and for a press of the button |
| Payment pollers (`payment/binance-web-*.ts`, `payment/shopee-*.ts`) | sessions with cookies, leases, recorded money | validate, select, revoke, poll, record | a late or foreign answer is never recorded; a revoked session is silent |
| Cart (`storefront/cart.ts`, `src/src/components/`) | `WebCart`, `WebCartMutation`, each tab's copy | change, retry, refresh, resume | a change is made once, an acknowledged one is shown, a refused one is not made |
| Broadcasts, exports, admin screens | their tables | see section 5 | |

`PROJECT.json` lists every component with its files, including the ones left out.

### How the parts interact

Everything communicates through database rows. Two kinds of advisory locks
serialise transactions: `lockInventoryAllocation` (one per product) is taken by
whatever reads or claims stock, `lockOrderPaymentTransition` (one per order) by
whatever moves a payment and by the worker's reservation of a receipt. So a
transaction is one step, and what can go wrong lies

* between two transactions of one operation (confirm, then allocate; upload,
  then allocate; record a failure, then refund, then settle the rest);
* around the network: a check, a verification or an upload takes seconds, and
  the rows it was based on may have changed when its result is written;
* between transactions that take *different* locks (refund and reservation,
  cancellation and BEP20 verification, expiry and top-up confirmation), and,
  because they run at READ COMMITTED, inside a transaction between a row it reads
  without a lock and what it then writes (the event of a payment);
* in the outbox: leases expire under slow workers, processes stop between an
  upload and its record, and Telegram may accept a file without an answer;
* at the clients: a phone, a browser tab and Telegram send again what was not
  answered, while the first request may still be running.

`PROJECT.json` lists these hazards at their lines with the properties that cover
them, and for the others why not.

## 2. Modules

| Module | Models |
|---|---|
| `Store` | the transactional core: checkout, confirmation, expiry, cancellation, late money, crypto attempts, preorders, Web download, inventory, the ledger |
| `StoreProperties` | its type invariant, invariants, action property, fairness, liveness and the refinement mapping |
| `OrderPromise` | the abstract promise: an order gets exactly the units it asked for, which no other order ever gets, or it is compensated and gets none |
| `PaymentPromise` | the abstract promise of bank money: an invoice is paid once, while it is open or after it ran out, by hand or for one transfer of its amount; a transfer pays one invoice in every book of payments |
| `Delivery` | the Telegram worker, its refund and the operator's retries, composed with the core (`CoreStep` interleaves every action of `Store`) |
| `SmsPool` | phone numbers: purchase, refresh, cancellation and refunds against a provider, over one wallet |
| `Intake` | incoming bank money: the phone's queue, the events on the server, top-ups and orders as invoices with an amount, an attempt and a time, the sweeper, reconciliation, approval and late credit by administrators |
| `Bot` | Telegram updates under their lease, and the redeem and referral flows they start |
| `Pollers` | the Binance and Shopee sessions: validation, leases, polls, revocation, what they record |
| `Cart` | the server's cart, its revisions and idempotency keys, and the tabs that change it |
| `Inventory` | the stock files between upload and sale, with checks, restores and takeouts in the steps they take, all four rules for banned files and the owner's approval |
| `Services` | the composition of `Intake`, `SmsPool`, `Bot`, `Pollers`, `Cart` and `Inventory` |
| `MCStore`, `MCDelivery`, `MCServices`, `MCSmsPool`, `MCIntake` | instances for TLC: model values, symmetry, a state constraint, a view |
| `StoreProofs` | TLAPS, the core: types, stock ownership, the ledger, unique amounts, verified transfers |
| `StorePromiseProofs` | TLAPS, the core: fulfilment is complete, the limits of invoices and of the preorder queue, the core implements `OrderPromise` |
| `DeliveryProofs` | TLAPS, the worker beside the core: types, one upload per file, what is called sent, money, limits and amounts; stock, promise, complete orders, receipts left behind and deliveries given up |
| `IntakeProofs` | TLAPS: types, credited once, paid is final, evidence, one invoice per event, what the order's lock gives, the intake implements `PaymentPromise` |
| `SmsProofs` | TLAPS: the charges of phone numbers, what two refunds cost, purchases that were cut off |
| `CartProofs` | TLAPS: the cart's changes are made once, what was told is shown, what was refused is not made |
| `InventoryProofs` | TLAPS: an order keeps what it took, sold files stay sold, takeouts hold, offers are permitted |
| `ServicesProofs` | TLAPS: `Bot`, `Pollers`, and the composition `Services` |

The six services share no row with each other. `Services` therefore lets one of
them run in a behaviour (the variable `service` says which), so that its state
space is the sum of theirs and not their product; one run asks of all six what
would otherwise take six. Their link with the core is narrow: what
`Intake` and `Pollers` record ends in `ConfirmPayment`, `VerifyTransfer` or a late credit of
`Store`, which the core allows at any time its own guards allow it, and SMS
numbers are paid from the wallet by the `PostEntry` the core uses.

### State

`Store` keeps one variable per column that a property or a guard can tell apart:
`status`, `payment`, `invoice` (the columns that never change), `attempt`,
`paidAt` as a rank, `items` (the stock ids of the order's items), `stock`,
`holder` (`reservedOrderId`), `deliveredTo`, `health`, `archived`, `policy`,
`receipt` and `receiptOf` (a stock file has one receipt row at most, by a unique
index), `outbox` (the DIGITAL_FILE notification of an order and a file),
`ledger` (amounts under their idempotency keys) and `wallet`. Clock values become
`due`: before the expiry, within the tolerance after it, beyond. The tolerance
is the five-minute clock skew for a method with a unique code and the
verification grace for a crypto method; no method has both. `Methods` splits what
the schema calls `BINANCE_INTERNAL` by the verifier the attempt was created with:
the API (`BINANCE_INTERNAL`) and a merchant's web session (`BINANCE_WEB`). They share
the columns, but not the locks, the rejections and the deadline of a confirmation.

An order is a constant that names a checkout's idempotency key; files are
numbered in upload order, so that "oldest first" is the order of the numbers.
`Delivery` adds one program counter per worker slot, the leases, the attempts,
and two histories of what Telegram accepted that no code reads: `copies`, the uploads
whose acceptance the slot heard of or has to reckon with, and `misread`, the files
accepted with an answer that passed for a refusal (below).

`SmsPool` has the columns of `SmsPoolCustomerOrder` that decide anything
(`sms`), the provider's view of the number, the ledger entries of an order under
their keys, and what each request is doing: the network call it waits for, or
the transaction it is in. It shares only the wallet with the core and is checked
apart from it.

`Intake` has one row per invoice with its amount, creation, state and the
event its attempt is matched with, one per event with status and link, the phone's
queue, what each request has read (`request`: the stage of its transaction, the
event and the invoice it holds) and `credits`, the history of what was given for
which event by whom. `provider` says whether the behaviour is one of Jago
transfers, whose attempts have a table for orders and one for top-ups, or of
QRIS, where one table serves both. `now` counts clock skews of five minutes.

`Bot` has the row of each update with its lease as a Boolean, what each request
of the webhook is doing (`run`, with what it has read of the session), the chat's
session, the batches, and the referral's counters. `Pollers` has the session rows,
what each poll is doing, and one transfer that changes upstream with the row it is
recorded in. `Cart` has the revision and the keys, and of each tab the revision it
shows, the change it retries, the reply and the refresh under way, and the
addition it has stored. `Inventory` has the columns of `DigitalStockItem` for the files of one product:
`status`, `content` (who the account is), `archivedAt` as the number of the
archiving, `health`, whether the last HTTP status was 401 (`http401`), `approved`,
`receipt`, the order of the last checks (`checkedOrder`), the product's `policy`,
what the scheduled run has left (`checkRun`), and what each check and each restoring
request has read (`check`, `restore`). `verdict`, `okayed`, `claimedAs` and
`takenOut` are histories. It splits what `Store` does in one step (`CheckHealth`,
`RestoreStock`) and leaves the orders to `Store`, with which it shares the table
`DigitalStockItem`: a file is claimed, released and delivered by somebody.

`copies`, `misread`, `saved`, `joined`, `claims` (`Bot`), `stranger`
(`Pollers`) and `history` (`Cart`) are histories or facts of the world no code reads.

### Correspondence

`map` in `PROJECT.json` gives the lines of every definition. Each action is one
committed transaction with the whole handler in it. Operations that span several
transactions are several actions, with any other action in between:

* `ConfirmPayment(o)` and later `AllocatePaidPreorder(p)`; `AddStock(u)` and
  later `AllocatePaidPreorder(p)`;
* `SubmitTransfer(o)`, `VerifyTransfer(o)` or `RejectTransfer(o)`, then
  `ConfirmPayment(o)`;
* a delivery: `Claim`, `Inspect`, one `Reserve`, `Refuse` or
  `Doubt`/`MarkUnknown`/`Park` per file, `Send`, one `Record...`, and for a bundle
  `SettleRest`; a recipient who is gone leads from `RecordRecipientGone` to
  `RefundCheck` and `RefundCommit` or `RefundDenied`. `Crash` may end a slot at any
  stage, `Throw` is the worker's handler for errors nobody caught, and
  `LeaseExpires` lets another slot take over while the first goes on.

  `Send` has what `sendDocumentOnce` (`telegram/api.ts:498-547`) makes of an answer:
  accepted, ambiguous (none, or a 5xx: the file may have been accepted), to be tried
  again, rejected, or the recipient is gone. A 200 whose body cannot be read is
  reported as a definite error with status 200, which the worker records as a
  rejection: the outcome REJECTED may therefore hide an accepted file (`misread`);

* a check of a stock file: `StartRun` and `CheckOneOfRun` of the scheduled run, or
  `CheckByAdmin`, then `GetAnswer` from the account service and `RecordAnswer`; a
  restore: `ReadForRestore`, `WriteRestore`;
* an SMS purchase: `Prepare`, `Buy`, then `PurchaseFailed`, `PriceExceeded` or
  `Activate`; a refresh: `LookUp`, `Told` or `NotTold`, then `StoreActive`,
  `StoreCode` or `ProviderRefund`; a cancellation: `CancelSms`, `AskToCancel`,
  `CancelRefund`. `Abort` ends any of them at any point.

* a notification: `Capture`, `BeginEvent` (sent, or sent again), then `Match` or `RejectEvent`,
  `ConfirmRead` and `ConfirmCommit`; `SendTimeout` is the phone giving up on an
  answer. An administrator's request: `Approve`, `CreditExpired` or `ReserveRead`,
  `ReserveWrite`, then the same confirmation, or `LateRead` and `LateWrite`.
  `Fail` ends a request at any stage, by an error, a rollback or a stop
  of the process. `ExpireInvoice` and `CancelInvoice` are one step each; for an
  order they wait for its lock, for a top-up they do not, as in the code;
* an update: `SendUpdate`, `Deliver`, then the steps of its flow from `Meet`
  (what every handler does first) to `EndUpdate`, `FailUpdate`, `ThrowError` or
  `CrashRun`; a batch is sent in `TakeBatch`, `SendFile` and `MarkSent` or `MarkFailed`;
* a poll: `PickSession`, `LeaseSession`, `ReadCookies`, `AskProvider`, `StoreBatch` or
  `FailSession`; a validation is `PrepareRead` and `PrepareWrite`;
* a change of the cart: `Change` (or `Retry`, `Resume`) in the tab, `ApplyChange`, `AnswerAgain`,
  `RefuseChange` or `RejectChange` on the server, `ReadReply`, `TakeReply` or
  `GiveUp`; what a tab has sent may be applied later, after it gave up.

A Binance API answer is recorded under the order's payment lock, and so is never
in the middle of a closing. A BEP20 verification and a match in the web history
(`payment/binance-web-matching.ts:43-200`, which locks the attempt alone) can be
committed between the reads and the updates of `expire-orders.ts:49-111` and
`cancel-order.ts:42-81`, and leave a closed order with a VERIFIED attempt:
`ClosedAttempt` gives both outcomes. The web matching compares the grace with the time its
pass began, so `VerifyTransfer` has no deadline, and it rejects nothing; a confirmation
of its match does have the deadline (`Payable`, `binance-web-policy.ts:97`).

The two SMS refunds are two steps each, because their transaction reads the order
before it takes the wallet's lock and nothing else is locked.

In `Intake` a transaction is its reads and its writes: the event of a payment is
read without a lock, and between the two steps whatever needs none of the
advisory locks the transaction holds (`Locked`, `EventLocked`) may commit. What
the writes test again (`updateMany` with a status in its `where`) is a guard of the
second step; what they do not is taken from the first.

The delivery refund is split although it is one transaction: it holds the inventory lock,
which keeps the core out (`InventoryLocked`), but a reservation needs only the
order's payment lock and may commit in between.

Simplifications, each towards more behaviours or without effect on the properties:
one product; the SMS cron job may look an order up at any time instead of ten
seconds after its last check; amounts in whole rupiah units with a crypto invoice accounted at its
rupiah subtotal; the allocator commits each round on its own; a bundle is one
document (the code splits at 100 files or 20 MB); which due notifications a
claim takes is free beyond those whose lease has expired; admin approval of an
open invoice is a confirmation before its expiry.

Operators introduced by a comment that begins with "Fault:" are not part of the
specification. Each one replaces one operator in a mutant run and stands for
a plausible bug; the property named in `PROJECT.json` must then fail.

## 3. Runs

| Run | Instance | Question |
|---|---|---|
| `StoreStock` | 2 orders, one open invoice for each buyer, Telegram and Web buyer, 2 files, quantities 1-2, wallet and transfer, preorders up to 2 units, all inventory operations with HEALTHY and 401 checks | `TypeOK`, `StockOwnership`, `FulfilmentComplete`, `PreorderQueueBounded`, `InvoicesBounded` |
| `StoreMoney` | 2 Web invoices, 1 file, mixed, Jago, BEP20, Binance API and Binance web session, 2 codes, balance below the price, under `FairSpec` | `MoneyAccounted`, `BilledAmountsDiffer`, `VerifiedStaysPayable`, `InvoicesSettle` |
| `DeliveryRace` | 2 slots, 1 order of 2 files, 2 attempts, every answer, misread ones too, but a lost recipient | `DeliveryTypeOK`, `DeliveredOnce`, `SentIsTrue` |
| `DeliveryRefund` | 2 slots, 2 orders, 2 files, every answer, refunds and preorders, the steps of `OrderlySpec` (action constraint `Orderly`) | `StockOwnership`, `MoneyAccounted`, `SentUnitsStayTaken`, `KeepsPromise` |
| `Services`: intake | an order, a top-up, a transfer, one amount, both rails, 2 requests of the phone, 1 administrator | `CreditedOnce`, `OneInvoicePerEvent`, `EvidenceAgrees`, `ConfirmedIsCredited` |
| `Services`: numbers | 2 numbers, 2 requests and the cron job, a balance below two quotes, actual prices below, at and above the quote | `ChargedForWhatWasGot` |
| `Services`: bot | 2 updates, 2 requests of the webhook, 2 files, 2 batches, a session that may be open at first | `OneRunPerLease`, `RedeemSentOnce`, `RedeemRecordTrue`, `SavedUploadsKept`, `RewardedOnce` |
| `Services`: pollers | 1 session, 2 polls, 1 validation, a transfer that changes twice, both sources | `RevokedIsSilent`, `PollsInOrder`, `EvidenceIsOurs` |
| `Services`: cart | 2 tabs, 2 changes | `CartCommandOnce`, `ToldMeansShown`, `RefusedStaysRefused` |
| `Services`: inventory | 1 file, 2 contents (one no account), checks by hand, 2 restoring requests, 2 archivings, 3 rules, 4 answers | `HeldAsClaimed`, `OfferIsPermitted`, `TakenOutStaysOut` |
| `Services`: all | the instances above | `ServicesTypeOK` |
| `ServicesLive` | an order, 2 transfers and 2 requests of the phone on the QRIS rail; 1 number with 2 requests and the cron job; 2 stock files and a scheduled run of one; under `ServicesFairSpec` | `PaidAsPromised`, `QueuedIsDecided`, `CodeReachesBuyer`, `EveryFileIsChecked` |
| `QueueJump` | as `StoreStock` | `NoQueueJump` is violated |
| `OneInvoicePerChat` | 2 invoices of one Telegram buyer | `OneInvoicePerChat` is violated |
| `RefundRace` | 2 slots, 1 order, a lost recipient | `RefundsRejectUncertain` is violated |
| `SmsRefunds` | 1 number, 2 requests and the cron job | `RefundedOnce` is violated |
| `LateMoneyStaysOut` | an order, a top-up, a transfer, one request of the phone, no administrator | `LateMoneyStaysOut` is violated |
| `TwiceDelivered` | 1 slot, 1 order, 1 file, accepted or rejected | `NeverDeliveredTwice` is violated |

Why these bounds. Two orders are what every conflict needs: one that holds a file
and one that wants it, one invoice that bills an amount and one that might bill
it too, one waiting preorder and one competitor. Two files make bundles, partial
assignment and partial delivery possible, and one file makes the last unit
scarce. In the money runs the balance lies below the price, so that a mixed
invoice has both parts; two codes leave one free for a second invoice. One 401
result and one healthy result reach every branch of the status rules; 402 only
differs in never being sellable. Two attempts give a retry and its end. Orders
are interchangeable and so are slots, which the symmetry sets use; buyers are
not (one is a Web buyer). The liveness run uses no symmetry, nor does `StoreMoney`. The delivery runs
carry the constraint `QuietInventory`: inventory edits are explored exhaustively
with the core alone, and a file in an order's hands can be touched by none of
them (`StockOwnership`, proved). No action and no property of these two runs reads
`misread`, so they compare states without it (`ReadView`). `DeliveryRace` has one order,
two attempts and all interleavings, without refunds (a lost recipient), whose part in
`DeliveredOnce` the theorem has and whose interleavings `DeliveryRefund` explores.
`DeliveryRefund` has two orders, which refunds and resales need, one attempt (a claim
that outlived its lease can be taken over all the same), files bought one by one,
and leaves out the steps `OvertakesRefund`, because what it asks fails with them
(`RefundRace`). In `StoreStock` both limits of open invoices are one, so that a second invoice of the
Telegram chat meets the limit as one of the Web buyer does; the code's five
(`create-order.ts:205`) would need six orders. The parameter stands for any number in
the theorem `OpenInvoicesAreBounded`.
`StoreMoney` raises that limit to two, so that two invoices of its one buyer are
open together. Two SMS requests
and the cron job let a cancellation, a buyer's refresh and a job's refresh of one
number overlap; the orders meet only in the wallet, for which two suffice.

One amount makes an order and a top-up compete for every transfer, and the
notification of one transfer may come again from the phone and be reconciled at
the same time. Two transfers meet in the phone's queue, which sends the
oldest alone, so `ServicesLive` has two, and no administrator. There the refinement
`PaidAsPromised` is checked as well: two transfers for one amount are what a second payment of
an invoice needs, and the books of the other rail and the administrators' hands are the proof's. A life and a
skew of one moment and a clock of two let the transfer come in time, in
the skew, or late. A Telegram update that is delivered to two requests, and two
different ones, need two updates and two requests; two batches let an upload
or a send meet the batch after its own. A transfer that changes twice upstream
makes three answers of which two can be recorded in the wrong order. A transfer
of a revoked session needs one session only. Two tabs and two changes
give a stale revision, a retry, and a reply that arrives after a newer one.
In `Inventory` files meet only in the scheduled run's selection, by the lock of
their product and by the rule: one file therefore shows in `Services` what happens to it
beside the other operations, and two files with a run of one show the selection
in `ServicesLive`. Two contents let a file be edited while the old one is being asked
about; a content that is no account is healthy without being asked. Two restores and
two archivings let a file be archived, restored and taken out while a request still
holds what it read before. A scheduled check of a file differs from one by hand only in how
the file is chosen, and a second check of the same file only in what it records last;
the theorems below hold for any checkers.

A behaviour of `Services` is of one service, so `ServiceView` leaves out the
variables of the others, which never change, and the model values that name
requests and what they work on are shared, which makes one small symmetry.
The bounds are checked larger than the run's where the question
needs it: in the intake two administrators with two requests of the phone (551197
states), two transfers with one request of each (752414 states), and liveness
with two transfers, two requests and an administrator (243592 states), and two poller
sessions (805794 states) were explored once and show no error; the theorems of
section 4 hold for any number.

`CHECK_DEADLOCK FALSE` in every configuration: a shop whose orders are all
closed and whose stock is sold, or whose waiting invoices have all been decided,
has nothing left to do, and a service is done when the clock stops, all
updates are handled or all changes are made.

### What the violations show

* `NoQueueJump`: `src/README.md:24` promises new stock to the oldest paid
  preorder. The upload and the allocation are two transactions, and a checkout
  that takes the inventory lock between them is served first.
* `RefundsRejectUncertain`: `src/PROJECT_CONTEXT.md:2232` says refunds reject an
  order with a SENDING, SENT or UNKNOWN receipt. A slot whose lease has expired
  meanwhile may have its successor reserve a receipt between the refund's check
  and its commit. `SentUnitsStayTaken` fails in the same instance, so
  `DeliveryRefund` leaves out just those steps, in which a slot writes a receipt of
  an order that is being refunded or was (`OvertakesRefund`), with two slots whose
  leases run out while they refund.
* `NeverDeliveredTwice`: `src/PROJECT_COMPACT.md:395` says that one credential must
  never be delivered twice. `sendDocumentOnce` reports an answer 200 whose body is
  cut or unreadable as a definite error (`telegram/api.ts:534-545`),
  `digitalDeliveryOutcomeAmbiguous` (`delivery-worker.ts:100-104`) does not call it
  ambiguous, and the receipt becomes FAILED although Telegram has accepted the file.
  The operator's retry then sends it again. `editInvoiceDocument` (`api.ts:563-567`)
  takes the same case for unknown. `DeliveredOnce`, `SentIsTrue` and `SentUnitsStayTaken`
  are about uploads whose acceptance the worker knows of or reckons with, and say so.
  No refund by itself follows such an answer: that takes a 400 or 403. But a retry
  that meets a recipient who is gone refunds the order, and its file is on sale again.
* `OneInvoicePerChat`: `src/README.md:29` promises one unpaid invoice per Telegram chat.
  The checkout allows five (`create-order.ts:205`); only Web buyers have one.
* `RefundedOnce`: two tests say that a cancelled number is refunded once. A
  cancellation and a refresh that finds the number cancelled both read the order
  before either commits, and post the refund under different keys.
  `ChargedForWhatWasGot` therefore says of a refunded order only that the
  buyer is not charged for it.
* `LateMoneyStaysOut`: a test says that the amount of an expired invoice stays
  reserved for the skew of the bridge. The query asks for PENDING invoices,
  which an expired one no longer is once the sweeper has run, so the amount is
  given out again and a transfer made for the expired order pays the new top-up.
  `EvidenceAgrees` says what does hold: the transfer has the invoice's amount
  and lies in its time.

Further behaviours of the model are the code's, disagree with something the repository
says or seem not intended, and have no run of their own.

* The comment at `telegram/delivery-retry.ts:114-118` says an operator may attest that an
  UNKNOWN file did not arrive and retry it. The code accepts only notifications in
  FAILED, PENDING or SENT (141-144), and every UNKNOWN receipt has one in
  MANUAL_REVIEW, so such a delivery can never be taken up again
  (`RetryAcknowledged` has the code's guard).
* The panel proposes to reconcile a payment with an expired top-up
  (`src/tests/admin-payment-recovery.test.ts:86`, `src/PROJECT_CONTEXT.md:498`). For QRIS the reservation
  accepts only an attempt that still waits for its payment (`reconciliation.ts:460-475`,
  `Reservable`), so it always refuses.
* A web-session transfer that was found but that nobody confirmed within the grace
  leaves its invoice open for ever: VERIFIED forbids expiry and cancellation, and
  `binance-web-policy.ts:97` refuses the confirmation, an administrator's too.
  `InvoicesSettle` excepts the web matches that await an operator (`AwaitsOperator`).
  The API's verified transfers can be confirmed at any time.
* The check of a stock file compares the row with the one it re-reads *after* the answer
  (`health-check.ts:199-240`), not with the one it asked about, so an edit made while the
  answer was awaited gets the old account's verdict, although `src/README.md:46`
  says that what is on sale was checked. And checks of one file record their answers in any order: a
  2xx that is older than a 401 (`src/README.md:47`, `src/PROJECT_CONTEXT.md:469`) puts the file back on sale until the next
  check. `OfferIsPermitted` says what does hold: the offer agrees with the verdict recorded
  last since the edit.

### Fairness

`FairSpec` has weak fairness only: the clock of an open invoice goes
on; the expiry worker and the workers that confirm what BEP20 and the Binance API verified
(`usdt-bep20.ts:55`, `binance-internal.ts:571-630`) run from a
timer for as long as the server does, and what they wait for stays enabled until
it is done (both take rows oldest first in bounded batches). Buyers, admins,
uploads, the provider's answer and the allocator get none: an invoice
settles because verification ends with its grace, not because somebody answers.
A web-session match is confirmed by a worker only when
`BINANCE_WEB_SESSION_AUTO_CONFIRM` is set, which by default it is not (`src/.env.example:104`);
`ConfirmVerified` therefore leaves it out, and `InvoicesSettle` ends where such an
invoice waits for an operator.

`IntakeFairness` trusts the phone to stop waiting for an answer and to send again,
the sweeper to run, a transaction that has begun to commit or fail, and the
server to be reached and its transactions to commit infinitely often when they
are tried infinitely often (strong fairness of the handler's steps). Nothing is
assumed of customers, administrators, the clock and the listener that captures
notifications. The sweeper is needed: the notification of an overdue invoice is
answered by an error each time, and the phone sends nothing behind it, until
the sweeper has closed the invoice.

`InventoryFairness` has weak fairness of the scheduled run alone: the Docker
worker calls the route every 30 seconds, the route starts a run when none is
active, and a request to the account service ends after 15 seconds with or without
an answer. Nothing is assumed of admins, orders and checks by hand. `EveryFileIsChecked`
is about a store where edits and refunds end (`EditsAndRefundsEnd`): each edit puts a
file back among the unchecked ones, ahead of all that were checked, and a file
that is reserved when its turn comes is passed over.

`SmsFairness` trusts the cron job alone: it keeps running (weak fairness of its
steps), each active order gets its turn because the job takes those not checked
for longest (strong fairness of `LookUp`), and SMSPool is not unreachable, and the
job not cut off, each time it comes to an order (strong fairness of `Told` and
`StoreCode`). Requests by buyers and administrators get no fairness.

## 4. Proofs

Every safety invariant and every action property of the passing runs is stated by a
theorem, for all values of the constants that satisfy the modules' assumptions; the
proofs are checked by TLAPS. The assumptions on constants are those the modules
name (`OrderAssumption` to `LimitAssumption` and `ChoiceAssumption` of `Store`,
`DeliveryAssumption`, `IntakeAssumption`, `SmsAssumption`, `BotAssumption`,
`PollersAssumption`, `CartAssumption`, and the five of `Inventory`): finitely many orders, amounts that
are naturals, a price and a batch limit of at least one, and none-values that are no
members of the sets beside them. One theorem assumes more (`RequireHealthy`), and
one group is about a part of the worker's behaviours (`OrderlySpec`), which is said
where they stand.

Each module of proofs is laid out alike: the parts of the inductive invariant, a
lemma for each action and each part it can disturb, one lemma that all other
actions share, and theorems that combine these with PTL. The invariants
that are proved inductive hold as invariants of the runs too: those of the core in
`StoreStock` and `StoreMoney`, those of the worker in `DeliveryRefund` and `DeliveryRace`, those
of the services in `Services` (all but `CartBound`, which quantifies over the naturals and
stands behind `CartTypeOK`).

### The core

`StoreProofs` and `StorePromiseProofs` prove of `Spec`:

| Theorem | States | Argument |
|---|---|---|
| `TypeCorrect` | `[]TypeOK` | `TypeInv` adds that a placed order has a complete invoice; needed because every amount is computed from it |
| `StockHasOneOwner` | `[]StockOwnership` | `OwnerInv` adds that an order in NONE, PENDING_PAYMENT, EXPIRED, CANCELLED or REFUNDED has no items, without which an order's closing or a first claim could not be shown to leave the others alone |
| `MoneyIsAccounted` | `[]MoneyAccounted` | `Books` fixes, for every state an order can be in, the whole page of the ledger and not only its sum: the guards of the code look at single entries |
| `AmountsAreUnique` | `[]BilledAmountsDiffer` | inductive together with types: a new code avoids `ActiveAmounts`, and `LiveOnlyEnds` says that only a checkout makes an invoice payable |
| `VerifiedTransferStays` | `[]VerifiedStaysPayable` | `BinanceInv` extends the property to attempts of the Binance API that await or undergo verification, since an answer may come at any time; closing ends those without the race of `ClosedAttempt`, confirmation makes a verified one CONFIRMED |
| `FulfilmentIsComplete` | `[]FulfilmentComplete` | `GoodsInv` says of each order how many units it has, that nothing of it is delivered before it is in fulfilment and that it is completed with its last unit (`Filled`), and that a Web order's receipts are those of its units (`WebReceipts`); `NoticeInv` adds the notifications, which only the core alone keeps so |
| `OpenInvoicesAreBounded` | `[]InvoicesBounded` | a buyer's `ActiveInvoices` grow by a checkout alone, by one, and the checkout has counted them |
| `PreorderQueueIsBounded` | `[]PreorderQueueBounded` | the queue is the cardinality of a set of slots, `1..Missing(o)` for each open preorder; every later step leaves the set or shrinks it, and a checkout adds as many as it has found free |
| `CoreKeepsPromise` | `KeepsPromise` | the refinement, below |

`KeepsPromise` is the specification of `OrderPromise` under the mapping that reads an order's
phase from its status and payment (`Phases`), what it asked for from its invoice
(`Wants`), what it was allotted from `items` and what it was given from
`deliveredTo` (`Givens`). The proof has one lemma for each action that makes a step of
the promise: a checkout places (`CheckoutPlaces`), a confirmation pays (`ConfirmPays`),
a closing abandons (`CloseAbandons`), late money pays too late
(`CreditPaysTooLate`), an allocation allots (`AllocationAllots`), a cancellation
compensates (`CancelCompensates`), a download gives (`DownloadGives`). Everything
else leaves the mapped state alone (`PromiseStutters`). The abstract guards are
where `OwnerInv` and `GoodsInv` are needed: that units allotted belong to nobody else, and that a
refunded order had been given none.

### The worker beside the core

`DeliverySpec` interleaves the worker's slots with every action of the core. What the
core does is taken from three facts about any of its steps (`CoreKeeps`): orders in
fulfilment keep their units, notifications and receipts it writes are new, or
are of Web orders. Slots share one lemma for all they do that neither
reserves nor uploads nor records (`Quiet`).

| Theorem | States | Invariant |
|---|---|---|
| `DeliveryTypesHold` | `[]DeliveryTypeOK` | `WorkInv`: a slot at work has a placed order (`SlotHolds`), a claimed notification has counted its attempt (`Counted`) |
| `FilesGoOutOnce` | `[]DeliveredOnce` | `OnceInv`: a slot with files to send owns their receipts, in SENDING or UNKNOWN (`OwnsReceipts`); no two slots have a file in common (`BatchesApart`); what a slot has still to send was never accepted (`NotYetAccepted`); the receipt of an accepted file is not free (`AcceptedHasReceipt`) |
| `MoneyStaysAccounted` | `[]MoneyAccounted` | `PayInv`: the core's `MoneyInv`, and that a slot about to refund has an order that was paid and not refunded, and that no other slot refunds (`RefundsPaid`, `OneRefund`); the inventory lock gives it |
| `LimitsStay`, `InvoicesStayPayable` | `[]InvoicesBounded`, `[]PreorderQueueBounded`, `[]BilledAmountsDiffer`, `[]VerifiedStaysPayable` | `LimitInv`; no step of the worker touches an invoice that is open or a preorder that waits (`Settled`) |
| `SentMeansAccepted` | a notification SENT was accepted once, and its file is delivered to its order | `SentInv`: everything a slot touches is of a Telegram order in fulfilment or past it (`SlotToTelegram`), and notification, receipt and delivery say the same (`OutboxTrue`, `ReceiptsTrue`) |
| `SentUnitsStay`, `SentStaysTrue` | `[]SentUnitsStayTaken`, `[]SentIsTrue` | `StayInv`: a slot's files are units of its order (`HoldsItems`), so is everything accepted (`AcceptedAreItems`), a completed order was sent whole (`CompletedAreSent`), and a slot about to refund has an order of which nothing is out (`RefundsUndelivered`) |
| `StockKeepsItsOwner` | `[]StockOwnership` | `OwnerInv`, part of `StayInv` |
| `WorkerPromiseHolds` | `KeepsPromise` | `ServeInv`: `GoodsInv` again, and that a slot in doubt has found a receipt (`DoubtsReceipt`) |
| `OrderlyRefundsRejectUncertain` | `RefundsRejectUncertain` | `StayInv` (`RefundsUndelivered`) |
| `LeftReceiptsMove` | a Telegram order never finds on its reserved file a receipt that it may not take over | `LeftInv`: a receipt names the order that has the file, or it is a failed one of a refunded order (`LeftBehind`); a slot doubts its own receipts (`DoubtsOwn`) |
| `FulfilmentStaysComplete` | what `FulfilmentComplete` says of an order in fulfilment | `LeftInv`: every file of a Telegram order in fulfilment has a notification (`NoticedInFull`) |
| `AbandonedForGood` | a file that was given up in the middle of its last attempt stays so | no invariant of its own: the steps are gone through one by one (`OnlyClaimsTake`, `FailedStaysFailed`, `ReservedStays`) |

The first five rows, down to `SentMeansAccepted`, hold whatever crashes, outlives its lease, is lost or is
retried by an operator, with refunds beside any number of slots. What goes out once rests on the unique
receipt of a file: an attempt whose outcome is not known leaves it in SENDING or UNKNOWN, and no
later attempt may reserve it. Money and limits rest on the inventory lock alone: they do not depend on
which units an order has, so they stand even where a refund and a reservation meet.

`DeliveredOnce` and `SentMeansAccepted` count what `copies` counts: uploads accepted with
an answer that could not be read are in `misread`, and `TwiceDelivered` shows what
they do.

The other theorems are about

    OrderlySpec == DeliveryInit /\ [][DeliveryNext /\ ~OvertakesRefund]_allVars

that is, all behaviours with any number of slots, refunds, retries, crashes and expired
leases in which no slot writes a receipt of an order that another one is refunding, or has
refunded, so that the receipt is no longer free (`OvertakesRefund`: the one step that
`RefundRace` shows, by which a refund's check becomes false behind its back). They
need it: without it the units are on sale again while a slot sends them.
That the refund's check stays true until its commit is the part of `StayInv`
called `RefundsUndelivered`; that what a slot sends are still units of its order is
`HoldsItems`. `OrderlyRefundsRejectUncertain` says in
return that what the documentation promises of refunds fails by that race alone.
`DeliveryRefund` checks `OrderlySpec` with two slots, `DeliveryRace` the first group
without any condition.

`AbandonedForGood` is about what goes wrong, not about what goes right: `Throw` after `Reserve` on the
last attempt leaves a failed notification beside a receipt in SENDING (`Abandoned`, which the instances of
both delivery runs reach). Claims take PENDING and PROCESSING notifications, the operator's retries
FAILED and UNKNOWN receipts, and refunds reject the order; the theorem says that nothing else
helps either. The repository promises no recovery, so it is no finding.

### The services

`IntakeProofs` proves of `IntakeSpec`, for any invoices, transfers, requests of the phone,
administrators, amounts, times and queue limit:

| Theorem | States |
|---|---|
| `IntakeTypeCorrect` | `[]IntakeTypeOK` |
| `InvoicesCreditedOnce` | `[]CreditedOnce` |
| `EventsPayOnce` | `[]OneInvoicePerEvent` |
| `CreditsHaveEvidence` | `[]EvidenceAgrees` |
| `PaymentsAreFinal` | `PaidIsFinal` |
| `ConfirmedTransfersAreCredited` | `[]ConfirmedIsCredited` |
| `PaymentsAreAsPromised` | `PaidAsPromised`, the refinement of `PaymentPromise` |

The first five rest on one invariant, `MoneyInv`. None of the properties is inductive,
because a transaction writes what an earlier step has checked: in the second
step only the rows its `where` names again are sure to be as they were. `MoneyInv`
therefore says of every request what of its check can no longer change
(`Sound`): that the transfer was made, that an invoice exists with its amount
and time, that the event's link is the one it was given; and it ties the
invoices to the history of credits (`CreditedOnce`, `PaidConfirmed`), the events of
one table to one invoice (`MatchedOnce`), each credit to a transfer that pays
(`Evidence`), and a captured notification to a transfer (`Captured`).

`ConfirmedIsCredited` needs the advisory locks as well, in `LockInv`: a confirmation
between its read and its write has its order open (`CommitsOpen`) and is the only
one there (`CommitsAlone`), so an order that was expired when a late payment was
reserved for it (`LateRow`) can since have been paid by an administrator's hand only,
which is the one case in which the code confirms an event without a credit.

`PaidAsPromised` reads the phase of an invoice from its state (`Phase`), the book from the table its
attempt is in (`Table`), and what was paid from `credits`. Five kinds of step make one of the promise: a
creation asks (`OpensAsks`), a transfer is made (`TransfersMove`), a sweep or cancellation gives up
(`ClosesGiveUp`), and a confirmation, an approval or a late credit pays (`SettlesPays`);
everything else stutters. That the transfer is of the invoice's amount and has paid nothing else in that book
are what `MoneyInv` gives (`Evidence`, `MatchedOnce`); `PromiseInv` adds how the attempt of an invoice follows its state
(`AttemptMoves`) and that a transfer not yet made moves nothing (`MoneyIsSent`). `PaidIsFinal` says of the
whole row what the promise says of its phase; no run checks it apart, since the mistake it is about, a
sweeper that takes back a paid top-up, breaks `PaidAsPromised` and `CreditedOnce` as well.

`SmsProofs` proves of `SmsSpec`, for any orders and requests, any quote and actual prices:

| Theorem | States |
|---|---|
| `ChargesAreRight` | `[](SmsTypeOK /\ ChargedForWhatWasGot)` |
| `RefundedTwiceAtMost` | a buyer who got back more than was paid got the price back by a refresh and by a cancellation, once each, and no code |
| `CutOffStaysCharged` | a purchase that was cut off after its debit stays charged at the quote |

The property is about sums; `SmsInv` says of every order which entries it has, by what became
of it (`BooksKept`), and of every task what its stage means for its order
(`StagesHold`): a purchase under way is the only one of its order, a refund was
decided on a number that is given up, which stays so. `RefundedOnce` is no part
of it: the code does not keep it (the run `SmsRefunds`, a finding); the second theorem bounds
what that costs. The third is about an order in PROCESSING whose number no request is buying
any more (`CutOff`): no code path comes back to it, and no line of the code says one does.

`CartProofs` proves of `CartSpec`, for any tabs and any finite set of changes:

| Theorem | States |
|---|---|
| `ChangesAreMadeOnce` | `[]CartCommandOnce` |
| `ToldChangesAreShown` | `[]ToldMeansShown` |
| `RefusalsAreFinal` | `[]RefusedStaysRefused` |
| `CartTypesHold` | `[]CartTypeOK` |

They rest on `CartInv`. A forgotten key does not let a change be made again because
the revision it names has passed, which is what `MadeOnce` says of every change that
was made or refused (`expected < cart.revision`); and a tab is told of a cart that has its
change because the one it reads is read after the change (`Informed`: what is `done`
was made). Steps of a tab share one lemma (`TabNext`, `TabQuietNext`), those of the
server another (`AnswersNext`). The types need more than `CartInv`: the revision is at most
the number of changes made (`CartBound`).

`InventoryProofs` proves of `InventorySpec`, for any files, contents, answers, rules, checkers,
restoring requests, batch size and number of archivings:

| Theorem | States |
|---|---|
| `HeldFilesAreKept` | `[]HeldAsClaimed` |
| `SoldFilesStaySold` | `DeliveredForGood` (stated by the theorem alone) |
| `TakeoutsHold` | `[]TakenOutStaysOut` |
| `OffersArePermitted` | `[]OfferIsPermitted`, assuming `RequireHealthy` |
| `InventoryTypesHold` | `[]InventoryTypeOK` |

`InventoryInv` adds to the first and the third property the types (`RowsTyped`), that an answer
waiting to be recorded is one the service gives and a healthy one for what is no account
(`AnswersPlausible`), and `VerdictExplains`, which makes `OfferIsPermitted` inductive: that health,
the 401 mark and the approval of a file agree with the verdict and the approval on
record also while it is archived, reserved or sold, since an edit, a restore or a
change of the rule may put it on offer later. Actions that only move a check or
a request share `QuietFileStep`. `OfferIsPermitted` needs the assumption: with `STOCK_REQUIRE_HEALTHY` off, a
file nobody has checked may be sold. The types need `BoundsKept`: a file has one
place in the order of checks, and nothing was archived later than the last archiving.

`ServicesProofs` proves of `BotSpec` and `PollersSpec`, for any requests, updates and files, and for
any sessions and pollers:

| Theorem | States |
|---|---|
| `UpdatesAreClaimed` | `[](BotTypeOK /\ OneRunPerLease)` |
| `BatchIsSentOnce` | `[]RedeemSentOnce` |
| `BatchIsComplete` | `[]RedeemRecordTrue` |
| `UploadsAreKept` | `[]SavedUploadsKept` |
| `ReferralPaysOnce` | `[]RewardedOnce` |
| `EvidenceStaysOurs` | `[](PollersTypeOK /\ EvidenceIsOurs)` |
| `PollsStayInOrder` | `PollsInOrder` |
| `RevokedStaysSilent` | `RevokedIsSilent` |

`BotInv` says that a request works on an update that was sent, and comes to the steps of a redeem
only by its button (`Requests`); that it works under the update's lease and alone, unless
one of the update's requests has outlived it (`Leased`); that one request at most holds a
batch, which once taken is never free again, and knows what became of its document
(`TakenOnce`); that the open session has what was saved to its batch (`SessionHasSaved`)
and what is sent was saved to it (`SentWasSaved`). A lease may run out while a
request works, so `TakenOnce` does not rest on it but on the row of the batch, which can be
created once. `PollersInv` says that who holds a session's lease asks for one that still has
cookies (`LeaseHasCookies`), that what was proven of an account, now or when a poll read
its row, is that it is the shop's (`ProvenIsOurs`), and that a poll which holds the
lease has seen as much as was recorded (`SeenInOrder`).

Of the composition it proves

| Theorem | States |
|---|---|
| `ServicesAreIndependent` | `ServicesSpec` implies the specification of each of the six |
| `ServicesTypesHold` | `[]ServicesTypeOK` |
| `ServicesKeepTheirBooks` | all safety properties of the components that the runs check, `PaidIsFinal` and `PaidAsPromised` among them, without the one of `Inventory` that needs an assumption |

because the service that runs makes its own steps and the others stand still; whatever
is proved of a component alone therefore holds in the run that checks all six.

### Only model-checked

`InvoicesSettle`, `QueuedIsDecided`, `CodeReachesBuyer` and `EveryFileIsChecked`: liveness under
fairness is beyond the installed provers. With
`RequireHealthy` off `OfferIsPermitted` is neither checked nor proved: it is not meant to hold.

## 5. What is not modelled

Broadcasts and follow-ups (they write notifications of other kinds), exports, product editing, admin screens, texts, the storefront's pages,
sign-in, file building, deployment: no state of the shop's money or goods of
their own, or pure input and output. `Store` has two of the four rules for banned
stock and no takeout; `Inventory` has them all. `src/storefront/src/server` is a copy
of the server's code and is not mapped a second time; with it, the user
interface and the texts of the Telegram flows make up most of the lines, and
render what the modelled rows say.

Within the modelled parts:

* core: maintenance mode, bulk prices, the choice of provider, provider-specific
  matching of amounts and transaction ids, retries of a transaction before it
  commits, notifications that carry no goods, and the repair of receipts written
  by an older version;
* inventory: the quota snapshot a healthy check stores, the move of an edited
  file to another product, duplicates found by the fingerprint of an older format,
  how a run asks for three files at a time, and files whose
  encryption key is gone (the check throws and the file stays unchecked;
  `src/PROJECT_CONTEXT.md:987` forbids changing the key);
* SMS numbers: quotes and exchange rates, the repair of orders once completed
  without a message, and the order's expiry, which only decides when SMSPool is
  asked about it singly;
* intake: what the text of a notification says and its rejection when it says
  nothing, checks of device and package, notifications the app holds back after
  a permanent error, the claims of the DANA relay, the Shopee web session as
  evidence of a top-up, and QRIS invoices from before attempts existed;
* bot: the flows that only read, render or call the core, the vault of logins
  and its reports. An answer of 5xx, or a 200 that cannot be read, counts as FAILED, as in the code
  (`redeem/handlers.ts:239`): nothing resends such a batch, and the operator is
  told;
* pollers: metrics, requests for details, the matching of recorded money with
  invoices (it enters the core as `VerifyTransfer`), and statuses of a Shopee
  session that no code sets;
* cart: what is in it, and the hour after which a stored addition is dropped
  (`Resume` may come at any time).

## 6. Running

    tlc -config StoreStock.cfg MCStore.tla        (likewise StoreMoney, QueueJump, OneInvoicePerChat)
    tlc -config DeliveryRace.cfg MCDelivery.tla   (likewise DeliveryRefund, RefundRace, TwiceDelivered)
    tlc -config Services.cfg MCServices.tla       (likewise ServicesLive)
    tlc -config SmsRefunds.cfg MCSmsPool.tla
    tlc -config LateMoneyStaysOut.cfg MCIntake.tla
    tlapm StoreProofs.tla
    tlapm StorePromiseProofs.tla
    tlapm DeliveryProofs.tla
    tlapm IntakeProofs.tla
    tlapm SmsProofs.tla
    tlapm CartProofs.tla
    tlapm InventoryProofs.tla
    tlapm ServicesProofs.tla

## 7. Plan

Every safety property that a passing run checks is a theorem, and both abstract specifications are
implemented. What is left, the most important first.

1. That `Store`'s files implement those of `Inventory`: both model the stock row, one
   for what orders do to it, the other for what checks and administrators do.
2. Stock and promise after a receipt was written behind the back of a refund: the race is
   a finding, and the theorem would say which orders it can reach.
3. Quotas and the move of an edited file to another product; the matching of what
   the pollers record with invoices; the fan-out of broadcasts.
4. Liveness of delivery under fair workers (for TLC). It can hold only where no unexpected error
   ends the last attempt (`AbandonedForGood`).
