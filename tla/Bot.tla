-------------------------------- MODULE Bot --------------------------------
(***************************************************************************)
(* Telegram updates and two of the flows they start.  Telegram delivers an *)
(* update again until it is acknowledged; the webhook claims it under a    *)
(* lease of two minutes, so a slow or crashed request is joined by a       *)
(* second one, and every flow has to bear being run twice.  The flows are  *)
(* the collection of account logins (redeem: files are uploaded to a batch *)
(* in the chat's session, one document is sent for the batch) and the      *)
(* referral program (a newcomer's first /start, the referrer's claim).     *)
(*                                                                         *)
(* One chat redeems and joins; it joined by the code of another one, whose *)
(* presses of the claim button are updates too.  A point is one reward.    *)
(***************************************************************************)
EXTENDS Naturals, FiniteSets

CONSTANTS
  Update,      \* updates of the two chats
  Runner,      \* requests the webhook works on at a time
  File,        \* accounts of the chat it can upload, one per file
  Earlier,     \* those it has uploaded if a batch is open in the beginning
  Tries,       \* 4 in the code: how often an upload is merged
  Points,      \* the referrer's points in the beginning
  BatchLimit,  \* bound: how many batches are opened
  NoUpdate     \* nothing to do

Kind == {"START", "CLAIM", "OPEN", "UPLOAD", "FINISH", "CLEAR", "CANCEL"}

ASSUME BotAssumption ==
  /\ NoUpdate \notin Update /\ Earlier \subseteq File
  /\ Tries \in Nat \ {0} /\ Points \in Nat /\ BatchLimit \in Nat \ {0}

VARIABLES
  update,    \* what each update asks for, the batch or the file it names
  row,       \* TelegramProcessedUpdate, leaseUntil > now as a Boolean
  outlived,  \* the updates one of whose requests has outlived its lease
  run,       \* what each request is doing
  session,   \* BotSession of the chat
  batches,   \* how many batches have been opened
  batch,     \* AccountRedeemBatch and its events
  copies,    \* how often Telegram accepted the document of a batch
  saved,     \* the files of which the chat was told that a batch has them
  joined,    \* ReferralAttribution rows of the newcomer
  points,    \* ReferralCode.pointBalance
  claims     \* ReferralClaim rows by the press they were made for

updateVars == <<update, row, outlived>>
redeemVars == <<batches, batch, copies, saved>>
referralVars == <<joined, points, claims>>
botVars == <<updateVars, run, session, redeemVars, referralVars>>

Batch == 1..BatchLimit

BotStep == {"IDLE", "MEET", "REMEMBER", "RESET", "JOIN", "CLAIM", "OPEN", "READ", "ADD",
            "FINISH", "TAKE", "SEND", "SENT", "UNKNOWN", "FAILED", "LEAVE", "CLEAR", "END", "FAIL"}

(* fresh: the session is still as the request read it (updatedAt).          *)
Resting == [update |-> NoUpdate, step |-> "IDLE", new |-> FALSE, fresh |-> FALSE,
            items |-> {}, tries |-> 0]

NoSession == [known |-> FALSE, open |-> FALSE, batch |-> 0, items |-> {}]

(* The chat is new, or has a batch open and has uploaded to it.             *)
BotInit ==
  /\ update = [u \in Update |-> [kind |-> "NONE", batch |-> 0, file |-> {}]]
  /\ outlived = {}
  /\ row = [u \in Update |-> [status |-> "NONE", leased |-> FALSE]]
  /\ run = [r \in Runner |-> Resting]
  /\ \/ session = NoSession /\ batches = 0
     \/ /\ session = [known |-> TRUE, open |-> TRUE, batch |-> 1, items |-> Earlier]
        /\ batches = 1
  /\ batch = [b \in Batch |-> [status |-> "NONE", events |-> {}]]
  /\ copies = [b \in Batch |-> 0]
  /\ saved = [b \in Batch |-> IF b = session.batch THEN session.items ELSE {}]
  /\ joined = 0 /\ points = Points
  /\ claims = [u \in Update |-> 0]

------------------------------------------------------------------------------
(* Steps of a request.                                                      *)

Doing(r, step) == run[r].step = step
KindOf(r) == update[run[r].update].kind
NamedBatch(r) == update[run[r].update].batch
NamedFile(r) == update[run[r].update].file

(* What a request has read is of no use after its last step.                *)
Moved(r, step) ==
  IF step \in {"END", "FAIL"} THEN [Resting EXCEPT !.update = run[r].update, !.step = step]
                              ELSE [run[r] EXCEPT !.step = step]

Proceed(r, step) == run' = [run EXCEPT ![r] = Moved(r, step)]

(* A write to the session changes its updatedAt under all who have read it. *)
WriteSession(r, step, new) ==
  /\ session' = new
  /\ run' = [q \in Runner |-> IF q = r THEN [Moved(r, step) EXCEPT !.fresh = FALSE]
                                       ELSE [run[q] EXCEPT !.fresh = FALSE]]

ClosedSession == [session EXCEPT !.open = FALSE, !.batch = 0, !.items = {}]

------------------------------------------------------------------------------
(* Telegram and the webhook.                                                *)

(* A user sends /start with the code, presses claim, opens the menu,        *)
(* uploads a file, or presses a button of a batch.                          *)
SendUpdate(u) ==
  /\ update[u].kind = "NONE"
  /\ \/ \E k \in {"START", "CLAIM", "OPEN", "CANCEL"} : update' = [update EXCEPT ![u].kind = k]
     \/ \E f \in File : update' = [update EXCEPT ![u].kind = "UPLOAD", ![u].file = {f}]
     \/ \E k \in {"FINISH", "CLEAR"}, b \in 1..batches :
          update' = [update EXCEPT ![u].kind = k, ![u].batch = b]
  /\ UNCHANGED <<row, outlived, run, session, redeemVars, referralVars>>

(* Fault: what is being worked on can be claimed at any time.               *)
ClaimableAnyway(u) == row[u].status # "COMPLETED"

Claimable(u) == row[u].status # "COMPLETED" /\ ~(row[u].status = "PROCESSING" /\ row[u].leased)

FirstStep == [START |-> "MEET", CLAIM |-> "CLAIM", OPEN |-> "OPEN", UPLOAD |-> "READ",
              FINISH |-> "FINISH", CLEAR |-> "CLEAR", CANCEL |-> "RESET"]

(* POST and claimTelegramUpdate: what cannot be claimed is acknowledged, be *)
(* it handled or only being worked on; as an acknowledgement may be lost,   *)
(* an update may come again at any time.  What the chat sends, all but      *)
(* /start, writes to its session at once (rememberTelegramUser).            *)
Deliver(r, u) ==
  /\ Doing(r, "IDLE") /\ update[u].kind # "NONE" /\ Claimable(u)
  /\ row' = [row EXCEPT ![u] = [status |-> "PROCESSING", leased |-> TRUE]]
  /\ run' = [q \in Runner |->
               IF q = r THEN [Resting EXCEPT !.update = u, !.step = FirstStep[update[u].kind]]
               ELSE [run[q] EXCEPT !.fresh = @ /\ update[u].kind \in {"START", "CLAIM"}]]
  /\ session' = [session EXCEPT !.known = @ \/ update[u].kind \notin {"START", "CLAIM"}]
  /\ UNCHANGED <<update, outlived, redeemVars, referralVars>>

(* completeTelegramUpdate, whoever has claimed the update meanwhile.        *)
EndUpdate(r) ==
  LET u == run[r].update IN
  /\ Doing(r, "END")
  /\ row' = [row EXCEPT ![u] = [status |-> "COMPLETED", leased |-> FALSE]]
  /\ run' = [run EXCEPT ![r] = Resting]
  /\ UNCHANGED <<update, outlived, session, redeemVars, referralVars>>

(* failTelegramUpdate                                                       *)
FailUpdate(r) ==
  /\ Doing(r, "FAIL")
  /\ row' = [row EXCEPT ![run[r].update] = [status |-> "FAILED", leased |-> FALSE]]
  /\ run' = [run EXCEPT ![r] = Resting]
  /\ UNCHANGED <<update, outlived, session, redeemVars, referralVars>>

FailsUpdate(r) == KindOf(r) = "START" \/ Doing(r, "END")

(* A step fails.  An error in a callback and in an upload is shown to the   *)
(* user and the update counts as handled; that of a message fails it.       *)
ThrowError(r) ==
  /\ ~Doing(r, "IDLE") /\ ~Doing(r, "FAIL")
  /\ Proceed(r, IF FailsUpdate(r) THEN "FAIL" ELSE "END")
  /\ UNCHANGED <<updateVars, session, redeemVars, referralVars>>

CrashRun(r) ==
  /\ ~Doing(r, "IDLE")
  /\ run' = [run EXCEPT ![r] = Resting]
  /\ UNCHANGED <<updateVars, session, redeemVars, referralVars>>

WorkingOn(u) == {r \in Runner : run[r].update = u}

(* Two minutes pass.                                                        *)
UpdateLeaseEnds(u) ==
  /\ row[u].leased
  /\ row' = [row EXCEPT ![u].leased = FALSE]
  /\ outlived' = IF WorkingOn(u) = {} THEN outlived ELSE outlived \cup {u}
  /\ UNCHANGED <<update, run, session, redeemVars, referralVars>>

------------------------------------------------------------------------------
(* What every update does first.                                            *)

(* handleMessage looks for the session before it makes one.                 *)
Meet(r) ==
  /\ Doing(r, "MEET")
  /\ run' = [run EXCEPT ![r].new = ~session.known, ![r].step = "REMEMBER"]
  /\ UNCHANGED <<updateVars, session, redeemVars, referralVars>>

(* rememberTelegramUser                                                     *)
Remember(r) ==
  /\ Doing(r, "REMEMBER")
  /\ WriteSession(r, "RESET", [session EXCEPT !.known = TRUE])
  /\ UNCHANGED <<updateVars, redeemVars, referralVars>>

(* clearPendingQuantity, and cancel of the redeem flow.                     *)
ResetSession(r) ==
  /\ Doing(r, "RESET")
  /\ WriteSession(r, IF KindOf(r) = "START" THEN "JOIN" ELSE "END", ClosedSession)
  /\ UNCHANGED <<updateVars, redeemVars, referralVars>>

------------------------------------------------------------------------------
(* The referral program.  Its transactions hold a lock for the chat, which  *)
(* makes each of them one step; an admin may have paused it.                *)

(* applyReferralOnFirstJoin                                                 *)
Join(r) ==
  /\ Doing(r, "JOIN")
  /\ Proceed(r, "END")
  /\ \/ /\ run[r].new /\ joined = 0
        /\ joined' = joined + 1 /\ points' = points + 1
     \/ UNCHANGED <<joined, points>>
  /\ UNCHANGED <<updateVars, session, redeemVars, claims>>

(* Fault: the claim forgets which press it was made for.                    *)
ClaimRewardAgain(r) ==
  /\ Doing(r, "CLAIM")
  /\ Proceed(r, "END")
  /\ \/ /\ points > 0
        /\ points' = points - 1
        /\ claims' = [claims EXCEPT ![run[r].update] = @ + 1]
     \/ UNCHANGED <<points, claims>>
  /\ UNCHANGED <<updateVars, session, redeemVars, joined>>

(* claimReferralReward, under the key of the press.                         *)
ClaimReward(r) ==
  /\ Doing(r, "CLAIM")
  /\ Proceed(r, "END")
  /\ \/ /\ claims[run[r].update] = 0 /\ points > 0
        /\ points' = points - 1
        /\ claims' = [claims EXCEPT ![run[r].update] = @ + 1]
     \/ UNCHANGED <<points, claims>>
  /\ UNCHANGED <<updateVars, session, redeemVars, joined>>

------------------------------------------------------------------------------
(* The redeem flow.                                                         *)

(* start, which also ends clear: a new batch replaces the session's.        *)
OpenBatch(r) ==
  /\ Doing(r, "OPEN") /\ batches < BatchLimit
  /\ batches' = batches + 1
  /\ WriteSession(r, "END", [known |-> TRUE, open |-> TRUE, batch |-> batches + 1, items |-> {}])
  /\ UNCHANGED <<updateVars, batch, copies, saved, referralVars>>

ClearBatch(r) ==
  /\ Doing(r, "CLEAR")
  /\ Proceed(r, IF session.batch = NamedBatch(r) THEN "OPEN" ELSE "END")
  /\ UNCHANGED <<updateVars, session, redeemVars, referralVars>>

(* uploadDocument, which asks for an open batch before the download too.    *)
ReadBatch(r) ==
  /\ Doing(r, "READ")
  /\ run' = IF session.open
            THEN [run EXCEPT ![r].step = "ADD", ![r].fresh = TRUE, ![r].items = session.items]
            ELSE [run EXCEPT ![r] = Moved(r, "END")]
  /\ UNCHANGED <<updateVars, session, redeemVars, referralVars>>

(* Fault: the session is written although it changed.                       *)
SessionOpen(r) == session.open

(* The conditional update of the session: still open, updatedAt the same.   *)
SessionUnchanged(r) == session.open /\ run[r].fresh

(* Fault: an upload is tried again for ever.                                *)
AddUploadForever(r) ==
  /\ Doing(r, "ADD")
  /\ \/ /\ SessionUnchanged(r)
        /\ WriteSession(r, "END", [session EXCEPT !.items = run[r].items \cup NamedFile(r)])
        /\ saved' = [saved EXCEPT ![session.batch] = @ \cup NamedFile(r)]
     \/ /\ ~SessionUnchanged(r)
        /\ run' = [run EXCEPT ![r] = [Moved(r, "READ") EXCEPT !.tries = @ + 1]]
        /\ UNCHANGED <<session, saved>>
  /\ UNCHANGED <<updateVars, batches, batch, copies, referralVars>>

(* addRedeemUpload, merged into the session or tried again.                 *)
AddUpload(r) ==
  /\ Doing(r, "ADD")
  /\ \/ /\ SessionUnchanged(r)
        /\ WriteSession(r, "END", [session EXCEPT !.items = run[r].items \cup NamedFile(r)])
        /\ saved' = [saved EXCEPT ![session.batch] = @ \cup NamedFile(r)]
     \/ /\ ~SessionUnchanged(r)
        /\ run' = [run EXCEPT ![r] =
                     IF run[r].tries + 1 < Tries
                     THEN [Moved(r, "READ") EXCEPT !.tries = @ + 1]
                     ELSE Moved(r, "END")]
        /\ UNCHANGED <<session, saved>>
  /\ UNCHANGED <<updateVars, batches, batch, copies, referralVars>>

(* finish: the named batch has to be the session's, and there has to be     *)
(* something in it that prepareRedeemOutput finds delivered to the chat and *)
(* in the vault.                                                            *)
FinishBatch(r) ==
  /\ Doing(r, "FINISH")
  /\ \/ /\ session.open /\ session.batch = NamedBatch(r)
        /\ session.items # {}
        /\ run' = [run EXCEPT ![r].step = "TAKE", ![r].items = session.items]
     \/ Proceed(r, "END")
  /\ UNCHANGED <<updateVars, session, redeemVars, referralVars>>

(* Fault: only a batch known to be sent is refused.                         *)
TakeUnsent(r) ==
  /\ Doing(r, "TAKE")
  /\ \/ /\ batch[NamedBatch(r)].status # "SENT"
        /\ batch' = [batch EXCEPT ![NamedBatch(r)].status = "PROCESSING"]
        /\ Proceed(r, "SEND")
     \/ /\ batch[NamedBatch(r)].status = "SENT"
        /\ Proceed(r, "LEAVE") /\ UNCHANGED batch
  /\ UNCHANGED <<updateVars, session, batches, copies, saved, referralVars>>

(* claimRedeemBatch: a batch is taken once.                                 *)
TakeBatch(r) ==
  /\ Doing(r, "TAKE")
  /\ \/ /\ batch[NamedBatch(r)].status = "NONE"
        /\ batch' = [batch EXCEPT ![NamedBatch(r)].status = "PROCESSING"]
        /\ Proceed(r, "SEND")
     \/ /\ batch[NamedBatch(r)].status # "NONE"
        /\ Proceed(r, "LEAVE") /\ UNCHANGED batch
  /\ UNCHANGED <<updateVars, session, batches, copies, saved, referralVars>>

(* Fault: no answer counts as success.                                      *)
SendAnswerAssumed == {<<"SENT", TRUE>>, <<"SENT", FALSE>>, <<"FAILED", TRUE>>, <<"FAILED", FALSE>>}

(* What Telegram's answer makes of the batch, and whether it took the file: *)
(* no answer says nothing, nor does the error of a gateway, which counts as *)
(* a refusal here.                                                          *)
SendAnswer == {<<"SENT", TRUE>>, <<"UNKNOWN", TRUE>>, <<"UNKNOWN", FALSE>>,
               <<"FAILED", TRUE>>, <<"FAILED", FALSE>>}

SendFile(r) ==
  /\ Doing(r, "SEND")
  /\ \E a \in SendAnswer :
       /\ Proceed(r, a[1])
       /\ copies' = IF a[2] THEN [copies EXCEPT ![NamedBatch(r)] = @ + 1] ELSE copies
  /\ UNCHANGED <<updateVars, session, batches, batch, saved, referralVars>>

(* markRedeemBatchSent, or its transaction fails.                           *)
MarkSent(r) ==
  /\ Doing(r, "SENT")
  /\ \/ /\ batch' = [batch EXCEPT ![NamedBatch(r)] = [status |-> "SENT", events |-> run[r].items]]
        /\ Proceed(r, "LEAVE")
     \/ Proceed(r, "UNKNOWN") /\ UNCHANGED batch
  /\ UNCHANGED <<updateVars, session, batches, copies, saved, referralVars>>

(* markRedeemBatchFailed                                                    *)
MarkFailed(r) ==
  /\ run[r].step \in {"UNKNOWN", "FAILED"}
  /\ batch' = [batch EXCEPT ![NamedBatch(r)].status = IF @ = "PROCESSING" THEN run[r].step ELSE @]
  /\ Proceed(r, "END")
  /\ UNCHANGED <<updateVars, session, batches, copies, saved, referralVars>>

(* The session is closed, whatever batch it has by now.                     *)
LeaveBatch(r) ==
  /\ Doing(r, "LEAVE")
  /\ WriteSession(r, "END", ClosedSession)
  /\ UNCHANGED <<updateVars, redeemVars, referralVars>>

------------------------------------------------------------------------------
RedeemStep(r) ==
  \/ OpenBatch(r) \/ ClearBatch(r) \/ ReadBatch(r) \/ AddUpload(r)
  \/ FinishBatch(r) \/ TakeBatch(r) \/ SendFile(r) \/ MarkSent(r) \/ MarkFailed(r)
  \/ LeaveBatch(r)

RunStep(r) ==
  \/ Meet(r) \/ Remember(r) \/ ResetSession(r) \/ Join(r) \/ ClaimReward(r) \/ RedeemStep(r)
  \/ EndUpdate(r) \/ FailUpdate(r) \/ ThrowError(r) \/ CrashRun(r)

BotNext ==
  \/ \E u \in Update : SendUpdate(u) \/ UpdateLeaseEnds(u)
  \/ \E r \in Runner, u \in Update : Deliver(r, u)
  \/ \E r \in Runner : RunStep(r)

BotSpec == BotInit /\ [][BotNext]_botVars

------------------------------------------------------------------------------
(* Properties.                                                              *)

(* The types of all variables.                                              *)
BotTypeOK ==
  /\ update \in [Update -> [kind : Kind \cup {"NONE"}, batch : 0..BatchLimit, file : SUBSET File]]
  /\ outlived \subseteq Update
  /\ row \in [Update -> [status : {"NONE", "PROCESSING", "COMPLETED", "FAILED"}, leased : BOOLEAN]]
  /\ run \in [Runner -> [update : Update \cup {NoUpdate}, step : BotStep, new : BOOLEAN,
                         fresh : BOOLEAN, items : SUBSET File, tries : 0..(Tries - 1)]]
  /\ session \in [known : BOOLEAN, open : BOOLEAN, batch : 0..BatchLimit, items : SUBSET File]
  /\ batches \in 0..BatchLimit
  /\ batch \in [Batch -> [status : {"NONE", "PROCESSING", "SENT", "FAILED", "UNKNOWN"},
                          events : SUBSET File]]
  /\ copies \in [Batch -> Nat] /\ saved \in [Batch -> SUBSET File]
  /\ joined \in Nat /\ points \in Nat /\ claims \in [Update -> Nat]

(* Until one of its requests outlives its lease, an update is worked on by  *)
(* one request at a time, however often it is delivered, fails or crashes.  *)
OneRunPerLease == \A u \in Update \ outlived : Cardinality(WorkingOn(u)) <= 1

(* The logins of a batch are sent at most once, although the update that    *)
(* asks for them, and the button, come more than once.                      *)
RedeemSentOnce == \A b \in Batch : copies[b] <= 1

(* What a batch that is SENT says is so: Telegram took its document, and    *)
(* the logins on record as handed out are of files uploaded to this batch,  *)
(* whichever batch the session had when they were merged or sent.           *)
RedeemRecordTrue ==
  \A b \in Batch :
    batch[b].status = "SENT" => /\ copies[b] = 1
                                /\ batch[b].events # {} /\ batch[b].events \subseteq saved[b]

(* A file of which the chat was told that it is in the batch is in it, for  *)
(* as long as the session has this batch: uploads at the same time do not   *)
(* overwrite each other.                                                    *)
SavedUploadsKept == session.open => saved[session.batch] \subseteq session.items

(* A newcomer is rewarded once, whichever requests found it new, and a      *)
(* press of the claim button pays once, however often it is handled.        *)
RewardedOnce == joined <= 1 /\ \A u \in Update : claims[u] <= 1
==============================================================================
