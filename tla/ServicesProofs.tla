--------------------------- MODULE ServicesProofs ---------------------------
(***************************************************************************)
(* Telegram updates with the redeem and referral flows and the payment     *)
(* pollers keep their promises with any number of requests, updates and    *)
(* sessions, whatever is delivered again, outlives its lease, fails or     *)
(* crashes; and whichever service runs, what is proved of it alone holds.  *)
(***************************************************************************)
EXTENDS Services, IntakeProofs, SmsProofs, CartProofs, InventoryProofs

------------------------------------------------------------------------------
(* Bot: requests and updates.                                               *)

RedeemSteps == {"TAKE", "SEND", "SENT", "UNKNOWN", "FAILED"}

(* A request works on an update that was sent, one at rest on none; the     *)
(* batch a button names has been opened, and only the button that finishes  *)
(* a batch leads to the steps that take and send it.                        *)
Requests ==
  /\ \A u \in Update :
       update[u].kind \in {"FINISH", "CLEAR"} => update[u].batch \in 1..batches
  /\ \A r \in Runner :
       /\ Doing(r, "IDLE") <=> run[r].update = NoUpdate
       /\ ~Doing(r, "IDLE") => run[r].update \in Update /\ KindOf(r) # "NONE"
       /\ run[r].step \in RedeemSteps \cup {"FINISH"} => KindOf(r) = "FINISH"

UpdateRow == [kind : Kind \cup {"NONE"}, batch : 0..BatchLimit, file : SUBSET File]
ProcessedRow == [status : {"NONE", "PROCESSING", "COMPLETED", "FAILED"}, leased : BOOLEAN]
RunRow == [update : Update \cup {NoUpdate}, step : BotStep, new : BOOLEAN,
           fresh : BOOLEAN, items : SUBSET File, tries : 0..(Tries - 1)]
SessionRow == [known : BOOLEAN, open : BOOLEAN, batch : 0..BatchLimit, items : SUBSET File]

(* Both hold at the start.                                                  *)
LEMMA BotStart == BotInit => BotTypeOK /\ Requests
<1> SUFFICES ASSUME BotInit PROVE BotTypeOK /\ Requests
  OBVIOUS
<1>1. 0 \in 0..BatchLimit /\ 1 \in 0..BatchLimit /\ 0 \in 0..(Tries - 1)
  BY BotAssumption
<1>2. session \in [known : BOOLEAN, open : BOOLEAN, batch : 0..BatchLimit, items : SUBSET File]
  <2>1. CASE session = NoSession
    BY <1>1, <2>1 DEF NoSession
  <2>2. CASE session = [known |-> TRUE, open |-> TRUE, batch |-> 1, items |-> Earlier]
    BY <1>1, <2>2, BotAssumption
  <2> QED BY <2>1, <2>2 DEF BotInit
<1>3. run \in [Runner -> RunRow]
  BY <1>1 DEF BotInit, RunRow, BotStep, Resting
<1>4. saved \in [Batch -> SUBSET File]
  BY <1>2 DEF BotInit
<1>5. BotTypeOK
  BY <1>1, <1>2, <1>3, <1>4, BotAssumption DEF BotInit, BotTypeOK, RunRow
<1>6. Requests
  BY BotAssumption DEF BotInit, Requests, Doing, Resting, RedeemSteps
<1> QED BY <1>5, <1>6

(* What a request does next is a step of the model.                         *)
LEMMA MovedTyped ==
  ASSUME BotTypeOK, NEW r \in Runner, NEW step \in BotStep
  PROVE  Moved(r, step) \in RunRow
<1>1. run[r] \in RunRow
  BY DEF BotTypeOK, RunRow
<1>2. Resting \in RunRow
  BY BotAssumption DEF RunRow, Resting, BotStep
<1>3. CASE step \in {"END", "FAIL"}
  BY <1>1, <1>2, <1>3 DEF Moved, RunRow
<1>4. CASE step \notin {"END", "FAIL"}
  BY <1>1, <1>4 DEF Moved, RunRow
<1> QED BY <1>3, <1>4

(* A step of a request is a step of the model, and so is one that writes    *)
(* the session.                                                             *)
LEMMA ProceedTyped ==
  ASSUME BotTypeOK, NEW r \in Runner, NEW step \in BotStep
  PROVE  /\ Proceed(r, step) => run' \in [Runner -> RunRow]
         /\ \A after : WriteSession(r, step, after) => run' \in [Runner -> RunRow]
<1>1. Moved(r, step) \in RunRow
  BY MovedTyped
<1>2. run \in [Runner -> RunRow]
  BY DEF BotTypeOK, RunRow
<1>3. \A row0 \in RunRow : [row0 EXCEPT !.fresh = FALSE] \in RunRow
  BY DEF RunRow
<1>4. Proceed(r, step) => run' \in [Runner -> RunRow]
  BY <1>1, <1>2 DEF Proceed
<1>5. ASSUME NEW after, WriteSession(r, step, after) PROVE run' \in [Runner -> RunRow]
  BY <1>1, <1>2, <1>3, <1>5 DEF WriteSession
<1> QED BY <1>4, <1>5

(* The types are kept by every step.                                        *)
LEMMA BotTypes == BotTypeOK /\ Requests /\ [BotNext]_botVars => BotTypeOK'
<1> SUFFICES ASSUME BotTypeOK, Requests, [BotNext]_botVars PROVE BotTypeOK'
  OBVIOUS
<1>a. /\ update \in [Update -> UpdateRow] /\ row \in [Update -> ProcessedRow]
      /\ run \in [Runner -> RunRow] /\ session \in SessionRow
  BY DEF BotTypeOK, UpdateRow, ProcessedRow, RunRow, SessionRow
<1>b. ASSUME /\ update' \in [Update -> UpdateRow] /\ row' \in [Update -> ProcessedRow]
             /\ run' \in [Runner -> RunRow] /\ session' \in SessionRow
             /\ outlived' \subseteq Update
             /\ UNCHANGED <<redeemVars, referralVars>>
      PROVE  BotTypeOK'
  BY <1>b DEF BotTypeOK, UpdateRow, ProcessedRow, RunRow, SessionRow, redeemVars, referralVars, Batch
<1>1. ASSUME NEW u \in Update, SendUpdate(u) PROVE BotTypeOK'
  <2>1. update' \in [Update -> UpdateRow]
    <3>1. CASE \E k \in {"START", "CLAIM", "OPEN", "CANCEL"} :
                 update' = [update EXCEPT ![u].kind = k]
      BY <1>a, <3>1 DEF UpdateRow, Kind
    <3>2. CASE \E f \in File :
                 update' = [update EXCEPT ![u].kind = "UPLOAD", ![u].file = {f}]
      <4>1. PICK f \in File : update' = [update EXCEPT ![u].kind = "UPLOAD", ![u].file = {f}]
        BY <3>2
      <4>2. {f} \in SUBSET File
        OBVIOUS
      <4> QED BY <1>a, <4>1, <4>2 DEF UpdateRow, Kind
    <3>3. CASE \E k \in {"FINISH", "CLEAR"}, b \in 1..batches :
                 update' = [update EXCEPT ![u].kind = k, ![u].batch = b]
      <4>1. PICK k \in {"FINISH", "CLEAR"}, b \in 1..batches :
                   update' = [update EXCEPT ![u].kind = k, ![u].batch = b]
        BY <3>3
      <4>2. b \in 0..BatchLimit
        BY BotAssumption DEF BotTypeOK
      <4> QED BY <1>a, <4>1, <4>2 DEF UpdateRow, Kind
    <3> QED BY <1>1, <3>1, <3>2, <3>3 DEF SendUpdate
  <2> QED BY <1>a, <1>b, <1>1, <2>1 DEF SendUpdate, BotTypeOK
<1>2. ASSUME NEW u \in Update, UpdateLeaseEnds(u) PROVE BotTypeOK'
  <2>1. row' \in [Update -> ProcessedRow]
    BY <1>a, <1>2 DEF UpdateLeaseEnds, ProcessedRow
  <2>2. outlived' \subseteq Update
    BY <1>2 DEF UpdateLeaseEnds, BotTypeOK
  <2> QED BY <1>a, <1>b, <1>2, <2>1, <2>2 DEF UpdateLeaseEnds
<1>3. ASSUME NEW r \in Runner, NEW u \in Update, Deliver(r, u) PROVE BotTypeOK'
  <2>1. FirstStep[update[u].kind] \in BotStep
    BY <1>3, <1>a DEF Deliver, FirstStep, Kind, BotStep, UpdateRow
  <2>2. [Resting EXCEPT !.update = u, !.step = FirstStep[update[u].kind]] \in RunRow
    <3>1. 0 \in 0..(Tries - 1)
      BY BotAssumption
    <3> QED BY <2>1, <3>1 DEF RunRow, Resting
  <2>3. \A q \in Runner : [run[q] EXCEPT !.fresh = @ /\ update[u].kind \in {"START", "CLAIM"}]
                            \in RunRow
    BY <1>a DEF RunRow
  <2>4. run' \in [Runner -> RunRow]
    BY <1>3, <2>2, <2>3 DEF Deliver
  <2>5. row' \in [Update -> ProcessedRow]
    BY <1>a, <1>3 DEF Deliver, ProcessedRow
  <2>6. session' \in SessionRow
    BY <1>a, <1>3 DEF Deliver, SessionRow
  <2> QED BY <1>a, <1>b, <1>3, <2>4, <2>5, <2>6 DEF Deliver, BotTypeOK
<1>c. \A r \in Runner, step \in BotStep : Moved(r, step) \in RunRow
  BY MovedTyped
<1>d. \A r \in Runner, step \in BotStep : \A after :
        Proceed(r, step) \/ WriteSession(r, step, after) => run' \in [Runner -> RunRow]
  BY ProceedTyped
<1>e. ClosedSession \in SessionRow
  <2>1. 0 \in 0..BatchLimit
    BY BotAssumption
  <2> QED BY <1>a, <2>1 DEF ClosedSession, SessionRow
<1>f. \A r \in Runner : ~Doing(r, "IDLE") => run[r].update \in Update
  BY DEF Requests
<1> USE DEF BotStep
<1>4. ASSUME NEW r \in Runner, Meet(r) \/ Remember(r) \/ ResetSession(r) PROVE BotTypeOK'
  <2>1. CASE Meet(r)
    <3>1. run' \in [Runner -> RunRow]
      <4>1. \A known \in BOOLEAN : [run[r] EXCEPT !.new = known, !.step = "REMEMBER"] \in RunRow
        BY <1>a DEF RunRow
      <4>2. run' = [run EXCEPT ![r] = [run[r] EXCEPT !.new = ~session.known, !.step = "REMEMBER"]]
        BY <1>a, <2>1 DEF Meet
      <4>3. (~session.known) \in BOOLEAN
        OBVIOUS
      <4> QED BY <1>a, <4>1, <4>2, <4>3
    <3> QED BY <1>a, <1>b, <2>1, <3>1 DEF Meet, updateVars, BotTypeOK
  <2>2. CASE Remember(r)
    <3>1. session' \in SessionRow
      BY <1>a, <2>2 DEF Remember, WriteSession, SessionRow
    <3> QED BY <1>a, <1>b, <1>d, <2>2, <3>1 DEF Remember, updateVars, BotTypeOK
  <2>3. CASE ResetSession(r)
    BY <1>a, <1>b, <1>d, <1>e, <2>3 DEF ResetSession, WriteSession, updateVars, BotTypeOK
  <2> QED BY <1>4, <2>1, <2>2, <2>3
<1>5. ASSUME NEW r \in Runner, Join(r) \/ ClaimReward(r) PROVE BotTypeOK'
  <2>1. run' \in [Runner -> RunRow]
    BY <1>d, <1>5 DEF Join, ClaimReward
  <2>2. joined' \in Nat /\ points' \in Nat /\ claims' \in [Update -> Nat]
    BY <1>5, <1>f DEF Join, ClaimReward, BotTypeOK
  <2> QED BY <1>a, <1>5, <2>1, <2>2
          DEF Join, ClaimReward, BotTypeOK, updateVars, redeemVars, RunRow, Batch
<1>6. ASSUME NEW r \in Runner, OpenBatch(r) PROVE BotTypeOK'
  <2>1. batches' \in 0..BatchLimit
    BY <1>6, BotAssumption DEF OpenBatch, BotTypeOK
  <2>2. session' \in SessionRow
    BY <1>6, <2>1 DEF OpenBatch, WriteSession, SessionRow
  <2>3. run' \in [Runner -> RunRow]
    BY <1>d, <1>6 DEF OpenBatch
  <2> QED BY <1>a, <1>6, <2>1, <2>2, <2>3
          DEF OpenBatch, BotTypeOK, updateVars, referralVars, RunRow, SessionRow, Batch
<1>7. ASSUME NEW r \in Runner, ClearBatch(r) \/ ReadBatch(r) PROVE BotTypeOK'
  <2>1. CASE ClearBatch(r)
    BY <1>a, <1>b, <1>d, <2>1 DEF ClearBatch, updateVars, BotTypeOK
  <2>2. CASE ReadBatch(r)
    <3>1. [run EXCEPT ![r].step = "ADD", ![r].fresh = TRUE, ![r].items = session.items]
            \in [Runner -> RunRow]
      <4>1. \A items \in SUBSET File :
              [run[r] EXCEPT !.step = "ADD", !.fresh = TRUE, !.items = items] \in RunRow
        BY <1>a DEF RunRow
      <4> QED BY <1>a, <4>1 DEF SessionRow
    <3>2. [run EXCEPT ![r] = Moved(r, "END")] \in [Runner -> RunRow]
      BY <1>a, <1>c
    <3> QED BY <1>a, <1>b, <2>2, <3>1, <3>2 DEF ReadBatch, updateVars, BotTypeOK
  <2> QED BY <1>7, <2>1, <2>2
<1>8. ASSUME NEW r \in Runner, AddUpload(r) PROVE BotTypeOK'
  <2>1. NamedFile(r) \subseteq File
    BY <1>8, <1>f, <1>a DEF AddUpload, NamedFile, Doing, UpdateRow
  <2>2. CASE SessionUnchanged(r)
    <3>1. session' \in SessionRow
      BY <1>a, <1>8, <2>1, <2>2 DEF AddUpload, WriteSession, SessionRow, RunRow
    <3>2. saved' \in [Batch -> SUBSET File]
      BY <1>8, <2>1, <2>2 DEF AddUpload, BotTypeOK
    <3> QED BY <1>a, <1>d, <1>8, <2>2, <3>1, <3>2
            DEF AddUpload, BotTypeOK, updateVars, referralVars, RunRow, SessionRow, Batch
  <2>3. CASE ~SessionUnchanged(r)
    <3>1. Moved(r, "READ") \in RunRow /\ Moved(r, "END") \in RunRow
      BY <1>c
    <3>2. ASSUME run[r].tries + 1 < Tries
          PROVE  [Moved(r, "READ") EXCEPT !.tries = @ + 1] \in RunRow
      <4>1. Moved(r, "READ").tries = run[r].tries
        BY DEF Moved
      <4>2. run[r].tries \in Nat /\ run[r].tries + 1 \in 0..(Tries - 1)
        BY <1>a, <3>2, BotAssumption DEF RunRow
      <4> QED BY <3>1, <4>1, <4>2 DEF RunRow
    <3>3. run' \in [Runner -> RunRow]
      BY <1>a, <1>8, <2>3, <3>1, <3>2 DEF AddUpload
    <3> QED BY <1>a, <1>b, <1>8, <2>3, <3>3
            DEF AddUpload, updateVars, redeemVars, BotTypeOK
  <2> QED BY <2>2, <2>3
<1>9. ASSUME NEW r \in Runner, FinishBatch(r) \/ LeaveBatch(r) PROVE BotTypeOK'
  <2>1. [run EXCEPT ![r].step = "TAKE", ![r].items = session.items] \in [Runner -> RunRow]
    <3>1. \A items \in SUBSET File :
            [run[r] EXCEPT !.step = "TAKE", !.items = items] \in RunRow
      BY <1>a DEF RunRow
    <3> QED BY <1>a, <3>1 DEF SessionRow
  <2>2. run' \in [Runner -> RunRow]
    BY <1>d, <1>9, <2>1 DEF FinishBatch, LeaveBatch
  <2>3. session' \in SessionRow
    BY <1>a, <1>e, <1>9 DEF FinishBatch, LeaveBatch, WriteSession
  <2> QED BY <1>a, <1>b, <1>9, <2>2, <2>3 DEF FinishBatch, LeaveBatch, updateVars, BotTypeOK
<1>10. ASSUME NEW r \in Runner, TakeBatch(r) \/ SendFile(r) \/ MarkSent(r) \/ MarkFailed(r)
       PROVE BotTypeOK'
  <2>1. run' \in [Runner -> RunRow]
    BY <1>d, <1>10 DEF TakeBatch, SendFile, SendAnswer, MarkSent, MarkFailed
  <2>2. copies' \in [Batch -> Nat]
    BY <1>10 DEF TakeBatch, SendFile, MarkSent, MarkFailed, BotTypeOK
  <2>3. batch' \in [Batch -> [status : {"NONE", "PROCESSING", "SENT", "FAILED", "UNKNOWN"},
                              events : SUBSET File]]
    <3>1. CASE TakeBatch(r) \/ SendFile(r)
      <4>1. batch' = batch
              \/ batch' = [batch EXCEPT ![NamedBatch(r)].status = "PROCESSING"]
        BY <3>1 DEF TakeBatch, SendFile
      <4>2. CASE batch' = batch
        BY <4>2 DEF BotTypeOK
      <4>3. CASE batch' = [batch EXCEPT ![NamedBatch(r)].status = "PROCESSING"]
        BY <4>3 DEF BotTypeOK
      <4> QED BY <4>1, <4>2, <4>3
    <3>2. CASE MarkSent(r)
      BY <1>a, <3>2 DEF MarkSent, BotTypeOK, RunRow
    <3>3. CASE MarkFailed(r)
      <4> DEFINE b == NamedBatch(r)
                 s == IF batch[b].status = "PROCESSING" THEN run[r].step ELSE batch[b].status
      <4>1. batch' = [batch EXCEPT ![b].status = s]
        BY <3>3 DEF MarkFailed
      <4>2. CASE b \in Batch
        <5>1. s \in {"NONE", "PROCESSING", "SENT", "FAILED", "UNKNOWN"}
          BY <3>3, <4>2 DEF MarkFailed, BotTypeOK
        <5> HIDE DEF s, b
        <5> QED BY <4>1, <4>2, <5>1 DEF BotTypeOK
      <4>3. CASE b \notin Batch
        <5> HIDE DEF s, b
        <5>1. DOMAIN batch = Batch
          BY DEF BotTypeOK
        <5>2. batch' = batch
          BY <4>1, <4>3, <5>1 DEF BotTypeOK
        <5> QED BY <5>2 DEF BotTypeOK
      <4> QED BY <4>2, <4>3
    <3> QED BY <1>10, <3>1, <3>2, <3>3
  <2> QED BY <1>a, <1>10, <2>1, <2>2, <2>3
          DEF TakeBatch, SendFile, MarkSent, MarkFailed, BotTypeOK, updateVars, referralVars,
              RunRow, Batch
<1>11. ASSUME NEW r \in Runner, EndUpdate(r) \/ FailUpdate(r) PROVE BotTypeOK'
  <2>1. Resting \in RunRow
    BY BotAssumption DEF RunRow, Resting
  <2>2. row' \in [Update -> ProcessedRow]
    <3>1. \A u, s \in {"COMPLETED", "FAILED"} :
            [row EXCEPT ![u] = [status |-> s, leased |-> FALSE]] \in [Update -> ProcessedRow]
      BY <1>a DEF ProcessedRow
    <3> QED BY <1>11, <3>1 DEF EndUpdate, FailUpdate
  <2> QED BY <1>a, <1>b, <1>11, <2>1, <2>2 DEF EndUpdate, FailUpdate, BotTypeOK
<1>12. ASSUME NEW r \in Runner, ThrowError(r) \/ CrashRun(r) PROVE BotTypeOK'
  <2>1. Resting \in RunRow
    BY BotAssumption DEF RunRow, Resting
  <2>2. run' \in [Runner -> RunRow]
    BY <1>a, <1>d, <1>12, <2>1 DEF ThrowError, CrashRun
  <2> QED BY <1>a, <1>b, <1>12, <2>2 DEF ThrowError, CrashRun, updateVars, BotTypeOK
<1>13. CASE UNCHANGED botVars
  BY <1>13 DEF botVars, BotTypeOK, updateVars, redeemVars, referralVars, Batch
<1> QED
  BY <1>1, <1>2, <1>3, <1>4, <1>5, <1>6, <1>7, <1>8, <1>9, <1>10, <1>11, <1>12, <1>13
  DEF BotNext, RunStep, RedeemStep

(* A step of a request leaves the others where they are, and at most makes  *)
(* what they have read old; it goes on with its own update, or rests, and   *)
(* only from the button that finishes a batch does it come to send one.     *)
SameRequest(q) ==
  /\ run'[q].update = run[q].update /\ run'[q].step = run[q].step
  /\ run'[q].items = run[q].items /\ (run'[q].fresh => run[q].fresh)

Continued(r) ==
  /\ run'[r].step = "IDLE" => run'[r].update = NoUpdate
  /\ run'[r].step # "IDLE" => run'[r].update = run[r].update
  /\ run'[r].step \in RedeemSteps => run[r].step \in RedeemSteps \cup {"FINISH"}
  /\ run'[r].step # "FINISH"

RequestStep(r) ==
  /\ ~Doing(r, "IDLE") /\ Continued(r)
  /\ \A q \in Runner \ {r} : SameRequest(q)

(* The same of the two ways in which a request moves on.                    *)
LEMMA Moves ==
  ASSUME BotTypeOK, NEW r \in Runner, ~Doing(r, "IDLE"),
         NEW step \in BotStep \ {"IDLE", "FINISH"},
         step \in RedeemSteps => run[r].step \in RedeemSteps \cup {"FINISH"}
  PROVE  /\ Proceed(r, step) => RequestStep(r) /\ run'[r].step = step
         /\ \A after : WriteSession(r, step, after) => RequestStep(r) /\ run'[r].step = step
<1> USE DEF RequestStep, SameRequest, Continued
<1>1. run \in [Runner -> RunRow]
  BY DEF BotTypeOK, RunRow
<1>2. Moved(r, step) \in RunRow
  BY MovedTyped
<1>3. Moved(r, step).update = run[r].update /\ Moved(r, step).step = step
  BY <1>1 DEF Moved, Resting, RunRow
<1>4. ASSUME Proceed(r, step) PROVE RequestStep(r) /\ run'[r].step = step
  <2>1. run'[r] = Moved(r, step) /\ \A q \in Runner \ {r} : run'[q] = run[q]
    BY <1>1, <1>4 DEF Proceed
  <2> QED BY <1>3, <2>1
<1>5. ASSUME NEW after, WriteSession(r, step, after) PROVE RequestStep(r) /\ run'[r].step = step
  <2>1. run'[r] = [Moved(r, step) EXCEPT !.fresh = FALSE]
    BY <1>5 DEF WriteSession
  <2>2. \A q \in Runner \ {r} : run'[q] = [run[q] EXCEPT !.fresh = FALSE]
    BY <1>5 DEF WriteSession
  <2>3. run'[r].update = run[r].update /\ run'[r].step = step
    BY <1>2, <1>3, <2>1 DEF RunRow
  <2>4. ASSUME NEW q \in Runner \ {r} PROVE SameRequest(q)
    <3>1. run[q] \in RunRow /\ run'[q] = [run[q] EXCEPT !.fresh = FALSE]
      BY <1>1, <2>2
    <3>2. run'[q].fresh = FALSE
      BY <3>1 DEF RunRow
    <3> QED BY <3>1, <3>2 DEF RunRow
  <2> QED BY <2>3, <2>4
<1> QED BY <1>4, <1>5

(* What an answer of Telegram makes of a request.                           *)
LEMMA AnswersTyped ==
  ASSUME NEW a \in SendAnswer
  PROVE  a[1] \in {"SENT", "UNKNOWN", "FAILED"} /\ (a[1] = "SENT" => a[2])
<1>1. CASE a = <<"SENT", TRUE>>
  BY <1>1
<1>2. CASE a = <<"UNKNOWN", TRUE>>
  BY <1>2
<1>3. CASE a = <<"UNKNOWN", FALSE>>
  BY <1>3
<1>4. CASE a = <<"FAILED", TRUE>>
  BY <1>4
<1>5. CASE a = <<"FAILED", FALSE>>
  BY <1>5
<1> QED BY <1>1, <1>2, <1>3, <1>4, <1>5 DEF SendAnswer

(* Whatever step a request makes.                                           *)
LEMMA RunSteps ==
  ASSUME BotTypeOK, NEW r \in Runner, RunStep(r)
  PROVE  RequestStep(r) /\ update' = update
<1> USE DEF BotStep, RedeemSteps, Doing
<1>1. run \in [Runner -> RunRow]
  BY DEF BotTypeOK, RunRow
<1>2. \A step \in BotStep \ {"IDLE", "FINISH"} :
        /\ ~Doing(r, "IDLE")
        /\ step \in RedeemSteps => run[r].step \in RedeemSteps \cup {"FINISH"}
        => /\ Proceed(r, step) => RequestStep(r)
           /\ \A after : WriteSession(r, step, after) => RequestStep(r)
  BY Moves
<1>3. update' = update
  BY DEF RunStep, RedeemStep, Meet, Remember, ResetSession, Join, ClaimReward, OpenBatch,
         ClearBatch, ReadBatch, AddUpload, FinishBatch, TakeBatch, SendFile, MarkSent, MarkFailed,
         LeaveBatch, EndUpdate, FailUpdate, ThrowError, CrashRun, updateVars
<1>4. ASSUME Remember(r) \/ ResetSession(r) \/ Join(r) \/ ClaimReward(r) PROVE RequestStep(r)
  BY <1>2, <1>4 DEF Remember, ResetSession, Join, ClaimReward
<1>5. ASSUME OpenBatch(r) \/ ClearBatch(r) \/ LeaveBatch(r) \/ ThrowError(r) PROVE RequestStep(r)
  BY <1>2, <1>5 DEF OpenBatch, ClearBatch, LeaveBatch, ThrowError
<1>6. ASSUME TakeBatch(r) \/ MarkSent(r) \/ MarkFailed(r) PROVE RequestStep(r)
  BY <1>2, <1>6 DEF TakeBatch, MarkSent, MarkFailed
<1>7. ASSUME SendFile(r) PROVE RequestStep(r)
  <2>1. PICK a \in SendAnswer : Proceed(r, a[1])
    BY <1>7 DEF SendFile
  <2>2. a[1] \in {"SENT", "UNKNOWN", "FAILED"}
    BY AnswersTyped
  <2> QED BY <1>2, <1>7, <2>1, <2>2 DEF SendFile
<1>8. ASSUME EndUpdate(r) \/ FailUpdate(r) \/ CrashRun(r) PROVE RequestStep(r)
  BY <1>1, <1>8
  DEF EndUpdate, FailUpdate, CrashRun, RequestStep, SameRequest, Continued, Resting
<1>9. ASSUME Meet(r) PROVE RequestStep(r)
  BY <1>1, <1>9 DEF Meet, RequestStep, SameRequest, Continued, RunRow
<1>10. ASSUME ReadBatch(r) PROVE RequestStep(r)
  <2>1. CASE session.open
    BY <1>1, <1>10, <2>1 DEF ReadBatch, RequestStep, SameRequest, Continued, RunRow
  <2>2. CASE ~session.open
    BY <1>2, <1>10, <2>2 DEF ReadBatch, Proceed
  <2> QED BY <2>1, <2>2
<1>11. ASSUME AddUpload(r) PROVE RequestStep(r)
  <2>1. CASE SessionUnchanged(r)
    BY <1>2, <1>11, <2>1 DEF AddUpload
  <2>2. CASE ~SessionUnchanged(r) /\ run[r].tries + 1 < Tries
    <3>1. run' = [run EXCEPT ![r] = [Moved(r, "READ") EXCEPT !.tries = @ + 1]]
      BY <1>11, <2>2 DEF AddUpload
    <3> QED BY <1>1, <1>11, <3>1
            DEF AddUpload, RequestStep, SameRequest, Continued, RunRow, Moved
  <2>3. CASE ~SessionUnchanged(r) /\ ~(run[r].tries + 1 < Tries)
    BY <1>2, <1>11, <2>3 DEF AddUpload, Proceed
  <2> QED BY <2>1, <2>2, <2>3
<1>12. ASSUME FinishBatch(r) PROVE RequestStep(r)
  <2>1. CASE Proceed(r, "END")
    BY <1>2, <1>12, <2>1 DEF FinishBatch
  <2>2. CASE run' = [run EXCEPT ![r].step = "TAKE", ![r].items = session.items]
    BY <1>1, <1>12, <2>2 DEF FinishBatch, RequestStep, SameRequest, Continued, RunRow
  <2> QED BY <1>12, <2>1, <2>2 DEF FinishBatch
<1> QED
  BY <1>3, <1>4, <1>5, <1>6, <1>7, <1>8, <1>9, <1>10, <1>11, <1>12 DEF RunStep, RedeemStep

(* Requests is kept by every step.                                          *)
LEMMA RequestsStep == BotTypeOK /\ Requests /\ [BotNext]_botVars => Requests'
<1> SUFFICES ASSUME BotTypeOK, Requests, [BotNext]_botVars PROVE Requests'
  OBVIOUS
<1> USE BotAssumption DEF Requests, Doing, KindOf, RedeemSteps
<1>1. run \in [Runner -> RunRow] /\ update \in [Update -> UpdateRow] /\ batches \in Nat
  BY DEF BotTypeOK, RunRow, UpdateRow
<1>2. ASSUME NEW u \in Update, SendUpdate(u) PROVE Requests'
  <2>1. run' = run /\ batches' = batches
    BY <1>2 DEF SendUpdate, redeemVars
  <2>2. update'[u].kind # "NONE"
        /\ (update'[u].kind \in {"FINISH", "CLEAR"} => update'[u].batch \in 1..batches)
    BY <1>1, <1>2 DEF SendUpdate, UpdateRow
  <2>3. \A v \in Update \ {u} : update'[v] = update[v]
    BY <1>1, <1>2 DEF SendUpdate
  <2>4. \A r \in Runner : run[r].update # u
    BY <1>1, <1>2 DEF SendUpdate, RunRow
  <2> QED BY <1>1, <2>1, <2>2, <2>3, <2>4
<1>3. ASSUME NEW u \in Update, UpdateLeaseEnds(u) PROVE Requests'
  BY <1>3 DEF UpdateLeaseEnds, redeemVars
<1>4. ASSUME NEW r \in Runner, NEW u \in Update, Deliver(r, u) PROVE Requests'
  <2>1. update' = update /\ batches' = batches
    BY <1>4 DEF Deliver, redeemVars
  <2>2. run'[r].update = u /\ run'[r].step = FirstStep[update[u].kind]
    BY <1>4 DEF Deliver, Resting
  <2>3. \A q \in Runner \ {r} : run'[q].update = run[q].update /\ run'[q].step = run[q].step
    BY <1>1, <1>4 DEF Deliver, RunRow
  <2>4. /\ FirstStep[update[u].kind] # "IDLE"
        /\ FirstStep[update[u].kind] \notin RedeemSteps
        /\ FirstStep[update[u].kind] = "FINISH" => update[u].kind = "FINISH"
    BY <1>1, <1>4 DEF Deliver, FirstStep, UpdateRow, Kind
  <2>5. update[u].kind # "NONE"
    BY <1>4 DEF Deliver
  <2> QED BY <2>1, <2>2, <2>3, <2>4, <2>5
<1>5. ASSUME NEW r \in Runner, RunStep(r) PROVE Requests'
  <2>1. RequestStep(r) /\ update' = update
    BY <1>5, RunSteps
  <2>2. batches' \in Nat /\ batches' >= batches
    BY <1>1, <1>5
    DEF RunStep, RedeemStep, Meet, Remember, ResetSession, Join, ClaimReward, OpenBatch,
        ClearBatch, ReadBatch, AddUpload, FinishBatch, TakeBatch, SendFile, MarkSent, MarkFailed,
        LeaveBatch, EndUpdate, FailUpdate, ThrowError, CrashRun, redeemVars
  <2> QED BY <1>1, <2>1, <2>2 DEF RequestStep, Continued, SameRequest
<1>6. CASE UNCHANGED botVars
  BY <1>6 DEF botVars, updateVars, redeemVars
<1> QED BY <1>2, <1>3, <1>4, <1>5, <1>6 DEF BotNext

------------------------------------------------------------------------------
(* Bot: rewards and leases.                                                 *)

(* A request works on an update only under its lease, and alone, unless one *)
(* of its requests has outlived the lease.                                  *)
Leased ==
  \A u \in Update \ outlived, r \in Runner :
    run[r].update = u => /\ row[u].status = "PROCESSING" /\ row[u].leased
                         /\ \A q \in Runner : run[q].update = u => q = r

(* No request works on anything at the start, and nobody has been rewarded. *)
LEMMA LeasedStart == BotInit => Leased /\ RewardedOnce
BY BotAssumption DEF BotInit, Leased, RewardedOnce, Resting

(* Leased is kept by every step: an update is claimed for a new request     *)
(* only if its lease is over, which its earlier request has then outlived.  *)
LEMMA LeasedStep == BotTypeOK /\ Requests /\ Leased /\ [BotNext]_botVars => Leased'
<1> SUFFICES ASSUME BotTypeOK, Requests, Leased, [BotNext]_botVars PROVE Leased'
  OBVIOUS
<1> USE BotAssumption DEF Leased
<1>1. run \in [Runner -> RunRow] /\ row \in [Update -> ProcessedRow]
  BY DEF BotTypeOK, RunRow, ProcessedRow
<1>2. ASSUME NEW u \in Update, SendUpdate(u) PROVE Leased'
  BY <1>2 DEF SendUpdate
<1>3. ASSUME NEW u \in Update, UpdateLeaseEnds(u) PROVE Leased'
  <2>1. run' = run /\ outlived \subseteq outlived'
        /\ \A v \in Update \ {u} : row'[v] = row[v]
    BY <1>1, <1>3 DEF UpdateLeaseEnds
  <2>2. u \notin outlived' => WorkingOn(u) = {}
    BY <1>3 DEF UpdateLeaseEnds
  <2> QED BY <2>1, <2>2 DEF WorkingOn
<1>4. ASSUME NEW r \in Runner, NEW u \in Update, Deliver(r, u) PROVE Leased'
  <2>1. outlived' = outlived /\ run[r].update = NoUpdate /\ Claimable(u)
    BY <1>4 DEF Deliver, Requests
  <2>2. run'[r].update = u
    BY <1>1, <1>4 DEF Deliver, Resting
  <2>3. \A q \in Runner \ {r} : run'[q].update = run[q].update
    BY <1>1, <1>4 DEF Deliver, RunRow
  <2>4. row'[u].status = "PROCESSING" /\ row'[u].leased
        /\ \A v \in Update \ {u} : row'[v] = row[v]
    BY <1>1, <1>4 DEF Deliver
  <2>5. u \notin outlived => \A q \in Runner : run[q].update # u
    BY <2>1 DEF Claimable
  <2> QED BY <2>1, <2>2, <2>3, <2>4, <2>5
<1>5. ASSUME NEW r \in Runner, RunStep(r) PROVE Leased'
  <2>1. /\ \A q \in Runner \ {r} : run'[q].update = run[q].update
        /\ run'[r].update \in {NoUpdate, run[r].update}
    BY <1>5, RunSteps DEF RequestStep, SameRequest, Continued
  <2>2. CASE EndUpdate(r) \/ FailUpdate(r)
    <3>1. outlived' = outlived /\ run'[r].update = NoUpdate
      BY <1>1, <2>2 DEF EndUpdate, FailUpdate, Resting
    <3>2. \A v \in Update \ {run[r].update} : row'[v] = row[v]
      BY <1>1, <2>2 DEF EndUpdate, FailUpdate
    <3> QED BY <2>1, <3>1, <3>2
  <2>3. CASE ~(EndUpdate(r) \/ FailUpdate(r))
    <3>1. outlived' = outlived /\ row' = row
      BY <1>5, <2>3
      DEF RunStep, RedeemStep, Meet, Remember, ResetSession, Join, ClaimReward, OpenBatch,
          ClearBatch, ReadBatch, AddUpload, FinishBatch, TakeBatch, SendFile, MarkSent,
          MarkFailed, LeaveBatch, ThrowError, CrashRun, updateVars
    <3> QED BY <2>1, <3>1
  <2> QED BY <2>2, <2>3
<1>6. CASE UNCHANGED botVars
  BY <1>6 DEF botVars, updateVars
<1> QED BY <1>2, <1>3, <1>4, <1>5, <1>6 DEF BotNext

(* One of its requests at most works on such an update.                     *)
LEMMA LeasedMeans == BotTypeOK /\ Leased => OneRunPerLease
<1> SUFFICES ASSUME Leased, NEW u \in Update \ outlived PROVE Cardinality(WorkingOn(u)) <= 1
  BY DEF OneRunPerLease
<1>1. CASE WorkingOn(u) = {}
  BY <1>1, FS_EmptySet
<1>2. ASSUME NEW r \in WorkingOn(u) PROVE Cardinality(WorkingOn(u)) <= 1
  <2>1. WorkingOn(u) = {r}
    BY <1>2 DEF WorkingOn, Leased
  <2> QED BY <2>1, FS_Singleton
<1> QED BY <1>1, <1>2

(* Rewards are given and points claimed once.                               *)
LEMMA RewardStep == BotTypeOK /\ RewardedOnce /\ [BotNext]_botVars => RewardedOnce'
<1> SUFFICES ASSUME BotTypeOK, RewardedOnce, [BotNext]_botVars PROVE RewardedOnce'
  OBVIOUS
<1> USE DEF RewardedOnce
<1>1. joined \in Nat /\ claims \in [Update -> Nat]
  BY DEF BotTypeOK
<1>2. ASSUME NEW r \in Runner, Join(r) PROVE RewardedOnce'
  BY <1>1, <1>2 DEF Join
<1>3. ASSUME NEW r \in Runner, ClaimReward(r) PROVE RewardedOnce'
  BY <1>1, <1>3 DEF ClaimReward
<1>4. ASSUME UNCHANGED <<joined, claims>> PROVE RewardedOnce'
  BY <1>4
<1>5. ASSUME NEW r \in Runner, RunStep(r), ~Join(r), ~ClaimReward(r) PROVE RewardedOnce'
  BY <1>4, <1>5
  DEF RunStep, RedeemStep, Meet, Remember, ResetSession, OpenBatch, ClearBatch, ReadBatch,
      AddUpload, FinishBatch, TakeBatch, SendFile, MarkSent, MarkFailed, LeaveBatch, EndUpdate,
      FailUpdate, ThrowError, CrashRun, referralVars
<1>6. ASSUME NEW u \in Update, SendUpdate(u) \/ UpdateLeaseEnds(u) PROVE RewardedOnce'
  BY <1>4, <1>6 DEF SendUpdate, UpdateLeaseEnds, referralVars
<1>7. ASSUME NEW r \in Runner, NEW u \in Update, Deliver(r, u) PROVE RewardedOnce'
  BY <1>4, <1>7 DEF Deliver, referralVars
<1>8. CASE UNCHANGED botVars
  BY <1>4, <1>8 DEF botVars, referralVars
<1> QED BY <1>2, <1>3, <1>5, <1>6, <1>7, <1>8 DEF BotNext

------------------------------------------------------------------------------
(* Bot: redeemed batches.                                                   *)

(* A request that has taken a batch, and has not yet put down how it went.  *)
Holds(r) == run[r].step \in {"SEND", "SENT", "UNKNOWN", "FAILED"}

(* A batch is held by one request at most, and once taken never again free; *)
(* its document is sent by the one that took it, which knows what became of *)
(* it.                                                                      *)
TakenOnce ==
  /\ \A r \in Runner :
       /\ Holds(r) => /\ batch[NamedBatch(r)].status # "NONE"
                      /\ \A q \in Runner : Holds(q) /\ NamedBatch(q) = NamedBatch(r) => q = r
       /\ Doing(r, "SEND") => copies[NamedBatch(r)] = 0
       /\ Doing(r, "SENT") => copies[NamedBatch(r)] = 1
  /\ \A b \in Batch : copies[b] # 0 => copies[b] = 1 /\ batch[b].status # "NONE"

(* The open session has the files saved to its batch, and a request that    *)
(* adds one has read them if it can write; no batch is saved to before it   *)
(* is opened.                                                               *)
SessionHasSaved ==
  /\ session.open => /\ session.batch \in 1..batches
                     /\ session.items = saved[session.batch]
  /\ \A r \in Runner : Doing(r, "ADD") /\ run[r].fresh => run[r].items = session.items
  /\ \A b \in Batch : b > batches => saved[b] = {}

(* What is sent, and recorded as sent, was saved to the batch it is sent    *)
(* for.                                                                     *)
SentWasSaved ==
  /\ \A r \in Runner : run[r].step \in {"TAKE", "SEND", "SENT"} =>
                         run[r].items # {} /\ run[r].items \subseteq saved[NamedBatch(r)]
  /\ RedeemRecordTrue

BatchRow == [status : {"NONE", "PROCESSING", "SENT", "FAILED", "UNKNOWN"}, events : SUBSET File]

(* A batch that may be open may have been saved to, and nothing was sent.   *)
LEMMA RedeemStart == BotInit => TakenOnce /\ SessionHasSaved /\ SentWasSaved
<1> SUFFICES ASSUME BotInit PROVE TakenOnce /\ SessionHasSaved /\ SentWasSaved
  OBVIOUS
<1>1. \A r \in Runner : run[r].step = "IDLE"
  BY DEF BotInit, Resting
<1>2. \A b \in Batch : copies[b] = 0 /\ batch[b].status = "NONE"
  BY DEF BotInit
<1>3. TakenOnce /\ SentWasSaved
  BY <1>1, <1>2 DEF TakenOnce, SentWasSaved, Holds, Doing, RedeemRecordTrue
<1>7. \A r \in Runner : ~Doing(r, "ADD")
  BY <1>1 DEF Doing
<1>6. saved = [b \in Batch |-> IF b = session.batch THEN session.items ELSE {}]
  BY DEF BotInit
<1>4. CASE session = NoSession /\ batches = 0
  <2>1. session.batch = 0 /\ session.open = FALSE
    BY <1>4 DEF NoSession
  <2>2. \A b \in Batch : saved[b] = {}
    BY <1>6, <2>1 DEF Batch
  <2> QED BY <1>3, <1>7, <2>1, <2>2 DEF SessionHasSaved
<1>5. CASE /\ session = [known |-> TRUE, open |-> TRUE, batch |-> 1, items |-> Earlier]
           /\ batches = 1
  <2>1. 1 \in Batch /\ session.batch = 1
    BY <1>5, BotAssumption DEF Batch
  <2>2. saved[1] = session.items /\ \A b \in Batch : b > 1 => saved[b] = {}
    BY <1>6, <2>1 DEF Batch
  <2>3. batches = 1 /\ 1 \in 1..batches
    BY <1>5
  <2> QED BY <1>3, <1>7, <2>1, <2>2, <2>3 DEF SessionHasSaved
<1> QED BY <1>3, <1>4, <1>5 DEF BotInit

(* The batch that a request takes or sends is one.                          *)
LEMMA NamesBatch ==
  ASSUME BotTypeOK, Requests, NEW r \in Runner, run[r].step \in RedeemSteps \cup {"FINISH"}
  PROVE  NamedBatch(r) \in Batch
<1>1. KindOf(r) = "FINISH" /\ run[r].update \in Update
  BY DEF Requests, Doing, RedeemSteps
<1> QED BY <1>1, BotAssumption DEF Requests, KindOf, NamedBatch, BotTypeOK, Batch

(* What a request sends, and the batch it is for, stays while others move.  *)
LEMMA OthersHold ==
  ASSUME BotTypeOK, Requests, NEW r \in Runner, RunStep(r), NEW q \in Runner \ {r}
  PROVE  /\ run'[q].step = run[q].step /\ run'[q].items = run[q].items
         /\ NamedBatch(q)' = NamedBatch(q) /\ Holds(q)' = Holds(q)
BY RunSteps DEF RequestStep, SameRequest, NamedBatch, Holds

(* Steps outside the redeem flow, and those that neither take a batch nor   *)
(* send it, leave alone who holds which batch and what was sent.            *)
LEMMA TakenOnceKept ==
  ASSUME BotTypeOK, TakenOnce, UNCHANGED <<batch, copies>>,
         \A r \in Runner : Holds(r)' => /\ Holds(r) /\ NamedBatch(r)' = NamedBatch(r)
                                        /\ run'[r].step = "SEND" => run[r].step = "SEND"
                                        /\ run'[r].step = "SENT" => run[r].step = "SENT"
  PROVE  TakenOnce'
BY DEF TakenOnce, Holds, Doing, Batch

(* Only those four steps lead to a step of a request that holds a batch,    *)
(* and there is one way each to the step that takes a batch and to the one  *)
(* that adds a file.                                                        *)
Reaches(r) ==
  /\ ~Holds(r)'
  /\ run'[r].step = "TAKE" => FinishBatch(r)
  /\ run'[r].step = "ADD" => ReadBatch(r)

(* Every other step of a request ends in one that holds no batch.           *)
LEMMA LeavesNoBatch ==
  ASSUME BotTypeOK, NEW r \in Runner, RunStep(r),
         ~(TakeBatch(r) \/ SendFile(r) \/ MarkSent(r) \/ MarkFailed(r))
  PROVE  Reaches(r)
<1> USE DEF Reaches, Holds, BotStep, RedeemSteps, Doing
<1>1. run \in [Runner -> RunRow]
  BY DEF BotTypeOK, RunRow
<1>2. \A step \in BotStep \ {"IDLE", "FINISH"} :
        ~Doing(r, "IDLE") /\ step \notin RedeemSteps \cup {"ADD"}
        => /\ Proceed(r, step) => run'[r].step = step
           /\ \A after : WriteSession(r, step, after) => run'[r].step = step
  BY Moves
<1>3. ASSUME Remember(r) \/ ResetSession(r) \/ Join(r) \/ ClaimReward(r) PROVE Reaches(r)
  BY <1>2, <1>3 DEF Remember, ResetSession, Join, ClaimReward
<1>4. ASSUME OpenBatch(r) \/ ClearBatch(r) \/ LeaveBatch(r) \/ ThrowError(r) PROVE Reaches(r)
  BY <1>2, <1>4 DEF OpenBatch, ClearBatch, LeaveBatch, ThrowError
<1>5. ASSUME EndUpdate(r) \/ FailUpdate(r) \/ CrashRun(r) PROVE Reaches(r)
  BY <1>1, <1>5 DEF EndUpdate, FailUpdate, CrashRun, Resting
<1>6. ASSUME Meet(r) PROVE Reaches(r)
  BY <1>1, <1>6 DEF Meet, RunRow
<1>7. ASSUME ReadBatch(r) PROVE Reaches(r)
  BY <1>1, <1>2, <1>7 DEF ReadBatch, RunRow, Proceed
<1>8. ASSUME AddUpload(r) PROVE Reaches(r)
  <2>1. CASE SessionUnchanged(r)
    BY <1>2, <1>8, <2>1 DEF AddUpload
  <2>2. CASE ~SessionUnchanged(r) /\ run[r].tries + 1 < Tries
    <3>1. run' = [run EXCEPT ![r] = [Moved(r, "READ") EXCEPT !.tries = @ + 1]]
      BY <1>8, <2>2 DEF AddUpload
    <3> QED BY <1>1, <3>1 DEF RunRow, Moved
  <2>3. CASE ~SessionUnchanged(r) /\ ~(run[r].tries + 1 < Tries)
    BY <1>2, <1>8, <2>3 DEF AddUpload, Proceed
  <2> QED BY <2>1, <2>2, <2>3
<1>9. ASSUME FinishBatch(r) PROVE Reaches(r)
  <2>1. CASE Proceed(r, "END")
    BY <1>2, <1>9, <2>1 DEF FinishBatch
  <2>2. CASE run' = [run EXCEPT ![r].step = "TAKE", ![r].items = session.items]
    BY <1>1, <1>9, <2>2 DEF RunRow
  <2> QED BY <1>9, <2>1, <2>2 DEF FinishBatch
<1> QED BY <1>3, <1>4, <1>5, <1>6, <1>7, <1>8, <1>9 DEF RunStep, RedeemStep

(* TakenOnce is kept by the steps that take and send a batch ...            *)
LEMMA TakenOnceTake ==
  ASSUME BotTypeOK, Requests, TakenOnce, NEW r \in Runner, TakeBatch(r)
  PROVE  TakenOnce'
<1>a. NamedBatch(r) \in Batch /\ batch \in [Batch -> BatchRow] /\ copies \in [Batch -> Nat]
  BY NamesBatch DEF TakeBatch, Doing, RedeemSteps, BotTypeOK, BatchRow
<1>b. RunStep(r)
  BY DEF RunStep, RedeemStep
<1>c. update' = update /\ copies' = copies
  BY DEF TakeBatch, updateVars
<1>d. ~Doing(r, "IDLE") /\ run[r].step = "TAKE"
  BY DEF TakeBatch, Doing
<1>e. \A step \in {"SEND", "LEAVE"} : Proceed(r, step) => RequestStep(r) /\ run'[r].step = step
  BY <1>d, Moves DEF BotStep, RedeemSteps
<1>1. CASE batch[NamedBatch(r)].status = "NONE"
  <2>1. batch' = [batch EXCEPT ![NamedBatch(r)].status = "PROCESSING"]
    BY <1>1 DEF TakeBatch
  <2>2. RequestStep(r) /\ run'[r].step = "SEND"
    BY <1>1, <1>e DEF TakeBatch
  <2>3. run'[r].update = run[r].update
    BY <2>2 DEF RequestStep, Continued
  <2>4. NamedBatch(r)' = NamedBatch(r)
    BY <1>c, <2>3 DEF NamedBatch
  <2>5. \A q \in Runner \ {r} : Holds(q) => NamedBatch(q) # NamedBatch(r)
    BY <1>1 DEF TakenOnce
  <2>6. \A b \in Batch : batch[b].status # "NONE" => batch'[b].status # "NONE"
    BY <1>a, <2>1 DEF BatchRow
  <2>7. batch'[NamedBatch(r)].status # "NONE" /\ copies[NamedBatch(r)] = 0
    BY <1>1, <1>a, <2>1 DEF BatchRow, TakenOnce
  <2>8. \A q \in Runner : Holds(q) => NamedBatch(q) \in Batch
    BY NamesBatch DEF Holds, RedeemSteps
  <2> QED BY <1>b, <1>c, <2>2, <2>4, <2>5, <2>6, <2>7, <2>8, OthersHold
          DEF TakenOnce, Holds, Doing, Batch
<1>2. CASE batch[NamedBatch(r)].status # "NONE"
  <2>1. run'[r].step = "LEAVE" /\ batch' = batch
    BY <1>2, <1>e DEF TakeBatch
  <2>2. \A q \in Runner : Holds(q)' => Holds(q) /\ NamedBatch(q)' = NamedBatch(q)
                                       /\ run'[q].step = run[q].step
    BY <1>b, <2>1, OthersHold DEF Holds
  <2> QED BY <1>c, <2>1, <2>2, TakenOnceKept
<1> QED BY <1>1, <1>2

(* Sending sends the batch of the one request that took it.                 *)
LEMMA TakenOnceSend ==
  ASSUME BotTypeOK, Requests, TakenOnce, NEW r \in Runner, SendFile(r)
  PROVE  TakenOnce'
<1>a. NamedBatch(r) \in Batch /\ copies \in [Batch -> Nat]
  BY NamesBatch DEF SendFile, Doing, RedeemSteps, BotTypeOK
<1>b. RunStep(r)
  BY DEF RunStep, RedeemStep
<1>c. update' = update /\ batch' = batch
  BY DEF SendFile, updateVars
<1>d. ~Doing(r, "IDLE") /\ run[r].step = "SEND" /\ Holds(r) /\ copies[NamedBatch(r)] = 0
  BY DEF SendFile, Doing, Holds, TakenOnce
<1>1. PICK a \in SendAnswer :
        /\ Proceed(r, a[1])
        /\ copies' = IF a[2] THEN [copies EXCEPT ![NamedBatch(r)] = @ + 1] ELSE copies
  BY DEF SendFile
<1>2. a[1] \in {"SENT", "UNKNOWN", "FAILED"} /\ (a[1] = "SENT" => a[2])
  BY AnswersTyped
<1>3. RequestStep(r) /\ run'[r].step = a[1]
  BY <1>1, <1>2, <1>d, Moves DEF BotStep, RedeemSteps
<1>4. NamedBatch(r)' = NamedBatch(r) /\ Holds(r)'
  BY <1>2, <1>3, <1>c DEF NamedBatch, RequestStep, Continued, Holds
<1>5. copies' \in [Batch -> Nat] /\ copies'[NamedBatch(r)] \in {0, 1}
      /\ \A b \in Batch \ {NamedBatch(r)} : copies'[b] = copies[b]
  BY <1>1, <1>a, <1>d
<1>6. run'[r].step = "SENT" => copies'[NamedBatch(r)] = 1
  BY <1>1, <1>2, <1>3, <1>a, <1>d
<1>7. \A q \in Runner : Holds(q) => NamedBatch(q) \in Batch
  BY NamesBatch DEF Holds, RedeemSteps
<1>8. run'[r].step # "SEND"
  BY <1>2, <1>3
<1> QED BY <1>b, <1>c, <1>d, <1>3, <1>4, <1>5, <1>6, <1>7, <1>8, OthersHold
        DEF TakenOnce, Holds, Doing, Batch

(* ... and put down what became of it.                                      *)
LEMMA TakenOnceMark ==
  ASSUME BotTypeOK, Requests, TakenOnce, NEW r \in Runner, MarkSent(r) \/ MarkFailed(r)
  PROVE  TakenOnce'
<1>a. NamedBatch(r) \in Batch /\ batch \in [Batch -> BatchRow]
  BY NamesBatch DEF MarkSent, MarkFailed, Doing, RedeemSteps, BotTypeOK, BatchRow
<1>b. RunStep(r)
  BY DEF RunStep, RedeemStep
<1>c. update' = update /\ copies' = copies
  BY DEF MarkSent, MarkFailed, updateVars
<1>d. ~Doing(r, "IDLE") /\ Holds(r)
  BY DEF MarkSent, MarkFailed, Doing, Holds
<1>1. /\ \A step \in {"LEAVE", "UNKNOWN", "END"} :
             Proceed(r, step) => RequestStep(r) /\ run'[r].step = step
  BY <1>d, Moves DEF BotStep, RedeemSteps, Holds
<1>2. RequestStep(r) /\ run'[r].step \in {"LEAVE", "UNKNOWN", "END"}
  BY <1>1 DEF MarkSent, MarkFailed
<1>3. run'[r].step = "UNKNOWN" => NamedBatch(r)' = NamedBatch(r)
  BY <1>2, <1>c DEF NamedBatch, RequestStep, Continued
<1>4. \A b \in Batch : batch[b].status # "NONE" => batch'[b].status # "NONE"
  <2>1. CASE MarkSent(r)
    BY <1>a, <2>1 DEF MarkSent, BatchRow
  <2>2. CASE MarkFailed(r)
    BY <1>a, <2>2 DEF MarkFailed, BatchRow
  <2> QED BY <2>1, <2>2
<1>5. \A q \in Runner : Holds(q) => NamedBatch(q) \in Batch
  BY NamesBatch DEF Holds, RedeemSteps
<1> QED BY <1>b, <1>c, <1>d, <1>2, <1>3, <1>4, <1>5, OthersHold
        DEF TakenOnce, Holds, Doing, Batch

(* TakenOnce is kept by every step.                                         *)
LEMMA TakenOnceStep == BotTypeOK /\ Requests /\ TakenOnce /\ [BotNext]_botVars => TakenOnce'
<1> SUFFICES ASSUME BotTypeOK, Requests, TakenOnce, [BotNext]_botVars PROVE TakenOnce'
  OBVIOUS
<1>a. run \in [Runner -> RunRow] /\ update \in [Update -> UpdateRow]
  BY DEF BotTypeOK, RunRow, UpdateRow
<1>1. ASSUME NEW u \in Update, SendUpdate(u) PROVE TakenOnce'
  <2>1. run' = run /\ UNCHANGED <<batch, copies>>
    BY <1>1 DEF SendUpdate, redeemVars
  <2>2. \A v \in Update \ {u} : update'[v] = update[v]
    BY <1>a, <1>1 DEF SendUpdate
  <2>3. \A q \in Runner : Holds(q) => run[q].update # u
    BY <1>1 DEF SendUpdate, Requests, Holds, Doing, KindOf
  <2>4. \A q \in Runner : Holds(q)' => Holds(q) /\ NamedBatch(q)' = NamedBatch(q)
    BY <1>a, <2>1, <2>2, <2>3 DEF Holds, NamedBatch, Requests, Doing
  <2> QED BY <2>1, <2>4, TakenOnceKept
<1>2. ASSUME NEW u \in Update, UpdateLeaseEnds(u) PROVE TakenOnce'
  BY <1>2, TakenOnceKept DEF UpdateLeaseEnds, redeemVars, Holds, NamedBatch
<1>3. ASSUME NEW r \in Runner, NEW u \in Update, Deliver(r, u) PROVE TakenOnce'
  <2>1. update' = update /\ UNCHANGED <<batch, copies>>
    BY <1>3 DEF Deliver, redeemVars
  <2>2. \A q \in Runner \ {r} : run'[q].update = run[q].update /\ run'[q].step = run[q].step
    BY <1>a, <1>3 DEF Deliver, RunRow
  <2>3. run'[r].step = FirstStep[update[u].kind]
    BY <1>3 DEF Deliver, Resting
  <2>4. FirstStep[update[u].kind] \notin {"SEND", "SENT", "UNKNOWN", "FAILED"}
    BY <1>a, <1>3 DEF Deliver, FirstStep, UpdateRow, Kind
  <2>5. \A q \in Runner : Holds(q)' => Holds(q) /\ NamedBatch(q)' = NamedBatch(q)
                                       /\ run'[q].step = run[q].step
    BY <2>1, <2>2, <2>3, <2>4 DEF Holds, NamedBatch
  <2> QED BY <2>1, <2>5, TakenOnceKept
<1>4. ASSUME NEW r \in Runner, RunStep(r),
             ~(TakeBatch(r) \/ SendFile(r) \/ MarkSent(r) \/ MarkFailed(r))
      PROVE  TakenOnce'
  <2>1. UNCHANGED <<batch, copies>>
    BY <1>4
    DEF RunStep, RedeemStep, Meet, Remember, ResetSession, Join, ClaimReward, OpenBatch,
        ClearBatch, ReadBatch, AddUpload, FinishBatch, LeaveBatch, EndUpdate, FailUpdate,
        ThrowError, CrashRun, redeemVars
  <2>2. ~Holds(r)'
    BY <1>4, LeavesNoBatch DEF Reaches
  <2>3. \A q \in Runner : Holds(q)' => Holds(q) /\ NamedBatch(q)' = NamedBatch(q)
                                       /\ run'[q].step = run[q].step
    BY <1>4, <2>2, OthersHold
  <2> QED BY <2>1, <2>3, TakenOnceKept
<1>5. CASE UNCHANGED botVars
  BY <1>5, TakenOnceKept DEF botVars, updateVars, redeemVars, Holds, NamedBatch
<1> QED BY <1>1, <1>2, <1>3, <1>4, <1>5, TakenOnceTake, TakenOnceSend, TakenOnceMark DEF BotNext

(* What is saved to a batch stays saved to it.                              *)
LEMMA SavedGrows ==
  ASSUME BotTypeOK, [BotNext]_botVars
  PROVE  \A b \in Batch : saved[b] \subseteq saved'[b]
<1>1. saved \in [Batch -> SUBSET File]
  BY DEF BotTypeOK
<1>2. ASSUME NEW r \in Runner, AddUpload(r) PROVE \A b \in Batch : saved[b] \subseteq saved'[b]
  BY <1>1, <1>2 DEF AddUpload
<1>3. ASSUME NEW r \in Runner, RunStep(r), ~AddUpload(r) PROVE saved' = saved
  BY <1>3
  DEF RunStep, RedeemStep, Meet, Remember, ResetSession, Join, ClaimReward, OpenBatch,
      ClearBatch, ReadBatch, FinishBatch, TakeBatch, SendFile, MarkSent, MarkFailed, LeaveBatch,
      EndUpdate, FailUpdate, ThrowError, CrashRun, redeemVars
<1>4. ASSUME NEW u \in Update, SendUpdate(u) \/ UpdateLeaseEnds(u) PROVE saved' = saved
  BY <1>4 DEF SendUpdate, UpdateLeaseEnds, redeemVars
<1>5. ASSUME NEW r \in Runner, NEW u \in Update, Deliver(r, u) PROVE saved' = saved
  BY <1>5 DEF Deliver, redeemVars
<1>6. UNCHANGED botVars => saved' = saved
  BY DEF botVars, redeemVars
<1> QED BY <1>2, <1>3, <1>4, <1>5, <1>6 DEF BotNext

(* A step that writes the session leaves nobody with a fresh read of it.    *)
LEMMA WritesEndReads ==
  ASSUME BotTypeOK, NEW r \in Runner, NEW step \in BotStep, NEW after,
         WriteSession(r, step, after)
  PROVE  session' = after /\ \A q \in Runner : ~run'[q].fresh
<1>1. Moved(r, step) \in RunRow /\ run \in [Runner -> RunRow]
  BY MovedTyped DEF BotTypeOK, RunRow
<1>2. session' = after
  BY DEF WriteSession
<1>3. ASSUME NEW q \in Runner PROVE run'[q].fresh = FALSE
  BY <1>1 DEF WriteSession, RunRow
<1> QED BY <1>2, <1>3

(* The steps that take and send a batch do not add to one.                  *)
LEMMA SendsNoUpload ==
  ASSUME BotTypeOK, NEW r \in Runner, TakeBatch(r) \/ SendFile(r) \/ MarkSent(r) \/ MarkFailed(r)
  PROVE  run'[r].step # "ADD"
<1>1. run[r].step \in {"TAKE", "SEND", "SENT", "UNKNOWN", "FAILED"}
  BY DEF TakeBatch, SendFile, MarkSent, MarkFailed, Doing
<1>2. \A step \in {"SEND", "LEAVE", "SENT", "UNKNOWN", "FAILED", "END"} :
        Proceed(r, step) => run'[r].step = step
  BY <1>1, Moves DEF BotStep, RedeemSteps, Doing
<1>3. PICK step \in {"SEND", "LEAVE", "SENT", "UNKNOWN", "FAILED", "END"} : Proceed(r, step)
  BY AnswersTyped DEF TakeBatch, SendFile, MarkSent, MarkFailed
<1> QED BY <1>2, <1>3

(* SessionHasSaved is kept by the steps that change what it is about ...    *)
LEMMA SessionUpload ==
  ASSUME BotTypeOK, Requests, SessionHasSaved, NEW r \in Runner, AddUpload(r)
  PROVE  SessionHasSaved'
<1>a. /\ saved \in [Batch -> SUBSET File] /\ run \in [Runner -> RunRow]
      /\ session \in SessionRow /\ batches \in 0..BatchLimit
  BY DEF BotTypeOK, RunRow, SessionRow
<1>b. batches' = batches
  BY DEF AddUpload
<1>1. CASE SessionUnchanged(r)
  <2>1. run[r].items = session.items /\ session.open
    BY <1>1 DEF SessionUnchanged, SessionHasSaved, AddUpload
  <2>2. WriteSession(r, "END", [session EXCEPT !.items = run[r].items \cup NamedFile(r)])
    BY <1>1 DEF AddUpload
  <2>3. session' = [session EXCEPT !.items = session.items \cup NamedFile(r)]
        /\ \A q \in Runner : ~run'[q].fresh
    BY <2>1, <2>2, WritesEndReads DEF BotStep
  <2>4. session.batch \in Batch /\ session.batch \in 1..batches
        /\ session.items = saved[session.batch]
    BY <1>a, <2>1, BotAssumption DEF SessionHasSaved, Batch
  <2>5. saved' = [saved EXCEPT ![session.batch] = @ \cup NamedFile(r)]
    BY <1>1 DEF AddUpload
  <2>6. saved'[session.batch] = session.items \cup NamedFile(r)
        /\ \A b \in Batch \ {session.batch} : saved'[b] = saved[b]
    BY <1>a, <2>4, <2>5
  <2>7. session'.batch = session.batch /\ session'.items = session.items \cup NamedFile(r)
    BY <1>a, <2>3 DEF SessionRow
  <2>8. \A b \in Batch : b > batches => saved'[b] = {}
    BY <1>a, <2>4, <2>6 DEF SessionHasSaved, Batch
  <2> QED BY <1>b, <2>3, <2>4, <2>6, <2>7, <2>8 DEF SessionHasSaved, Batch
<1>2. CASE ~SessionUnchanged(r)
  <2>1. session' = session /\ saved' = saved
    BY <1>2 DEF AddUpload
  <2>2. RunStep(r) /\ ~(TakeBatch(r) \/ SendFile(r) \/ MarkSent(r) \/ MarkFailed(r))
        /\ ~ReadBatch(r)
    BY DEF AddUpload, RunStep, RedeemStep, TakeBatch, SendFile, MarkSent, MarkFailed, ReadBatch,
           Doing
  <2>3. run'[r].step # "ADD" /\ \A q \in Runner \ {r} : SameRequest(q)
    BY <2>2, LeavesNoBatch, RunSteps DEF Reaches, RequestStep
  <2> QED BY <1>b, <2>1, <2>3 DEF SessionHasSaved, SameRequest, Doing
<1> QED BY <1>1, <1>2

(* ... a batch that is opened is a new one ...                              *)
LEMMA SessionOpened ==
  ASSUME BotTypeOK, Requests, SessionHasSaved, NEW r \in Runner, OpenBatch(r)
  PROVE  SessionHasSaved'
<1>1. batches' = batches + 1 /\ saved' = saved /\ batches \in 0..BatchLimit /\ batches < BatchLimit
  BY DEF OpenBatch, BotTypeOK
<1>2. batches + 1 \in Batch /\ batches + 1 \in 1..batches' /\ batches + 1 > batches
  BY <1>1, BotAssumption DEF Batch
<1>3. session' = [known |-> TRUE, open |-> TRUE, batch |-> batches + 1, items |-> {}]
      /\ \A q \in Runner : ~run'[q].fresh
  BY WritesEndReads DEF OpenBatch, BotStep
<1>4. session'.batch = batches + 1 /\ session'.items = {}
  BY <1>3
<1>5. saved[batches + 1] = {} /\ \A b \in Batch : b > batches + 1 => saved[b] = {}
  BY <1>1, <1>2 DEF SessionHasSaved, Batch
<1> QED BY <1>1, <1>2, <1>3, <1>4, <1>5 DEF SessionHasSaved, Batch

(* ... and it is kept by every step.                                        *)
LEMMA SessionStep ==
  BotTypeOK /\ Requests /\ SessionHasSaved /\ [BotNext]_botVars => SessionHasSaved'
<1> SUFFICES ASSUME BotTypeOK, Requests, SessionHasSaved, [BotNext]_botVars
             PROVE  SessionHasSaved'
  OBVIOUS
<1>a. run \in [Runner -> RunRow] /\ update \in [Update -> UpdateRow] /\ session \in SessionRow
  BY DEF BotTypeOK, RunRow, UpdateRow, SessionRow
<1>b. ASSUME UNCHANGED <<saved, batches>>,
             session'.open => session.open /\ session'.batch = session.batch
                                           /\ session'.items = session.items,
             \A q \in Runner : Doing(q, "ADD")' /\ run'[q].fresh
                                => /\ Doing(q, "ADD") /\ run[q].fresh
                                   /\ run'[q].items = run[q].items
                                   /\ session'.items = session.items
      PROVE  SessionHasSaved'
  BY <1>b DEF SessionHasSaved, Batch
<1>1. ASSUME NEW u \in Update, SendUpdate(u) \/ UpdateLeaseEnds(u) PROVE SessionHasSaved'
  BY <1>1, <1>b DEF SendUpdate, UpdateLeaseEnds, redeemVars, Doing
<1>2. ASSUME NEW r \in Runner, NEW u \in Update, Deliver(r, u) PROVE SessionHasSaved'
  <2>1. UNCHANGED <<saved, batches>>
    BY <1>2 DEF Deliver, redeemVars
  <2>2. session'.open = session.open /\ session'.batch = session.batch
        /\ session'.items = session.items
    BY <1>a, <1>2 DEF Deliver, SessionRow
  <2>3. run'[r].step # "ADD"
    <3>1. FirstStep[update[u].kind] # "ADD"
      BY <1>a, <1>2 DEF Deliver, FirstStep, UpdateRow, Kind
    <3> QED BY <1>2, <3>1 DEF Deliver, Resting
  <2>4. ASSUME NEW q \in Runner \ {r} PROVE SameRequest(q)
    <3>1. run'[q] = [run[q] EXCEPT !.fresh = @ /\ update[u].kind \in {"START", "CLAIM"}]
      BY <1>2 DEF Deliver
    <3> QED BY <1>a, <3>1 DEF RunRow, SameRequest
  <2> QED BY <1>b, <2>1, <2>2, <2>3, <2>4 DEF SameRequest, Doing
<1>3. ASSUME NEW r \in Runner, Remember(r) \/ ResetSession(r) \/ LeaveBatch(r)
      PROVE  SessionHasSaved'
  <2>1. UNCHANGED <<saved, batches>>
    BY <1>3 DEF Remember, ResetSession, LeaveBatch, redeemVars
  <2>2. \A q \in Runner : ~run'[q].fresh
    BY <1>3, WritesEndReads DEF Remember, ResetSession, LeaveBatch, BotStep
  <2>3. session' = [session EXCEPT !.known = TRUE] \/ session' = ClosedSession
    BY <1>3 DEF Remember, ResetSession, LeaveBatch, WriteSession
  <2>4. session'.open => session.open /\ session'.batch = session.batch
                                      /\ session'.items = session.items
    <3>1. CASE session' = [session EXCEPT !.known = TRUE]
      BY <1>a, <3>1 DEF SessionRow
    <3>2. CASE session' = ClosedSession
      <4>1. session'.open = FALSE
        BY <1>a, <3>2 DEF SessionRow, ClosedSession
      <4> QED BY <4>1
    <3> QED BY <2>3, <3>1, <3>2
  <2> QED BY <1>b, <2>1, <2>2, <2>4
<1>4. ASSUME NEW r \in Runner, ReadBatch(r) PROVE SessionHasSaved'
  <2>1. UNCHANGED <<saved, batches, session>>
    BY <1>4 DEF ReadBatch, redeemVars
  <2>2. RunStep(r)
    BY <1>4 DEF RunStep, RedeemStep
  <2>3. \A q \in Runner \ {r} : SameRequest(q)
    BY <2>2, RunSteps DEF RequestStep
  <2>4. Doing(r, "ADD")' => run'[r].items = session.items
    <3>1. CASE session.open
      BY <1>a, <1>4, <3>1 DEF ReadBatch, RunRow
    <3>2. CASE ~session.open
      <4>1. run'[r] = Moved(r, "END")
        BY <1>a, <1>4, <3>2 DEF ReadBatch
      <4> QED BY <4>1 DEF Moved, Resting, Doing
    <3> QED BY <3>1, <3>2
  <2> QED BY <2>1, <2>3, <2>4 DEF SessionHasSaved, SameRequest, Doing, Batch
<1>5. ASSUME NEW r \in Runner, RunStep(r),
             ~(Remember(r) \/ ResetSession(r) \/ LeaveBatch(r) \/ ReadBatch(r)),
             ~OpenBatch(r), ~AddUpload(r)
      PROVE  SessionHasSaved'
  <2>1. UNCHANGED <<saved, batches, session>>
    BY <1>5
    DEF RunStep, RedeemStep, Meet, Join, ClaimReward, ClearBatch, FinishBatch, TakeBatch,
        SendFile, MarkSent, MarkFailed, EndUpdate, FailUpdate, ThrowError, CrashRun, redeemVars
  <2>2. \A q \in Runner \ {r} : SameRequest(q)
    BY <1>5, RunSteps DEF RequestStep
  <2>3. run'[r].step # "ADD"
    <3>1. CASE TakeBatch(r) \/ SendFile(r) \/ MarkSent(r) \/ MarkFailed(r)
      BY <3>1, SendsNoUpload
    <3> QED BY <1>5, <3>1, LeavesNoBatch DEF Reaches
  <2> QED BY <1>b, <2>1, <2>2, <2>3 DEF SameRequest, Doing
<1>6. CASE UNCHANGED botVars
  BY <1>6, <1>b DEF botVars, redeemVars, Doing
<1> QED BY <1>1, <1>2, <1>3, <1>4, <1>5, <1>6, SessionUpload, SessionOpened DEF BotNext

Carries(r) == run[r].step \in {"TAKE", "SEND", "SENT"}

(* SentWasSaved is kept by the steps that change neither what is carried    *)
(* nor what was recorded.                                                   *)
LEMMA SentWasSavedKept ==
  ASSUME BotTypeOK, Requests, SentWasSaved, [BotNext]_botVars, UNCHANGED <<batch, copies>>,
         \A r \in Runner : Carries(r)' => /\ Carries(r) /\ run'[r].items = run[r].items
                                          /\ NamedBatch(r)' = NamedBatch(r)
  PROVE  SentWasSaved'
<1>1. \A r \in Runner : Carries(r) => NamedBatch(r) \in Batch
  BY NamesBatch DEF Carries, RedeemSteps
<1>2. \A b \in Batch : saved[b] \subseteq saved'[b]
  BY SavedGrows
<1>3. RedeemRecordTrue'
  BY <1>2 DEF SentWasSaved, RedeemRecordTrue, Batch
<1>4. \A r \in Runner : Carries(r)' => run'[r].items # {} /\ run'[r].items \subseteq saved'[NamedBatch(r)']
  BY <1>1, <1>2 DEF SentWasSaved, Carries
<1> QED BY <1>3, <1>4 DEF SentWasSaved, Carries

(* It is kept when a batch is finished: what the session has was saved ...  *)
LEMMA SentWasSavedFinish ==
  ASSUME BotTypeOK, Requests, SessionHasSaved, SentWasSaved, [BotNext]_botVars,
         NEW r \in Runner, FinishBatch(r)
  PROVE  SentWasSaved'
<1>a. run \in [Runner -> RunRow] /\ RunStep(r) /\ UNCHANGED <<batch, copies, saved, update>>
  BY DEF BotTypeOK, RunRow, FinishBatch, RunStep, RedeemStep, redeemVars, updateVars
<1>1. CASE Proceed(r, "END")
  <2>1. run'[r].step = "END"
    BY <1>1, Moves DEF FinishBatch, BotStep, RedeemSteps, Doing
  <2>2. \A q \in Runner : Carries(q)' => /\ Carries(q) /\ run'[q].items = run[q].items
                                         /\ NamedBatch(q)' = NamedBatch(q)
    BY <1>a, <2>1, OthersHold DEF Carries
  <2> QED BY <1>a, <2>2, SentWasSavedKept
<1>2. CASE /\ session.open /\ session.batch = NamedBatch(r) /\ session.items # {}
           /\ run' = [run EXCEPT ![r].step = "TAKE", ![r].items = session.items]
  <2>1. session.items = saved[NamedBatch(r)]
    BY <1>2 DEF SessionHasSaved
  <2>2. run'[r].items = session.items /\ run'[r].update = run[r].update
    BY <1>a, <1>2 DEF RunRow
  <2>3. NamedBatch(r)' = NamedBatch(r)
    BY <1>a, <2>2 DEF NamedBatch
  <2>4. RedeemRecordTrue'
    BY <1>a DEF SentWasSaved, RedeemRecordTrue, Batch
  <2>5. \A q \in Runner : Carries(q)' => run'[q].items # {} /\ run'[q].items \subseteq saved[NamedBatch(q)']
    BY <1>2, <1>a, <2>1, <2>2, <2>3, OthersHold DEF Carries, SentWasSaved
  <2> QED BY <1>a, <2>4, <2>5 DEF SentWasSaved, Carries
<1> QED BY <1>1, <1>2 DEF FinishBatch

(* ... when it is taken and sent: what is carried does not change ...       *)
LEMMA Carried ==
  ASSUME BotTypeOK, Requests, NEW r \in Runner, TakeBatch(r) \/ SendFile(r) \/ MarkSent(r) \/ MarkFailed(r)
  PROVE  \A q \in Runner : Carries(q)' => /\ Carries(q) /\ run'[q].items = run[q].items
                                          /\ NamedBatch(q)' = NamedBatch(q)
<1>1. RunStep(r) /\ run \in [Runner -> RunRow]
  BY DEF RunStep, RedeemStep, BotTypeOK, RunRow
<1>2. RequestStep(r) /\ update' = update
  BY <1>1, RunSteps
<1>3. PICK step \in {"SEND", "LEAVE", "SENT", "UNKNOWN", "FAILED", "END"} : Proceed(r, step)
  BY AnswersTyped DEF TakeBatch, SendFile, MarkSent, MarkFailed
<1>4. step \in {"SEND", "SENT"} => Carries(r)
  <2>1. CASE TakeBatch(r) \/ SendFile(r)
    BY <2>1 DEF TakeBatch, SendFile, Doing, Carries
  <2>2. CASE MarkSent(r) \/ MarkFailed(r)
    <3>1. run[r].step \in {"SENT", "UNKNOWN", "FAILED"}
      BY <2>2 DEF MarkSent, MarkFailed, Doing
    <3>2. run'[r].step \in {"LEAVE", "UNKNOWN", "END"} /\ run'[r].step = step
      BY <2>2, <3>1, <1>3, Moves DEF MarkSent, MarkFailed, BotStep, RedeemSteps, Doing
    <3> QED BY <3>2
  <2> QED BY <2>1, <2>2
<1>5. run'[r] = Moved(r, step)
  BY <1>1, <1>3 DEF Proceed
<1>6. Carries(r)' => /\ Carries(r) /\ run'[r].items = run[r].items
                     /\ run'[r].update = run[r].update
  <2>1. CASE step \in {"LEAVE", "UNKNOWN", "FAILED", "END"}
    BY <1>1, <1>5, <2>1 DEF Moved, Resting, Carries, RunRow
  <2>2. CASE step \in {"SEND", "SENT"}
    BY <1>1, <1>4, <1>5, <2>2 DEF Moved, RunRow
  <2> QED BY <2>1, <2>2
<1>7. \A q \in Runner \ {r} : Carries(q)' => /\ Carries(q) /\ run'[q].items = run[q].items
                                             /\ NamedBatch(q)' = NamedBatch(q)
  BY <1>1, OthersHold DEF Carries
<1> QED BY <1>2, <1>6, <1>7 DEF NamedBatch

(* ... and a batch that is recorded as sent was sent by the request that    *)
(* took it, which recorded what it carried.                                 *)
LEMMA SentWasSavedRecord ==
  ASSUME BotTypeOK, Requests, TakenOnce, SentWasSaved, [BotNext]_botVars, NEW r \in Runner,
         TakeBatch(r) \/ SendFile(r) \/ MarkSent(r) \/ MarkFailed(r)
  PROVE  SentWasSaved'
<1>a. NamedBatch(r) \in Batch /\ batch \in [Batch -> BatchRow] /\ copies \in [Batch -> Nat]
  BY NamesBatch
  DEF TakeBatch, SendFile, MarkSent, MarkFailed, Doing, RedeemSteps, BotTypeOK, BatchRow
<1>b. saved' = saved
  BY DEF TakeBatch, SendFile, MarkSent, MarkFailed
<1>1. \A q \in Runner : Carries(q)' => /\ Carries(q) /\ run'[q].items = run[q].items
                                       /\ NamedBatch(q)' = NamedBatch(q)
  BY Carried
<1>2. \A q \in Runner : Carries(q)' => run'[q].items # {} /\ run'[q].items \subseteq saved[NamedBatch(q)']
  BY <1>1 DEF SentWasSaved, Carries
<1>3. RedeemRecordTrue'
  <2>1. CASE TakeBatch(r)
    <3>1. copies' = copies
      BY <2>1 DEF TakeBatch
    <3>2. CASE batch' = batch
      BY <1>b, <3>1, <3>2 DEF SentWasSaved, RedeemRecordTrue, Batch
    <3>3. CASE batch' = [batch EXCEPT ![NamedBatch(r)].status = "PROCESSING"]
      <4>1. batch'[NamedBatch(r)].status # "SENT"
            /\ \A b \in Batch \ {NamedBatch(r)} : batch'[b] = batch[b]
        BY <1>a, <3>3 DEF BatchRow
      <4> QED BY <1>b, <3>1, <4>1 DEF SentWasSaved, RedeemRecordTrue, Batch
    <3> QED BY <2>1, <3>2, <3>3 DEF TakeBatch
  <2>2. CASE SendFile(r)
    <3>1. batch' = batch /\ copies[NamedBatch(r)] = 0
      BY <2>2 DEF SendFile, TakenOnce
    <3>2. \A b \in Batch \ {NamedBatch(r)} : copies'[b] = copies[b]
      BY <1>a, <2>2 DEF SendFile
    <3>3. batch[NamedBatch(r)].status # "SENT"
      BY <1>a, <3>1 DEF SentWasSaved, RedeemRecordTrue
    <3> QED BY <1>b, <3>1, <3>2, <3>3 DEF SentWasSaved, RedeemRecordTrue, Batch
  <2>3. CASE MarkSent(r)
    <3>1. copies' = copies /\ copies[NamedBatch(r)] = 1 /\ run[r].step = "SENT"
      BY <2>3 DEF MarkSent, TakenOnce, Doing
    <3>2. CASE batch' = batch
      BY <1>b, <3>1, <3>2 DEF SentWasSaved, RedeemRecordTrue, Batch
    <3>3. CASE batch' = [batch EXCEPT ![NamedBatch(r)] = [status |-> "SENT", events |-> run[r].items]]
      <4>1. batch'[NamedBatch(r)].events = run[r].items
            /\ \A b \in Batch \ {NamedBatch(r)} : batch'[b] = batch[b]
        BY <1>a, <3>3 DEF BatchRow
      <4>2. run[r].items # {} /\ run[r].items \subseteq saved[NamedBatch(r)]
        BY <3>1 DEF SentWasSaved
      <4> QED BY <1>b, <3>1, <4>1, <4>2 DEF SentWasSaved, RedeemRecordTrue, Batch
    <3> QED BY <2>3, <3>2, <3>3 DEF MarkSent
  <2>4. CASE MarkFailed(r)
    <3>1. copies' = copies /\ run[r].step # "SENT"
      BY <2>4 DEF MarkFailed
    <3>2. \A b \in Batch \ {NamedBatch(r)} : batch'[b] = batch[b]
      BY <1>a, <2>4 DEF MarkFailed
    <3>3. batch'[NamedBatch(r)].status = "SENT" => batch[NamedBatch(r)].status = "SENT"
      BY <1>a, <2>4 DEF MarkFailed, BatchRow
    <3>4. batch'[NamedBatch(r)].events = batch[NamedBatch(r)].events
      BY <1>a, <2>4 DEF MarkFailed, BatchRow
    <3> QED BY <1>b, <3>1, <3>2, <3>3, <3>4 DEF SentWasSaved, RedeemRecordTrue, Batch
  <2> QED BY <2>1, <2>2, <2>3, <2>4
<1> QED BY <1>b, <1>2, <1>3 DEF SentWasSaved, Carries

(* SentWasSaved is kept by every step.                                      *)
LEMMA SentWasSavedStep ==
  BotTypeOK /\ Requests /\ TakenOnce /\ SessionHasSaved /\ SentWasSaved /\ [BotNext]_botVars
  => SentWasSaved'
<1> SUFFICES ASSUME BotTypeOK, Requests, TakenOnce, SessionHasSaved, SentWasSaved,
                    [BotNext]_botVars
             PROVE  SentWasSaved'
  OBVIOUS
<1>a. run \in [Runner -> RunRow] /\ update \in [Update -> UpdateRow]
  BY DEF BotTypeOK, RunRow, UpdateRow
<1>1. ASSUME NEW u \in Update, SendUpdate(u) PROVE SentWasSaved'
  <2>1. run' = run /\ UNCHANGED <<batch, copies>>
    BY <1>1 DEF SendUpdate, redeemVars
  <2>2. \A v \in Update \ {u} : update'[v] = update[v]
    BY <1>a, <1>1 DEF SendUpdate
  <2>3. \A q \in Runner : Carries(q) => run[q].update # u
    BY <1>1 DEF SendUpdate, Requests, Carries, Doing, KindOf
  <2>4. \A q \in Runner : Carries(q)' => /\ Carries(q) /\ run'[q].items = run[q].items
                                         /\ NamedBatch(q)' = NamedBatch(q)
    BY <1>a, <2>1, <2>2, <2>3 DEF Carries, NamedBatch, Requests, Doing
  <2> QED BY <2>1, <2>4, SentWasSavedKept
<1>2. ASSUME NEW u \in Update, UpdateLeaseEnds(u) PROVE SentWasSaved'
  BY <1>2, SentWasSavedKept DEF UpdateLeaseEnds, redeemVars, Carries, NamedBatch
<1>3. ASSUME NEW r \in Runner, NEW u \in Update, Deliver(r, u) PROVE SentWasSaved'
  <2>1. update' = update /\ UNCHANGED <<batch, copies>>
    BY <1>3 DEF Deliver, redeemVars
  <2>2. \A q \in Runner \ {r} : /\ run'[q].update = run[q].update /\ run'[q].step = run[q].step
                                /\ run'[q].items = run[q].items
    BY <1>a, <1>3 DEF Deliver, RunRow
  <2>3. run'[r].step = FirstStep[update[u].kind]
    BY <1>3 DEF Deliver, Resting
  <2>4. FirstStep[update[u].kind] \notin {"TAKE", "SEND", "SENT"}
    BY <1>a, <1>3 DEF Deliver, FirstStep, UpdateRow, Kind
  <2>5. \A q \in Runner : Carries(q)' => /\ Carries(q) /\ run'[q].items = run[q].items
                                         /\ NamedBatch(q)' = NamedBatch(q)
    BY <2>1, <2>2, <2>3, <2>4 DEF Carries, NamedBatch
  <2> QED BY <2>1, <2>5, SentWasSavedKept
<1>4. ASSUME NEW r \in Runner, RunStep(r), ~FinishBatch(r),
             ~(TakeBatch(r) \/ SendFile(r) \/ MarkSent(r) \/ MarkFailed(r))
      PROVE  SentWasSaved'
  <2>1. UNCHANGED <<batch, copies>>
    BY <1>4
    DEF RunStep, RedeemStep, Meet, Remember, ResetSession, Join, ClaimReward, OpenBatch,
        ClearBatch, ReadBatch, AddUpload, LeaveBatch, EndUpdate, FailUpdate, ThrowError, CrashRun,
        redeemVars
  <2>2. ~Carries(r)'
    BY <1>4, LeavesNoBatch DEF Reaches, Carries, Holds
  <2>3. \A q \in Runner : Carries(q)' => /\ Carries(q) /\ run'[q].items = run[q].items
                                         /\ NamedBatch(q)' = NamedBatch(q)
    BY <1>4, <2>2, OthersHold DEF Carries
  <2> QED BY <2>1, <2>3, SentWasSavedKept
<1>5. CASE UNCHANGED botVars
  BY <1>5, SentWasSavedKept DEF botVars, updateVars, redeemVars, Carries, NamedBatch
<1> QED BY <1>1, <1>2, <1>3, <1>4, <1>5, SentWasSavedFinish, SentWasSavedRecord DEF BotNext

------------------------------------------------------------------------------
(* Bot: the theorems.                                                       *)

BotInv ==
  /\ BotTypeOK /\ Requests /\ Leased /\ RewardedOnce /\ TakenOnce /\ SessionHasSaved
  /\ SentWasSaved

(* BotInv is an invariant.                                                  *)
THEOREM BotIsInductive == BotSpec => []BotInv
<1>1. BotInit => BotInv
  BY BotStart, LeasedStart, RedeemStart DEF BotInv
<1>2. BotInv /\ [BotNext]_botVars => BotInv'
  BY BotTypes, RequestsStep, LeasedStep, RewardStep, TakenOnceStep, SessionStep,
     SentWasSavedStep DEF BotInv
<1> QED BY <1>1, <1>2, PTL DEF BotSpec

(* With any number of updates and requests: the variables have their types, *)
(* and until one of its requests outlives its lease an update is worked on  *)
(* by one request at a time.                                                *)
THEOREM UpdatesAreClaimed == BotSpec => [](BotTypeOK /\ OneRunPerLease)
<1>1. BotInv => BotTypeOK /\ OneRunPerLease
  BY LeasedMeans DEF BotInv
<1> QED BY <1>1, BotIsInductive, PTL

(* The logins of a batch are sent at most once, whoever asks for them again *)
(* and whichever request is lost between taking, sending and recording.     *)
THEOREM BatchIsSentOnce == BotSpec => []RedeemSentOnce
<1>1. BotInv => RedeemSentOnce
  BY DEF BotInv, TakenOnce, RedeemSentOnce, BotTypeOK
<1> QED BY <1>1, BotIsInductive, PTL

(* A batch recorded as sent was sent, with files uploaded to this batch     *)
(* (Bot, RedeemRecordTrue).                                                 *)
THEOREM BatchIsComplete == BotSpec => []RedeemRecordTrue
<1>1. BotInv => RedeemRecordTrue
  BY DEF BotInv, SentWasSaved
<1> QED BY <1>1, BotIsInductive, PTL

(* Whatever uploads run side by side, the open session counts every file    *)
(* saved to its batch: none is written over by an upload that had read the  *)
(* session before (Bot, SavedUploadsKept).                                  *)
THEOREM UploadsAreKept == BotSpec => []SavedUploadsKept
<1>1. BotInv => SavedUploadsKept
  BY DEF BotInv, SessionHasSaved, SavedUploadsKept
<1> QED BY <1>1, BotIsInductive, PTL

(* A newcomer is rewarded once and a press of the claim button pays once.   *)
THEOREM ReferralPaysOnce == BotSpec => []RewardedOnce
<1>1. BotInv => RewardedOnce
  BY DEF BotInv
<1> QED BY <1>1, BotIsInductive, PTL

------------------------------------------------------------------------------
(* Pollers: the invariants.                                                 *)

(* Who has read the cookies of a session and still holds its lease asks for *)
(* a session that was not revoked; a revoked one has lost its cookies.  No  *)
(* failure makes a session active.                                          *)
LeaseHasCookies ==
  /\ \A s \in WebSession :
       web[s].revoked => ~web[s].cookies /\ web[s].status # "NONE"
  /\ \A w \in Poller :
       poll[w].stage \in {"ASK", "FAIL", "STORE"} =>
         /\ poll[w].session \in WebSession
         /\ web[poll[w].session].lease = w => web[poll[w].session].cookies
  /\ \A w \in Poller : /\ poll[w].stage # "IDLE" => poll[w].session \in WebSession
                       /\ poll[w].stage = "FAIL" => poll[w].status # "ACTIVE"
  /\ validation # NoValidation => validation.session \in WebSession

(* What was proven of an account, now or when a poll read its row, is that  *)
(* it is the shop's.                                                        *)
ProvenIsOurs ==
  /\ source = "BINANCE" =>
       /\ \A s \in WebSession : web[s].proven => s \notin stranger
       /\ \A w \in Poller : poll[w].proven \/ poll[w].stage = "STORE" => poll[w].session \notin stranger
  /\ EvidenceIsOurs

(* No poll has seen more than there is, and the one that holds the lease    *)
(* with an answer has seen as much as was recorded.                         *)
SeenInOrder ==
  /\ \A s \in WebSession : web[s].polled <= upstream
  /\ \A w \in Poller :
       /\ poll[w].seen <= upstream
       /\ poll[w].stage = "STORE" /\ web[poll[w].session].lease = w
            => web[poll[w].session].polled <= poll[w].seen

PollersInv == PollersTypeOK /\ LeaseHasCookies /\ ProvenIsOurs /\ SeenInOrder

(* They hold before any session is stored.                                  *)
LEMMA PollersStart == PollersInit => PollersInv
<1> SUFFICES ASSUME PollersInit PROVE PollersInv
  OBVIOUS
<1> USE PollersAssumption DEF PollersInit, NoPoll, NoValidation
<1>1. source \in {"BINANCE", "SHOPEE"} /\ stranger \subseteq WebSession /\ NoSuch \notin stranger
  OBVIOUS
<1>2. web \in [WebSession -> WebRow]
  BY DEF WebRow, WebStatus
<1>3. poll \in [Poller -> PollRow]
  BY DEF PollRow, WebStatus
<1>4. validation \in [session : WebSession \cup {NoSuch}, status : WebStatus, primary : BOOLEAN]
  BY DEF WebStatus
<1>5. evidence \in [version : Nat, session : WebSession \cup {NoSuch}]
  OBVIOUS
<1>6. \A s \in WebSession : /\ web[s].status = "NONE" /\ web[s].polled = 0
                            /\ ~web[s].proven /\ ~web[s].revoked
  OBVIOUS
<1>7. \A w \in Poller : /\ poll[w].stage = "IDLE" /\ poll[w].seen = 0 /\ ~poll[w].proven
  OBVIOUS
<1>8. upstream = 0 /\ evidence.session = NoSuch
  OBVIOUS
<1>9. PollersTypeOK
  BY <1>1, <1>2, <1>3, <1>4, <1>5, <1>6, <1>8 DEF PollersTypeOK
<1>10. LeaseHasCookies
  BY <1>6, <1>7 DEF LeaseHasCookies
<1>11. ProvenIsOurs
  BY <1>1, <1>6, <1>7, <1>8 DEF ProvenIsOurs, EvidenceIsOurs
<1>12. SeenInOrder
  BY <1>6, <1>7, <1>8 DEF SeenInOrder
<1> QED BY <1>9, <1>10, <1>11, <1>12 DEF PollersInv

------------------------------------------------------------------------------
(* Pollers: what becomes of the rows of the sessions.                       *)

(* A row is kept: its status may change, its lease may end, and it becomes  *)
(* active only with what an active Binance row needs.                       *)
RowKept(s) ==
  /\ web'[s].cookies = web[s].cookies /\ web'[s].proven = web[s].proven
  /\ web'[s].polled = web[s].polled /\ web'[s].revoked = web[s].revoked
  /\ web'[s].lease \in {web[s].lease, NoSuch}
  /\ web'[s].status = "NONE" => web[s].status = "NONE"
  /\ web'[s].status = "ACTIVE" /\ source = "BINANCE" => web[s].cookies /\ web[s].proven

Quiet == web' \in [WebSession -> WebRow] /\ \A s \in WebSession : RowKept(s)

(* One row is written and the others stay.                                  *)
LEMMA OneRowWritten ==
  ASSUME PollersTypeOK, NEW s \in WebSession, NEW after \in WebRow, web' = [web EXCEPT ![s] = after],
         /\ after.cookies = web[s].cookies /\ after.proven = web[s].proven
         /\ after.polled = web[s].polled /\ after.revoked = web[s].revoked
         /\ after.lease \in {web[s].lease, NoSuch}
         /\ after.status = "NONE" => web[s].status = "NONE",
         after.status = "ACTIVE" /\ source = "BINANCE" => after.cookies /\ after.proven
  PROVE  Quiet
<1>1. web \in [WebSession -> WebRow]
  BY DEF PollersTypeOK
<1>2. web' \in [WebSession -> WebRow] /\ web'[s] = after
  BY <1>1
<1>3. RowKept(s)
  BY <1>2 DEF RowKept
<1>4. ASSUME NEW t \in WebSession \ {s} PROVE RowKept(t)
  <2>1. web'[t] = web[t]
    BY <1>1
  <2> QED BY <2>1 DEF RowKept, PollersTypeOK
<1> QED BY <1>2, <1>3, <1>4 DEF Quiet

(* Nothing is written.                                                      *)
LEMMA NoRowWritten == PollersTypeOK /\ web' = web => Quiet
BY DEF Quiet, RowKept, PollersTypeOK

(* The writes that keep all rows.                                           *)
LEMMA QuietFailure ==
  ASSUME PollersTypeOK, NEW w \in Poller, poll[w].session \in WebSession,
         NEW to \in WebStatus \ {"ACTIVE"}, FailedSession(w, to)
  PROVE  Quiet
<1> DEFINE s == poll[w].session
           released == [web[s] EXCEPT !.lease = NoSuch, !.running = FALSE]
           failed == [web[s] EXCEPT !.lease = NoSuch, !.running = FALSE, !.status = to,
                                    !.primary = FALSE]
<1>1. web[s] \in WebRow
  BY DEF PollersTypeOK
<1>2. released \in WebRow /\ failed \in WebRow
  BY <1>1 DEF WebRow
<1>3. web' = web \/ web' = [web EXCEPT ![s] = released]
      \/ (web' = [web EXCEPT ![s] = failed] /\ to # "NONE")
  BY DEF FailedSession, Released
<1>4. CASE web' = web
  BY <1>4, NoRowWritten
<1>5. CASE web' = [web EXCEPT ![s] = released]
  <2>1. /\ released.cookies = web[s].cookies /\ released.proven = web[s].proven
        /\ released.polled = web[s].polled /\ released.revoked = web[s].revoked
        /\ released.lease = NoSuch /\ released.status = web[s].status
    BY <1>1 DEF WebRow
  <2>2. web[s].status = "ACTIVE" /\ source = "BINANCE" => web[s].cookies /\ web[s].proven
    BY DEF PollersTypeOK
  <2> HIDE DEF released, s
  <2> QED BY <1>1, <1>2, <1>5, <2>1, <2>2, OneRowWritten DEF s
<1>6. CASE web' = [web EXCEPT ![s] = failed] /\ to # "NONE"
  <2>1. /\ failed.cookies = web[s].cookies /\ failed.proven = web[s].proven
        /\ failed.polled = web[s].polled /\ failed.revoked = web[s].revoked
        /\ failed.lease = NoSuch /\ failed.status = to
    BY <1>1 DEF WebRow
  <2> HIDE DEF failed, s
  <2> QED BY <1>1, <1>2, <1>6, <2>1, OneRowWritten DEF s
<1> QED BY <1>3, <1>4, <1>5, <1>6

(* A lease that ends writes one flag ...                                    *)
LEMMA QuietLeaseEnd ==
  ASSUME PollersTypeOK, NEW s \in WebSession, PollLeaseEnds(s)
  PROVE  Quiet
<1> DEFINE after == [web[s] EXCEPT !.running = FALSE]
<1>1. web[s] \in WebRow /\ web \in [WebSession -> WebRow]
  BY DEF PollersTypeOK
<1>2. after \in WebRow /\ web' = [web EXCEPT ![s] = after]
  BY <1>1 DEF WebRow, PollLeaseEnds
<1>3. /\ after.cookies = web[s].cookies /\ after.proven = web[s].proven
      /\ after.polled = web[s].polled /\ after.revoked = web[s].revoked
      /\ after.lease = web[s].lease /\ after.status = web[s].status
  BY <1>1 DEF WebRow
<1>4. web[s].status = "ACTIVE" /\ source = "BINANCE" => web[s].cookies /\ web[s].proven
  BY DEF PollersTypeOK
<1> HIDE DEF after
<1> QED BY <1>2, <1>3, <1>4, OneRowWritten

(* ... choosing the primary session moves one flag ...                      *)
LEMMA QuietPrimary ==
  ASSUME PollersTypeOK, NEW s \in WebSession, SelectPrimary(s)
  PROVE  Quiet
<1>1. web \in [WebSession -> WebRow]
  BY DEF PollersTypeOK
<1>2. ASSUME NEW t \in WebSession PROVE web'[t] \in WebRow /\ RowKept(t)
  <2>1. PICK primary \in BOOLEAN : web'[t] = [web[t] EXCEPT !.primary = primary]
    BY DEF SelectPrimary
  <2>2. web[t] \in WebRow
    BY <1>1
  <2>3. /\ web'[t].cookies = web[t].cookies /\ web'[t].proven = web[t].proven
        /\ web'[t].polled = web[t].polled /\ web'[t].revoked = web[t].revoked
        /\ web'[t].lease = web[t].lease /\ web'[t].status = web[t].status
    BY <2>1, <2>2 DEF WebRow
  <2>4. web'[t] \in WebRow
    BY <2>1, <2>2 DEF WebRow
  <2> QED BY <2>3, <2>4 DEF RowKept, PollersTypeOK
<1>3. web' = [t \in WebSession |-> web'[t]]
  BY DEF SelectPrimary
<1> QED BY <1>2, <1>3 DEF Quiet

(* ... and preparing a validation writes the row it read, or none.          *)
LEMMA QuietPrepare ==
  ASSUME PollersTypeOK, LeaseHasCookies, PrepareWrite
  PROVE  Quiet
<1> DEFINE s == validation.session
           active == validation.status = "ACTIVE"
           primary == active /\ validation.primary
           to == IF active THEN "ACTIVE" ELSE "PENDING_VALIDATION"
           prepared(st, p) == [web[s] EXCEPT !.status = st, !.primary = p, !.lease = NoSuch,
                                             !.running = FALSE]
           after == prepared(to, primary)
<1>1. s \in WebSession /\ web[s] \in WebRow /\ web \in [WebSession -> WebRow]
  BY DEF PollersTypeOK, LeaseHasCookies, PrepareWrite
<1>2. primary \in BOOLEAN
  OBVIOUS
<1>3. to \in WebStatus /\ to # "NONE"
  BY DEF WebStatus
<1>4. ASSUME NEW st \in WebStatus, NEW p \in BOOLEAN
      PROVE  /\ prepared(st, p) \in WebRow
             /\ prepared(st, p).cookies = web[s].cookies /\ prepared(st, p).proven = web[s].proven
             /\ prepared(st, p).polled = web[s].polled /\ prepared(st, p).revoked = web[s].revoked
             /\ prepared(st, p).lease = NoSuch /\ prepared(st, p).status = st
  BY <1>1, <1>4 DEF WebRow
<1>5. web' = IF RowAllowed(s, after) THEN [web EXCEPT ![s] = after] ELSE web
  BY DEF PrepareWrite
<1> HIDE DEF prepared, primary, to, s
<1>6. /\ after \in WebRow
      /\ after.cookies = web[s].cookies /\ after.proven = web[s].proven
      /\ after.polled = web[s].polled /\ after.revoked = web[s].revoked
      /\ after.lease = NoSuch /\ after.status = to
  BY <1>2, <1>3, <1>4
<1>7. RowAllowed(s, after) => (after.status = "ACTIVE" => after.cookies /\ after.proven)
  BY DEF RowAllowed
<1> HIDE DEF after
<1>8. CASE web' = web
  BY <1>8, NoRowWritten
<1>9. CASE RowAllowed(s, after) /\ web' = [web EXCEPT ![s] = after]
  BY <1>1, <1>3, <1>6, <1>7, <1>9, OneRowWritten
<1> QED BY <1>5, <1>8, <1>9

------------------------------------------------------------------------------
(* Pollers: the steps.                                                      *)

(* What a poll may have become while no row is written but quietly.         *)
PollAllowed(w, row0, most) ==
  /\ row0.stage # "IDLE" => row0.session \in WebSession
  /\ row0.stage = "FAIL" => row0.status # "ACTIVE"
  /\ row0.stage \in {"ASK", "FAIL", "STORE"} =>
       (web[row0.session].lease = w => web[row0.session].cookies)
  /\ source = "BINANCE" /\ (row0.proven \/ row0.stage = "STORE") => row0.session \notin stranger
  /\ row0.seen <= most
  /\ row0.stage = "STORE" /\ web[row0.session].lease = w => web[row0.session].polled <= row0.seen

(* A poll as it is, or that has stopped, may be so.                         *)
LEMMA PollAllowedNow ==
  ASSUME PollersInv, NEW w \in Poller, NEW most \in Nat, upstream <= most
  PROVE  PollAllowed(w, poll[w], most) /\ PollAllowed(w, NoPoll, most)
<1>1. PollAllowed(w, poll[w], most)
  <2>1. /\ poll[w].stage # "IDLE" => poll[w].session \in WebSession
        /\ poll[w].stage = "FAIL" => poll[w].status # "ACTIVE"
        /\ poll[w].stage \in {"ASK", "FAIL", "STORE"} =>
             (web[poll[w].session].lease = w => web[poll[w].session].cookies)
    <3>1. LeaseHasCookies
      BY DEF PollersInv
    <3> QED BY <3>1 DEF LeaseHasCookies
  <2>2. source = "BINANCE" /\ (poll[w].proven \/ poll[w].stage = "STORE")
        => poll[w].session \notin stranger
    BY DEF PollersInv, ProvenIsOurs
  <2>3. poll[w].seen \in Nat /\ upstream \in Nat /\ poll[w].seen <= upstream
    BY DEF PollersInv, PollersTypeOK, PollRow, SeenInOrder
  <2>4. poll[w].seen <= most
    BY <2>3
  <2>5. poll[w].stage = "STORE" /\ web[poll[w].session].lease = w
        => web[poll[w].session].polled <= poll[w].seen
    BY DEF PollersInv, SeenInOrder
  <2> QED BY <2>1, <2>2, <2>4, <2>5 DEF PollAllowed
<1>2. PollAllowed(w, NoPoll, most)
  <2>1. NoPoll.stage = "IDLE" /\ NoPoll.seen = 0 /\ ~NoPoll.proven
    BY DEF NoPoll
  <2> QED BY <2>1 DEF PollAllowed
<1> QED BY <1>1, <1>2

(* Then the invariants are kept.                                            *)
LEMMA PollersKept ==
  ASSUME PollersInv, Quiet, UNCHANGED <<source, stranger, evidence>>,
         upstream' \in Nat, upstream <= upstream',
         validation' \in [session : WebSession \cup {NoSuch}, status : WebStatus,
                          primary : BOOLEAN],
         validation' # NoValidation => validation'.session \in WebSession,
         poll' \in [Poller -> PollRow],
         \A w \in Poller : PollAllowed(w, poll'[w], upstream')
  PROVE  PollersInv'
<1> USE PollersAssumption DEF Quiet, RowKept
<1>1. PollersTypeOK'
  BY DEF PollersInv, PollersTypeOK
<1>2. LeaseHasCookies'
  <2>1. ASSUME NEW s \in WebSession, web'[s].revoked
        PROVE  ~web'[s].cookies /\ web'[s].status # "NONE"
    BY <2>1 DEF PollersInv, LeaseHasCookies
  <2>2. ASSUME NEW w \in Poller, poll'[w].stage \in {"ASK", "FAIL", "STORE"}
        PROVE  /\ poll'[w].session \in WebSession
               /\ web'[poll'[w].session].lease = w => web'[poll'[w].session].cookies
    <3>1. poll'[w].session \in WebSession /\ w # NoSuch
      BY <2>2 DEF PollAllowed
    <3> QED BY <2>2, <3>1 DEF PollAllowed
  <2>3. \A w \in Poller : /\ poll'[w].stage # "IDLE" => poll'[w].session \in WebSession
                          /\ poll'[w].stage = "FAIL" => poll'[w].status # "ACTIVE"
    BY DEF PollAllowed
  <2> QED BY <2>1, <2>2, <2>3 DEF LeaseHasCookies, NoValidation
<1>3. ProvenIsOurs'
  BY DEF PollersInv, ProvenIsOurs, EvidenceIsOurs, PollAllowed
<1>4. SeenInOrder'
  <2>1. \A s \in WebSession : web[s].polled \in Nat /\ web[s].polled <= upstream /\ upstream \in Nat
    BY DEF PollersInv, SeenInOrder, PollersTypeOK, WebRow
  <2>2. \A s \in WebSession : web'[s].polled <= upstream'
    BY <2>1
  <2>3. ASSUME NEW w \in Poller, poll'[w].stage = "STORE", web'[poll'[w].session].lease = w
        PROVE  web'[poll'[w].session].polled <= poll'[w].seen
    <3>1. poll'[w].session \in WebSession /\ w # NoSuch
      BY <2>3 DEF PollAllowed
    <3> QED BY <2>3, <3>1 DEF PollAllowed
  <2> QED BY <2>2, <2>3 DEF SeenInOrder, PollAllowed
<1> QED BY <1>1, <1>2, <1>3, <1>4 DEF PollersInv

(* The validation of a session, as it is, may go on.                        *)
LEMMA SameValidation ==
  ASSUME PollersInv, validation' = validation
  PROVE  /\ validation' \in [session : WebSession \cup {NoSuch}, status : WebStatus,
                             primary : BOOLEAN]
         /\ validation' # NoValidation => validation'.session \in WebSession
BY DEF PollersInv, PollersTypeOK, LeaseHasCookies

(* The provider's and the administrator's steps.                            *)
LEMMA PollersAdmin ==
  ASSUME PollersInv,
         \/ UpstreamMoves \/ PrepareWrite
         \/ \E s \in WebSession : PollLeaseEnds(s) \/ SelectPrimary(s) \/ PrepareRead(s)
  PROVE  PollersInv'
<1>a. upstream \in Nat /\ poll \in [Poller -> PollRow] /\ web \in [WebSession -> WebRow]
      /\ PollersTypeOK /\ LeaseHasCookies
  BY DEF PollersInv, PollersTypeOK
<1>b. ASSUME Quiet, poll' = poll, UNCHANGED <<source, stranger, evidence>>,
             upstream' \in Nat, upstream <= upstream',
             validation' \in [session : WebSession \cup {NoSuch}, status : WebStatus,
                              primary : BOOLEAN],
             validation' # NoValidation => validation'.session \in WebSession
      PROVE  PollersInv'
  <2>1. \A w \in Poller : PollAllowed(w, poll'[w], upstream')
    BY <1>b, PollAllowedNow
  <2> QED BY <1>a, <1>b, <2>1, PollersKept
<1>1. ASSUME UpstreamMoves PROVE PollersInv'
  BY <1>1, <1>a, <1>b, NoRowWritten, SameValidation DEF UpstreamMoves
<1>2. ASSUME PrepareWrite PROVE PollersInv'
  <2>1. NoValidation \in [session : WebSession \cup {NoSuch}, status : WebStatus,
                          primary : BOOLEAN]
    BY DEF NoValidation, WebStatus
  <2> QED BY <1>2, <1>a, <1>b, <2>1, QuietPrepare DEF PrepareWrite
<1>3. ASSUME NEW s \in WebSession, PollLeaseEnds(s) \/ SelectPrimary(s) PROVE PollersInv'
  <2>1. Quiet
    BY <1>3, <1>a, QuietLeaseEnd, QuietPrimary
  <2> QED BY <1>3, <1>a, <1>b, <2>1, SameValidation DEF PollLeaseEnds, SelectPrimary
<1>4. ASSUME NEW s \in WebSession, PrepareRead(s) PROVE PollersInv'
  <2>1. [session |-> s, status |-> web[s].status, primary |-> web[s].primary]
          \in [session : WebSession \cup {NoSuch}, status : WebStatus, primary : BOOLEAN]
    BY <1>a DEF WebRow
  <2> QED BY <1>4, <1>a, <1>b, <2>1, NoRowWritten DEF PrepareRead
<1> QED BY <1>1, <1>2, <1>3, <1>4

(* A session is stored, under cookies that were not revoked.                *)
LEMMA PollersCreate ==
  ASSUME PollersInv, NEW s \in WebSession, CreateWebSession(s)
  PROVE  PollersInv'
<1> DEFINE after == [web[s] EXCEPT !.status = "PENDING_VALIDATION", !.cookies = TRUE]
<1>a. /\ web \in [WebSession -> WebRow] /\ web[s] \in WebRow
      /\ UNCHANGED <<source, stranger, poll, validation, upstream, evidence>>
  BY DEF PollersInv, PollersTypeOK, CreateWebSession
<1>1. web' = [web EXCEPT ![s] = after] /\ after \in WebRow
  BY <1>a DEF CreateWebSession, WebRow, WebStatus
<1>2. /\ after.proven = web[s].proven /\ after.polled = web[s].polled /\ after.lease = web[s].lease
      /\ after.revoked = web[s].revoked /\ after.status = "PENDING_VALIDATION"
  BY <1>a DEF WebRow
<1>3. after.cookies = TRUE
  BY <1>a DEF WebRow
<1> HIDE DEF after
<1>4. web' \in [WebSession -> WebRow] /\ web'[s] = after
      /\ \A t \in WebSession \ {s} : web'[t] = web[t]
  BY <1>a, <1>1
<1>5. ~web[s].revoked
  BY DEF CreateWebSession, PollersInv, LeaseHasCookies
<1>6. PollersTypeOK'
  BY <1>a, <1>2, <1>4 DEF PollersInv, PollersTypeOK
<1>7. LeaseHasCookies'
  BY <1>a, <1>2, <1>3, <1>4, <1>5 DEF PollersInv, LeaseHasCookies, NoValidation
<1>8. ProvenIsOurs'
  BY <1>a, <1>2, <1>4 DEF PollersInv, ProvenIsOurs, EvidenceIsOurs
<1>9. SeenInOrder'
  <2>1. \A t \in WebSession : web'[t].polled = web[t].polled /\ web'[t].lease = web[t].lease
    BY <1>2, <1>4
  <2>2. \A w \in Poller : poll[w].stage = "STORE" => poll[w].session \in WebSession
    BY DEF PollersInv, LeaseHasCookies
  <2> QED BY <1>a, <2>1, <2>2 DEF PollersInv, SeenInOrder
<1> QED BY <1>6, <1>7, <1>8, <1>9 DEF PollersInv

(* A session is revoked: its cookies and its lease are gone.                *)
LEMMA PollersRevoke ==
  ASSUME PollersInv, NEW s \in WebSession, RevokeWebSession(s)
  PROVE  PollersInv'
<1> DEFINE after == [web[s] EXCEPT !.status = "REVOKED", !.primary = FALSE, !.cookies = FALSE,
                                 !.lease = NoSuch, !.running = FALSE, !.revoked = TRUE]
<1>a. /\ web \in [WebSession -> WebRow] /\ web[s] \in WebRow
      /\ UNCHANGED <<source, stranger, poll, validation, upstream, evidence>>
  BY DEF PollersInv, PollersTypeOK, RevokeWebSession
<1>1. web' = [web EXCEPT ![s] = after] /\ after \in WebRow
  BY <1>a DEF RevokeWebSession, WebRow, WebStatus
<1>2. /\ after.proven = web[s].proven /\ after.polled = web[s].polled /\ after.lease = NoSuch
      /\ after.status = "REVOKED"
  BY <1>a DEF WebRow
<1>3. after.cookies = FALSE
  BY <1>a DEF WebRow
<1> HIDE DEF after
<1>4. web' \in [WebSession -> WebRow] /\ web'[s] = after
      /\ \A t \in WebSession \ {s} : web'[t] = web[t]
  BY <1>a, <1>1
<1>6. PollersTypeOK'
  BY <1>a, <1>2, <1>4 DEF PollersInv, PollersTypeOK
<1>7. LeaseHasCookies'
  <2>1. \A t \in WebSession : web'[t].revoked => ~web'[t].cookies /\ web'[t].status # "NONE"
    BY <1>2, <1>3, <1>4 DEF PollersInv, LeaseHasCookies
  <2>2. \A w \in Poller : poll[w].session \in WebSession =>
          (web'[poll[w].session].lease = w => /\ web[poll[w].session].lease = w
                                              /\ web'[poll[w].session] = web[poll[w].session])
    BY <1>2, <1>4, PollersAssumption
  <2> QED BY <1>a, <2>1, <2>2 DEF PollersInv, LeaseHasCookies, NoValidation
<1>8. ProvenIsOurs'
  BY <1>a, <1>2, <1>4 DEF PollersInv, ProvenIsOurs, EvidenceIsOurs
<1>9. SeenInOrder'
  <2>1. \A t \in WebSession : /\ web'[t].polled = web[t].polled
                              /\ web'[t].lease \in {web[t].lease, NoSuch}
    BY <1>2, <1>4
  <2>2. \A w \in Poller : poll[w].stage = "STORE" => poll[w].session \in WebSession
    BY DEF PollersInv, LeaseHasCookies
  <2> QED BY <1>a, <2>1, <2>2, PollersAssumption DEF PollersInv, SeenInOrder
<1> QED BY <1>6, <1>7, <1>8, <1>9 DEF PollersInv

(* The step of a poll changes that poll alone; if the rows are kept it is   *)
(* enough to know what it becomes.                                          *)
LEMMA PollMoves ==
  ASSUME PollersInv, Quiet, NEW w \in Poller, NEW row0 \in PollRow,
         poll' = [poll EXCEPT ![w] = row0], PollAllowed(w, row0, upstream),
         UNCHANGED <<source, stranger, validation, upstream, evidence>>
  PROVE  PollersInv'
<1>1. upstream \in Nat /\ poll \in [Poller -> PollRow]
  BY DEF PollersInv, PollersTypeOK
<1>2. poll' \in [Poller -> PollRow]
  BY <1>1
<1>3. \A v \in Poller : PollAllowed(v, poll[v], upstream)
  BY <1>1, PollAllowedNow
<1>4. \A v \in Poller : PollAllowed(v, poll'[v], upstream')
  BY <1>1, <1>3
<1> QED BY <1>1, <1>2, <1>4, SameValidation, PollersKept

(* A poll stops, whatever it does with its lease.                           *)
LEMMA PollStops ==
  ASSUME PollersInv, Quiet, NEW w \in Poller, StopPolling(w),
         UNCHANGED <<source, stranger, validation, upstream, evidence>>
  PROVE  PollersInv'
<1>1. NoPoll \in PollRow
  BY DEF NoPoll, PollRow, WebStatus
<1>2. PollAllowed(w, NoPoll, upstream)
  BY PollAllowedNow DEF PollersInv, PollersTypeOK
<1> QED BY <1>1, <1>2, PollMoves DEF StopPolling

(* A poll under way has a session.                                          *)
LEMMA PollHasSession ==
  ASSUME PollersInv, NEW w \in Poller, poll[w].stage # "IDLE"
  PROVE  /\ poll[w].session \in WebSession /\ web[poll[w].session] \in WebRow
         /\ poll[w] \in PollRow /\ upstream \in Nat /\ PollersTypeOK
         /\ web \in [WebSession -> WebRow] /\ poll \in [Poller -> PollRow]
<1>1. poll[w].session \in WebSession
  BY DEF PollersInv, LeaseHasCookies
<1>2. PollersTypeOK
  BY DEF PollersInv
<1>3. /\ upstream \in Nat
      /\ web \in [WebSession -> WebRow] /\ poll \in [Poller -> PollRow]
  BY <1>2 DEF PollersTypeOK
<1> QED BY <1>1, <1>2, <1>3

(* The steps of a poll before it asks.                                      *)
LEMMA PollPicks ==
  ASSUME PollersInv, NEW w \in Poller, NEW s \in WebSession, PickSession(w, s)
  PROVE  PollersInv'
<1> DEFINE row0 == [stage |-> "LEASE", session |-> s, status |-> web[s].status,
                    proven |-> web[s].proven, seen |-> 0]
<1>1. web[s] \in WebRow /\ upstream \in Nat /\ PollersTypeOK
  BY DEF PollersInv, PollersTypeOK
<1>2. row0 \in PollRow
  BY <1>1 DEF PollRow, WebRow
<1>3. row0.stage = "LEASE" /\ row0.session = s /\ row0.proven = web[s].proven /\ row0.seen = 0
  OBVIOUS
<1>4. poll' = [poll EXCEPT ![w] = row0] /\ Quiet
      /\ UNCHANGED <<source, stranger, validation, upstream, evidence>>
  BY <1>1, NoRowWritten DEF PickSession
<1> HIDE DEF row0
<1>5. PollAllowed(w, row0, upstream)
  BY <1>1, <1>3 DEF PollAllowed, PollersInv, ProvenIsOurs
<1> QED BY <1>2, <1>4, <1>5, PollMoves

(* A poller takes the lease of a session.                                   *)
LEMMA PollLeases ==
  ASSUME PollersInv, NEW w \in Poller, LeaseSession(w)
  PROVE  PollersInv'
<1> DEFINE s == poll[w].session
           after == [web[s] EXCEPT !.lease = w, !.running = TRUE]
<1>a. /\ s \in WebSession /\ web \in [WebSession -> WebRow] /\ poll \in [Poller -> PollRow]
      /\ web[s] \in WebRow /\ PollersTypeOK /\ poll[w].stage = "LEASE"
      /\ UNCHANGED <<source, stranger, validation, upstream, evidence>>
  BY PollHasSession DEF LeaseSession, Polling
<1>1. CASE web' = web /\ StopPolling(w)
  BY <1>a, <1>1, NoRowWritten, PollStops
<1>2. CASE /\ web' = [web EXCEPT ![s].lease = w, ![s].running = TRUE]
           /\ poll' = [poll EXCEPT ![w].stage = "READ"]
  <2>1. web' = [web EXCEPT ![s] = after] /\ after \in WebRow
    BY <1>a, <1>2 DEF WebRow
  <2>2. /\ after.proven = web[s].proven /\ after.polled = web[s].polled /\ after.lease = w
        /\ after.status = web[s].status /\ after.cookies = web[s].cookies
        /\ after.revoked = web[s].revoked
    BY <1>a DEF WebRow
  <2> HIDE DEF after
  <2>3. web' \in [WebSession -> WebRow] /\ web'[s] = after
        /\ \A t \in WebSession \ {s} : web'[t] = web[t]
    BY <1>a, <2>1
  <2>4. poll' \in [Poller -> PollRow] /\ poll'[w].stage = "READ"
        /\ poll'[w].session = s /\ poll'[w].proven = poll[w].proven
        /\ poll'[w].seen = poll[w].seen
        /\ \A v \in Poller \ {w} : poll'[v] = poll[v]
    BY <1>a, <1>2 DEF PollRow
  <2> HIDE DEF s
  <2>5. PollersTypeOK'
    BY <1>a, <2>2, <2>3, <2>4 DEF PollersTypeOK
  <2>6. LeaseHasCookies'
    BY <1>a, <2>2, <2>3, <2>4 DEF s, PollersInv, LeaseHasCookies, NoValidation
  <2>7. ProvenIsOurs'
    BY <1>a, <2>2, <2>3, <2>4 DEF s, PollersInv, ProvenIsOurs, EvidenceIsOurs
  <2>8. SeenInOrder'
    <3>1. \A v \in Poller \ {w} : poll[v].stage = "STORE" => poll[v].session \in WebSession
      BY DEF PollersInv, LeaseHasCookies
    <3> QED BY <1>a, <2>2, <2>3, <2>4, <3>1 DEF PollersInv, SeenInOrder
  <2> QED BY <2>5, <2>6, <2>7, <2>8 DEF PollersInv
<1> QED BY <1>1, <1>2 DEF LeaseSession

(* A poller that holds the lease reads the cookies the session has now.     *)
LEMMA PollReads ==
  ASSUME PollersInv, NEW w \in Poller, ReadCookies(w)
  PROVE  PollersInv'
<1> DEFINE s == poll[w].session
           row0 == [poll[w] EXCEPT !.stage = "ASK"]
<1>a. /\ s \in WebSession /\ poll[w] \in PollRow /\ poll \in [Poller -> PollRow]
      /\ upstream \in Nat /\ PollersTypeOK
      /\ UNCHANGED <<source, stranger, validation, upstream, evidence>>
  BY PollHasSession DEF ReadCookies, Polling
<1>1. CASE StopPolling(w) /\ FailedSession(w, "NONE")
  <2>1. Quiet
    BY <1>a, <1>1, QuietFailure DEF WebStatus
  <2> QED BY <1>a, <1>1, <2>1, PollStops
<1>2. CASE web[s].cookies /\ poll' = [poll EXCEPT ![w].stage = "ASK"] /\ web' = web
  <2>1. row0 \in PollRow /\ poll' = [poll EXCEPT ![w] = row0]
    BY <1>a, <1>2 DEF PollRow
  <2>2. row0.stage = "ASK" /\ row0.session = s /\ row0.proven = poll[w].proven
        /\ row0.seen = poll[w].seen
    BY <1>a DEF PollRow
  <2> HIDE DEF row0
  <2>3. PollAllowed(w, row0, upstream)
    BY <1>a, <1>2, <2>2 DEF PollAllowed, PollersInv, ProvenIsOurs, SeenInOrder
  <2> QED BY <1>a, <1>2, <2>1, <2>3, NoRowWritten, PollMoves
<1> QED BY <1>1, <1>2 DEF ReadCookies

(* What the provider answers is about the shop's own account, or the poll   *)
(* fails.                                                                   *)
LEMMA PollAsks ==
  ASSUME PollersInv, NEW w \in Poller, AskProvider(w)
  PROVE  PollersInv'
<1> DEFINE s == poll[w].session
<1>a. /\ s \in WebSession /\ poll[w] \in PollRow /\ upstream \in Nat /\ PollersTypeOK
      /\ (web[s].lease = w => web[s].cookies) /\ web[s] \in WebRow
      /\ source \in {"BINANCE", "SHOPEE"} /\ poll[w].stage = "ASK"
      /\ UNCHANGED <<source, stranger, web, validation, upstream, evidence>>
  BY PollHasSession DEF AskProvider, Polling, PollersInv, PollersTypeOK, LeaseHasCookies
<1>c. s \in WebSession /\ upstream \in Nat
  BY <1>a
<1>b. web[s].polled <= upstream
  BY <1>a DEF PollersInv, SeenInOrder
<1>1. ASSUME NEW to \in WebStatus \ {"ACTIVE"},
             poll' = [poll EXCEPT ![w] = Answered(w, "FAIL", to)]
      PROVE  PollersInv'
  <2> DEFINE row0 == Answered(w, "FAIL", to)
  <2>1. row0 = [stage |-> "FAIL", session |-> s, status |-> to, proven |-> FALSE, seen |-> 0]
    BY DEF Answered
  <2> HIDE DEF row0
  <2>2. row0 \in PollRow
    BY <1>c, <2>1 DEF PollRow
  <2>3. /\ row0.stage = "FAIL" /\ row0.session = s /\ row0.status = to
        /\ row0.proven = FALSE /\ row0.seen = 0
    BY <2>1
  <2>4. PollAllowed(w, row0, upstream)
    BY <1>a, <2>3 DEF PollAllowed
  <2> QED BY <1>a, <1>1, <2>2, <2>4, NoRowWritten, PollMoves DEF row0
<1>2. ASSUME NEW visible \in BOOLEAN, AccountProof(w, visible) = "PROVEN",
             poll' = [poll EXCEPT ![w] = Answered(w, "STORE", "NONE")]
      PROVE  PollersInv'
  <2> DEFINE row0 == Answered(w, "STORE", "NONE")
  <2>1. row0 = [stage |-> "STORE", session |-> s, status |-> "NONE", proven |-> FALSE,
                seen |-> upstream]
    BY DEF Answered
  <2> HIDE DEF row0
  <2>2. row0 \in PollRow
    BY <1>c, <2>1 DEF PollRow, WebStatus
  <2>3. row0.stage = "STORE" /\ row0.session = s /\ row0.proven = FALSE /\ row0.seen = upstream
    BY <2>1
  <2>4. source = "BINANCE" => s \notin stranger
    BY <1>a, <1>2 DEF AccountProof, PollersInv, ProvenIsOurs
  <2>5. PollAllowed(w, row0, upstream)
    BY <1>a, <1>b, <2>3, <2>4 DEF PollAllowed
  <2> QED BY <1>a, <1>2, <2>2, <2>5, NoRowWritten, PollMoves DEF row0
<1>3. FailedStatus \cup {"ERROR", "NONE"} \subseteq WebStatus \ {"ACTIVE"}
  BY DEF FailedStatus, WebStatus
<1>4. ASSUME NEW visible \in BOOLEAN,
             poll' = [poll EXCEPT ![w] =
                        CASE AccountProof(w, visible) = "PROVEN"   -> Answered(w, "STORE", "NONE")
                          [] AccountProof(w, visible) = "MISMATCH" -> Answered(w, "FAIL", "ERROR")
                          [] OTHER                                 -> Answered(w, "FAIL", "NONE")]
      PROVE  PollersInv'
  <2>1. CASE AccountProof(w, visible) = "PROVEN"
    <3>1. poll' = [poll EXCEPT ![w] = Answered(w, "STORE", "NONE")]
      BY <1>4, <2>1
    <3> QED BY <1>2, <2>1, <3>1
  <2>2. CASE AccountProof(w, visible) = "MISMATCH"
    <3>1. poll' = [poll EXCEPT ![w] = Answered(w, "FAIL", "ERROR")]
      BY <1>4, <2>2
    <3> QED BY <1>1, <1>3, <3>1
  <2>3. CASE AccountProof(w, visible) \notin {"PROVEN", "MISMATCH"}
    <3>1. poll' = [poll EXCEPT ![w] = Answered(w, "FAIL", "NONE")]
      BY <1>4, <2>3
    <3> QED BY <1>1, <1>3, <3>1
  <2> QED BY <2>1, <2>2, <2>3
<1> QED BY <1>1, <1>3, <1>4 DEF AskProvider

(* A poll that fails, or whose process is gone, ends without a batch.       *)
LEMMA PollFails ==
  ASSUME PollersInv, NEW w \in Poller, FailSession(w) \/ CrashPoll(w)
  PROVE  PollersInv'
<1>a. /\ poll[w].session \in WebSession /\ poll[w] \in PollRow /\ PollersTypeOK /\ StopPolling(w)
      /\ UNCHANGED <<source, stranger, validation, upstream, evidence>>
  BY PollHasSession DEF FailSession, CrashPoll, Polling
<1>1. CASE web' = web
  BY <1>a, <1>1, NoRowWritten, PollStops
<1>2. CASE FailedSession(w, "NONE")
  BY <1>a, <1>2, QuietFailure, PollStops DEF WebStatus
<1>3. CASE FailSession(w)
  <2>1. poll[w].status \in WebStatus \ {"ACTIVE"}
    BY <1>a, <1>3 DEF FailSession, PollersInv, LeaseHasCookies, Polling, PollRow
  <2> QED BY <1>a, <1>3, <2>1, QuietFailure, PollStops DEF FailSession
<1> QED BY <1>1, <1>2, <1>3 DEF CrashPoll

(* A batch is stored under the lease, of an account that is the shop's, and *)
(* as seen no earlier than the last one stored.                             *)
LEMMA PollStores ==
  ASSUME PollersInv, NEW w \in Poller, StoreBatch(w)
  PROVE  /\ PollersInv'
         /\ \/ web' = web /\ evidence' = evidence
            \/ /\ ~web[poll[w].session].revoked
               /\ evidence' = evidence \/ evidence'.session = poll[w].session
               /\ web'[poll[w].session].polled >= web[poll[w].session].polled
               /\ \A t \in WebSession \ {poll[w].session} : web'[t] = web[t]
<1> DEFINE s == poll[w].session
           after == [web[s] EXCEPT !.lease = NoSuch, !.running = FALSE, !.status = "ACTIVE",
                                 !.proven = TRUE, !.polled = poll[w].seen]
<1>a. /\ s \in WebSession /\ web \in [WebSession -> WebRow] /\ poll \in [Poller -> PollRow]
      /\ web[s] \in WebRow /\ poll[w] \in PollRow /\ PollersTypeOK /\ upstream \in Nat
      /\ poll[w].stage = "STORE"
  BY PollHasSession DEF StoreBatch, Polling
<1>b. StopPolling(w) /\ UNCHANGED <<source, stranger, validation, upstream>>
  BY DEF StoreBatch
<1>1. CASE UNCHANGED <<web, evidence>>
  <2>1. PollersInv'
    BY <1>a, <1>b, <1>1, NoRowWritten, PollStops
  <2> QED BY <1>1, <2>1
<1>2. CASE HoldsLease(w)
  <2>1. web' = [web EXCEPT ![s] = after] /\ evidence' = Recorded(w)
    BY <1>2 DEF StoreBatch, Released
  <2>2. web[s].lease = w /\ web[s].cookies /\ ~web[s].revoked
    <3>1. web[s].lease = w
      BY <1>2 DEF HoldsLease
    <3>2. LeaseHasCookies
      BY DEF PollersInv
    <3> QED BY <1>a, <3>1, <3>2 DEF LeaseHasCookies
  <2>3. poll[w].seen \in Nat /\ after \in WebRow
    BY <1>a DEF WebRow, WebStatus, PollRow
  <2>4. /\ after.polled = poll[w].seen /\ after.lease = NoSuch /\ after.status = "ACTIVE"
        /\ after.cookies = web[s].cookies /\ after.revoked = web[s].revoked
    BY <1>a DEF WebRow
  <2>5. after.proven = TRUE
    BY <1>a DEF WebRow
  <2> HIDE DEF after
  <2>6. web' \in [WebSession -> WebRow] /\ web'[s] = after
        /\ \A t \in WebSession \ {s} : web'[t] = web[t]
    BY <1>a, <2>1, <2>3
  <2>7. web[s].polled <= poll[w].seen /\ poll[w].seen <= upstream
    BY <1>a, <2>2 DEF PollersInv, SeenInOrder
  <2>8. source = "BINANCE" => s \notin stranger
    BY <1>a DEF PollersInv, ProvenIsOurs
  <2>9. \/ evidence' = evidence
        \/ evidence' = [version |-> poll[w].seen, session |-> s] /\ s \notin stranger
    BY <1>a, <2>1, <2>8 DEF Recorded, PollersTypeOK
  <2>10. \/ evidence' = evidence
         \/ evidence'.session = s /\ s \notin stranger
    <3>1. CASE evidence' = [version |-> poll[w].seen, session |-> s] /\ s \notin stranger
      <4>1. evidence'.session = s
        BY <3>1
      <4> QED BY <3>1, <4>1
    <3> QED BY <2>9, <3>1
  <2>11. evidence' \in [version : Nat, session : WebSession \cup {NoSuch}]
    <3>1. CASE evidence' = evidence
      BY <1>a, <3>1 DEF PollersTypeOK
    <3>2. CASE evidence' = [version |-> poll[w].seen, session |-> s]
      BY <1>a, <2>3, <3>2
    <3> QED BY <2>9, <3>1, <3>2
  <2>12. poll' \in [Poller -> PollRow] /\ poll'[w] = NoPoll
         /\ \A v \in Poller \ {w} : poll'[v] = poll[v]
    BY <1>a, <1>b DEF StopPolling, NoPoll, PollRow, WebStatus
  <2>13. NoPoll.stage = "IDLE" /\ ~NoPoll.proven /\ NoPoll.seen = 0
    BY DEF NoPoll
  <2> HIDE DEF s
  <2>14. PollersTypeOK'
    BY <1>a, <1>b, <2>2, <2>4, <2>5, <2>6, <2>11, <2>12 DEF PollersTypeOK
  <2>15. LeaseHasCookies'
    <3>1. LeaseHasCookies
      BY DEF PollersInv
    <3>2. ASSUME NEW t \in WebSession, web'[t].revoked
          PROVE  ~web'[t].cookies /\ web'[t].status # "NONE"
      BY <2>2, <2>4, <2>6, <3>1, <3>2 DEF LeaseHasCookies
    <3>3. ASSUME NEW v \in Poller, poll'[v].stage \in {"ASK", "FAIL", "STORE"}
          PROVE  /\ poll'[v].session \in WebSession
                 /\ web'[poll'[v].session].lease = v => web'[poll'[v].session].cookies
      BY <2>4, <2>6, <2>12, <2>13, <3>1, <3>3, PollersAssumption DEF LeaseHasCookies
    <3>4. \A v \in Poller : /\ poll'[v].stage # "IDLE" => poll'[v].session \in WebSession
                            /\ poll'[v].stage = "FAIL" => poll'[v].status # "ACTIVE"
      BY <2>12, <2>13, <3>1 DEF LeaseHasCookies
    <3> QED BY <1>b, <3>1, <3>2, <3>3, <3>4 DEF LeaseHasCookies, NoValidation
  <2>16. ProvenIsOurs'
    <3>1. ProvenIsOurs
      BY DEF PollersInv
    <3>2. EvidenceIsOurs'
      BY <1>b, <2>10, <3>1 DEF ProvenIsOurs, EvidenceIsOurs
    <3>3. ASSUME source = "BINANCE", NEW t \in WebSession, web'[t].proven PROVE t \notin stranger
      BY <2>6, <2>8, <3>1, <3>3 DEF ProvenIsOurs
    <3>4. ASSUME source = "BINANCE", NEW v \in Poller, poll'[v].proven \/ poll'[v].stage = "STORE"
          PROVE  poll'[v].session \notin stranger
      BY <2>12, <2>13, <3>1, <3>4 DEF ProvenIsOurs
    <3> QED BY <1>b, <3>2, <3>3, <3>4 DEF ProvenIsOurs
  <2>17. SeenInOrder'
    <3>1. SeenInOrder /\ LeaseHasCookies
      BY DEF PollersInv
    <3>2. \A t \in WebSession : web'[t].polled <= upstream
      BY <2>4, <2>6, <2>7, <3>1 DEF SeenInOrder
    <3>3. \A v \in Poller : poll'[v].seen <= upstream
      BY <1>a, <2>12, <2>13, <3>1 DEF SeenInOrder
    <3>4. ASSUME NEW v \in Poller, poll'[v].stage = "STORE", web'[poll'[v].session].lease = v
          PROVE  web'[poll'[v].session].polled <= poll'[v].seen
      <4>1. v # w /\ poll'[v] = poll[v] /\ poll[v].session \in WebSession /\ v # NoSuch
        BY <2>12, <2>13, <3>1, <3>4, PollersAssumption DEF LeaseHasCookies
      <4>2. web'[poll[v].session] = web[poll[v].session]
        BY <2>4, <2>6, <3>4, <4>1
      <4> QED BY <3>1, <3>4, <4>1, <4>2 DEF SeenInOrder
    <3> QED BY <1>b, <3>2, <3>3, <3>4 DEF SeenInOrder
  <2>18. PollersInv'
    BY <2>14, <2>15, <2>16, <2>17 DEF PollersInv
  <2>19. web[s].polled \in Nat /\ web'[s].polled >= web[s].polled
    BY <1>a, <2>3, <2>4, <2>6, <2>7 DEF WebRow
  <2> QED BY <2>2, <2>6, <2>10, <2>18, <2>19 DEF s
<1> QED BY <1>1, <1>2 DEF StoreBatch

(* Nothing but a stored batch moves the evidence and what was polled.       *)
LEMMA OnlyStoresMove ==
  ASSUME PollersInv, [PollersNext]_pollersVars, \A w \in Poller : ~StoreBatch(w)
  PROVE  evidence' = evidence /\ \A s \in WebSession : web'[s].polled = web[s].polled
<1>a. PollersTypeOK /\ LeaseHasCookies /\ web \in [WebSession -> WebRow]
  BY DEF PollersInv, PollersTypeOK
<1>b. Quiet => \A s \in WebSession : web'[s].polled = web[s].polled
  BY DEF Quiet, RowKept
<1>1. ASSUME UpstreamMoves PROVE evidence' = evidence /\ web' = web
  BY <1>1 DEF UpstreamMoves
<1>2. ASSUME PrepareWrite PROVE evidence' = evidence /\ Quiet
  BY <1>2, <1>a, QuietPrepare DEF PrepareWrite
<1>3. ASSUME NEW s \in WebSession, PollLeaseEnds(s) \/ SelectPrimary(s)
      PROVE  evidence' = evidence /\ Quiet
  BY <1>3, <1>a, QuietLeaseEnd, QuietPrimary DEF PollLeaseEnds, SelectPrimary
<1>4. ASSUME NEW s \in WebSession, CreateWebSession(s) \/ RevokeWebSession(s)
      PROVE  evidence' = evidence /\ \A t \in WebSession : web'[t].polled = web[t].polled
  <2>1. CASE CreateWebSession(s)
    BY <1>a, <2>1 DEF CreateWebSession, WebRow
  <2>2. CASE RevokeWebSession(s)
    BY <1>a, <2>2 DEF RevokeWebSession, WebRow
  <2> QED BY <1>4, <2>1, <2>2
<1>5. ASSUME NEW s \in WebSession, PrepareRead(s) \/ \E w \in Poller : PickSession(w, s)
      PROVE  evidence' = evidence /\ web' = web
  BY <1>5 DEF PrepareRead, PickSession
<1>6. ASSUME NEW w \in Poller, PollStep(w)
      PROVE  evidence' = evidence /\ \A s \in WebSession : web'[s].polled = web[s].polled
  <2>1. CASE LeaseSession(w)
    BY <1>a, <2>1 DEF LeaseSession, WebRow
  <2>2. CASE AskProvider(w)
    BY <2>2 DEF AskProvider
  <2>3. CASE ReadCookies(w) \/ FailSession(w) \/ CrashPoll(w)
    <3>1. poll[w].session \in WebSession /\ poll[w] \in PollRow
      BY <2>3, PollHasSession DEF ReadCookies, FailSession, CrashPoll, Polling
    <3>2. evidence' = evidence
      BY <2>3 DEF ReadCookies, FailSession, CrashPoll
    <3>3. web' = web \/ FailedSession(w, "NONE")
          \/ (FailedSession(w, poll[w].status) /\ poll[w].stage = "FAIL")
      BY <2>3 DEF ReadCookies, FailSession, CrashPoll, Polling
    <3>4. poll[w].stage = "FAIL" => poll[w].status \in WebStatus \ {"ACTIVE"}
      BY <1>a, <3>1 DEF LeaseHasCookies, PollRow
    <3>5. Quiet
      BY <1>a, <3>1, <3>3, <3>4, QuietFailure, NoRowWritten DEF WebStatus
    <3> QED BY <1>b, <3>2, <3>5
  <2> QED BY <1>6, <2>1, <2>2, <2>3 DEF PollStep
<1>7. CASE UNCHANGED pollersVars
  BY <1>7 DEF pollersVars
<1> QED BY <1>b, <1>1, <1>2, <1>3, <1>4, <1>5, <1>6, <1>7 DEF PollersNext, AdminOfSession

(* A step of another service changes nothing here.                          *)
LEMMA PollersUnchanged == PollersInv /\ UNCHANGED pollersVars => PollersInv'
<1> SUFFICES ASSUME PollersInv, UNCHANGED pollersVars PROVE PollersInv'
  OBVIOUS
<1>1. UNCHANGED <<source, stranger, web, poll, validation, upstream, evidence>>
  BY DEF pollersVars
<1>2. PollersTypeOK /\ upstream \in Nat /\ poll \in [Poller -> PollRow]
  BY DEF PollersInv, PollersTypeOK
<1>3. \A w \in Poller : PollAllowed(w, poll'[w], upstream')
  BY <1>1, <1>2, PollAllowedNow
<1> QED BY <1>1, <1>2, <1>3, NoRowWritten, SameValidation, PollersKept

(* The invariants are kept by every step.                                   *)
LEMMA PollersStep == PollersInv /\ [PollersNext]_pollersVars => PollersInv'
<1> SUFFICES ASSUME PollersInv, [PollersNext]_pollersVars PROVE PollersInv'
  OBVIOUS
<1>1. CASE UNCHANGED pollersVars
  BY <1>1, PollersUnchanged
<1> QED
  BY <1>1, PollersAdmin, PollersCreate, PollersRevoke, PollPicks, PollLeases, PollReads, PollAsks,
     PollFails, PollStores
  DEF PollersNext, AdminOfSession, PollStep

(* Whoever's cookies were stored, the variables have their types and the    *)
(* evidence is of money the shop received.                                  *)
THEOREM EvidenceStaysOurs == PollersSpec => [](PollersTypeOK /\ EvidenceIsOurs)
<1>1. PollersInv => PollersTypeOK /\ EvidenceIsOurs
  BY DEF PollersInv, ProvenIsOurs
<1> QED BY <1>1, PollersStart, PollersStep, PTL DEF PollersSpec

(* With any number of polls that overlap, what was recorded of a session is *)
(* not overwritten by an older answer.                                      *)
THEOREM PollsStayInOrder == PollersSpec => PollsInOrder
<1>1. PollersInv /\ [PollersNext]_pollersVars
      => [\A s \in WebSession : web'[s].polled >= web[s].polled]_pollersVars
  <2> SUFFICES ASSUME PollersInv, [PollersNext]_pollersVars, NEW s \in WebSession
               PROVE  web'[s].polled >= web[s].polled
    OBVIOUS
  <2>1. web[s].polled \in Nat
    BY DEF PollersInv, PollersTypeOK, WebRow
  <2>2. CASE \A w \in Poller : ~StoreBatch(w)
    BY <2>1, <2>2, OnlyStoresMove
  <2>3. ASSUME NEW w \in Poller, StoreBatch(w) PROVE web'[s].polled >= web[s].polled
    BY <2>1, <2>3, PollStores
  <2> QED BY <2>2, <2>3
<1> QED BY <1>1, PollersStart, PollersStep, PTL DEF PollersSpec, PollsInOrder

(* Nothing is recorded through a session that was revoked, by whichever     *)
(* polls had read its cookies before.                                       *)
THEOREM RevokedStaysSilent == PollersSpec => RevokedIsSilent
<1>1. PollersInv /\ [PollersNext]_pollersVars
      => [\A s \in WebSession :
            web[s].revoked => /\ web'[s].polled = web[s].polled
                              /\ evidence' = evidence \/ evidence'.session # s]_pollersVars
  <2> SUFFICES ASSUME PollersInv, [PollersNext]_pollersVars, NEW s \in WebSession, web[s].revoked
               PROVE  /\ web'[s].polled = web[s].polled
                      /\ evidence' = evidence \/ evidence'.session # s
    OBVIOUS
  <2>1. CASE \A w \in Poller : ~StoreBatch(w)
    BY <2>1, OnlyStoresMove
  <2>2. ASSUME NEW w \in Poller, StoreBatch(w)
        PROVE  /\ web'[s].polled = web[s].polled
               /\ evidence' = evidence \/ evidence'.session # s
    BY <2>2, PollStores
  <2> QED BY <2>1, <2>2
<1> QED BY <1>1, PollersStart, PollersStep, PTL DEF PollersSpec, RevokedIsSilent

------------------------------------------------------------------------------
(* Services: the composition.                                               *)

(* All services begin as they do alone.                                     *)
LEMMA ServicesBegin ==
  ServicesInit => IntakeInit /\ SmsInit /\ BotInit /\ PollersInit /\ CartInit /\ InventoryInit
BY DEF ServicesInit

(* The service that runs takes one of its steps, the others take none.      *)
LEMMA ServicesMove ==
  [ServicesNext]_servicesVars =>
    /\ [IntakeNext]_intakeVars /\ [SmsNext]_smsVars /\ [BotNext]_botVars
    /\ [PollersNext]_pollersVars /\ [CartNext]_cartVars /\ [InventoryNext]_inventoryVars
BY DEF ServicesNext, servicesVars

(* The service that runs does nothing it could not do alone, and the others *)
(* stand still, so that a behaviour of Services is one of every service.    *)
THEOREM ServicesAreIndependent ==
  ServicesSpec => /\ IntakeSpec /\ SmsSpec /\ BotSpec /\ PollersSpec
                  /\ CartSpec /\ InventorySpec
BY ServicesBegin, ServicesMove, PTL
DEF ServicesSpec, IntakeSpec, SmsSpec, BotSpec, PollersSpec, CartSpec, InventorySpec

(* Every service keeps its types when it runs.                              *)
THEOREM ServicesTypesHold == ServicesSpec => []ServicesTypeOK
<1>1. /\ IntakeTypeOK /\ SmsTypeOK /\ BotTypeOK /\ PollersTypeOK /\ CartTypeOK /\ InventoryTypeOK
      => ServicesTypeOK
  BY DEF ServicesTypeOK
<1>2. QED
  BY <1>1, ServicesAreIndependent, IntakeTypeCorrect, ChargesAreRight, UpdatesAreClaimed,
     EvidenceStaysOurs, CartTypesHold, InventoryTypesHold, PTL

(* Whichever service runs, what is proved of it alone holds: of bank money, *)
(* SMS numbers, the bot's updates, redeems and referrals, the pollers'      *)
(* evidence, the cart and the stock before it is sold.                      *)
THEOREM ServicesKeepTheirBooks ==
  ServicesSpec => /\ [](CreditedOnce /\ OneInvoicePerEvent /\ EvidenceAgrees /\ ConfirmedIsCredited)
                  /\ PaidIsFinal /\ PaidAsPromised
                  /\ []ChargedForWhatWasGot
                  /\ [](OneRunPerLease /\ RedeemSentOnce /\ RedeemRecordTrue /\ SavedUploadsKept)
                  /\ []RewardedOnce
                  /\ []EvidenceIsOurs /\ PollsInOrder /\ RevokedIsSilent
                  /\ [](CartCommandOnce /\ ToldMeansShown /\ RefusedStaysRefused)
                  /\ [](HeldAsClaimed /\ TakenOutStaysOut)
BY ServicesAreIndependent, InvoicesCreditedOnce, EventsPayOnce, CreditsHaveEvidence, PaymentsAreFinal,
   PaymentsAreAsPromised, ConfirmedTransfersAreCredited, ChargesAreRight, UpdatesAreClaimed,
   BatchIsSentOnce, BatchIsComplete, UploadsAreKept, ReferralPaysOnce, EvidenceStaysOurs,
   PollsStayInOrder, RevokedStaysSilent, ChangesAreMadeOnce, ToldChangesAreShown, RefusalsAreFinal,
   HeldFilesAreKept, TakeoutsHold, PTL
==============================================================================
