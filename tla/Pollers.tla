------------------------------ MODULE Pollers ------------------------------
(***************************************************************************)
(* The payment pollers.  Cron jobs and an administrator's validation ask   *)
(* Binance or Shopee, with the cookies of a stored session, what money     *)
(* came in, and record it as evidence that invoices are matched with.  A   *)
(* session is leased for 45 seconds, less than a poll may take, so two     *)
(* polls of it may overlap; the administrator validates, selects and       *)
(* revokes sessions meanwhile.                                             *)
(*                                                                         *)
(* The evidence modelled is one transfer whose status changes upstream,    *)
(* as it is recorded under the account the shop is paid to.                *)
(***************************************************************************)
EXTENDS Naturals

CONSTANTS
  WebSession,   \* BinanceWebSession or ShopeePartnerSession rows
  Poller,       \* polls in progress at a time
  Source,       \* what is polled: "BINANCE", "SHOPEE"
  News,         \* bound: how often the transfer changes upstream
  NoSuch        \* no session, no poller

ASSUME PollersAssumption ==
  /\ NoSuch \notin WebSession \cup Poller
  /\ Source \subseteq {"BINANCE", "SHOPEE"} /\ News \in Nat

VARIABLES
  source,     \* the provider of this behaviour
  stranger,   \* the sessions stored with the cookies of another account
  web,        \* the session rows
  poll,       \* what each poll is doing
  validation, \* the administrator's validation between read and write
  upstream,   \* the transfer at the provider, counted in changes
  evidence    \* its row in the shop

pollersVars == <<source, stranger, web, poll, validation, upstream, evidence>>

WebStatus == {"NONE", "PENDING_VALIDATION", "ACTIVE", "CHALLENGED", "EXPIRED", "ERROR", "REVOKED"}

(* lease: pollingLeaseToken, drawn for each poll; running: it has not       *)
(* expired; proven: accountFingerprint is set; polled: what the last        *)
(* successful poll saw (lastSuccessfulPollAt); revoked: revokedAt is set.   *)
WebRow == [status : WebStatus, primary : BOOLEAN, cookies : BOOLEAN, proven : BOOLEAN,
           lease : Poller \cup {NoSuch}, running : BOOLEAN, polled : Nat, revoked : BOOLEAN]

PollRow == [stage : {"IDLE", "LEASE", "READ", "ASK", "FAIL", "STORE"},
            session : WebSession \cup {NoSuch}, status : WebStatus, proven : BOOLEAN, seen : Nat]

NoPoll == [stage |-> "IDLE", session |-> NoSuch, status |-> "NONE", proven |-> FALSE, seen |-> 0]
NoValidation == [session |-> NoSuch, status |-> "NONE", primary |-> FALSE]

PollersInit ==
  /\ source \in Source /\ stranger \in SUBSET WebSession
  /\ web = [s \in WebSession |-> [status |-> "NONE", primary |-> FALSE, cookies |-> FALSE,
                                  proven |-> FALSE, lease |-> NoSuch, running |-> FALSE,
                                  polled |-> 0, revoked |-> FALSE]]
  /\ poll = [w \in Poller |-> NoPoll]
  /\ validation = NoValidation
  /\ upstream = 0
  /\ evidence = [version |-> 0, session |-> NoSuch]

Pollable(s) == web[s].status \in {"PENDING_VALIDATION", "ACTIVE"}
Polling(w, stage) == poll[w].stage = stage

------------------------------------------------------------------------------
(* The provider and time.                                                   *)

UpstreamMoves ==
  /\ upstream < News
  /\ upstream' = upstream + 1
  /\ UNCHANGED <<source, stranger, web, poll, validation, evidence>>

PollLeaseEnds(s) ==
  /\ web[s].running
  /\ web' = [web EXCEPT ![s].running = FALSE]
  /\ UNCHANGED <<source, stranger, poll, validation, upstream, evidence>>

------------------------------------------------------------------------------
(* The administrator.                                                       *)

(* createBinanceWebSession, createShopeePartnerSession                      *)
CreateWebSession(s) ==
  /\ web[s].status = "NONE"
  /\ web' = [web EXCEPT ![s].status = "PENDING_VALIDATION", ![s].cookies = TRUE]
  /\ UNCHANGED <<source, stranger, poll, validation, upstream, evidence>>

(* Fault: revoking a session leaves its cookies in the row.                 *)
RevokeStatusOnly(s) ==
  /\ web[s].status # "NONE"
  /\ web' = [web EXCEPT ![s].status = "REVOKED", ![s].primary = FALSE,
                        ![s].lease = NoSuch, ![s].running = FALSE, ![s].revoked = TRUE]
  /\ UNCHANGED <<source, stranger, poll, validation, upstream, evidence>>

(* revokeBinanceWebSession, revokeShopeePartnerSession                      *)
RevokeWebSession(s) ==
  /\ web[s].status # "NONE"
  /\ web' = [web EXCEPT ![s].status = "REVOKED", ![s].primary = FALSE, ![s].cookies = FALSE,
                        ![s].lease = NoSuch, ![s].running = FALSE, ![s].revoked = TRUE]
  /\ UNCHANGED <<source, stranger, poll, validation, upstream, evidence>>

(* The database's checks on a Binance row: what is active has cookies and a *)
(* proven account, and one active session of an account is the primary one. *)
RowAllowed(s, row) ==
  /\ row.status = "ACTIVE" => row.cookies /\ row.proven
  /\ row.primary => /\ row.status = "ACTIVE"
                    /\ \A t \in WebSession \ {s} : ~web[t].primary

(* selectPrimaryBinanceWebSession, under its lock; what happens to the      *)
(* session before its last write is caught by the checks.                   *)
SelectPrimary(s) ==
  /\ source = "BINANCE"
  /\ web[s].status = "ACTIVE" /\ web[s].proven /\ web[s].cookies
  /\ web' = [t \in WebSession |-> [web[t] EXCEPT !.primary = t = s]]
  /\ UNCHANGED <<source, stranger, poll, validation, upstream, evidence>>

(* prepareBinanceWebSessionValidation reads the row                         *)
PrepareRead(s) ==
  /\ source = "BINANCE" /\ validation = NoValidation
  /\ web[s].status \notin {"NONE", "REVOKED"} /\ web[s].cookies
  /\ validation' = [session |-> s, status |-> web[s].status, primary |-> web[s].primary]
  /\ UNCHANGED <<source, stranger, web, poll, upstream, evidence>>

(* and writes it by its id, which may bring back a session that was revoked *)
(* or had expired meanwhile; a write the checks refuse changes nothing.     *)
PrepareWrite ==
  LET s == validation.session
      active == validation.status = "ACTIVE"
      row == [web[s] EXCEPT !.status = IF active THEN "ACTIVE" ELSE "PENDING_VALIDATION",
                            !.primary = active /\ validation.primary,
                            !.lease = NoSuch, !.running = FALSE]
  IN
  /\ validation # NoValidation
  /\ web' = IF RowAllowed(s, row) THEN [web EXCEPT ![s] = row] ELSE web
  /\ validation' = NoValidation
  /\ UNCHANGED <<source, stranger, poll, upstream, evidence>>

------------------------------------------------------------------------------
(* A poll (pollSession, pollActiveShopeePartnerSessions).                   *)

(* The candidate is read before it is leased: cron takes the primary        *)
(* session or one that waits for its validation, a validation its own.      *)
PickSession(w, s) ==
  /\ Polling(w, "IDLE") /\ Pollable(s)
  /\ source = "SHOPEE" => web[s].cookies /\ ~web[s].running
  /\ poll' = [poll EXCEPT ![w] = [stage |-> "LEASE", session |-> s, status |-> web[s].status,
                                 proven |-> web[s].proven, seen |-> 0]]
  /\ UNCHANGED <<source, stranger, web, validation, upstream, evidence>>

StopPolling(w) == poll' = [poll EXCEPT ![w] = NoPoll]

LeaseSession(w) ==
  LET s == poll[w].session IN
  /\ Polling(w, "LEASE")
  /\ IF Pollable(s) /\ ~web[s].running
     THEN /\ web' = [web EXCEPT ![s].lease = w, ![s].running = TRUE]
          /\ poll' = [poll EXCEPT ![w].stage = "READ"]
     ELSE StopPolling(w) /\ UNCHANGED web
  /\ UNCHANGED <<source, stranger, validation, upstream, evidence>>

Released(s) == [web[s] EXCEPT !.lease = NoSuch, !.running = FALSE]

(* releaseLease, with the status an answer leads to or the old one: it      *)
(* writes by the token of the poll.                                         *)
FailedSession(w, status) ==
  LET s == poll[w].session IN
  web' = IF web[s].lease # w THEN web
         ELSE [web EXCEPT ![s] = IF status = "NONE" THEN Released(s)
                                 ELSE [Released(s) EXCEPT !.status = status, !.primary = FALSE]]

(* readBinanceWebSessionCredentials, readShopeePartnerCredentials           *)
ReadCookies(w) ==
  LET s == poll[w].session IN
  /\ Polling(w, "READ")
  /\ IF web[s].lease = w /\ Pollable(s) /\ web[s].cookies
     THEN poll' = [poll EXCEPT ![w].stage = "ASK"] /\ UNCHANGED web
     ELSE StopPolling(w) /\ FailedSession(w, "NONE")
  /\ UNCHANGED <<source, stranger, validation, upstream, evidence>>

(* The statuses an answer may lead to, NONE for those that leave it: no     *)
(* login, a challenge, an unknown contract; too many requests, no answer.   *)
FailedStatus == IF source = "BINANCE" THEN {"EXPIRED", "CHALLENGED", "ERROR", "NONE"}
                                      ELSE {"EXPIRED", "ERROR", "NONE"}

(* Fault: an account that nothing contradicts is taken for proven.          *)
ProofByDefault(w, visible) ==
  IF visible /\ poll[w].session \in stranger THEN "MISMATCH" ELSE "PROVEN"

(* classifyBinanceWebAccountProof; the account is visible in its identity   *)
(* or as the receiver of a transfer, or neither is shown.  Shopee records   *)
(* under the account the page itself names.                                 *)
AccountProof(w, visible) ==
  IF source = "SHOPEE" THEN "PROVEN"
  ELSE IF visible THEN IF poll[w].session \in stranger THEN "MISMATCH" ELSE "PROVEN"
  ELSE IF poll[w].status = "ACTIVE" /\ poll[w].proven THEN "PROVEN" ELSE "UNPROVEN"

Answered(w, stage, status) ==
  [stage |-> stage, session |-> poll[w].session, status |-> status, proven |-> FALSE,
   seen |-> IF stage = "STORE" THEN upstream ELSE 0]

(* The requests to the provider and what is concluded from the answers.     *)
AskProvider(w) ==
  /\ Polling(w, "ASK")
  /\ \/ \E status \in FailedStatus :
          poll' = [poll EXCEPT ![w] = Answered(w, "FAIL", status)]
     \/ \E visible \in BOOLEAN :
          poll' = [poll EXCEPT ![w] =
                     CASE AccountProof(w, visible) = "PROVEN"   -> Answered(w, "STORE", "NONE")
                       [] AccountProof(w, visible) = "MISMATCH" -> Answered(w, "FAIL", "ERROR")
                       [] OTHER                                 -> Answered(w, "FAIL", "NONE")]
  /\ UNCHANGED <<source, stranger, web, validation, upstream, evidence>>

FailSession(w) ==
  /\ Polling(w, "FAIL")
  /\ FailedSession(w, poll[w].status)
  /\ StopPolling(w)
  /\ UNCHANGED <<source, stranger, validation, upstream, evidence>>

(* Fault: the evidence is stored whoever has the lease.                     *)
HoldsAnyLease(w) == Pollable(poll[w].session)

HoldsLease(w) == web[poll[w].session].lease = w /\ Pollable(poll[w].session)

(* A Binance row is brought up to date, a Shopee row is written once; what  *)
(* Shopee shows of another account is not about this transfer.              *)
Recorded(w) ==
  LET s == poll[w].session IN
  IF \/ poll[w].seen = 0
     \/ source = "SHOPEE" /\ (evidence.version > 0 \/ s \in stranger)
  THEN evidence
  ELSE [version |-> poll[w].seen, session |-> s]

(* persistBatch                                                             *)
StoreBatch(w) ==
  LET s == poll[w].session IN
  /\ Polling(w, "STORE")
  /\ IF HoldsLease(w)
     THEN /\ web' = [web EXCEPT ![s] = [Released(s) EXCEPT !.status = "ACTIVE", !.proven = TRUE,
                                                           !.polled = poll[w].seen]]
          /\ evidence' = Recorded(w)
     ELSE UNCHANGED <<web, evidence>>
  /\ StopPolling(w)
  /\ UNCHANGED <<source, stranger, validation, upstream>>

(* An error, also of the last transaction, after which the lease is         *)
(* released, or the process stops, or the route's 30 seconds are over.      *)
CrashPoll(w) ==
  /\ ~Polling(w, "IDLE")
  /\ StopPolling(w)
  /\ \/ UNCHANGED web
     \/ ~Polling(w, "LEASE") /\ FailedSession(w, "NONE")
  /\ UNCHANGED <<source, stranger, validation, upstream, evidence>>

------------------------------------------------------------------------------
PollStep(w) ==
  \/ LeaseSession(w) \/ ReadCookies(w) \/ AskProvider(w) \/ FailSession(w) \/ StoreBatch(w)
  \/ CrashPoll(w)

AdminOfSession(s) ==
  \/ CreateWebSession(s) \/ RevokeWebSession(s) \/ SelectPrimary(s)
  \/ PrepareRead(s)

PollersNext ==
  \/ UpstreamMoves \/ PrepareWrite
  \/ \E s \in WebSession : PollLeaseEnds(s) \/ AdminOfSession(s)
  \/ \E w \in Poller, s \in WebSession : PickSession(w, s)
  \/ \E w \in Poller : PollStep(w)

PollersSpec == PollersInit /\ [][PollersNext]_pollersVars

------------------------------------------------------------------------------
(* Properties.                                                              *)

(* The types of all variables; an active Binance session has its cookies.   *)
PollersTypeOK ==
  /\ source \in {"BINANCE", "SHOPEE"} /\ stranger \subseteq WebSession
  /\ web \in [WebSession -> WebRow] /\ poll \in [Poller -> PollRow]
  /\ validation \in [session : WebSession \cup {NoSuch}, status : WebStatus, primary : BOOLEAN]
  /\ upstream \in Nat
  /\ evidence \in [version : Nat, session : WebSession \cup {NoSuch}]
  /\ \A s \in WebSession : source = "BINANCE" /\ web[s].status = "ACTIVE" =>
                            web[s].cookies /\ web[s].proven

(* From the moment a session is revoked nothing is recorded through it, not *)
(* by the polls that had read its cookies before, and not when a validation *)
(* under way brings its row back.                                           *)
RevokedIsSilent ==
  [][\A s \in WebSession :
       web[s].revoked => /\ web'[s].polled = web[s].polled
                         /\ evidence' = evidence \/ evidence'.session # s]_pollersVars

(* The polls of a session are recorded in the order in which they asked: an *)
(* answer that took longer than the lease does not overwrite a newer one.   *)
PollsInOrder ==
  [][\A s \in WebSession : web'[s].polled >= web[s].polled]_pollersVars

(* Money that came into another account is never evidence for an invoice of *)
(* the shop, whoever's cookies were stored, when or whatever was shown.     *)
EvidenceIsOurs == evidence.session \notin stranger
==============================================================================
