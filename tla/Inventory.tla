------------------------------ MODULE Inventory ------------------------------
(***************************************************************************)
(* The stock files of one product between upload and sale                  *)
(* (src/src/server/stock): upload, edit, health check, archive, restore,   *)
(* takeout, permanent deletion, the four rules for banned files and the    *)
(* owner's approval.  A check reads the file, asks the account service     *)
(* without a lock and records the answer in a transaction of its own; a    *)
(* restore reads and writes in two statements.  Every other operation is   *)
(* one transaction, or one read and one update that compares what it read  *)
(* or is refused by a foreign key.                                         *)
(* Module Store has the same files with checks in one step and the orders  *)
(* in full; here an order is only what claims, releases and delivers them. *)
(***************************************************************************)
EXTENDS Naturals, Sequences, FiniteSets, SequencesExt

CONSTANTS
  StockFile,        \* stock rows, numbered in the order they were created
  Content,          \* accounts a file may hold
  Generic,          \* contents that are no account: the checker accepts them
  Policy,           \* the rules for banned files the owner chooses among
  HealthAnswer,     \* what the account service may answer
  Checker,          \* "cron", the scheduled run, and "admin", checks by hand
  Restorer,         \* requests of admins that restore a file
  RunSize,          \* files a scheduled run takes (STOCK_AUTO_CHECK_BATCH_SIZE)
  MaxArchives,      \* bound: how often files are archived
  RequireHealthy,   \* STOCK_REQUIRE_HEALTHY
  None

Policies == {"BLOCKED", "ALLOW_HTTP_401", "OWNER_APPROVAL", "RELOGIN_REQUIRED"}
Answers == {"HEALTHY", "HTTP_401", "HTTP_402", "HTTP_OTHER", "NO_ANSWER"}

ASSUME FileAssumption == StockFile \subseteq Nat \ {0}
ASSUME ContentAssumption == Generic \subseteq Content /\ None \notin Content
ASSUME ChoiceAssumption == /\ Policy \subseteq Policies /\ HealthAnswer \subseteq Answers
                           /\ Checker \subseteq {"cron", "admin"}
ASSUME BoundAssumption == RunSize \in Nat \ {0} /\ MaxArchives \in Nat
ASSUME SettingAssumption == RequireHealthy \in BOOLEAN

VARIABLES
  status,       \* DigitalStockStatus
  content,      \* encryptedPayload, None for a file that does not exist
  archivedAt,   \* number of the archiving that is in force, 0 for none
  health,       \* healthStatus
  http401,      \* healthHttpStatus = 401
  approved,     \* bannedSaleApprovedAt is set
  receipt,      \* a SentDelivery row refers to the file
  policy,       \* Product.bannedStockPolicy
  archivings,   \* how often a file was archived
  checkedOrder, \* files with lastCheckedAt set, the oldest check first
  checkRun,     \* files the scheduled run still has to check
  check,        \* what each checker is doing
  restore,      \* what each restoring request has read
  verdict,      \* history: the last answer recorded since the last edit
  okayed,       \* history: the content the owner approved, until it is healthy
  claimedAs,    \* history: the file as the order that took it found it
  takenOut      \* history: the archiving by which an admin took the file out

stockVars == <<status, content, archivedAt, health, http401, approved, receipt>>
checkVars == <<checkedOrder, checkRun, check>>
historyVars == <<verdict, okayed, claimedAs, takenOut>>
inventoryVars == <<stockVars, policy, archivings, checkVars, restore, historyVars>>

NoCheck == [at |-> "idle", file |-> 0, content |-> None, answer |-> None]
NoRestore == [file |-> 0, archivedAt |-> 0, to |-> None]

Statuses == {"ABSENT", "AVAILABLE", "RESERVED", "DELIVERED", "BANNED", "DISABLED",
             "DELETED"}
Archived(f) == archivedAt[f] # 0
Exists(f) == status[f] \notin {"ABSENT", "DELETED"}

(* Referenced: an order holds or got the file, or a receipt names it.       *)
Referenced(f) == status[f] \in {"RESERVED", "DELIVERED"} \/ receipt[f]

(* isSellableStock and sellableStockWhere: the rule every claim uses.       *)
Permitted(f) ==
  \/ health[f] = "HEALTHY"
  \/ health[f] # "BANNED" /\ ~RequireHealthy
  \/ /\ health[f] = "BANNED"
     /\ \/ approved[f] /\ policy = "OWNER_APPROVAL"
        \/ http401[f] /\ policy = "ALLOW_HTTP_401"

OnOffer(f) == status[f] = "AVAILABLE" /\ ~Archived(f) /\ Permitted(f)

InventoryTypeOK ==
  /\ status \in [StockFile -> Statuses]
  /\ content \in [StockFile -> Content \cup {None}]
  /\ archivedAt \in [StockFile -> 0 .. MaxArchives]
  /\ health \in [StockFile -> {"UNKNOWN", "HEALTHY", "BANNED", "ERROR"}]
  /\ http401 \in [StockFile -> BOOLEAN] /\ approved \in [StockFile -> BOOLEAN]
  /\ receipt \in [StockFile -> BOOLEAN]
  /\ policy \in Policies /\ archivings \in 0 .. MaxArchives
  /\ checkedOrder \in Seq(StockFile) /\ checkRun \subseteq StockFile
  /\ \A c \in Checker : /\ check[c].at \in {"idle", "asking", "answered"}
                        /\ check[c].file \in StockFile \cup {0}
                        /\ check[c].content \in Content \cup {None}
                        /\ check[c].answer \in Answers \cup {None}
  /\ \A a \in Restorer : /\ restore[a].file \in StockFile \cup {0}
                         /\ restore[a].archivedAt \in 0 .. MaxArchives
                         /\ restore[a].to \in Statuses \cup {None}
  /\ verdict \in [StockFile -> Answers \cup {None}]
  /\ okayed \in [StockFile -> Content \cup {None}]
  /\ claimedAs \in [StockFile -> (Content \cup {None}) \X
                            {"UNKNOWN", "HEALTHY", "BANNED", "ERROR"}]
  /\ takenOut \in [StockFile -> 0 .. MaxArchives]

InventoryInit ==
  /\ status = [f \in StockFile |-> "ABSENT"] /\ content = [f \in StockFile |-> None]
  /\ archivedAt = [f \in StockFile |-> 0] /\ health = [f \in StockFile |-> "UNKNOWN"]
  /\ http401 = [f \in StockFile |-> FALSE] /\ approved = [f \in StockFile |-> FALSE]
  /\ receipt = [f \in StockFile |-> FALSE]
  /\ policy = "BLOCKED" /\ archivings = 0
  /\ checkedOrder = <<>> /\ checkRun = {}
  /\ check = [c \in Checker |-> NoCheck] /\ restore = [a \in Restorer |-> NoRestore]
  /\ verdict = [f \in StockFile |-> None] /\ okayed = [f \in StockFile |-> None]
  /\ claimedAs = [f \in StockFile |-> <<None, "UNKNOWN">>]
  /\ takenOut = [f \in StockFile |-> 0]

------------------------------------------------------------------------------
(* Upload and edit.                                                         *)

(* credentialFingerprint is unique over all rows.                           *)
Unused(c, f) == \A g \in StockFile \ {f} : content[g] # c

(* importStockFiles: an account waits for its first check.                  *)
ImportFile(f, c) ==
  /\ status[f] = "ABSENT" /\ \A g \in StockFile : g < f => status[g] # "ABSENT"
  /\ Unused(c, f)
  /\ status' = [status EXCEPT ![f] = "AVAILABLE"]
  /\ content' = [content EXCEPT ![f] = c]
  /\ health' = [health EXCEPT ![f] = IF c \in Generic THEN "HEALTHY" ELSE "UNKNOWN"]
  /\ UNCHANGED <<archivedAt, http401, approved, receipt, policy, archivings, checkVars,
                 restore, historyVars>>

(* lastCheckedAt of the file is cleared, or about to be set again.          *)
OthersChecked(f) ==
  IF f \in ToSet(checkedOrder)
  THEN RemoveAt(checkedOrder, CHOOSE i \in DOMAIN checkedOrder : checkedOrder[i] = f)
  ELSE checkedOrder

(* canEditStockItem                                                         *)
Editable(f) == status[f] \in {"AVAILABLE", "BANNED", "DISABLED"} /\ ~Referenced(f)

EditWith(f, c, approval) ==
  /\ Editable(f)
  /\ Unused(c, f)
  /\ content' = [content EXCEPT ![f] = c]
  /\ status' = [status EXCEPT ![f] = IF Archived(f) THEN "DISABLED" ELSE "AVAILABLE"]
  /\ health' = [health EXCEPT ![f] = "UNKNOWN"]
  /\ http401' = [http401 EXCEPT ![f] = FALSE]
  /\ approved' = [approved EXCEPT ![f] = approval]
  /\ checkedOrder' = OthersChecked(f)
  /\ verdict' = [verdict EXCEPT ![f] = None]
  /\ UNCHANGED <<archivedAt, receipt, policy, archivings, checkRun, check, restore, okayed,
                 claimedAs, takenOut>>

(* Fault: the owner's approval survives an edit.                            *)
EditKeepingApproval(f, c) == EditWith(f, c, approved[f])

(* updateStockItem: whatever the edit changed, every verdict is forgotten   *)
(* and the approval with it.                                                *)
EditFile(f, c) == EditWith(f, c, FALSE)

------------------------------------------------------------------------------
(* Health checks (health-check.ts).                                         *)

(* checkStockItem gives up on these, the automatic run passes over more.    *)
Checkable(f) == Exists(f) /\ ~Archived(f) /\ status[f] # "RESERVED"

AutoChecked(f) == status[f] \in {"AVAILABLE", "BANNED", "DELIVERED"} /\ ~Archived(f)
Unchecked(f) == AutoChecked(f) /\ f \notin ToSet(checkedOrder)

CheckedEarlier(f, g) ==
  \E i, j \in DOMAIN checkedOrder : i < j /\ checkedOrder[i] = f /\ checkedOrder[j] = g

(* Fault: files checked before come first.                                  *)
CheckedFirst(f, g) ==
  IF Unchecked(g) THEN Unchecked(f) => f < g ELSE CheckedEarlier(f, g)

(* findAutoCheckCandidateIds: unchecked files first, in the order they were *)
(* created, then the file whose check is the oldest.                        *)
DueBefore(f, g) ==
  IF Unchecked(f) THEN Unchecked(g) => f < g ELSE CheckedEarlier(f, g)

(* checkDueStockItems; one run at a time (activeRun of the cron route).     *)
StartRun ==
  LET due == {f \in StockFile : AutoChecked(f)} IN
  /\ checkRun = {} /\ check["cron"] = NoCheck
  /\ \E picked \in SUBSET due :
       /\ Cardinality(picked) = IF Cardinality(due) < RunSize THEN Cardinality(due) ELSE RunSize
       /\ \A f \in picked : \A g \in due \ picked : DueBefore(f, g)
       /\ checkRun' = picked
  /\ UNCHANGED <<stockVars, policy, archivings, checkedOrder, check, restore,
                 historyVars>>

AskService(c, f) ==
  /\ check' = [check EXCEPT ![c] = [at |-> "asking", file |-> f, content |-> content[f],
                                    answer |-> None]]
  /\ UNCHANGED <<stockVars, policy, archivings, checkedOrder, restore, historyVars>>

(* checkStockItems: an item that cannot be checked does not stop the run.   *)
CheckOneOfRun ==
  /\ check["cron"] = NoCheck
  /\ \E f \in checkRun :
       /\ checkRun' = checkRun \ {f}
       /\ IF Checkable(f) THEN AskService("cron", f)
          ELSE UNCHANGED <<stockVars, policy, archivings, checkedOrder, check, restore,
                           historyVars>>

CheckByAdmin(f) ==
  /\ "admin" \in Checker /\ check["admin"] = NoCheck /\ Checkable(f)
  /\ AskService("admin", f)
  /\ UNCHANGED checkRun

(* requestHealthCheck: what is no account is healthy without being asked.   *)
GetAnswer(c, answer) ==
  LET k == check[c] IN
  /\ k.at = "asking"
  /\ k.content \in Generic => answer = "HEALTHY"
  /\ check' = [check EXCEPT ![c] = [at |-> "answered", file |-> k.file,
                                    content |-> k.content, answer |-> answer]]
  /\ UNCHANGED <<stockVars, policy, archivings, checkedOrder, checkRun, restore,
                 historyVars>>

(* classifyHealthStatus                                                     *)
Classified(answer) ==
  CASE answer = "HEALTHY" -> "HEALTHY"
    [] answer \in {"HTTP_401", "HTTP_402"} -> "BANNED"
    [] OTHER -> "ERROR"

(* nextStockStatus                                                          *)
CheckedStatus(f, answer) ==
  CASE status[f] = "DELIVERED" -> "DELIVERED"
    [] status[f] # "DELIVERED" /\ Classified(answer) = "BANNED" ->
         IF \/ approved[f] /\ policy = "OWNER_APPROVAL"
            \/ answer = "HTTP_401" /\ policy = "ALLOW_HTTP_401"
         THEN "AVAILABLE" ELSE "BANNED"
    [] status[f] = "BANNED" /\ answer = "HEALTHY" -> "AVAILABLE"
    [] OTHER -> status[f]

(* An answer without an HTTP status leaves healthHttpStatus as it was.      *)
RecordVerdict(f, asked, answer) ==
  /\ status' = [status EXCEPT ![f] = CheckedStatus(f, answer)]
  /\ health' = [health EXCEPT ![f] = Classified(answer)]
  /\ http401' = [http401 EXCEPT ![f] = IF asked \in Generic \/ answer = "NO_ANSWER" THEN @
                                       ELSE answer = "HTTP_401"]
  /\ approved' = [approved EXCEPT ![f] = @ /\ answer # "HEALTHY"]
  /\ checkedOrder' = Append(OthersChecked(f), f)
  /\ verdict' = [verdict EXCEPT ![f] = answer]
  /\ okayed' = [okayed EXCEPT ![f] = IF answer = "HEALTHY" THEN None ELSE @]
  /\ UNCHANGED <<content, archivedAt, receipt, claimedAs, takenOut>>

(* Fault: what the check read before it asked is not read again.            *)
CheckableOnce(f) == Exists(f)

(* The row as it is now decides, under the product's lock.                  *)
StillCheckable(f) == Exists(f) /\ ~Archived(f) /\ status[f] \notin {"RESERVED", "DISABLED"}

RecordAnswer(c) ==
  LET k == check[c] IN
  /\ k.at = "answered"
  /\ check' = [check EXCEPT ![c] = NoCheck]
  /\ IF StillCheckable(k.file) THEN RecordVerdict(k.file, k.content, k.answer)
     ELSE UNCHANGED <<stockVars, checkedOrder, historyVars>>
  /\ UNCHANGED <<policy, archivings, checkRun, restore>>

------------------------------------------------------------------------------
(* Archive, restore, takeout and deletion (admin-actions.ts, admin-takeout) *)

Archive(f, to) ==
  /\ archivings < MaxArchives
  /\ archivings' = archivings + 1
  /\ archivedAt' = [archivedAt EXCEPT ![f] = archivings + 1]
  /\ status' = [status EXCEPT ![f] = to]

(* archiveStockItem                                                         *)
ArchiveFile(f) ==
  /\ Exists(f) /\ ~Archived(f) /\ status[f] # "RESERVED"
  /\ Archive(f, IF status[f] = "DELIVERED" THEN "DELIVERED" ELSE "DISABLED")
  /\ UNCHANGED <<content, health, http401, approved, receipt, policy, checkVars, restore,
                 historyVars>>

(* restoreTargetStatus                                                      *)
RestoredStatus(f) ==
  IF status[f] = "DELIVERED" THEN "DELIVERED"
  ELSE IF health[f] = "BANNED" /\ ~Permitted(f) THEN "BANNED" ELSE "AVAILABLE"

(* restoreStockItem reads the file and the rule without a lock ...          *)
ReadForRestore(a, f) ==
  /\ restore[a] = NoRestore
  /\ Archived(f) /\ status[f] \in {"DELIVERED", "DISABLED"}
  /\ restore' = [restore EXCEPT ![a] = [file |-> f, archivedAt |-> archivedAt[f],
                                        to |-> RestoredStatus(f)]]
  /\ UNCHANGED <<stockVars, policy, archivings, checkVars, historyVars>>

(* Fault: the update only asks that the file is archived.                   *)
AnyArchiving(r) ==
  /\ Archived(r.file)
  /\ status[r.file] = IF r.to = "DELIVERED" THEN "DELIVERED" ELSE "DISABLED"

(* ... and writes only if the same archiving is still in force.             *)
SameArchiving(r) ==
  /\ archivedAt[r.file] = r.archivedAt
  /\ status[r.file] = IF r.to = "DELIVERED" THEN "DELIVERED" ELSE "DISABLED"

WriteRestore(a) ==
  LET r == restore[a] IN
  /\ r # NoRestore
  /\ restore' = [restore EXCEPT ![a] = NoRestore]
  /\ IF SameArchiving(r)
     THEN /\ status' = [status EXCEPT ![r.file] = r.to]
          /\ archivedAt' = [archivedAt EXCEPT ![r.file] = 0]
          /\ takenOut' = [takenOut EXCEPT ![r.file] = IF @ = r.archivedAt THEN 0 ELSE @]
     ELSE UNCHANGED <<status, archivedAt, takenOut>>
  /\ UNCHANGED <<content, health, http401, approved, receipt, policy, archivings,
                 checkVars, verdict, okayed, claimedAs>>

(* canTakeUnsoldStock                                                       *)
Takeable(f) ==
  /\ status[f] \in {"AVAILABLE", "BANNED", "DISABLED"} /\ ~Referenced(f)
  /\ status[f] = "BANNED" \/ health[f] = "BANNED"

(* downloadAdminStock with archive: the admin keeps a banned file.  Without *)
(* archive, or for a file archived before, nothing is written.              *)
TakeOut(f) ==
  /\ Takeable(f) /\ ~Archived(f)
  /\ Archive(f, "DISABLED")
  /\ approved' = [approved EXCEPT ![f] = FALSE]
  /\ takenOut' = [takenOut EXCEPT ![f] = archivings + 1]
  /\ UNCHANGED <<content, health, http401, receipt, policy, checkVars, restore,
                 verdict, okayed, claimedAs>>

(* permanentlyDeleteStockItem(s): the row is gone with all it says.         *)
DeleteFile(f) ==
  /\ Editable(f)
  /\ status' = [status EXCEPT ![f] = "DELETED"]
  /\ content' = [content EXCEPT ![f] = None]
  /\ archivedAt' = [archivedAt EXCEPT ![f] = 0]
  /\ health' = [health EXCEPT ![f] = "UNKNOWN"]
  /\ http401' = [http401 EXCEPT ![f] = FALSE]
  /\ approved' = [approved EXCEPT ![f] = FALSE]
  /\ checkedOrder' = OthersChecked(f)
  /\ verdict' = [verdict EXCEPT ![f] = None]
  /\ okayed' = [okayed EXCEPT ![f] = None]
  /\ takenOut' = [takenOut EXCEPT ![f] = 0]
  /\ UNCHANGED <<receipt, policy, archivings, checkRun, check, restore, claimedAs>>

------------------------------------------------------------------------------
(* The rules for banned files (banned-recovery.ts, the banned-policy route) *)

(* setBannedStockSaleApproval, approved: canApproveBannedStockForSale       *)
ApproveSale(f) ==
  /\ policy = "OWNER_APPROVAL"
  /\ status[f] = "BANNED" /\ health[f] = "BANNED"
  /\ ~Archived(f) /\ ~Referenced(f) /\ ~approved[f]
  /\ status' = [status EXCEPT ![f] = "AVAILABLE"]
  /\ approved' = [approved EXCEPT ![f] = TRUE]
  /\ okayed' = [okayed EXCEPT ![f] = content[f]]
  /\ UNCHANGED <<content, archivedAt, health, http401, receipt, policy, archivings,
                 checkVars, restore, verdict, claimedAs, takenOut>>

(* setBannedStockSaleApproval, not approved: it asks who holds the file,    *)
(* not whether the file is archived, banned or approved.                    *)
RevokeApproval(f) ==
  /\ Exists(f) /\ ~Referenced(f)
  /\ status' = [status EXCEPT ![f] = "BANNED"]
  /\ approved' = [approved EXCEPT ![f] = FALSE]
  /\ UNCHANGED <<content, archivedAt, health, http401, receipt, policy, archivings,
                 checkVars, restore, historyVars>>

(* Files the route moves: banned, not archived and held by no order.        *)
Unallocated(f) ==
  /\ ~Archived(f) /\ health[f] = "BANNED" /\ status[f] \in {"AVAILABLE", "BANNED"}

ForSaleUnder(p, f) ==
  \/ p = "OWNER_APPROVAL" /\ approved[f]
  \/ p = "ALLOW_HTTP_401" /\ http401[f]

SetBannedPolicy(p) ==
  /\ policy' = p
  /\ status' = [f \in StockFile |-> IF ~Unallocated(f) THEN status[f]
                               ELSE IF ForSaleUnder(p, f) THEN "AVAILABLE" ELSE "BANNED"]
  /\ approved' = [f \in StockFile |-> approved[f] /\ (Unallocated(f) => p = "OWNER_APPROVAL")]
  /\ UNCHANGED <<content, archivedAt, health, http401, receipt, archivings, checkVars,
                 restore, historyVars>>

------------------------------------------------------------------------------
(* What orders do with a file.                                              *)

(* The claim of checkout, of the preorder allocator and of an assignment.   *)
ClaimFile(f) ==
  /\ OnOffer(f)
  /\ status' = [status EXCEPT ![f] = "RESERVED"]
  /\ claimedAs' = [claimedAs EXCEPT ![f] = <<content[f], health[f]>>]
  /\ UNCHANGED <<content, archivedAt, health, http401, approved, receipt, policy,
                 archivings, checkVars, restore, verdict, okayed, takenOut>>

(* The worker's receipt for the file; it outlives a refund.                 *)
ReserveReceipt(f) ==
  /\ status[f] = "RESERVED" /\ ~receipt[f]
  /\ receipt' = [receipt EXCEPT ![f] = TRUE]
  /\ UNCHANGED <<status, content, archivedAt, health, http401, approved, policy,
                 archivings, checkVars, restore, historyVars>>

OrderMoves(f, to) ==
  /\ status[f] = "RESERVED"
  /\ status' = [status EXCEPT ![f] = to]
  /\ UNCHANGED <<content, archivedAt, health, http401, approved, receipt, policy,
                 archivings, checkVars, restore, verdict, okayed, takenOut>>

(* restore of a refunded order's files (wallet/refund.ts)                   *)
ReleaseFile(f) ==
  /\ OrderMoves(f, IF health[f] = "BANNED" /\ ~Permitted(f) THEN "BANNED" ELSE "AVAILABLE")
  /\ claimedAs' = [claimedAs EXCEPT ![f] = <<None, "UNKNOWN">>]

(* deliveredStockState; what is reserved is not archived.                   *)
DeliverFile(f) ==
  /\ receipt[f]
  /\ OrderMoves(f, "DELIVERED")
  /\ UNCHANGED claimedAs

------------------------------------------------------------------------------
AnswerStep(c) == RecordAnswer(c) \/ \E x \in HealthAnswer : GetAnswer(c, x)

CronStep ==
  /\ "cron" \in Checker
  /\ StartRun \/ CheckOneOfRun \/ AnswerStep("cron")

FileStep(f) ==
  \/ \E c \in Content : ImportFile(f, c) \/ EditFile(f, c)
  \/ CheckByAdmin(f)
  \/ ArchiveFile(f) \/ TakeOut(f) \/ DeleteFile(f)
  \/ \E a \in Restorer : ReadForRestore(a, f)
  \/ ApproveSale(f) \/ RevokeApproval(f)
  \/ ClaimFile(f) \/ ReserveReceipt(f) \/ ReleaseFile(f) \/ DeliverFile(f)

InventoryNext ==
  \/ CronStep
  \/ \E f \in StockFile : FileStep(f)
  \/ \E c \in Checker \ {"cron"} : AnswerStep(c)
  \/ \E a \in Restorer : WriteRestore(a)
  \/ \E p \in Policy : SetBannedPolicy(p)

InventorySpec == InventoryInit /\ [][InventoryNext]_inventoryVars

(* The scheduler calls the route every 30 seconds, and a request to the     *)
(* account service ends after 15 seconds with or without an answer.         *)
InventoryFairness == WF_inventoryVars(CronStep)

------------------------------------------------------------------------------
(* Properties.                                                              *)

(* A file an order holds is the file the order took: nothing an admin, the  *)
(* checker or the owner does, started before or after the claim, takes it    *)
(* from the order, changes its content or its health or archives it, and a  *)
(* delivered file still has the content that was sold.                      *)
HeldAsClaimed ==
  \A f \in StockFile :
    /\ claimedAs[f][1] # None => status[f] \in {"RESERVED", "DELIVERED"}
    /\ status[f] = "RESERVED" =>
         ~Archived(f) /\ <<content[f], health[f]>> = claimedAs[f]
    /\ status[f] = "DELIVERED" => content[f] = claimedAs[f][1]

(* A delivered file is never stock again.                                   *)
DeliveredForGood ==
  [][\A f \in StockFile : status[f] = "DELIVERED" => status'[f] = "DELIVERED"]_inventoryVars

(* A file an admin took out stays archived and unsold until a restore that  *)
(* was asked for after the takeout: one that read the file before it cannot *)
(* bring the file back.                                                     *)
TakenOutStaysOut ==
  \A f \in StockFile : takenOut[f] # 0 =>
    archivedAt[f] = takenOut[f] /\ status[f] \in {"DISABLED", "BANNED"}

(* What is on offer is permitted by the last verdict recorded about the     *)
(* file since it was edited: healthy, or no account, or banned and let      *)
(* through by the rule now in force, with HTTP 401 only under               *)
(* ALLOW_HTTP_401, and under OWNER_APPROVAL only if the owner approved the  *)
(* content the file has now.                                                *)
OfferIsPermitted ==
  \A f \in StockFile : OnOffer(f) =>
    \/ verdict[f] = "HEALTHY"
    \/ verdict[f] = None /\ content[f] \in Generic
    \/ policy = "ALLOW_HTTP_401" /\ verdict[f] = "HTTP_401"
    \/ /\ policy = "OWNER_APPROVAL" /\ verdict[f] \in {"HTTP_401", "HTTP_402"}
       /\ okayed[f] = content[f]

(* A file that waits for its first check gets it, however often others are  *)
(* checked, unless it leaves the checker's reach first.  An edit puts its   *)
(* file at the front again and a refund makes the checker miss the file it  *)
(* reserved, so this is about a store where neither goes on for ever.       *)
EditsAndRefundsEnd ==
  <>[][\A f \in StockFile : ~ReleaseFile(f) /\ \A c \in Content : ~EditFile(f, c)]_inventoryVars

EveryFileIsChecked ==
  EditsAndRefundsEnd => \A f \in StockFile : Unchecked(f) ~> ~Unchecked(f)

=============================================================================
