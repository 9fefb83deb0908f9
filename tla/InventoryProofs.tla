--------------------------- MODULE InventoryProofs ---------------------------
(***************************************************************************)
(* Theorems about module Inventory, for any number of files, contents,     *)
(* checkers, restoring requests and archivings: what an order holds is     *)
(* what it took, what an admin took out stays out, what was delivered is   *)
(* never stock again, and what is on offer is permitted by the last        *)
(* verdict recorded.                                                       *)
(***************************************************************************)
EXTENDS Inventory, SequenceTheorems, TLAPS

Healths == {"UNKNOWN", "HEALTHY", "BANNED", "ERROR"}
RestoreTargets == {"DELIVERED", "AVAILABLE", "BANNED"}
Checks == {NoCheck} \cup [at : {"asking", "answered"}, file : StockFile,
                       content : Content \cup {None}, answer : Answers \cup {None}]
Restores == {NoRestore} \cup [file : StockFile, archivedAt : Nat, to : RestoreTargets]

(* The rows and the requests have their types; a request that rests has     *)
(* nothing to write.                                                        *)
RowsTyped ==
  /\ status \in [StockFile -> Statuses]
  /\ content \in [StockFile -> Content \cup {None}]
  /\ archivedAt \in [StockFile -> Nat] /\ archivings \in Nat
  /\ health \in [StockFile -> Healths]
  /\ http401 \in [StockFile -> BOOLEAN] /\ approved \in [StockFile -> BOOLEAN]
  /\ receipt \in [StockFile -> BOOLEAN]
  /\ checkRun \subseteq StockFile /\ check \in [Checker -> Checks] /\ restore \in [Restorer -> Restores]
  /\ verdict \in [StockFile -> Answers \cup {None}]
  /\ okayed \in [StockFile -> Content \cup {None}]
  /\ claimedAs \in [StockFile -> (Content \cup {None}) \X Healths]
  /\ takenOut \in [StockFile -> Nat]

(* What is recorded about a file and why, whether or not it is on offer.    *)
VerdictExplains ==
  \A f \in StockFile :
    /\ health[f] = "HEALTHY" => \/ verdict[f] = "HEALTHY"
                                \/ verdict[f] = None /\ content[f] \in Generic
    /\ health[f] = "BANNED" => verdict[f] \in {"HTTP_401", "HTTP_402"}
    /\ health[f] = "BANNED" /\ http401[f] => verdict[f] = "HTTP_401"
    /\ approved[f] => okayed[f] = content[f]
    /\ status[f] = "ABSENT" => verdict[f] = None /\ ~approved[f] /\ health[f] = "UNKNOWN"

(* An answer that waits to be recorded is one the service gave, and what is *)
(* no account is always healthy.                                            *)
AnswersPlausible ==
  \A c \in Checker : check[c].at = "answered" =>
    /\ check[c].answer \in Answers
    /\ check[c].content \in Generic => check[c].answer = "HEALTHY"

(* The inductive invariant.                                                 *)
InventoryInv ==
  /\ RowsTyped /\ HeldAsClaimed /\ TakenOutStaysOut
  /\ AnswersPlausible /\ VerdictExplains

------------------------------------------------------------------------------
(* The empty table has the types ...                                        *)
LEMMA InventoryStart == InventoryInit => RowsTyped
  BY FileAssumption, ContentAssumption
  DEF InventoryInit, RowsTyped, Statuses, Healths, Checks, Restores, Answers, RestoreTargets

(* ... a question to the health service keeps them ...                      *)
LEMMA AskRows ==
  ASSUME RowsTyped, NEW c \in Checker, NEW f \in StockFile, AskService(c, f), checkRun' \subseteq StockFile
  PROVE  RowsTyped'
<1>1. content[f] \in Content \cup {None}
  BY DEF RowsTyped
<1>2. check' \in [Checker -> Checks]
  BY <1>1 DEF RowsTyped, AskService, Checks
<1> QED
  BY <1>2 DEF RowsTyped, AskService, stockVars, historyVars

(* ... and so does its answer.                                              *)
LEMMA AnswerRows ==
  ASSUME RowsTyped, NEW c \in Checker, NEW x \in HealthAnswer, GetAnswer(c, x)
  PROVE  RowsTyped'
<1>1. x \in Answers /\ "asking" # "idle"
  BY ChoiceAssumption
<1>2. check[c] \in Checks /\ check[c] # NoCheck
  BY <1>1 DEF RowsTyped, GetAnswer, NoCheck
<1>3. check' \in [Checker -> Checks]
  BY <1>1, <1>2 DEF RowsTyped, GetAnswer, Checks
<1> QED
  BY <1>3 DEF RowsTyped, GetAnswer, stockVars, historyVars

(* The empty table explains itself.                                         *)
LEMMA InventoryStartInv == InventoryInit => InventoryInv
<1> SUFFICES ASSUME InventoryInit PROVE InventoryInv
  OBVIOUS
<1>1. RowsTyped
  BY InventoryStart
<1>2. HeldAsClaimed /\ TakenOutStaysOut /\ VerdictExplains
  BY DEF InventoryInit, HeldAsClaimed, TakenOutStaysOut, VerdictExplains
<1>3. AnswersPlausible
  BY DEF InventoryInit, AnswersPlausible, NoCheck
<1> QED
  BY <1>1, <1>2, <1>3 DEF InventoryInv

(* A step that only moves a check or a restore, or leaves a receipt.        *)
LEMMA QuietFileStep ==
  ASSUME InventoryInv,
         UNCHANGED <<status, content, archivedAt, health, http401, approved, verdict,
                     okayed, claimedAs, takenOut>>
  PROVE  HeldAsClaimed' /\ TakenOutStaysOut' /\ VerdictExplains'
  BY DEF InventoryInv, HeldAsClaimed, TakenOutStaysOut, VerdictExplains, Archived

(* A step that is not a check leaves the answers that wait alone.           *)
LEMMA ChecksUntouched ==
  ASSUME AnswersPlausible, UNCHANGED check
  PROVE  AnswersPlausible'
  BY DEF AnswersPlausible

(* A checker asks about the content a file has now.                         *)
LEMMA AskStep ==
  ASSUME InventoryInv, NEW c \in Checker, NEW f \in StockFile, AskService(c, f), checkRun' \subseteq StockFile
  PROVE  InventoryInv'
<1>1. RowsTyped'
  BY AskRows DEF InventoryInv
<1>2. AnswersPlausible'
  BY DEF InventoryInv, RowsTyped, AnswersPlausible, AskService
<1> QED
  BY <1>1, <1>2, QuietFileStep DEF InventoryInv, AskService, stockVars, historyVars

(* The service answers, or does not.                                        *)
LEMMA AnswerStepInv ==
  ASSUME InventoryInv, NEW c \in Checker, NEW x \in HealthAnswer, GetAnswer(c, x)
  PROVE  InventoryInv'
<1>1. RowsTyped'
  BY AnswerRows DEF InventoryInv
<1>2. AnswersPlausible'
  BY ChoiceAssumption DEF InventoryInv, RowsTyped, AnswersPlausible, GetAnswer
<1> QED
  BY <1>1, <1>2, QuietFileStep DEF InventoryInv, GetAnswer, stockVars, historyVars

(* The verdict goes to a row no order holds, which keeps its content.       *)
LEMMA RecordStep ==
  ASSUME InventoryInv, NEW c \in Checker, RecordAnswer(c)
  PROVE  InventoryInv'
<1> DEFINE k == check[c]
<1>1. check' = [check EXCEPT ![c] = NoCheck] /\ AnswersPlausible'
  BY DEF InventoryInv, RowsTyped, RecordAnswer, AnswersPlausible, NoCheck
<1>2. k.file \in StockFile /\ k.content \in Content \cup {None} /\ k.answer \in Answers
      /\ (k.content \in Generic => k.answer = "HEALTHY")
  <2>1. k \in Checks /\ k # NoCheck /\ k.at = "answered"
    BY DEF InventoryInv, RowsTyped, RecordAnswer, NoCheck
  <2> QED
    BY <2>1 DEF InventoryInv, AnswersPlausible, Checks
<1>3. CASE ~StillCheckable(k.file)
  <2>1. RowsTyped'
    BY <1>1, <1>3 DEF InventoryInv, RowsTyped, RecordAnswer, Checks, stockVars, historyVars
  <2> QED
    BY <1>1, <1>3, <2>1, QuietFileStep DEF InventoryInv, RecordAnswer, stockVars, historyVars
<1>4. CASE StillCheckable(k.file)
  <2>1. RecordVerdict(k.file, k.content, k.answer)
    BY <1>4 DEF RecordAnswer
  <2> DEFINE f == k.file
             a == k.answer
  <2>2. /\ status[f] \in Statuses \ {"ABSENT", "DELETED", "RESERVED", "DISABLED"}
        /\ archivedAt[f] = 0
    BY <1>2, <1>4 DEF InventoryInv, RowsTyped, StillCheckable, Exists, Archived
  <2>3. /\ CheckedStatus(f, a) \in {"AVAILABLE", "DELIVERED", "BANNED"}
        /\ (CheckedStatus(f, a) = "DELIVERED" <=> status[f] = "DELIVERED")
    BY <2>2 DEF CheckedStatus, Statuses
  <2>4. /\ Classified(a) \in Healths
        /\ (Classified(a) = "HEALTHY" => a = "HEALTHY")
        /\ (Classified(a) = "BANNED" <=> a \in {"HTTP_401", "HTTP_402"})
    BY <1>2 DEF Classified, Healths, Answers
  <2>5. RowsTyped'
    <3>1. status' \in [StockFile -> Statuses] /\ health' \in [StockFile -> Healths]
      BY <1>2, <2>1, <2>3, <2>4 DEF InventoryInv, RowsTyped, RecordVerdict, Statuses
    <3>2. http401' \in [StockFile -> BOOLEAN] /\ approved' \in [StockFile -> BOOLEAN]
      BY <1>2, <2>1 DEF InventoryInv, RowsTyped, RecordVerdict
    <3>3. /\ verdict' \in [StockFile -> Answers \cup {None}]
          /\ okayed' \in [StockFile -> Content \cup {None}]
      BY <1>2, <2>1 DEF InventoryInv, RowsTyped, RecordVerdict
    <3> QED
      BY <1>1, <2>1, <3>1, <3>2, <3>3
      DEF InventoryInv, RowsTyped, RecordVerdict, RecordAnswer, Checks
  <2>6. HeldAsClaimed'
    BY <1>2, <2>1, <2>2, <2>3
    DEF InventoryInv, RowsTyped, HeldAsClaimed, RecordVerdict, Archived, Statuses
  <2>7. TakenOutStaysOut'
    BY <1>2, <2>1, <2>2 DEF InventoryInv, RowsTyped, TakenOutStaysOut, RecordVerdict
  <2>8. VerdictExplains'
    <3> DEFINE Explained(g) ==
          /\ health[g] = "HEALTHY" => \/ verdict[g] = "HEALTHY"
                                      \/ verdict[g] = None /\ content[g] \in Generic
          /\ health[g] = "BANNED" => verdict[g] \in {"HTTP_401", "HTTP_402"}
          /\ health[g] = "BANNED" /\ http401[g] => verdict[g] = "HTTP_401"
          /\ approved[g] => okayed[g] = content[g]
          /\ status[g] = "ABSENT" => /\ verdict[g] = None
                                     /\ ~approved[g] /\ health[g] = "UNKNOWN"
    <3> SUFFICES ASSUME NEW g \in StockFile PROVE Explained(g)'
      BY DEF VerdictExplains
    <3>1. CASE g = f
      <4>1. /\ health'[f] = Classified(a) /\ verdict'[f] = a
            /\ status'[f] # "ABSENT" /\ content' = content
        BY <1>2, <2>1, <2>3 DEF InventoryInv, RowsTyped, RecordVerdict
      <4>2. /\ approved'[f] => approved[f] /\ a # "HEALTHY"
            /\ okayed'[f] = IF a = "HEALTHY" THEN None ELSE okayed[f]
        BY <1>2, <2>1 DEF InventoryInv, RowsTyped, RecordVerdict
      <4>3. a = "HTTP_402" => ~http401'[f]
        BY <1>2, <2>1 DEF InventoryInv, RowsTyped, RecordVerdict
      <4>4. approved[f] => okayed[f] = content[f]
        BY <1>2 DEF InventoryInv, VerdictExplains
      <4>5. health'[f] = "HEALTHY" => verdict'[f] = "HEALTHY"
        BY <2>4, <4>1
      <4>6. /\ health'[f] = "BANNED" => verdict'[f] \in {"HTTP_401", "HTTP_402"}
            /\ health'[f] = "BANNED" /\ http401'[f] => verdict'[f] = "HTTP_401"
        <5>1. CASE a \in {"HTTP_401", "HTTP_402"}
          BY <4>1, <4>3, <5>1
        <5>2. CASE a \notin {"HTTP_401", "HTTP_402"}
          BY <2>4, <4>1, <5>2
        <5> QED
          BY <5>1, <5>2
      <4>7. approved'[f] => okayed'[f] = content'[f]
        BY <4>1, <4>2, <4>4
      <4> QED
        BY <3>1, <4>1, <4>5, <4>6, <4>7
    <3>2. CASE g # f
      BY <1>2, <2>1, <3>2 DEF InventoryInv, RowsTyped, VerdictExplains, RecordVerdict
    <3> QED
      BY <3>1, <3>2
  <2> QED
    BY <1>1, <2>5, <2>6, <2>7, <2>8 DEF InventoryInv
<1> QED
  BY <1>3, <1>4

(* A new row was neither claimed nor taken out, approved or judged before.  *)
LEMMA ImportStep ==
  ASSUME InventoryInv, NEW f \in StockFile, NEW c \in Content, ImportFile(f, c)
  PROVE  InventoryInv'
<1>1. RowsTyped'
  BY DEF InventoryInv, RowsTyped, ImportFile, Statuses, Healths, checkVars, historyVars
<1>2. HeldAsClaimed' /\ TakenOutStaysOut'
  BY DEF InventoryInv, RowsTyped, HeldAsClaimed, TakenOutStaysOut, ImportFile, historyVars, Archived
<1>3. VerdictExplains' /\ AnswersPlausible'
  BY ChecksUntouched DEF InventoryInv, RowsTyped, VerdictExplains, ImportFile, checkVars, historyVars
<1> QED
  BY <1>1, <1>2, <1>3 DEF InventoryInv

(* New content resets the verdict and the approval.                         *)
LEMMA EditStep ==
  ASSUME InventoryInv, NEW f \in StockFile, NEW c \in Content, EditFile(f, c)
  PROVE  InventoryInv'
<1> USE DEF EditFile, EditWith, Editable, Referenced
<1>1. RowsTyped'
  BY DEF InventoryInv, RowsTyped, Statuses, Healths
<1>2. HeldAsClaimed' /\ TakenOutStaysOut'
  BY DEF InventoryInv, RowsTyped, HeldAsClaimed, TakenOutStaysOut, Archived
<1>3. VerdictExplains' /\ AnswersPlausible'
  BY ChecksUntouched DEF InventoryInv, RowsTyped, VerdictExplains
<1> QED
  BY <1>1, <1>2, <1>3 DEF InventoryInv

(* Archiving takes a file from sale, never one that is reserved.            *)
LEMMA ArchiveStep ==
  ASSUME InventoryInv, NEW f \in StockFile, ArchiveFile(f)
  PROVE  InventoryInv'
<1> USE DEF ArchiveFile, Archive, Archived, Exists
<1>1. RowsTyped'
  BY DEF InventoryInv, RowsTyped, Statuses, checkVars, historyVars
<1>2. HeldAsClaimed' /\ TakenOutStaysOut'
  BY DEF InventoryInv, RowsTyped, HeldAsClaimed, TakenOutStaysOut, historyVars
<1>3. VerdictExplains' /\ AnswersPlausible'
  BY ChecksUntouched DEF InventoryInv, RowsTyped, VerdictExplains, checkVars, historyVars
<1> QED
  BY <1>1, <1>2, <1>3 DEF InventoryInv

(* A request to restore reads what the file was when it was archived.       *)
LEMMA ReadRestoreStep ==
  ASSUME InventoryInv, NEW a \in Restorer, NEW f \in StockFile, ReadForRestore(a, f)
  PROVE  InventoryInv'
<1>1. RestoredStatus(f) \in RestoreTargets /\ archivedAt[f] \in Nat
  BY DEF InventoryInv, RowsTyped, RestoredStatus, RestoreTargets
<1>2. RowsTyped'
  BY <1>1 DEF InventoryInv, RowsTyped, ReadForRestore, Restores, stockVars, checkVars, historyVars
<1> QED
  BY <1>2, QuietFileStep, ChecksUntouched
  DEF InventoryInv, ReadForRestore, stockVars, checkVars, historyVars

(* What is restored was archived and held by no order, and a file taken out *)
(* is one no earlier archiving matches.                                     *)
LEMMA WriteRestoreStep ==
  ASSUME InventoryInv, NEW a \in Restorer, WriteRestore(a)
  PROVE  InventoryInv'
<1> DEFINE r == restore[a]
<1>1. r.file \in StockFile /\ r.to \in RestoreTargets
  BY DEF InventoryInv, RowsTyped, WriteRestore, Restores
<1>2. AnswersPlausible'
  BY ChecksUntouched DEF InventoryInv, WriteRestore, checkVars
<1>3. restore' \in [Restorer -> Restores]
  BY DEF InventoryInv, RowsTyped, WriteRestore, Restores
<1>4. CASE ~SameArchiving(r)
  <2>1. RowsTyped'
    BY <1>3, <1>4 DEF InventoryInv, RowsTyped, WriteRestore, checkVars
  <2> QED
    BY <1>2, <1>4, <2>1, QuietFileStep DEF InventoryInv, WriteRestore, checkVars
<1>5. CASE SameArchiving(r)
  <2> DEFINE f == r.file
             to == r.to
  <2>1. /\ status' = [status EXCEPT ![f] = to]
        /\ archivedAt' = [archivedAt EXCEPT ![f] = 0]
        /\ takenOut' = [takenOut EXCEPT ![f] = IF @ = r.archivedAt THEN 0 ELSE @]
        /\ UNCHANGED <<content, health, http401, approved, receipt, archivings, checkRun,
                       check, verdict, okayed, claimedAs>>
    BY <1>5 DEF WriteRestore, checkVars
  <2>2. /\ archivedAt[f] = r.archivedAt
        /\ status[f] = IF to = "DELIVERED" THEN "DELIVERED" ELSE "DISABLED"
        /\ f \in StockFile /\ to \in RestoreTargets
    BY <1>1, <1>5 DEF SameArchiving
  <2> HIDE DEF f, to, r
  <2>3. RowsTyped'
    <3>1. status' \in [StockFile -> Statuses] /\ archivedAt' \in [StockFile -> Nat]
      BY <2>1, <2>2 DEF InventoryInv, RowsTyped, Statuses, RestoreTargets
    <3>2. takenOut' \in [StockFile -> Nat]
      BY <2>1, <2>2 DEF InventoryInv, RowsTyped
    <3> QED
      BY <1>3, <2>1, <3>1, <3>2 DEF InventoryInv, RowsTyped
  <2>4. HeldAsClaimed'
    BY <2>1, <2>2 DEF InventoryInv, RowsTyped, HeldAsClaimed, Archived, RestoreTargets
  <2>5. TakenOutStaysOut'
    BY <2>1, <2>2 DEF InventoryInv, RowsTyped, TakenOutStaysOut
  <2>6. VerdictExplains'
    BY <2>1, <2>2 DEF InventoryInv, RowsTyped, VerdictExplains, RestoreTargets
  <2> QED
    BY <1>2, <2>3, <2>4, <2>5, <2>6 DEF InventoryInv
<1> QED
  BY <1>4, <1>5

(* Taking out archives a file and remembers when.                           *)
LEMMA TakeOutStep ==
  ASSUME InventoryInv, NEW f \in StockFile, TakeOut(f)
  PROVE  InventoryInv'
<1> USE DEF TakeOut, Archive, Archived, Takeable, Referenced
<1>1. RowsTyped'
  BY DEF InventoryInv, RowsTyped, Statuses, checkVars
<1>2. HeldAsClaimed' /\ TakenOutStaysOut'
  BY DEF InventoryInv, RowsTyped, HeldAsClaimed, TakenOutStaysOut
<1>3. VerdictExplains' /\ AnswersPlausible'
  BY ChecksUntouched DEF InventoryInv, RowsTyped, VerdictExplains, checkVars
<1> QED
  BY <1>1, <1>2, <1>3 DEF InventoryInv

(* Only a file nothing refers to is deleted, with all its row says.         *)
LEMMA DeleteStep ==
  ASSUME InventoryInv, NEW f \in StockFile, DeleteFile(f)
  PROVE  InventoryInv'
<1> USE DEF DeleteFile, Editable, Referenced
<1>1. RowsTyped'
  BY DEF InventoryInv, RowsTyped, Statuses, Healths
<1>2. HeldAsClaimed' /\ TakenOutStaysOut'
  BY DEF InventoryInv, RowsTyped, HeldAsClaimed, TakenOutStaysOut, Archived
<1>3. VerdictExplains' /\ AnswersPlausible'
  BY ChecksUntouched DEF InventoryInv, RowsTyped, VerdictExplains
<1> QED
  BY <1>1, <1>2, <1>3 DEF InventoryInv

(* The owner approves the content a file has now.                           *)
LEMMA ApproveStep ==
  ASSUME InventoryInv, NEW f \in StockFile, ApproveSale(f)
  PROVE  InventoryInv'
<1> USE DEF ApproveSale, Referenced, Archived
<1>1. RowsTyped'
  BY DEF InventoryInv, RowsTyped, Statuses, checkVars
<1>2. HeldAsClaimed' /\ TakenOutStaysOut'
  BY DEF InventoryInv, RowsTyped, HeldAsClaimed, TakenOutStaysOut
<1>3. VerdictExplains' /\ AnswersPlausible'
  BY ChecksUntouched DEF InventoryInv, RowsTyped, VerdictExplains, checkVars
<1> QED
  BY <1>1, <1>2, <1>3 DEF InventoryInv

(* Revoking an approval bans a file no order refers to.                     *)
LEMMA RevokeStep ==
  ASSUME InventoryInv, NEW f \in StockFile, RevokeApproval(f)
  PROVE  InventoryInv'
<1> USE DEF RevokeApproval, Referenced, Exists
<1>1. RowsTyped'
  BY DEF InventoryInv, RowsTyped, Statuses, checkVars, historyVars
<1>2. HeldAsClaimed' /\ TakenOutStaysOut'
  BY DEF InventoryInv, RowsTyped, HeldAsClaimed, TakenOutStaysOut, historyVars, Archived
<1>3. VerdictExplains' /\ AnswersPlausible'
  BY ChecksUntouched DEF InventoryInv, RowsTyped, VerdictExplains, checkVars, historyVars
<1> QED
  BY <1>1, <1>2, <1>3 DEF InventoryInv

(* A new policy moves banned files, and only those nobody holds.            *)
LEMMA PolicyStep ==
  ASSUME InventoryInv, NEW p \in Policy, SetBannedPolicy(p)
  PROVE  InventoryInv'
<1> USE DEF SetBannedPolicy, Unallocated
<1>1. RowsTyped'
  BY DEF InventoryInv, RowsTyped, Statuses, checkVars, historyVars
<1>2. HeldAsClaimed' /\ TakenOutStaysOut'
  BY DEF InventoryInv, RowsTyped, HeldAsClaimed, TakenOutStaysOut, historyVars, Archived
<1>3. VerdictExplains' /\ AnswersPlausible'
  BY ChecksUntouched DEF InventoryInv, RowsTyped, VerdictExplains, checkVars, historyVars
<1> QED
  BY <1>1, <1>2, <1>3 DEF InventoryInv

(* A claim takes a file on offer and remembers it as it was.                *)
LEMMA ClaimStep ==
  ASSUME InventoryInv, NEW f \in StockFile, ClaimFile(f)
  PROVE  InventoryInv'
<1> USE DEF ClaimFile, OnOffer, Archived
<1>1. RowsTyped'
  BY DEF InventoryInv, RowsTyped, Statuses, checkVars
<1>2. HeldAsClaimed' /\ TakenOutStaysOut'
  BY DEF InventoryInv, RowsTyped, HeldAsClaimed, TakenOutStaysOut
<1>3. VerdictExplains' /\ AnswersPlausible'
  BY ChecksUntouched DEF InventoryInv, RowsTyped, VerdictExplains, checkVars
<1> QED
  BY <1>1, <1>2, <1>3 DEF InventoryInv

(* A receipt makes a file one that is referred to, and changes no more.     *)
LEMMA ReceiptStep ==
  ASSUME InventoryInv, NEW f \in StockFile, ReserveReceipt(f)
  PROVE  InventoryInv'
<1>1. RowsTyped'
  BY DEF InventoryInv, RowsTyped, ReserveReceipt, checkVars, historyVars
<1> QED
  BY <1>1, QuietFileStep, ChecksUntouched DEF InventoryInv, ReserveReceipt, checkVars, historyVars

(* A file held is delivered, or released to where its health puts it.       *)
LEMMA MoveStep ==
  ASSUME InventoryInv, NEW f \in StockFile, ReleaseFile(f) \/ DeliverFile(f)
  PROVE  InventoryInv'
<1> DEFINE none == <<None, "UNKNOWN">>
<1>1. PICK to \in {"AVAILABLE", "BANNED", "DELIVERED"} :
        /\ status[f] = "RESERVED" /\ status' = [status EXCEPT ![f] = to]
        /\ IF to = "DELIVERED" THEN UNCHANGED claimedAs
           ELSE claimedAs' = [claimedAs EXCEPT ![f] = none]
        /\ UNCHANGED <<content, archivedAt, health, http401, approved, receipt, archivings,
                       checkRun, check, restore, verdict, okayed, takenOut>>
  BY DEF ReleaseFile, DeliverFile, OrderMoves, checkVars
<1>2. none \in (Content \cup {None}) \X Healths /\ none[1] = None
  BY DEF Healths
<1> HIDE DEF none
<1>3. RowsTyped'
  BY <1>1, <1>2 DEF InventoryInv, RowsTyped, Statuses
<1>4. HeldAsClaimed' /\ TakenOutStaysOut'
  BY <1>1, <1>2 DEF InventoryInv, RowsTyped, HeldAsClaimed, TakenOutStaysOut, Archived
<1>5. VerdictExplains' /\ AnswersPlausible'
  BY <1>1, ChecksUntouched DEF InventoryInv, RowsTyped, VerdictExplains
<1> QED
  BY <1>3, <1>4, <1>5 DEF InventoryInv

(* A scheduled run being chosen, or passing over a file, touches no row.    *)
LEMMA ScheduledStep ==
  ASSUME InventoryInv, checkRun' \subseteq StockFile,
         UNCHANGED <<stockVars, archivings, check, restore, historyVars>>
  PROVE  InventoryInv'
<1>1. RowsTyped'
  BY DEF InventoryInv, RowsTyped, stockVars, historyVars
<1> QED
  BY <1>1, QuietFileStep, ChecksUntouched DEF InventoryInv, stockVars, historyVars

(* Every step keeps the invariant.                                          *)
LEMMA InventoryStep ==
  ASSUME InventoryInv, [InventoryNext]_inventoryVars
  PROVE  InventoryInv'
<1>1. CASE UNCHANGED inventoryVars
  BY <1>1, ScheduledStep DEF inventoryVars, checkVars, InventoryInv, RowsTyped
<1>2. CASE StartRun
  BY <1>2, ScheduledStep DEF StartRun
<1>3. CASE "cron" \in Checker /\ CheckOneOfRun
  <2>1. PICK f \in checkRun : /\ checkRun' = checkRun \ {f}
                         /\ IF Checkable(f) THEN AskService("cron", f)
                            ELSE UNCHANGED <<stockVars, archivings, check, restore, historyVars>>
    BY <1>3 DEF CheckOneOfRun
  <2>2. f \in StockFile /\ checkRun' \subseteq StockFile
    BY <2>1 DEF InventoryInv, RowsTyped
  <2> QED
    BY <1>3, <2>1, <2>2, ScheduledStep, AskStep
<1>4. ASSUME NEW c \in Checker, AnswerStep(c) PROVE InventoryInv'
  BY <1>4, RecordStep, AnswerStepInv DEF AnswerStep
<1>5. ASSUME NEW f \in StockFile, FileStep(f) PROVE InventoryInv'
  <2>1. CASE \E c \in Content : ImportFile(f, c) \/ EditFile(f, c)
    BY <2>1, ImportStep, EditStep
  <2>2. CASE CheckByAdmin(f)
    BY <2>2, AskStep DEF CheckByAdmin, InventoryInv, RowsTyped
  <2>3. CASE ArchiveFile(f) \/ TakeOut(f) \/ DeleteFile(f)
    BY <2>3, ArchiveStep, TakeOutStep, DeleteStep
  <2>4. CASE \E a \in Restorer : ReadForRestore(a, f)
    BY <2>4, ReadRestoreStep
  <2>5. CASE ApproveSale(f) \/ RevokeApproval(f)
    BY <2>5, ApproveStep, RevokeStep
  <2>6. CASE ClaimFile(f) \/ ReserveReceipt(f) \/ ReleaseFile(f) \/ DeliverFile(f)
    BY <2>6, ClaimStep, ReceiptStep, MoveStep
  <2> QED
    BY <1>5, <2>1, <2>2, <2>3, <2>4, <2>5, <2>6 DEF FileStep
<1>6. ASSUME NEW a \in Restorer, WriteRestore(a) PROVE InventoryInv'
  BY <1>6, WriteRestoreStep
<1>7. ASSUME NEW p \in Policy, SetBannedPolicy(p) PROVE InventoryInv'
  BY <1>7, PolicyStep
<1> QED
  BY <1>1, <1>2, <1>3, <1>4, <1>5, <1>6, <1>7 DEF InventoryNext, CronStep

(* No step takes a delivered file back, whoever started it and when.        *)
LEMMA DeliveredStep ==
  ASSUME InventoryInv, [InventoryNext]_inventoryVars, NEW f \in StockFile, status[f] = "DELIVERED"
  PROVE  status'[f] = "DELIVERED"
<1> USE DEF stockVars, checkVars, historyVars
<1>1. CASE UNCHANGED inventoryVars
  BY <1>1 DEF inventoryVars
<1>2. CASE StartRun \/ CheckOneOfRun \/ \E g \in StockFile : CheckByAdmin(g)
  BY <1>2 DEF StartRun, CheckOneOfRun, CheckByAdmin, AskService
<1>3. ASSUME NEW c \in Checker, RecordAnswer(c) PROVE status'[f] = "DELIVERED"
  BY <1>3 DEF InventoryInv, RowsTyped, RecordAnswer, RecordVerdict, CheckedStatus
<1>4. CASE \E c \in Checker, x \in HealthAnswer : GetAnswer(c, x)
  BY <1>4 DEF GetAnswer
<1>5. CASE \E g \in StockFile, c \in Content : ImportFile(g, c) \/ EditFile(g, c)
  BY <1>5 DEF InventoryInv, RowsTyped, ImportFile, EditFile, EditWith, Editable
<1>6. CASE \E g \in StockFile : ArchiveFile(g) \/ TakeOut(g) \/ DeleteFile(g)
  BY <1>6 DEF InventoryInv, RowsTyped, ArchiveFile, TakeOut, DeleteFile, Archive, Takeable, Editable
<1>7. CASE \E a \in Restorer, g \in StockFile : ReadForRestore(a, g)
  BY <1>7 DEF ReadForRestore
<1>8. ASSUME NEW a \in Restorer, WriteRestore(a) PROVE status'[f] = "DELIVERED"
  BY <1>8 DEF InventoryInv, RowsTyped, WriteRestore, SameArchiving
<1>9. CASE \E g \in StockFile : ApproveSale(g) \/ RevokeApproval(g)
  BY <1>9 DEF InventoryInv, RowsTyped, ApproveSale, RevokeApproval, Referenced
<1>10. CASE \E p \in Policy : SetBannedPolicy(p)
  BY <1>10 DEF SetBannedPolicy, Unallocated
<1>11. CASE \E g \in StockFile : ClaimFile(g) \/ ReserveReceipt(g) \/ ReleaseFile(g) \/ DeliverFile(g)
  BY <1>11 DEF InventoryInv, RowsTyped, ClaimFile, OnOffer, ReserveReceipt, ReleaseFile, DeliverFile,
               OrderMoves
<1> QED
  BY <1>1, <1>2, <1>3, <1>4, <1>5, <1>6, <1>7, <1>8, <1>9, <1>10, <1>11
  DEF InventoryNext, CronStep, FileStep, AnswerStep

(* So the invariant holds for ever.                                         *)
LEMMA InventoryInvariant == InventorySpec => []InventoryInv
  BY InventoryStartInv, InventoryStep, PTL DEF InventorySpec

------------------------------------------------------------------------------
(* What an order holds or got is what it took, whatever checks, edits,      *)
(* restores, takeouts and rule changes run beside it.                       *)
THEOREM HeldFilesAreKept == InventorySpec => []HeldAsClaimed
<1>1. InventoryInv => HeldAsClaimed
  BY DEF InventoryInv
<1> QED
  BY <1>1, InventoryInvariant, PTL

(* A sold file is never stock again.                                        *)
THEOREM SoldFilesStaySold == InventorySpec => DeliveredForGood
<1> DEFINE Kept == \A f \in StockFile : status[f] = "DELIVERED" => status'[f] = "DELIVERED"
<1>1. InventoryInv /\ [InventoryNext]_inventoryVars => [Kept]_inventoryVars
  BY DeliveredStep
<1> HIDE DEF Kept
<1>2. InventorySpec => [][Kept]_inventoryVars
  BY <1>1, InventoryInvariant, PTL DEF InventorySpec
<1> QED
  BY <1>2 DEF DeliveredForGood, Kept

(* No restore that began before a takeout undoes it.                        *)
THEOREM TakeoutsHold == InventorySpec => []TakenOutStaysOut
<1>1. InventoryInv => TakenOutStaysOut
  BY DEF InventoryInv
<1> QED
  BY <1>1, InventoryInvariant, PTL

(* With STOCK_REQUIRE_HEALTHY, whatever is on offer is permitted by the     *)
(* last verdict recorded and the rule in force.                             *)
THEOREM OffersArePermitted ==
  ASSUME RequireHealthy
  PROVE  InventorySpec => []OfferIsPermitted
<1>1. InventoryInv => OfferIsPermitted
  BY DEF InventoryInv, VerdictExplains, OfferIsPermitted, OnOffer, Permitted
<1> QED
  BY <1>1, InventoryInvariant, PTL

------------------------------------------------------------------------------
(* The types.  lastCheckedAt is a column, so a file has one place in the    *)
(* order of the checks, and no archiving is later than the last.            *)
BoundsKept ==
  /\ policy \in Policies
  /\ archivings <= MaxArchives
  /\ \A f \in StockFile : archivedAt[f] <= archivings /\ takenOut[f] <= archivings
  /\ \A a \in Restorer : restore[a].archivedAt <= archivings
  /\ checkedOrder \in Seq(StockFile)
  /\ \A i, j \in DOMAIN checkedOrder : checkedOrder[i] = checkedOrder[j] => i = j

(* Taking a file's last check away leaves the others in their order, and    *)
(* the file nowhere.                                                        *)
LEMMA OthersKeepOrder ==
  ASSUME checkedOrder \in Seq(StockFile), NEW f \in StockFile,
         \A i, j \in DOMAIN checkedOrder : checkedOrder[i] = checkedOrder[j] => i = j
  PROVE  /\ OthersChecked(f) \in Seq(StockFile)
         /\ \A i, j \in DOMAIN OthersChecked(f) : OthersChecked(f)[i] = OthersChecked(f)[j] => i = j
         /\ \A i \in DOMAIN OthersChecked(f) : OthersChecked(f)[i] # f
<1>1. CASE f \notin ToSet(checkedOrder)
  BY <1>1 DEF OthersChecked, ToSet
<1>2. CASE f \in ToSet(checkedOrder)
  <2> DEFINE k == CHOOSE i \in DOMAIN checkedOrder : checkedOrder[i] = f
             n == Len(checkedOrder)
  <2>1. /\ k \in 1..n /\ checkedOrder[k] = f /\ n \in Nat
        /\ \A i \in 1..n : checkedOrder[i] \in StockFile
        /\ DOMAIN checkedOrder = 1..n
    BY <1>2 DEF ToSet
  <2>2. OthersChecked(f) = SubSeq(checkedOrder, 1, k - 1) \o SubSeq(checkedOrder, k + 1, n)
    BY <1>2 DEF OthersChecked, RemoveAt
  <2> HIDE DEF k, n
  <2> DEFINE head == SubSeq(checkedOrder, 1, k - 1)
             tail == SubSeq(checkedOrder, k + 1, n)
  <2>3. /\ head \in Seq(StockFile) /\ tail \in Seq(StockFile)
        /\ Len(head) = k - 1 /\ Len(tail) = n - k
        /\ \A i \in 1..(k - 1) : head[i] = checkedOrder[i]
        /\ \A i \in 1..(n - k) : tail[i] = checkedOrder[k + i]
    <3>1. \A i \in 1..(k - 1) : i \in 1..n
      BY <2>1
    <3>2. \A i \in (k + 1)..n : i \in 1..n
      BY <2>1
    <3>3. /\ head \in Seq(StockFile) /\ Len(head) = k - 1
          /\ \A i \in 1..(k - 1) : head[i] = checkedOrder[i]
      BY <2>1, <3>1, SubSeqProperties DEF n
    <3>4. /\ tail \in Seq(StockFile) /\ Len(tail) = n - k
          /\ \A i \in 1..(n - k) : tail[i] = checkedOrder[k + i]
      <4>1. k + 1 \in Int /\ n \in Int /\ n - (k + 1) + 1 = n - k
        BY <2>1
      <4>2. \A i \in (k + 1)..n : checkedOrder[i] \in StockFile
        BY <2>1, <3>2
      <4>3. /\ tail \in Seq(StockFile)
            /\ Len(tail) = IF k + 1 <= n THEN n - (k + 1) + 1 ELSE 0
            /\ \A i \in 1..(n - (k + 1) + 1) : tail[i] = checkedOrder[(k + 1) + i - 1]
        BY <4>1, <4>2, SubSeqProperties
      <4>4. QED
        BY <2>1, <4>1, <4>3
    <3>5. QED
      BY <3>3, <3>4
  <2> HIDE DEF head, tail
  <2>4. /\ OthersChecked(f) \in Seq(StockFile) /\ Len(OthersChecked(f)) = n - 1
        /\ \A i \in 1..(n - 1) :
             OthersChecked(f)[i] = IF i < k THEN checkedOrder[i] ELSE checkedOrder[i + 1]
    <3>1. OthersChecked(f) = head \o tail
      BY <2>2 DEF head, tail
    <3>2. OthersChecked(f) \in Seq(StockFile) /\ Len(OthersChecked(f)) = n - 1
      BY <2>1, <2>3, <3>1
    <3>3. ASSUME NEW i \in 1..(n - 1)
          PROVE  OthersChecked(f)[i] = IF i < k THEN checkedOrder[i] ELSE checkedOrder[i + 1]
      <4>1. CASE i < k
        BY <2>1, <2>3, <3>1, <4>1
      <4>2. CASE ~(i < k)
        <5>1. /\ i - (k - 1) \in 1..(n - k) /\ k + (i - (k - 1)) = i + 1
          BY <2>1, <4>2
        <5>2. (head \o tail)[i] = tail[i - (k - 1)]
          BY <2>1, <2>3, <4>2
        <5>3. QED
          BY <2>3, <3>1, <4>2, <5>1, <5>2
      <4>3. QED
        BY <4>1, <4>2
    <3>4. QED
      BY <3>2, <3>3
  <2>5. DOMAIN OthersChecked(f) = 1..(n - 1)
    BY <2>1, <2>4
  <2> DEFINE old(i) == IF i < k THEN i ELSE i + 1
  <2>6. ASSUME NEW i \in 1..(n - 1)
        PROVE  /\ old(i) \in 1..n /\ old(i) # k
               /\ OthersChecked(f)[i] = checkedOrder[old(i)]
    BY <2>1, <2>4
  <2>7. /\ \A i \in 1..(n - 1) : OthersChecked(f)[i] # f
        /\ \A i, j \in 1..(n - 1) : OthersChecked(f)[i] = OthersChecked(f)[j] => i = j
    <3>1. \A i, j \in 1..(n - 1) : old(i) = old(j) => i = j
      BY <2>1
    <3> HIDE DEF old
    <3>2. QED
      BY <2>1, <2>6, <3>1
  <2>8. QED
    BY <2>4, <2>5, <2>7
<1>3. QED
  BY <1>1, <1>2

(* A check put last leaves every file with one place.                       *)
LEMMA CheckedLast ==
  ASSUME checkedOrder \in Seq(StockFile), NEW f \in StockFile,
         \A i, j \in DOMAIN checkedOrder : checkedOrder[i] = checkedOrder[j] => i = j,
         NEW s, s = Append(OthersChecked(f), f)
  PROVE  /\ s \in Seq(StockFile)
         /\ \A i, j \in DOMAIN s : s[i] = s[j] => i = j
<1>1. /\ OthersChecked(f) \in Seq(StockFile)
      /\ \A i, j \in DOMAIN OthersChecked(f) : OthersChecked(f)[i] = OthersChecked(f)[j] => i = j
      /\ \A i \in DOMAIN OthersChecked(f) : OthersChecked(f)[i] # f
  BY OthersKeepOrder
<1> DEFINE q == OthersChecked(f)
<1> HIDE DEF q
<1>2. /\ q \in Seq(StockFile) /\ s = Append(q, f)
      /\ \A i, j \in DOMAIN q : q[i] = q[j] => i = j
      /\ \A i \in DOMAIN q : q[i] # f
  BY <1>1 DEF q
<1>3. /\ s \in Seq(StockFile) /\ DOMAIN s = 1..(Len(q) + 1) /\ DOMAIN q = 1..Len(q) /\ Len(q) \in Nat
      /\ \A i \in 1..Len(q) : s[i] = q[i]
      /\ s[Len(q) + 1] = f
  BY <1>2
<1>4. QED
  BY <1>2, <1>3

(* A step that archives nothing and moves no check in the order.            *)
LEMMA BoundsUntouched ==
  ASSUME RowsTyped, BoundsKept, UNCHANGED <<policy, archivings, archivedAt, takenOut, checkedOrder, restore>>
  PROVE  BoundsKept'
BY DEF BoundsKept

(* Neither the checks nor the orders, nor what the owner decides, archives. *)
LEMMA ChecksKeepBounds ==
  ASSUME RowsTyped, BoundsKept, NEW c \in Checker, AnswerStep(c)
  PROVE  BoundsKept'
<1>1. ASSUME NEW x \in HealthAnswer, GetAnswer(c, x) PROVE BoundsKept'
  BY <1>1, BoundsUntouched DEF GetAnswer, stockVars, historyVars
<1>2. CASE RecordAnswer(c)
  <2> DEFINE k == check[c]
  <2>1. k \in Checks /\ k.at = "answered"
    BY <1>2 DEF RowsTyped, RecordAnswer
  <2>2. k.file \in StockFile
    BY <2>1 DEF Checks, NoCheck
  <2> HIDE DEF k
  <2>3. CASE checkedOrder' = checkedOrder /\ UNCHANGED <<policy, archivings, archivedAt, takenOut, restore>>
    BY <2>3, BoundsUntouched
  <2>4. CASE /\ checkedOrder' = Append(OthersChecked(k.file), k.file)
             /\ UNCHANGED <<policy, archivings, archivedAt, takenOut, restore>>
    BY <2>2, <2>4, CheckedLast DEF BoundsKept
  <2>5. QED
    BY <1>2, <2>3, <2>4 DEF RecordAnswer, RecordVerdict, stockVars, historyVars, k
<1>3. QED
  BY <1>1, <1>2 DEF AnswerStep

(* An archiving is the last one, and what an admin has taken out or read    *)
(* before is earlier.                                                       *)
LEMMA FilesKeepBounds ==
  ASSUME RowsTyped, BoundsKept, NEW f \in StockFile, FileStep(f)
  PROVE  BoundsKept'
<1> USE BoundAssumption
<1>1. ASSUME NEW c \in Content, ImportFile(f, c) PROVE BoundsKept'
  BY <1>1, BoundsUntouched DEF ImportFile, checkVars, historyVars
<1>2. ASSUME NEW c \in Content, EditFile(f, c) PROVE BoundsKept'
  BY <1>2, OthersKeepOrder DEF EditFile, EditWith, BoundsKept
<1>3. CASE CheckByAdmin(f)
  BY <1>3, BoundsUntouched DEF CheckByAdmin, AskService, stockVars, historyVars
<1>4. CASE ArchiveFile(f) \/ TakeOut(f)
  <2>1. /\ archivings < MaxArchives /\ archivings' = archivings + 1
        /\ archivedAt' = [archivedAt EXCEPT ![f] = archivings + 1]
        /\ takenOut' = takenOut \/ takenOut' = [takenOut EXCEPT ![f] = archivings + 1]
        /\ UNCHANGED <<policy, checkedOrder, restore>>
    BY <1>4 DEF ArchiveFile, TakeOut, Archive, checkVars, historyVars
  <2>2. /\ archivings \in Nat /\ archivedAt \in [StockFile -> Nat] /\ takenOut \in [StockFile -> Nat]
        /\ \A a \in Restorer : restore[a].archivedAt \in Nat
    BY DEF RowsTyped, Restores, NoRestore
  <2>3. \A g \in StockFile : archivedAt'[g] <= archivings + 1 /\ takenOut'[g] <= archivings + 1
    BY <2>1, <2>2 DEF BoundsKept
  <2>4. QED
    BY <2>1, <2>2, <2>3 DEF BoundsKept
<1>5. CASE DeleteFile(f)
  BY <1>5, OthersKeepOrder DEF DeleteFile, RowsTyped, BoundsKept
<1>6. ASSUME NEW a \in Restorer, ReadForRestore(a, f) PROVE BoundsKept'
  <2>1. \A b \in Restorer : restore'[b].archivedAt \in {restore[b].archivedAt, archivedAt[f]}
    BY <1>6 DEF ReadForRestore, RowsTyped
  <2>2. QED
    BY <1>6, <2>1 DEF ReadForRestore, BoundsKept, stockVars, checkVars, historyVars
<1>7. CASE ApproveSale(f) \/ RevokeApproval(f)
  BY <1>7, BoundsUntouched DEF ApproveSale, RevokeApproval, checkVars, historyVars
<1>8. CASE ClaimFile(f) \/ ReserveReceipt(f) \/ ReleaseFile(f) \/ DeliverFile(f)
  BY <1>8, BoundsUntouched
  DEF ClaimFile, ReserveReceipt, ReleaseFile, DeliverFile, OrderMoves, checkVars, historyVars
<1>9. QED
  BY <1>1, <1>2, <1>3, <1>4, <1>5, <1>6, <1>7, <1>8 DEF FileStep

(* Every step keeps the bounds.                                             *)
LEMMA BoundsStep ==
  ASSUME RowsTyped, BoundsKept, [InventoryNext]_inventoryVars
  PROVE  BoundsKept'
<1>1. CASE UNCHANGED inventoryVars
  BY <1>1, BoundsUntouched DEF inventoryVars, stockVars, checkVars, historyVars
<1>2. CASE StartRun \/ CheckOneOfRun
  BY <1>2, BoundsUntouched DEF StartRun, CheckOneOfRun, AskService, stockVars, historyVars
<1>3. ASSUME NEW a \in Restorer, WriteRestore(a) PROVE BoundsKept'
  <2>1. /\ archivings \in Nat /\ archivedAt \in [StockFile -> Nat] /\ takenOut \in [StockFile -> Nat]
        /\ restore \in [Restorer -> Restores]
    BY DEF RowsTyped
  <2>2. /\ UNCHANGED <<policy, archivings, checkedOrder>>
        /\ restore' = [restore EXCEPT ![a] = NoRestore]
    BY <1>3 DEF WriteRestore, checkVars
  <2>3. \A g \in StockFile : /\ archivedAt'[g] \in {archivedAt[g], 0}
                             /\ takenOut'[g] \in {takenOut[g], 0}
    BY <1>3, <2>1 DEF WriteRestore
  <2>4. \A b \in Restorer : restore'[b].archivedAt \in {restore[b].archivedAt, 0}
    BY <2>1, <2>2 DEF NoRestore
  <2>5. QED
    BY <2>1, <2>2, <2>3, <2>4 DEF BoundsKept
<1>4. ASSUME NEW p \in Policy, SetBannedPolicy(p) PROVE BoundsKept'
  BY <1>4, ChoiceAssumption DEF SetBannedPolicy, BoundsKept, checkVars, historyVars
<1>5. QED
  BY <1>1, <1>2, <1>3, <1>4, ChecksKeepBounds, FilesKeepBounds DEF InventoryNext, CronStep

(* The rows of the stock, what checks and restores hold and the order of    *)
(* the checks keep their types, and no more is archived than the bound.     *)
THEOREM InventoryTypesHold == InventorySpec => []InventoryTypeOK
<1>1. InventoryInit => BoundsKept
  BY BoundAssumption DEF InventoryInit, BoundsKept, NoRestore, Policies
<1>2. InventoryInv /\ BoundsKept /\ [InventoryNext]_inventoryVars => BoundsKept'
  BY BoundsStep DEF InventoryInv
<1>3. ASSUME InventoryInv, BoundsKept PROVE InventoryTypeOK
  <2>1. RowsTyped
    BY <1>3 DEF InventoryInv
  <2>2. \A n \in Nat : n <= archivings => n \in 0..MaxArchives
    BY <1>3, <2>1, BoundAssumption DEF RowsTyped, BoundsKept
  <2>3. /\ archivings \in 0..MaxArchives /\ archivedAt \in [StockFile -> 0..MaxArchives]
        /\ takenOut \in [StockFile -> 0..MaxArchives]
    BY <1>3, <2>1, <2>2 DEF RowsTyped, BoundsKept
  <2>4. ASSUME NEW c \in Checker
        PROVE  /\ check[c].at \in {"idle", "asking", "answered"}
               /\ check[c].file \in StockFile \cup {0}
               /\ check[c].content \in Content \cup {None}
               /\ check[c].answer \in Answers \cup {None}
    <3>1. check[c] \in Checks
      BY <2>1 DEF RowsTyped
    <3>2. QED
      BY <3>1 DEF Checks, NoCheck
  <2>5. ASSUME NEW a \in Restorer
        PROVE  /\ restore[a].file \in StockFile \cup {0}
               /\ restore[a].archivedAt \in 0..MaxArchives
               /\ restore[a].to \in Statuses \cup {None}
    <3>1. restore[a] \in Restores /\ restore[a].archivedAt <= archivings
      BY <1>3, <2>1 DEF RowsTyped, BoundsKept
    <3>2. /\ restore[a].file \in StockFile \cup {0} /\ restore[a].archivedAt \in Nat
          /\ restore[a].to \in RestoreTargets \cup {None}
      BY <3>1 DEF Restores, NoRestore
    <3>3. QED
      BY <2>2, <3>1, <3>2 DEF RestoreTargets, Statuses
  <2>6. QED
    BY <1>3, <2>1, <2>3, <2>4, <2>5 DEF RowsTyped, BoundsKept, InventoryTypeOK, Healths
<1>4. QED
  BY <1>1, <1>2, <1>3, InventoryInvariant, PTL DEF InventorySpec
==============================================================================
