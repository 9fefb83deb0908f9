-------------------------------- MODULE Cart --------------------------------
(***************************************************************************)
(* The cart of a web customer, which is kept by the server and changed     *)
(* from several tabs.  A change names the revision its tab shows and       *)
(* carries an idempotency key, under which a tab that got no answer sends  *)
(* it again.  What a tab has sent may reach the server late, or again.     *)
(***************************************************************************)
EXTENDS Naturals, FiniteSets

CONSTANTS
  Tab,        \* open tabs of the customer
  Command,    \* changes, each pressed once: their idempotency keys
  NoCommand   \* no change

ASSUME CartAssumption == NoCommand \notin Command /\ IsFiniteSet(Command)

VARIABLES
  cart,     \* WebCart.revision and the keys of WebCartMutation
  command,  \* the changes: their tab and expectedRevision, whether they were sent
  tab,      \* the tabs
  history   \* where changes were applied, and what was answered of them

cartVars == <<cart, command, tab, history>>

(* snapshot: the revision shown, or none yet.  retry: retryCommand; busy:   *)
(* a request is out; done: its transaction is committed, was before, or has *)
(* refused a change to another revision; reply: the cart read then.         *)
(* fetching: a refresh is out; fetched: the cart it read.  intent: the      *)
(* addition the tab has stored, which it resumes when it is loaded again.   *)
Revision == 0..Cardinality(Command)
MaybeRevision == {{}} \cup {{r} : r \in Revision}

TabRow == [snapshot : MaybeRevision, retry : Command \cup {NoCommand}, busy : BOOLEAN,
           done : BOOLEAN, reply : MaybeRevision, fetching : BOOLEAN, fetched : MaybeRevision,
           intent : Command \cup {NoCommand}]

FreshTab == [snapshot |-> {}, retry |-> NoCommand, busy |-> FALSE,
             done |-> FALSE, reply |-> {}, fetching |-> FALSE, fetched |-> {},
             intent |-> NoCommand]

CartInit ==
  /\ cart = [revision |-> 0, keys |-> {}]
  /\ command = [c \in Command |-> [tabs |-> {}, expected |-> 0]]
  /\ tab = [t \in Tab |-> FreshTab]
  /\ history = [applied |-> [c \in Command |-> {}], told |-> {}, refused |-> {}, forgotten |-> {}]

Sent(c) == command[c].tabs # {}

(* Fault: the cart that arrives last is shown.                              *)
AcceptLast(snapshot, r) == {r}

(* accept: an older cart does not replace the one shown.                    *)
AcceptCart(snapshot, r) == IF \E s \in snapshot : s > r THEN snapshot ELSE {r}

------------------------------------------------------------------------------
(* The tabs (CartStateProvider).                                            *)

(* mutate and its send; an addition that had to wait for the sign-in is     *)
(* stored with its command (resumeAdd).                                     *)
Change(t, c) ==
  /\ ~Sent(c) /\ ~tab[t].busy /\ tab[t].retry = NoCommand
  /\ \E r \in tab[t].snapshot :
       command' = [command EXCEPT ![c] = [tabs |-> {t}, expected |-> r]]
  /\ \E i \in {c, tab[t].intent} :
       tab' = [tab EXCEPT ![t] = [@ EXCEPT !.busy = TRUE, !.retry = c, !.intent = i]]
  /\ UNCHANGED <<cart, history>>

(* resumeAdd: the stored command again, as it was                           *)
Resume(t) ==
  LET c == tab[t].intent IN
  /\ c # NoCommand /\ tab[t].snapshot # {} /\ ~tab[t].busy
  /\ tab[t].retry \in {NoCommand, c}
  /\ tab' = [tab EXCEPT ![t] = [@ EXCEPT !.busy = TRUE, !.retry = c]]
  /\ UNCHANGED <<cart, command, history>>

(* retry: the same command again                                            *)
Retry(t) ==
  /\ ~tab[t].busy /\ tab[t].retry # NoCommand
  /\ tab' = [tab EXCEPT ![t].busy = TRUE]
  /\ UNCHANGED <<cart, command, history>>

(* No answer in twelve seconds, or one of 500 and more: the command is kept.*)
GiveUp(t) ==
  /\ tab[t].busy
  /\ tab' = [tab EXCEPT ![t].busy = FALSE, ![t].done = FALSE, ![t].reply = {}]
  /\ UNCHANGED <<cart, command, history>>

Without(intent, c) == IF intent = c THEN NoCommand ELSE intent

(* The cart read for the answer, or after a conflict, arrives.              *)
TakeReply(t) ==
  LET c == tab[t].retry IN
  /\ \E r \in tab[t].reply :
       tab' = [tab EXCEPT ![t] =
                 [@ EXCEPT !.snapshot = AcceptCart(tab[t].snapshot, r), !.reply = {}, !.done = FALSE,
                           !.busy = FALSE, !.retry = NoCommand, !.intent = Without(tab[t].intent, c)]]
  /\ history' = [history EXCEPT !.told = IF c = NoCommand THEN @ ELSE @ \cup {<<t, c>>}]
  /\ UNCHANGED <<cart, command>>

(* refresh, on focus and when another tab says that it changed the cart     *)
Refresh(t) ==
  /\ ~tab[t].busy /\ ~tab[t].fetching
  /\ tab' = [tab EXCEPT ![t].fetching = TRUE]
  /\ UNCHANGED <<cart, command, history>>

(* readWebCart                                                              *)
ReadCart(t) ==
  /\ tab[t].fetching /\ tab[t].fetched = {}
  /\ tab' = [tab EXCEPT ![t].fetched = {cart.revision}]
  /\ UNCHANGED <<cart, command, history>>

(* The cart arrives, or does not, whatever the tab does by now.             *)
Refreshed(t) ==
  /\ tab[t].fetching
  /\ \/ \E r \in tab[t].fetched :
          tab' = [tab EXCEPT ![t].snapshot = AcceptCart(@, r), ![t].fetching = FALSE,
                             ![t].fetched = {}]
     \/ tab' = [tab EXCEPT ![t].fetching = FALSE, ![t].fetched = {}]
  /\ UNCHANGED <<cart, command, history>>

(* The page is loaded again and forgets what it had sent, all but a stored  *)
(* addition; one that is an hour old is as one the customer never resumes.  *)
Reload(t) ==
  /\ tab' = [tab EXCEPT ![t] = [FreshTab EXCEPT !.intent = tab[t].intent]]
  /\ history' = [history EXCEPT !.told = {p \in @ : p[1] # t}]
  /\ UNCHANGED <<cart, command>>

------------------------------------------------------------------------------
(* The server (mutateWebCart), under the lock of the cart.                  *)

Known(c) == c \in cart.keys

(* Fault: the revision a change was made for does not matter.               *)
ForAnyRevision(c) == TRUE

ForThisRevision(c) == command[c].expected = cart.revision

(* An answer to a change reaches the tab if it still waits for it: it may   *)
(* be to an earlier request, of which the tab has given up.  A refusal      *)
(* below 500 drops the command; after a conflict the tab reads the cart.    *)
Waits(t, c) == tab[t].busy /\ tab[t].retry = c /\ ~tab[t].done

Accepted(c) ==
  \/ UNCHANGED tab
  \/ \E t \in command[c].tabs : Waits(t, c) /\ tab' = [tab EXCEPT ![t].done = TRUE]

Refused(c, reading) ==
  \/ UNCHANGED tab
  \/ \E t \in command[c].tabs :
       /\ Waits(t, c)
       /\ tab' = [tab EXCEPT ![t] =
                    [@ EXCEPT !.busy = reading, !.done = reading, !.retry = NoCommand,
                              !.intent = Without(tab[t].intent, c)]]

(* The transaction.                                                         *)
ApplyChange(c) ==
  /\ Sent(c) /\ ~Known(c) /\ ForThisRevision(c)
  /\ cart' = [revision |-> cart.revision + 1, keys |-> cart.keys \cup {c}]
  /\ history' = [history EXCEPT !.applied[c] = @ \cup {cart.revision + 1}]
  /\ Accepted(c)
  /\ UNCHANGED command

(* A command already done is answered with the cart.                        *)
AnswerAgain(c) ==
  /\ Sent(c) /\ Known(c)
  /\ Accepted(c)
  /\ UNCHANGED <<cart, command, history>>

(* readWebCart for the answer, after the transaction, or GET after a        *)
(* conflict                                                                 *)
ReadReply(t) ==
  /\ tab[t].done /\ tab[t].reply = {}
  /\ tab' = [tab EXCEPT ![t].reply = {cart.revision}]
  /\ UNCHANGED <<cart, command, history>>

(* Fault: the revision is checked before the key.                           *)
RefuseKnownToo(c) ==
  /\ Sent(c) /\ ~ForThisRevision(c)
  /\ Refused(c, TRUE)
  /\ history' = [history EXCEPT !.refused = @ \cup {c}]
  /\ UNCHANGED <<cart, command>>

(* cart_conflict                                                            *)
RefuseChange(c) ==
  /\ Sent(c) /\ ~Known(c) /\ ~ForThisRevision(c)
  /\ Refused(c, TRUE)
  /\ history' = [history EXCEPT !.refused = @ \cup {c}]
  /\ UNCHANGED <<cart, command>>

(* What is not available, too much or too often; the last is asked before   *)
(* anything else.                                                           *)
RejectChange(c) ==
  /\ Sent(c)
  /\ Refused(c, FALSE)
  /\ UNCHANGED <<cart, command, history>>

(* A later change deletes keys that are seven days old.                     *)
ForgetKey(c) ==
  /\ Known(c)
  /\ cart' = [cart EXCEPT !.keys = @ \ {c}]
  /\ history' = [history EXCEPT !.forgotten = @ \cup {c}]
  /\ UNCHANGED <<command, tab>>

------------------------------------------------------------------------------
TabStep(t) ==
  \/ \E c \in Command : Change(t, c)
  \/ Resume(t) \/ Retry(t) \/ GiveUp(t) \/ TakeReply(t) \/ Refresh(t) \/ ReadCart(t) \/ Refreshed(t)
  \/ Reload(t)

CartNext ==
  \/ \E t \in Tab : TabStep(t) \/ ReadReply(t)
  \/ \E c \in Command : \/ ApplyChange(c) \/ AnswerAgain(c) \/ RefuseChange(c)
                        \/ RejectChange(c) \/ ForgetKey(c)

CartSpec == CartInit /\ [][CartNext]_cartVars

------------------------------------------------------------------------------
(* Properties.                                                              *)

(* The types of all variables; there are not more revisions than changes.   *)
CartTypeOK ==
  /\ cart \in [revision : Revision, keys : SUBSET Command]
  /\ command \in [Command -> [tabs : SUBSET Tab, expected : Revision]]
  /\ tab \in [Tab -> TabRow]
  /\ history \in [applied : [Command -> SUBSET Revision], told : SUBSET (Tab \X Command),
                  refused : SUBSET Command, forgotten : SUBSET Command]

(* A change is made at most once, although it is sent again and arrives     *)
(* late, and after its key is forgotten too.                                *)
CartCommandOnce == \A c \in Command : Cardinality(history.applied[c]) <= 1

(* A tab that was told that its change is in the cart shows a cart that has *)
(* it: neither the answer nor a slow refresh shows an older one.            *)
ToldMeansShown ==
  \A p \in history.told :
    \E s \in tab[p[1]].snapshot : \A r \in history.applied[p[2]] : r <= s

(* What was refused because the cart had changed was not made and never     *)
(* will be, unless it had been made so long ago that its key is forgotten:  *)
(* the customer can safely press again.                                     *)
RefusedStaysRefused ==
  \A c \in history.refused : history.applied[c] = {} \/ c \in history.forgotten
==============================================================================
