----------------------------- MODULE CartProofs -----------------------------
(***************************************************************************)
(* The cart's revisions and keys do what they are for with any number of   *)
(* tabs and changes, whatever is sent again, arrives late or is forgotten. *)
(***************************************************************************)
EXTENDS Cart, FiniteSetTheorems, TLAPS

------------------------------------------------------------------------------
(* The inductive invariant.                                                 *)

TabShape == [snapshot : SUBSET Nat, retry : Command \cup {NoCommand}, busy : BOOLEAN,
             done : BOOLEAN, reply : SUBSET Nat, fetching : BOOLEAN, fetched : SUBSET Nat,
             intent : Command \cup {NoCommand}]

Shape ==
  /\ cart \in [revision : Nat, keys : SUBSET Command]
  /\ command \in [Command -> [tabs : SUBSET Tab, expected : Nat]]
  /\ tab \in [Tab -> TabShape]
  /\ history \in [applied : [Command -> SUBSET Nat], told : SUBSET (Tab \X Command),
                  refused : SUBSET Command, forgotten : SUBSET Command]

Made(c) == history.applied[c] # {}

(* A change was made to the revision it was for, which then has passed;     *)
(* that of one refused has passed too.                                      *)
MadeOnce ==
  \A c \in Command :
    /\ Sent(c) => command[c].expected <= cart.revision
    /\ Made(c) => /\ Sent(c) /\ command[c].expected < cart.revision
                  /\ history.applied[c] = {command[c].expected + 1}
                  /\ Known(c) \/ c \in history.forgotten
    /\ Known(c) => Made(c)
    /\ c \in history.refused => Sent(c) /\ command[c].expected < cart.revision

(* What a tab shows or is about to show existed, and an answer to a change  *)
(* that was made is a cart that has it.                                     *)
Informed(row) ==
  /\ \A r \in row.snapshot \cup row.reply \cup row.fetched : r <= cart.revision
  /\ row.done => row.busy
  /\ row.reply # {} => row.done
  /\ row.done /\ row.retry # NoCommand => Made(row.retry)
  /\ row.retry # NoCommand => \A r \in row.reply, k \in history.applied[row.retry] : k <= r

CartInv ==
  /\ Shape /\ MadeOnce
  /\ \A t \in Tab : Informed(tab[t])
  /\ \A p \in history.told : Made(p[2])
  /\ ToldMeansShown /\ RefusedStaysRefused

(* The customer has done nothing yet.                                       *)
LEMMA CartStart == CartInit => CartInv
BY CartAssumption
DEF CartInit, CartInv, Shape, TabShape, FreshTab, MadeOnce, Made, Sent, Known, Informed,
    ToldMeansShown, RefusedStaysRefused

------------------------------------------------------------------------------
(* Accepting a cart never shows less than before, nor less than the cart.   *)
LEMMA AcceptGrows ==
  ASSUME NEW snapshot \in SUBSET Nat, NEW r \in Nat
  PROVE  /\ AcceptCart(snapshot, r) \in SUBSET (snapshot \cup {r})
         /\ \E s \in AcceptCart(snapshot, r) : r <= s
         /\ \A k \in snapshot : \E s \in AcceptCart(snapshot, r) : k <= s
BY DEF AcceptCart

(* A step of a tab: it knows what exists, and what it was told is shown.    *)
Keeps(t, row) ==
  /\ tab' = [tab EXCEPT ![t] = row] /\ row \in TabShape /\ Informed(row)
  /\ UNCHANGED <<cart, history.applied, history.refused, history.forgotten>>

Shown(p, snapshot) == \E s \in snapshot : \A r \in history.applied[p[2]] : r <= s

(* A tab goes on: as long as it is informed and knows what it was told, the *)
(* invariant stays.                                                         *)
LEMMA TabNext ==
  ASSUME CartInv, NEW t \in Tab, NEW row, Keeps(t, row),
         \/ UNCHANGED command
         \/ \E c \in Command, r \in tab[t].snapshot :
              ~Sent(c) /\ command' = [command EXCEPT ![c] = [tabs |-> {t}, expected |-> r]],
         history' \in [applied : [Command -> SUBSET Nat], told : SUBSET (Tab \X Command),
                       refused : SUBSET Command, forgotten : SUBSET Command],
         \A p \in history'.told :
           Made(p[2]) /\ (p[1] = t => Shown(p, row.snapshot)) /\ (p[1] # t => p \in history.told)
  PROVE  CartInv'
<1>1. /\ Shape /\ MadeOnce /\ \A u \in Tab : Informed(tab[u])
      /\ ToldMeansShown /\ RefusedStaysRefused
  BY DEF CartInv
<1>2. \A u \in Tab : tab'[u] = IF u = t THEN row ELSE tab[u]
  BY <1>1 DEF Keeps, Shape
<1>3. Shape' /\ MadeOnce'
  <2>1. CASE UNCHANGED command
    BY <1>1, <2>1 DEF Shape, Keeps, MadeOnce, Sent, Known, Made
  <2>2. ASSUME NEW c \in Command, NEW r \in tab[t].snapshot, ~Sent(c),
               command' = [command EXCEPT ![c] = [tabs |-> {t}, expected |-> r]]
        PROVE  Shape' /\ MadeOnce'
    <3>1. r \in Nat /\ r <= cart.revision
      BY <1>1 DEF Shape, TabShape, Informed
    <3>2. Shape'
      BY <1>1, <2>2, <3>1 DEF Shape, Keeps
    <3>3. MadeOnce'
      BY <1>1, <2>2, <3>1 DEF Shape, Keeps, MadeOnce, Sent, Known, Made
    <3>4. QED
      BY <3>2, <3>3
  <2>3. QED
    BY <2>1, <2>2
<1>4. \A u \in Tab : Informed(tab[u])'
  BY <1>1, <1>2 DEF Informed, Made, Keeps
<1>5. ToldMeansShown'
  <2>1. \A p \in history'.told : p[1] \in Tab
    OBVIOUS
  <2>2. QED
    BY <1>1, <1>2, <2>1 DEF ToldMeansShown, Shown, Keeps
<1>6. RefusedStaysRefused' /\ \A p \in history'.told : Made(p[2])'
  BY <1>1 DEF RefusedStaysRefused, Made, Keeps
<1>7. QED
  BY <1>3, <1>4, <1>5, <1>6 DEF CartInv

(* What a tab was told is still shown when it shows no less.                *)
LEMMA StillShown ==
  ASSUME CartInv, NEW t \in Tab, NEW snapshot \in SUBSET Nat,
         \A k \in tab[t].snapshot : \E s \in snapshot : k <= s, NEW p \in history.told, p[1] = t
  PROVE  Made(p[2]) /\ Shown(p, snapshot)
<1>1. /\ Made(p[2]) /\ p \in Tab \X Command
      /\ ToldMeansShown /\ Shape
  BY DEF CartInv, Shape
<1>2. tab[t].snapshot \in SUBSET Nat /\ history.applied[p[2]] \in SUBSET Nat
  BY <1>1 DEF TabShape, Shape
<1>3. PICK k \in tab[t].snapshot : \A r \in history.applied[p[2]] : r <= k
  BY <1>1 DEF ToldMeansShown
<1>4. PICK s \in snapshot : k <= s
  OBVIOUS
<1>5. QED
  BY <1>1, <1>2, <1>3, <1>4 DEF Shown

(* A step of a tab that is told nothing.                                    *)
LEMMA TabQuietNext ==
  ASSUME CartInv, NEW t \in Tab, NEW row, Keeps(t, row), UNCHANGED history,
         \/ UNCHANGED command
         \/ \E c \in Command, r \in tab[t].snapshot :
              ~Sent(c) /\ command' = [command EXCEPT ![c] = [tabs |-> {t}, expected |-> r]],
         \A k \in tab[t].snapshot : \E s \in row.snapshot : k <= s
  PROVE  CartInv'
<1>1. row.snapshot \in SUBSET Nat
  BY DEF Keeps, TabShape
<1>2. \A p \in history.told : Made(p[2]) /\ (p[1] = t => Shown(p, row.snapshot))
  BY <1>1, StillShown DEF CartInv
<1>3. QED
  BY <1>2, TabNext DEF CartInv, Shape

(* The steps of the tabs.                                                   *)
LEMMA TabsNext ==
  ASSUME CartInv, NEW t \in Tab, TabStep(t) \/ ReadReply(t)
  PROVE  CartInv'
<1>1. /\ Shape /\ Informed(tab[t]) /\ tab[t] \in TabShape
      /\ cart.revision \in Nat
  BY DEF CartInv, Shape
<1> DEFINE snapshot == tab[t].snapshot
<1>2. ASSUME NEW row, tab' = [tab EXCEPT ![t] = row], row \in TabShape, Informed(row),
             UNCHANGED <<cart, history>>, row.snapshot = snapshot,
             \/ UNCHANGED command
             \/ \E c \in Command, r \in snapshot :
                  ~Sent(c) /\ command' = [command EXCEPT ![c] = [tabs |-> {t}, expected |-> r]]
      PROVE  CartInv'
  <2>1. Keeps(t, row)
    BY <1>2 DEF Keeps
  <2>2. \A k \in snapshot : \E s \in row.snapshot : k <= s
    BY <1>1, <1>2 DEF TabShape
  <2>3. QED
    BY <1>2, <2>1, <2>2, TabQuietNext
<1>3. ASSUME NEW c \in Command, Change(t, c) PROVE CartInv'
  <2>1. PICK i \in {c, tab[t].intent} :
             tab' = [tab EXCEPT ![t] = [tab[t] EXCEPT !.busy = TRUE, !.retry = c, !.intent = i]]
    BY <1>1, <1>3 DEF Change, Shape
  <2> DEFINE row == [tab[t] EXCEPT !.busy = TRUE, !.retry = c, !.intent = i]
  <2>2. row \in TabShape /\ Informed(row) /\ row.snapshot = snapshot
    BY <1>1, <1>3, <2>1 DEF Change, TabShape, Informed
  <2>3. QED
    BY <1>2, <1>3, <2>1, <2>2 DEF Change
<1>4. CASE Resume(t)
  <2> DEFINE row == [tab[t] EXCEPT !.busy = TRUE, !.retry = tab[t].intent]
  <2>1. tab' = [tab EXCEPT ![t] = row]
    BY <1>1, <1>4 DEF Resume, Shape
  <2>2. row \in TabShape /\ Informed(row) /\ row.snapshot = snapshot
    BY <1>1, <1>4 DEF Resume, TabShape, Informed
  <2>3. QED
    BY <1>2, <1>4, <2>1, <2>2 DEF Resume
<1>5. CASE Retry(t)
  <2> DEFINE row == [tab[t] EXCEPT !.busy = TRUE]
  <2>1. tab' = [tab EXCEPT ![t] = row]
    BY <1>1, <1>5 DEF Retry, Shape
  <2>2. row \in TabShape /\ Informed(row) /\ row.snapshot = snapshot
    BY <1>1, <1>5 DEF Retry, TabShape, Informed
  <2>3. QED
    BY <1>2, <1>5, <2>1, <2>2 DEF Retry
<1>6. CASE GiveUp(t)
  <2> DEFINE row == [tab[t] EXCEPT !.busy = FALSE, !.done = FALSE, !.reply = {}]
  <2>1. tab' = [tab EXCEPT ![t] = row]
    BY <1>1, <1>6 DEF GiveUp, Shape
  <2>2. row \in TabShape /\ Informed(row) /\ row.snapshot = snapshot
    BY <1>1, <1>6 DEF GiveUp, TabShape, Informed
  <2>3. QED
    BY <1>2, <1>6, <2>1, <2>2 DEF GiveUp
<1>7. CASE Refresh(t) \/ ReadCart(t)
  <2>1. CASE Refresh(t)
    <3> DEFINE row == [tab[t] EXCEPT !.fetching = TRUE]
    <3>1. tab' = [tab EXCEPT ![t] = row]
      BY <1>1, <2>1 DEF Refresh, Shape
    <3>2. row \in TabShape /\ Informed(row) /\ row.snapshot = snapshot
      BY <1>1 DEF TabShape, Informed
    <3>3. QED
      BY <1>2, <2>1, <3>1, <3>2 DEF Refresh
  <2>2. CASE ReadCart(t)
    <3> DEFINE row == [tab[t] EXCEPT !.fetched = {cart.revision}]
    <3>1. tab' = [tab EXCEPT ![t] = row]
      BY <1>1, <2>2 DEF ReadCart, Shape
    <3>2. row \in TabShape /\ Informed(row) /\ row.snapshot = snapshot
      BY <1>1 DEF TabShape, Informed
    <3>3. QED
      BY <1>2, <2>2, <3>1, <3>2 DEF ReadCart
  <2>3. QED
    BY <1>7, <2>1, <2>2
<1>8. CASE Refreshed(t)
  <2>1. PICK shown : /\ tab' = [tab EXCEPT ![t] = [tab[t] EXCEPT !.snapshot = shown, !.fetching = FALSE,
                                                               !.fetched = {}]]
                     /\ shown = snapshot \/ \E r \in tab[t].fetched : shown = AcceptCart(snapshot, r)
    <3>1. CASE tab' = [tab EXCEPT ![t].fetching = FALSE, ![t].fetched = {}]
      <4>1. tab' = [tab EXCEPT ![t] = [tab[t] EXCEPT !.snapshot = snapshot, !.fetching = FALSE,
                                                    !.fetched = {}]]
        BY <1>1, <3>1 DEF Shape, TabShape
      <4>2. QED
        BY <4>1
    <3>2. ASSUME NEW r \in tab[t].fetched,
                 tab' = [tab EXCEPT ![t].snapshot = AcceptCart(@, r), ![t].fetching = FALSE,
                                    ![t].fetched = {}]
          PROVE  \E shown :
                   /\ tab' = [tab EXCEPT ![t] = [tab[t] EXCEPT !.snapshot = shown, !.fetching = FALSE,
                                                              !.fetched = {}]]
                   /\ shown = AcceptCart(snapshot, r)
      BY <1>1, <3>2 DEF Shape, TabShape
    <3>3. QED
      BY <1>8, <3>1, <3>2 DEF Refreshed
  <2> DEFINE row == [tab[t] EXCEPT !.snapshot = shown, !.fetching = FALSE, !.fetched = {}]
  <2>2. /\ shown \in SUBSET (snapshot \cup tab[t].fetched)
        /\ \A k \in snapshot : \E s \in shown : k <= s
    BY <1>1, <2>1, AcceptGrows DEF TabShape
  <2>3. row \in TabShape /\ Informed(row) /\ row.snapshot = shown
    BY <1>1, <2>2 DEF TabShape, Informed
  <2>4. QED
    BY <1>8, <2>1, <2>2, <2>3, TabQuietNext DEF Refreshed, Keeps
<1>9. CASE ReadReply(t)
  <2> DEFINE row == [tab[t] EXCEPT !.reply = {cart.revision}]
  <2>1. tab' = [tab EXCEPT ![t] = row]
    BY <1>1, <1>9 DEF ReadReply, Shape
  <2>2. tab[t].retry # NoCommand => \A k \in history.applied[tab[t].retry] : k <= cart.revision
    BY <1>1, <1>9 DEF ReadReply, Informed, CartInv, MadeOnce, Made, Shape, TabShape
  <2>3. row \in TabShape /\ Informed(row) /\ row.snapshot = snapshot
    BY <1>1, <1>9, <2>2 DEF ReadReply, TabShape, Informed
  <2>4. QED
    BY <1>2, <1>9, <2>1, <2>3 DEF ReadReply
<1>10. CASE TakeReply(t)
  <2> DEFINE c == tab[t].retry
  <2>1. PICK r \in tab[t].reply :
             tab' = [tab EXCEPT ![t] =
                       [tab[t] EXCEPT !.snapshot = AcceptCart(snapshot, r), !.reply = {}, !.done = FALSE,
                                      !.busy = FALSE, !.retry = NoCommand,
                                      !.intent = Without(tab[t].intent, c)]]
    BY <1>1, <1>10 DEF TakeReply, Shape
  <2> DEFINE shown == AcceptCart(snapshot, r)
             row == [tab[t] EXCEPT !.snapshot = shown, !.reply = {}, !.done = FALSE, !.busy = FALSE,
                                   !.retry = NoCommand, !.intent = Without(tab[t].intent, c)]
  <2>2. /\ shown \in SUBSET (snapshot \cup {r}) /\ r \in Nat
        /\ \E s \in shown : r <= s
        /\ \A k \in snapshot : \E s \in shown : k <= s
    BY <1>1, <2>1, AcceptGrows DEF TabShape
  <2>3. row \in TabShape /\ Informed(row) /\ row.snapshot = shown
    <3>1. /\ shown \in SUBSET Nat
          /\ Without(tab[t].intent, c) \in Command \cup {NoCommand}
      BY <1>1, <2>2 DEF Without, TabShape
    <3> HIDE DEF shown
    <3>2. /\ row.snapshot = shown /\ row.reply = {} /\ row.fetched = tab[t].fetched
          /\ row.done = FALSE /\ row.busy = FALSE /\ row.retry = NoCommand
      BY <1>1 DEF TabShape
    <3>3. row \in TabShape
      BY <1>1, <3>1 DEF TabShape
    <3> HIDE DEF row
    <3>4. Informed(row)
      BY <1>1, <2>1, <2>2, <3>2 DEF Informed
    <3>5. QED
      BY <3>2, <3>3, <3>4
  <2>4. /\ UNCHANGED <<history.applied, history.refused, history.forgotten>>
        /\ history'.told = IF c = NoCommand THEN history.told ELSE history.told \cup {<<t, c>>}
        /\ history' \in [applied : [Command -> SUBSET Nat], told : SUBSET (Tab \X Command),
                         refused : SUBSET Command, forgotten : SUBSET Command]
    <3> DEFINE told == IF c = NoCommand THEN history.told ELSE history.told \cup {<<t, c>>}
    <3>1. history' = [history EXCEPT !.told = told]
      BY <1>10 DEF TakeReply
    <3>2. told \in SUBSET (Tab \X Command)
      BY <1>1 DEF Shape, TabShape
    <3>3. QED
      BY <1>1, <3>1, <3>2 DEF Shape
  <2>5. ASSUME c # NoCommand PROVE Made(c) /\ Shown(<<t, c>>, shown)
    <3>1. /\ Made(c) /\ c \in Command
          /\ \A k \in history.applied[c] : k <= r /\ k \in Nat
      BY <1>1, <2>1, <2>5 DEF Informed, TabShape, Shape
    <3>2. PICK s \in shown : r <= s
      BY <2>2
    <3>3. s \in Nat
      BY <1>1, <2>2, <3>2 DEF TabShape
    <3>4. QED
      BY <2>2, <3>1, <3>2, <3>3 DEF Shown
  <2>6. \A p \in history'.told :
          Made(p[2]) /\ (p[1] = t => Shown(p, shown)) /\ (p[1] # t => p \in history.told)
    <3>1. shown \in SUBSET Nat
      BY <2>3 DEF TabShape
    <3>2. \A p \in history.told : Made(p[2]) /\ (p[1] = t => Shown(p, shown))
      BY <2>2, <3>1, StillShown DEF CartInv
    <3>3. QED
      BY <2>4, <2>5, <3>2
  <2>7. Keeps(t, row) /\ UNCHANGED command
    BY <1>10, <2>1, <2>3, <2>4 DEF Keeps, TakeReply
  <2> HIDE DEF row, shown
  <2>8. QED
    BY <2>3, <2>4, <2>6, <2>7, TabNext
<1>11. CASE Reload(t)
  <2> DEFINE row == [FreshTab EXCEPT !.intent = tab[t].intent]
  <2>1. row \in TabShape /\ Informed(row)
    BY <1>1, CartAssumption DEF FreshTab, TabShape, Informed
  <2>2. /\ UNCHANGED <<history.applied, history.refused, history.forgotten>>
        /\ history'.told = {p \in history.told : p[1] # t}
        /\ history' \in [applied : [Command -> SUBSET Nat], told : SUBSET (Tab \X Command),
                         refused : SUBSET Command, forgotten : SUBSET Command]
    BY <1>1, <1>11 DEF Reload, Shape
  <2>3. Keeps(t, row) /\ UNCHANGED command
    BY <1>1, <1>11, <2>1, <2>2 DEF Keeps, Reload, Shape
  <2>4. QED
    BY <2>2, <2>3, TabNext DEF CartInv
<1>12. QED
  BY <1>3, <1>4, <1>5, <1>6, <1>7, <1>8, <1>9, <1>10, <1>11 DEF TabStep
------------------------------------------------------------------------------
(* An answer changes what a tab waits for and not what it shows; what it is *)
(* to be told was made.                                                     *)
AnswersOnly ==
  /\ tab' \in [Tab -> TabShape]
  /\ \A u \in Tab :
       /\ tab'[u].snapshot = tab[u].snapshot /\ tab'[u].fetched = tab[u].fetched
       /\ \/ tab'[u] = tab[u]
          \/ /\ tab'[u].reply = {} /\ (tab'[u].done => tab'[u].busy)
             /\ tab'[u].done /\ tab'[u].retry # NoCommand => history'.applied[tab'[u].retry] # {}

(* An answer of the server reaches its tabs and nothing else, whether the   *)
(* change was made or refused.                                              *)
LEMMA AnswerTabs ==
  ASSUME CartInv, NEW c \in Command
  PROVE  /\ Accepted(c) /\ history'.applied[c] # {} => AnswersOnly
         /\ \A reading \in BOOLEAN : Refused(c, reading) => AnswersOnly
<1>1. /\ tab \in [Tab -> TabShape] /\ \A u \in Tab : Informed(tab[u])
      /\ command[c].tabs \in SUBSET Tab
  BY DEF CartInv, Shape
<1>2. ASSUME UNCHANGED tab PROVE AnswersOnly
  BY <1>1, <1>2 DEF AnswersOnly
<1>3. ASSUME NEW t \in Tab, NEW row \in TabShape, tab' = [tab EXCEPT ![t] = row],
             row.snapshot = tab[t].snapshot, row.fetched = tab[t].fetched,
             row.reply = {}, row.done => row.busy,
             row.done /\ row.retry # NoCommand => history'.applied[row.retry] # {}
      PROVE  AnswersOnly
  <2>1. \A u \in Tab : tab'[u] = IF u = t THEN row ELSE tab[u]
    BY <1>1, <1>3
  <2>2. tab' \in [Tab -> TabShape]
    BY <1>1, <1>3
  <2>3. QED
    BY <1>3, <2>1, <2>2 DEF AnswersOnly
<1>4. ASSUME Accepted(c), history'.applied[c] # {} PROVE AnswersOnly
  <2>1. ASSUME NEW t \in command[c].tabs, Waits(t, c), tab' = [tab EXCEPT ![t].done = TRUE]
        PROVE  AnswersOnly
    <3> DEFINE row == [tab[t] EXCEPT !.done = TRUE]
    <3>1. t \in Tab /\ tab' = [tab EXCEPT ![t] = row]
      BY <1>1, <2>1
    <3>2. tab[t] \in TabShape /\ Informed(tab[t])
      BY <1>1, <3>1
    <3>3. row \in TabShape /\ row.snapshot = tab[t].snapshot /\ row.fetched = tab[t].fetched
      BY <3>2 DEF TabShape
    <3>4. row.reply = tab[t].reply /\ row.busy = tab[t].busy /\ row.retry = tab[t].retry
      BY <3>2 DEF TabShape
    <3>5. row.reply = {} /\ row.busy /\ row.retry = c
      BY <2>1, <3>2, <3>4 DEF Waits, Informed
    <3> HIDE DEF row
    <3>6. QED
      BY <1>3, <1>4, <3>1, <3>3, <3>5
  <2>2. QED
    BY <1>2, <1>4, <2>1 DEF Accepted
<1>5. ASSUME NEW reading \in BOOLEAN, Refused(c, reading) PROVE AnswersOnly
  <2>1. ASSUME NEW t \in command[c].tabs, Waits(t, c),
               tab' = [tab EXCEPT ![t] =
                         [@ EXCEPT !.busy = reading, !.done = reading, !.retry = NoCommand,
                                   !.intent = Without(tab[t].intent, c)]]
        PROVE  AnswersOnly
    <3> DEFINE row == [tab[t] EXCEPT !.busy = reading, !.done = reading, !.retry = NoCommand,
                                     !.intent = Without(tab[t].intent, c)]
    <3>1. t \in Tab /\ tab' = [tab EXCEPT ![t] = row]
      BY <1>1, <2>1
    <3>2. Without(tab[t].intent, c) \in Command \cup {NoCommand}
      BY <1>1, <3>1 DEF Without, TabShape
    <3>3. row \in TabShape /\ row.snapshot = tab[t].snapshot /\ row.fetched = tab[t].fetched
      BY <1>1, <3>1, <3>2 DEF TabShape
    <3>4. row.reply = {} /\ (row.done => row.busy) /\ row.retry = NoCommand
      BY <1>1, <2>1, <3>1 DEF TabShape, Waits, Informed
    <3> HIDE DEF row
    <3>5. QED
      BY <1>3, <3>1, <3>3, <3>4
  <2>2. QED
    BY <1>2, <1>5, <2>1 DEF Refused
<1>6. QED
  BY <1>4, <1>5

(* The server's steps, as far as tabs are concerned.                        *)
LEMMA AnswersNext ==
  ASSUME CartInv, AnswersOnly, cart'.revision \in Nat, cart.revision <= cart'.revision,
         history'.told = history.told,
         \A c \in Command : \/ history'.applied[c] = history.applied[c]
                            \/ ~Made(c) /\ history'.applied[c] # {}
  PROVE  /\ \A t \in Tab : Informed(tab[t])'
         /\ \A p \in history'.told : Made(p[2])'
         /\ ToldMeansShown'
<1>1. /\ Shape /\ \A t \in Tab : Informed(tab[t]) /\ tab[t] \in TabShape
      /\ ToldMeansShown /\ \A p \in history.told : Made(p[2]) /\ p \in Tab \X Command
  BY DEF CartInv, Shape
<1>2. \A p \in history'.told : Made(p[2])' /\ history'.applied[p[2]] = history.applied[p[2]]
  BY <1>1 DEF Made
<1>3. ToldMeansShown'
  BY <1>1, <1>2 DEF ToldMeansShown, AnswersOnly
<1>4. ASSUME NEW t \in Tab PROVE Informed(tab[t])'
  <2>1. /\ tab'[t] \in TabShape /\ cart.revision \in Nat
        /\ \A r \in tab'[t].snapshot \cup tab'[t].fetched : r <= cart'.revision
    BY <1>1 DEF AnswersOnly, Informed, Shape, TabShape
  <2>2. CASE tab'[t] = tab[t]
    <3>1. \A r \in tab[t].reply : r <= cart'.revision
      BY <1>1, <2>1 DEF Informed, TabShape
    <3>2. tab[t].done /\ tab[t].retry # NoCommand =>
            Made(tab[t].retry) /\ history'.applied[tab[t].retry] = history.applied[tab[t].retry]
      BY <1>1 DEF Informed, TabShape
    <3>3. QED
      BY <1>1, <2>1, <2>2, <3>1, <3>2 DEF Informed, Made
  <2>3. CASE tab'[t] # tab[t]
    BY <2>1, <2>3 DEF AnswersOnly, Informed, Made
  <2>4. QED
    BY <2>2, <2>3
<1>5. QED
  BY <1>2, <1>3, <1>4

(* The steps of the server.                                                 *)
LEMMA ServerNext ==
  ASSUME CartInv, NEW c \in Command,
         ApplyChange(c) \/ AnswerAgain(c) \/ RefuseChange(c) \/ RejectChange(c) \/ ForgetKey(c)
  PROVE  CartInv'
<1>1. /\ Shape /\ MadeOnce /\ RefusedStaysRefused
  BY DEF CartInv
<1>2. CASE ApplyChange(c)
  <2>1. ~Made(c) /\ Sent(c) /\ command[c].expected = cart.revision /\ c \notin history.refused
    BY <1>1, <1>2 DEF MadeOnce, ApplyChange, ForThisRevision, Shape
  <2>2. history.applied[c] = {}
    BY <2>1 DEF Made
  <2>3. /\ history' = [history EXCEPT !.applied = [@ EXCEPT ![c] = {cart.revision + 1}]]
        /\ cart' = [revision |-> cart.revision + 1, keys |-> cart.keys \cup {c}]
    BY <1>1, <1>2, <2>2 DEF ApplyChange, Shape
  <2>4. /\ history'.applied = [history.applied EXCEPT ![c] = {cart.revision + 1}]
        /\ history'.told = history.told /\ history'.refused = history.refused
        /\ history'.forgotten = history.forgotten
        /\ cart'.revision = cart.revision + 1 /\ cart'.keys = cart.keys \cup {c}
    BY <1>1, <2>3 DEF Shape
  <2>5. /\ cart.revision + 1 \in Nat /\ cart.revision <= cart.revision + 1
        /\ history'.applied[c] = {cart.revision + 1}
        /\ \A d \in Command : d # c => history'.applied[d] = history.applied[d]
    BY <1>1, <2>4 DEF Shape
  <2>6. AnswersOnly
    BY <1>2, <2>5, AnswerTabs DEF ApplyChange
  <2>7. Shape'
    <3>1. cart' \in [revision : Nat, keys : SUBSET Command]
      BY <1>1, <2>3, <2>5 DEF Shape
    <3>2. [history.applied EXCEPT ![c] = {cart.revision + 1}] \in [Command -> SUBSET Nat]
      BY <1>1, <2>5 DEF Shape
    <3>3. history' \in [applied : [Command -> SUBSET Nat], told : SUBSET (Tab \X Command),
                        refused : SUBSET Command, forgotten : SUBSET Command]
      BY <1>1, <2>3, <3>2 DEF Shape
    <3>4. QED
      BY <1>1, <1>2, <2>6, <3>1, <3>3 DEF Shape, AnswersOnly, ApplyChange
  <2>8. MadeOnce'
    <3>1. /\ UNCHANGED command /\ cart.revision \in Nat
          /\ \A d \in Command : command[d].expected \in Nat
      BY <1>1, <1>2 DEF ApplyChange, Shape
    <3>2. ASSUME NEW d \in Command, d # c
          PROVE  /\ Sent(d)' <=> Sent(d)
                 /\ Made(d)' <=> Made(d)
                 /\ Known(d)' <=> Known(d)
                 /\ history'.applied[d] = history.applied[d]
      BY <2>4, <2>5, <3>1, <3>2 DEF Sent, Made, Known
    <3>3. Sent(c)' /\ Made(c)' /\ Known(c)' /\ c \notin history'.refused
      BY <2>1, <2>4, <2>5, <3>1 DEF Sent, Made, Known
    <3>4. \A d \in Command : command[d].expected <= cart.revision =>
                             command[d].expected < cart'.revision
      BY <2>4, <3>1
    <3>5. /\ command'[c].expected < cart'.revision
          /\ history'.applied[c] = {command'[c].expected + 1}
      BY <2>1, <2>4, <2>5, <3>1
    <3>6. ASSUME NEW d \in Command, d # c
          PROVE  /\ Sent(d)' => command'[d].expected <= cart'.revision
                 /\ Made(d)' => /\ Sent(d)' /\ command'[d].expected < cart'.revision
                                /\ history'.applied[d] = {command'[d].expected + 1}
                                /\ Known(d)' \/ d \in history'.forgotten
                 /\ Known(d)' => Made(d)'
                 /\ d \in history'.refused => Sent(d)' /\ command'[d].expected < cart'.revision
      <4>1. cart'.revision \in Nat /\ command'[d].expected \in Nat
        BY <2>4, <2>5, <3>1
      <4>2. Sent(d) => command'[d].expected < cart'.revision
        BY <1>1, <3>1, <3>4 DEF MadeOnce
      <4>3. command'[d].expected < cart'.revision => command'[d].expected <= cart'.revision
        BY <4>1
      <4>4. QED
        BY <1>1, <2>4, <3>1, <3>2, <3>6, <4>2, <4>3 DEF MadeOnce
    <3>7. /\ cart'.revision \in Nat /\ command'[c].expected \in Nat
          /\ command'[c].expected <= cart'.revision
      BY <2>4, <2>5, <3>1, <3>5
    <3>8. QED
      BY <3>3, <3>5, <3>6, <3>7 DEF MadeOnce
  <2>9. RefusedStaysRefused'
    BY <1>1, <2>1, <2>4, <2>5 DEF RefusedStaysRefused, Shape
  <2>10. QED
    BY <2>1, <2>4, <2>5, <2>6, <2>7, <2>8, <2>9, AnswersNext DEF CartInv
<1>3. ASSUME AnswersOnly, UNCHANGED <<cart, command, history>> PROVE CartInv'
  <2>1. Shape' /\ MadeOnce' /\ RefusedStaysRefused'
    BY <1>1, <1>3 DEF Shape, AnswersOnly, MadeOnce, Made, Sent, Known, RefusedStaysRefused
  <2>2. cart'.revision \in Nat /\ cart.revision <= cart'.revision
    BY <1>1, <1>3 DEF Shape
  <2>3. QED
    BY <1>3, <2>1, <2>2, AnswersNext DEF CartInv
<1>4. CASE AnswerAgain(c)
  <2>1. history'.applied[c] # {}
    BY <1>1, <1>4 DEF AnswerAgain, MadeOnce, Made
  <2>2. QED
    BY <1>3, <1>4, <2>1, AnswerTabs DEF AnswerAgain
<1>5. CASE RejectChange(c)
  BY <1>3, <1>5, AnswerTabs DEF RejectChange
<1>6. CASE RefuseChange(c)
  <2>1. /\ history'.refused = history.refused \cup {c} /\ history'.applied = history.applied
        /\ history'.told = history.told /\ history'.forgotten = history.forgotten
        /\ UNCHANGED <<cart, command>>
        /\ history' \in [applied : [Command -> SUBSET Nat], told : SUBSET (Tab \X Command),
                         refused : SUBSET Command, forgotten : SUBSET Command]
    BY <1>1, <1>6 DEF RefuseChange, Shape
  <2>2. AnswersOnly
    BY <1>6, AnswerTabs DEF RefuseChange
  <2>3. /\ Sent(c) /\ command[c].expected < cart.revision
        /\ Made(c) => c \in history.forgotten
    <3>1. /\ Sent(c) /\ ~Known(c) /\ command[c].expected # cart.revision
          /\ command[c].expected \in Nat /\ cart.revision \in Nat
      BY <1>1, <1>6 DEF RefuseChange, ForThisRevision, Shape
    <3>2. command[c].expected <= cart.revision /\ (Made(c) => c \in history.forgotten)
      BY <1>1, <3>1 DEF MadeOnce
    <3>3. QED
      BY <3>1, <3>2
  <2>4. Shape' /\ MadeOnce' /\ RefusedStaysRefused'
    BY <1>1, <2>1, <2>2, <2>3
    DEF Shape, AnswersOnly, MadeOnce, Made, Sent, Known, RefusedStaysRefused
  <2>5. cart'.revision \in Nat /\ cart.revision <= cart'.revision
    BY <1>1, <2>1 DEF Shape
  <2>6. QED
    BY <2>1, <2>2, <2>4, <2>5, AnswersNext DEF CartInv
<1>7. CASE ForgetKey(c)
  <2>1. /\ history'.forgotten = history.forgotten \cup {c} /\ history'.applied = history.applied
        /\ history'.told = history.told /\ history'.refused = history.refused
        /\ cart'.keys = cart.keys \ {c} /\ cart'.revision = cart.revision
        /\ UNCHANGED <<command, tab>>
    BY <1>1, <1>7 DEF ForgetKey, Shape
  <2>2. Shape' /\ AnswersOnly
    BY <1>1, <1>7 DEF ForgetKey, Shape, AnswersOnly
  <2>3. MadeOnce' /\ RefusedStaysRefused'
    BY <1>1, <2>1 DEF MadeOnce, Made, Sent, Known, RefusedStaysRefused
  <2>4. cart'.revision \in Nat /\ cart.revision <= cart'.revision
    BY <1>1, <2>1 DEF Shape
  <2>5. QED
    BY <2>1, <2>2, <2>3, <2>4, AnswersNext DEF CartInv
<1>8. QED
  BY <1>2, <1>4, <1>5, <1>6, <1>7

(* Every step keeps the invariant.                                          *)
LEMMA CartStep == CartInv /\ [CartNext]_cartVars => CartInv'
<1>1. ASSUME CartInv, CartNext PROVE CartInv'
  BY <1>1, TabsNext, ServerNext DEF CartNext
<1>2. ASSUME CartInv, UNCHANGED cartVars PROVE CartInv'
  BY <1>2 DEF cartVars, CartInv, Shape, MadeOnce, Made, Sent, Known, Informed, ToldMeansShown,
              RefusedStaysRefused
<1>3. QED
  BY <1>1, <1>2

(* The invariant holds for ever.                                            *)
LEMMA CartInvariant == CartSpec => []CartInv
BY CartStart, CartStep, PTL DEF CartSpec

------------------------------------------------------------------------------
(* The theorems.                                                            *)

(* A change is made at most once, however often and from wherever it is     *)
(* sent, and after its key is forgotten: its revision has passed.           *)
THEOREM ChangesAreMadeOnce == CartSpec => []CartCommandOnce
<1>1. ASSUME CartInv PROVE CartCommandOnce
  <2>1. \A c \in Command : history.applied[c] = {} \/ history.applied[c] = {command[c].expected + 1}
    BY <1>1 DEF CartInv, MadeOnce, Made
  <2>2. Cardinality({}) = 0 /\ \A k : Cardinality({k}) = 1
    BY FS_EmptySet, FS_Singleton
  <2>3. ASSUME NEW c \in Command PROVE Cardinality(history.applied[c]) <= 1
    <3>1. Cardinality(history.applied[c]) \in {0, 1}
      BY <2>1, <2>2
    <3>2. QED
      BY <3>1
  <2>4. QED
    BY <2>3 DEF CartCommandOnce
<1>2. QED
  BY <1>1, CartInvariant, PTL

(* What a tab was told is shown by it, however answers and refreshes of     *)
(* older carts are delayed.                                                 *)
THEOREM ToldChangesAreShown == CartSpec => []ToldMeansShown
<1>1. CartInv => ToldMeansShown
  BY DEF CartInv
<1>2. QED
  BY <1>1, CartInvariant, PTL

(* What was refused for its revision is never made later, by a copy of the  *)
(* request that was still under way.                                        *)
THEOREM RefusalsAreFinal == CartSpec => []RefusedStaysRefused
<1>1. CartInv => RefusedStaysRefused
  BY DEF CartInv
<1>2. QED
  BY <1>1, CartInvariant, PTL

------------------------------------------------------------------------------
(* The bounds of the types: there are no more revisions than changes made,  *)
(* and a tab shows, or is about to show, one cart or none.                  *)

MadeChanges == {c \in Command : Made(c)}
Single(s) == s = {} \/ \E r \in Nat : s = {r}
OneCart(row) == Single(row.snapshot) /\ Single(row.reply) /\ Single(row.fetched)

CartBound ==
  /\ cart.revision <= Cardinality(MadeChanges)
  /\ \A c \in Command : ~Sent(c) => command[c].expected = 0
  /\ \A t \in Tab : OneCart(tab[t])

(* One cart or the other is shown.                                          *)
LEMMA AcceptOne ==
  ASSUME NEW s, Single(s), NEW r \in Nat
  PROVE  Single(AcceptCart(s, r))
BY DEF Single, AcceptCart

(* A step of a tab leaves it with one cart or none of each kind.            *)
LEMMA TabKeepsOne ==
  ASSUME CartInv, CartBound, NEW t \in Tab, TabStep(t) \/ ReadReply(t)
  PROVE  \A u \in Tab : OneCart(tab'[u])
<1>1. tab[t] \in TabShape /\ OneCart(tab[t]) /\ tab \in [Tab -> TabShape] /\ cart.revision \in Nat
  BY DEF CartInv, CartBound, Shape
<1>2. ASSUME NEW row, OneCart(row), tab' = [tab EXCEPT ![t] = row]
      PROVE  \A u \in Tab : OneCart(tab'[u])
  BY <1>1, <1>2 DEF CartBound
<1>3. ASSUME NEW c \in Command, Change(t, c) PROVE \A u \in Tab : OneCart(tab'[u])
  <2>1. PICK i \in {c, tab[t].intent} :
             tab' = [tab EXCEPT ![t] = [tab[t] EXCEPT !.busy = TRUE, !.retry = c, !.intent = i]]
    BY <1>1, <1>3 DEF Change
  <2>2. OneCart([tab[t] EXCEPT !.busy = TRUE, !.retry = c, !.intent = i])
    BY <1>1 DEF OneCart, TabShape
  <2>3. QED
    BY <1>2, <2>1, <2>2
<1>4. CASE Resume(t) \/ Retry(t) \/ Refresh(t)
  <2>1. CASE Resume(t)
    BY <1>1, <2>1 DEF Resume, CartBound, OneCart, TabShape
  <2>2. CASE Retry(t) \/ Refresh(t)
    BY <1>1, <2>2 DEF Retry, Refresh, CartBound, OneCart, TabShape
  <2>3. QED
    BY <1>4, <2>1, <2>2
<1>5. CASE GiveUp(t)
  BY <1>1, <1>5, <1>2 DEF GiveUp, OneCart, TabShape, Single
<1>6. CASE ReadCart(t) \/ ReadReply(t)
  BY <1>1, <1>6, <1>2 DEF ReadCart, ReadReply, OneCart, TabShape, Single
<1>7. CASE TakeReply(t)
  <2>1. PICK r \in tab[t].reply :
             tab' = [tab EXCEPT ![t] =
                       [tab[t] EXCEPT !.snapshot = AcceptCart(tab[t].snapshot, r), !.reply = {},
                                      !.done = FALSE, !.busy = FALSE, !.retry = NoCommand,
                                      !.intent = Without(tab[t].intent, tab[t].retry)]]
    BY <1>1, <1>7 DEF TakeReply, Shape
  <2>2. r \in Nat
    BY <1>1 DEF TabShape
  <2>3. Single(AcceptCart(tab[t].snapshot, r)) /\ Single({})
    BY <1>1, <2>2, AcceptOne DEF OneCart, Single
  <2>4. OneCart([tab[t] EXCEPT !.snapshot = AcceptCart(tab[t].snapshot, r), !.reply = {},
                               !.done = FALSE, !.busy = FALSE, !.retry = NoCommand,
                               !.intent = Without(tab[t].intent, tab[t].retry)])
    BY <1>1, <2>3 DEF OneCart, TabShape
  <2>5. QED
    BY <1>2, <2>1, <2>4
<1>8. CASE Refreshed(t)
  <2>1. \A r \in tab[t].fetched : r \in Nat /\ Single(AcceptCart(tab[t].snapshot, r))
    BY <1>1, AcceptOne DEF OneCart, TabShape
  <2>2. Single({})
    BY DEF Single
  <2>3. CASE tab' = [tab EXCEPT ![t].fetching = FALSE, ![t].fetched = {}]
    BY <1>1, <2>2, <2>3 DEF CartBound, OneCart, TabShape
  <2>4. ASSUME NEW r \in tab[t].fetched,
               tab' = [tab EXCEPT ![t].snapshot = AcceptCart(@, r), ![t].fetching = FALSE,
                                  ![t].fetched = {}]
        PROVE  \A u \in Tab : OneCart(tab'[u])
    BY <1>1, <2>1, <2>2, <2>4 DEF CartBound, OneCart, TabShape
  <2>5. QED
    BY <1>8, <2>3, <2>4 DEF Refreshed
<1>9. CASE Reload(t)
  BY <1>1, <1>9 DEF Reload, FreshTab, CartBound, OneCart, Single
<1>10. QED
  BY <1>3, <1>4, <1>5, <1>6, <1>7, <1>8, <1>9 DEF TabStep

(* So does an answer of the server, which shows nothing by itself.          *)
LEMMA AnswerKeepsOne ==
  ASSUME CartInv, CartBound, NEW c \in Command,
         Accepted(c) \/ \E reading \in BOOLEAN : Refused(c, reading)
  PROVE  \A u \in Tab : OneCart(tab'[u])
<1>1. tab \in [Tab -> TabShape] /\ command[c].tabs \in SUBSET Tab
  BY DEF CartInv, Shape
<1>2. CASE UNCHANGED tab
  BY <1>2 DEF CartBound
<1>3. ASSUME NEW t \in command[c].tabs, tab' = [tab EXCEPT ![t].done = TRUE]
      PROVE  \A u \in Tab : OneCart(tab'[u])
  BY <1>1, <1>3 DEF CartBound, OneCart, TabShape
<1>4. ASSUME NEW t \in command[c].tabs, NEW reading \in BOOLEAN,
             tab' = [tab EXCEPT ![t] =
                       [@ EXCEPT !.busy = reading, !.done = reading, !.retry = NoCommand,
                                 !.intent = Without(tab[t].intent, c)]]
      PROVE  \A u \in Tab : OneCart(tab'[u])
  BY <1>1, <1>4 DEF CartBound, OneCart, TabShape
<1>5. QED
  BY <1>2, <1>3, <1>4 DEF Accepted, Refused

(* There is a revision for every change made, and no other.                 *)
LEMMA RevisionsCount ==
  ASSUME CartInv, CartBound, CartNext
  PROVE  cart'.revision <= Cardinality(MadeChanges')
<1>1. /\ Shape /\ MadeOnce /\ IsFiniteSet(Command)
      /\ cart.revision <= Cardinality(MadeChanges)
  BY CartAssumption DEF CartInv, CartBound
<1>2. IsFiniteSet(MadeChanges) /\ Cardinality(MadeChanges) \in Nat
  BY <1>1, FS_Subset, FS_CardinalityType DEF MadeChanges
<1>3. ASSUME NEW c \in Command, ApplyChange(c) PROVE cart'.revision <= Cardinality(MadeChanges')
  <2>1. c \notin MadeChanges
    BY <1>1, <1>3 DEF MadeOnce, ApplyChange, ForThisRevision, Shape, MadeChanges
  <2>2. history'.applied = [history.applied EXCEPT ![c] = @ \cup {cart.revision + 1}]
    BY <1>1, <1>3 DEF ApplyChange, Shape
  <2>3. MadeChanges' = MadeChanges \cup {c}
    BY <1>1, <2>2 DEF MadeChanges, Made, Shape
  <2>4. Cardinality(MadeChanges \cup {c}) = Cardinality(MadeChanges) + 1
    BY <1>2, <2>1, FS_AddElement
  <2>5. cart'.revision = cart.revision + 1 /\ cart.revision \in Nat
    BY <1>1, <1>3 DEF ApplyChange, Shape
  <2>6. QED
    BY <1>1, <1>2, <2>3, <2>4, <2>5
<1>4. ASSUME UNCHANGED <<cart.revision, history.applied>>
      PROVE  cart'.revision <= Cardinality(MadeChanges')
  <2>1. MadeChanges' = MadeChanges
    BY <1>4 DEF MadeChanges, Made
  <2>2. QED
    BY <1>1, <1>4, <2>1
<1>5. ASSUME NEW t \in Tab, TabStep(t) \/ ReadReply(t) PROVE UNCHANGED <<cart.revision, history.applied>>
  BY <1>1, <1>5
  DEF TabStep, ReadReply, Change, Resume, Retry, GiveUp, TakeReply, Refresh, ReadCart, Refreshed,
      Reload, Shape
<1>6. ASSUME NEW c \in Command,
             AnswerAgain(c) \/ RefuseChange(c) \/ RejectChange(c) \/ ForgetKey(c)
      PROVE  UNCHANGED <<cart.revision, history.applied>>
  BY <1>1, <1>6 DEF AnswerAgain, RefuseChange, RejectChange, ForgetKey, Shape
<1>7. QED
  BY <1>3, <1>4, <1>5, <1>6 DEF CartNext

(* A change that was not sent is for no revision yet.                       *)
LEMMA UnsentForNone ==
  ASSUME CartInv, CartBound, CartNext
  PROVE  \A c \in Command : ~Sent(c)' => command'[c].expected = 0
<1>1. command \in [Command -> [tabs : SUBSET Tab, expected : Nat]]
  BY DEF CartInv, Shape
<1>2. CASE UNCHANGED command
  BY <1>2 DEF CartBound, Sent
<1>3. ASSUME NEW t \in Tab, NEW c \in Command, Change(t, c)
      PROVE  \A d \in Command : ~Sent(d)' => command'[d].expected = 0
  BY <1>1, <1>3 DEF CartBound, Change, Sent
<1>4. QED
  BY <1>2, <1>3
  DEF CartNext, TabStep, ReadReply, Resume, Retry, GiveUp, TakeReply, Refresh, ReadCart, Refreshed,
      Reload, ApplyChange, AnswerAgain, RefuseChange, RejectChange, ForgetKey

(* Every step keeps the bounds.                                             *)
LEMMA CartBoundStep == CartInv /\ CartBound /\ [CartNext]_cartVars => CartBound'
<1>1. ASSUME CartInv, CartBound, CartNext PROVE CartBound'
  <2>1. ASSUME NEW c \in Command, ForgetKey(c) PROVE \A u \in Tab : OneCart(tab'[u])
    BY <1>1, <2>1 DEF ForgetKey, CartBound
  <2>2. ASSUME NEW c \in Command,
               ApplyChange(c) \/ AnswerAgain(c) \/ RefuseChange(c) \/ RejectChange(c)
        PROVE  \A u \in Tab : OneCart(tab'[u])
    BY <1>1, <2>2, AnswerKeepsOne DEF ApplyChange, AnswerAgain, RefuseChange, RejectChange
  <2>3. \A u \in Tab : OneCart(tab'[u])
    BY <1>1, <2>1, <2>2, TabKeepsOne DEF CartNext
  <2>4. QED
    BY <1>1, <2>3, RevisionsCount, UnsentForNone DEF CartBound
<1>2. ASSUME CartBound, UNCHANGED cartVars PROVE CartBound'
  BY <1>2 DEF cartVars, CartBound, Sent, MadeChanges, Made
<1>3. QED
  BY <1>1, <1>2

(* The cart, the changes, the tabs and the history keep their types; there  *)
(* are never more revisions than changes.                                   *)
THEOREM CartTypesHold == CartSpec => []CartTypeOK
<1>1. CartInit => CartBound
  <2>1. SUFFICES ASSUME CartInit PROVE CartBound
    OBVIOUS
  <2>2. MadeChanges = {} /\ Cardinality({}) = 0
    BY <2>1, FS_EmptySet DEF CartInit, MadeChanges, Made
  <2>3. QED
    BY <2>1, <2>2 DEF CartInit, CartBound, OneCart, Single, FreshTab
<1>2. ASSUME CartInv, CartBound PROVE CartTypeOK
  <2>1. /\ Shape /\ MadeOnce /\ IsFiniteSet(Command)
        /\ cart.revision <= Cardinality(MadeChanges)
    BY <1>2, CartAssumption DEF CartInv, CartBound
  <2>2. /\ IsFiniteSet(MadeChanges) /\ Cardinality(MadeChanges) \in Nat
        /\ Cardinality(Command) \in Nat /\ Cardinality(MadeChanges) <= Cardinality(Command)
    BY <2>1, FS_Subset, FS_CardinalityType DEF MadeChanges
  <2>3. \A r \in Nat : r <= cart.revision => r \in Revision
    BY <2>1, <2>2 DEF Revision, Shape
  <2>4. cart \in [revision : Revision, keys : SUBSET Command]
    BY <2>1, <2>3 DEF Shape
  <2>5. command \in [Command -> [tabs : SUBSET Tab, expected : Revision]]
    <3>1. \A c \in Command : command[c].expected \in Revision
      BY <1>2, <2>1, <2>3 DEF CartBound, MadeOnce, Shape
    <3>2. QED
      BY <2>1, <3>1 DEF Shape
  <2>6. history \in [applied : [Command -> SUBSET Revision], told : SUBSET (Tab \X Command),
                     refused : SUBSET Command, forgotten : SUBSET Command]
    <3>1. \A c \in Command : history.applied[c] \in SUBSET Revision
      BY <2>1, <2>3 DEF MadeOnce, Made, Shape
    <3>2. history.applied \in [Command -> SUBSET Revision]
      BY <2>1, <3>1 DEF Shape
    <3>3. QED
      BY <2>1, <3>2 DEF Shape
  <2>7. ASSUME NEW t \in Tab PROVE tab[t] \in TabRow
    <3>1. tab[t] \in TabShape /\ Informed(tab[t]) /\ OneCart(tab[t])
      BY <1>2, <2>1 DEF Shape, CartInv, CartBound
    <3>2. ASSUME NEW s \in SUBSET Nat, Single(s), \A r \in s : r <= cart.revision
          PROVE  s \in MaybeRevision
      BY <2>3, <3>2 DEF Single, MaybeRevision
    <3>3. /\ tab[t].snapshot \in MaybeRevision /\ tab[t].reply \in MaybeRevision
          /\ tab[t].fetched \in MaybeRevision
      BY <3>1, <3>2 DEF TabShape, Informed, OneCart
    <3>4. QED
      BY <3>1, <3>3 DEF TabShape, TabRow
  <2>8. tab \in [Tab -> TabRow]
    BY <2>1, <2>7 DEF Shape
  <2>9. QED
    BY <2>4, <2>5, <2>6, <2>8 DEF CartTypeOK
<1>3. QED
  BY <1>1, <1>2, CartBoundStep, CartInvariant, PTL DEF CartSpec
==============================================================================
