--------------------------- MODULE PaymentPromise ---------------------------
(***************************************************************************)
(* What the shop promises about bank money, without phones, requests,      *)
(* locks or rows: an invoice asks for an amount, and while it is open, or  *)
(* after it ran out, it is paid once, by hand or for one transfer of this  *)
(* amount.  A transfer pays one invoice in every book of payments.         *)
(***************************************************************************)
EXTENDS Naturals, Sequences

CONSTANTS
  Invoice,
  Transfer,
  Amount,     \* what can be asked for
  Book,       \* where payments are entered
  Hand        \* no transfer: the administrator vouches for the money

VARIABLES
  book,    \* the book an invoice is entered in
  phase,   \* how far the invoice is
  asks,    \* what it asks for
  moved,   \* what a transfer moved, 0 before it is made
  paid     \* what was given for the invoice, each time for what

promise == <<book, phase, asks, moved, paid>>

PaymentInit ==
  /\ book \in [Invoice -> Book]
  /\ phase = [i \in Invoice |-> "ABSENT"]
  /\ asks = [i \in Invoice |-> 0]
  /\ moved = [e \in Transfer |-> 0]
  /\ paid = [i \in Invoice |-> <<>>]

Ask(i) ==
  /\ phase[i] = "ABSENT"
  /\ asks'[i] \in Amount
  /\ asks' = [asks EXCEPT ![i] = asks'[i]]
  /\ phase' = [phase EXCEPT ![i] = "OPEN"]
  /\ UNCHANGED <<book, moved, paid>>

GiveUp(i) ==
  /\ phase[i] = "OPEN"
  /\ \E s \in {"EXPIRED", "CANCELLED"} : phase' = [phase EXCEPT ![i] = s]
  /\ UNCHANGED <<book, asks, moved, paid>>

(* A transfer moves what some invoice asks for, whether or not that one is  *)
(* still open.                                                              *)
Move(e) ==
  /\ moved[e] = 0
  /\ \E i \in Invoice : phase[i] # "ABSENT" /\ moved' = [moved EXCEPT ![e] = asks[i]]
  /\ UNCHANGED <<book, phase, asks, paid>>

Unspent(e, i) ==
  \A j \in Invoice : book[j] = book[i] => \A n \in DOMAIN paid[j] : paid[j][n] # e

Pay(i, e) ==
  /\ phase[i] \in {"OPEN", "EXPIRED"} /\ paid[i] = <<>>
  /\ e # Hand => moved[e] = asks[i] /\ Unspent(e, i)
  /\ phase' = [phase EXCEPT ![i] = "PAID"]
  /\ paid' = [paid EXCEPT ![i] = <<e>>]
  /\ UNCHANGED <<book, asks, moved>>

PaymentNext ==
  \/ \E i \in Invoice : Ask(i) \/ GiveUp(i)
  \/ \E e \in Transfer : Move(e)
  \/ \E i \in Invoice, e \in Transfer \cup {Hand} : Pay(i, e)

PaymentSpec == PaymentInit /\ [][PaymentNext]_promise
==============================================================================
