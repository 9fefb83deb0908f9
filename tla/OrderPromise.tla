---------------------------- MODULE OrderPromise ----------------------------
(***************************************************************************)
(* What the shop promises for every order, without invoices, databases or  *)
(* workers: an order that is not abandoned unpaid either gets as many      *)
(* units as it asked for, which no other order ever gets, or is            *)
(* compensated and gets none.                                              *)
(***************************************************************************)
EXTENDS Naturals, FiniteSets

CONSTANTS
  Order,
  Unit,
  Quantity   \* the numbers of units an order may ask for

Phase == {"ABSENT", "INVOICED", "OWED", "ALLOTTED", "GIVEN", "COMPENSATED", "VOID"}

VARIABLES
  phase,   \* how far the order is
  want,    \* the number of units it asked for
  goods,   \* the units set aside for it
  given    \* those of them that reached the buyer

promise == <<phase, want, goods, given>>

PromiseTypeOK ==
  /\ phase \in [Order -> Phase]
  /\ want \in [Order -> Quantity \cup {0}]
  /\ goods \in [Order -> SUBSET Unit]
  /\ given \in [Order -> SUBSET Unit]

Free == {u \in Unit : \A o \in Order : u \notin goods[o]}

PromiseInit ==
  /\ phase = [o \in Order |-> "ABSENT"]
  /\ want = [o \in Order |-> 0]
  /\ goods = [o \in Order |-> {}]
  /\ given = [o \in Order |-> {}]

Become(o, p) == phase' = [phase EXCEPT ![o] = p]

SetAside(o, T) ==
  /\ T \subseteq Free
  /\ goods' = [goods EXCEPT ![o] = @ \cup T]

Place(o) ==
  /\ phase[o] = "ABSENT"
  /\ \E n \in Quantity : want' = [want EXCEPT ![o] = n]
  /\ \/ Become(o, "INVOICED") /\ UNCHANGED goods
     \/ Become(o, "OWED") /\ UNCHANGED goods
     \/ \E T \in SUBSET Unit : /\ Cardinality(T) = want'[o]
                               /\ SetAside(o, T)
                               /\ Become(o, "ALLOTTED")
  /\ UNCHANGED given

Pay(o) ==
  /\ phase[o] = "INVOICED"
  /\ \/ Become(o, "OWED") /\ UNCHANGED goods
     \/ Become(o, "COMPENSATED") /\ UNCHANGED goods
     \/ \E T \in SUBSET Unit : /\ Cardinality(T) = want[o]
                               /\ SetAside(o, T)
                               /\ Become(o, "ALLOTTED")
  /\ UNCHANGED <<want, given>>

Abandon(o) ==
  /\ phase[o] = "INVOICED"
  /\ Become(o, "VOID")
  /\ UNCHANGED <<want, goods, given>>

(* Money for an abandoned order still comes in, and is given back.          *)
PayTooLate(o) ==
  /\ phase[o] = "VOID"
  /\ Become(o, "COMPENSATED")
  /\ UNCHANGED <<want, goods, given>>

Allot(o) ==
  /\ phase[o] = "OWED"
  /\ \E T \in (SUBSET Unit) \ {{}} : SetAside(o, T)
  /\ Become(o, IF Cardinality(goods'[o]) = want[o] THEN "ALLOTTED" ELSE "OWED")
  /\ UNCHANGED <<want, given>>

Give(o) ==
  /\ phase[o] = "ALLOTTED"
  /\ \E T \in SUBSET (goods[o] \ given[o]) :
       /\ T # {}
       /\ given' = [given EXCEPT ![o] = @ \cup T]
  /\ Become(o, IF given'[o] = goods[o] THEN "GIVEN" ELSE "ALLOTTED")
  /\ UNCHANGED <<want, goods>>

(* Only an order that got nothing can be compensated; its units are free.   *)
Compensate(o) ==
  /\ phase[o] \in {"OWED", "ALLOTTED"}
  /\ given[o] = {}
  /\ Become(o, "COMPENSATED")
  /\ goods' = [goods EXCEPT ![o] = {}]
  /\ UNCHANGED <<want, given>>

PromiseStep(o) ==
  Place(o) \/ Pay(o) \/ Abandon(o) \/ PayTooLate(o) \/ Allot(o) \/ Give(o) \/ Compensate(o)

PromiseNext == \E o \in Order : PromiseStep(o)

PromiseSpec == PromiseInit /\ [][PromiseNext]_promise
==============================================================================
