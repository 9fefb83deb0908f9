----------------------------- MODULE MCDelivery -----------------------------
(***************************************************************************)
(* Small instances of the delivery worker for TLC.                         *)
(***************************************************************************)
EXTENDS Delivery, TLC

CONSTANTS o1, o2, w1, w2, tele

SlotSymmetry == Permutations(Worker)
SlotAndOrderSymmetry == Permutations(Worker) \cup Permutations(Order)

(* Inventory edits are explored with the core alone.                        *)
QuietInventory ==
  /\ policy = "BLOCKED"
  /\ \A u \in Unit : /\ ~archived[u]
                     /\ stock[u] \in {"ABSENT", "AVAILABLE", "RESERVED", "DELIVERED"}
                     /\ health[u] = IF stock[u] = "ABSENT" THEN "UNKNOWN" ELSE "HEALTHY"

(* No action reads the history of misread answers, so states that differ    *)
(* in it alone have the same future for a run whose properties do not ask   *)
(* for it.                                                                  *)
ReadView == <<vars, worker, leased, attempts, copies>>

(* The steps of DeliverySpec that are OrderlySpec's.                        *)
Orderly == ~OvertakesRefund
==============================================================================
