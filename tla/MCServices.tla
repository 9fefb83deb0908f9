----------------------------- MODULE MCServices -----------------------------
(***************************************************************************)
(* Small instances of the services beside the shop's orders for TLC.  Only *)
(* one service runs in a behaviour, so they share the names of their       *)
(* requests (w1, w2) and of what those work on (x1, x2), which makes one   *)
(* small symmetry of many.                                                 *)
(***************************************************************************)
EXTENDS Services, TLC

CONSTANTS w1, w2, x1, x2, p1, q1, e1, a1, f1, f2, s1, cron, k12, text

OneFile == 1 .. 1
TwoFiles == 1 .. 2

ServicesSymmetry == Permutations({w1, w2}) \cup Permutations({x1, x2})

(* The variables of a service that does not run never change.               *)
ServiceView ==
  CASE service = "INTAKE"  -> <<service, intakeVars>>
    [] service = "SMS"     -> <<service, smsVars>>
    [] service = "BOT"     -> <<service, botVars>>
    [] service = "POLLERS" -> <<service, pollersVars>>
    [] service = "CART"    -> <<service, cartVars>>
    [] service = "INVENTORY" -> <<service, inventoryVars>>
==============================================================================
