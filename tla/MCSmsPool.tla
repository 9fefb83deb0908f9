----------------------------- MODULE MCSmsPool -----------------------------
(***************************************************************************)
(* Small instances of the SMS orders for TLC.                              *)
(***************************************************************************)
EXTENDS SmsPool, TLC

CONSTANTS k1, k2, t1, t2, cron

SmsSymmetry == Permutations(SmsOrder) \cup Permutations(Task \ {Cron})
==============================================================================
