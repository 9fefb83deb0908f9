------------------------------- MODULE MCStore -------------------------------
(***************************************************************************)
(* Small instances of the transactional core for TLC.  Orders are          *)
(* interchangeable (a key names whichever checkout comes first), buyers    *)
(* are not (one uses Telegram, the other the Web).                         *)
(***************************************************************************)
EXTENDS StoreProperties, TLC

CONSTANTS o1, o2, o3, tele, web

OrderSymmetry == Permutations(Order)
==============================================================================
