------------------------------ MODULE MCIntake ------------------------------
(***************************************************************************)
(* Small instances of the intake of bank money alone for TLC.              *)
(***************************************************************************)
EXTENDS Intake, TLC

CONSTANTS p1, q1, e1, h1, a1
==============================================================================
