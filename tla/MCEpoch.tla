------------------------------ MODULE MCEpoch ------------------------------
(***************************************************************************)
(* Epoch with a few workers and addresses.                                 *)
(***************************************************************************)
EXTENDS Epoch

CONSTANTS m1, m2, b1, b2
=============================================================================
