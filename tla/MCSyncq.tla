------------------------------ MODULE MCSyncq -------------------------------
(* Small instances of Syncq for TLC. *)
EXTENDS Syncq
=============================================================================
