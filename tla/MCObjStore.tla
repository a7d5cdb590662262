---------------------------- MODULE MCObjStore -----------------------------
(***************************************************************************)
(* ObjStore with a few fids, objects and versions.                         *)
(***************************************************************************)
EXTENDS ObjStore

CONSTANTS f1, f2, r1, a, b
=============================================================================
