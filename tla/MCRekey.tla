------------------------------ MODULE MCRekey -------------------------------
(***************************************************************************)
(* Instance of Rekey for TLC; the bounds are in the .cfg files.            *)
(***************************************************************************)
EXTENDS Rekey
=============================================================================
