----------------------------- MODULE MCStartups -----------------------------
(***************************************************************************)
(* Instances of Startups for TLC.                                          *)
(***************************************************************************)
EXTENDS Startups

=============================================================================
