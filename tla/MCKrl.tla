-------------------------------- MODULE MCKrl --------------------------------
(***************************************************************************)
(* Instance of Krl for TLC: serial numbers of 8 bits, bitmaps of 100,      *)
(* files of 200 bytes.                                                     *)
(***************************************************************************)
EXTENDS Krl

MCRequests == {[lo |-> 0, hi |-> 4], [lo |-> 1, hi |-> 1], [lo |-> 3, hi |-> 3],
               [lo |-> 60, hi |-> 60], [lo |-> 120, hi |-> 120], [lo |-> 2, hi |-> 121],
               [lo |-> 130, hi |-> 250], [lo |-> 100, hi |-> 255], [lo |-> 254, hi |-> 254],
               [lo |-> 255, hi |-> 255]}

\* Ed25519 keys.
MCLength == [key |-> 51, key_id |-> 10, comment |-> 0]
=============================================================================
