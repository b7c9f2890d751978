------------------------------- MODULE MCSftp -------------------------------
(***************************************************************************)
(* Instances of Sftp for TLC; the bounds are in the .cfg files.            *)
(***************************************************************************)
EXTENDS Sftp
=============================================================================
