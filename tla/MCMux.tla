------------------------------- MODULE MCMux --------------------------------
(***************************************************************************)
(* Instances of Mux for TLC: the requests that slaves make.                *)
(***************************************************************************)
EXTENDS Mux

\* Two destinations behind one fixed port, and a port chosen by the server.
FwdA == [port |-> 1, dest |-> "a"]
FwdB == [port |-> 1, dest |-> "b"]
FwdDyn == [port |-> 0, dest |-> "a"]

OpenFwdReq(f) == [type |-> "OPEN_FWD", fwd |-> f]
CloseFwdReq(f) == [type |-> "CLOSE_FWD", fwd |-> f]
SessionReq(tty) == [type |-> "NEW_SESSION", tty |-> tty]

\* One slave runs ssh -O forward or opens a session, the other ssh -O cancel,
\* stop or exit.
AllCommands(s) ==
  IF s = 1
  THEN { <<OpenFwdReq(FwdB)>>, <<OpenFwdReq(FwdDyn)>>, <<SessionReq(TRUE)>> }
  ELSE { <<CloseFwdReq(FwdA)>>, <<CloseFwdReq(FwdDyn)>>, <<[type |-> "STOP"]>>,
         <<[type |-> "TERMINATE"]>> }

OneOption == <<FwdA>>
=============================================================================
