--------------------------- MODULE MCFlowControl ---------------------------
(***************************************************************************)
(* Instances of FlowControl for TLC.  The windows are a few bytes, so that *)
(* the sender runs into a closed window and the program produces more than *)
(* one window of data.  The packet sizes make each threshold of            *)
(* channel_check_window() decide: against the same window, three packets   *)
(* of "stdin" are less than half of it, and three of the others more.      *)
(***************************************************************************)
EXTENDS FlowControl

MCPackets == [stdin |-> 1, stdout |-> 2, forward |-> 3]

=============================================================================
