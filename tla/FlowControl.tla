---------------------------- MODULE FlowControl ----------------------------
(***************************************************************************)
(* Protocol 2 flow control of one channel, in one direction (channels.c).  *)
(*                                                                         *)
(* The SENDER is the end whose program produces data: it fills c->input    *)
(* (stdout) and c->extended (stderr) from its descriptors and empties them *)
(* into CHANNEL_DATA and CHANNEL_EXTENDED_DATA, never beyond               *)
(* c->remote_window.  The RECEIVER keeps c->local_window, buffers what     *)
(* arrives in c->output and c->extended, writes it to its own descriptors, *)
(* counts what it wrote in c->local_consumed and gives it back with        *)
(* CHANNEL_WINDOW_ADJUST.  Bytes are abstracted to their number; a message *)
(* also carries the position of its first byte in the stream, which the    *)
(* code never looks at: it only serves to state the properties.            *)
(*                                                                         *)
(* Opening and closing the channel is the subject of module Channels.      *)
(***************************************************************************)
EXTENDS Integers, Sequences

CONSTANTS
  WindowMax,   \* c->local_window_max of the receiver
  Packets,     \* c->local_maxpacket of the receiver = c->remote_maxpacket of the
               \* sender, for each kind of stream
  Kinds,       \* the kinds of stream considered, a subset of AllKinds
  MaxBytes,    \* bound: bytes the sender's program produces in a behaviour
  Failures     \* may a write() on the receiver's descriptors fail for good?

(***************************************************************************)
(* The three kinds of stream.  "stdin": client to server of a session; the *)
(* server's end is created SSH_CHANNEL_LARVAL with window 0 and gets its   *)
(* window in channel_set_fds().  "stdout": server to client of a session,  *)
(* the only one with an extended stream (stderr), for which the client's   *)
(* efd is open.  "forward": either direction of a forwarded connection.    *)
(***************************************************************************)
AllKinds == {"stdin", "stdout", "forward"}

ASSUME FlowAssumption ==
  /\ Kinds \subseteq AllKinds
  /\ WindowMax \in Nat /\ WindowMax >= 2
  /\ Packets \in [AllKinds -> Nat \ {0}]
  /\ MaxBytes \in Nat
  /\ Failures \in BOOLEAN

VARIABLES
  kind,           \* which stream this is, one of Kinds
  istate,         \* sender: c->istate, "OPEN" or "CLOSED"
  input,          \* sender: bytes buffered in c->input
  sext,           \* sender: bytes buffered in c->extended (CHAN_EXTENDED_READ)
  remote_window,  \* sender: c->remote_window
  data,           \* CHANNEL_DATA / CHANNEL_EXTENDED_DATA in flight, oldest first
  adj,            \* CHANNEL_WINDOW_ADJUST in flight, oldest first
  eow,            \* "sent" while "eow@openssh.com" is in flight to the sender
  rtype,          \* receiver: c->type, "LARVAL" or "OPEN"
  ostate,         \* receiver: c->ostate, "OPEN" or "CLOSED"
  efd,            \* receiver: c->efd (CHAN_EXTENDED_WRITE), "OPEN" or "CLOSED"
  output,         \* receiver: bytes buffered in c->output
  rext,           \* receiver: bytes buffered in c->extended
  local_window,   \* receiver: c->local_window
  local_consumed, \* receiver: c->local_consumed
  produced,       \* history: bytes read from the sender's program
  sent,           \* history: bytes ever put in data messages
  rcvd,           \* history: bytes ever taken out of data messages
  granted,        \* history: bytes ever put in adjust messages, plus the initial window
  got             \* history: bytes ever taken out of adjust messages, plus the initial window

sndVars == <<istate, input, sext, remote_window, produced, sent, got>>
rcvVars == <<rtype, ostate, efd, output, rext, local_window, local_consumed,
             rcvd, granted>>
vars == <<kind, istate, input, sext, remote_window, data, adj, eow, rtype,
          ostate, efd, output, rext, local_window, local_consumed, produced, sent, rcvd, granted,
          got>>

\* c->local_maxpacket, from channel_new(): it is set once.
MaxPacket == Packets[kind]

Least(a, b) == IF a <= b THEN a ELSE b

\* channel_new(): the window of a new channel; a larval one has none yet.
InitialWindow(type) == IF type = "OPEN" THEN WindowMax ELSE 0

Init ==
  /\ kind \in Kinds
  /\ rtype = IF kind = "stdin" THEN "LARVAL" ELSE "OPEN"
  /\ local_window = InitialWindow(rtype)
  /\ remote_window = local_window
  /\ granted = local_window /\ got = local_window
  /\ istate = "OPEN" /\ ostate = "OPEN" /\ eow = "none"
  /\ efd = IF kind = "stdout" THEN "OPEN" ELSE "CLOSED"
  /\ input = 0 /\ sext = 0 /\ output = 0 /\ rext = 0 /\ local_consumed = 0
  /\ data = <<>> /\ adj = <<>>
  /\ produced = 0 /\ sent = 0 /\ rcvd = 0

-----------------------------------------------------------------------------
(* The sending end.                                                        *)

\* channel_pre_open() selects rfd only while the window is open and not
\* covered by what is buffered; channel_handle_rfd() then appends a read.
ReadInput(n) ==
  /\ istate = "OPEN" /\ input < remote_window
  /\ produced + n <= MaxBytes
  /\ input' = input + n
  /\ produced' = produced + n
  /\ UNCHANGED <<kind, istate, sext, remote_window, sent, got, data, adj, eow, rcvVars>>

\* channel_pre_open() and channel_handle_efd(), the CHAN_EXTENDED_READ side.
ReadExtended(n) ==
  /\ kind = "stdout"
  /\ sext < remote_window
  /\ produced + n <= MaxBytes
  /\ sext' = sext + n
  /\ produced' = produced + n
  /\ UNCHANGED <<kind, istate, input, remote_window, sent, got, data, adj, eow, rcvVars>>

\* channel_output_poll(): how much of len buffered bytes goes in one packet.
Sendable(len, window) == Least(len, Least(window, MaxPacket))

\* channel_output_poll(): one packet of c->input, then one of c->extended if
\* the window is still open.
OutputPoll ==
  LET n  == IF istate = "OPEN" THEN Sendable(input, remote_window) ELSE 0
      w  == remote_window - n
      m  == Sendable(sext, w)
      d1 == IF n > 0 THEN Append(data, [type |-> "DATA", start |-> sent, len |-> n])
                     ELSE data
      d2 == IF m > 0 THEN Append(d1, [type |-> "EXTENDED", start |-> sent + n, len |-> m])
                     ELSE d1
  IN  /\ n + m > 0
      /\ data' = d2
      /\ input' = input - n
      /\ sext' = sext - m
      /\ remote_window' = w - m
      /\ sent' = sent + n + m
      /\ UNCHANGED <<kind, istate, produced, got, adj, eow, rcvVars>>

\* channel_input_window_adjust()
InputWindowAdjust ==
  /\ adj # <<>>
  /\ remote_window' = remote_window + Head(adj).len
  /\ got' = got + Head(adj).len
  /\ adj' = Tail(adj)
  /\ UNCHANGED <<kind, istate, input, sext, produced, sent, data, eow, rcvVars>>

\* chan_rcvd_eow(): the other end's program will not read any more.  What is
\* buffered in c->input stays there and is never sent.
InputEow ==
  /\ eow = "sent"
  /\ eow' = "none"
  /\ istate' = "CLOSED"
  /\ UNCHANGED <<kind, input, sext, remote_window, produced, sent, got, data, adj,
                 rcvVars>>

-----------------------------------------------------------------------------
(* The receiving end.                                                      *)

\* channel_set_fds(): the session's program was started.
SetFds ==
  /\ rtype = "LARVAL"
  /\ rtype' = "OPEN"
  /\ local_window' = WindowMax
  /\ adj' = Append(adj, [start |-> granted, len |-> WindowMax])
  /\ granted' = granted + WindowMax
  /\ UNCHANGED <<kind, sndVars, data, eow, ostate, efd, output, rext, local_consumed,
                 rcvd>>

\* channel_input_data().  Data for a channel that is not open is ignored, and
\* so is data beyond the window; once the output end is closed, consumption is
\* only faked.
InputData ==
  /\ data # <<>> /\ Head(data).type = "DATA"
  /\ LET len  == Head(data).len
         drop == rtype # "OPEN" \/ (ostate = "OPEN" /\ len > local_window)
         fake == rtype = "OPEN" /\ ostate # "OPEN"
     IN  /\ local_window' = IF drop THEN local_window ELSE local_window - len
         /\ local_consumed' = IF fake THEN local_consumed + len ELSE local_consumed
         /\ output' = IF drop \/ fake THEN output ELSE output + len
         /\ rcvd' = rcvd + len
  /\ data' = Tail(data)
  /\ UNCHANGED <<kind, sndVars, adj, eow, rtype, ostate, efd, rext, granted>>

\* channel_input_extended_data().  When efd is gone the data is ignored without
\* any accounting.
InputExtendedData ==
  /\ data # <<>> /\ Head(data).type = "EXTENDED"
  /\ LET len  == Head(data).len
         drop == rtype # "OPEN" \/ efd # "OPEN" \/ len > local_window
     IN  /\ local_window' = IF drop THEN local_window ELSE local_window - len
         /\ rext' = IF drop THEN rext ELSE rext + len
         /\ rcvd' = rcvd + len
  /\ data' = Tail(data)
  /\ UNCHANGED <<kind, sndVars, adj, eow, rtype, ostate, efd, output,
                 local_consumed, granted>>

\* Mutant: only the test on three packets is left.
NeedsAdjustThreePackets(w, c) == WindowMax - w > 3 * MaxPacket /\ c > 0

\* The condition under which channel_check_window() gives the window back,
\* for a window w and a consumption c.
NeedsAdjust(w, c) ==
  /\ \/ WindowMax - w > 3 * MaxPacket
     \/ w < WindowMax \div 2
  /\ c > 0

\* Mutant: the window is announced but not raised.
CheckWindowNotRaised(c) ==
  IF NeedsAdjust(local_window, c)
  THEN /\ adj' = Append(adj, [start |-> granted, len |-> c])
       /\ granted' = granted + c
       /\ local_consumed' = 0
       /\ UNCHANGED local_window
  ELSE /\ local_consumed' = c
       /\ UNCHANGED <<adj, granted, local_window>>

\* Mutant: local_consumed is not reset after an adjust.
CheckWindowNotReset(c) ==
  IF NeedsAdjust(local_window, c)
  THEN /\ adj' = Append(adj, [start |-> granted, len |-> c])
       /\ granted' = granted + c
       /\ local_window' = local_window + c
       /\ local_consumed' = c
  ELSE /\ local_consumed' = c
       /\ UNCHANGED <<adj, granted, local_window>>

\* channel_check_window(), with local_consumed = c on entry.
CheckWindow(c) ==
  IF NeedsAdjust(local_window, c)
  THEN /\ adj' = Append(adj, [start |-> granted, len |-> c])
       /\ granted' = granted + c
       /\ local_window' = local_window + c
       /\ local_consumed' = 0
  ELSE /\ local_consumed' = c
       /\ UNCHANGED <<adj, granted, local_window>>

\* channel_post_open(): channel_handle_wfd() writes n bytes of c->output,
\* channel_handle_efd() k bytes of c->extended, then channel_check_window().
\* A descriptor that is not ready takes 0 bytes.  A write to wfd that fails
\* for good (wres) is chan_write_failed2(): chan_shutdown_write() clears
\* c->output, and the end of a session sends eow.  A write to efd that fails (eres) closes efd and leaves
\* c->extended as it is.
PostOpen(n, k, wres, eres) ==
  /\ rtype = "OPEN"
  /\ n <= output /\ k <= rext /\ (efd = "OPEN" \/ k = 0)
  /\ wres = "failed" => Failures /\ output > 0 /\ n = 0
  /\ eres = "failed" => Failures /\ efd = "OPEN" /\ rext > 0 /\ k = 0
  /\ \/ n + k > 0
     \/ wres = "failed" \/ eres = "failed"
     \/ NeedsAdjust(local_window, local_consumed)
  /\ output' = IF wres = "failed" THEN 0 ELSE output - n
  /\ ostate' = IF wres = "failed" THEN "CLOSED" ELSE ostate
  /\ eow' = IF wres = "failed" /\ kind # "forward" THEN "sent" ELSE eow
  /\ rext' = rext - k
  /\ efd' = IF eres = "failed" THEN "CLOSED" ELSE efd
  /\ CheckWindow(local_consumed + n + k)
  /\ UNCHANGED <<kind, sndVars, data, rtype, rcvd>>

ChannelPost == \E n \in 0..output, k \in 0..rext, wres, eres \in {"ok", "failed"} :
                  PostOpen(n, k, wres, eres)

Next ==
  \/ \E n \in 1..MaxBytes : ReadInput(n) \/ ReadExtended(n)
  \/ OutputPoll
  \/ InputWindowAdjust
  \/ InputEow
  \/ SetFds
  \/ InputData
  \/ InputExtendedData
  \/ ChannelPost

(***************************************************************************)
(* Fairness.  Both main loops (server_loop2, client_loop) call             *)
(* channel_output_poll, channel_after_select and the packet dispatcher in  *)
(* every round, the transport is reliable, the session's program is        *)
(* eventually started, and the reader behind a descriptor eventually takes *)
(* a byte or makes the write fail.  Nothing forces a program to produce    *)
(* data.                                                                   *)
(***************************************************************************)
Fairness ==
  /\ WF_vars(OutputPoll)
  /\ WF_vars(InputWindowAdjust)
  /\ WF_vars(InputEow)
  /\ WF_vars(SetFds)
  /\ WF_vars(InputData)
  /\ WF_vars(InputExtendedData)
  /\ WF_vars(ChannelPost)

Spec == Init /\ [][Next]_vars

FairSpec == Spec /\ Fairness

-----------------------------------------------------------------------------
(* Properties.                                                             *)

Message == [type : {"DATA", "EXTENDED"}, start : Nat, len : Nat \ {0}]
Credit  == [start : Nat, len : Nat \ {0}]

\* The types of the two ends' state.  The windows never leave
\* 0..local_window_max: the unsigned subtractions in channel_output_poll(),
\* channel_input_data() (which the "fake consumption" path does unchecked) and
\* channel_input_extended_data() never wrap around.
TypeOK ==
  /\ kind \in Kinds
  /\ input \in Nat /\ sext \in Nat
  /\ remote_window \in 0..WindowMax
  /\ data \in Seq(Message) /\ adj \in Seq(Credit)
  /\ rtype \in {"LARVAL", "OPEN"}
  /\ istate \in {"OPEN", "CLOSED"} /\ ostate \in {"OPEN", "CLOSED"}
  /\ efd \in {"OPEN", "CLOSED"} /\ eow \in {"none", "sent"}
  /\ output \in Nat /\ rext \in Nat
  /\ local_window \in 0..WindowMax /\ local_consumed \in 0..WindowMax
  /\ produced \in Nat /\ sent \in Nat /\ rcvd \in Nat
  /\ granted \in Nat /\ got \in Nat

\* Whenever a data message is taken off the wire it fits in local_window: a
\* correct peer never meets the "rcvd too much data" branches of
\* channel_input_data() and channel_input_extended_data(), which drop the data
\* silently and would corrupt the stream.
NoOverrun == data # <<>> => Head(data).len <= local_window

\* The credit in the system is never more than what the receiver believes it
\* gave: what the sender may still send, what is on the wire and the adjusts
\* on the wire together fit in local_window; and what the receiver buffers or
\* has not given back yet completes it to at most local_window_max.
CreditBound ==
  /\ remote_window + (sent - rcvd) + (granted - got) <= local_window
  /\ local_window + local_consumed + output + rext <= WindowMax

\* Data never reaches a session channel whose program is not started yet:
\* channel_input_data() would ignore it ("non-open channels") although it is
\* the beginning of the program's standard input.
NoDataWhileLarval == rtype = "LARVAL" => data = <<>> /\ remote_window = 0

\* Credit that neither end has any more: it is not in remote_window, not on the
\* wire in either direction, and not in a buffer that is still written out.
CreditLost ==
  WindowMax - (remote_window + (sent - rcvd) + (granted - got)
               + local_consumed + output + (IF efd = "OPEN" THEN rext ELSE 0))

\* Everything the sender's program produced is eventually written out at the
\* other end: no combination of window, packet size and adjust threshold in
\* channel_check_window() lets the channel stall.  After chan_rcvd_eow() what is
\* left in c->input is not waited for, nor is the c->extended of an efd that
\* failed; for the rest, a failed write leaves the channel stalled only when it
\* cost at least half of the window (chan_shutdown_write() clears c->output, and
\* channel_input_extended_data() ignores data for a closed efd, without giving
\* the window back).
EventuallyDrained ==
  []<>(\/ /\ input = 0 \/ istate = "CLOSED"
          /\ rext = 0 \/ (kind = "stdout" /\ efd = "CLOSED")
          /\ sext = 0 /\ data = <<>> /\ output = 0
       \/ /\ rtype = "OPEN"
          /\ ostate = "CLOSED" \/ (kind = "stdout" /\ efd = "CLOSED")
          /\ CreditLost >= WindowMax \div 2)
=============================================================================
