------------------------------ MODULE Channels ------------------------------
(***************************************************************************)
(* The life of the channels of one Protocol 2 connection, at both ends:    *)
(* the channel table and its reuse of ids, opening, end-of-file, the CLOSE *)
(* handshake and garbage collection (channels.c, nchan.c), and the         *)
(* server's sessions and their child processes (session.c, serverloop.c,   *)
(* clientloop.c).                                                          *)
(*                                                                         *)
(* Windows are the subject of module FlowControl: here a buffer is always  *)
(* sent in one packet.  "C" is the client, "S" the server.  Channel types: *)
(* "session", opened by the client; "tcp", a forwarded connection that its *)
(* acceptor must first connect (SSH_CHANNEL_CONNECTING).                   *)
(*                                                                         *)
(* gen and hist are history: gen numbers the channels ever opened, so that *)
(* a message for an earlier user of the same id can be told from one for   *)
(* the present user.                                                       *)
(***************************************************************************)
EXTENDS Integers, Sequences, FiniteSets

CONSTANTS
  Ids,          \* the slots of the channel table
  Sids,         \* the session slots of the server: options.max_sessions of them
  CTypes,       \* the channel types considered
  MaxOpens,     \* bound: channels opened in a behaviour
  MaxData,      \* bound: bytes produced at each end of a channel
  MaxNotices,   \* bound: keepalives and window changes sent in a behaviour
  Stderr        \* do the sessions have a separate stderr (no pty)?

ASSUME ChannelsAssumption ==
  /\ Ids \subseteq Nat /\ IsFiniteSet(Ids) /\ Ids # {}
  /\ IsFiniteSet(Sids)
  /\ CTypes \subseteq {"session", "tcp"}
  /\ MaxOpens \in Nat /\ MaxData \in Nat /\ MaxNotices \in Nat
  /\ Stderr \in BOOLEAN

VARIABLES
  chan,     \* chan[e][i]: channels[i] at end e, or Free
  net,      \* net[e]: messages in flight to end e, oldest first
  sess,     \* sess[s]: the server's session slots
  opens,    \* number of channels opened so far
  notices,  \* number of keepalives and window changes sent so far
  hist,     \* hist[e][g]: what the program behind end e of channel g wrote and read
  over      \* why the connection was ended, "no" while it is up

vars == <<chan, net, sess, opens, notices, hist, over>>

Ends == {"C", "S"}
Peer(e) == IF e = "C" THEN "S" ELSE "C"
Free == [type |-> "FREE"]
Gens == 1..MaxOpens

\* channel_new()
NewChannel(type, ctype, rid, g) ==
  [type |-> type, ctype |-> ctype, rid |-> rid, gen |-> g,
   istate |-> "OPEN", ostate |-> "OPEN",
   EOF_SENT |-> FALSE, EOF_RCVD |-> FALSE,
   CLOSE_SENT |-> FALSE, CLOSE_RCVD |-> FALSE,
   user |-> FALSE,        \* detach_user is set
   detach_close |-> FALSE,
   confirm |-> FALSE,     \* status_confirms holds the pending "exec"
   rwin |-> type # "OPENING",   \* remote_window > 0
   input |-> 0, output |-> 0,
   pipe |-> 0, weof |-> FALSE,  \* unread bytes behind rfd; its writers are gone
   efd |-> FALSE, ext |-> 0, epipe |-> 0]

FreeIds(e) == {i \in Ids : chan[e][i] = Free}
LowestFree(e) == CHOOSE i \in FreeIds(e) : \A j \in FreeIds(e) : i <= j

\* A handler works on a channel c and the messages out it sends to the peer.
On(c) == [c |-> c, out |-> <<>>]
SendBytes(r, kind, n) == [r EXCEPT !.out = Append(@, [kind |-> kind, n |-> n])]
Send(r, kind) == SendBytes(r, kind, 0)
Set(r, c) == [r EXCEPT !.c = c]

\* A message on the wire: the recipient channel, the channel's generation, the
\* sender channel (which only OPEN and CONFIRM carry) and the bytes in it.
Message(c, i, m) == [to |-> c.rid, kind |-> m.kind, gen |-> c.gen, sid |-> i, n |-> m.n]

-----------------------------------------------------------------------------
(* nchan.c, the Protocol 2 half of the channel state machine.              *)

\* chan_read_failed()
ReadFailed(r) ==
  IF r.c.istate = "OPEN" THEN Set(r, [r.c EXCEPT !.istate = "WAIT_DRAIN"]) ELSE r

\* chan_send_eof2()
SendEof(r) ==
  IF r.c.istate = "WAIT_DRAIN"
  THEN Send(Set(r, [r.c EXCEPT !.EOF_SENT = TRUE]), "EOF")
  ELSE r

\* chan_ibuf_empty()
IbufEmpty(r) ==
  LET r1 == IF r.c.CLOSE_SENT THEN r ELSE SendEof(r)
  IN  Set(r1, [r1.c EXCEPT !.istate = "CLOSED"])

\* chan_obuf_empty()
ObufEmpty(r) == Set(r, [r.c EXCEPT !.ostate = "CLOSED"])

\* chan_write_failed2(): the output buffer is thrown away, and a session tells
\* the other end not to send any more.
WriteFailed(r) ==
  IF r.c.ostate = "CLOSED" THEN r
  ELSE LET r1 == Set(r, [r.c EXCEPT !.ostate = "CLOSED", !.output = 0])
       IN  IF r.c.ctype = "session" THEN Send(r1, "EOW") ELSE r1

\* chan_rcvd_eow()
RcvdEow(r) ==
  IF r.c.istate = "OPEN" THEN Set(r, [r.c EXCEPT !.istate = "CLOSED"]) ELSE r

\* Mutant: EOF does not wait for stderr.
EfdInputActiveNever(e, c) == FALSE

\* CHANNEL_EFD_INPUT_ACTIVE and CHANNEL_EFD_OUTPUT_ACTIVE: the server reads
\* stderr, the client writes it.
EfdInputActive(e, c) == e = "S" /\ c.ctype = "session" /\ (c.efd \/ c.ext > 0)
EfdOutputActive(e, c) ==
  e = "C" /\ c.efd /\ (~(c.EOF_RCVD \/ c.CLOSE_RCVD) \/ c.ext > 0)

\* chan_rcvd_ieof() and chan_rcvd_eof2()
RcvdIeof(e, r) ==
  LET c  == r.c
      c1 == [c EXCEPT !.EOF_RCVD = TRUE,
                      !.ostate = IF c.ostate = "OPEN" THEN "WAIT_DRAIN" ELSE c.ostate]
  IN  IF c1.ostate = "WAIT_DRAIN" /\ c1.output = 0 /\ ~EfdOutputActive(e, c1)
      THEN ObufEmpty(Set(r, c1))
      ELSE Set(r, c1)

\* chan_rcvd_close2(), through chan_rcvd_oclose()
RcvdClose(r) ==
  LET r1 == Set(r, [r.c EXCEPT !.CLOSE_RCVD = TRUE])
      c  == r1.c
      o  == IF c.ostate = "OPEN" THEN "WAIT_DRAIN" ELSE c.ostate
      r2 == IF c.istate = "WAIT_DRAIN" THEN SendEof(r1) ELSE r1
  IN  IF c.type = "LARVAL"
      THEN Set(r1, [c EXCEPT !.ostate = "CLOSED", !.istate = "CLOSED"])
      ELSE Set(r2, [r2.c EXCEPT !.ostate = o, !.istate = "CLOSED"])

BothClosed(c) == c.istate = "CLOSED" /\ c.ostate = "CLOSED"

\* chan_is_dead(c, do_send), the CLOSE it may send (chan_send_close2()) ...
SendCloseIfDead(r, do_send) ==
  IF r.c.type # "ZOMBIE" /\ BothClosed(r.c) /\ ~r.c.CLOSE_SENT /\ do_send
  THEN Send(Set(r, [r.c EXCEPT !.CLOSE_SENT = TRUE]), "CLOSE")
  ELSE r

\* Mutant: a channel is dead as soon as it has sent its CLOSE.
IsDeadOnCloseSent(c, do_send) ==
  c.type = "ZOMBIE" \/ (BothClosed(c) /\ (c.CLOSE_SENT \/ ~do_send))

\* ... and its result.
IsDead(c, do_send) ==
  \/ c.type = "ZOMBIE"
  \/ BothClosed(c) /\ c.CLOSE_RCVD /\ (c.CLOSE_SENT \/ ~do_send)

-----------------------------------------------------------------------------
(* Sessions (session.c).                                                   *)

NoSession == [chanid |-> -1, pid |-> "none"]
SessionsOf(i) == {s \in Sids : sess[s].chanid = i}       \* session_by_channel()

\* Mutant: a session is taken for free when it has no child.
FreeSidsNoChild == {s \in Sids : sess[s].pid = "none"}

\* session_new(): the unused session slots.
FreeSids == {s \in Sids : sess[s] = NoSession}

\* Mutant: a session is closed while its child is alive.
DetachesWithChild(e, i) == TRUE

\* Does detach_user remove itself?  session_close_by_channel(), the callback of
\* a server session, stays attached while the child lives; the callback of a
\* client session is client_channel_closed().
Detaches(e, i) == e = "S" => \E s \in SessionsOf(i) : sess[s].pid = "none"

\* channel_garbage_collect(): r.c is the channel in slot i of end e after the
\* handler that precedes it.
Collect(e, i, r) ==
  LET r1     == IF r.c.user THEN SendCloseIfDead(r, r.c.detach_close) ELSE r
      wait   == r.c.user /\ ~IsDead(r1.c, r.c.detach_close)
      stay   == wait \/ (r.c.user /\ ~Detaches(e, i))
      r2     == IF r.c.user THEN Set(r1, [r1.c EXCEPT !.user = FALSE, !.detach_close = FALSE])
                            ELSE r1
      r3     == SendCloseIfDead(r2, TRUE)
  IN  IF stay THEN [r |-> r1, detached |-> FALSE, free |-> FALSE]
      ELSE [r |-> r3, detached |-> r.c.user, free |-> IsDead(r3.c, TRUE)]

\* The messages of r, addressed to the peer's channel.
Outgoing(i, r) == [k \in 1..Len(r.out) |-> Message(r.c, i, r.out[k])]

\* End e leaves a handler with r in slot i, no garbage collection.
Update(e, i, r) ==
  /\ chan' = [chan EXCEPT ![e][i] = r.c]
  /\ net' = [net EXCEPT ![Peer(e)] = @ \o Outgoing(i, r)]

\* channel_handler(): the handler's result r, then channel_garbage_collect().
UpdateAndCollect(e, i, r) ==
  LET g == Collect(e, i, r)
  IN  /\ chan' = [chan EXCEPT ![e][i] = IF g.free THEN Free ELSE g.r.c]
      /\ net' = [net EXCEPT ![Peer(e)] = @ \o Outgoing(i, g.r)]
      /\ sess' = IF g.detached /\ e = "S"
                 THEN [s \in Sids |-> IF s \in SessionsOf(i) THEN NoSession ELSE sess[s]]
                 ELSE sess

Init ==
  /\ chan = [e \in Ends |-> [i \in Ids |-> Free]]
  /\ net = [e \in Ends |-> <<>>]
  /\ sess = [s \in Sids |-> NoSession]
  /\ opens = 0 /\ notices = 0
  /\ hist = [e \in Ends |-> [g \in Gens |-> [wrote |-> 0, read |-> 0, cut |-> FALSE,
                                                child |-> "none"]]]
  /\ over = "no"

-----------------------------------------------------------------------------
(* Opening a channel.                                                      *)

OpenKind(ctype) == IF ctype = "session" THEN "OPEN_session" ELSE "OPEN_tcp"

\* ssh_session2_open() or mux_process_new_session() (whose cleanup callback is
\* registered with do_close, mux = TRUE); port_open_helper() for a forwarded
\* connection, which either end accepts and offers.
OpenChannel(e, ctype, mux) ==
  LET i == LowestFree(e)
      c == [NewChannel("OPENING", ctype, -1, opens + 1)
              EXCEPT !.user = (ctype = "session"), !.detach_close = mux,
                     !.efd = (ctype = "session" /\ Stderr)]
  IN  /\ over = "no" /\ opens < MaxOpens /\ FreeIds(e) # {}
      /\ ctype = "session" => e = "C"
      /\ mux => ctype = "session"
      /\ opens' = opens + 1
      /\ Update(e, i, Send(On(c), OpenKind(ctype)))
      /\ UNCHANGED <<sess, notices, hist, over>>

\* The message at the head of the queue to end e.
Incoming(e, kind) == over = "no" /\ net[e] # <<>> /\ Head(net[e]).kind = kind

\* The handler of the message at the head leaves r in slot i.
Answer(e, i, r) ==
  /\ chan' = [chan EXCEPT ![e][i] = r.c]
  /\ net' = [net EXCEPT ![e] = Tail(@), ![Peer(e)] = @ \o Outgoing(i, r)]

\* The handler of the message at the head does nothing.
Ignore(e) ==
  /\ net' = [net EXCEPT ![e] = Tail(@)]
  /\ UNCHANGED chan

\* server_input_channel_open() with server_request_session(): the channel is
\* freed again when session_open() finds no session slot.
InputOpenSession ==
  /\ Incoming("S", "OPEN_session") /\ FreeIds("S") # {}
  /\ LET m == Head(net["S"])
         i == LowestFree("S")
         c == [NewChannel("LARVAL", "session", m.sid, m.gen) EXCEPT !.user = TRUE]
     IN  IF FreeSids # {}
         THEN /\ Answer("S", i, Send(On(c), "CONFIRM"))
              /\ \E s \in FreeSids : sess' = [sess EXCEPT ![s].chanid = i]
         ELSE /\ net' = [net EXCEPT !["S"] = Tail(@),
                           !["C"] = Append(@, Message(c, i, [kind |-> "OPEN_FAILURE", n |-> 0]))]
              /\ UNCHANGED <<chan, sess>>
  /\ UNCHANGED <<opens, notices, hist, over>>

\* server_input_channel_open() and client_input_channel_open() for a forwarded
\* connection: connect_to() starts to connect, or the forwarding is refused.
InputOpenTcp(e, accept) ==
  /\ Incoming(e, "OPEN_tcp") /\ FreeIds(e) # {}
  /\ LET m == Head(net[e])
         i == LowestFree(e)
         c == NewChannel("CONNECTING", "tcp", m.sid, m.gen)
     IN  IF accept THEN Answer(e, i, On(c))
         ELSE /\ net' = [net EXCEPT ![e] = Tail(@),
                           ![Peer(e)] = Append(@, Message(c, i, [kind |-> "OPEN_FAILURE", n |-> 0]))]
              /\ UNCHANGED chan
  /\ UNCHANGED <<sess, opens, notices, hist, over>>

\* channel_post_connecting(), then channel_garbage_collect()
PostConnecting(e, i, ok) ==
  /\ over = "no" /\ chan[e][i].type = "CONNECTING"
  /\ LET c == chan[e][i] IN
     UpdateAndCollect(e, i, IF ok THEN Send(On([c EXCEPT !.type = "OPEN"]), "CONFIRM")
                                  ELSE Send(On([c EXCEPT !.type = "ZOMBIE"]), "OPEN_FAILURE"))
  /\ UNCHANGED <<opens, notices, hist, over>>

\* channel_lookup() finds the recipient of the message at the head.
Found(e) ==
  LET i == Head(net[e]).to
  IN  i \in Ids /\ chan[e][i].type \in {"OPENING", "LARVAL", "CONNECTING", "OPEN"}

\* packet_disconnect() or fatal() in the handler of the message at the head.
Disconnect(e, why) ==
  /\ over' = why
  /\ Ignore(e)

\* channel_input_open_confirmation(), with client_session2_setup() as the
\* callback of a session: it asks for a program to be run.
InputOpenConfirmation(e) ==
  /\ Incoming(e, "CONFIRM")
  /\ LET m == Head(net[e])
         c == chan[e][m.to]
         c1 == [c EXCEPT !.type = "OPEN", !.rid = m.sid, !.rwin = (c.ctype = "tcp")]
     IN  IF ~Found(e) \/ c.type # "OPENING"
         THEN Disconnect(e, "confirmation_for_non-opening_channel")
         ELSE /\ Answer(e, m.to, IF c.ctype = "session"
                                 THEN Send(On([c1 EXCEPT !.confirm = TRUE]), "EXEC")
                                 ELSE On(c1))
              /\ UNCHANGED over
  /\ UNCHANGED <<sess, opens, notices, hist>>

\* channel_input_open_failure()
InputOpenFailure(e) ==
  /\ Incoming(e, "OPEN_FAILURE")
  /\ LET i == Head(net[e]).to IN
     IF ~Found(e) \/ chan[e][i].type # "OPENING"
     THEN Disconnect(e, "failure_for_non-opening_channel")
     ELSE /\ Answer(e, i, On([chan[e][i] EXCEPT !.type = "ZOMBIE"]))
          /\ UNCHANGED over
  /\ UNCHANGED <<sess, opens, notices, hist>>

-----------------------------------------------------------------------------
(* Requests and the server's child processes.                              *)

\* server_input_channel_req() with session_input_channel_req() for "exec",
\* "shell" or "subsystem": do_exec() starts the program and session_set_fds()
\* opens the channel, or it fails.
InputExec(ok) ==
  /\ Incoming("S", "EXEC")
  /\ LET i == Head(net["S"]).to
         c == chan["S"][i]
         started == ok /\ c.type = "LARVAL" /\ SessionsOf(i) # {}
         r == IF started
              THEN Send(On([c EXCEPT !.type = "OPEN", !.efd = Stderr]), "ADJUST")
              ELSE On(c)
     IN  IF ~Found("S") THEN Disconnect("S", "request_for_unknown_channel") /\ UNCHANGED <<sess, hist>>
         ELSE /\ Answer("S", i, IF c.CLOSE_SENT THEN r
                                ELSE Send(r, IF started THEN "SUCCESS" ELSE "FAILURE"))
              /\ sess' = [s \in Sids |-> IF started /\ s \in SessionsOf(i)
                                         THEN [sess[s] EXCEPT !.pid = "running"] ELSE sess[s]]
              /\ hist' = IF started THEN [hist EXCEPT !["S"][c.gen].child = "started"] ELSE hist
              /\ UNCHANGED over
  /\ UNCHANGED <<opens, notices>>

\* channel_input_window_adjust(), the adjust of channel_set_fds()
InputAdjust ==
  /\ Incoming("C", "ADJUST")
  /\ LET i == Head(net["C"]).to IN
     IF Found("C") THEN Answer("C", i, On([chan["C"][i] EXCEPT !.rwin = TRUE])) ELSE Ignore("C")
  /\ UNCHANGED <<sess, opens, notices, hist, over>>

\* The bytes that the program behind end e wrote and that are still on the way
\* are given up.
CutStream(e, g) == [hist EXCEPT ![e][g].cut = TRUE]

\* channel_input_status_confirm() with client_status_confirm(): a failure of
\* the "exec" ends the client, or the channel when it belongs to a mux client.
InputStatusConfirm ==
  /\ Incoming("C", "SUCCESS") \/ Incoming("C", "FAILURE")
  /\ LET m == Head(net["C"])
         c == chan["C"][m.to]
         r == On([c EXCEPT !.confirm = FALSE])
     IN  IF ~Found("C") \/ ~c.confirm THEN Ignore("C") /\ UNCHANGED <<over, hist>>
         ELSE IF m.kind = "SUCCESS" THEN Answer("C", m.to, r) /\ UNCHANGED <<over, hist>>
         ELSE IF ~c.detach_close THEN Disconnect("C", "exit") /\ UNCHANGED hist
         ELSE /\ Answer("C", m.to, WriteFailed(ReadFailed(r)))
              /\ hist' = [e \in Ends |-> [hist[e] EXCEPT ![c.gen].cut = TRUE]]
              /\ UNCHANGED over
  /\ UNCHANGED <<sess, opens, notices>>

\* The child of session s exits.
ChildExit(s) ==
  /\ over = "no" /\ sess[s].pid = "running"
  /\ sess' = [sess EXCEPT ![s].pid = "dead"]
  /\ UNCHANGED <<chan, net, opens, notices, hist, over>>

\* Mutant: the callback is left as server_request_session() registered it.
ReleaseWithoutClose(c) == c

\* session_exit_message() registers the cleanup callback again, with do_close.
Release(c) == [c EXCEPT !.user = TRUE, !.detach_close = TRUE]

\* collect_children(), session_close_by_pid() and session_exit_message(): the
\* exit status is sent, the channel released, and its output end closed as if
\* a write had failed.
CollectChild(s) ==
  /\ over = "no" /\ sess[s].pid = "dead"
  /\ LET i == sess[s].chanid
         c == chan["S"][i]
     IN  IF c.type \notin {"OPENING", "LARVAL", "CONNECTING", "OPEN"}
         THEN over' = "session_without_channel" /\ UNCHANGED <<chan, net, hist>>
         ELSE /\ Update("S", i, WriteFailed(Send(On(Release(c)), "EXIT")))
              /\ hist' = [CutStream("C", c.gen) EXCEPT !["S"][c.gen].child = "reported"]
              /\ UNCHANGED over
  /\ sess' = [sess EXCEPT ![s].pid = "none"]
  /\ UNCHANGED <<opens, notices>>

\* client_input_channel_req() for "exit-status"; the status is only recorded.
InputExit ==
  /\ Incoming("C", "EXIT")
  /\ Ignore("C")
  /\ UNCHANGED <<sess, opens, notices, hist, over>>

\* chan_rcvd_eow() in server_input_channel_req() and client_input_channel_req()
InputEow(e) ==
  /\ Incoming(e, "EOW")
  /\ LET i == Head(net[e]).to
         c == chan[e][i]
     IN  IF Found(e)
         THEN Answer(e, i, RcvdEow(On(c))) /\ UNCHANGED over
         ELSE IF e = "S" THEN Disconnect(e, "request_for_unknown_channel")
                         ELSE Ignore(e) /\ UNCHANGED over
  /\ UNCHANGED <<sess, opens, notices, hist>>

\* client_alive_check() with channel_find_open(): the first channel that is
\* LARVAL or OPEN, whatever its flags.
KeepAlive ==
  LET S == {i \in Ids : chan["S"][i].type \in {"LARVAL", "OPEN"}}
      i == CHOOSE j \in S : \A k \in S : j <= k
  IN  /\ over = "no" /\ notices < MaxNotices /\ S # {}
      /\ Update("S", i, Send(On(chan["S"][i]), "KEEPALIVE"))
      /\ notices' = notices + 1
      /\ UNCHANGED <<sess, opens, hist, over>>

\* client_input_channel_req() for "keepalive@openssh.com": an unknown request,
\* answered with CHANNEL_FAILURE unless the channel is gone or closing.
InputKeepAlive ==
  /\ Incoming("C", "KEEPALIVE")
  /\ LET i == Head(net["C"]).to
         c == chan["C"][i]
     IN  IF ~Found("C") \/ c.CLOSE_SENT THEN Ignore("C")
         ELSE Answer("C", i, Send(On(c), "FAILURE"))
  /\ UNCHANGED <<sess, opens, notices, hist, over>>

\* server_input_keep_alive() takes any CHANNEL_SUCCESS or CHANNEL_FAILURE.
InputKeepAliveReply ==
  /\ Incoming("S", "FAILURE")
  /\ Ignore("S")
  /\ UNCHANGED <<sess, opens, notices, hist, over>>

\* Mutant: the size of the terminal is known whatever became of rfd.
HasWindowSizeAlways(c) == TRUE

\* channel_send_window_changes(): TIOCGWINSZ fails once chan_shutdown_read() has
\* closed rfd.
HasWindowSize(c) == c.istate = "OPEN"

\* channel_send_window_changes(), which does not look at CHAN_CLOSE_SENT.
WindowChange(i) ==
  LET c == chan["C"][i]
  IN  /\ over = "no" /\ notices < MaxNotices
      /\ c.type = "OPEN" /\ c.ctype = "session" /\ HasWindowSize(c)
      /\ Update("C", i, Send(On(c), "WINDOW_CHANGE"))
      /\ notices' = notices + 1
      /\ UNCHANGED <<sess, opens, hist, over>>

\* server_input_channel_req() for "window-change"
InputWindowChange ==
  /\ Incoming("S", "WINDOW_CHANGE")
  /\ IF Found("S") THEN Ignore("S") /\ UNCHANGED over
                   ELSE Disconnect("S", "request_for_unknown_channel")
  /\ UNCHANGED <<sess, opens, notices, hist>>

-----------------------------------------------------------------------------
(* Data, EOF and CLOSE.                                                    *)

\* channel_input_data()
InputData(e) ==
  /\ Incoming(e, "DATA")
  /\ LET m == Head(net[e])
         c == chan[e][m.to]
     IN  IF ~Found(e) THEN Disconnect(e, "data_for_nonexistent_channel")
         ELSE /\ IF c.type = "OPEN" /\ c.ostate = "OPEN"
                 THEN Answer(e, m.to, On([c EXCEPT !.output = @ + m.n]))
                 ELSE Ignore(e)
              /\ UNCHANGED over
  /\ UNCHANGED <<sess, opens, notices, hist>>

\* channel_input_extended_data()
InputExtendedData ==
  /\ Incoming("C", "EXTENDED_DATA")
  /\ LET m == Head(net["C"])
         c == chan["C"][m.to]
     IN  IF ~Found("C") THEN Disconnect("C", "extended_data_for_bad_channel")
         ELSE IF c.type = "OPEN" /\ c.EOF_RCVD THEN Disconnect("C", "extended_data_after_EOF")
         ELSE /\ IF c.type = "OPEN" /\ c.efd
                 THEN Answer("C", m.to, On([c EXCEPT !.ext = @ + m.n]))
                 ELSE Ignore("C")
              /\ UNCHANGED over
  /\ UNCHANGED <<sess, opens, notices, hist>>

\* channel_input_ieof()
InputEof(e) ==
  /\ Incoming(e, "EOF")
  /\ LET i == Head(net[e]).to IN
     IF ~Found(e) THEN Disconnect(e, "ieof_for_nonexistent_channel")
     ELSE Answer(e, i, RcvdIeof(e, On(chan[e][i]))) /\ UNCHANGED over
  /\ UNCHANGED <<sess, opens, notices, hist>>

\* channel_input_oclose()
InputClose(e) ==
  /\ Incoming(e, "CLOSE")
  /\ LET i == Head(net[e]).to IN
     IF ~Found(e) THEN Disconnect(e, "oclose_for_nonexistent_channel")
     ELSE Answer(e, i, RcvdClose(On(chan[e][i]))) /\ UNCHANGED over
  /\ UNCHANGED <<sess, opens, notices, hist>>

\* channel_output_poll(), for one channel.
OutputPoll(e, i) ==
  LET c  == chan[e][i]
      r1 == IF c.istate \in {"OPEN", "WAIT_DRAIN"} /\ c.input > 0
            THEN IF c.rwin THEN SendBytes(On([c EXCEPT !.input = 0]), "DATA", c.input) ELSE On(c)
            ELSE IF c.istate = "WAIT_DRAIN" /\ ~EfdInputActive(e, c) THEN IbufEmpty(On(c))
            ELSE On(c)
      r2 == IF e = "S" /\ ~r1.c.EOF_SENT /\ c.rwin /\ c.ext > 0
            THEN SendBytes(Set(r1, [r1.c EXCEPT !.ext = 0]), "EXTENDED_DATA", c.ext)
            ELSE r1
  IN  /\ over = "no" /\ c.type = "OPEN" /\ ~c.CLOSE_SENT /\ ~c.CLOSE_RCVD
      /\ r2 # On(c)
      /\ Update(e, i, r2)
      /\ UNCHANGED <<sess, opens, notices, hist, over>>

-----------------------------------------------------------------------------
(* The programs behind the descriptors and the select loop.                *)

\* The program behind channel i of end e writes a byte, to its standard error
\* when err.
Produce(e, i, err) ==
  LET c == chan[e][i]
  IN  /\ over = "no" /\ c.type = "OPEN" /\ ~c.weof
      /\ hist[e][c.gen].wrote < MaxData
      /\ IF err THEN e = "S" /\ c.efd ELSE c.istate = "OPEN"
      /\ chan' = [chan EXCEPT ![e][i] = IF err THEN [c EXCEPT !.epipe = @ + 1]
                                               ELSE [c EXCEPT !.pipe = @ + 1]]
      /\ hist' = [hist EXCEPT ![e][c.gen].wrote = @ + 1]
      /\ UNCHANGED <<net, sess, opens, notices, over>>

\* The last writer behind channel i of end e closes its descriptors.
WriterCloses(e, i) ==
  /\ over = "no" /\ chan[e][i].type = "OPEN" /\ ~chan[e][i].weof
  /\ chan' = [chan EXCEPT ![e][i].weof = TRUE]
  /\ UNCHANGED <<net, sess, opens, notices, hist, over>>

\* channel_handler(channel_pre): channel_pre_open(), then garbage collection.
HandlerPre(e, i) ==
  LET c == chan[e][i]
      r == IF /\ c.type = "OPEN" /\ c.ostate = "WAIT_DRAIN" /\ c.output = 0
              /\ ~EfdOutputActive(e, c)
           THEN ObufEmpty(On(c))
           ELSE On(c)
  IN  /\ over = "no" /\ c # Free
      /\ r # On(c) \/ Collect(e, i, r).r # r \/ Collect(e, i, r).free
      /\ UpdateAndCollect(e, i, r)
      /\ UNCHANGED <<opens, notices, hist, over>>

\* What select() and the descriptors can offer channel_handle_rfd(): nothing,
\* data, or a read that returns end-of-file.  The pty of a session whose child
\* was collected is read by force: it is at its end when it has no data.
ReadResults(e, c) ==
  {"none"} \cup
  IF c.istate # "OPEN" \/ ~c.rwin THEN {}
  ELSE IF c.pipe > 0 THEN {"data"}
  ELSE IF c.weof \/ (e = "S" /\ ~Stderr /\ c.detach_close) THEN {"eof"}
  ELSE {}

\* ... and channel_handle_wfd().
WriteResults(c) == {"none"} \cup IF c.output > 0 THEN {"data", "fail"} ELSE {}

\* ... and channel_handle_efd(): the server reads stderr, the client writes it.
EfdResults(e, c) ==
  {"none"} \cup
  IF ~c.efd \/ BothClosed(c) THEN {}
  ELSE IF e = "C" THEN IF c.ext > 0 THEN {"data", "fail"} ELSE {}
  ELSE IF c.epipe > 0 /\ (~c.EOF_SENT \/ c.detach_close) THEN {"data"}
  ELSE IF c.epipe = 0 /\ (c.weof \/ c.detach_close) THEN {"eof"}
  ELSE {}

\* channel_handle_rfd()
HandleRfd(r, rd) ==
  CASE rd = "data" -> Set(r, [r.c EXCEPT !.input = @ + r.c.pipe, !.pipe = 0])
    [] rd = "eof"  -> ReadFailed(r)
    [] OTHER       -> r

\* channel_handle_wfd()
HandleWfd(r, wr) ==
  CASE wr = "data" -> Set(r, [r.c EXCEPT !.output = 0])
    [] wr = "fail" -> WriteFailed(r)
    [] OTHER       -> r

\* channel_handle_efd()
HandleEfd(e, r, er) ==
  CASE er = "data" /\ e = "C" -> Set(r, [r.c EXCEPT !.ext = 0])
    [] er = "data" /\ e = "S" -> Set(r, [r.c EXCEPT !.ext = @ + r.c.epipe, !.epipe = 0])
    [] er \in {"fail", "eof"} -> Set(r, [r.c EXCEPT !.efd = FALSE])
    [] OTHER                  -> r

\* channel_handler(channel_post): channel_post_open(), then garbage collection.
HandlerPost(e, i, rd, wr, er) ==
  LET c == chan[e][i]
      r == HandleEfd(e, HandleWfd(HandleRfd(On(c), rd), wr), er)
      n == (IF wr = "data" THEN c.output ELSE 0) + (IF e = "C" /\ er = "data" THEN c.ext ELSE 0)
  IN  /\ over = "no" /\ c.type = "OPEN"
      /\ rd \in ReadResults(e, c) /\ wr \in WriteResults(c) /\ er \in EfdResults(e, c)
      /\ <<rd, wr, er>> # <<"none", "none", "none">>
      /\ UpdateAndCollect(e, i, r)
      /\ hist' = [hist EXCEPT ![e][c.gen].read = @ + n,
                              ![Peer(e)][c.gen].cut = @ \/ "fail" \in {wr, er}]
      /\ UNCHANGED <<opens, notices, over>>

Handlers(e, i) ==
  \/ HandlerPre(e, i)
  \/ \E rd \in {"none", "data", "eof"}, wr \in {"none", "data", "fail"},
        er \in {"none", "data", "fail", "eof"} : HandlerPost(e, i, rd, wr, er)
  \/ \E ok \in BOOLEAN : PostConnecting(e, i, ok)

Receive(e) ==
  \/ \E accept \in BOOLEAN : InputOpenTcp(e, accept)
  \/ InputOpenConfirmation(e) \/ InputOpenFailure(e)
  \/ InputData(e) \/ InputEof(e) \/ InputClose(e) \/ InputEow(e)

ReceiveClient == InputAdjust \/ InputStatusConfirm \/ InputExit \/ InputKeepAlive
                 \/ InputExtendedData

ReceiveServer == InputOpenSession \/ (\E ok \in BOOLEAN : InputExec(ok))
                 \/ InputKeepAliveReply \/ InputWindowChange

Next ==
  \/ \E e \in Ends, ctype \in CTypes, mux \in BOOLEAN : OpenChannel(e, ctype, mux)
  \/ \E e \in Ends : Receive(e)
  \/ ReceiveClient
  \/ ReceiveServer
  \/ \E e \in Ends, i \in Ids : \/ OutputPoll(e, i)
                                \/ Handlers(e, i)
                                \/ WriterCloses(e, i)
                                \/ \E err \in BOOLEAN : Produce(e, i, err)
  \/ \E s \in Sids : ChildExit(s) \/ CollectChild(s)
  \/ KeepAlive
  \/ \E i \in Ids : WindowChange(i)

Spec == Init /\ [][Next]_vars

\* Both loops keep running: handlers are called and packets processed.  The
\* programs end: the child exits and whoever writes to a channel closes it.
Fairness ==
  /\ \A e \in Ends : WF_vars(Receive(e))
  /\ WF_vars(ReceiveClient) /\ WF_vars(ReceiveServer)
  /\ \A e \in Ends, i \in Ids : /\ WF_vars(OutputPoll(e, i))
                                /\ WF_vars(Handlers(e, i))
                                /\ WF_vars(WriterCloses(e, i))
  /\ \A s \in Sids : WF_vars(ChildExit(s)) /\ WF_vars(CollectChild(s))

FairSpec == Spec /\ Fairness

-----------------------------------------------------------------------------
Types == {"OPENING", "LARVAL", "CONNECTING", "OPEN", "ZOMBIE"}
Kinds == {"OPEN_session", "OPEN_tcp", "CONFIRM", "OPEN_FAILURE", "EXEC", "ADJUST", "SUCCESS",
          "FAILURE", "EXIT", "EOW", "KEEPALIVE", "WINDOW_CHANGE", "DATA", "EXTENDED_DATA",
          "EOF", "CLOSE"}

ChannelOK(c) ==
  /\ c.type \in Types /\ c.ctype \in CTypes /\ c.rid \in Ids \cup {-1} /\ c.gen \in Gens
  /\ c.istate \in {"OPEN", "WAIT_DRAIN", "CLOSED"} /\ c.ostate \in {"OPEN", "WAIT_DRAIN", "CLOSED"}
  /\ {c.input, c.output, c.ext, c.pipe, c.epipe} \subseteq 0..MaxData
  /\ c.ostate = "CLOSED" => c.output = 0
  /\ c.CLOSE_SENT => BothClosed(c)
  /\ c.EOF_SENT => c.istate = "CLOSED"
  /\ c.EOF_RCVD => c.ostate # "OPEN"

\* The type invariant, with what the flags of a channel say of its two halves:
\* a closed output half holds no data, CLOSE is sent only by a channel closed
\* both ways, EOF only by one that reads no more (nchan.c).
TypeOK ==
  /\ \A e \in Ends, i \in Ids : chan[e][i] # Free => ChannelOK(chan[e][i])
  /\ \A e \in Ends : \A k \in 1..Len(net[e]) :
       net[e][k].kind \in Kinds /\ net[e][k].gen \in Gens /\ net[e][k].n \in 0..MaxData
  /\ \A s \in Sids : sess[s].chanid \in Ids \cup {-1} /\ sess[s].pid \in {"none", "running", "dead"}
  /\ opens \in 0..MaxOpens /\ notices \in 0..MaxNotices

\* Two correct peers never make each other end the connection: no handler finds
\* a message for a channel that does not exist, is not being opened or has had
\* EOF (the packet_disconnect() and fatal() calls of channels.c, serverloop.c
\* and session_exit_message()).  "exit" is the client's own decision to stop
\* when its command cannot be run.
NoProtocolError == over \in {"no", "exit"}

\* The messages in flight to e for channel g from position k on.
After(e, g, k) == {m \in {net[e][j] : j \in k..Len(net[e])} : m.gen = g}

\* CHANNEL_CLOSE is the last an end says of a channel: nothing follows it in
\* the queue, and nothing arrives once it was processed.  The server's
\* keepalive is the exception: channel_find_open() takes a closing channel too.
CloseIsLast ==
  \A e \in Ends :
    /\ \A k \in 1..Len(net[e]) : net[e][k].kind = "CLOSE" =>
         \A m \in After(e, net[e][k].gen, k + 1) : m.kind = "KEEPALIVE"
    /\ \A i \in Ids : chan[e][i] # Free /\ chan[e][i].CLOSE_RCVD =>
         \A m \in After(e, chan[e][i].gen, 1) : m.kind = "KEEPALIVE"

\* channel_free() gives an id back only when the other end can say nothing more
\* about it: a message in flight is never for an earlier user of its id, except
\* the server's keepalive and its answer.
NoStaleDelivery ==
  \A e \in Ends : \A k \in 1..Len(net[e]) :
    LET m == net[e][k]
    IN  m.to # -1 /\ m.kind # "KEEPALIVE" /\ ~(e = "S" /\ m.kind = "FAILURE") =>
          m.to \in Ids /\ chan[e][m.to] # Free /\ chan[e][m.to].gen = m.gen

\* The sessions of the server and its session channels with a cleanup callback
\* are in one-to-one correspondence, whatever the order in which children die
\* and channels close (server_request_session(), session_close_by_channel()).
SessionsLinked ==
  /\ \A s \in Sids : sess[s].chanid # -1 =>
       LET c == chan["S"][sess[s].chanid]
       IN  c # Free /\ c.ctype = "session" /\ c.user
  /\ \A i \in Ids : chan["S"][i] # Free /\ chan["S"][i].user => Cardinality(SessionsOf(i)) = 1

\* The server does not close a session before it has sent the exit status of
\* the child it started (session_exit_message()).
ExitStatusFirst ==
  \A k \in 1..Len(net["C"]) :
    net["C"][k].kind = "CLOSE" => hist["S"][net["C"][k].gen].child # "started"

\* Nothing a program wrote is dropped on a regular close: as long as bytes are
\* missing at the other end and nobody gave them up (a failed write, a child
\* that exited and reads no more), the output end there is still open.
NoTruncation ==
  \A e \in Ends, g \in Gens :
    hist[e][g].wrote > hist[Peer(e)][g].read /\ ~hist[e][g].cut =>
      \E i \in Ids : LET c == chan[Peer(e)][i]
                     IN  c # Free /\ c.gen = g /\ c.ostate # "CLOSED"

\* Once the programs have ended and no more channels are opened, every channel
\* is freed at both ends and every session slot given back: the two garbage
\* collectors never wait for each other.
AllFreed ==
  <>[](over # "no" \/ (/\ \A e \in Ends, i \in Ids : chan[e][i] = Free
                       /\ \A s \in Sids : sess[s] = NoSession))

=============================================================================
