--------------------------------- MODULE Mux ---------------------------------
(***************************************************************************)
(* Connection sharing and remote port forwarding on the client side: the   *)
(* master (mux.c, the control channels of channels.c, the queue of global  *)
(* confirmations in clientloop.c, the tables remote_forwards and           *)
(* permitted_opens), the slaves that use it, and the listeners of the      *)
(* server.  Slaves may be killed at any moment and channel numbers are     *)
(* used again.                                                             *)
(*                                                                         *)
(* A forwarding is a listening port (0: the server chooses one) and a      *)
(* destination.  Every request for a forwarding has a number, a history    *)
(* variable that the program does not have.  The master asks its user      *)
(* nothing (ControlMaster without ask).                                    *)
(***************************************************************************)
EXTENDS Naturals, Sequences, SequencesExt, FiniteSets, FiniteSetsExt

CONSTANTS Slaves,     \* slave processes
          Ids,        \* channel numbers
          Commands(_),  \* the sequences of requests a slave may make
          InitFwds,   \* -R options of the master: sequence of [port, dest]
          DynPorts,   \* ports the server chooses from
          MaxKills,   \* bound on slaves killed
          MaxEvents   \* bound, together: keepalives sent, connections to
                      \* listeners, listen requests refused for no reason

NoDest == "none"

Requests == UNION {{c[i] : i \in DOMAIN c} : c \in UNION {Commands(s) : s \in Slaves}}

\* muxclient: a slave opens or closes its forwardings and then, last, a session.
ASSUME MuxAssumption ==
  /\ Ids \subseteq Nat \ {0} /\ Cardinality(Ids) >= 2
  /\ DynPorts \subseteq Nat \ {0}
  /\ InitFwds \in Seq([port : Nat, dest : STRING])
  /\ \A s \in Slaves : \A c \in Commands(s) :
       /\ c \in Seq(Requests) /\ c # <<>>
       /\ \A i \in DOMAIN c :
            /\ c[i].type \in {"OPEN_FWD", "CLOSE_FWD", "NEW_SESSION", "STOP", "TERMINATE"}
            /\ c[i].type = "NEW_SESSION" => i = Len(c) /\ c[i].tty \in BOOLEAN

VARIABLES
  slave,      \* slave[s]: pc, the requests to make, the socket's two queues
  chan,       \* chan[i]: control and session channels of the master
  listener,   \* is mux_listener_channel open
  forwards,   \* options.remote_forwards
  opens,      \* permitted_opens
  confirms,   \* global_confirms
  toServer, toClient,
  progs,      \* session channels with a program in the server
  listening,  \* listeners of the server
  over,       \* how the master ended
  events,     \* used up of MaxEvents
  \* history
  nr,         \* requests for a forwarding made so far
  routed,     \* connections through listeners: asked and obtained number
  refusedAt,  \* ports a request for which was refused
  cancelled,  \* numbers of forwardings cancelled, and of those while the
  early       \* port was still unknown

net == <<toServer, toClient>>
tables == <<forwards, opens, confirms>>
server == <<progs, listening>>
history == <<routed, refusedAt, cancelled, early>>
vars == <<slave, chan, listener, tables, net, server, over, events, nr, history>>

Event == events < MaxEvents /\ events' = events + 1

Free == [kind |-> "free"]
NoChan == 0

Control(s) == [kind |-> "ctl", slave |-> s, mux_pause |-> FALSE, drain |-> FALSE,
               out |-> <<[type |-> "HELLO", for |-> s]>>, remote_id |-> NoChan]
Session(i, s, tty) == [kind |-> "session", ctl_chan |-> i, type |-> "opening",
                       dead |-> FALSE, tty |-> tty, for |-> s]

LowestFree == {i \in Ids : chan[i] = Free /\ \A j \in Ids : j < i => chan[j] # Free}

-----------------------------------------------------------------------------
(* Slaves *)

(* muxclient: connect, send HELLO; channel_post_mux_listener accepts and   *)
(* the first call of mux_master_read_cb queues the master's HELLO, which   *)
(* the slave waits for.  The slave's own is always read first and changes  *)
(* nothing else.                                                           *)
Connect(s) ==
  /\ slave[s].pc = "idle" /\ over = "no" /\ listener
  /\ \E i \in LowestFree, c \in Commands(s) :
       /\ chan' = [chan EXCEPT ![i] = Control(s)]
       /\ slave' = [slave EXCEPT ![s] = [@ EXCEPT !.pc = "hello", !.todo = c,
                      !.cmd = c, !.ctl = i]]
  /\ UNCHANGED <<listener, tables, net, server, over, events, nr, history>>

IsSession(c) == c[Len(c)].type = "NEW_SESSION"

(* The next request, or the end: exit() closes the socket; a slave whose   *)
(* forwardings failed goes on without the master and keeps it open.        *)
Ask(t) ==
  CASE t.todo # <<>> /\ ~(t.failed /\ Head(t.todo).type = "NEW_SESSION") ->
         [t EXCEPT !.pc = "asked", !.out = Append(@, Head(t.todo)),
                   !.todo = Tail(@)]
    [] t.todo = <<>> -> [t EXCEPT !.pc = "gone"]
    [] OTHER -> [t EXCEPT !.pc = "fallback"]

(* mux_client_hello_exchange, mux_client_forwards, mux_client_forward,     *)
(* mux_client_request_session: one answer of the master is read.           *)
Answered(t, m) ==
  CASE t.pc = "hello" -> Ask(t)
    [] t.pc = "asked" /\ m.type = "SESSION_OPENED" -> [t EXCEPT !.pc = "attached"]
    [] t.pc = "asked" /\ m.type = "FAILURE" ->
         IF IsSession(t.cmd) /\ t.todo = <<>>
         THEN [t EXCEPT !.pc = "fallback"] ELSE Ask([t EXCEPT !.failed = TRUE])
    [] t.pc = "asked" /\ m.type \in {"OK", "REMOTE_PORT"} -> Ask(t)
    [] t.pc = "attached" /\ m.type = "EXIT_MESSAGE" -> [t EXCEPT !.exit = TRUE]
    [] OTHER -> t

SlaveReads(s) ==
  /\ slave[s].pc \notin {"idle", "gone"}
  /\ slave[s].in # <<>>
  /\ slave' = [slave EXCEPT ![s] =
       Answered([slave[s] EXCEPT !.in = Tail(slave[s].in)], Head(slave[s].in))]
  /\ UNCHANGED <<chan, listener, tables, net, server, over, events, nr, history>>

(* The master has closed the control socket, or has exited. *)
SlaveEof(s) ==
  /\ slave[s].pc \in {"hello", "asked", "attached"}
  /\ slave[s].in = <<>>
  /\ slave[s].ctl = NoChan
  /\ slave' = [slave EXCEPT ![s].pc = "gone"]
  /\ UNCHANGED <<chan, listener, tables, net, server, over, events, nr, history>>

(* A slave is killed, or one that fell back ends its own connection. *)
Kill(s) ==
  /\ slave[s].pc \notin {"idle", "gone"}
  /\ Cardinality({t \in Slaves : slave[t].killed}) < MaxKills
  /\ slave' = [slave EXCEPT ![s].pc = "gone", ![s].killed = TRUE]
  /\ UNCHANGED <<chan, listener, tables, net, server, over, events, nr, history>>

-----------------------------------------------------------------------------
(* The tables of forwardings *)

(* compare_forward over options.remote_forwards *)
Requested(f) == {k \in DOMAIN forwards : /\ forwards[k].port = f.port
                                         /\ forwards[k].dest = f.dest}

(* open_listen_match_tcpip: the first entry for a port *)
Matching(port) == {k \in DOMAIN opens : opens[k].dest # NoDest /\ opens[k].port = port}

Cleared(k) == [opens EXCEPT ![k].dest = NoDest, ![k].port = 0]
Forgotten(k) == [forwards EXCEPT ![k].dest = NoDest, ![k].port = 0]

(* client_register_global_confirm; only placeholders have equal contexts *)
RegisterOnce(q, gc) == IF q # <<>> /\ Last(q).cb = "none" /\ gc.cb = "none"
                       THEN q ELSE Append(q, gc)
Register(q, gc) ==
  IF q # <<>> /\ Last(q).cb = "none" /\ gc.cb = "none"
  THEN [q EXCEPT ![Len(q)].ref_count = @ + 1] ELSE Append(q, gc)

(* channel_update_permitted_opens *)
UpdatePermittedOpensNever(k, port) == opens
UpdatePermittedOpens(k, port) ==
  IF port > 0 THEN [opens EXCEPT ![k].port = port] ELSE Cleared(k)

-----------------------------------------------------------------------------
(* The master: control channels *)
Running == over = "no"

Msg(type, s) == [type |-> type, for |-> s]
Say(c, type) == [c EXCEPT !.out = Append(@, Msg(type, c.slave))]

(* mux_master_control_cleanup_cb: a session forgets its control channel. *)
WithoutControlKept(c) == c
WithoutControl(c) == [c EXCEPT !.ctl_chan = NoChan]

(* channel_garbage_collect of control channel i with                       *)
(* mux_master_control_cleanup_cb: the session loses its control channel    *)
(* and is closed towards the server.                                       *)
FreeControl(i) ==
  LET l == chan[i].remote_id
  IN /\ IF l # NoChan /\ chan[l].kind # "session"
        THEN over' = "no_session_channel" /\ UNCHANGED chan
        ELSE /\ chan' = [j \in Ids |->
                   CASE j = i -> Free
                     [] j = l -> WithoutControl(chan[l])
                     [] OTHER -> chan[j]]
             /\ UNCHANGED over
     /\ slave' = [slave EXCEPT ![chan[i].slave].ctl = NoChan]

(* process_mux_open_fwd, for a remote forwarding *)
OpenFwd(i, f) ==
  LET k == Len(opens) + 1
      known == Requested(f)
  IN IF known # {}
     THEN /\ chan' = [chan EXCEPT ![i] =
                        Say(@, IF f.port = 0 THEN "REMOTE_PORT" ELSE "OK")]
          /\ UNCHANGED <<tables, toServer, nr>>
     ELSE /\ nr' = nr + 1
          /\ toServer' = Append(toServer, [type |-> "FORWARD", port |-> f.port,
                                           nr |-> nr + 1])
          /\ opens' = Append(opens, [port |-> f.port, dest |-> f.dest, nr |-> nr + 1])
          /\ forwards' = Append(forwards, [port |-> f.port, dest |-> f.dest,
                           alloc |-> 0, handle |-> k, nr |-> nr + 1])
          /\ confirms' = Register(confirms,
               [cb |-> "mux", cid |-> i, fid |-> Len(forwards) + 1,
                ref_count |-> 1, nr |-> nr + 1, for |-> chan[i].slave])
          /\ chan' = [chan EXCEPT ![i].mux_pause = TRUE]

(* channel_request_rforward_cancel: the port the server listens on *)
ListenPort(f) == IF f.port # 0 THEN f.port ELSE f.alloc
CancelAsked(f) == [type |-> "CANCEL", port |-> f.port]
Cancel(f) == [type |-> "CANCEL", port |-> ListenPort(f)]

(* process_mux_close_fwd with channel_request_rforward_cancel *)
CloseFwd(i, f) ==
  IF Requested(f) = {}
  THEN /\ chan' = [chan EXCEPT ![i] = Say(@, "FAILURE")]
       /\ UNCHANGED <<tables, toServer, cancelled, early>>
  ELSE LET k == Min(Requested(f))
           port == ListenPort(forwards[k])
       IN IF Matching(port) = {}
          THEN /\ chan' = [chan EXCEPT ![i] = Say(@, "FAILURE")]
               /\ UNCHANGED <<tables, toServer, cancelled, early>>
          ELSE /\ chan' = [chan EXCEPT ![i] = Say(@, "OK")]
               /\ toServer' = Append(toServer, Cancel(forwards[k]))
               /\ opens' = Cleared(Min(Matching(port)))
               /\ forwards' = Forgotten(k)
               /\ cancelled' = cancelled \cup {forwards[k].nr}
               /\ early' = IF port = 0 THEN early \cup {forwards[k].nr} ELSE early
               /\ UNCHANGED confirms

(* process_mux_new_session *)
NewSession(i, r) ==
  IF chan[i].remote_id # NoChan
  THEN /\ chan' = [chan EXCEPT ![i] = Say(@, "FAILURE")]
       /\ UNCHANGED toServer
  ELSE \E j \in LowestFree :
         /\ chan' = [chan EXCEPT ![j] = Session(i, chan[i].slave, r.tty),
                                 ![i].remote_id = j, ![i].mux_pause = TRUE]
         /\ toServer' = Append(toServer, [type |-> "OPEN", chan |-> j])

(* channel_pre_mux_client: requests are read unless one waits for its      *)
(* answer or the channel is being closed.                                  *)
MayReadPaused(c) == c.kind = "ctl" /\ ~c.drain
MayRead(c) == c.kind = "ctl" /\ ~c.mux_pause /\ ~c.drain

(* channel_post_mux_client, mux_master_read_cb *)
ReadRequest(i) ==
  LET c == chan[i]
      s == c.slave
      r == Head(slave[s].out)
  IN /\ Running
     /\ MayRead(c)
     /\ slave[s].out # <<>>
     /\ slave' = [slave EXCEPT ![s].out = Tail(@)]
     /\ CASE r.type = "OPEN_FWD" ->
               OpenFwd(i, r.fwd) /\ UNCHANGED <<listener, over, history>>
          [] r.type = "CLOSE_FWD" ->
               /\ CloseFwd(i, r.fwd)
               /\ UNCHANGED <<listener, over, nr, routed, refusedAt>>
          [] r.type = "NEW_SESSION" ->
               NewSession(i, r) /\ UNCHANGED <<listener, tables, over, nr, history>>
          [] r.type = "STOP" ->
               /\ listener' = FALSE
               /\ chan' = [chan EXCEPT ![i] = Say(@, "OK")]
               /\ UNCHANGED <<tables, toServer, over, nr, history>>
          [] r.type = "TERMINATE" ->
               /\ over' = "quit"
               /\ UNCHANGED <<chan, listener, tables, toServer, nr, history>>
     /\ UNCHANGED <<toClient, server, events>>

(* read_mux finds the end of the slave's socket. *)
ReadEof(i) ==
  LET c == chan[i] IN
  /\ Running
  /\ MayRead(c)
  /\ slave[c.slave].pc = "gone" /\ slave[c.slave].out = <<>>
  /\ FreeControl(i)
  /\ UNCHANGED <<listener, tables, net, server, events, nr, history>>

(* channel_post_mux_client writes; chan_mark_dead when the slave is gone *)
WriteOut(i) ==
  LET c == chan[i] IN
  /\ Running
  /\ c.kind = "ctl" /\ c.out # <<>>
  /\ IF slave[c.slave].pc = "gone"
     THEN FreeControl(i)
     ELSE /\ slave' = [slave EXCEPT ![c.slave].in = Append(@, Head(c.out))]
          /\ chan' = [chan EXCEPT ![i].out = Tail(@)]
          /\ UNCHANGED over
  /\ UNCHANGED <<listener, tables, net, server, events, nr, history>>

(* channel_pre_mux_client: the output is drained, the channel is closed *)
IsDrained(c) == c.drain /\ c.out = <<>>
Drained(i) ==
  /\ Running
  /\ chan[i].kind = "ctl" /\ IsDrained(chan[i])
  /\ FreeControl(i)
  /\ UNCHANGED <<listener, tables, net, server, events, nr, history>>

(* channel_garbage_collect of session channel j with                       *)
(* mux_master_session_cleanup_cb: the control channel is closed after its  *)
(* output.                                                                 *)
FreeSession(j) ==
  LET i == chan[j].ctl_chan IN
  /\ Running
  /\ chan[j].kind = "session" /\ chan[j].dead
  /\ IF i # NoChan /\ chan[i].kind # "ctl"
     THEN over' = "no_control_channel" /\ UNCHANGED chan
     ELSE /\ chan' = [k \in Ids |->
                CASE k = j -> Free
                  [] k = i -> [chan[i] EXCEPT !.remote_id = NoChan, !.drain = TRUE]
                  [] OTHER -> chan[k]]
          /\ UNCHANGED over
  /\ UNCHANGED <<slave, listener, tables, net, server, events, nr, history>>

-----------------------------------------------------------------------------
(* The master: packets from the server *)

(* The end of the two confirmation callbacks: the answer goes to the       *)
(* control channel, which reads requests again.                            *)
Resume(i, type, for) ==
  IF chan[i].kind # "ctl" \/ ~chan[i].mux_pause
  THEN over' = "mux_pause" /\ UNCHANGED chan
  ELSE /\ chan' = [chan EXCEPT ![i].out = Append(@, Msg(type, for)),
                               ![i].mux_pause = FALSE]
       /\ UNCHANGED over

(* mux_confirm_remote_forward *)
ConfirmIgnoredCancelled(gc) == chan[gc.cid] = Free \/ forwards[gc.fid].dest = NoDest
ConfirmIgnored(gc) == chan[gc.cid] = Free

MuxConfirmRemoteForward(gc, m) ==
  LET f == forwards[gc.fid]
      ok == f.dest # NoDest /\ m.ok
      type == CASE ~ok -> "FAILURE"
                [] ok /\ f.port = 0 -> "REMOTE_PORT"
                [] OTHER -> "OK"
  IN IF ConfirmIgnored(gc)
     THEN UNCHANGED <<chan, over, forwards, opens>>
     ELSE /\ Resume(gc.cid, type, gc.for)
          /\ forwards' = CASE ok -> [forwards EXCEPT ![gc.fid].alloc = m.port]
                           [] f.dest # NoDest /\ ~m.ok -> Forgotten(gc.fid)
                           [] OTHER -> forwards
          /\ opens' = IF f.dest # NoDest /\ f.port = 0
                      THEN UpdatePermittedOpens(f.handle, IF m.ok THEN m.port ELSE 0)
                      ELSE opens

(* ssh_confirm_remote_forward, without ExitOnForwardFailure.  A port that  *)
(* is 0, which it also is once a slave has cancelled the forwarding, makes *)
(* it read the port from the reply: packet_get_int is fatal when there is  *)
(* none.  Its context points into options.remote_forwards, which the       *)
(* request of a slave may have moved: then it reads memory that was freed, *)
(* and the model goes no further ("dangling").                             *)
SshConfirmRemoteForward(gc, m) ==
  LET f == forwards[gc.fid]
      unread == f.port = 0 /\ m.ok /\ m.port = 0
  IN \/ /\ unread \/ Len(forwards) > Len(InitFwds)
        /\ over' \in (IF unread THEN {"port_unread"} ELSE {})
                     \cup (IF Len(forwards) > Len(InitFwds) THEN {"dangling"} ELSE {})
        /\ UNCHANGED <<chan, forwards, opens>>
     \/ /\ ~unread
        /\ forwards' = IF f.port = 0 /\ m.ok
                       THEN [forwards EXCEPT ![gc.fid].alloc = m.port] ELSE forwards
        /\ opens' = IF f.port = 0
                    THEN UpdatePermittedOpens(f.handle, IF m.ok THEN m.port ELSE 0)
                    ELSE opens
        /\ UNCHANGED <<chan, over>>

(* client_global_request_reply *)
GlobalRequestReply(m) ==
  IF confirms = <<>>
  THEN UNCHANGED <<chan, over, tables, refusedAt>>
  ELSE LET gc == Head(confirms)
       IN /\ confirms' = IF gc.ref_count > 1
                         THEN [confirms EXCEPT ![1].ref_count = @ - 1]
                         ELSE Tail(confirms)
          /\ CASE gc.cb = "mux" -> MuxConfirmRemoteForward(gc, m)
               [] gc.cb = "init" -> SshConfirmRemoteForward(gc, m)
               [] gc.cb = "none" -> UNCHANGED <<chan, over, forwards, opens>>
          /\ refusedAt' = IF gc.cb # "none" /\ ~m.ok
                          THEN refusedAt \cup {forwards[gc.fid].port} ELSE refusedAt

(* channel_input_open_confirmation, channel_input_open_failure and         *)
(* mux_session_confirm; the requests of the session go out.                *)
SessionConfirm(j, ok) ==
  LET c == chan[j]
      i == c.ctl_chan
  IN /\ IF i = NoChan \/ chan[i].kind # "ctl" \/ ~chan[i].mux_pause
        THEN over' = "no_control_channel" /\ UNCHANGED chan
        ELSE /\ chan' = [chan EXCEPT
                  ![i].out = Append(@, Msg(IF ok THEN "SESSION_OPENED" ELSE "FAILURE",
                                           c.for)),
                  ![i].mux_pause = FALSE,
                  ![j].type = IF ok THEN "open" ELSE "failed",
                  ![j].dead = ~ok]
             /\ UNCHANGED over
     /\ toServer' = IF ok THEN Append(toServer, [type |-> "SETUP", chan |-> j,
                                                 tty |-> c.tty])
                    ELSE toServer

(* client_input_channel_req "exit-status", mux_exit_message *)
ExitStatus(j) ==
  LET i == chan[j].ctl_chan
  IN CASE i = NoChan -> UNCHANGED <<chan, over>>
       [] i # NoChan /\ chan[i].kind # "ctl" ->
            over' = "no_control_channel" /\ UNCHANGED chan
       [] OTHER -> /\ chan' = [chan EXCEPT ![i].out =
                                 Append(@, Msg("EXIT_MESSAGE", chan[j].for))]
                   /\ UNCHANGED over

(* client_status_confirm for a pty-req that failed, mux_tty_alloc_failed *)
TtyFailed(j) ==
  LET i == chan[j].ctl_chan
  IN IF i = NoChan
     THEN over' = "tty_failed" /\ UNCHANGED chan
     ELSE /\ chan' = [chan EXCEPT ![i].out =
                        Append(@, Msg("TTY_ALLOC_FAIL", chan[j].for))]
          /\ UNCHANGED over

(* client_request_forwarded_tcpip, channel_connect_by_listen_address *)
Forwarded(m) ==
  /\ routed' = routed \cup
       {[want |-> m.nr, port |-> m.port,
         got |-> IF Matching(m.port) = {} THEN 0
                 ELSE opens[Min(Matching(m.port))].nr]}
  /\ UNCHANGED <<chan, over>>

ClientInput ==
  LET m == Head(toClient) IN
  /\ Running
  /\ toClient # <<>>
  /\ toClient' = Tail(toClient)
  /\ \/ /\ m.type = "REPLY"
        /\ GlobalRequestReply(m)
        /\ UNCHANGED <<toServer, routed>>
     \/ /\ m.type = "OPENED"
        /\ SessionConfirm(m.chan, m.ok)
        /\ UNCHANGED <<tables, routed, refusedAt>>
     \/ /\ m.type = "EXIT"
        /\ ExitStatus(m.chan)
        /\ UNCHANGED <<tables, toServer, routed, refusedAt>>
     \/ /\ m.type = "TTY_FAILURE"
        /\ TtyFailed(m.chan)
        /\ UNCHANGED <<tables, toServer, routed, refusedAt>>
     \/ /\ m.type = "CLOSE"
        /\ chan' = [chan EXCEPT ![m.chan].dead = TRUE]
        /\ UNCHANGED <<tables, toServer, over, routed, refusedAt>>
     \/ /\ m.type = "CONNECT"
        /\ Forwarded(m)
        /\ UNCHANGED <<tables, toServer, refusedAt>>
  /\ UNCHANGED <<slave, listener, server, events, nr, cancelled, early>>

(* server_alive_check: a placeholder keeps the order of the replies *)
PlaceholderMissing(q) == q
Placeholder(q) == Register(q, [cb |-> "none", cid |-> NoChan, fid |-> 0,
                               ref_count |-> 1, nr |-> 0, for |-> NoDest])
ServerAliveCheck ==
  /\ Running /\ Event
  /\ toServer' = Append(toServer, [type |-> "KEEPALIVE"])
  /\ confirms' = Placeholder(confirms)
  /\ UNCHANGED <<slave, chan, listener, forwards, opens, toClient, server, over,
                 nr, history>>

-----------------------------------------------------------------------------
(* The server *)
Send(m) == toClient' = Append(toClient, m)
Reply(ok, port, n) == Send([type |-> "REPLY", ok |-> ok, port |-> port, nr |-> n])

(* server_input_global_request "tcpip-forward",                            *)
(* channel_setup_fwd_listener_tcpip: bind fails when the port is in use    *)
ServerForward(m) ==
  LET free == (IF m.port = 0 THEN DynPorts ELSE {m.port})
                \ {l.port : l \in listening}
  IN \/ \E p \in free :
          /\ listening' = listening \cup {[port |-> p, nr |-> m.nr]}
          /\ Reply(TRUE, IF m.port = 0 THEN p ELSE 0, m.nr)
          /\ UNCHANGED events
     \/ /\ IF free = {} THEN UNCHANGED events ELSE Event
        /\ Reply(FALSE, 0, m.nr)
        /\ UNCHANGED listening

(* server_input_global_request, server_input_channel_open and the requests *)
(* of a session                                                            *)
ServerInput ==
  LET m == Head(toServer) IN
  /\ Running
  /\ toServer # <<>>
  /\ toServer' = Tail(toServer)
  /\ \/ m.type = "FORWARD" /\ ServerForward(m) /\ UNCHANGED progs
     \/ /\ m.type = "CANCEL"
        /\ listening' = {l \in listening : l.port # m.port}
        /\ UNCHANGED <<toClient, progs, events>>
     \/ /\ m.type = "KEEPALIVE"
        /\ Reply(FALSE, 0, 0)
        /\ UNCHANGED <<progs, listening, events>>
     \/ /\ m.type = "OPEN"
        /\ \E ok \in BOOLEAN : Send([type |-> "OPENED", chan |-> m.chan, ok |-> ok])
        /\ UNCHANGED <<progs, listening, events>>
     \/ /\ m.type = "SETUP"
        /\ progs' = progs \cup {m.chan}
        /\ \/ UNCHANGED toClient
           \/ m.tty /\ Send([type |-> "TTY_FAILURE", chan |-> m.chan])
        /\ UNCHANGED <<listening, events>>
  /\ UNCHANGED <<slave, chan, listener, tables, over, nr, history>>

ProgramEnds(j) ==
  /\ Running /\ j \in progs
  /\ progs' = progs \ {j}
  /\ toClient' = toClient \o <<[type |-> "EXIT", chan |-> j],
                               [type |-> "CLOSE", chan |-> j]>>
  /\ UNCHANGED <<slave, chan, listener, tables, toServer, listening, over,
                 events, nr, history>>

(* channel_post_port_listener in the server *)
Arrive ==
  /\ Running /\ Event
  /\ \E l \in listening : Send([type |-> "CONNECT", port |-> l.port, nr |-> l.nr])
  /\ UNCHANGED <<slave, chan, listener, tables, toServer, server, over, nr, history>>

(* The exit of the master closes every control socket. *)
Exit ==
  /\ ~Running
  /\ \E s \in Slaves : slave[s].ctl # NoChan
  /\ slave' = [s \in Slaves |-> [slave[s] EXCEPT !.ctl = NoChan]]
  /\ UNCHANGED <<chan, listener, tables, net, server, over, events, nr, history>>

-----------------------------------------------------------------------------
(* ssh_init_forwarding has sent the requests of the -R options. *)
Init ==
  /\ slave = [s \in Slaves |-> [pc |-> "idle", cmd |-> <<>>, todo |-> <<>>,
       ctl |-> NoChan, in |-> <<>>, out |-> <<>>, failed |-> FALSE,
       exit |-> FALSE, killed |-> FALSE]]
  /\ chan = [i \in Ids |-> Free]
  /\ listener = TRUE
  /\ forwards = [k \in DOMAIN InitFwds |->
       [port |-> InitFwds[k].port, dest |-> InitFwds[k].dest, alloc |-> 0,
        handle |-> k, nr |-> k]]
  /\ opens = [k \in DOMAIN InitFwds |->
       [port |-> InitFwds[k].port, dest |-> InitFwds[k].dest, nr |-> k]]
  /\ confirms = [k \in DOMAIN InitFwds |->
       [cb |-> "init", cid |-> NoChan, fid |-> k, ref_count |-> 1, nr |-> k,
        for |-> NoDest]]
  /\ toServer = [k \in DOMAIN InitFwds |->
       [type |-> "FORWARD", port |-> InitFwds[k].port, nr |-> k]]
  /\ toClient = <<>>
  /\ progs = {} /\ listening = {}
  /\ over = "no"
  /\ events = 0
  /\ nr = Len(InitFwds)
  /\ routed = {} /\ refusedAt = {} /\ cancelled = {} /\ early = {}

SlaveStep(s) == Connect(s) \/ SlaveReads(s) \/ SlaveEof(s) \/ Kill(s)
ControlStep(i) == ReadRequest(i) \/ ReadEof(i) \/ WriteOut(i) \/ Drained(i)
                  \/ FreeSession(i)

Next == \/ \E s \in Slaves : SlaveStep(s)
        \/ \E i \in Ids : ControlStep(i) \/ ProgramEnds(i)
        \/ ClientInput \/ ServerAliveCheck \/ ServerInput \/ Arrive \/ Exit

Spec == Init /\ [][Next]_vars

-----------------------------------------------------------------------------
(* Shape of the state; the two ends of a link name each other. *)
TypeOK ==
  /\ \A s \in Slaves : /\ slave[s].pc \in {"idle", "hello", "asked", "attached",
                                           "fallback", "gone"}
                       /\ slave[s].ctl \in Ids \cup {NoChan}
  /\ \A i \in Ids : chan[i].kind = "session" /\ chan[i].ctl_chan # NoChan =>
       /\ chan[chan[i].ctl_chan].kind = "ctl"
       /\ chan[chan[i].ctl_chan].remote_id = i
  /\ Len(forwards) <= Len(opens) /\ nr = Len(opens)
  /\ \A k \in DOMAIN confirms : confirms[k].ref_count > 0
  /\ \A l, m \in listening : l.port = m.port => l = m

(* However slaves are killed and channel numbers used again, no callback   *)
(* of the master meets its fatal(): control channels are not freed while   *)
(* they are paused for an answer.  Three ways are left: the answer to a    *)
(* pty-req fails after its slave has gone (mux_tty_alloc_failed); a slave  *)
(* cancelled one of the master's own -R options before its reply, whose    *)
(* port ssh_confirm_remote_forward then looks for in vain; and the table   *)
(* this callback points into was moved.                                    *)
MasterSurvives ==
  \/ over \in {"no", "quit", "tty_failed", "dangling"}
  \/ over = "port_unread" /\ cancelled \cap DOMAIN InitFwds # {}

(* Whatever a control channel writes is for the slave that is connected to *)
(* it: answers that come later than a kill do not reach another slave that *)
(* got the channel number (fctx->cid, c->ctl_chan).                        *)
AnswerReachesAsker ==
  /\ \A i \in Ids : chan[i].kind = "ctl" =>
       \A k \in DOMAIN chan[i].out : chan[i].out[k].for = chan[i].slave
  /\ \A s \in Slaves : \A k \in DOMAIN slave[s].in : slave[s].in[k].for = s

(* The requests that still wait for a reply, oldest first, are those of    *)
(* the queue of callbacks: keepalives that are counted in one entry and    *)
(* cancellations without reply do not shift the answers.                   *)
WantsReply(m) == m.type \in {"REPLY", "FORWARD", "KEEPALIVE"}
Number(m) == IF m.type = "KEEPALIVE" THEN 0 ELSE m.nr
Expand(gc) == [k \in 1..gc.ref_count |-> gc.nr]
RepliesPaired ==
  LET waiting == SelectSeq(toClient \o toServer, WantsReply)
  IN [k \in DOMAIN waiting |-> Number(waiting[k])]
       = FlattenSeq([k \in DOMAIN confirms |-> Expand(confirms[k])])

(* A connection to a listener of the server is connected to the            *)
(* destination of the request that made the listener, unless that          *)
(* forwarding was cancelled or an earlier request for the same port was    *)
(* refused, whose entry stays in permitted_opens.                          *)
RightDestination ==
  \A x \in routed : \/ x.got = x.want
                    \/ x.want \in cancelled
                    \/ x.port \in refusedAt

(* When nothing is under way, a forwarding that was cancelled has no       *)
(* listener left in the server, unless its port was not known yet.         *)
Quiet == toServer = <<>> /\ toClient = <<>> /\ confirms = <<>>
CancelledIsClosed ==
  Quiet => \A l \in listening : l.nr \in cancelled => l.nr \in early

(* A slave that has asked is never forgotten: its answer is in its socket, *)
(* in the output of its control channel or still to come from the server,  *)
(* or it will see the end of the socket.  A confirmation that returns      *)
(* early, or a queue of callbacks that lost an entry, would leave the      *)
(* slave waiting and its control channel paused for ever.                  *)
AnswerUnderWay(i) ==
  LET j == chan[i].remote_id
  IN \/ \E k \in DOMAIN confirms : confirms[k].cb = "mux" /\ confirms[k].cid = i
     \/ /\ j # NoChan
        /\ \E m \in Range(toServer \o toClient) :
             m.type \in {"OPEN", "OPENED"} /\ m.chan = j
NobodyForgotten ==
  \A s \in Slaves :
    LET t == slave[s]
        c == chan[t.ctl]
    IN Running /\ t.pc \in {"hello", "asked"} /\ t.in = <<>> /\ t.ctl # NoChan =>
         \/ c.out # <<>> \/ c.drain
         \/ t.out # <<>> /\ ~c.mux_pause
         \/ c.mux_pause /\ AnswerUnderWay(t.ctl)
=============================================================================
