------------------------------ MODULE Startups ------------------------------
(***************************************************************************)
(* The listening daemon (server_accept_loop() in sshd.c): it accepts       *)
(* connections, forks a process for each and limits how many of them are   *)
(* not authenticated yet (MaxStartups).                                    *)
(*                                                                         *)
(* The daemon keeps the read end of a pipe for every unauthenticated       *)
(* connection.  The write end is inherited by the connection's process and *)
(* by the network child that this forks (privilege separation); the pipe   *)
(* becomes readable when the last of them has closed it, on authentication *)
(* or by ending.  SIGHUP makes the daemon execute itself again.  Signals   *)
(* only set a flag, which the loop tests at places of its own choosing.    *)
(***************************************************************************)
EXTENDS Integers, FiniteSets

CONSTANTS
  Conns,        \* the connections clients may make
  NoConn,       \* an unused element of startup_pipes, -1 in the code
  Socks,        \* indices of the listening sockets
  MaxStartups,  \* options.max_startups
  Begin,        \* options.max_startups_begin
  Rate,         \* options.max_startups_rate
  MaxSignals    \* bound: signals sent to the daemon

ASSUME StartupsAssumption ==
  /\ IsFiniteSet(Conns) /\ NoConn \notin Conns
  /\ Socks \subseteq Nat
  /\ MaxStartups \in Nat /\ Begin \in 0..MaxStartups /\ Rate \in 1..100
  /\ MaxSignals \in Nat

VARIABLES
  pc,        \* where the loop is: "top", "prepare", "select", "accept", "exited"
  pipes,     \* pipes[j]: the connection behind startup_pipes[j], or NoConn
  startups,  \* the number of pipes in use
  queue,     \* queue[s]: connections waiting to be accepted
  todo,      \* sockets that select() reported and were not looked at yet
  conn,      \* conn[c]: how far a connection is
  holders,   \* holders[c]: processes with the write end of its pipe
  ours,      \* history: connections accepted since the daemon was executed
  sighup,    \* received_sighup: "none" or "received"
  sigterm,   \* received_sigterm
  intr,      \* "yes" when a signal arrived during select()
  signals    \* number of signals sent so far

daemonVars == <<pc, pipes, startups, queue, todo, conn, holders, ours, sighup, sigterm, intr, signals>>
loopVars == <<pc, pipes, startups, todo, ours>>
sigVars == <<sighup, sigterm, intr, signals>>

Slots == 1..MaxStartups
Used(p) == {j \in Slots : p[j] # NoConn}

DaemonInit ==
  /\ pc = "top"
  /\ pipes = [j \in Slots |-> NoConn] /\ startups = 0
  /\ queue = [s \in Socks |-> {}] /\ todo = {}
  /\ conn = [c \in Conns |-> "idle"] /\ holders = [c \in Conns |-> {}]
  /\ ours = {}
  /\ sighup = "none" /\ sigterm = "none" /\ intr = "no" /\ signals = 0

-----------------------------------------------------------------------------
(* Clients and signals.                                                    *)

\* A client connects to socket s: the kernel queues the connection.
Arrive(c, s) ==
  /\ pc # "exited" /\ conn[c] = "idle"
  /\ queue' = [queue EXCEPT ![s] = @ \cup {c}]
  /\ conn' = [conn EXCEPT ![c] = "queued"]
  /\ UNCHANGED <<loopVars, holders, sigVars>>

\* sighup_handler()
Sighup ==
  /\ pc # "exited" /\ signals < MaxSignals
  /\ sighup' = "received"
  /\ intr' = IF pc = "select" THEN "yes" ELSE intr
  /\ signals' = signals + 1
  /\ UNCHANGED <<loopVars, queue, conn, holders, sigterm>>

\* sigterm_handler()
Sigterm ==
  /\ pc # "exited" /\ signals < MaxSignals
  /\ sigterm' = "received"
  /\ intr' = IF pc = "select" THEN "yes" ELSE intr
  /\ signals' = signals + 1
  /\ UNCHANGED <<loopVars, queue, conn, holders, sighup>>

-----------------------------------------------------------------------------
(* The loop.                                                               *)

\* close_listen_socks(): the connections in the queues are reset.
CloseListenSocks ==
  /\ queue' = [s \in Socks |-> {}]
  /\ conn' = [c \in Conns |-> IF conn[c] = "queued" THEN "gone" ELSE conn[c]]

\* The top of the loop: sighup_restart(), or on to select().  The new daemon
\* knows nothing of the connections of the old one; ok: does execv() succeed?
Top(ok) ==
  /\ pc = "top"
  /\ IF sighup = "received"
     THEN /\ pc' = IF ok THEN "top" ELSE "exited"
          /\ pipes' = [j \in Slots |-> NoConn] /\ startups' = 0 /\ ours' = {}
          /\ CloseListenSocks
          /\ sighup' = "none"
          /\ sigterm' = IF ok THEN "none" ELSE sigterm
     ELSE /\ pc' = "prepare"
          /\ UNCHANGED <<pipes, startups, queue, conn, ours, sighup, sigterm>>
  /\ UNCHANGED <<todo, holders, intr, signals>>

\* The sets of descriptors are ready, and select() is called.
EnterSelect ==
  /\ pc = "prepare"
  /\ pc' = "select"
  /\ UNCHANGED <<pipes, startups, queue, todo, conn, holders, ours, sigVars>>

\* Mutant: the pipe is looked at only in the connection's process.
ReadyNever == {}

\* The pipes that select() finds readable: nobody has the write end any more.
Ready == {j \in Slots : pipes[j] # NoConn /\ holders[pipes[j]] = {}}
Waiting == {s \in Socks : queue[s] # {}}

\* Mutant: the counter is decreased once for all.
ReapCountsOnce(R) ==
  /\ pipes' = [j \in Slots |-> IF j \in R THEN NoConn ELSE pipes[j]]
  /\ startups' = IF R = {} THEN startups ELSE startups - 1

\* The loop over startup_pipes after select(): R are the readable ones.
Reap(R) ==
  /\ pipes' = [j \in Slots |-> IF j \in R THEN NoConn ELSE pipes[j]]
  /\ startups' = startups - Cardinality(R)

\* select() returns something.
SelectReturns ==
  /\ pc = "select" /\ sigterm = "none"
  /\ Ready # {} \/ Waiting # {}
  /\ Reap(Ready)
  /\ todo' = Waiting
  /\ pc' = IF Waiting = {} THEN "top" ELSE "accept"
  /\ intr' = "no"
  /\ UNCHANGED <<queue, conn, holders, ours, sighup, sigterm, signals>>

\* select() is interrupted, and the loop starts again.
SelectInterrupted ==
  /\ pc = "select" /\ sigterm = "none" /\ intr = "yes"
  /\ pc' = "top" /\ intr' = "no"
  /\ UNCHANGED <<pipes, startups, queue, todo, conn, holders, ours, sighup, sigterm, signals>>

\* select() returns for whatever reason and SIGTERM was received.
Terminate ==
  /\ pc = "select" /\ sigterm = "received"
  /\ intr = "yes" \/ Ready # {} \/ Waiting # {}
  /\ pc' = "exited"
  /\ CloseListenSocks
  /\ UNCHANGED <<pipes, startups, todo, holders, ours, sigVars>>

\* Mutant: the limit is tested too late by one.
DropConnectionLate(n) == IF n < Begin THEN {FALSE} ELSE IF n > MaxStartups THEN {TRUE} ELSE BOOLEAN

\* drop_connection(): the possible results, over what arc4random_uniform() gives.
DropConnection(n) ==
  IF n < Begin THEN {FALSE}
  ELSE IF n >= MaxStartups \/ Rate = 100 THEN {TRUE}
  ELSE LET p == ((100 - Rate) * (n - Begin)) \div (MaxStartups - Begin) + Rate
       IN  {r < p : r \in 0..99}

FirstFree == CHOOSE j \in Slots : pipes[j] = NoConn /\ \A k \in Slots : pipes[k] = NoConn => j <= k

\* accept() on the next of the sockets that select() reported.
Accepts(s, c) == pc = "accept" /\ s \in todo /\ (\A x \in todo : s <= x) /\ c \in queue[s]

\* The loop over the sockets goes on.
NextSocket(s) ==
  /\ todo' = todo \ {s}
  /\ pc' = IF todo = {s} THEN "top" ELSE "accept"

\* accept() takes the connection out of the queue.
Accepted(s, c, state) ==
  /\ queue' = [queue EXCEPT ![s] = @ \ {c}]
  /\ conn' = [conn EXCEPT ![c] = state]
  /\ NextSocket(s)

\* accept() fails for want of a descriptor: the connection stays in the queue.
AcceptFails(s, c) ==
  /\ Accepts(s, c)
  /\ NextSocket(s)
  /\ UNCHANGED <<pipes, startups, queue, conn, holders, ours, sigVars>>

\* The connection was aborted, unset_nonblock(), pipe() or socketpair() fails,
\* or drop_connection() says so.
Refuse(s, c, why) ==
  /\ Accepts(s, c)
  /\ why = "dropped" => TRUE \in DropConnection(startups)
  /\ Accepted(s, c, "gone")
  /\ UNCHANGED <<pipes, startups, holders, ours, sigVars>>

\* The connection gets a slot and a process; fork() may fail, and then nobody
\* but the daemon has had the write end of the pipe.
Fork(s, c, ok) ==
  /\ Accepts(s, c)
  /\ FALSE \in DropConnection(startups)
  /\ IF Used(pipes) = Slots
     THEN UNCHANGED <<pipes, startups>>
     ELSE pipes' = [pipes EXCEPT ![FirstFree] = c] /\ startups' = startups + 1
  /\ Accepted(s, c, IF ok THEN "preauth" ELSE "gone")
  /\ holders' = [holders EXCEPT ![c] = IF ok THEN {"monitor"} ELSE {}]
  /\ ours' = ours \cup {c}
  /\ UNCHANGED sigVars

-----------------------------------------------------------------------------
(* The connection's processes.                                             *)

\* privsep_preauth(): the network child inherits the write end.
PrivsepPreauth(c) ==
  /\ conn[c] = "preauth"
  /\ conn' = [conn EXCEPT ![c] = "privsep"]
  /\ holders' = [holders EXCEPT ![c] = @ \cup {"net"}]
  /\ UNCHANGED <<loopVars, queue, sigVars>>

\* main() of the connection's process after authentication: the network child
\* has ended, the pipe is closed.
Authenticated(c) ==
  /\ conn[c] = "privsep" /\ holders[c] = {"monitor", "net"}
  /\ conn' = [conn EXCEPT ![c] = "authenticated"]
  /\ holders' = [holders EXCEPT ![c] = {}]
  /\ UNCHANGED <<loopVars, queue, sigVars>>

\* main_sigchld_handler() does nothing but interrupt select(); the network
\* child is not the daemon's.
Sigchld(p) ==
  /\ intr' = IF pc = "select" /\ p = "monitor" THEN "yes" ELSE intr
  /\ UNCHANGED <<sighup, sigterm, signals>>

\* One of the connection's processes ends: grace_alarm_handler(), fatal(), the
\* client goes away, the other process is gone.
Dies(c, p) ==
  /\ conn[c] \in {"preauth", "privsep"} /\ p \in holders[c]
  /\ holders' = [holders EXCEPT ![c] = @ \ {p}]
  /\ conn' = [conn EXCEPT ![c] = IF holders[c] = {p} THEN "gone" ELSE "privsep"]
  /\ Sigchld(p)
  /\ UNCHANGED <<loopVars, queue>>

\* An authenticated connection ends.
Disconnects(c) ==
  /\ conn[c] = "authenticated"
  /\ conn' = [conn EXCEPT ![c] = "gone"]
  /\ Sigchld("monitor")
  /\ UNCHANGED <<loopVars, queue, holders>>

Loop ==
  \/ \E ok \in BOOLEAN : Top(ok)
  \/ EnterSelect \/ SelectReturns \/ SelectInterrupted \/ Terminate
  \/ \E s \in Socks, c \in Conns : \/ AcceptFails(s, c)
                                   \/ \E why \in {"failed", "dropped"} : Refuse(s, c, why)
                                   \/ \E ok \in BOOLEAN : Fork(s, c, ok)

DaemonNext ==
  \/ Loop \/ Sighup \/ Sigterm
  \/ \E c \in Conns : \/ \E s \in Socks : Arrive(c, s)
                      \/ PrivsepPreauth(c) \/ Authenticated(c) \/ Disconnects(c)
                      \/ \E p \in {"monitor", "net"} : Dies(c, p)

DaemonSpec == DaemonInit /\ [][DaemonNext]_daemonVars

\* The loop runs, and LoginGraceTime ends every attempt to authenticate.
DaemonFairness ==
  /\ WF_daemonVars(Loop)
  /\ \A c \in Conns : WF_daemonVars(Authenticated(c) \/ \E p \in {"monitor", "net"} : Dies(c, p))

DaemonFairSpec == DaemonSpec /\ DaemonFairness

-----------------------------------------------------------------------------
\* The type invariant; only unauthenticated connections hold a pipe.
DaemonTypeOK ==
  /\ pc \in {"top", "prepare", "select", "accept", "exited"}
  /\ pipes \in [Slots -> Conns \cup {NoConn}]
  /\ startups \in 0..MaxStartups
  /\ queue \in [Socks -> SUBSET Conns] /\ todo \subseteq Socks
  /\ conn \in [Conns -> {"idle", "queued", "preauth", "privsep", "authenticated", "gone"}]
  /\ holders \in [Conns -> SUBSET {"monitor", "net"}]
  /\ \A c \in Conns : holders[c] # {} <=> conn[c] \in {"preauth", "privsep"}
  /\ ours \subseteq Conns
  /\ sighup \in {"none", "received"} /\ sigterm \in {"none", "received"} /\ intr \in {"yes", "no"}
  /\ signals \in 0..MaxSignals

Unauthenticated == {c \in Conns : conn[c] \in {"preauth", "privsep"}}

\* The counter and the table of server_accept_loop() agree in every state of
\* the loop, whatever children end between select() and accept(): a connection
\* that is not dropped always finds a slot.
CountExact == startups = Cardinality(Used(pipes))

\* Since the daemon was executed, at most MaxStartups connections that it
\* accepted are unauthenticated at the same time, and each holds a slot.  A
\* restart forgets the connections from before, which still count for
\* sshd_config(5).
PreauthBounded ==
  /\ Cardinality(Unauthenticated \cap ours) <= MaxStartups
  /\ \A c \in Unauthenticated \cap ours : \E j \in Slots : pipes[j] = c

\* Slots come back: the daemon is never closed to new connections for good.
SlotsComeBack == []<>(startups < MaxStartups \/ pc = "exited")

=============================================================================
