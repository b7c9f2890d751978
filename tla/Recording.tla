----------------------------- MODULE Recording -----------------------------
(***************************************************************************)
(* The playback recording of the sessions of one connection to the bastion *)
(* (serverloop.c, session.c, channels.c).                                  *)
(*                                                                         *)
(* A session channel opens its recording when the client opens it, before  *)
(* it is known whether a shell, a command or sftp is going to run there.   *)
(* Three globals of the connection's process decide what becomes of it:    *)
(* sshtype, the type of the last channel request of ANY channel, decides   *)
(* whether output is recorded; playback_logfile, the name of the recording *)
(* opened LAST, is what is removed; and the mount point of sftp sessions,  *)
(* named after the process, is taken by session_unused() for the sign of   *)
(* an sftp session.  A child has the values they had when it was forked.   *)
(*                                                                         *)
(* A recording and its timing file are opened, written and removed         *)
(* together: they are one file here, there when both are, with the chunks  *)
(* of output that were written to both.                                    *)
(* The close handshake of a channel is the subject of module Channels.     *)
(***************************************************************************)
EXTENDS Integers, Sequences, FiniteSets

CONSTANTS
  Kinds,         \* what the sessions run: "shell", "exec" or "subsystem" (sftp)
  Extra,         \* the other channel requests a client sends
  MaxSessions,   \* options.max_sessions
  MaxOpens,      \* bound: session channels opened
  MaxSeconds,    \* bound: the last second in which a session is opened
  MaxChunks,     \* bound: chunks of output of a session
  MaxFaults      \* bound: sessions for whose recording a call fails

AllExtra == {"env", "pty-req", "window-change", "break", "eow@openssh.com"}

ASSUME RecordingAssumption ==
  /\ Kinds \subseteq {"shell", "exec", "subsystem"} /\ Extra \subseteq AllExtra
  /\ MaxSessions \in Nat \ {0}
  /\ {MaxOpens, MaxSeconds, MaxChunks, MaxFaults} \subseteq Nat

VARIABLES
  sshtype,   \* type of the last channel request
  playback,  \* playback_logfile: the name (second) of the last recording, or -1
  nalloc,    \* sessions_nalloc: session slots ever allocated
  chan,      \* chan[g]: the g-th session channel
  dir,       \* dir[t]: the recording with the name t, an index of file or 0
  file,      \* file[n]: the chunks in it, each with its session
  mount,     \* the sftp mount point of the process
  calm,      \* history: "yes" while nothing has been in the way of a recording
  over       \* has the connection ended?

vars == <<sshtype, playback, nalloc, chan, dir, file, mount, calm, over>>

Opens == 1..MaxOpens
Seconds == 0..MaxSeconds
Shellish == {"shell", "window-change", "winadj@putty.projects.tartarus.org"}

\* pc: "none" before the channel is opened, then "larval", "starting" (child
\* forked), "running" ("stranded" once the mount an sftp session is served from
\* is gone), "exited", "closed".  fd: the file behind c->logfd, 0 for -1.
\* cname, ctype: the child's copies of playback_logfile and sshtype.  wrote and
\* failed are history: the chunks of the session's output, and whether a call for
\* its recording failed.
NoChannel == [pc |-> "none", kind |-> "none", fd |-> 0, cname |-> -1, ctype |-> "none",
              wrote |-> 0, failed |-> FALSE]

Init ==
  /\ sshtype = "none" /\ playback = -1 /\ nalloc = 0
  /\ chan = [g \in Opens |-> NoChannel]
  /\ dir = [t \in Seconds |-> 0] /\ file = <<>>
  /\ mount = "none" /\ calm = "yes" /\ over = FALSE

InUse == {g \in Opens : chan[g].pc \notin {"none", "closed"}}
Opened == {g \in Opens : chan[g].pc # "none"}

\* open() or write() of the recording of session g may fail, within the bound.
MayFail(g) == Cardinality({h \in Opens : chan[h].failed} \cup {g}) <= MaxFaults

\* remove(playback_logfile), in a process whose playback_logfile is t.
Remove(d, t) == IF t = -1 THEN d ELSE [d EXCEPT ![t] = 0]

\* session_unused(), where the mount point is there: the mount is detached and
\* the last recording removed.
Unused(d, t) == IF mount = "none" THEN d ELSE Remove(d, t)
Detached == IF mount = "mounted" THEN "detached" ELSE mount

-----------------------------------------------------------------------------

\* server_request_session(): the name of the recording, to the second.
RecordingName(now) == now

\* server_request_session(): the recording is opened (O_APPEND: a file of the
\* same second is continued), then session_new() looks for a slot, and a slot
\* that was never used goes through session_unused().  Without a slot the channel
\* is freed again, but the recording and playback_logfile stay.  When it cannot be
\* opened the session goes on without.  now: what time() returns; ok: does open()
\* succeed?
RequestSession(g, now, ok) ==
  LET t     == RecordingName(now)
      new   == ok /\ dir[t] = 0
      d     == IF new THEN [dir EXCEPT ![t] = Len(file) + 1] ELSE dir
      slot  == Cardinality(InUse) < MaxSessions
      fresh == slot /\ Cardinality(InUse) = nalloc
      fd    == IF ok THEN d[t] ELSE 0
  IN  /\ ~over /\ chan[g].pc = "none" /\ Opened = 1..(g - 1) /\ playback <= now
      /\ ok \/ MayFail(g)
      /\ calm' = IF InUse = {} /\ playback # now /\ mount = "none" THEN calm ELSE "no"
      /\ playback' = t
      /\ file' = IF new THEN Append(file, <<>>) ELSE file
      /\ dir' = IF fresh THEN Unused(d, t) ELSE d
      /\ mount' = IF fresh THEN Detached ELSE mount
      /\ nalloc' = IF fresh THEN nalloc + 1 ELSE nalloc
      /\ chan' = [chan EXCEPT ![g] =
                    IF slot THEN [NoChannel EXCEPT !.pc = "larval", !.fd = fd, !.failed = ~ok]
                            ELSE [NoChannel EXCEPT !.pc = "closed"]]
      /\ UNCHANGED <<sshtype, over>>

\* server_input_channel_req() with session_shell_req(), session_exec_req() or
\* session_subsystem_req(): do_exec() forks the child.
StartRequest(g, k) ==
  /\ ~over /\ chan[g].pc = "larval"
  /\ sshtype' = k
  /\ chan' = [chan EXCEPT ![g].pc = "starting", ![g].kind = k, ![g].cname = playback,
                          ![g].ctype = k]
  /\ UNCHANGED <<playback, nalloc, dir, file, mount, calm, over>>

\* server_input_channel_req() for any other request, on any channel: only the
\* copy of its type matters here.
OtherRequest(g, k) ==
  /\ ~over /\ g \in InUse
  /\ k \in {"env", "pty-req"} => chan[g].pc = "larval"
  /\ k \in {"window-change", "break", "eow@openssh.com"} => chan[g].pc \notin {"none", "larval"}
  /\ sshtype' = k
  /\ calm' = IF chan[g].pc = "larval" \/ k \in Shellish THEN calm ELSE "no"
  /\ UNCHANGED <<playback, nalloc, chan, dir, file, mount, over>>

-----------------------------------------------------------------------------
(* The child: do_child() on the bastion.                                   *)

\* The child ends, and its copies of the globals with it.
ChildGone(c) == [c EXCEPT !.pc = "exited", !.cname = -1, !.ctype = "none"]

\* A shell or a command is run on the destination by the ssh client
\* (runprogram()); the child gives up first when it cannot be reached.
ChildRuns(g, reached) ==
  /\ chan[g].pc = "starting" /\ chan[g].kind # "subsystem"
  /\ chan' = [chan EXCEPT ![g] = IF reached = "yes" THEN [@ EXCEPT !.pc = "running"]
                                 ELSE ChildGone(@)]
  /\ UNCHANGED <<sshtype, playback, nalloc, dir, file, mount, calm, over>>

\* Mutant: a mount point that exists is used.
MountPointFreeAlways == TRUE

\* do_child(): mkdir() of the mount point succeeds.
MountPointFree == mount = "none"

\* sftp: the destination is mounted and served from there.  mkdir() fails when
\* the process has its mount point already; ok: does sshfs succeed in mounting?
ChildMounts(g, ok) ==
  /\ chan[g].pc = "starting" /\ chan[g].kind = "subsystem"
  /\ IF ~MountPointFree
     THEN /\ chan' = [chan EXCEPT ![g] = ChildGone(@)]
          /\ UNCHANGED <<dir, mount>>
     ELSE /\ chan' = [chan EXCEPT ![g].pc = "running"]
          /\ dir' = Remove(dir, chan[g].cname)
          /\ mount' = IF ok THEN "mounted" ELSE "empty"
  /\ UNCHANGED <<sshtype, playback, nalloc, file, calm, over>>

\* do_child(), after runprogram(): the recording is removed unless the request
\* was for a shell.
KeepsRecording(c) == c.kind = "subsystem" \/ c.ctype \in Shellish

\* The program ends, and with it the child.
ChildExits(g) ==
  /\ chan[g].pc \in {"running", "stranded"}
  /\ chan' = [chan EXCEPT ![g] = ChildGone(@)]
  /\ dir' = IF KeepsRecording(chan[g]) THEN dir ELSE Remove(dir, chan[g].cname)
  /\ UNCHANGED <<sshtype, playback, nalloc, file, mount, calm, over>>

-----------------------------------------------------------------------------
(* The connection's process.                                               *)

\* Mutant: a change of the window size is not known to belong to a shell.
RecordsShellOnly(c) == c.fd # 0 /\ sshtype = "shell"

\* channel_handle_rfd(): is the output of channel c recorded?
Records(c) == c.fd # 0 /\ sshtype \in Shellish

\* channel_handle_rfd(): a chunk of the session's output is read, and recorded.
\* ok: does write() succeed?  The code does not look.
HandleRfd(g, ok) ==
  /\ ~over /\ chan[g].pc \in {"running", "stranded"} /\ chan[g].wrote < MaxChunks
  /\ ok \/ (Records(chan[g]) /\ MayFail(g))
  /\ chan' = [chan EXCEPT ![g].wrote = @ + 1, ![g].failed = @ \/ ~ok]
  /\ file' = IF ok /\ Records(chan[g])
             THEN [file EXCEPT ![chan[g].fd] = Append(@, [by |-> g, nr |-> chan[g].wrote + 1])]
             ELSE file
  /\ UNCHANGED <<sshtype, playback, nalloc, dir, mount, calm, over>>

\* channel_free()
FreeChannel(c) == [c EXCEPT !.pc = "closed", !.fd = 0]

\* session_close_by_channel() when the child is gone or was never started, and
\* channel_free(): session_close() ends in session_unused().
CloseSession(g) ==
  /\ ~over /\ chan[g].pc \in {"larval", "exited"}
  /\ chan' = [chan EXCEPT ![g] = FreeChannel(@)]
  /\ dir' = Unused(dir, playback)
  /\ mount' = Detached
  /\ UNCHANGED <<sshtype, playback, nalloc, file, calm, over>>

\* The client goes away: server_loop2() ends with channel_free_all() and
\* session_destroy_all(), which closes every session.
ConnectionClosed ==
  /\ ~over
  /\ over' = TRUE
  /\ dir' = IF InUse = {} THEN dir ELSE Unused(dir, playback)
  /\ mount' = IF InUse = {} THEN mount ELSE Detached
  /\ chan' = [g \in Opens |-> [chan[g] EXCEPT !.fd = 0, !.pc = IF @ = "larval" THEN "closed" ELSE @]]
  /\ UNCHANGED <<sshtype, playback, nalloc, file, calm>>

\* DISCONNECT is received or a read fails: cleanup_exit().  What the handlers do
\* first is for a mount point under /mnt, where none is ever made.
ConnectionAborted ==
  /\ ~over
  /\ over' = TRUE
  /\ chan' = [g \in Opens |-> [chan[g] EXCEPT !.fd = 0, !.pc = IF @ = "larval" THEN "closed" ELSE @]]
  /\ UNCHANGED <<sshtype, playback, nalloc, dir, file, mount, calm>>

\* The mount point is gone for the sftp session that is served from it: its
\* process goes on, but every access fails.
Strand(c) == IF c.pc = "running" /\ c.kind = "subsystem" THEN [c EXCEPT !.pc = "stranded"] ELSE c

\* sshfs leaves fuse_loop(), because its mount was detached and nobody is in it
\* any more or because its connection to the destination dropped (it then sends
\* itself SIGTERM): it unmounts what is left and removes the mount point.
SshfsEnds ==
  /\ mount \in {"mounted", "detached"}
  /\ mount' = "none"
  /\ chan' = [g \in Opens |-> Strand(chan[g])]
  /\ UNCHANGED <<sshtype, playback, nalloc, dir, file, calm, over>>

Next ==
  \/ ConnectionClosed \/ ConnectionAborted \/ SshfsEnds
  \/ \E g \in Opens : \/ CloseSession(g) \/ ChildExits(g)
                      \/ \E ok \in BOOLEAN : HandleRfd(g, ok)
                      \/ \E now \in Seconds, ok \in BOOLEAN : RequestSession(g, now, ok)
                      \/ \E reached \in {"yes", "no"} : ChildRuns(g, reached)
                      \/ \E k \in Kinds : StartRequest(g, k)
                      \/ \E k \in Extra : OtherRequest(g, k)
                      \/ \E ok \in BOOLEAN : ChildMounts(g, ok)

Spec == Init /\ [][Next]_vars

-----------------------------------------------------------------------------
\* The type invariant; a recording is open only while its channel is in use.
TypeOK ==
  /\ playback \in Seconds \cup {-1} /\ nalloc \in 0..MaxSessions
  /\ sshtype \in {"none"} \cup Kinds \cup Extra
  /\ \A g \in Opens : LET c == chan[g] IN
       /\ c.pc \in {"none", "larval", "starting", "running", "stranded", "exited", "closed"}
       /\ c.fd \in 0..Len(file) /\ c.wrote \in 0..MaxChunks
       /\ c.fd # 0 => ~over /\ g \in InUse
  /\ \A t \in Seconds : dir[t] \in 0..Len(file)
  /\ mount \in {"none", "mounted", "empty", "detached"} /\ calm \in {"yes", "no"}
  /\ Cardinality(InUse) <= nalloc

\* The recording s holds the n chunks of session g, each once and in order.
Holds(s, g, n) ==
  /\ \A k \in DOMAIN s : s[k].by = g => s[k].nr \in 1..n
  /\ \A nr \in 1..n : \E k \in DOMAIN s : s[k].by = g /\ s[k].nr = nr
  /\ \A j, k \in DOMAIN s : j < k /\ s[j].by = g /\ s[k].by = g => s[j].nr < s[k].nr

\* The output of session g is, in order, in one recording that is there.
Recorded(g) == \E t \in Seconds : dir[t] # 0 /\ Holds(file[dir[t]], g, chan[g].wrote)

\* "Terminal recording playback: Support terminal recording ssh operation
\* process": everything a shell has shown is, in order, in one recording that
\* is there to be replayed.
RecordedInFull ==
  \A g \in Opens : chan[g].kind = "shell" /\ chan[g].wrote > 0 => Recorded(g)

\* A session that begins when no other is open, in a second of its own and with
\* no mount point left behind, finds the globals as if it were the only session
\* of the connection.  While all sessions do, and none is sent a request but for
\* its window size once it runs, whatever a shell shows is recorded, with other
\* sessions before and after it and through every way a connection can end.  A
\* recording that cannot be opened or written is lost to its own session only.
RecordedWhenAlone ==
  calm = "yes" =>
    \A g \in Opens : chan[g].kind = "shell" /\ chan[g].wrote > 0 /\ ~chan[g].failed => Recorded(g)

\* The mount point serves one sftp session at a time, and as long as its sshfs
\* lives, although session_unused() detaches it for any session that ends:
\* mkdir() in do_child() is the lock, and only a session whose sshfs ended under
\* it (stranded) can be there beside the one that took the lock after it.
SftpExclusive ==
  LET serving == {g \in Opens : chan[g].pc = "running" /\ chan[g].kind = "subsystem"}
  IN  /\ Cardinality(serving) <= 1 /\ (serving # {} => mount # "none")
      /\ \A g \in Opens : chan[g].pc = "stranded" => chan[g].kind = "subsystem"

=============================================================================
