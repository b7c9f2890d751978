# A TLA+ model of sshfortress

sshfortress (`src/openssh-7.3p1`) is an SSH bastion: OpenSSH 7.3p1 changed so that
the server does not run the user's shell but connects on to a destination host,
records what the terminal shows and writes audit rows to MySQL. This project models
the parts of it that are state machines with several actors, checks them with TLC on
small instances and proves the safety properties of eight of them with TLAPS for every
value of their parameters.

Paths below are relative to `src/openssh-7.3p1`; protocol 2 is meant throughout.

## 1. The system

A connection passes through these processes:

```
 client ==== TCP ====> listening daemon --fork--> connection's process (monitor)
                       (accept loop)                |  fork, socketpair
                                                    v
                                             network child (unprivileged)
 after authentication: the session server, with one channel per session or
 forwarded connection, and one child per session that runs `ssh` (shell, scp) or
 mounts the destination with sshfs and serves it (sftp)
```

| component | state | operations | interacts with |
|---|---|---|---|
| listening daemon (`sshd.c`) | `startup_pipes`, `startups`, signal flags | accept, drop, fork, reap, restart, terminate | connection processes, through a pipe each |
| user authentication (`auth2*.c`, `auth.c`, `auth-passwd.c`) | methods lists, attempts, failures, used keys, validity of the user | USERAUTH_REQUEST and the methods | monitor, by request and answer |
| privileged monitor (`monitor.c`, `monitor_wrap.c`) | its own copy of the same, permitted requests, the key last allowed | one handler per request | network child |
| channels (`channels.c`, `nchan.c`) | per channel: type, input and output state, buffers, flags, both windows, ids | open, data, extended data, EOF, EOW, CLOSE, window adjust, request; select handlers; garbage collection | peer, sessions, programs |
| sessions (`session.c`, `serverloop.c`) | session slots, pid, channel | open, exec, child exit, close, keepalive | channels, children |
| client (`clientloop.c`, `ssh.c`) | the same channels, seen from the other end | open, requests, exit status, window change | server |
| recording and sftp mount (`serverloop.c`, `session.c`, `channels.c`, `sshfs.c`) | `sshtype`, `playback_logfile`, `c->logfd`, mount point | open, write, remove; mount, detach | sessions, children, file system |
| command audit (`channels.c`) | the file of echoes, `buf_w`, rows | collect, extract a row | sessions, MySQL |
| transport (`packet.c`, `kex.c`, `dispatch.c`, `kex*c.c`, `kex*s.c`) | keys and compression of both directions, flags of the exchange, dispatch table, queue during rekeying | send, receive, rekey | everything above |
| multiplexing and remote forwarding (`mux.c`, `clientloop.c`, `channels.c`) | control channels, `global_confirms`, `remote_forwards`, `permitted_opens`, the server's listeners | requests of slaves, deferred answers, cancel, stop | slaves, server |
| sftp client and server (`sftp-client.c`, `sftp-server.c`) | outstanding requests, `highwater`, handle table | get, reget, put, reput; open, read, write, close | files, each other |
| revocation lists (`krl.c`, `bitmap.c`, `ssh-keygen.c`) | trees of serial ranges, key IDs, keys and hashes; the file | insert, generate, load, check | ssh-keygen, sshd |
| local forwarding, X11, agent, sshfs, scp | listener channels, key table, caches | listen, connect, sign, file operations | channels, files |
| configuration, known hosts, keys, ciphers | parsed text, key material | parse, match, compute | all |

What is hard about it, and what makes each part correct:

* **Flow control.** Data is sent against credit that is still travelling. A receiver
  must never be sent more than it granted (it would drop the data silently), and the
  two sides must never both wait.
* **Close handshake.** Each end decides for itself when a channel is dead, from two
  half-states, buffers and four flags, while messages are under way and ids are
  reused. No end may provoke a protocol error, lose output, or keep a channel for ever.
* **Sessions.** Child exit, end of output, exit status and CLOSE come from different
  events. The slot, the child and the channel must be released together.
* **Privilege separation.** Two processes keep the same authentication state and
  update it by different code. They must agree, and never wait for each other.
* **Recording.** Three globals of a process decide about the recordings of all its
  sessions. A shell must be recorded in full, in a file that is still there.
* **Rekeying.** Either end may start an exchange at any moment, both at once too,
  while packets are written. Both must change key and compression at the same packet,
  and what was queued meanwhile must follow, once and in order.
* **File transfer.** Requests are pipelined, answers come short and in any order, an
  interrupt leaves some under way. A file that is cut must have no hole, a transfer
  that reports success must be complete.
* **Multiplexing.** Answers arrive long after the question, for slaves that may have
  been killed and channel numbers that have a new owner; replies of the server carry no
  number at all.
* **Revocation lists.** A search that depends on the ranges being disjoint while they
  are being merged, three encodings chosen by size, and numbers that end at 2^64 - 1. A
  list must revoke exactly what was asked, after any number of updates.
* **Accept loop.** A counter, a table and processes that end at any moment; flags set
  by signal handlers. The limit must hold and slots must come back.

The hazards, each at the line where it bites, are in `PROJECT.json`.

## 2. The modules

| module | models | proofs | instance for TLC |
|---|---|---|---|
| `FlowControl` | one direction of one channel: windows, consumption, adjustments | `LimitsProofs` | `MCFlowControl` |
| `Channels` | both ends of a connection with several channels, sessions and children | `ChannelsProofs`, `ChannelsBytesProofs` | `MCChannels` |
| `UserAuth` | network child and monitor until authentication ends | `UserAuthProofs` | `MCUserAuth` |
| `Recording` | the recordings and the sftp mount point of one connection | `RecordingProofs` | `MCRecording` |
| `CommandAudit` | the rows made from a shell session | | itself |
| `Startups` | the accept loop and the processes it forks | `LimitsProofs` | `MCStartups` |
| `Transport` | what the packet layer promises (abstract) | | through `Rekey` |
| `Rekey` | the packet layer and the key exchanges of both ends | | `MCRekey` |
| `Sftp` | the transfer loops of the sftp client and the server's handles | `SftpProofs` | `MCSftp` |
| `Mux` | the master, its slaves, remote forwardings, the server's listeners | `MuxProofs` | `MCMux` |
| `Krl` | revocation lists: insertion, writing, loading, checking | `KrlProofs` | `MCKrl` |

The modules are cut where the code has narrow interfaces. `Channels` treats an amount of
data as fitting the window, which is what `FlowControl` shows; `Recording` treats the
closing of a channel as one step, whose handshake is `Channels`; `Startups` sees of
authentication only that it succeeds or that a process ends, which is the outcome of
`UserAuth`. `Channels`, `UserAuth` and `Mux` take for granted that messages arrive once
and in order, which is `Transport`, and `Rekey` is shown to implement it. In every module
`map` in `PROJECT.json` gives the lines each definition stands for.

### FlowControl

Variables are the fields of the two `Channel` structures that concern one direction:
`input`, `remote_window` at the sender, `output`, `local_window`, `local_consumed` at
the receiver, the extended data buffers, and the two message queues. `produced`,
`sent`, `rcvd`, `granted` and `got` are history. Data is counted, not represented.
`ReadInput` and `ReadExtended` are the program's data read by the sender,
`OutputPoll` is `channel_output_poll`, `InputData` and `InputExtendedData` the
receiver's handlers (with the path that fakes consumption for a closed output),
`PostOpen` the whole of `channel_post_open`: write, extended write, failure, and
`channel_check_window` at its end. `kind` distinguishes the standard input of a session
(which starts larval with a window of 0), its output, and a forwarded connection (which
sends no EOW); `Packets` gives each kind its packet size, since the thresholds of
`channel_check_window` depend on it. With `Failures` a write to either descriptor of the
receiver may fail at any time.

### Channels

`chan[e][i]` is channel `i` of end `e` ("C" or "S"), `net[e]` the messages on their way
to `e`, `sess` the server's session slots. `istate`, `ostate` and the flags are those of
`nchan.c`. One action per message handler, one for the pre- and post-select handlers of
a channel with the garbage collection that follows, and one per spontaneous event
(child exit, output, close, keepalive, window change). `gen` numbers the uses of an id;
it is history, and exists so that `NoStaleDelivery` can be said. A message that a
handler answers with `packet_disconnect` or `fatal` sets `over`.

### UserAuth

`child` and `mon` are the two `Authctxt`s with the dispatcher state around them, `toMon`
and `toChild` the socketpair. The monitor cuts the asset off a name `user--asset` (`cut`),
the child keeps and signs the whole name. A service other than `ssh-connection` makes the
user invalid in the child only. A request of the client is handled up to the next `mm_*`
call, which sends a question and waits; the answer continues it. The configuration is
chosen in the initial state from a set: methods lists, policy for root (the user logs in
as root, where it applies), empty passwords. Whether a password or a signature is right is
part of the request; `proofs` and `wrong` are the history that the properties are about.

### Recording

`chan[g]` is the g-th session channel of the connection, `dir` and `file` the playback
directory (names are seconds; a removed file lives on while it is open), `mount` the mount
point. Children have copies of the globals from the moment of the fork, as in the code.
The recording of a session may fail to open and any chunk may fail to be written; the code
goes on in both cases, and `failed` remembers it. sshfs may end at any moment, detached or not: it removes the mount point, and the session that was served
from it is "stranded". `calm` is history: it turns to "no" when a session is opened while
another is open, in the same second, or with a mount point left behind, or when a running
session is sent a request other than for its window size.

### Startups

`pipes` and `startups` are the table and the counter; `holders[c]` are the processes
that have the write end of c's pipe. The loop is cut at the places where a signal or
another process can make a difference: the test of `received_sighup`, the call of
`select`, its return with the reaping of all readable pipes, and one `accept` for each
socket. SIGCHLD does nothing but interrupt `select`. The names of the specification begin
with `Daemon` (`DaemonSpec`, `DaemonTypeOK`), so that `LimitsProofs` can extend this module
together with `FlowControl`.

### CommandAudit

The loop of a session server between select and select: keys from the client become
pending input, the shell echoes, `channel_handle_rfd` pairs what it reads from the shell
with the input that is pending (`PostOpen`, `Extract`). `buf_w` is assigned only when input is
pending; output that is read at another time meets any value at all, and `wild` records
that it has happened.

### Transport and Rekey

`Transport` is two sequences: packets written and not yet delivered, and delivered.
`Rekey` has one record per end for the fields of `struct ssh`, its `kex` and its
dispatch table; an end runs one handler at a time, so a handler is an operator from
record to record and a step (`Read`, `Write`, `Tick`, `ManualRekey`) is a whole call of
the packet layer, with the exchange it may start and the queue it may send. A key is the
pair of KEXINITs that the exchange hash covers. With privilege separation (`privsep`,
chosen in the initial state) the server's state goes to another process at login
(`Handover`): keys, compression and buffers do, the counters, the queue and most of `kex`
do not. `between` is history: what an end sent between its KEXINIT and its NEWKEYS that is
not part of the exchange. `Write` is any packet of the layers
above, `Tick` the time limit, `Limit` the limit in blocks.

### Sftp

The source of a transfer is the file `Full`, whose block `i` is `i`; 0 is a hole. `g`
and `u` are the local variables of `do_download` and `do_upload`, `reqs` and `reps` the
two directions of the connection. One turn of a loop is one or two actions, cut where
the client waits for an answer. Faults are a read or write that fails in the server, a
short read, a local write that fails, an interrupt at any moment, and answers in any
order (`Reorder`), which the client allows for. `send` in `g` holds the requests that one
turn makes, in the order in which `send_read_request` is called. Each way out of a
transfer is an action of its own that closes its handle: `GetFail` for the label `fail` (the
local file cannot be opened or is too long when the remote one is open already),
`GetTruncate` after an error or an interrupt, whose `ftruncate` may fail (`uncut`), `GetEnd`
and `PutEnd`. `failed` says that a
write failed in the server since a put emptied the remote file: a reput appends to what
is there, whatever commands were given in between, so only a new put clears it.

### Mux

`slave[s]` is a process with its control socket, `chan` the control and session channels
of the master, `confirms` the queue of callbacks for global requests, `listening` the
server's listeners. A slave may be killed at any moment. Requests for forwardings are
numbered by history variables, so that the properties can say which request a listener,
a reply or a connection belongs to. The callback of a `-R` option of the master has two
ends of its own: it reads a port that the reply does not carry (`over = "port_unread"`), or
it follows a pointer into a table that has been reallocated (`over = "dangling"`), after which
nothing can be said.

### Krl

A run of `ssh-keygen -k` goes from "idle" through "parse" (an update) and "lines" to
"gen" and "write"; a query and sshd do its first part. Each iteration of the three loops
is a step: the two merging loops of `insert_serial_range` (`MergePred`, `MergeSucc`),
the loop over a tree in `revoked_certs_generate` (`GenerateEntry`), and the loops of
`parse_revoked_certs` (`ParseStep`, which starts an insertion). The entry that grows
during an insertion is `ers`; `at` keeps its place in the tree. Keys and certificates
that are asked for are history (`asked`, `others`, and `saved` for the file). The
process may end at any moment (`Exit`). `Size` is the length of the file in bytes, which
`sshkey_load_file` compares with `MaxFile` (1 MiB in the code; `LoadRefused`). Serial numbers
wrap as unsigned numbers do (`Dec`, `Inc`).

## 3. The runs

| run | distinct states | shows |
|---|---|---|
| `flow_credit` | 324 708 | `NoOverrun`, `CreditBound`, `EventuallyDrained` |
| `channels_one` | 48 697 | `NoProtocolError`, `ExitStatusFirst`, `NoTruncation`, `AllFreed` |
| `channels_reuse` | 106 420 | `NoProtocolError`, `CloseIsLast`, `NoStaleDelivery`, `SessionsLinked` |
| `auth_agree` | 151 150 | `Agreement`, `ListProved`, `TriesBounded`, `AlwaysAnswered` |
| `rec_safety` | 5 208 691 | `RecordedWhenAlone`, `SftpExclusive` |
| `rec_mux` | violation | `RecordedInFull` fails |
| `audit_race` | violation | `RowsAreCommands` fails |
| `startups_limit` | 165 460 | `CountExact`, `PreauthBounded`, `SlotsComeBack` |
| `rekey` | 178 134 | `KeysAgree`, `OnlyKexBetween`, `OnlyLateExtInfo`, `ImplementsTransport`, `ComesToRest` |
| `sftp_transfer` | 311 774 | `EveryAnswerExpected`, `GetLeavesPrefix`, `GetComplete`, `PutComplete`, `NoHandleLeft`, `TransferEnds` |
| `mux` | 1 460 306 | `MasterSurvives`, `AnswerReachesAsker`, `RepliesPaired`, `RightDestination`, `CancelledIsClosed`, `NobodyForgotten` |
| `krl` | 457 395 | `Canonical`, `CheckExact`, `LoadsBack` |

Every module with properties but `CommandAudit` has a `TypeOK` (`DaemonTypeOK` in
`Startups`), which describes its
state. It is not among the properties of the runs, which are about the hazards; adding
it to the INVARIANTS of any configuration checks it, and in `FlowControl`, `Startups` and
`Krl` it is part of what is proved.

`CHECK_DEADLOCK FALSE` is in all configurations, since every system here may stop: the
programs have written all they will, the connection is over, the daemon has exited.
Waiting for ever where that is wrong is caught by the liveness properties.

### What each property says about the code

* `NoOverrun`: the branches "rcvd too much data" are dead code between correct peers.
  `CreditBound` is why: what the sender may still send, what is under way and what was
  granted never exceeds the receiver's own account. `EventuallyDrained`:
  everything gets through; after a failed write the channel stalls only when at least half
  of the window went with it (`CreditLost`).
* `NoProtocolError`: no handler of either end meets a message it answers by ending the
  connection. `CloseIsLast`: nothing about a channel follows its CLOSE, except the
  server's keepalive, for which `channel_find_open` also takes a closing channel; that
  it is harmless is part of `NoProtocolError`. `NoTruncation`: no regular close loses
  output. `NoStaleDelivery`: no message is for an earlier user of its id.
* `Agreement`: neither process is ever asked for something it does not expect, or
  finds a method proved that its own lists do not ask for. Two `fatal` calls are met all the
  same, and only as section 4 says: "authenticated invalid user" and "bad signature data
  blob". `ListProved`: the monitor
  lets a user in only after every method of one configured list was proved, in order,
  with a different key each time. `TriesBounded`: not more than MaxAuthTries wrong
  answers are ever judged (one more when `none` is not counted). `AgreeingConfigs`
  leaves out the combination of section 4 in which the two really differ.
* `RecordedWhenAlone`: see `calm` above. While sessions do not overlap, whatever a shell
  shows is recorded, unless a call for its own recording failed; a failure never costs
  another session its recording. `rec_mux` shows that overlapping sessions are beyond it.
  `SftpExclusive`: `mkdir` in `do_child` works as a lock, although `session_unused`
  detaches the mount for any session that ends, as long as the sshfs behind it lives. When
  it ends by itself the next session may mount beside one that is stranded.
* `CountExact`: a connection that is not dropped always finds a slot.
* `KeysAgree`: every packet is read with the key and the compression it was sent with.
  `OnlyKexBetween`: nothing but key exchange packets passes between an end's KEXINIT and
  its NEWKEYS, whatever the peer has read meanwhile. `OnlyLateExtInfo`: with privilege
  separation no packet meets `kex_protocol_error`, without it only a repeated EXT_INFO; in
  particular no KEXINIT falls between two dispatch tables at login.
  `ImplementsTransport` is the refinement: with the packets in the output and in the
  queue as `pending`, every behaviour is one of `Transport`, whose fairness is included.
  `ComesToRest`: exchanges do not set each other off for ever.
* `GetLeavesPrefix`: after any get that failed or was interrupted the local file is a
  beginning of the source, so that `reget` may go on from its length, if at most one local
  write failed and `ftruncate` did not. `GetComplete` and `PutComplete`: success means
  that the file is there, with the same exceptions and those of section 4.
  `EveryAnswerExpected`: no answer meets "ID mismatch". `NoHandleLeft`: each way out of a
  transfer that is behind the open closes the handle it was given, the label `fail`
  included.
* `MasterSurvives`: no kill of a slave leads the master into one of the `fatal` calls of
  its callbacks, but for the three named in section 4. `AnswerReachesAsker`: no slave
  gets an answer that was for the earlier owner of its channel. `RepliesPaired`: the
  n-th reply belongs to the n-th callback, counted keepalives and cancellations without
  reply included. `RightDestination`, `CancelledIsClosed`: listeners, `permitted_opens`
  and `remote_forwards` agree, with the exceptions of section 4. `NobodyForgotten`: a
  paused control channel always has an answer coming.
* `Canonical`: the ranges of a tree neither overlap nor abut, also halfway through an
  insertion (the entry that grows stands apart), and when `hi + 1` wraps at the last
  number. `CheckExact`: a list that has been made or loaded revokes a key or certificate
  exactly if a line named it, over any number of updates. `LoadsBack`: no list that was
  written is refused, up to the last serial number, unless the file or a bitmap in it is
  too long (`Outgrown`).

### Bounds, and why they are enough

* `FlowControl`: a window of 8, packets of 1, 2 and 3 bytes and 9 bytes of data: more than
  one window is sent, a packet can be cut by the window, an adjustment is due both before
  and after the sender has stopped, and each of the two thresholds of
  `channel_check_window` decides for some kind. The proofs remove the bound for safety.
* `Channels`: one channel with one unit of data in each direction and on standard error
  and both kinds of channel (`channels_one`); two sessions one after the other or
  together, two ids, one slot, one keepalive or window change (`channels_reuse`). A
  unit of data suffices because the state machines only ask whether a buffer is empty.
* `UserAuth`: five requests with two keys, lists of up to two methods and
  `MaxTries = 2`, so that lists are completed, keys are tried again, and the limit is
  reached in different ways.
* `Recording`: three sessions, two slots, two different seconds, so that a slot is
  reused, refused, and a name is shared; the opening or the writing of one of the recordings may
  fail. The number of other requests is not bounded.
* `Startups`: three connections for two slots on two sockets and two signals, so that
  both slots are taken while a connection waits, and a restart can be followed by a
  termination. `Begin = 1`, `Rate = 30` make all three branches of `drop_connection`
  happen.

* `Rekey`: two packets written by each end with `Limit = 1`, one expiry of the time
  limit at each end and one `~R`: exchanges begin by each of the three causes, at both
  ends at once, and again while the queue of an earlier one is being sent. Both shapes
  of method, delayed compression and EXT_INFO are on; with and without privilege separation.
* `Sftp`: five blocks in requests of two with two under way: the last request is short by
  itself, one short read, one fault in the server, two local errors (a write or
  `ftruncate`) and one interrupt over two commands, so that a resumed transfer follows a
  failed one.
* `Mux`: a `-R` option and two slaves; one opens a forwarding to the same port, one to a
  port chosen by the server, or a session; the other cancels, stops or ends the master.
  Four channel numbers, one kill, two events among keepalives, connections and
  refusals: a number is used again while an answer for its earlier owner is under way.
* `Krl`: serial numbers of 8 bits, bitmaps of at most 100 and files of 200 bytes, which
  three lines with keys exceed. The ten
  ranges that lines name contain the first and the last number, neighbours, an overlap
  with several others, and gaps that make each type of section the shortest; 0-4 is
  refused, and 100-255 grows over others to the last number. The proofs remove the bounds.

### Fairness

* `FlowControl`, `Channels`: both main loops call the output poll, the handlers and the
  dispatcher in every round, and TCP delivers: weak fairness of each. The reader behind
  a descriptor eventually reads. Programs need not produce data; in `channels_one` they
  do end, since nothing frees the channel of a program that runs for ever.
* `UserAuth`: the monitor answers what it has read, and the child goes on when it is
  answered. The client need not do anything.
* `Rekey`: both ends read what arrives. Nobody has to write or to ask for an exchange.
* `Sftp`: client and server each go on while they can; the user need not do anything.
* `Startups`: the loop runs, and every attempt to authenticate ends, by success or by
  `LoginGraceTime`. Nobody has to connect or to send signals.

## 4. What the code does and does not promise

The two violating runs are disagreements between the code and what the repository's
documentation says (`findings` in `PROJECT.json`):

* `rec_mux`: the type of the last request of any channel governs all recordings, so a
  second session stops the recording of a running shell.
* `audit_race`: a carriage return is paired with output that belongs to earlier input;
  a row may lack the end of the command. The property speaks of runs in which no unassigned
  `buf_w` was used (`wild`), so the violation does not depend on undefined behaviour.

Others were met while modelling. They have no run of their own; the property named
leaves them out explicitly, so each is visible as a condition in the model:

* A failed write drops buffered data without giving its window back (`nchan.c:490`). For
  sessions EOW makes up for it; a forwarded connection may stall, and so may the output of
  a session whose standard error cannot be written. `EventuallyDrained` says when: at least
  half of the window is gone (`CreditLost`).
* The monitor updates the methods lists before it tests the policy for root, the child
  after (`monitor.c:371`, `auth2.c:306`); `AgreeingConfigs` leaves the combination out.
  The two also have different notions of a valid user when the service differs
  (`auth2.c:298`): a right proof for another service ends in "authenticated invalid user".
  The monitor cuts the name `user--asset` (`monitor.c:778`), the child signs all of it
  (`auth2-hostbased.c:124`): a host-based login with such a name ends in "bad signature data
  blob" (`monitor.c:1491`). `Agreement` names both.
* A SIGHUP between the test of its flag and `select` is acted on only when something
  else wakes the loop (`sshd.c:1280`); a restart forgets the connections that are still
  unauthenticated, so that with new ones they may exceed MaxStartups (`sshd.c:321`;
  `PreauthBounded` counts the daemon's own).
* A recording that cannot be opened (`serverloop.c:1156`) or a chunk that cannot be written
  (`channels.c:2220`) does not stop the session, which goes on unrecorded (`failed`). An
  sshfs whose connection drops removes the mount point under the session it serves
  (`sshfs.c:1560`, `4393`), and the next sftp session may mount beside it (`stranded`).
* A shell session that begins while the mount point of an sftp session is still there
  may lose its recording (`session.c:2306`; `calm` excludes it), and an exec whose
  destination is unreachable leaves an empty file (`session.c:2213`). After a read error
  the mount point is looked for under another name (`serverloop.c:422`), and logins by
  public key share one mount point name (`auth-passwd.c:202`): both need several
  connections in one model.
* A wrong guess of the first key exchange packet is not skipped (`kex.c`,
  `first_kex_follows`); neither end of this program guesses, so it is not in `Rekey`.
  With `UsePrivilegeSeparation no` EXT_INFO is repeated after every later exchange and
  answered with UNIMPLEMENTED (`kex.c:366`; `OnlyLateExtInfo` names it); otherwise the
  process that takes over at login does not know that the client asked for it.
* A get whose local writes fail twice takes the second failure for a success
  (`sftp-client.c:1322`; `disk <= 1`). When `ftruncate` fails only an error is printed
  (`sftp-client.c:1388`; `uncut`), and a `reget` then goes on behind a hole. A put whose
  failed write is followed by a good one reports success (`sftp-client.c:1715`; `failed`
  in `PutComplete`).
* A fixed port that the server refused stays in `permitted_opens` and wins over a later
  forwarding of the same port (`mux.c:619`; `refusedAt`); cancelling a forwarding whose
  port is not known yet leaves its listener (`mux.c:908`; `early`); a failing pty request
  is fatal for the master when its slave has gone (`mux.c:1217`; `tty_failed`). A slave that
  cancels one of the master's own `-R` options before its reply has come zeroes its port
  (`mux.c:925`); the callback takes the forwarding for one with a chosen port and reads a
  port that the reply does not carry, which is fatal for the master (`ssh.c:1541`;
  `port_unread`). The callback's argument points into `options.remote_forwards`, which a
  slave's forwarding may reallocate meanwhile (`readconf.c:352`; `dangling`).
* A bitmap of more than 16384 bits is written but refused when the list is loaded
  (`krl.c:540`, `sshbuf-getput-basic.c:445`), and so is a file of more than 1 MiB
  (`authfile.c:108`): such a list can be neither updated nor checked, and sshd, which
  cannot read it, refuses every key. `LoadsBack` excepts both (`Outgrown`).
  The file is truncated before it is written (`ssh-keygen.c:2167`): when the process
  ends in between, ssh-keygen refuses the empty file, and sshd reads it as an empty flat
  list (`authfile.c:571`). `Truncate` followed by `Exit` reaches that state.

## 5. What is proved

The proofs hold for every value of the constants that satisfies the modules' ASSUMEs,
among them any number of bytes, connections and signals.

**`LimitsProofs`**, first part: `FlowControl` (`FlowAssumption`: a window of at least 2,
for each kind packets of at least 1). `NoOverrun` is not inductive: that the first packet
fits says nothing of the second. The inductive invariant regards each message as an
interval of the byte stream and says that the messages on the wire follow one another
without gap or overlap, from what was received to what was sent, and the adjustments
likewise from what was got to what was granted (`Chain`); that the sender's window is what
it got less what it sent, that the receiver's covers what it granted less what it
received, and that with what is buffered or consumed it is at most the maximum (`Ledger`);
and that a larval session has been granted nothing. No sum over a sequence is needed.
Theorems: `TypeCorrect`, `NeverOverrun`, `CreditBounded`, `NoEarlyData`.

**`LimitsProofs`**, second part: `Startups` (`StartupsAssumption`: finitely many connections,
`Begin <= MaxStartups`, a rate of 1 to 100). `PreauthBounded` is not inductive: the
invariant adds that the counter equals the number of pipes in use, that only queued
connections are in a queue, that every unauthenticated connection of this daemon holds
a slot, and that a process holds the write end exactly while the connection is
unauthenticated (in `DaemonTypeOK`). Counter below the limit then means a free slot, and the
map from connections to slots is injective. Theorems: `StartupsCounted`,
`StartupsBounded`.

**`KrlProofs`** (`KrlAssumption`: a largest serial number, lengths of keys and names, CAs
among the keys, the wildcard not among the CAs). None of the properties is inductive: they
say nothing about an insertion or a file that is half done. The invariant follows a serial
number on its way from the line that named it through the tree, the sections, the file and
back. It is asked for exactly if it is in one of the places that stand for it at that
moment: an entry of the tree, the entry that grows, a section still to be parsed
(`MemoryExact`); an entry still to be written, the section under construction, a finished
section (`WritingExact`); a section of the file (`FileExact`); likewise keys and key IDs
(`OthersExact`). Around it: the tree is canonical, `at` separates the entries before and
after the one that grows (`Insertion`, which is what makes the first neighbour that is
apart a proof that all are), entries are written in order (`Writing`), and the contents of
a section stay within the serial numbers (`GoodSections`). Each action is a lemma;
`InsertStarts`, `ContentsExact` and `SectionSplit` say what one range or section
contributes. The cost estimate plays no part: any choice of sections would be exact.
`ListsLoadBack` needs besides that what is left to be parsed is left of a section of the
file (`Remains`), so that a section that is refused is one that was written. Theorems:
`KrlTypeCorrect`, `RangesCanonical`, `RevocationExact`, `ListsLoadBack`.

**`UserAuthProofs`** (`AuthAssumption`; `ProcessesAgree` and the bound on wrong proofs also
`Agreeing`). Child and monitor evaluate the same answer with different code and at
different times, so `Agreement` at the end says nothing about a moment at which one of them
has evaluated an answer that the other has not. The invariant says for each place of the
child what is on the two sockets and how far the monitor is ahead (`Phase`): nothing while
the child is idle, a request that the monitor will take for the method and key the child
means (`Underway`), or an answer with the lists the child is about to compute
(`Returning`, `Decided`). `Tries` counts a wrong proof the child has not heard of yet
(`Owed`). `Agreeing` restricts the configurations to those in which both processes use the
same rules: with `AuthenticationMethods`, `PermitRootLogin` does not depend on a forced
command and empty passwords are refused; outside them the two disagree, which section 4
describes, and the run uses the same configurations. `ListsAreProved` does not need
`Agreeing`: a list that is completed is one whose methods were all proved. Theorems:
`AuthTypeCorrect`, `ProcessesAgree`, `WrongProofsBounded`, `ListsAreProved`.

**`RecordingProofs`** (`RecordingAssumption`). `RecordedWhenAlone` speaks of sessions that
have ended; the invariant says what the process's globals mean while every session began
alone (`Alone`): `playback_logfile` is the name of the one recording that is being written
or may still be removed (`Current`), nothing has a later name, and what ended before has
an earlier one (`Safe`). With the lock on the mount point (`Lock`), the counting of the
session slots (`Slots`) and the life of the descriptors (`OpenFds`) this is inductive. A
session whose recording could not be opened or written still has its second to itself, so
that what it removes is not another's.
Theorems: `RecordingTypeCorrect`, `RecordedAlone`, `MountExclusive`.

**`MuxProofs`** (`MuxAssumption`: at least two channel numbers, requests of the five types
of `muxclient()`, a session only as the last request). The properties follow from one
invariant, which besides the shape of the state says, while the master runs:
control channels and slaves belong to each other one to one (`Owned`); `remote_id` and
`ctl_chan` are inverse, and a control channel is paused exactly while its session is being
opened or a forwarding is being confirmed (`Linked`); for each slave, where its request or
the answer is, and that the socket holds nothing else that could be taken for it
(`Talks`); each confirmation in the queue of global requests is for a control channel that
waits, and each that waits has one (`Queue`); each packet about a session is about one that
exists and is in the stage in which that packet is sent, with at most one packet that ends
the stage (`Wire`). `Queue` and `Wire` are what makes the reuse of channel numbers safe: a
number is free only when nothing under way mentions it. `MasterNeverFatal` needs a second
invariant for the callbacks of the master's own options: which entries they are for, that
these keep their ports until they are cancelled, and that a port is looked for in vain only
afterwards (`Options`, `Targets`, `Unread`). It is proved for options that name their ports
(`FixedPorts`): for a port the server chooses it depends on the pairing of replies with
callbacks, which is only model-checked. Each handler is a lemma, and
frame lemmas say what leaves `Talks` or `Wire` alone. Theorems: `MasterNeverFatal`,
`AnswersReachAskers`, `NoSlaveForgotten`.

**`SftpProofs`** (`SftpAssumption`: buffers and pipelines of at least one). The properties
speak of the end of a transfer; the invariant describes the loop where the client waits.
For both directions: requests and answers under way have distinct numbers, each the number
of one entry of the client's queue (`Matched`), and exactly the handle of the transfer is
open (`Handles`). For a download (`Loop`): an answer fits its request (`Fits`); the ranges
asked for are disjoint and lie between the highest contiguous point and the next offset
(`Ranges`); as long as at most one local write and no `ftruncate` has
failed (`Doubt`), every block up to the next offset
is written or asked for, the loop stops asking without an error only past the end or when
interrupted (`Covered`), and everything below the highest contiguous point is written
(`Contiguous`). `Ranges` is why `highwater` may be set to the end of a block that begins
at it. Behind the loop a file without error or interrupt is complete (`Closing`). For an
upload: the writes under way continue the remote file without a gap up to
the next offset (`Continues`), so a handle opened for appending and one with offsets
write the same. The proof of `PutsComplete` failed at first because the observation
`failed` was cleared by any command that is not a reput, and a get between a failed put
and a reput hid the failure; three commands are needed to see it, one more than the run
has. Theorems: `AnswersExpected`, `GetsLeavePrefix`, `GetsComplete`, `PutsComplete`,
`HandlesClosed`.

**`ChannelsProofs`** (`ChannelsAssumption`). Each end names the other's channel by a number
it was told once and uses until its own CLOSE is sent, while the other end may free the slot
and give it away again. Whether a number still means what it meant depends on what is in
flight, so none of the properties is inductive. The invariant has a part for the tables and
the queues (`NInv`) and one for the sessions (`SInv`). `NInv` says of each message what it is
for: it finds a channel that takes it (`Addressed`), an offer or a refusal is all there is of
its channel besides the slot that waits (`Offered`, `Refused`), a CONFIRM is the only answer
and comes from a channel that exists (`Confirmed`), only keepalives follow a CLOSE and no
bytes an EOF, in the queue and after its arrival (`Closed`, `Ended`). Of each channel it says
that a type determines flags and halves (`Shaped`), that one that has not sent its CLOSE has
a peer that still takes messages (`Linked`), and that one that waits for an answer has been
told nothing and hears the answer first (`Opening`). `SInv` links sessions and session
channels, keeps the channel of a running child open and its CLOSE unsent, and gives a child
whose status is owed a session that will report it. The proof first shows under which
condition each elementary step (a message read or said, a channel turned, freed, offered,
accepted, refused, confirmed) keeps `NInv`, and then puts each action together from them; the
conditions (`MayTurn`, `MaySay`, `MayConfirm`) are the contract between the handlers and the
protocol. Theorems: `ChannelsInductive`, `NoProtocolErrorAlways`, `CloseIsLastAlways`,
`NoStaleDeliveryAlways`, `SessionsLinkedAlways`, `ExitStatusFirstAlways`.

**`ChannelsBytesProofs`** builds on them for `NoTruncation`: once the receiving half of a
channel is closed, and unless an end gave the bytes up, what one program wrote has been read
by the other. The property speaks of the end of a stream; `BytesInv` follows the bytes on the
way: for each opening and direction, what was written is in the sender's buffers, in
flight, in the receiver's buffers or read (`Accounts`). The bytes in flight are a sum over a
queue. `Stream` states it without recursion, as the existence of a running total over the
positions of the queue; a message that enters or leaves moves one end of the total
(`StreamPush`, `StreamPop`), and a queue without data has equal ends (`StreamIdle`). The
other parts say when a place is empty: a half is closed only when it is drained or cut
(`Sounds`, the conditions of `chan_ibuf_empty()`, `chan_obuf_empty()` and `chan_send_eof2()`),
a CLOSE means EOF was sent and was, or will first be, received (`Stopped`), an EOF that was
sent is in flight or has arrived (`EofArrives`), a second stream belongs to a session at both
ends (`SameType`), and a session without a program is sent nothing (`LarvalQuiet`). With
`Ended` of `ChannelsProofs` (no bytes behind an EOF) a closed receiving half then leaves
nothing in the queue and nothing in either buffer (`NothingLeft`), and the account says that
written is at most read. `BytesInv` quantifies over running totals, which TLC cannot
enumerate; the run checks `NoTruncation` itself. Theorems: `BytesInductive`,
`NoTruncationAlways`.

**Only model-checked**: all liveness properties (fairness and ENABLED are outside the
prover) and with them the refinement of `Transport` by `Rekey`; `RepliesPaired`,
`RightDestination` and `CancelledIsClosed` of `Mux`, which compare filtered sequences
(what `SelectSeq` returns needs induction over data); the bounds on byte counts in
`Channels`' `TypeOK`, which only keep the instance finite; and the safety
properties of `Rekey`, whose queue of held-back packets is sent by a fold.

## 6. What is not modelled

Cryptography and key formats (arithmetic), parsing of configuration and files, protocol
1, the sandbox and portability layers, terminal modes, the text of audit rows; the
authentication agent, sshfs, scp, known hosts and the client's choice of identities.
Within modelled parts: datagram (tunnel) channels, keyboard-interactive, GSSAPI and PAM,
the monitor's requests outside authentication, debug and inetd mode, local and dynamic
forwarding, X11, directories and attributes in sftp, signed revocation lists.
`PROJECT.json` lists every component with the reason.

## 7. Plan

1. Proofs: the agreement of keys in `Rekey` (its fold has to be restated for the prover).
2. An abstract specification of a channel as seen by its two programs (a pipe each way
   that ends once), and the refinement from `Channels`.
3. `Agent` (`ssh-agent.c`): key table, life times, locking. The cache of `sshfs.c`;
   several connections and their mount points.
4. `connect_next` over several addresses and local forwardings (`channels.c`); pure
   operators for address matching and pattern lists, checked against reference
   definitions.
