-------------------------------- MODULE Sftp --------------------------------
(***************************************************************************)
(* File transfer: the pipelined loops of do_download and do_upload in      *)
(* sftp-client.c and the handle table and the open, close, read and write  *)
(* requests of sftp-server.c.  A user gives a sequence of get, reget, put  *)
(* and reput commands; reads, writes, opens and closes fail, reads are     *)
(* short, a server may answer out of order, and the user interrupts.       *)
(*                                                                         *)
(* A file is a sequence of blocks; the source of a transfer is Full, whose *)
(* block i is i, and 0 is a block that was never written (a hole).  Opening*)
(* and closing are calls that wait for their answer with nothing else      *)
(* under way, so they are one step with the server's part; DoClose is      *)
(* fatal if something else is under way.  Each way out of do_download and  *)
(* do_upload is an action of its own that closes, or does not, what was    *)
(* opened.                                                                 *)
(***************************************************************************)
EXTENDS Integers, Sequences, SequencesExt, FiniteSets

CONSTANTS Size,         \* blocks of the source file
          BufLen,       \* conn->transfer_buflen
          NumRequests,  \* conn->num_requests
          MaxOps,       \* bound: commands given
          MaxShort,     \* bound: reads answered with less than asked
          MaxFaults,    \* bound: reads and writes that fail in the server
          MaxIntr,      \* bound: interrupts
          MaxDisk,      \* bound: writes and ftruncates that fail in the client
          Commands,     \* subset of {"get", "reget", "put", "reput"}
          Reorder       \* a server that answers in any order

ASSUME SftpAssumption ==
  /\ Size \in Nat /\ BufLen \in Nat \ {0} /\ NumRequests \in Nat \ {0}
  /\ MaxOps \in Nat /\ MaxShort \in Nat /\ MaxFaults \in Nat /\ MaxIntr \in Nat
  /\ Commands \subseteq {"get", "reget", "put", "reput"}
  /\ Reorder \in BOOLEAN /\ MaxDisk \in Nat

Full == [i \in 1..Size |-> i]

VARIABLES
  op,           \* "idle", "fatal", or where the client is: in the loops "get"
                \* and "put", at the label "fail", behind the loop of
                \* do_download ("done") and before its do_close ("closing")
  cmd,          \* the command being run
  g,            \* local variables of do_download
  u,            \* local variables of do_upload
  msg_id,       \* conn->msg_id
  interrupted,  \* set by the SIGINT handler
  reqs, reps,   \* requests and answers under way
  handles,      \* handles[i].use and flags in the server
  unused,       \* the list that starts at first_unused_handle
  local,        \* the file that get writes
  remote,       \* the file that put writes
  ops, shorts, faults, disk, intr,   \* used up of the bounds
  \* what is observed
  last,         \* the last command: its name and outcome
  failed,       \* a write failed in the server since put emptied the file
  uncut         \* an ftruncate failed since get emptied the local file

cvars == <<op, cmd, g, u, msg_id, interrupted>>
svars == <<handles, unused>>
vars == <<cvars, reqs, reps, svars, local, disk, remote, ops, shorts,
          faults, intr, last, failed, uncut>>

Smaller(a, b) == IF a < b THEN a ELSE b
Larger(a, b) == IF a < b THEN b ELSE a

(* lseek and write: blocks skipped by the seek are holes *)
WriteAt(f, off, data) ==
  [i \in 1..Larger(Len(f), off + Len(data)) |->
     IF i > off /\ i <= off + Len(data) THEN data[i - off]
     ELSE IF i <= Len(f) THEN f[i] ELSE 0]

(* ftruncate: a file that is too short gets longer *)
Ftruncate(f, n) == [i \in 1..n |-> IF i <= Len(f) THEN f[i] ELSE 0]

-----------------------------------------------------------------------------
(* The server: handle_new, handle_unused, handle_is_ok *)
HandleNew(use) ==
  IF unused = <<>>
  THEN [table |-> Append(handles, use), list |-> <<>>, i |-> Len(handles) + 1]
  ELSE [table |-> [handles EXCEPT ![Head(unused)] = use], list |-> Tail(unused),
        i |-> Head(unused)]

HandleIsOk(i) == i \in DOMAIN handles /\ handles[i] # "unused"

(* process_open of the file, with flags TRUNC, APPEND or READ *)
ProcessOpen(flags, i) ==
  LET h == HandleNew(flags)
  IN h.i = i /\ handles' = h.table /\ unused' = h.list

(* process_close, handle_close *)
ProcessClose(i) ==
  IF HandleIsOk(i)
  THEN handles' = [handles EXCEPT ![i] = "unused"] /\ unused' = <<i>> \o unused
  ELSE UNCHANGED svars

Answer(r, type, data) ==
  reps' = Append(reps, [id |-> r.id, type |-> type, data |-> data])

(* process_read *)
ProcessRead(r) ==
  LET got == IF HandleIsOk(r.h) THEN Smaller(r.len, Size - r.off) ELSE 0
      Data(n) == SubSeq(Full, r.off + 1, r.off + n)
  IN /\ r.type = "READ"
     /\ \/ /\ got <= 0
           /\ Answer(r, IF HandleIsOk(r.h) THEN "EOF" ELSE "FAILURE", <<>>)
           /\ UNCHANGED <<shorts, faults>>
        \/ got > 0 /\ Answer(r, "DATA", Data(got)) /\ UNCHANGED <<shorts, faults>>
        \/ /\ shorts < MaxShort
           /\ shorts' = shorts + 1
           /\ \E n \in 1..(got - 1) : Answer(r, "DATA", Data(n))
           /\ UNCHANGED faults
        \/ /\ faults < MaxFaults
           /\ faults' = faults + 1
           /\ Answer(r, "FAILURE", <<>>)
           /\ UNCHANGED shorts
     /\ UNCHANGED <<remote, failed>>

\* Mutant: a partial write is answered with success.
ProcessWritePartial(r) ==
  LET append == handles[r.h] = "append"
      At(f, data) == WriteAt(f, IF append THEN Len(f) ELSE r.off, data)
  IN /\ r.type = "WRITE"
     /\ \E n \in 1..Len(r.data) : remote' = At(remote, SubSeq(r.data, 1, n))
     /\ Answer(r, "OK", <<>>)
     /\ UNCHANGED <<shorts, faults, failed>>

(* process_write: O_APPEND ignores the offset; a partial write fails too *)
ProcessWrite(r) ==
  LET append == handles[r.h] = "append"
      At(f, data) == WriteAt(f, IF append THEN Len(f) ELSE r.off, data)
  IN /\ r.type = "WRITE"
     /\ \/ /\ remote' = IF HandleIsOk(r.h) THEN At(remote, r.data) ELSE remote
           /\ Answer(r, IF HandleIsOk(r.h) THEN "OK" ELSE "FAILURE", <<>>)
           /\ UNCHANGED <<faults, failed>>
        \/ /\ HandleIsOk(r.h)
           /\ faults < MaxFaults
           /\ faults' = faults + 1
           /\ failed' = TRUE
           /\ \E n \in 0..(Len(r.data) - 1) :
                remote' = IF n = 0 THEN remote
                          ELSE At(remote, SubSeq(r.data, 1, n))
           /\ Answer(r, "FAILURE", <<>>)
     /\ UNCHANGED shorts

(* process: requests are handled in the order they arrive *)
Process == /\ reqs # <<>>
           /\ reqs' = Tail(reqs)
           /\ ProcessRead(Head(reqs)) \/ ProcessWrite(Head(reqs))
           /\ UNCHANGED <<cvars, svars, local, disk, ops, intr, last, uncut>>

-----------------------------------------------------------------------------
(* The client *)
NoTransfer == [h |-> 0, requests |-> <<>>]
Outcome(ok) == [cmd |-> cmd, ok |-> ok, interrupted |-> interrupted]

(* fatal(): an answer belongs to no request *)
Fatal == /\ op' = "fatal"
         /\ UNCHANGED <<cmd, g, u, msg_id, interrupted, reqs, svars, local,
                        remote, faults, last>>

(* do_close and the end of the command.  get_status is fatal when the      *)
(* next answer is that of another request.                                 *)
DoClose(h, ok) ==
  /\ op' = IF reqs = <<>> /\ reps = <<>> THEN "idle" ELSE "fatal"
  /\ g' = NoTransfer /\ u' = NoTransfer
  /\ msg_id' = msg_id + 1
  /\ ProcessClose(h)
  /\ last' = Outcome(ok)
  /\ UNCHANGED <<cmd, interrupted, reqs, reps, remote, ops, shorts, faults, intr,
                 failed, uncut>>

(* do_download, the loop from its condition to get_msg: s with the new     *)
(* requests in its queue and among those to send, or with s.done when the  *)
(* loop ends.                                                              *)
DownloadTop(s) ==
  LET max == IF interrupted THEN 0 ELSE s.max_req
      n == Larger(max - s.num_req, 0)
      new == [j \in 1..n |-> [id |-> s.id + j - 1, len |-> s.buflen,
                              off |-> s.offset + (j - 1) * s.buflen]]
  IN [s EXCEPT !.max_req = max, !.requests = @ \o new, !.send = @ \o new,
               !.num_req = @ + n, !.offset = @ + n * s.buflen, !.id = @ + n,
               !.done = max = 0 /\ s.num_req = 0]

(* send_read_request *)
Reads(h, queue) ==
  [j \in DOMAIN queue |-> [type |-> "READ", id |-> queue[j].id, h |-> h,
                           off |-> queue[j].off, len |-> queue[j].len]]

(* Send the requests made in this turn, or leave the loop. *)
DownloadTurn(s, file) ==
  /\ op' = IF s.done THEN "done" ELSE "get"
  /\ g' = [s EXCEPT !.send = <<>>]
  /\ local' = file
  /\ msg_id' = s.id
  /\ reqs' = reqs \o Reads(s.h, s.send)
  /\ UNCHANGED <<u, svars, last>>

(* A command starts: the loop of sftp.c clears interrupted. *)
Start(r) == /\ op = "idle" /\ ops < MaxOps
            /\ r \in Commands
            /\ ops' = ops + 1
            /\ cmd' = r
            /\ interrupted' = FALSE

(* The transfer ends before a handle is opened: the file of a get is not   *)
(* there, that of a reput too long, or process_open fails.                 *)
Refused(r) == /\ last' = [cmd |-> r, ok |-> FALSE, interrupted |-> FALSE]
              /\ msg_id' = msg_id + 1
              /\ UNCHANGED <<op, g, u, svars, local, remote, uncut>>

(* do_download up to the loop; do_stat gives the size of the source.  With *)
(* the remote file open the local one cannot be opened or is larger than   *)
(* the source (goto fail), or the transfer starts; get empties the file.   *)
StartGet(r) ==
  LET file == IF r = "reget" THEN local ELSE <<>>
      start == Len(file)
  IN /\ r \in {"get", "reget"}
     /\ Start(r)
     /\ \/ Refused(r)
        \/ /\ \E i \in 1..(Len(handles) + 1) :
                /\ ProcessOpen("read", i)
                /\ \/ /\ op' = "fail"
                      /\ g' = [NoTransfer EXCEPT !.h = i]
                      /\ UNCHANGED <<local, uncut>>
                   \/ /\ start <= Size
                      /\ op' = "get"
                      /\ g' = [h |-> i, offset |-> start, highwater |-> start,
                               buflen |-> BufLen, num_req |-> 0, max_req |-> 1,
                               requests |-> <<>>, reordered |-> FALSE,
                               read_error |-> FALSE, write_error |-> FALSE,
                               id |-> msg_id + 1, send |-> <<>>, done |-> FALSE]
                      /\ local' = file
                      /\ uncut' = (uncut /\ r = "reget")
           /\ msg_id' = msg_id + 1
           /\ UNCHANGED <<u, remote, last>>
     /\ UNCHANGED <<reqs, reps, disk, shorts, faults, intr, failed>>

\* Mutant: the way out at the label fail forgets do_close.
GetFailNoClose == /\ op = "fail"
                  /\ op' = "idle"
                  /\ g' = NoTransfer
                  /\ last' = Outcome(FALSE)
                  /\ UNCHANGED <<cmd, u, msg_id, interrupted, reqs, reps, svars, local,
                                 disk, remote, ops, shorts, faults, intr, failed, uncut>>

(* do_download, label fail *)
GetFail == op = "fail" /\ DoClose(g.h, FALSE) /\ UNCHANGED <<local, disk>>

(* The loop is entered: the first request goes out. *)
GetBegin == /\ op = "get" /\ g.num_req = 0
            /\ \E s \in {DownloadTop(g)} : DownloadTurn(s, local)
            /\ UNCHANGED <<cmd, interrupted, reps, disk, remote, ops, shorts,
                           faults, intr, failed, uncut>>

Answers == IF Reorder THEN DOMAIN reps ELSE {1} \cap DOMAIN reps
Pending(q, rep) == {i \in DOMAIN q : q[i].id = rep.id}

\* Mutant: after EOF the requests still under way are forgotten.
GotStatusDropsRest(s, i, rep) ==
  [s EXCEPT !.read_error = @ \/ rep.type # "EOF", !.max_req = 0,
            !.requests = <<>>, !.num_req = 0]

(* case SSH2_FXP_STATUS *)
GotStatus(s, i, rep) ==
  [s EXCEPT !.read_error = @ \/ rep.type # "EOF", !.max_req = 0,
            !.requests = RemoveAt(@, i), !.num_req = @ - 1]

\* Mutant: highwater follows every block, also past one that is missing.
HighwaterAny(s, req, len, bad) ==
  IF bad THEN s.highwater ELSE Larger(s.highwater, req.off + len)

(* The highest contiguous point, known until an answer is out of order *)
Highwater(s, req, len, bad) ==
  IF ~bad /\ ~s.reordered /\ req.off <= s.highwater
  THEN req.off + len ELSE s.highwater

\* Mutant: a short block is taken for the whole block.
WholeAlways(req, len) == TRUE

Whole(req, len) == len = req.len

(* case SSH2_FXP_DATA; ok: lseek and write of the local file succeed *)
GotData(s, i, rep, ok) ==
  LET req == s.requests[i]
      len == Len(rep.data)
      bad == ~ok /\ ~s.write_error
      whole == Whole(req, len)
      max == IF bad THEN 0 ELSE s.max_req
      more == [id |-> s.id, off |-> req.off + len, len |-> req.len - len]
  IN [s EXCEPT
        !.write_error = @ \/ bad,
        !.highwater = Highwater(s, req, len, bad),
        !.reordered = @ \/ (~bad /\ req.off > s.highwater),
        !.requests = IF whole THEN RemoveAt(@, i) ELSE ReplaceAt(@, i, more),
        !.send = IF whole THEN <<>> ELSE <<more>>,
        !.num_req = IF whole THEN @ - 1 ELSE @,
        !.id = IF whole THEN @ ELSE @ + 1,
        !.buflen = IF ~whole /\ len < @ THEN len ELSE @,
        !.max_req = IF max = 0 THEN 0
                    ELSE IF Size > 0 /\ s.offset > Size THEN 1
                    ELSE IF max <= NumRequests THEN max + 1 ELSE max]

(* do_download, the loop from get_msg to the next get_msg *)
GetReceive ==
  /\ op = "get" /\ g.num_req > 0
  /\ \E a \in Answers : \E rep \in {reps[a]} :
       /\ reps' = RemoveAt(reps, a)
       /\ IF Pending(g.requests, rep) = {}
          THEN Fatal /\ UNCHANGED disk
          ELSE \E i \in Pending(g.requests, rep), ok \in BOOLEAN :
                 /\ ok \/ (rep.type = "DATA" /\ disk < MaxDisk)
                 /\ disk' = IF ok THEN disk ELSE disk + 1
                 /\ \E s \in {DownloadTop(IF rep.type = "DATA"
                                          THEN GotData(g, i, rep, ok)
                                          ELSE GotStatus(g, i, rep))} :
                      DownloadTurn(s, IF rep.type = "DATA" /\ ok
                        THEN WriteAt(local, g.requests[i].off, rep.data)
                        ELSE local)
  /\ UNCHANGED <<cmd, interrupted, remote, ops, shorts, faults, intr, failed, uncut>>

(* Behind the loop: the file is cut at the highest contiguous point after  *)
(* an error or an interrupt; when ftruncate fails do_download goes on.     *)
GetTruncate ==
  /\ op = "done"
  /\ op' = IF g.requests # <<>> THEN "fatal" ELSE "closing"
  /\ IF g.requests = <<>> /\ (g.read_error \/ g.write_error \/ interrupted)
     THEN \/ local' = Ftruncate(local, g.highwater) /\ UNCHANGED <<disk, uncut>>
          \/ disk < MaxDisk /\ disk' = disk + 1 /\ uncut' = TRUE /\ UNCHANGED local
     ELSE UNCHANGED <<local, disk, uncut>>
  /\ UNCHANGED <<cmd, g, u, msg_id, interrupted, reqs, reps, svars, remote, ops, shorts,
                 faults, intr, last, failed>>

(* The three ends of do_download; c: the server reports the close as done. *)
GetEnd ==
  /\ op = "closing"
  /\ \/ g.read_error /\ DoClose(g.h, FALSE)
     \/ ~g.read_error /\ g.write_error /\ DoClose(g.h, FALSE)
     \/ /\ ~g.read_error /\ ~g.write_error
        /\ \E c \in BOOLEAN : DoClose(g.h, c /\ ~interrupted)
  /\ UNCHANGED <<local, disk>>

-----------------------------------------------------------------------------
(* do_upload up to the loop *)
StartPut(r) ==
  LET start == IF r = "reput" THEN Len(remote) ELSE 0
  IN /\ r \in {"put", "reput"}
     /\ Start(r)
     /\ \/ Refused(r) /\ UNCHANGED failed
        \/ /\ r = "reput" => start < Size
           /\ \E i \in 1..(Len(handles) + 1) :
                /\ ProcessOpen(IF r = "reput" THEN "append" ELSE "write", i)
                /\ u' = [h |-> i, id |-> msg_id, startid |-> msg_id + 1,
                         ackid |-> msg_id + 1, requests |-> <<>>,
                         offset |-> start, status |-> "OK", len |-> 0,
                         waiting |-> FALSE]
           /\ op' = "put"
           /\ remote' = IF r = "put" THEN <<>> ELSE remote
           /\ failed' = (failed /\ r = "reput")
           /\ msg_id' = msg_id + 1
           /\ UNCHANGED <<g, local, last>>
     /\ UNCHANGED <<reqs, reps, disk, shorts, faults, intr, uncut>>

\* Mutant: do_upload waits when its window is full, not for the last answers.
MustWaitOnlyWindow(id, len) == id = u.startid \/ id - u.ackid >= NumRequests

MustWait(id, len) == id = u.startid \/ len = 0 \/ id - u.ackid >= NumRequests

(* Blocks that do_upload reads of the local file *)
ReadLen == IF interrupted \/ u.status # "OK" THEN 0
           ELSE Smaller(BufLen, Size - u.offset)

(* do_upload, the loop from the read of the local file to get_msg, or the  *)
(* whole turn when there is no need to wait yet.                           *)
PutSend ==
  LET len == ReadLen
      id == IF len > 0 THEN u.id + 1 ELSE u.id
      wait == MustWait(id, len)
      data == SubSeq(Full, u.offset + 1, u.offset + len)
  IN /\ op = "put" /\ ~u.waiting
     /\ len > 0 \/ u.requests # <<>>
     /\ u' = [u EXCEPT !.id = id, !.len = len, !.waiting = wait,
                !.offset = IF wait THEN @ ELSE @ + len,
                !.requests = IF len > 0 THEN Append(@, [id |-> id]) ELSE @]
     /\ reqs' = IF len > 0
                THEN Append(reqs, [type |-> "WRITE", id |-> id, h |-> u.h,
                                   off |-> u.offset, data |-> data])
                ELSE reqs
     /\ UNCHANGED <<op, g, msg_id, svars, last, cmd, interrupted, reps, local, disk,
                    remote, ops, shorts, faults, intr, failed, uncut>>

(* do_upload leaves its loop; c: both files are closed with success. *)
PutEnd ==
  /\ op = "put" /\ ~u.waiting
  /\ ReadLen = 0 /\ u.requests = <<>>
  /\ \E c \in BOOLEAN : DoClose(u.h, u.status = "OK" /\ c)
  /\ UNCHANGED <<local, disk>>

(* do_upload, the loop from get_msg to its end: the status of this answer  *)
(* replaces the status of the answers before it.                           *)
PutReceive ==
  /\ op = "put" /\ u.waiting
  /\ \E a \in Answers :
       /\ reps' = RemoveAt(reps, a)
       /\ IF Pending(u.requests, reps[a]) = {}
          THEN Fatal
          ELSE \E i \in Pending(u.requests, reps[a]) :
               /\ u' = [u EXCEPT !.status = reps[a].type, !.ackid = @ + 1,
                                 !.requests = RemoveAt(@, i),
                                 !.offset = @ + u.len, !.waiting = FALSE]
               /\ UNCHANGED <<op, cmd, g, msg_id, interrupted, reqs, svars,
                              local, remote, faults, last>>
  /\ UNCHANGED <<disk, ops, shorts, intr, failed, uncut>>

-----------------------------------------------------------------------------
(* cmd_interrupt *)
Interrupt == /\ op \notin {"idle", "fatal"} /\ ~interrupted
             /\ intr < MaxIntr
             /\ intr' = intr + 1
             /\ interrupted' = TRUE
             /\ UNCHANGED <<op, cmd, g, u, msg_id, reqs, reps, svars, local,
                            disk, remote, ops, shorts, faults, last, failed, uncut>>

(* The local file may be absent, be a part of the source or be longer. *)
Init == /\ op = "idle" /\ cmd = "none" /\ g = NoTransfer /\ u = NoTransfer
        /\ msg_id = 1 /\ interrupted = FALSE
        /\ reqs = <<>> /\ reps = <<>>
        /\ handles = <<>> /\ unused = <<>>
        /\ local \in {<<>>, Append(Full, 0)}
        /\ remote = <<>>
        /\ ops = 0 /\ shorts = 0 /\ faults = 0 /\ disk = 0 /\ intr = 0
        /\ last = [cmd |-> "none", ok |-> FALSE, interrupted |-> FALSE]
        /\ failed = FALSE /\ uncut = FALSE

Client == \/ GetFail \/ GetBegin \/ GetReceive \/ GetTruncate \/ GetEnd
          \/ PutSend \/ PutReceive \/ PutEnd
Next == \/ \E r \in Commands : StartGet(r) \/ StartPut(r)
        \/ Client \/ Process
        \/ Interrupt

Spec == Init /\ [][Next]_vars

(* Client and server each go on while they can. *)
FairSpec == Spec /\ WF_vars(Client) /\ WF_vars(Process)

-----------------------------------------------------------------------------
(* Shape of the state. *)
TypeOK ==
  /\ op \in {"idle", "fail", "get", "done", "closing", "put", "fatal"}
  /\ \A i \in DOMAIN handles : handles[i] \in {"unused", "read", "write", "append"}
  /\ Range(unused) = {i \in DOMAIN handles : handles[i] = "unused"}
  /\ local \in Seq(0..Size) /\ remote \in Seq(0..Size)
  /\ op = "get" => g.num_req = Len(g.requests)

(* No answer meets fatal("Unexpected reply") or "ID mismatch": short reads *)
(* are asked for again under new numbers, do_upload counts its own, and a  *)
(* command that was interrupted leaves nothing under way and no "requests  *)
(* still in queue".                                                        *)
EveryAnswerExpected == op # "fatal"

(* A get that was refused left the file alone. *)
Transferred == op = "idle" /\ last.cmd \in {"get", "reget"}

(* Whatever failed, was interrupted, came short or out of order, a get     *)
(* leaves a beginning of the source without holes: what a reget relies on  *)
(* and what the comment in do_download states, "Truncate at highest        *)
(* contiguous point to avoid holes on interrupt".                          *)
NoHoles == Transferred /\ Len(local) <= Size => IsPrefix(local, Full)

(* NoHoles holds as long as one write of the local file fails at most and  *)
(* ftruncate does not: do_download takes a second failed write for a       *)
(* success, and only prints an error when it cannot cut the file.          *)
GetLeavesPrefix == disk <= 1 /\ ~uncut => NoHoles

(* A get or reget that reports success has copied the whole file, if no    *)
(* earlier get left a hole: short, failed and reordered reads, interrupts  *)
(* and resumed transfers of do_download included.                          *)
GetComplete == Transferred /\ last.ok /\ disk <= 1 /\ ~uncut => local = Full

(* A put that reports success has copied the file unless it was            *)
(* interrupted or a write failed on the way; a reput completes what an     *)
(* interrupted put left.                                                   *)
PutComplete ==
  op = "idle" /\ last.cmd \in {"put", "reput"} /\ last.ok
    => \/ remote = Full
       \/ failed
       \/ last.interrupted /\ IsPrefix(remote, Full)

(* Between commands the server has no open handle: each of the five ways   *)
(* out of do_download and do_upload that is behind process_open, the label *)
(* fail among them, closes the handle that handle_new gave, and it is      *)
(* still the one the transfer was given.                                   *)
NoHandleLeft == op = "idle" => \A i \in DOMAIN handles : handles[i] = "unused"

(* Every transfer ends, with any pipeline depth, short reads and faults. *)
TransferEnds == (op # "idle") ~> (op = "idle")
=============================================================================
