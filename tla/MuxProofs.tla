----------------------------- MODULE MuxProofs ------------------------------
(***************************************************************************)
(* Proofs about Mux, for any number of slaves, channel numbers, commands   *)
(* and forwardings.                                                        *)
(*                                                                         *)
(* The master keeps numbers of channels across callbacks: fctx->cid of a   *)
(* forwarding, ctl_chan and remote_id of a session, and the numbers of     *)
(* sessions in packets.  The inductive invariant says what each of them    *)
(* refers to (Owned, Linked, Queue, Wire), and how the slave and its       *)
(* control channel take turns (Talk), which is why a channel that waits    *)
(* for an answer is never freed.                                           *)
(***************************************************************************)
EXTENDS Mux, SequenceTheorems, TLAPS

Kinds == {"HELLO", "OK", "FAILURE", "REMOTE_PORT", "SESSION_OPENED", "EXIT_MESSAGE",
          "TTY_ALLOC_FAIL"}
Message == [type : Kinds, for : Slaves]
Pcs == {"idle", "hello", "asked", "attached", "fallback", "gone"}
Slave ==
  [pc : Pcs, cmd : Seq(Requests), todo : Seq(Requests), ctl : Ids \cup {NoChan},
   in : Seq(Message), out : Seq(Requests), failed : BOOLEAN, exit : BOOLEAN, killed : BOOLEAN]
Ctl ==
  [kind : {"ctl"}, slave : Slaves, mux_pause : BOOLEAN, drain : BOOLEAN, out : Seq(Message),
   remote_id : Ids \cup {NoChan}]
Ses ==
  [kind : {"session"}, ctl_chan : Ids \cup {NoChan}, type : {"opening", "open", "failed"},
   dead : BOOLEAN, tty : BOOLEAN, for : Slaves]

\* A sequence of whatever.
IsSeq(q) == q \in Seq({q[k] : k \in DOMAIN q})

Shape ==
  /\ slave \in [Slaves -> Slave]
  /\ chan \in [Ids -> {Free} \cup Ctl \cup Ses]
  /\ IsSeq(confirms) /\ IsSeq(toServer) /\ IsSeq(toClient)
  /\ progs \subseteq Ids

\* Only the last request of a slave is for a session.
LastIsSession(t) ==
  /\ \A k \in DOMAIN t.todo :
       /\ t.todo[k].type = "NEW_SESSION" => k = Len(t.todo) /\ t.todo[k].tty \in BOOLEAN
  /\ \A k \in DOMAIN t.out :
       t.out[k].type = "NEW_SESSION" => t.todo = <<>> /\ t.out[k].tty \in BOOLEAN

Controls == {i \in Ids : chan[i].kind = "ctl"}
Sessions == {j \in Ids : chan[j].kind = "session"}

\* A slave has one control channel.
Owned ==
  /\ \A i \in Controls : slave[chan[i].slave].ctl = i
  /\ \A s \in Slaves : slave[s].ctl # NoChan =>
       slave[s].ctl \in Controls /\ chan[slave[s].ctl].slave = s
  /\ \A s \in Slaves : slave[s].pc = "idle" =>
       slave[s].ctl = NoChan /\ slave[s].in = <<>> /\ slave[s].out = <<>>

\* remote_id and ctl_chan are inverse; the control channel is paused exactly
\* while its session is being opened.
Linked ==
  /\ \A i \in Controls : chan[i].remote_id # NoChan =>
       /\ chan[i].remote_id \in Sessions /\ chan[chan[i].remote_id].ctl_chan = i
       /\ chan[i].mux_pause => chan[chan[i].remote_id].type = "opening"
  /\ \A j \in Sessions : chan[j].ctl_chan # NoChan =>
       /\ chan[j].ctl_chan \in Controls /\ chan[chan[j].ctl_chan].remote_id = j
       /\ chan[chan[j].ctl_chan].slave = chan[j].for
  /\ \A j \in Sessions : chan[j].type = "opening" =>
       ~chan[j].dead /\ chan[j].ctl_chan # NoChan /\ chan[chan[j].ctl_chan].mux_pause

\* The slave t and its control channel c take turns.  Until there is a session,
\* one message at most is under way between them.
Busy(c) == c.remote_id # NoChan \/ c.drain
Talk(t, c) ==
  /\ c.mux_pause => c.out = <<>> /\ t.in = <<>> /\ t.out = <<>> /\ ~c.drain
  /\ Busy(c) => t.todo = <<>> /\ t.out = <<>>
  /\ ~Busy(c) => Len(t.in) + Len(c.out) + Len(t.out) <= 1

\* What a slave that waits can expect.
Replies == {"OK", "REMOTE_PORT", "FAILURE"}
Final == {"SESSION_OPENED", "FAILURE"}
Awaits(t, c) ==
  /\ t.pc = "hello" => /\ ~Busy(c) /\ ~c.mux_pause /\ t.out = <<>>
                       /\ t.in = <<>> => c.out # <<>>
  /\ t.pc = "asked" /\ ~Busy(c) =>
       /\ t.in # <<>> => Head(t.in).type \in Replies
       /\ c.out # <<>> => Head(c.out).type \in Replies
       /\ t.in # <<>> \/ c.out # <<>> \/ t.out # <<>> \/ c.mux_pause
  /\ t.pc = "asked" /\ Busy(c) /\ ~c.mux_pause =>
       /\ t.in # <<>> => Head(t.in).type \in Final
       /\ t.in = <<>> => c.out # <<>> /\ Head(c.out).type \in Final

Talks ==
  \A s \in Slaves : slave[s].ctl # NoChan =>
    Talk(slave[s], chan[slave[s].ctl]) /\ Awaits(slave[s], chan[slave[s].ctl])

\* A confirmation is for a control channel that waits for it, and only for it.
Waits(i) == i \in Controls /\ chan[i].mux_pause /\ chan[i].remote_id = NoChan
IsMux(gc) == gc.cb = "mux"
Known(gc) == "cb" \in DOMAIN gc /\ gc.cb \in {"mux", "init", "none"}
Queue ==
  /\ \A k \in DOMAIN confirms : Known(confirms[k])
  /\ \A k \in DOMAIN confirms : IsMux(confirms[k]) =>
       /\ confirms[k].ref_count = 1 /\ Waits(confirms[k].cid)
       /\ chan[confirms[k].cid].slave = confirms[k].for
  /\ \A k, l \in DOMAIN confirms :
       IsMux(confirms[k]) /\ IsMux(confirms[l]) /\ confirms[k].cid = confirms[l].cid => k = l
  /\ \A i \in Ids : Waits(i) =>
       \E k \in DOMAIN confirms : IsMux(confirms[k]) /\ confirms[k].cid = i

\* The packets about a session: it exists, and it is in one stage of its life.
Opening(j) == j \in Sessions /\ ~chan[j].dead /\ chan[j].type = "opening"
Open(j) == j \in Sessions /\ ~chan[j].dead /\ chan[j].type = "open"
Asks(m) == m.type \in {"OPEN", "SETUP"}
Tells(m) == m.type \in {"OPENED", "TTY_FAILURE", "EXIT", "CLOSE"}
Ends(m) == m.type \in {"OPENED", "CLOSE"}
Stage(m) == IF m.type \in {"OPEN", "OPENED"} THEN Opening(m.chan) ELSE Open(m.chan)
Wire ==
  /\ \A k \in DOMAIN toServer : Asks(toServer[k]) =>
       Stage(toServer[k]) /\ toServer[k].chan \notin progs
  /\ \A k, l \in DOMAIN toServer :
       Asks(toServer[k]) /\ Asks(toServer[l]) /\ toServer[k].chan = toServer[l].chan => k = l
  /\ \A k \in DOMAIN toClient : Tells(toClient[k]) => Stage(toClient[k])
  /\ \A k \in DOMAIN toClient : Ends(toClient[k]) => toClient[k].chan \notin progs
  /\ \A k \in DOMAIN toClient, l \in DOMAIN toServer :
       Ends(toClient[k]) /\ Asks(toServer[l]) => toClient[k].chan # toServer[l].chan
  /\ \A k, l \in DOMAIN toClient :
       Ends(toClient[k]) /\ Tells(toClient[l]) /\ k < l => toClient[k].chan # toClient[l].chan
  /\ \A j \in progs : Open(j)
  /\ \A j \in Ids : Opening(j) =>
       \/ \E k \in DOMAIN toServer : toServer[k].type = "OPEN" /\ toServer[k].chan = j
       \/ \E k \in DOMAIN toClient : toClient[k].type = "OPENED" /\ toClient[k].chan = j

\* While the master runs.
Orderly == Owned /\ Linked /\ Talks /\ Queue /\ Wire

\* The ways the master may end, as far as its channels are concerned.
Survives == over \in {"no", "quit", "tty_failed", "port_unread", "dangling"}

\* The inductive invariant.
IInv ==
  /\ Shape /\ (\A s \in Slaves : LastIsSession(slave[s]))
  /\ Survives /\ AnswerReachesAsker
  /\ Running => Orderly

-----------------------------------------------------------------------------
(* Sequences.                                                              *)

\* A sequence is one of its own elements.
LEMMA SeqIs ==
  ASSUME NEW R, NEW q \in Seq(R)
  PROVE  IsSeq(q)
<1> DEFINE S == {q[k] : k \in DOMAIN q}
<1>1. Len(q) \in Nat /\ DOMAIN q = 1..Len(q) /\ q = [k \in 1..Len(q) |-> q[k]]
  OBVIOUS
<1>2. \A k \in 1..Len(q) : q[k] \in S
  BY <1>1
<1> HIDE DEF S
<1>3. q \in [1..Len(q) -> S]
  BY <1>1, <1>2
<1>4. q \in Seq(S)
  BY <1>1, <1>3
<1> QED BY <1>4 DEF IsSeq, S

\* A sequence grows at its end.
LEMMA SeqAppend ==
  ASSUME NEW q, IsSeq(q), NEW e
  PROVE  /\ IsSeq(Append(q, e)) /\ Len(q) \in Nat
         /\ DOMAIN q = 1..Len(q) /\ DOMAIN Append(q, e) = 1..(Len(q) + 1)
         /\ Append(q, e)[Len(q) + 1] = e
         /\ \A k \in DOMAIN q : k \in DOMAIN Append(q, e) /\ Append(q, e)[k] = q[k]
<1> DEFINE R == {q[k] : k \in DOMAIN q} \cup {e}
           a == Append(q, e)
<1>1. q \in Seq(R)
  <2>1. q \in Seq({q[k] : k \in DOMAIN q})
    BY DEF IsSeq
  <2> QED BY <2>1
<1>2. e \in R
  OBVIOUS
<1> HIDE DEF R
<1>3. /\ a \in Seq(R) /\ Len(q) \in Nat /\ DOMAIN q = 1..Len(q) /\ DOMAIN a = 1..(Len(q) + 1)
      /\ a[Len(q) + 1] = e /\ \A k \in DOMAIN q : k \in DOMAIN a /\ a[k] = q[k]
  BY <1>1, <1>2
<1>4. IsSeq(a)
  BY <1>3, SeqIs
<1> QED BY <1>3, <1>4

\* A sequence loses its head.
LEMMA SeqTail ==
  ASSUME NEW q, IsSeq(q), q # <<>>
  PROVE  /\ IsSeq(Tail(q)) /\ Len(q) \in Nat \ {0}
         /\ DOMAIN q = 1..Len(q) /\ DOMAIN Tail(q) = 1..(Len(q) - 1)
         /\ \A k \in DOMAIN Tail(q) : k + 1 \in DOMAIN q /\ Tail(q)[k] = q[k + 1]
         /\ 1 \in DOMAIN q /\ Head(q) = q[1]
<1> DEFINE R == {q[k] : k \in DOMAIN q}
           a == Tail(q)
<1>1. q \in Seq(R)
  BY DEF IsSeq
<1> HIDE DEF R
<1>2. /\ Len(q) \in Nat \ {0} /\ DOMAIN q = 1..Len(q) /\ 1 \in DOMAIN q /\ Head(q) = q[1]
  BY <1>1
<1>3. /\ a \in Seq(R) /\ DOMAIN a = 1..(Len(q) - 1)
      /\ \A k \in DOMAIN a : k + 1 \in DOMAIN q /\ a[k] = q[k + 1]
  BY <1>1, <1>2
<1>4. IsSeq(a)
  BY <1>3, SeqIs
<1> QED BY <1>2, <1>3, <1>4

\* A place of a sequence is written.
LEMMA SeqExcept ==
  ASSUME NEW q, IsSeq(q), NEW k \in DOMAIN q, NEW e
  PROVE  /\ IsSeq([q EXCEPT ![k] = e]) /\ DOMAIN [q EXCEPT ![k] = e] = DOMAIN q
         /\ [q EXCEPT ![k] = e][k] = e
         /\ \A l \in DOMAIN q : l # k => [q EXCEPT ![k] = e][l] = q[l]
<1> DEFINE R == {q[l] : l \in DOMAIN q} \cup {e}
           a == [q EXCEPT ![k] = e]
<1>1. q \in Seq(R)
  <2>1. q \in Seq({q[l] : l \in DOMAIN q})
    BY DEF IsSeq
  <2> QED BY <2>1
<1>2. e \in R
  OBVIOUS
<1> HIDE DEF R
<1>3. /\ a \in Seq(R) /\ DOMAIN a = DOMAIN q /\ a[k] = e
      /\ \A l \in DOMAIN q : l # k => a[l] = q[l]
  BY <1>1, <1>2
<1>4. IsSeq(a)
  BY <1>3, SeqIs
<1> QED BY <1>3, <1>4

\* One message in three queues.
LEMMA OneMessage ==
  ASSUME NEW R, NEW S, NEW a \in Seq(R), NEW b \in Seq(R), NEW c \in Seq(S),
         Len(a) + Len(b) + Len(c) <= 1
  PROVE  /\ a # <<>> => Len(a) = 1 /\ Tail(a) = <<>> /\ b = <<>> /\ c = <<>>
         /\ b # <<>> => Len(b) = 1 /\ Tail(b) = <<>> /\ a = <<>> /\ c = <<>>
         /\ c # <<>> => Len(c) = 1 /\ Tail(c) = <<>> /\ a = <<>> /\ b = <<>>
<1>1. Len(a) \in Nat /\ Len(b) \in Nat /\ Len(c) \in Nat
  OBVIOUS
<1>2. /\ a # <<>> <=> Len(a) # 0
      /\ b # <<>> <=> Len(b) # 0
      /\ c # <<>> <=> Len(c) # 0
  OBVIOUS
<1>3. /\ Len(a) = 1 => Tail(a) \in Seq(R) /\ Len(Tail(a)) = 0
      /\ Len(b) = 1 => Tail(b) \in Seq(R) /\ Len(Tail(b)) = 0
      /\ Len(c) = 1 => Tail(c) \in Seq(S) /\ Len(Tail(c)) = 0
  OBVIOUS
<1>4. /\ Len(a) = 1 => Tail(a) = <<>>
      /\ Len(b) = 1 => Tail(b) = <<>>
      /\ Len(c) = 1 => Tail(c) = <<>>
  BY <1>3
<1>5. /\ Len(a) # 0 => Len(a) = 1 /\ Len(b) = 0 /\ Len(c) = 0
      /\ Len(b) # 0 => Len(b) = 1 /\ Len(a) = 0 /\ Len(c) = 0
      /\ Len(c) # 0 => Len(c) = 1 /\ Len(a) = 0 /\ Len(b) = 0
  <2>1. \A x, y, z \in Nat : x + y + z <= 1 =>
          /\ x # 0 => x = 1 /\ y = 0 /\ z = 0
          /\ y # 0 => y = 1 /\ x = 0 /\ z = 0
          /\ z # 0 => z = 1 /\ x = 0 /\ y = 0
    OBVIOUS
  <2> QED BY <1>1, <2>1
<1> QED BY <1>2, <1>4, <1>5

-----------------------------------------------------------------------------
(* What the steps have in common.                                          *)

\* The kind of a channel says which fields it has.
LEMMA ChanKind ==
  ASSUME Shape, NEW i \in Ids
  PROVE  /\ i \in Controls => chan[i] \in Ctl
         /\ i \in Sessions => chan[i] \in Ses
         /\ i \notin Controls /\ i \notin Sessions => chan[i] = Free
<1>1. chan[i] \in {Free} \cup Ctl \cup Ses
  BY DEF Shape
<1>2. Free.kind = "free"
  BY DEF Free
<1>3. chan[i] \in Ctl => chan[i].kind = "ctl"
  BY DEF Ctl
<1>4. chan[i] \in Ses => chan[i].kind = "session"
  BY DEF Ses
<1> QED BY <1>1, <1>2, <1>3, <1>4 DEF Controls, Sessions

\* The same in the next state.
LEMMA NewChan ==
  ASSUME NEW c
  PROVE  /\ c \in Ctl => c.kind = "ctl" /\ c.kind # "session" /\ c \in {Free} \cup Ctl \cup Ses
         /\ c \in Ses => c.kind = "session" /\ c.kind # "ctl" /\ c \in {Free} \cup Ctl \cup Ses
         /\ Free.kind = "free" /\ Free \in {Free} \cup Ctl \cup Ses
<1>1. c \in Ctl => c.kind = "ctl"
  BY DEF Ctl
<1>2. c \in Ses => c.kind = "session"
  BY DEF Ses
<1>3. Free.kind = "free"
  BY DEF Free
<1> QED BY <1>1, <1>2, <1>3

\* No channel has the number 0.
LEMMA NoChanNoId == NoChan \notin Ids
BY MuxAssumption DEF NoChan

\* The confirmations, where no channel begins or ceases to wait for one.
LEMMA QueueFrame ==
  ASSUME Queue, confirms' = confirms, \A i \in Ids : Waits(i)' <=> Waits(i),
         \A i \in Ids : Waits(i) => chan'[i].slave = chan[i].slave
  PROVE  Queue'
<1>1. \A i : Waits(i) => i \in Ids
  BY DEF Waits, Controls
<1> QED BY <1>1 DEF Queue

\* The packets, where no session changes its stage.
LEMMA WireFrame ==
  ASSUME Wire, toServer' = toServer, toClient' = toClient, progs' = progs,
         \A j \in Ids : Opening(j)' <=> Opening(j), \A j \in Ids : Open(j) => Open(j)'
  PROVE  Wire'
<1>1. \A j : (Opening(j) => j \in Ids) /\ (Open(j) => j \in Ids)
  BY DEF Opening, Open, Sessions
<1>2. \A j : (Opening(j) => Opening(j)') /\ (Open(j) => Open(j)')
  BY <1>1
<1>3. \A m : Stage(m) => Stage(m)'
  BY <1>2 DEF Stage
<1> QED BY <1>2, <1>3 DEF Wire

\* A step of slave s that leaves the channels alone.
LEMMA SlaveUpdate ==
  ASSUME Shape, Orderly, NEW s \in Slaves, NEW t \in Slave, chan' = chan,
         slave' = [slave EXCEPT ![s] = t], t.ctl = slave[s].ctl, t.pc # "idle",
         confirms' = confirms, toServer' = toServer, toClient' = toClient, progs' = progs,
         t.ctl # NoChan => Talk(t, chan[t.ctl]) /\ Awaits(t, chan[t.ctl])
  PROVE  Orderly'
<1>1. slave \in [Slaves -> Slave]
  BY DEF Shape
<1>2. slave'[s] = t /\ \A r \in Slaves : r # s => slave'[r] = slave[r]
  BY <1>1
<1>3. \A r \in Slaves : slave'[r].ctl = slave[r].ctl
  BY <1>2
<1>4. Controls' = Controls /\ Sessions' = Sessions
  BY DEF Controls, Sessions
<1>5. \A i \in Controls : i \in Ids /\ chan[i].slave \in Slaves
  <2>1. \A i \in Controls : i \in Ids /\ chan[i] \in Ctl
    BY ChanKind DEF Controls
  <2> QED BY <2>1 DEF Ctl
<1>6. Owned'
  BY <1>2, <1>3, <1>4, <1>5 DEF Orderly, Owned
<1>7. Linked'
  BY <1>4 DEF Orderly, Linked
<1>8. Talks'
  BY <1>2, <1>3 DEF Orderly, Talks
<1>9. Queue'
  BY <1>4, QueueFrame DEF Orderly, Waits
<1>10. Wire'
  BY <1>4, WireFrame DEF Orderly, Opening, Open
<1> QED BY <1>6, <1>7, <1>8, <1>9, <1>10 DEF Orderly

\* A step of control channel i and its slave that leaves the links alone.
LEMMA CtlUpdate ==
  ASSUME Shape, Orderly, NEW i \in Controls, NEW c \in Ctl, NEW t \in Slave,
         chan' = [chan EXCEPT ![i] = c], c.slave = chan[i].slave, c.remote_id = chan[i].remote_id,
         slave' = [slave EXCEPT ![c.slave] = t], t.ctl = i, t.pc # "idle",
         c.remote_id # NoChan => c.mux_pause = chan[i].mux_pause,
         Talk(t, c), Awaits(t, c)
  PROVE  /\ Owned' /\ Linked' /\ Talks' /\ Controls' = Controls /\ Sessions' = Sessions
         /\ chan' \in [Ids -> {Free} \cup Ctl \cup Ses] /\ slave' \in [Slaves -> Slave]
         /\ \A j \in Ids : (Opening(j)' <=> Opening(j)) /\ (Open(j)' <=> Open(j))
         /\ chan'[i] = c /\ \A k \in Ids : k # i => chan'[k] = chan[k]
<1>1. /\ slave \in [Slaves -> Slave] /\ chan \in [Ids -> {Free} \cup Ctl \cup Ses]
      /\ i \in Ids /\ chan[i] \in Ctl /\ c.slave \in Slaves /\ c.kind = "ctl"
  <2>1. i \in Ids
    BY DEF Controls
  <2>2. chan[i] \in Ctl
    BY <2>1, ChanKind
  <2> QED BY <2>1, <2>2 DEF Shape, Ctl
<1> DEFINE s == c.slave
<1>2. slave'[s] = t /\ \A r \in Slaves : r # s => slave'[r] = slave[r]
  BY <1>1
<1>3. slave[s].ctl = i
  BY DEF Orderly, Owned
<1>4. \A r \in Slaves : slave'[r].ctl = slave[r].ctl
  BY <1>2, <1>3
<1>5. chan'[i] = c /\ \A k \in Ids : k # i => chan'[k] = chan[k]
  BY <1>1
<1>6. Controls' = Controls /\ Sessions' = Sessions
  <2>1. \A k \in Ids : chan'[k].kind = chan[k].kind
    BY <1>1, <1>5 DEF Controls
  <2> QED BY <2>1 DEF Controls, Sessions
<1>7. \A k \in Controls : k \in Ids /\ chan[k].slave \in Slaves /\ chan'[k].slave = chan[k].slave
                          /\ chan'[k].remote_id = chan[k].remote_id
                          /\ (chan[k].remote_id # NoChan => chan'[k].mux_pause = chan[k].mux_pause)
  <2>1. \A k \in Controls : k \in Ids /\ chan[k] \in Ctl
    BY ChanKind DEF Controls
  <2> QED BY <1>5, <2>1 DEF Ctl
<1>8. \A j \in Sessions : j \in Ids /\ chan'[j] = chan[j]
  BY <1>1, <1>5 DEF Sessions, Controls
<1> HIDE DEF s
<1>9. Owned'
  <2>1. \A k \in Controls' : slave'[chan'[k].slave].ctl = k
    BY <1>4, <1>6, <1>7 DEF Orderly, Owned
  <2>2. \A r \in Slaves : slave'[r].ctl # NoChan =>
          slave'[r].ctl \in Controls' /\ chan'[slave'[r].ctl].slave = r
    BY <1>4, <1>6, <1>7 DEF Orderly, Owned
  <2>3. \A r \in Slaves : slave'[r].pc = "idle" =>
          slave'[r].ctl = NoChan /\ slave'[r].in = <<>> /\ slave'[r].out = <<>>
    BY <1>2 DEF Orderly, Owned
  <2> QED BY <2>1, <2>2, <2>3 DEF Owned
<1>10. Linked'
  <2>1. \A k \in Controls : chan'[k].remote_id # NoChan =>
           /\ chan'[k].remote_id \in Sessions /\ chan'[chan'[k].remote_id].ctl_chan = k
           /\ chan'[k].mux_pause => chan'[chan'[k].remote_id].type = "opening"
    BY <1>7, <1>8 DEF Orderly, Linked
  <2>2. \A j \in Sessions : chan'[j].ctl_chan # NoChan =>
           /\ chan'[j].ctl_chan \in Controls /\ chan'[chan'[j].ctl_chan].remote_id = j
           /\ chan'[chan'[j].ctl_chan].slave = chan'[j].for
    BY <1>7, <1>8 DEF Orderly, Linked
  <2>3. ASSUME NEW j \in Sessions, chan'[j].type = "opening"
        PROVE  ~chan'[j].dead /\ chan'[j].ctl_chan # NoChan /\ chan'[chan'[j].ctl_chan].mux_pause
    <3>1. chan'[j] = chan[j] /\ j \in Ids /\ j # NoChan
      BY <1>8, NoChanNoId
    <3>2. ~chan[j].dead /\ chan[j].ctl_chan # NoChan /\ chan[chan[j].ctl_chan].mux_pause
      BY <2>3, <3>1 DEF Orderly, Linked
    <3>3. chan[j].ctl_chan \in Controls /\ chan[chan[j].ctl_chan].remote_id = j
      BY <3>2 DEF Orderly, Linked
    <3> QED BY <1>7, <3>1, <3>2, <3>3
  <2> QED BY <1>6, <2>1, <2>2, <2>3 DEF Linked
<1>11. Talks'
  <2> SUFFICES ASSUME NEW r \in Slaves, slave'[r].ctl # NoChan
               PROVE  Talk(slave'[r], chan'[slave'[r].ctl]) /\ Awaits(slave'[r], chan'[slave'[r].ctl])
    BY DEF Talks
  <2>1. CASE r = s
    BY <1>2, <1>5, <2>1
  <2>2. CASE r # s
    <3>1. slave'[r] = slave[r] /\ slave[r].ctl \in Controls /\ chan[slave[r].ctl].slave = r
      BY <1>2, <2>2 DEF Orderly, Owned
    <3>2. slave[r].ctl # i
      BY <2>2, <3>1 DEF s
    <3>3. chan'[slave[r].ctl] = chan[slave[r].ctl]
      BY <1>5, <1>7, <3>1, <3>2
    <3> QED BY <3>1, <3>3 DEF Orderly, Talks
  <2> QED BY <2>1, <2>2
<1>12. chan' \in [Ids -> {Free} \cup Ctl \cup Ses] /\ slave' \in [Slaves -> Slave]
  BY <1>1
<1>13. \A j \in Ids : (Opening(j)' <=> Opening(j)) /\ (Open(j)' <=> Open(j))
  BY <1>6, <1>8 DEF Opening, Open
<1> QED BY <1>5, <1>6, <1>9, <1>10, <1>11, <1>12, <1>13

-----------------------------------------------------------------------------
(* The slaves.                                                             *)

\* What a slave may do with a message.
Rests(u, r) == r.out = u.out /\ r.todo = u.todo
Asking(u, r) ==
  /\ r.pc = "asked" /\ u.todo # <<>> /\ r.out = Append(u.out, Head(u.todo)) /\ r.todo = Tail(u.todo)

\* mux_client_forwards: the next request.
LEMMA AskFacts ==
  ASSUME NEW u \in Slave, LastIsSession(u)
  PROVE  /\ Ask(u) \in Slave /\ Ask(u).ctl = u.ctl /\ Ask(u).in = u.in /\ LastIsSession(Ask(u))
         /\ \/ Asking(u, Ask(u))
            \/ Rests(u, Ask(u)) /\ Ask(u).pc \in {"gone", "fallback"}
<1>1. u.todo \in Seq(Requests) /\ u.out \in Seq(Requests) /\ u.pc \in Pcs
  BY DEF Slave
<1> DEFINE may == u.todo # <<>> /\ ~(u.failed /\ Head(u.todo).type = "NEW_SESSION")
<1>2. CASE may
  <2> DEFINE o == Append(u.out, Head(u.todo))
             d == Tail(u.todo)
             r == [u EXCEPT !.pc = "asked", !.out = o, !.todo = d]
  <2>1. Ask(u) = r
    BY <1>2 DEF Ask
  <2>2. Head(u.todo) \in Requests /\ d \in Seq(Requests) /\ o \in Seq(Requests) /\ "asked" \in Pcs
    BY <1>1, <1>2 DEF Pcs
  <2>3. /\ r \in Slave /\ r.pc = "asked" /\ r.out = o /\ r.todo = d /\ r.in = u.in /\ r.ctl = u.ctl
    <3>1. o \in Seq(Requests) /\ d \in Seq(Requests) /\ "asked" \in Pcs
      BY <2>2
    <3> HIDE DEF o, d
    <3> QED BY <3>1 DEF Slave
  <2> HIDE DEF r
  <2>4. LastIsSession(r)
    <3>1. ASSUME NEW k \in DOMAIN d, d[k].type = "NEW_SESSION"
          PROVE  k = Len(d) /\ d[k].tty \in BOOLEAN
      <4>1. k + 1 \in DOMAIN u.todo /\ d[k] = u.todo[k + 1] /\ Len(d) = Len(u.todo) - 1 /\ k \in Nat
        BY <1>1, <1>2, <3>1
      <4> HIDE DEF d
      <4>2. k + 1 = Len(u.todo) /\ u.todo[k + 1].tty \in BOOLEAN
        BY <3>1, <4>1 DEF LastIsSession
      <4> QED BY <1>1, <4>1, <4>2
    <3>2. ASSUME NEW k \in DOMAIN o, o[k].type = "NEW_SESSION"
          PROVE  d = <<>> /\ o[k].tty \in BOOLEAN
      <4>1. (k \in DOMAIN u.out /\ o[k] = u.out[k]) \/ (k = Len(u.out) + 1 /\ o[k] = Head(u.todo))
        BY <1>1, <2>2
      <4>2. CASE k \in DOMAIN u.out /\ o[k] = u.out[k]
        <5> HIDE DEF o
        <5>1. u.todo = <<>>
          BY <3>2, <4>2 DEF LastIsSession
        <5> QED BY <1>2, <5>1
      <4>3. CASE o[k] = Head(u.todo)
        <5>1. 1 \in DOMAIN u.todo /\ u.todo[1] = Head(u.todo)
          BY <1>1, <1>2
        <5> HIDE DEF o, d
        <5>2. 1 = Len(u.todo) /\ u.todo[1].tty \in BOOLEAN
          BY <3>2, <4>3, <5>1 DEF LastIsSession
        <5>3. Len(d) = 0
          BY <1>1, <5>2 DEF d
        <5>4. d = <<>>
          BY <2>2, <5>3
        <5> QED BY <4>3, <5>1, <5>2, <5>4
      <4> QED BY <4>1, <4>2, <4>3
    <3> HIDE DEF o, d
    <3> QED BY <2>3, <3>1, <3>2 DEF LastIsSession
  <2> QED BY <1>2, <2>1, <2>3, <2>4 DEF Asking
<1>3. CASE ~may
  <2>1. PICK p \in {"gone", "fallback"} : Ask(u) = [u EXCEPT !.pc = p]
    BY <1>3 DEF Ask
  <2>2. /\ [u EXCEPT !.pc = p] \in Slave /\ [u EXCEPT !.pc = p].pc = p
        /\ [u EXCEPT !.pc = p].out = u.out /\ [u EXCEPT !.pc = p].todo = u.todo
        /\ [u EXCEPT !.pc = p].in = u.in /\ [u EXCEPT !.pc = p].ctl = u.ctl
    BY <2>1 DEF Slave, Pcs
  <2>3. LastIsSession(Ask(u))
    BY <2>1, <2>2 DEF LastIsSession
  <2> QED BY <2>1, <2>2, <2>3 DEF Rests
<1> QED BY <1>2, <1>3

\* An answer of the master is read.
LEMMA AnsweredFacts ==
  ASSUME NEW u \in Slave, LastIsSession(u), NEW m \in Message, u.pc \notin {"idle", "gone"}
  PROVE  LET r == Answered(u, m)
         IN  /\ r \in Slave /\ r.ctl = u.ctl /\ r.in = u.in /\ r.pc # "idle" /\ LastIsSession(r)
             /\ \/ /\ Rests(u, r) /\ r.pc = u.pc /\ u.pc # "hello"
                   /\ ~(u.pc = "asked" /\ m.type \in Replies \cup Final)
                \/ Rests(u, r) /\ r.pc \in {"attached", "fallback", "gone"}
                \/ Asking(u, r) /\ (u.pc = "hello" \/ (u.pc = "asked" /\ m.type \in Replies))
<1> DEFINE r == Answered(u, m)
<1>1. \A p \in Pcs : LET v == [u EXCEPT !.pc = p]
                     IN  v \in Slave /\ v.pc = p /\ v.out = u.out /\ v.todo = u.todo /\ v.in = u.in /\ v.ctl = u.ctl
  BY DEF Slave
<1>2. \A p \in Pcs : LastIsSession([u EXCEPT !.pc = p])
  BY <1>1 DEF LastIsSession
<1>3. CASE u.pc = "hello"
  <2>1. r = Ask(u)
    BY <1>3 DEF Answered
  <2> QED BY <1>3, <2>1, AskFacts DEF Asking
<1>4. CASE u.pc = "asked" /\ m.type = "SESSION_OPENED"
  <2>1. r = [u EXCEPT !.pc = "attached"] /\ "attached" \in Pcs
    BY <1>4 DEF Answered, Pcs
  <2> QED BY <1>1, <1>2, <1>4, <2>1 DEF Rests
<1>5. CASE u.pc = "asked" /\ m.type = "FAILURE"
  <2>1. CASE IsSession(u.cmd) /\ u.todo = <<>>
    <3>1. r = [u EXCEPT !.pc = "fallback"] /\ "fallback" \in Pcs
      BY <1>5, <2>1 DEF Answered, Pcs
    <3> QED BY <1>1, <1>2, <3>1 DEF Rests
  <2>2. CASE ~(IsSession(u.cmd) /\ u.todo = <<>>)
    <3> DEFINE v == [u EXCEPT !.failed = TRUE]
    <3>1. r = Ask(v)
      BY <1>5, <2>2 DEF Answered
    <3>2. v \in Slave /\ v.out = u.out /\ v.todo = u.todo /\ v.in = u.in /\ v.ctl = u.ctl
      BY DEF Slave
    <3> HIDE DEF v
    <3>3. LastIsSession(v)
      BY <3>2 DEF LastIsSession
    <3>4. /\ r \in Slave /\ r.ctl = u.ctl /\ r.in = u.in /\ LastIsSession(r)
          /\ \/ Asking(v, r)
             \/ Rests(v, r) /\ r.pc \in {"gone", "fallback"}
      BY <3>1, <3>2, <3>3, AskFacts
    <3>5. (Asking(v, r) => Asking(u, r)) /\ (Rests(v, r) => Rests(u, r)) /\ (Asking(u, r) => r.pc = "asked")
      BY <3>2 DEF Asking, Rests
    <3> HIDE DEF r
    <3> QED BY <1>5, <3>4, <3>5 DEF r, Replies
  <2> QED BY <2>1, <2>2
<1>6. CASE u.pc = "asked" /\ m.type \in {"OK", "REMOTE_PORT"}
  <2>1. r = Ask(u)
    BY <1>6 DEF Answered
  <2> QED BY <1>6, <2>1, AskFacts DEF Asking, Replies
<1>7. CASE u.pc = "attached" /\ m.type = "EXIT_MESSAGE"
  <2>1. r = [u EXCEPT !.exit = TRUE]
    BY <1>7 DEF Answered
  <2>2. r \in Slave /\ r.pc = u.pc /\ r.out = u.out /\ r.todo = u.todo /\ r.in = u.in /\ r.ctl = u.ctl
    BY <2>1 DEF Slave
  <2>3. LastIsSession(r)
    BY <2>2 DEF LastIsSession
  <2> HIDE DEF r
  <2> QED BY <1>7, <2>2, <2>3 DEF Rests, r
<1>8. CASE /\ u.pc # "hello" /\ ~(u.pc = "attached" /\ m.type = "EXIT_MESSAGE")
           /\ ~(u.pc = "asked" /\ m.type \in {"SESSION_OPENED", "FAILURE", "OK", "REMOTE_PORT"})
  <2>1. r = u
    BY <1>8 DEF Answered
  <2> QED BY <1>8, <2>1 DEF Rests, Replies, Final
<1> QED BY <1>3, <1>4, <1>5, <1>6, <1>7, <1>8

\* A step of slave s alone.
LEMMA SlaveStepKeeps ==
  ASSUME IInv, NEW s \in Slaves, NEW t \in Slave, slave' = [slave EXCEPT ![s] = t],
         chan' = chan, over' = over, confirms' = confirms, toServer' = toServer,
         toClient' = toClient, progs' = progs,
         t.ctl = slave[s].ctl, t.pc # "idle", LastIsSession(t),
         \A k \in DOMAIN t.in : t.in[k].for = s,
         Running /\ t.ctl # NoChan => Talk(t, chan[t.ctl]) /\ Awaits(t, chan[t.ctl])
  PROVE  IInv'
<1>1. Shape /\ slave \in [Slaves -> Slave]
  BY DEF IInv, Shape
<1>2. slave'[s] = t /\ \A r \in Slaves : r # s => slave'[r] = slave[r]
  BY <1>1
<1>3. Shape'
  BY <1>1 DEF Shape
<1>4. \A r \in Slaves : LastIsSession(slave'[r])
  BY <1>2 DEF IInv
<1>5. Survives'
  BY DEF IInv, Survives
<1>6. AnswerReachesAsker'
  BY <1>2 DEF IInv, AnswerReachesAsker
<1>7. ASSUME Running' PROVE Orderly'
  <2>1. Running
    BY <1>7 DEF Running
  <2>2. Orderly
    BY <2>1 DEF IInv
  <2> QED BY <1>1, <2>1, <2>2, SlaveUpdate
<1> QED BY <1>3, <1>4, <1>5, <1>6, <1>7 DEF IInv

\* The slave reads: until it is in a session it has read all there is, and its
\* next request is the only message under way.
LEMMA SlaveReadsKeeps ==
  ASSUME IInv, NEW s \in Slaves, SlaveReads(s)
  PROVE  IInv'
<1> DEFINE v == slave[s]
           m == Head(v.in)
           u == [v EXCEPT !.in = Tail(v.in)]
           t == Answered(u, m)
<1>1. /\ v.pc \notin {"idle", "gone"} /\ v.in # <<>> /\ slave' = [slave EXCEPT ![s] = t]
      /\ chan' = chan /\ over' = over /\ confirms' = confirms /\ toServer' = toServer
      /\ toClient' = toClient /\ progs' = progs
  BY DEF SlaveReads, tables, net, server
<1>2. v \in Slave /\ LastIsSession(v) /\ v.in \in Seq(Message) /\ v.out \in Seq(Requests) /\ v.todo \in Seq(Requests)
  BY DEF IInv, Shape, Slave
<1>3. Tail(v.in) \in Seq(Message) /\ m \in Message /\ Len(Tail(v.in)) = Len(v.in) - 1 /\ Len(v.in) \in Nat \ {0}
  BY <1>1, <1>2
<1>4. /\ u \in Slave /\ u.pc = v.pc /\ u.out = v.out /\ u.todo = v.todo /\ u.in = Tail(v.in) /\ u.ctl = v.ctl
  BY <1>2, <1>3 DEF Slave
<1> HIDE DEF u, m
<1>5. LastIsSession(u)
  BY <1>2, <1>4 DEF LastIsSession
<1>6. /\ t \in Slave /\ t.ctl = v.ctl /\ t.in = Tail(v.in) /\ t.pc # "idle" /\ LastIsSession(t)
      /\ \/ /\ Rests(v, t) /\ t.pc = v.pc /\ v.pc # "hello"
            /\ ~(v.pc = "asked" /\ m.type \in Replies \cup Final)
         \/ Rests(v, t) /\ t.pc \in {"attached", "fallback", "gone"}
         \/ Asking(v, t) /\ (v.pc = "hello" \/ (v.pc = "asked" /\ m.type \in Replies))
  <2>1. \A r : (Rests(u, r) <=> Rests(v, r)) /\ (Asking(u, r) <=> Asking(v, r))
    BY <1>4 DEF Rests, Asking
  <2> HIDE DEF v, t
  <2> QED BY <1>1, <1>3, <1>4, <1>5, <2>1, AnsweredFacts DEF t
<1> HIDE DEF t
<1>7. \A k \in DOMAIN t.in : t.in[k].for = s
  <2>1. \A k \in DOMAIN v.in : v.in[k].for = s
    BY DEF IInv, AnswerReachesAsker
  <2>2. \A k \in DOMAIN Tail(v.in) : k + 1 \in DOMAIN v.in /\ Tail(v.in)[k] = v.in[k + 1]
    BY <1>1, <1>2
  <2> QED BY <1>6, <2>1, <2>2
<1>8. ASSUME Running, t.ctl # NoChan
      PROVE  Talk(t, chan[t.ctl]) /\ Awaits(t, chan[t.ctl])
  <2> DEFINE c == chan[t.ctl]
  <2>1. Owned /\ Talks /\ v.ctl # NoChan
    BY <1>6, <1>8 DEF IInv, Orderly
  <2>2. Talk(v, c) /\ Awaits(v, c)
    BY <1>6, <2>1 DEF Talks
  <2>3. t.ctl \in Controls
    BY <1>6, <2>1 DEF Owned
  <2>4. c \in Ctl /\ c.out \in Seq(Message) /\ Len(c.out) \in Nat
    <3>1. t.ctl \in Ids /\ Shape
      BY <2>3 DEF Controls, IInv
    <3> QED BY <2>3, <3>1, ChanKind DEF Ctl
  <2> HIDE DEF c
  <2>5. ~c.mux_pause
    BY <1>1, <2>2 DEF Talk
  <2>6. Len(v.out) \in Nat /\ Len(v.in) \in Nat \ {0}
    BY <1>2, <1>3
  <2>7. ASSUME ~Busy(c)
        PROVE  v.out = <<>> /\ c.out = <<>> /\ t.in = <<>>
    <3>1. Len(v.in) + Len(c.out) + Len(v.out) <= 1
      BY <2>2, <2>7 DEF Talk
    <3>2. v.in \in Seq(Message) /\ c.out \in Seq(Message) /\ v.out \in Seq(Requests)
      BY <1>2, <2>4
    <3>3. Tail(v.in) = <<>> /\ c.out = <<>> /\ v.out = <<>>
      <4>1. v.in # <<>>
        BY <1>1
      <4> HIDE DEF v
      <4> QED BY <3>1, <3>2, <4>1, OneMessage
    <3> QED BY <1>6, <3>3
  <2>8. CASE Asking(v, t) /\ (v.pc = "hello" \/ (v.pc = "asked" /\ m.type \in Replies))
    <3>1. ~Busy(c)
      BY <2>2, <2>8 DEF Talk, Asking
    <3>2. t.out = Append(v.out, Head(v.todo)) /\ v.out = <<>> /\ t.in = <<>> /\ c.out = <<>>
      BY <2>7, <2>8, <3>1 DEF Asking
    <3>3. Len(t.out) = 1 /\ t.out # <<>> /\ t.in = <<>> /\ c.out = <<>>
      BY <3>2
    <3>4. Talk(t, c)
      BY <2>5, <3>1, <3>3 DEF Talk
    <3>5. Awaits(t, c)
      BY <2>8, <3>1, <3>3 DEF Awaits, Asking
    <3> QED BY <3>4, <3>5 DEF c
  <2>9. CASE Rests(v, t)
    <3>1. Talk(t, c)
      <4>1. CASE Busy(c)
        BY <2>2, <2>5, <2>9, <4>1 DEF Talk, Rests
      <4>2. CASE ~Busy(c)
        <5>1. t.out = <<>> /\ c.out = <<>> /\ t.in = <<>>
          BY <2>7, <2>9, <4>2 DEF Rests
        <5>2. Len(t.in) + Len(c.out) + Len(t.out) <= 1
          BY <5>1
        <5> QED BY <2>5, <4>2, <5>2 DEF Talk
      <4> QED BY <4>1, <4>2
    <3>2. Awaits(t, c)
      <4>1. t.pc # "hello"
        BY <1>6, <2>9 DEF Asking
      <4>2. t.pc # "asked"
        <5> SUFFICES ASSUME t.pc = "asked" PROVE FALSE
          OBVIOUS
        <5>1. \/ v.pc = "asked" /\ m.type \notin Replies \cup Final
              \/ Asking(v, t)
          BY <1>6
        <5>2. CASE v.pc = "asked" /\ m.type \notin Replies \cup Final
          BY <1>1, <2>2, <2>5, <5>2 DEF Awaits, m
        <5>3. CASE Asking(v, t)
          <6>1. t.todo = Tail(v.todo) /\ v.todo # <<>> /\ t.todo = v.todo
            BY <2>9, <5>3 DEF Asking, Rests
          <6>2. Len(Tail(v.todo)) # Len(v.todo)
            BY <1>2, <6>1
          <6> QED BY <6>1, <6>2
        <5> QED BY <5>1, <5>2, <5>3
      <4> QED BY <4>1, <4>2 DEF Awaits
    <3> QED BY <3>1, <3>2 DEF c
  <2> QED BY <1>6, <2>8, <2>9
<1> QED BY <1>1, <1>6, <1>7, <1>8, SlaveStepKeeps

\* A slave ends, or is killed.
LEMMA SlaveGone ==
  ASSUME IInv, NEW s \in Slaves, SlaveEof(s) \/ Kill(s)
  PROVE  IInv'
<1> DEFINE v == slave[s]
           t == slave'[s]
<1>1. /\ \/ slave' = [slave EXCEPT ![s].pc = "gone"]
         \/ slave' = [slave EXCEPT ![s].pc = "gone", ![s].killed = TRUE]
      /\ chan' = chan /\ over' = over /\ confirms' = confirms /\ toServer' = toServer
      /\ toClient' = toClient /\ progs' = progs
  BY DEF SlaveEof, Kill, tables, net, server
<1>2. v \in Slave /\ LastIsSession(v) /\ slave \in [Slaves -> Slave]
  BY DEF IInv, Shape
<1>3. PICK e \in Slave : /\ slave' = [slave EXCEPT ![s] = e] /\ e.pc = "gone" /\ e.out = v.out
                         /\ e.todo = v.todo /\ e.in = v.in /\ e.ctl = v.ctl
  <2>1. CASE slave' = [slave EXCEPT ![s].pc = "gone"]
    <3> DEFINE e == [v EXCEPT !.pc = "gone"]
    <3>1. slave' = [slave EXCEPT ![s] = e]
      BY <1>2, <2>1
    <3>2. e \in Slave /\ e.pc = "gone" /\ e.out = v.out /\ e.todo = v.todo /\ e.in = v.in /\ e.ctl = v.ctl
      BY <1>2 DEF Slave, Pcs
    <3> HIDE DEF e
    <3> QED BY <3>1, <3>2
  <2>2. CASE slave' = [slave EXCEPT ![s].pc = "gone", ![s].killed = TRUE]
    <3> DEFINE e == [v EXCEPT !.pc = "gone", !.killed = TRUE]
    <3>1. slave' = [slave EXCEPT ![s] = e]
      BY <1>2, <2>2
    <3>2. e \in Slave /\ e.pc = "gone" /\ e.out = v.out /\ e.todo = v.todo /\ e.in = v.in /\ e.ctl = v.ctl
      BY <1>2 DEF Slave, Pcs
    <3> HIDE DEF e
    <3> QED BY <3>1, <3>2
  <2> QED BY <1>1, <2>1, <2>2
<1>4. LastIsSession(e)
  BY <1>2, <1>3 DEF LastIsSession
<1>5. \A k \in DOMAIN e.in : e.in[k].for = s
  BY <1>3 DEF IInv, AnswerReachesAsker
<1>6. ASSUME Running, e.ctl # NoChan PROVE Talk(e, chan[e.ctl]) /\ Awaits(e, chan[e.ctl])
  <2>1. Talk(v, chan[e.ctl])
    BY <1>3, <1>6 DEF IInv, Orderly, Talks
  <2> QED BY <1>3, <2>1 DEF Talk, Awaits
<1> QED BY <1>1, <1>3, <1>4, <1>5, <1>6, SlaveStepKeeps

\* A slave connects: its control channel has a number that nothing refers to.
LEMMA ConnectKeeps ==
  ASSUME IInv, NEW s \in Slaves, Connect(s)
  PROVE  IInv'
<1>1. /\ slave[s].pc = "idle" /\ Running /\ over' = over /\ confirms' = confirms
      /\ toServer' = toServer /\ toClient' = toClient /\ progs' = progs
  BY DEF Connect, Running, tables, net, server
<1>2. PICK i \in LowestFree, cmd \in Commands(s) :
        /\ chan' = [chan EXCEPT ![i] = Control(s)]
        /\ slave' = [slave EXCEPT ![s] = [slave[s] EXCEPT !.pc = "hello", !.todo = cmd,
                                                          !.cmd = cmd, !.ctl = i]]
  BY DEF Connect
<1> DEFINE v == slave[s]
           t == [v EXCEPT !.pc = "hello", !.todo = cmd, !.cmd = cmd, !.ctl = i]
           c == Control(s)
<1>3. /\ Shape /\ slave \in [Slaves -> Slave] /\ chan \in [Ids -> {Free} \cup Ctl \cup Ses]
      /\ v \in Slave /\ Orderly /\ LastIsSession(v)
  BY <1>1 DEF IInv, Shape
<1>4. i \in Ids /\ chan[i].kind = "free" /\ i \notin Controls /\ i \notin Sessions /\ i # NoChan
  BY NoChanNoId DEF LowestFree, Free, Controls, Sessions
<1>5. /\ cmd \in Seq(Requests)
      /\ \A k \in DOMAIN cmd : cmd[k].type = "NEW_SESSION" => k = Len(cmd) /\ cmd[k].tty \in BOOLEAN
  BY MuxAssumption
<1>6. v.ctl = NoChan /\ v.in = <<>> /\ v.out = <<>>
  BY <1>1, <1>3 DEF Orderly, Owned
<1>7. /\ t \in Slave /\ t.pc = "hello" /\ t.todo = cmd /\ t.ctl = i /\ t.in = <<>> /\ t.out = <<>>
  <2>1. t \in Slave
    BY <1>3, <1>4, <1>5 DEF Slave, Pcs
  <2>2. t.pc = "hello" /\ t.todo = cmd /\ t.ctl = i /\ t.in = v.in /\ t.out = v.out
    BY <1>3 DEF Slave
  <2> QED BY <1>6, <2>1, <2>2
<1>8. c.kind = "ctl" /\ c.slave = s /\ ~c.mux_pause /\ ~c.drain /\ c.remote_id = NoChan
      /\ c.out = <<[type |-> "HELLO", for |-> s]>>
  BY DEF Control
<1>9. c \in Ctl /\ Len(c.out) = 1 /\ c.out # <<>> /\ \A k \in DOMAIN c.out : c.out[k].for = s
  <2>1. [type |-> "HELLO", for |-> s] \in Message
    BY DEF Message, Kinds
  <2>2. c.out \in Seq(Message)
    BY <1>8, <2>1
  <2>3. c \in Ctl
    BY <2>2 DEF Ctl, Control
  <2>4. Len(c.out) = 1 /\ c.out # <<>> /\ \A k \in DOMAIN c.out : c.out[k].for = s
    BY <1>8
  <2> QED BY <2>3, <2>4
<1>10. slave'[s] = t /\ \A r \in Slaves : r # s => slave'[r] = slave[r]
  BY <1>2, <1>3
<1>11. chan'[i] = c /\ \A k \in Ids : k # i => chan'[k] = chan[k]
  BY <1>2, <1>3, <1>4
<1>12. Shape'
  <2>1. slave' \in [Slaves -> Slave] /\ chan' \in [Ids -> {Free} \cup Ctl \cup Ses]
    <3> HIDE DEF t, c
    <3> QED BY <1>2, <1>3, <1>4, <1>7, <1>9 DEF t, c
  <2> QED BY <1>1, <1>3, <2>1 DEF Shape
<1> HIDE DEF t, c
<1>13. Controls' = Controls \cup {i} /\ Sessions' = Sessions
  BY <1>4, <1>8, <1>11 DEF Controls, Sessions
<1>14. /\ \A k \in Controls : k \in Ids /\ chan'[k] = chan[k] /\ chan[k].slave \in Slaves
       /\ \A k \in Sessions : k \in Ids /\ chan'[k] = chan[k]
  <2>1. \A k \in Controls : chan[k] \in Ctl
    BY <1>3, ChanKind DEF Controls
  <2> QED BY <1>4, <1>11, <2>1 DEF Ctl, Controls, Sessions
<1>15. \A r \in Slaves : LastIsSession(slave'[r])
  BY <1>5, <1>7, <1>10 DEF IInv, LastIsSession
<1>16. Survives'
  BY <1>1 DEF IInv, Survives
<1>17. AnswerReachesAsker'
  <2>1. \A k \in Ids : chan'[k].kind = "ctl" =>
          \A n \in DOMAIN chan'[k].out : chan'[k].out[n].for = chan'[k].slave
    BY <1>8, <1>9, <1>11 DEF IInv, AnswerReachesAsker
  <2>2. \A r \in Slaves : \A n \in DOMAIN slave'[r].in : slave'[r].in[n].for = r
    BY <1>7, <1>10 DEF IInv, AnswerReachesAsker
  <2> QED BY <2>1, <2>2 DEF AnswerReachesAsker
<1>18. Owned'
  <2>1. \A k \in Controls : chan[k].slave # s
    BY <1>3, <1>4, <1>6, <1>14, NoChanNoId DEF Orderly, Owned
  <2>2. \A k \in Controls' : slave'[chan'[k].slave].ctl = k
    BY <1>3, <1>7, <1>8, <1>10, <1>11, <1>13, <1>14, <2>1 DEF Orderly, Owned
  <2>3. \A r \in Slaves : slave'[r].ctl # NoChan => slave'[r].ctl \in Controls' /\ chan'[slave'[r].ctl].slave = r
    BY <1>3, <1>7, <1>8, <1>10, <1>11, <1>13, <1>14 DEF Orderly, Owned
  <2>4. \A r \in Slaves : slave'[r].pc = "idle" =>
          slave'[r].ctl = NoChan /\ slave'[r].in = <<>> /\ slave'[r].out = <<>>
    BY <1>3, <1>7, <1>10 DEF Orderly, Owned
  <2> QED BY <2>2, <2>3, <2>4 DEF Owned
<1>19. Linked'
  <2>1. \A k \in Controls' : chan'[k].remote_id # NoChan =>
           /\ chan'[k].remote_id \in Sessions' /\ chan'[chan'[k].remote_id].ctl_chan = k
           /\ chan'[k].mux_pause => chan'[chan'[k].remote_id].type = "opening"
    BY <1>3, <1>8, <1>11, <1>13, <1>14 DEF Orderly, Linked
  <2>2. \A j \in Sessions' : chan'[j].ctl_chan # NoChan =>
           /\ chan'[j].ctl_chan \in Controls' /\ chan'[chan'[j].ctl_chan].remote_id = j
           /\ chan'[chan'[j].ctl_chan].slave = chan'[j].for
    BY <1>3, <1>13, <1>14 DEF Orderly, Linked
  <2>3. \A j \in Sessions' : chan'[j].type = "opening" =>
           ~chan'[j].dead /\ chan'[j].ctl_chan # NoChan /\ chan'[chan'[j].ctl_chan].mux_pause
    BY <1>3, <1>13, <1>14 DEF Orderly, Linked
  <2> QED BY <2>1, <2>2, <2>3 DEF Linked
<1>20. Talks'
  <2> SUFFICES ASSUME NEW r \in Slaves, slave'[r].ctl # NoChan
               PROVE  Talk(slave'[r], chan'[slave'[r].ctl]) /\ Awaits(slave'[r], chan'[slave'[r].ctl])
    BY DEF Talks
  <2>1. CASE r = s
    <3>1. ~Busy(c)
      BY <1>8 DEF Busy
    <3>2. Len(t.in) + Len(c.out) + Len(t.out) <= 1
      BY <1>7, <1>9
    <3>3. Talk(t, c)
      BY <1>8, <3>1, <3>2 DEF Talk
    <3>4. Awaits(t, c)
      BY <1>7, <1>8, <1>9, <3>1 DEF Awaits
    <3> QED BY <1>7, <1>10, <1>11, <2>1, <3>3, <3>4
  <2>2. CASE r # s
    BY <1>3, <1>10, <1>14, <2>2 DEF Orderly, Owned, Talks
  <2> QED BY <2>1, <2>2
<1>21. Queue'
  <2>1. \A k \in Ids : Waits(k)' <=> Waits(k)
    BY <1>4, <1>8, <1>11, <1>13, <1>14 DEF Waits
  <2>2. \A k \in Ids : Waits(k) => chan'[k].slave = chan[k].slave
    BY <1>14 DEF Waits
  <2> QED BY <1>1, <1>3, <2>1, <2>2, QueueFrame DEF Orderly
<1>22. Wire'
  <2>1. \A j \in Ids : (Opening(j)' <=> Opening(j)) /\ (Open(j)' <=> Open(j))
    BY <1>13, <1>14 DEF Opening, Open
  <2> QED BY <1>1, <1>3, <2>1, WireFrame DEF Orderly
<1> QED BY <1>12, <1>15, <1>16, <1>17, <1>18, <1>19, <1>20, <1>21, <1>22 DEF IInv, Orderly

-----------------------------------------------------------------------------
(* Channels are freed.                                                     *)

\* What only packets change.
Wires == <<confirms, toServer, toClient, progs>>

\* A control channel that is not paused is freed: no confirmation refers to it,
\* and the session it leaves behind is not being opened.
LEMMA FreeControlKeeps ==
  ASSUME IInv, Running, NEW i \in Controls, ~chan[i].mux_pause, FreeControl(i), UNCHANGED Wires
  PROVE  IInv'
<1> DEFINE c == chan[i]
           l == c.remote_id
           s == c.slave
           t == [slave[s] EXCEPT !.ctl = NoChan]
<1>1. /\ Shape /\ slave \in [Slaves -> Slave] /\ chan \in [Ids -> {Free} \cup Ctl \cup Ses]
      /\ Orderly /\ Owned /\ Linked /\ Talks
      /\ confirms' = confirms /\ toServer' = toServer /\ toClient' = toClient /\ progs' = progs
  BY DEF IInv, Shape, Orderly, Wires
<1>2. i \in Ids /\ c \in Ctl /\ s \in Slaves /\ c.kind = "ctl" /\ i # NoChan /\ i \notin Sessions
  <2>1. i \in Ids
    BY DEF Controls
  <2>2. c \in Ctl
    BY <1>1, <2>1, ChanKind
  <2> QED BY <2>1, <2>2, NoChanNoId DEF Ctl, Sessions
<1>3. /\ l # NoChan => l \in Sessions /\ l \in Ids /\ l # i /\ chan[l].ctl_chan = i
      /\ chan[l].kind # "session" => l = NoChan
  BY <1>1, <1>2 DEF Linked, Sessions
<1>4. /\ over' = over /\ slave' = [slave EXCEPT ![s].ctl = NoChan]
      /\ chan' = [j \in Ids |-> CASE j = i -> Free
                                  [] j = l -> WithoutControl(chan[l])
                                  [] OTHER -> chan[j]]
  BY <1>3 DEF FreeControl
<1>5. /\ chan'[i] = Free
      /\ \A k \in Ids : k # i /\ k # l => chan'[k] = chan[k]
      /\ l # NoChan => chan'[l] = [chan[l] EXCEPT !.ctl_chan = NoChan]
  BY <1>2, <1>3, <1>4 DEF WithoutControl
<1>6. t \in Slave /\ t.pc = slave[s].pc /\ t.in = slave[s].in /\ t.out = slave[s].out
      /\ t.todo = slave[s].todo /\ t.ctl = NoChan
  BY <1>1, <1>2 DEF Slave
<1>7. slave' = [slave EXCEPT ![s] = t]
  BY <1>1, <1>2, <1>4
<1> HIDE DEF t
<1>8. slave'[s] = t /\ (\A r \in Slaves : r # s => slave'[r] = slave[r]) /\ slave' \in [Slaves -> Slave]
  BY <1>1, <1>2, <1>6, <1>7
<1>9. l # NoChan => /\ chan'[l] \in Ses /\ chan'[l].ctl_chan = NoChan /\ chan'[l].type = chan[l].type
                    /\ chan'[l].dead = chan[l].dead /\ chan'[l].for = chan[l].for /\ chan'[l].kind = "session"
  <2>1. l # NoChan => chan[l] \in Ses
    BY <1>1, <1>3, ChanKind
  <2> QED BY <1>5, <2>1 DEF Ses
<1>10. Controls' = Controls \ {i} /\ Sessions' = Sessions
  <2>1. chan'[i].kind = "free" /\ chan[i].kind = "ctl"
    BY <1>2, <1>5 DEF Free
  <2>2. l # NoChan => chan'[l].kind = "session" /\ chan[l].kind = "session"
    BY <1>3, <1>9 DEF Sessions
  <2> HIDE DEF c, l
  <2>3. \A k \in Ids : k # i /\ k # l => chan'[k].kind = chan[k].kind
    BY <1>5
  <2> QED BY <1>2, <1>3, <2>1, <2>2, <2>3, NoChanNoId DEF Controls, Sessions
<1>11. \A k \in Controls : k \in Ids /\ chan[k].slave \in Slaves /\ (k # i => chan'[k] = chan[k])
  <2>1. \A k \in Controls : k \in Ids /\ chan[k] \in Ctl
    BY <1>1, ChanKind DEF Controls
  <2>2. \A k \in Controls : k = l => FALSE
    BY <1>3, <2>1, NoChanNoId DEF Controls, Sessions
  <2> QED BY <1>5, <2>1, <2>2 DEF Ctl
<1>12. /\ \A j \in Sessions : j \in Ids /\ chan'[j].type = chan[j].type /\ chan'[j].dead = chan[j].dead
                              /\ chan'[j].for = chan[j].for
       /\ \A j \in Sessions : j # l => chan'[j].ctl_chan = chan[j].ctl_chan /\ chan[j].ctl_chan # i
       /\ \A j \in Sessions : j = l => chan'[j].ctl_chan = NoChan
  <2>1. \A j \in Sessions : j \in Ids /\ j # i /\ j # NoChan
    BY <1>2, NoChanNoId DEF Sessions
  <2>2. \A j \in Sessions : chan[j].ctl_chan = i => j = l
    BY <1>1, <1>2 DEF Linked
  <2> HIDE DEF l, c
  <2> QED BY <1>5, <1>9, <2>1, <2>2
<1> HIDE DEF c, l, s
<1>13. Shape'
  <2>1. ASSUME NEW k \in Ids PROVE chan'[k] \in {Free} \cup Ctl \cup Ses
    <3>1. chan[k] \in {Free} \cup Ctl \cup Ses
      BY <1>1
    <3> QED BY <1>5, <1>9, <3>1, NoChanNoId
  <2>2. chan' \in [Ids -> {Free} \cup Ctl \cup Ses]
    BY <1>4, <2>1
  <2> QED BY <1>1, <1>8, <2>2 DEF Shape
<1>14. \A r \in Slaves : LastIsSession(slave'[r])
  <2>1. LastIsSession(slave[s]) /\ s \in Slaves
    BY <1>2 DEF IInv
  <2>2. LastIsSession(t)
    BY <1>6, <2>1 DEF LastIsSession
  <2> QED BY <1>8, <2>2 DEF IInv
<1>15. Survives'
  BY <1>4 DEF IInv, Survives
<1>16. AnswerReachesAsker'
  <2>1. \A k \in Controls' : chan'[k] = chan[k] /\ k \in Controls /\ k \in Ids
    BY <1>10, <1>11
  <2>2. \A k \in Ids : chan'[k].kind = "ctl" => k \in Controls'
    BY DEF Controls
  <2>3. \A k \in Ids : chan'[k].kind = "ctl" =>
          \A n \in DOMAIN chan'[k].out : chan'[k].out[n].for = chan'[k].slave
    BY <2>1, <2>2 DEF IInv, AnswerReachesAsker
  <2>4. \A r \in Slaves : slave'[r].in = slave[r].in
    BY <1>6, <1>8
  <2>5. \A r \in Slaves : \A n \in DOMAIN slave'[r].in : slave'[r].in[n].for = r
    BY <2>4 DEF IInv, AnswerReachesAsker
  <2> QED BY <2>3, <2>5 DEF AnswerReachesAsker
<1>17. Owned'
  <2>1. \A k \in Controls : k # i => chan[k].slave # s
    BY <1>1, <1>2 DEF Owned, s, c
  <2>2. \A r \in Slaves : r # s => slave[r].ctl # i
    BY <1>1, <1>2, NoChanNoId DEF Owned, s, c
  <2>3. \A k \in Controls' : slave'[chan'[k].slave].ctl = k
    BY <1>1, <1>8, <1>10, <1>11, <2>1 DEF Owned
  <2>4. \A r \in Slaves : slave'[r].ctl # NoChan => slave'[r].ctl \in Controls' /\ chan'[slave'[r].ctl].slave = r
    BY <1>1, <1>6, <1>8, <1>10, <1>11, <2>2 DEF Owned
  <2>5. \A r \in Slaves : slave'[r].pc = "idle" =>
          slave'[r].ctl = NoChan /\ slave'[r].in = <<>> /\ slave'[r].out = <<>>
    BY <1>1, <1>6, <1>8 DEF Owned
  <2> QED BY <2>3, <2>4, <2>5 DEF Owned
<1>18. Linked'
  <2>1. \A k \in Controls : k # i /\ chan[k].remote_id # NoChan => chan[k].remote_id # l
    BY <1>1, <1>3 DEF Linked
  <2>2. \A k \in Controls' : chan'[k].remote_id # NoChan =>
           /\ chan'[k].remote_id \in Sessions' /\ chan'[chan'[k].remote_id].ctl_chan = k
           /\ chan'[k].mux_pause => chan'[chan'[k].remote_id].type = "opening"
    BY <1>1, <1>10, <1>11, <1>12, <2>1 DEF Linked
  <2>3. \A j \in Sessions' : chan'[j].ctl_chan # NoChan =>
           /\ chan'[j].ctl_chan \in Controls' /\ chan'[chan'[j].ctl_chan].remote_id = j
           /\ chan'[chan'[j].ctl_chan].slave = chan'[j].for
    BY <1>1, <1>10, <1>11, <1>12 DEF Linked
  <2>4. ASSUME NEW j \in Sessions, chan[j].type = "opening"
        PROVE  ~chan[j].dead /\ j # l /\ chan[j].ctl_chan \in Controls /\ chan[j].ctl_chan # i
               /\ chan[j].ctl_chan # NoChan /\ chan[chan[j].ctl_chan].mux_pause
    <3>1. ~chan[j].dead /\ chan[j].ctl_chan # NoChan /\ chan[chan[j].ctl_chan].mux_pause
      BY <1>1, <2>4 DEF Linked
    <3>2. chan[j].ctl_chan \in Controls /\ chan[j].ctl_chan # i
      BY <1>1, <3>1 DEF Linked
    <3>3. j # l
      BY <1>3, <3>1, <3>2, NoChanNoId DEF Sessions
    <3> QED BY <3>1, <3>2, <3>3
  <2>5. \A j \in Sessions' : chan'[j].type = "opening" =>
           ~chan'[j].dead /\ chan'[j].ctl_chan # NoChan /\ chan'[chan'[j].ctl_chan].mux_pause
    BY <1>10, <1>11, <1>12, <2>4
  <2> QED BY <2>2, <2>3, <2>5 DEF Linked
<1>19. Talks'
  <2>1. \A r \in Slaves : slave'[r].ctl # NoChan =>
           /\ slave'[r] = slave[r] /\ slave[r].ctl \in Controls /\ slave[r].ctl # i
           /\ chan'[slave[r].ctl] = chan[slave[r].ctl]
    <3> SUFFICES ASSUME NEW r \in Slaves, slave'[r].ctl # NoChan
                 PROVE  /\ slave'[r] = slave[r] /\ slave[r].ctl \in Controls /\ slave[r].ctl # i
                        /\ chan'[slave[r].ctl] = chan[slave[r].ctl]
      OBVIOUS
    <3>1. r # s /\ slave'[r] = slave[r]
      BY <1>6, <1>8
    <3>2. slave[r].ctl \in Controls /\ chan[slave[r].ctl].slave = r
      BY <1>1, <3>1 DEF Owned
    <3>3. slave[r].ctl # i
      BY <3>1, <3>2 DEF s, c
    <3> QED BY <1>11, <3>1, <3>2, <3>3
  <2> QED BY <1>1, <2>1 DEF Talks
<1>20. Queue'
  <2>1. \A k \in Ids : Waits(k)' <=> Waits(k)
    BY <1>10, <1>11 DEF Waits
  <2>2. \A k \in Ids : Waits(k) => chan'[k].slave = chan[k].slave
    BY <1>11 DEF Waits
  <2> QED BY <1>1, <2>1, <2>2, QueueFrame DEF Orderly
<1>21. Wire'
  <2>1. \A j \in Ids : (Opening(j)' <=> Opening(j)) /\ (Open(j)' <=> Open(j))
    BY <1>10, <1>12 DEF Opening, Open
  <2> QED BY <1>1, <2>1, WireFrame DEF Orderly
<1> QED BY <1>13, <1>14, <1>15, <1>16, <1>17, <1>18, <1>19, <1>20, <1>21 DEF IInv, Orderly

\* read_mux at the end of the socket, and a control channel that is drained.
LEMMA ReadEofKeeps ==
  ASSUME IInv, NEW i \in Ids, ReadEof(i)
  PROVE  IInv'
<1>1. Running /\ i \in Controls /\ ~chan[i].mux_pause /\ FreeControl(i) /\ UNCHANGED Wires
  BY DEF ReadEof, MayRead, Controls, Wires, tables, net, server
<1> QED BY <1>1, FreeControlKeeps

\* The slave of a control channel, and what is under way between them.
LEMMA SlaveOf ==
  ASSUME IInv, Running, NEW i \in Controls
  PROVE  /\ i \in Ids /\ i # NoChan /\ chan[i] \in Ctl /\ chan[i].slave \in Slaves
         /\ slave[chan[i].slave] \in Slave /\ slave[chan[i].slave].ctl = i
         /\ slave[chan[i].slave].pc # "idle" /\ LastIsSession(slave[chan[i].slave])
         /\ Talk(slave[chan[i].slave], chan[i]) /\ Awaits(slave[chan[i].slave], chan[i])
         /\ Shape /\ Orderly
<1>1. Shape /\ Orderly /\ Owned /\ Talks
  BY DEF IInv, Orderly
<1>2. i \in Ids /\ i # NoChan
  BY NoChanNoId DEF Controls
<1>3. chan[i] \in Ctl
  BY <1>1, <1>2, ChanKind
<1>4. chan[i].slave \in Slaves
  BY <1>3 DEF Ctl
<1>5. slave[chan[i].slave] \in Slave /\ LastIsSession(slave[chan[i].slave])
  BY <1>1, <1>4 DEF IInv, Shape
<1>6. slave[chan[i].slave].ctl = i
  BY <1>1 DEF Owned
<1>7. slave[chan[i].slave].pc # "idle"
  BY <1>1, <1>2, <1>4, <1>6 DEF Owned
<1>8. Talk(slave[chan[i].slave], chan[i]) /\ Awaits(slave[chan[i].slave], chan[i])
  BY <1>1, <1>2, <1>4, <1>6 DEF Talks
<1> QED BY <1>1, <1>2, <1>3, <1>4, <1>5, <1>6, <1>7, <1>8

\* channel_pre_mux_client: the output of a channel that is closed is drained.
LEMMA DrainedKeeps ==
  ASSUME IInv, NEW i \in Ids, Drained(i)
  PROVE  IInv'
<1>1. Running /\ i \in Controls /\ chan[i].drain /\ FreeControl(i) /\ UNCHANGED Wires
  BY DEF Drained, IsDrained, Controls, Wires, tables, net, server
<1>2. ~chan[i].mux_pause
  BY <1>1, SlaveOf DEF Talk
<1> QED BY <1>1, <1>2, FreeControlKeeps

-----------------------------------------------------------------------------
(* Steps of a control channel and its slave.                               *)

\* Only control channel i changes, to c, and neither its links nor a session does.
ChanIs(i, c) ==
  /\ Controls' = Controls /\ Sessions' = Sessions
  /\ chan'[i] = c /\ \A k \in Ids : k # i => chan'[k] = chan[k]
  /\ \A j \in Ids : (Opening(j)' <=> Opening(j)) /\ (Open(j)' <=> Open(j))

\* The step itself, where t is what becomes of the slave.
CtlStep(i, c, t) ==
  /\ i \in Controls /\ c \in Ctl /\ t \in Slave
  /\ chan' = [chan EXCEPT ![i] = c] /\ slave' = [slave EXCEPT ![c.slave] = t]
  /\ c.slave = chan[i].slave /\ c.remote_id = chan[i].remote_id
  /\ t.ctl = i /\ t.pc # "idle"

\* The confirmations and the packets stay as they are.
LEMMA ChanIsQueue ==
  ASSUME IInv, Running, NEW i \in Controls, NEW c, ChanIs(i, c), c.slave = chan[i].slave,
         c.remote_id = chan[i].remote_id, c.mux_pause = chan[i].mux_pause, confirms' = confirms
  PROVE  Queue'
<1>1. Queue
  BY DEF IInv, Orderly
<1>2. \A k \in Ids : Waits(k)' <=> Waits(k)
  BY DEF ChanIs, Waits
<1>3. \A k \in Ids : Waits(k) => chan'[k].slave = chan[k].slave
  BY DEF ChanIs
<1> QED BY <1>1, <1>2, <1>3, QueueFrame

LEMMA ChanIsWire ==
  ASSUME IInv, Running, NEW i, NEW c, ChanIs(i, c), toServer' = toServer, toClient' = toClient,
         progs' = progs
  PROVE  Wire'
<1>1. Wire
  BY DEF IInv, Orderly
<1>2. \A j \in Ids : (Opening(j)' <=> Opening(j)) /\ (Open(j)' <=> Open(j))
  BY DEF ChanIs
<1> QED BY <1>1, <1>2, WireFrame

\* The invariant after such a step, from what it says of i and the queues.
LEMMA CtlStepKeeps ==
  ASSUME IInv, Running, NEW i, NEW c, NEW t, CtlStep(i, c, t), over' = over,
         c.remote_id # NoChan => c.mux_pause = chan[i].mux_pause,
         Talk(t, c), Awaits(t, c), LastIsSession(t),
         \A k \in DOMAIN c.out : c.out[k].for = c.slave,
         \A k \in DOMAIN t.in : t.in[k].for = c.slave,
         IsSeq(confirms') /\ IsSeq(toServer') /\ IsSeq(toClient') /\ progs' \subseteq Ids,
         ChanIs(i, c) => Queue' /\ Wire'
  PROVE  IInv'
<1>1. /\ Shape /\ Orderly /\ i \in Controls /\ c \in Ctl /\ t \in Slave
      /\ chan' = [chan EXCEPT ![i] = c] /\ slave' = [slave EXCEPT ![c.slave] = t]
      /\ c.slave = chan[i].slave /\ c.remote_id = chan[i].remote_id
      /\ t.ctl = i /\ t.pc # "idle"
  BY DEF IInv, CtlStep
<1>2. /\ Owned' /\ Linked' /\ Talks' /\ Controls' = Controls /\ Sessions' = Sessions
      /\ chan' \in [Ids -> {Free} \cup Ctl \cup Ses] /\ slave' \in [Slaves -> Slave]
      /\ \A j \in Ids : (Opening(j)' <=> Opening(j)) /\ (Open(j)' <=> Open(j))
      /\ chan'[i] = c /\ \A k \in Ids : k # i => chan'[k] = chan[k]
  BY <1>1, CtlUpdate
<1>3. Queue' /\ Wire'
  BY <1>2 DEF ChanIs
<1>4. Shape'
  BY <1>2 DEF Shape
<1>5. c.slave \in Slaves /\ slave \in [Slaves -> Slave]
  BY <1>1 DEF Ctl, Shape
<1>6. slave'[c.slave] = t /\ \A r \in Slaves : r # c.slave => slave'[r] = slave[r]
  BY <1>1, <1>5
<1>7. \A r \in Slaves : LastIsSession(slave'[r])
  BY <1>6 DEF IInv
<1>8. AnswerReachesAsker'
  <2>1. \A k \in Ids : chan'[k].kind = "ctl" =>
          \A n \in DOMAIN chan'[k].out : chan'[k].out[n].for = chan'[k].slave
    BY <1>2 DEF IInv, AnswerReachesAsker
  <2>2. \A r \in Slaves : \A n \in DOMAIN slave'[r].in : slave'[r].in[n].for = r
    BY <1>6 DEF IInv, AnswerReachesAsker
  <2> QED BY <2>1, <2>2 DEF AnswerReachesAsker
<1>9. Survives'
  BY DEF IInv, Survives
<1> QED BY <1>2, <1>3, <1>4, <1>7, <1>8, <1>9 DEF IInv, Orderly

\* A message is added to a queue.
LEMMA AppendFacts ==
  ASSUME NEW R, NEW q \in Seq(R), NEW e \in R
  PROVE  /\ Append(q, e) \in Seq(R) /\ Append(q, e) # <<>> /\ Len(Append(q, e)) = Len(q) + 1
         /\ q # <<>> => Head(Append(q, e)) = Head(q)
         /\ q = <<>> => Head(Append(q, e)) = e
         /\ \A k \in DOMAIN Append(q, e) : (k \in DOMAIN q /\ Append(q, e)[k] = q[k]) \/ Append(q, e)[k] = e
         /\ Len(q) \in Nat
OBVIOUS

\* channel_post_mux_client: a message is written to the slave.
LEMMA WriteOutKeeps ==
  ASSUME IInv, NEW i \in Ids, WriteOut(i)
  PROVE  IInv'
<1> DEFINE c == chan[i]
           s == c.slave
           v == slave[s]
<1>1. Running /\ i \in Controls /\ c.out # <<>> /\ UNCHANGED Wires
  BY DEF WriteOut, Controls, Wires, tables, net, server
<1>2. /\ c \in Ctl /\ s \in Slaves /\ v \in Slave /\ v.ctl = i /\ v.pc # "idle" /\ Shape
      /\ LastIsSession(v) /\ Talk(v, c) /\ Awaits(v, c)
  BY <1>1, SlaveOf
<1>3. ~c.mux_pause
  BY <1>1, <1>2 DEF Talk
<1>4. CASE v.pc = "gone"
  <2>1. FreeControl(i)
    BY <1>4 DEF WriteOut
  <2> QED BY <1>1, <1>3, <2>1, FreeControlKeeps
<1>5. CASE v.pc # "gone"
  <2>1. /\ slave' = [slave EXCEPT ![s].in = Append(@, Head(c.out))]
        /\ chan' = [chan EXCEPT ![i].out = Tail(@)] /\ over' = over
    BY <1>5 DEF WriteOut
  <2> DEFINE h == Head(c.out)
             o == Tail(c.out)
             n == Append(v.in, h)
             d == [c EXCEPT !.out = o]
             t == [v EXCEPT !.in = n]
  <2>2. c.out \in Seq(Message) /\ v.in \in Seq(Message) /\ v.out \in Seq(Requests)
    BY <1>2 DEF Ctl, Slave
  <2>3. h \in Message /\ o \in Seq(Message) /\ Len(o) = Len(c.out) - 1 /\ Len(c.out) \in Nat \ {0}
        /\ \A k \in DOMAIN o : k + 1 \in DOMAIN c.out /\ o[k] = c.out[k + 1]
    BY <1>1, <2>2
  <2>4. h = c.out[1] /\ 1 \in DOMAIN c.out
    BY <1>1, <2>2
  <2>5. /\ n \in Seq(Message) /\ n # <<>> /\ Len(n) = Len(v.in) + 1 /\ (v.in # <<>> => Head(n) = Head(v.in))
        /\ (v.in = <<>> => Head(n) = h) /\ Len(v.in) \in Nat
        /\ \A k \in DOMAIN n : (k \in DOMAIN v.in /\ n[k] = v.in[k]) \/ n[k] = h
    <3> HIDE DEF h, v
    <3> QED BY <2>2, <2>3, AppendFacts
  <2>6. slave' = [slave EXCEPT ![s] = t] /\ chan' = [chan EXCEPT ![i] = d]
    BY <1>2, <2>1 DEF Shape
  <2> HIDE DEF n, o, h
  <2>7. d \in Ctl /\ d.slave = s /\ d.remote_id = c.remote_id /\ d.mux_pause = c.mux_pause
        /\ d.drain = c.drain /\ d.out = o
    BY <1>2, <2>3 DEF Ctl
  <2>8. t \in Slave /\ t.ctl = v.ctl /\ t.pc = v.pc /\ t.out = v.out /\ t.todo = v.todo /\ t.in = n
    BY <1>2, <2>5 DEF Slave
  <2> HIDE DEF d, t, v, c, s
  <2>9. CtlStep(i, d, t)
    BY <1>1, <1>2, <2>6, <2>7, <2>8 DEF CtlStep, c, s
  <2>10. Busy(d) <=> Busy(c)
    BY <2>7 DEF Busy
  <2>11. ASSUME ~Busy(c)
         PROVE  v.in = <<>> /\ o = <<>> /\ v.out = <<>> /\ Len(n) + Len(o) + Len(v.out) <= 1
    <3>1. Len(v.in) + Len(c.out) + Len(v.out) <= 1
      BY <1>2, <2>11 DEF Talk
    <3>2. v.in = <<>> /\ Tail(c.out) = <<>> /\ v.out = <<>>
      <4>1. c.out # <<>>
        BY <1>1
      <4>2. \A a, b \in Seq(Message) : \A q \in Seq(Requests) :
              Len(a) + Len(b) + Len(q) <= 1 /\ b # <<>> => a = <<>> /\ Tail(b) = <<>> /\ q = <<>>
        BY OneMessage
      <4> QED BY <2>2, <3>1, <4>1, <4>2, Zenon
    <3>3. Len(v.in) = 0 /\ Len(o) = 0 /\ Len(v.out) = 0
      BY <3>2 DEF o
    <3>4. Len(n) = 1
      BY <2>5, <3>3
    <3>5. Len(n) + Len(o) + Len(v.out) <= 1
      BY <3>3, <3>4
    <3> QED BY <3>2, <3>5 DEF o
  <2>12. Talk(t, d)
    <3>1. Busy(d) => t.todo = <<>> /\ t.out = <<>>
      BY <1>2, <2>8, <2>10 DEF Talk
    <3>2. ~Busy(d) => Len(t.in) + Len(d.out) + Len(t.out) <= 1
      BY <2>7, <2>8, <2>10, <2>11, Zenon
    <3>3. ~d.mux_pause
      BY <1>3, <2>7
    <3> QED BY <3>1, <3>2, <3>3 DEF Talk
  <2>13. Awaits(t, d)
    <3>1. t.pc = "hello" => ~Busy(d) /\ ~d.mux_pause /\ t.out = <<>> /\ t.in # <<>>
      BY <1>2, <2>5, <2>7, <2>8, <2>10 DEF Awaits
    <3>2. ASSUME t.pc = "asked", ~Busy(d)
          PROVE  Head(t.in).type \in Replies /\ t.in # <<>> /\ d.out = <<>>
      <4>1. v.in = <<>> /\ o = <<>>
        BY <2>10, <2>11, <3>2
      <4>2. Head(c.out).type \in Replies
        BY <1>1, <1>2, <2>8, <2>10, <3>2 DEF Awaits
      <4> QED BY <2>5, <2>7, <2>8, <4>1, <4>2 DEF h
    <3>3. t.pc = "asked" /\ Busy(d) => Head(t.in).type \in Final /\ t.in # <<>>
      BY <1>2, <1>3, <2>5, <2>8, <2>10 DEF Awaits, h
    <3> QED BY <3>1, <3>2, <3>3 DEF Awaits
  <2>14. LastIsSession(t)
    BY <1>2, <2>8 DEF LastIsSession
  <2>15. \A k \in DOMAIN c.out : c.out[k].for = s
    BY <1>1, <1>2 DEF IInv, AnswerReachesAsker, c, s, Controls
  <2>16. \A k \in DOMAIN v.in : v.in[k].for = s
    BY <1>2 DEF IInv, AnswerReachesAsker, v
  <2>17. \A k \in DOMAIN d.out : d.out[k].for = s
    BY <2>3, <2>7, <2>15
  <2>18. \A k \in DOMAIN t.in : t.in[k].for = s
    BY <2>4, <2>5, <2>8, <2>15, <2>16
  <2>19. /\ IsSeq(confirms') /\ IsSeq(toServer') /\ IsSeq(toClient') /\ progs' \subseteq Ids
         /\ confirms' = confirms /\ toServer' = toServer /\ toClient' = toClient /\ progs' = progs
    BY <1>1, <1>2 DEF Wires, Shape
  <2>20. ChanIs(i, d) => Queue'
    BY <1>1, <2>7, <2>19, ChanIsQueue DEF c, s
  <2>21. ChanIs(i, d) => Wire'
    BY <1>1, <2>19, ChanIsWire
  <2> QED BY <1>1, <2>1, <2>7, <2>9, <2>12, <2>13, <2>14, <2>17, <2>18, <2>19, <2>20, <2>21,
             CtlStepKeeps DEF c
<1> QED BY <1>4, <1>5

-----------------------------------------------------------------------------
(* The queues of packets.                                                  *)

\* The elements of q with a type in T are those of r, h places later.
Kept(r, q, h, T) ==
  /\ \A k \in DOMAIN r : r[k].type \in T => k \in Nat /\ k + h \in DOMAIN q /\ r[k] = q[k + h]
  /\ \A k \in DOMAIN q : q[k].type \in T =>
       \/ k \in Nat /\ k - h \in DOMAIN r /\ r[k - h] = q[k]
       \/ h = 1 /\ k = 1

LEMMA KeptAppend ==
  ASSUME NEW q, IsSeq(q), NEW e, NEW T, e.type \notin T
  PROVE  Kept(Append(q, e), q, 0, T) /\ IsSeq(Append(q, e))
<1> DEFINE r == Append(q, e)
<1>1. /\ IsSeq(r) /\ Len(q) \in Nat
      /\ DOMAIN q = 1..Len(q) /\ DOMAIN r = 1..(Len(q) + 1) /\ r[Len(q) + 1] = e
      /\ \A k \in DOMAIN q : k \in DOMAIN r /\ r[k] = q[k]
  BY SeqAppend
<1> HIDE DEF r
<1>2. \A k \in DOMAIN r : k \in Nat /\ (k \in DOMAIN q \/ r[k] = e) /\ k + 0 = k
  BY <1>1
<1>3. \A k \in DOMAIN q : k \in Nat /\ k - 0 = k
  BY <1>1
<1>4. Kept(r, q, 0, T)
  BY <1>1, <1>2, <1>3 DEF Kept
<1> QED BY <1>1, <1>4 DEF r

LEMMA KeptTail ==
  ASSUME NEW q, IsSeq(q), q # <<>>, NEW T
  PROVE  Kept(Tail(q), q, 1, T) /\ IsSeq(Tail(q)) /\ 1 \in DOMAIN q /\ q[1] = Head(q)
         /\ \A k \in DOMAIN q : k \in Nat /\ k >= 1
<1> DEFINE r == Tail(q)
<1>1. /\ IsSeq(r) /\ Len(q) \in Nat \ {0}
      /\ DOMAIN q = 1..Len(q) /\ DOMAIN r = 1..(Len(q) - 1)
      /\ \A k \in DOMAIN r : k + 1 \in DOMAIN q /\ r[k] = q[k + 1]
      /\ 1 \in DOMAIN q /\ Head(q) = q[1]
  BY SeqTail
<1> HIDE DEF r
<1>2. \A k \in DOMAIN r : k \in Nat
  BY <1>1
<1>3. \A k \in DOMAIN q : k \in Nat /\ k >= 1 /\ (k = 1 \/ (k - 1 \in DOMAIN r /\ (k - 1) + 1 = k))
  BY <1>1
<1>4. \A k \in DOMAIN q : k = 1 \/ (k - 1 \in DOMAIN r /\ r[k - 1] = q[k])
  BY <1>1, <1>3
<1>5. Kept(r, q, 1, T)
  BY <1>1, <1>2, <1>3, <1>4 DEF Kept
<1> QED BY <1>1, <1>3, <1>5 DEF r

LEMMA KeptSame ==
  ASSUME NEW q, IsSeq(q), NEW T
  PROVE  Kept(q, q, 0, T)
<1>1. \A k \in DOMAIN q : k \in Nat /\ k + 0 = k /\ k - 0 = k
  BY DEF IsSeq
<1> QED BY <1>1 DEF Kept

AskTypes == {"OPEN", "SETUP"}
TellTypes == {"OPENED", "TTY_FAILURE", "EXIT", "CLOSE"}

\* Packets that are not about the opening of a session, or a session's end, come
\* and go.
LEMMA WireShift ==
  ASSUME Wire, NEW a \in {0, 1}, NEW b \in {0, 1},
         Kept(toServer', toServer, a, AskTypes), Kept(toClient', toClient, b, TellTypes),
         a = 1 => ~Asks(toServer[1]), b = 1 => toClient[1].type # "OPENED",
         progs' = progs,
         \A j \in Ids : Opening(j)' <=> Opening(j), \A j \in Ids : Open(j) => Open(j)'
  PROVE  Wire'
<1>1. \A j : (Opening(j) => j \in Ids) /\ (Open(j) => j \in Ids)
  BY DEF Opening, Open, Sessions
<1>2. \A j : (Opening(j) => Opening(j)') /\ (Open(j) => Open(j)')
  BY <1>1
<1>3. \A n : Stage(n) => Stage(n)'
  BY <1>2 DEF Stage
<1>4. \A k \in DOMAIN toServer' : Asks(toServer'[k]) =>
        k \in Nat /\ k + a \in DOMAIN toServer /\ toServer'[k] = toServer[k + a]
  BY DEF Kept, Asks, AskTypes
<1>5. \A k \in DOMAIN toServer : Asks(toServer[k]) =>
        k - a \in DOMAIN toServer' /\ toServer'[k - a] = toServer[k]
  BY DEF Kept, Asks, AskTypes
<1>6. \A k \in DOMAIN toClient' : Tells(toClient'[k]) =>
        k \in Nat /\ k + b \in DOMAIN toClient /\ toClient'[k] = toClient[k + b]
  BY DEF Kept, Tells, TellTypes
<1>7. \A k \in DOMAIN toClient : toClient[k].type = "OPENED" =>
        k - b \in DOMAIN toClient' /\ toClient'[k - b] = toClient[k]
  BY DEF Kept, TellTypes
<1>8. \A m : Ends(m) => Tells(m)
  BY DEF Ends, Tells
<1>9. \A k \in DOMAIN toServer' : Asks(toServer'[k]) => Stage(toServer[k])' /\ toServer'[k].chan \notin progs
  BY <1>3, <1>4 DEF Wire
<1>10. \A k, l \in DOMAIN toServer' : Asks(toServer'[k]) /\ Asks(toServer'[l])
         /\ toServer'[k].chan = toServer'[l].chan => k = l
  <2> SUFFICES ASSUME NEW k \in DOMAIN toServer', NEW l \in DOMAIN toServer', Asks(toServer'[k]),
                      Asks(toServer'[l]), toServer'[k].chan = toServer'[l].chan
               PROVE  k = l
    OBVIOUS
  <2>1. k + a = l + a
    BY <1>4 DEF Wire
  <2> QED BY <1>4, <2>1
<1>11. \A k \in DOMAIN toClient' : Tells(toClient'[k]) => Stage(toClient[k])'
  BY <1>3, <1>6 DEF Wire
<1>12. \A k \in DOMAIN toClient' : Ends(toClient'[k]) => toClient'[k].chan \notin progs
  BY <1>6, <1>8 DEF Wire
<1>13. \A k \in DOMAIN toClient', l \in DOMAIN toServer' :
         Ends(toClient'[k]) /\ Asks(toServer'[l]) => toClient'[k].chan # toServer'[l].chan
  BY <1>4, <1>6, <1>8 DEF Wire
<1>14. \A k, l \in DOMAIN toClient' :
         Ends(toClient'[k]) /\ Tells(toClient'[l]) /\ k < l => toClient'[k].chan # toClient'[l].chan
  <2> SUFFICES ASSUME NEW k \in DOMAIN toClient', NEW l \in DOMAIN toClient', Ends(toClient'[k]),
                      Tells(toClient'[l]), k < l
               PROVE  toClient'[k].chan # toClient'[l].chan
    OBVIOUS
  <2>1. /\ k + b \in DOMAIN toClient /\ toClient'[k] = toClient[k + b] /\ k \in Nat
        /\ l + b \in DOMAIN toClient /\ toClient'[l] = toClient[l + b] /\ l \in Nat
    BY <1>6, <1>8
  <2>2. k + b < l + b
    BY <2>1
  <2> QED BY <2>1, <2>2 DEF Wire
<1>15. \A j \in Ids : Opening(j)' =>
         \/ \E k \in DOMAIN toServer' : toServer'[k].type = "OPEN" /\ toServer'[k].chan = j
         \/ \E k \in DOMAIN toClient' : toClient'[k].type = "OPENED" /\ toClient'[k].chan = j
  <2> SUFFICES ASSUME NEW j \in Ids, Opening(j)
               PROVE  \/ \E k \in DOMAIN toServer' : toServer'[k].type = "OPEN" /\ toServer'[k].chan = j
                      \/ \E k \in DOMAIN toClient' : toClient'[k].type = "OPENED" /\ toClient'[k].chan = j
    OBVIOUS
  <2>1. CASE \E k \in DOMAIN toServer : toServer[k].type = "OPEN" /\ toServer[k].chan = j
    BY <1>5, <2>1 DEF Asks
  <2>2. CASE \E k \in DOMAIN toClient : toClient[k].type = "OPENED" /\ toClient[k].chan = j
    BY <1>7, <2>2
  <2> QED BY <2>1, <2>2 DEF Wire
<1> QED BY <1>2, <1>9, <1>10, <1>11, <1>12, <1>13, <1>14, <1>15 DEF Wire

-----------------------------------------------------------------------------
(* Requests of a slave.                                                    *)

\* The slave of control channel i, and what it is when its request is read.
Its(i) == slave[chan[i].slave]
Took(v) == [v EXCEPT !.out = Tail(v.out)]

\* A request is read from a slave that waits for the answer to it, with nothing
\* else under way.
LEMMA RequestRead ==
  ASSUME IInv, Running, NEW i \in Ids, MayRead(chan[i]), Its(i).out # <<>>
  PROVE  LET c == chan[i]
             v == Its(i)
             t == Took(v)
         IN  /\ i \in Controls /\ c \in Ctl /\ c.slave \in Slaves /\ v \in Slave /\ Shape /\ Orderly
             /\ c.remote_id = NoChan /\ ~c.mux_pause /\ ~c.drain /\ c.out = <<>>
             /\ t \in Slave /\ t.ctl = i /\ t.pc = v.pc /\ t.pc \notin {"idle", "hello"}
             /\ t.in = <<>> /\ t.out = <<>> /\ t.todo = v.todo /\ LastIsSession(t)
             /\ Head(v.out).type = "NEW_SESSION" => v.todo = <<>> /\ Head(v.out).tty \in BOOLEAN
             /\ [slave EXCEPT ![c.slave].out = Tail(@)] = [slave EXCEPT ![c.slave] = t]
<1> DEFINE c == chan[i]
           v == Its(i)
           s == c.slave
           t == Took(v)
<1>1. i \in Controls /\ ~c.mux_pause /\ ~c.drain
  BY DEF MayRead, Controls
<1>2. /\ c \in Ctl /\ s \in Slaves /\ v \in Slave /\ v.ctl = i /\ v.pc # "idle" /\ Shape /\ Orderly
      /\ LastIsSession(v) /\ Talk(v, c) /\ Awaits(v, c)
  BY <1>1, SlaveOf DEF Its
<1>3. c.out \in Seq(Message) /\ v.in \in Seq(Message) /\ v.out \in Seq(Requests) /\ v.todo \in Seq(Requests)
  BY <1>2 DEF Ctl, Slave
<1>4. ~Busy(c) /\ v.pc # "hello"
  BY <1>2 DEF Talk, Awaits
<1>5. v.in = <<>> /\ c.out = <<>> /\ Tail(v.out) = <<>>
  <2>1. Len(v.in) + Len(c.out) + Len(v.out) <= 1 /\ v.out # <<>>
    BY <1>2, <1>4 DEF Talk
  <2>2. \A a, b \in Seq(Message) : \A q \in Seq(Requests) :
          Len(a) + Len(b) + Len(q) <= 1 /\ q # <<>> => a = <<>> /\ b = <<>> /\ Tail(q) = <<>>
    BY OneMessage
  <2> HIDE DEF v, c
  <2> QED BY <1>3, <2>1, <2>2, Zenon
<1>6. t = [v EXCEPT !.out = <<>>]
  BY <1>5 DEF Took
<1>7. t \in Slave /\ t.ctl = i /\ t.pc = v.pc /\ t.in = <<>> /\ t.out = <<>> /\ t.todo = v.todo
  <2>1. <<>> \in Seq(Requests)
    OBVIOUS
  <2> HIDE DEF t, v
  <2> QED BY <1>2, <1>5, <1>6, <2>1 DEF Slave
<1>8. LastIsSession(t)
  <2> HIDE DEF t, v
  <2>1. DOMAIN t.out = {}
    BY <1>7
  <2> QED BY <1>2, <1>7, <2>1 DEF LastIsSession
<1>9. Head(v.out).type = "NEW_SESSION" => v.todo = <<>> /\ Head(v.out).tty \in BOOLEAN
  <2> HIDE DEF v
  <2>1. 1 \in DOMAIN v.out /\ Head(v.out) = v.out[1]
    BY <1>3 DEF v
  <2> QED BY <1>2, <2>1 DEF LastIsSession
<1>10. [slave EXCEPT ![s].out = Tail(@)] = [slave EXCEPT ![s] = t]
  BY DEF Took, Its
<1>11. c.remote_id = NoChan
  BY <1>4 DEF Busy
<1> HIDE DEF t, v
<1> QED BY <1>1, <1>2, <1>4, <1>5, <1>7, <1>8, <1>9, <1>10, <1>11 DEF t, v

\* A packet that is about no session is sent.
LEMMA WireSend ==
  ASSUME Wire, IsSeq(toServer), IsSeq(toClient), NEW m, ~Asks(m), toServer' = Append(toServer, m),
         toClient' = toClient, progs' = progs,
         \A j \in Ids : Opening(j)' <=> Opening(j), \A j \in Ids : Open(j) => Open(j)'
  PROVE  Wire' /\ IsSeq(toServer')
<1>1. m.type \notin AskTypes
  BY DEF Asks, AskTypes
<1>2. Kept(toServer', toServer, 0, AskTypes) /\ IsSeq(toServer')
  BY <1>1, KeptAppend
<1>3. Kept(toClient', toClient, 0, TellTypes)
  BY KeptSame
<1>4. 0 \in {0, 1} /\ 0 # 1
  OBVIOUS
<1> QED BY <1>2, <1>3, <1>4, WireShift

\* The packets after a step of a control channel.
Sends == \/ toServer' = toServer
         \/ \E m : ~Asks(m) /\ toServer' = Append(toServer, m)

LEMMA SendsKeep ==
  ASSUME IInv, Running, Sends, toClient' = toClient, progs' = progs
  PROVE  /\ IsSeq(toServer') /\ IsSeq(toClient') /\ progs' \subseteq Ids
         /\ \A i, c : ChanIs(i, c) => Wire'
<1>1. Wire /\ Shape
  BY DEF IInv, Orderly
<1>2. IsSeq(toServer) /\ IsSeq(toClient) /\ progs \subseteq Ids
  BY <1>1 DEF Shape
<1>3. CASE toServer' = toServer
  BY <1>2, <1>3, ChanIsWire
<1>4. CASE \E m : ~Asks(m) /\ toServer' = Append(toServer, m)
  <2>1. PICK m : ~Asks(m) /\ toServer' = Append(toServer, m)
    BY <1>4
  <2>2. IsSeq(toServer')
    BY <1>2, <2>1, SeqAppend
  <2>3. ASSUME NEW i, NEW c, ChanIs(i, c) PROVE Wire'
    <3>1. \A j \in Ids : (Opening(j)' <=> Opening(j)) /\ (Open(j)' <=> Open(j))
      BY <2>3 DEF ChanIs
    <3> QED BY <1>1, <1>2, <2>1, <3>1, WireSend
  <2> QED BY <1>2, <2>2, <2>3
<1> QED BY <1>3, <1>4 DEF Sends

\* A request is answered at once.
LEMMA AnswerKeeps ==
  ASSUME IInv, Running, NEW i \in Ids, MayRead(chan[i]), Its(i).out # <<>>,
         slave' = [slave EXCEPT ![chan[i].slave].out = Tail(@)],
         NEW type \in Replies, chan' = [chan EXCEPT ![i] = Say(@, type)],
         over' = over, confirms' = confirms, Sends, toClient' = toClient, progs' = progs
  PROVE  IInv'
<1> DEFINE c == chan[i]
           s == c.slave
           v == Its(i)
           t == Took(v)
           e == Msg(type, s)
           o == <<e>>
           d == [c EXCEPT !.out = o]
<1>1. /\ i \in Controls /\ c \in Ctl /\ s \in Slaves /\ Shape
      /\ c.remote_id = NoChan /\ ~c.mux_pause /\ ~c.drain /\ c.out = <<>>
      /\ t \in Slave /\ t.ctl = i /\ t.pc \notin {"idle", "hello"}
      /\ t.in = <<>> /\ t.out = <<>> /\ LastIsSession(t)
      /\ slave' = [slave EXCEPT ![s] = t]
  BY RequestRead
<1> HIDE DEF t
<1>2. e \in Message /\ e.type = type /\ e.for = s
  BY <1>1 DEF Message, Msg, Replies, Kinds
<1>3. Say(c, type) = d
  <2>1. Append(c.out, e) = o
    BY <1>1
  <2> QED BY <2>1 DEF Say
<1> HIDE DEF e
<1>4. o \in Seq(Message) /\ Len(o) = 1 /\ o # <<>> /\ Head(o) = e /\ \A k \in DOMAIN o : o[k] = e
  BY <1>2
<1> HIDE DEF o
<1>5. d \in Ctl /\ d.slave = s /\ d.remote_id = NoChan /\ ~d.mux_pause /\ ~d.drain /\ d.out = o
      /\ d.mux_pause = c.mux_pause
  BY <1>1, <1>4 DEF Ctl
<1>6. chan' = [chan EXCEPT ![i] = d]
  BY <1>3
<1> HIDE DEF d, c, s
<1>7. CtlStep(i, d, t)
  BY <1>1, <1>5, <1>6 DEF CtlStep, c, s
<1>8. ~Busy(d)
  BY <1>5 DEF Busy
<1>9. Talk(t, d)
  <2>1. Len(t.in) = 0 /\ Len(t.out) = 0 /\ Len(d.out) = 1
    BY <1>1, <1>4, <1>5
  <2>2. Len(t.in) + Len(d.out) + Len(t.out) <= 1
    BY <2>1
  <2> QED BY <1>5, <1>8, <2>2 DEF Talk
<1>10. Awaits(t, d)
  BY <1>1, <1>2, <1>4, <1>5, <1>8 DEF Awaits
<1>11. \A k \in DOMAIN d.out : d.out[k].for = d.slave
  BY <1>2, <1>4, <1>5
<1>12. \A k \in DOMAIN t.in : t.in[k].for = d.slave
  <2>1. DOMAIN t.in = {}
    BY <1>1
  <2> QED BY <2>1
<1>13. /\ IsSeq(confirms') /\ IsSeq(toServer') /\ IsSeq(toClient') /\ progs' \subseteq Ids
       /\ ChanIs(i, d) => Wire'
  BY <1>1, SendsKeep DEF Shape
<1>14. ChanIs(i, d) => Queue'
  BY <1>1, <1>5, ChanIsQueue DEF c, s
<1> QED BY <1>1, <1>5, <1>7, <1>9, <1>10, <1>11, <1>12, <1>13, <1>14, CtlStepKeeps DEF c

\* A forwarding is asked of the server: the channel waits, with one confirmation.
LEMMA AskServerKeeps ==
  ASSUME IInv, Running, NEW i \in Ids, MayRead(chan[i]), Its(i).out # <<>>,
         slave' = [slave EXCEPT ![chan[i].slave].out = Tail(@)],
         chan' = [chan EXCEPT ![i].mux_pause = TRUE],
         NEW gc, gc.cb = "mux", "cb" \in DOMAIN gc, gc.ref_count = 1, gc.cid = i,
         gc.for = chan[i].slave, confirms' = Append(confirms, gc),
         over' = over, Sends, toClient' = toClient, progs' = progs
  PROVE  IInv'
<1> DEFINE c == chan[i]
           s == c.slave
           v == Its(i)
           t == Took(v)
           d == [c EXCEPT !.mux_pause = TRUE]
<1>1. /\ i \in Controls /\ c \in Ctl /\ s \in Slaves /\ Shape /\ Orderly
      /\ c.remote_id = NoChan /\ ~c.mux_pause /\ ~c.drain /\ c.out = <<>>
      /\ t \in Slave /\ t.ctl = i /\ t.pc \notin {"idle", "hello"}
      /\ t.in = <<>> /\ t.out = <<>> /\ LastIsSession(t)
      /\ slave' = [slave EXCEPT ![s] = t]
  BY RequestRead
<1> HIDE DEF t
<1>2. d \in Ctl /\ d.slave = s /\ d.remote_id = NoChan /\ d.mux_pause /\ ~d.drain /\ d.out = <<>>
  BY <1>1 DEF Ctl
<1>3. chan' = [chan EXCEPT ![i] = d]
  OBVIOUS
<1> HIDE DEF d, c, s
<1>4. CtlStep(i, d, t)
  BY <1>1, <1>2, <1>3 DEF CtlStep, c, s
<1>5. ~Busy(d)
  BY <1>2 DEF Busy
<1>6. Talk(t, d)
  <2>1. Len(t.in) = 0 /\ Len(t.out) = 0 /\ Len(d.out) = 0
    BY <1>1, <1>2
  <2>2. Len(t.in) + Len(d.out) + Len(t.out) <= 1
    BY <2>1
  <2> QED BY <1>1, <1>2, <1>5, <2>2 DEF Talk
<1>7. Awaits(t, d)
  BY <1>1, <1>2, <1>5 DEF Awaits
<1>8. (\A k \in DOMAIN d.out : d.out[k].for = d.slave) /\ (\A k \in DOMAIN t.in : t.in[k].for = d.slave)
  <2>1. DOMAIN t.in = {} /\ DOMAIN d.out = {}
    BY <1>1, <1>2
  <2> QED BY <2>1
<1>9. /\ IsSeq(confirms) /\ IsSeq(confirms') /\ Len(confirms) \in Nat
      /\ DOMAIN confirms = 1..Len(confirms) /\ DOMAIN confirms' = 1..(Len(confirms) + 1)
      /\ confirms'[Len(confirms) + 1] = gc
      /\ \A k \in DOMAIN confirms : k \in DOMAIN confirms' /\ confirms'[k] = confirms[k]
  BY <1>1, SeqAppend DEF Shape
<1>10. /\ IsSeq(confirms') /\ IsSeq(toServer') /\ IsSeq(toClient') /\ progs' \subseteq Ids
       /\ ChanIs(i, d) => Wire'
  BY <1>9, SendsKeep
<1>11. ASSUME ChanIs(i, d) PROVE Queue'
  <2>1. Waits(i)' /\ ~Waits(i) /\ \A k \in Ids : k # i => (Waits(k)' <=> Waits(k))
    BY <1>1, <1>2, <1>11 DEF ChanIs, Waits, c
  <2>2. Queue
    BY <1>1 DEF Orderly
  <2>3. \A k : (Waits(k) => k \in Ids) /\ (Waits(k)' => k \in Ids)
    BY DEF Waits, Controls
  <2>4. \A k \in DOMAIN confirms' : k \in DOMAIN confirms \/ k = Len(confirms) + 1
    BY <1>9
  <2>5. Len(confirms) + 1 \in DOMAIN confirms' /\ Len(confirms) + 1 \notin DOMAIN confirms
    BY <1>9
  <2> DEFINE e == Len(confirms) + 1
  <2> HIDE DEF e
  <2>6. /\ \A k \in DOMAIN confirms' : k = e \/ (k \in DOMAIN confirms /\ confirms'[k] = confirms[k])
        /\ e \in DOMAIN confirms' /\ confirms'[e] = gc
        /\ \A k \in DOMAIN confirms : k \in DOMAIN confirms' /\ confirms'[k] = confirms[k]
    BY <1>9, <2>4, <2>5 DEF e
  <2>7. \A k \in DOMAIN confirms : IsMux(confirms[k]) => confirms[k].cid # i /\ confirms[k].cid \in Ids
    BY <2>1, <2>2, <2>3 DEF Queue
  <2>8. chan'[i].slave = chan[i].slave /\ \A k \in Ids : k # i => chan'[k] = chan[k]
    BY <1>2, <1>11 DEF ChanIs, c, s
  <2>9. \A k \in DOMAIN confirms' : Known(confirms'[k])
    BY <2>2, <2>6 DEF Queue, Known
  <2>10. \A k \in DOMAIN confirms' : IsMux(confirms'[k]) =>
           /\ confirms'[k].ref_count = 1 /\ Waits(confirms[k].cid)'
           /\ chan'[confirms'[k].cid].slave = confirms'[k].for
    BY <2>1, <2>2, <2>6, <2>7, <2>8 DEF Queue
  <2>11. \A k, l \in DOMAIN confirms' :
           IsMux(confirms'[k]) /\ IsMux(confirms'[l]) /\ confirms'[k].cid = confirms'[l].cid => k = l
    BY <2>2, <2>6, <2>7 DEF Queue
  <2>12. IsMux(gc)
    BY DEF IsMux
  <2>13. \A j \in Ids : Waits(j)' => \E k \in DOMAIN confirms' : IsMux(confirms'[k]) /\ confirms'[k].cid = j
    BY <2>1, <2>2, <2>6, <2>12 DEF Queue
  <2> QED BY <2>9, <2>10, <2>11, <2>13 DEF Queue
<1> QED BY <1>2, <1>4, <1>6, <1>7, <1>1, <1>8, <1>10, <1>11, CtlStepKeeps

\* The types of requests.
LEMMA RequestType ==
  ASSUME NEW r \in Requests
  PROVE  r.type \in {"OPEN_FWD", "CLOSE_FWD", "NEW_SESSION", "STOP", "TERMINATE"}
<1>1. PICK c \in UNION {Commands(s) : s \in Slaves} : r \in {c[i] : i \in DOMAIN c}
  BY DEF Requests
<1>2. PICK s \in Slaves : c \in Commands(s)
  BY <1>1
<1>3. PICK i \in DOMAIN c : r = c[i]
  BY <1>1
<1> QED BY <1>2, <1>3, MuxAssumption

\* process_mux_open_fwd
LEMMA OpenFwdKeeps ==
  ASSUME IInv, Running, NEW i \in Ids, MayRead(chan[i]), Its(i).out # <<>>,
         slave' = [slave EXCEPT ![chan[i].slave].out = Tail(@)], NEW f, OpenFwd(i, f),
         over' = over, toClient' = toClient, progs' = progs
  PROVE  IInv'
<1>1. CASE Requested(f) # {}
  <2>1. /\ chan' = [chan EXCEPT ![i] = Say(@, IF f.port = 0 THEN "REMOTE_PORT" ELSE "OK")]
        /\ confirms' = confirms /\ toServer' = toServer
    BY <1>1 DEF OpenFwd, tables
  <2>2. PICK type \in Replies : chan' = [chan EXCEPT ![i] = Say(@, type)]
    BY <2>1 DEF Replies
  <2> QED BY <2>1, <2>2, AnswerKeeps DEF Sends
<1>2. CASE Requested(f) = {}
  <2> DEFINE gc == [cb |-> "mux", cid |-> i, fid |-> Len(forwards) + 1,
                    ref_count |-> 1, nr |-> nr + 1, for |-> chan[i].slave]
             m == [type |-> "FORWARD", port |-> f.port, nr |-> nr + 1]
  <2>1. /\ toServer' = Append(toServer, m) /\ confirms' = Register(confirms, gc)
        /\ chan' = [chan EXCEPT ![i].mux_pause = TRUE]
    BY <1>2 DEF OpenFwd
  <2>2. ~Asks(m)
    BY DEF Asks
  <2>3. gc.cb = "mux" /\ "cb" \in DOMAIN gc /\ gc.ref_count = 1 /\ gc.cid = i /\ gc.for = chan[i].slave
    OBVIOUS
  <2> HIDE DEF gc, m
  <2>4. confirms' = Append(confirms, gc)
    BY <2>1, <2>3 DEF Register
  <2>5. Sends
    BY <2>1, <2>2 DEF Sends
  <2> QED BY <2>1, <2>3, <2>4, <2>5, AskServerKeeps
<1> QED BY <1>1, <1>2

\* process_mux_close_fwd
LEMMA CloseFwdKeeps ==
  ASSUME IInv, Running, NEW i \in Ids, MayRead(chan[i]), Its(i).out # <<>>,
         slave' = [slave EXCEPT ![chan[i].slave].out = Tail(@)], NEW f, CloseFwd(i, f),
         over' = over, toClient' = toClient, progs' = progs
  PROVE  IInv'
<1>1. \/ chan' = [chan EXCEPT ![i] = Say(@, "FAILURE")] /\ confirms' = confirms /\ toServer' = toServer
      \/ /\ chan' = [chan EXCEPT ![i] = Say(@, "OK")] /\ confirms' = confirms
         /\ toServer' = Append(toServer, Cancel(forwards[Min(Requested(f))]))
  BY DEF CloseFwd, tables
<1>2. \A g : ~Asks(Cancel(g))
  BY DEF Asks, Cancel
<1>3. Sends /\ confirms' = confirms
  BY <1>1, <1>2 DEF Sends
<1>4. PICK type \in Replies : chan' = [chan EXCEPT ![i] = Say(@, type)]
  BY <1>1 DEF Replies
<1> QED BY <1>3, <1>4, AnswerKeeps

\* process_mux_new_session: a session channel with a number nothing refers to.
LEMMA NewSessionKeeps ==
  ASSUME IInv, Running, NEW i \in Ids, MayRead(chan[i]), Its(i).out # <<>>,
         Head(Its(i).out).type = "NEW_SESSION",
         slave' = [slave EXCEPT ![chan[i].slave].out = Tail(@)], NewSession(i, Head(Its(i).out)),
         over' = over, confirms' = confirms, toClient' = toClient, progs' = progs
  PROVE  IInv'
<1> DEFINE c == chan[i]
           s == c.slave
           v == Its(i)
           t == Took(v)
           tty == Head(v.out).tty
           m(j) == [type |-> "OPEN", chan |-> j]
<1>1. /\ i \in Controls /\ c \in Ctl /\ s \in Slaves /\ Shape /\ Orderly
      /\ c.remote_id = NoChan /\ ~c.mux_pause /\ ~c.drain /\ c.out = <<>>
      /\ t \in Slave /\ t.ctl = i /\ t.pc \notin {"idle", "hello"}
      /\ t.in = <<>> /\ t.out = <<>> /\ t.todo = <<>> /\ LastIsSession(t) /\ tty \in BOOLEAN
      /\ slave' = [slave EXCEPT ![s] = t]
  BY RequestRead
<1>2. PICK j \in LowestFree :
        /\ chan' = [chan EXCEPT ![j] = Session(i, s, tty), ![i].remote_id = j, ![i].mux_pause = TRUE]
        /\ toServer' = Append(toServer, m(j))
  BY <1>1 DEF NewSession
<1> HIDE DEF t, tty
<1> DEFINE d == [c EXCEPT !.remote_id = j, !.mux_pause = TRUE]
           e == Session(i, s, tty)
<1>3. j \in Ids /\ j # i /\ j # NoChan /\ j \notin Controls /\ j \notin Sessions /\ chan[j].kind = "free"
  <2>1. j \in Ids /\ chan[j].kind = "free"
    BY DEF LowestFree, Free
  <2> QED BY <1>1, <2>1, NoChanNoId DEF Controls, Sessions
<1>4. /\ slave \in [Slaves -> Slave] /\ chan \in [Ids -> {Free} \cup Ctl \cup Ses]
      /\ IsSeq(toServer) /\ Owned /\ Linked /\ Talks /\ Queue /\ Wire
  BY <1>1 DEF Shape, Orderly
<1>5. /\ chan'[i] = d /\ chan'[j] = e /\ \A k \in Ids : k # i /\ k # j => chan'[k] = chan[k]
  BY <1>2, <1>3, <1>4
<1>6. d \in Ctl /\ d.slave = s /\ d.remote_id = j /\ d.mux_pause /\ ~d.drain /\ d.out = <<>> /\ d.kind = "ctl"
  <2>1. d \in Ctl
    BY <1>1, <1>3 DEF Ctl
  <2> QED BY <1>1, <2>1 DEF Ctl
<1>7. e \in Ses /\ e.ctl_chan = i /\ e.type = "opening" /\ ~e.dead /\ e.for = s /\ e.kind = "session"
  BY <1>1 DEF Ses, Session
<1>8. DOMAIN chan' = Ids /\ chan' = [k \in Ids |-> chan'[k]]
  BY <1>2, <1>4
<1> HIDE DEF d, e, c, s
<1>9. chan' \in [Ids -> {Free} \cup Ctl \cup Ses]
  <2>1. \A k \in Ids : chan'[k] \in {Free} \cup Ctl \cup Ses
    BY <1>4, <1>5, <1>6, <1>7
  <2> QED BY <1>8, <2>1
<1>10. slave'[s] = t /\ (\A r \in Slaves : r # s => slave'[r] = slave[r]) /\ slave' \in [Slaves -> Slave]
  BY <1>1, <1>4
<1>11. /\ IsSeq(toServer') /\ Len(toServer) \in Nat /\ DOMAIN toServer = 1..Len(toServer)
       /\ DOMAIN toServer' = 1..(Len(toServer) + 1) /\ toServer'[Len(toServer) + 1] = m(j)
       /\ \A k \in DOMAIN toServer : k \in DOMAIN toServer' /\ toServer'[k] = toServer[k]
  <2> HIDE DEF m
  <2> QED BY <1>2, <1>4, SeqAppend
<1>12. Shape'
  BY <1>1, <1>9, <1>10, <1>11 DEF Shape
<1>13. Controls' = Controls /\ Sessions' = Sessions \cup {j}
  <2>1. \A k \in Ids : k # j => chan'[k].kind = chan[k].kind
    BY <1>1, <1>5, <1>6 DEF Controls
  <2> QED BY <1>3, <1>5, <1>7, <2>1 DEF Controls, Sessions
<1>14. /\ \A k \in Controls : k \in Ids /\ k # j /\ chan[k].slave \in Slaves /\ chan'[k].slave = chan[k].slave
       /\ \A k \in Controls : k # i => chan'[k] = chan[k]
       /\ \A k \in Sessions : k \in Ids /\ k # j /\ k # i /\ chan'[k] = chan[k]
  <2>1. \A k \in Controls : k \in Ids /\ chan[k] \in Ctl
    BY <1>1, ChanKind DEF Controls
  <2>2. \A k \in Sessions : k \in Ids /\ k # i
    BY <1>1 DEF Controls, Sessions
  <2>3. \A k \in Controls : chan[k].slave \in Slaves
    BY <2>1 DEF Ctl
  <2> QED BY <1>3, <1>5, <1>6, <2>1, <2>2, <2>3 DEF c, s
<1>15. \A r \in Slaves : LastIsSession(slave'[r])
  BY <1>1, <1>10 DEF IInv
<1>16. Survives'
  BY DEF IInv, Survives
<1>17. AnswerReachesAsker'
  <2>1. DOMAIN d.out = {} /\ DOMAIN t.in = {}
    BY <1>1, <1>6
  <2>2. \A k \in Ids : chan'[k].kind = "ctl" =>
          \A n \in DOMAIN chan'[k].out : chan'[k].out[n].for = chan'[k].slave
    BY <1>5, <1>7, <2>1 DEF IInv, AnswerReachesAsker
  <2>3. \A r \in Slaves : \A n \in DOMAIN slave'[r].in : slave'[r].in[n].for = r
    BY <1>10, <2>1 DEF IInv, AnswerReachesAsker
  <2> QED BY <2>2, <2>3 DEF AnswerReachesAsker
<1>18. slave[s].ctl = i /\ \A r \in Slaves : slave'[r].ctl = slave[r].ctl
  BY <1>1, <1>4, <1>10 DEF Owned, s, c
<1>19. Owned'
  <2>1. \A k \in Controls' : slave'[chan'[k].slave].ctl = k
    BY <1>4, <1>13, <1>14, <1>18 DEF Owned
  <2>2. \A r \in Slaves : slave'[r].ctl # NoChan => slave'[r].ctl \in Controls' /\ chan'[slave'[r].ctl].slave = r
    BY <1>4, <1>13, <1>14, <1>18 DEF Owned
  <2>3. \A r \in Slaves : slave'[r].pc = "idle" =>
          slave'[r].ctl = NoChan /\ slave'[r].in = <<>> /\ slave'[r].out = <<>>
    BY <1>1, <1>4, <1>10 DEF Owned
  <2> QED BY <2>1, <2>2, <2>3 DEF Owned
<1>20. Linked'
  <2>1. \A k \in Controls' : chan'[k].remote_id # NoChan =>
           /\ chan'[k].remote_id \in Sessions' /\ chan'[chan'[k].remote_id].ctl_chan = k
           /\ chan'[k].mux_pause => chan'[chan'[k].remote_id].type = "opening"
    <3>1. ASSUME NEW k \in Controls, k # i, chan'[k].remote_id # NoChan
          PROVE  /\ chan'[k].remote_id \in Sessions' /\ chan'[chan'[k].remote_id].ctl_chan = k
                 /\ chan'[k].mux_pause => chan'[chan'[k].remote_id].type = "opening"
      BY <1>4, <1>13, <1>14, <3>1 DEF Linked
    <3>2. /\ chan'[i].remote_id \in Sessions' /\ chan'[chan'[i].remote_id].ctl_chan = i
          /\ chan'[chan'[i].remote_id].type = "opening"
      BY <1>5, <1>6, <1>7, <1>13
    <3> QED BY <1>13, <3>1, <3>2
  <2>2. \A k \in Sessions : chan[k].ctl_chan # i
    BY <1>1, <1>4, <1>14, NoChanNoId DEF Linked, c
  <2>3. \A k \in Sessions' : chan'[k].ctl_chan # NoChan =>
           /\ chan'[k].ctl_chan \in Controls' /\ chan'[chan'[k].ctl_chan].remote_id = k
           /\ chan'[chan'[k].ctl_chan].slave = chan'[k].for
    BY <1>1, <1>4, <1>5, <1>6, <1>7, <1>13, <1>14, <2>2 DEF Linked
  <2>4. ASSUME NEW k \in Sessions', chan'[k].type = "opening"
        PROVE  ~chan'[k].dead /\ chan'[k].ctl_chan # NoChan /\ chan'[chan'[k].ctl_chan].mux_pause
    <3>1. CASE k = j
      BY <1>5, <1>6, <1>7, <3>1, NoChanNoId
    <3>2. CASE k # j
      <4>1. k \in Sessions /\ chan'[k] = chan[k]
        BY <1>13, <1>14, <3>2
      <4>2. ~chan[k].dead /\ chan[k].ctl_chan # NoChan /\ chan[chan[k].ctl_chan].mux_pause
        BY <1>4, <2>4, <4>1 DEF Linked
      <4>3. chan[k].ctl_chan \in Controls
        BY <1>4, <4>1, <4>2 DEF Linked
      <4> QED BY <1>14, <2>2, <4>1, <4>2, <4>3
    <3> QED BY <3>1, <3>2
  <2> QED BY <2>1, <2>3, <2>4 DEF Linked
<1>21. Talks'
  <2> SUFFICES ASSUME NEW r \in Slaves, slave'[r].ctl # NoChan
               PROVE  Talk(slave'[r], chan'[slave'[r].ctl]) /\ Awaits(slave'[r], chan'[slave'[r].ctl])
    BY DEF Talks
  <2>1. CASE r = s
    <3>1. Busy(d)
      BY <1>3, <1>6 DEF Busy
    <3>2. Talk(t, d)
      BY <1>1, <1>6, <3>1 DEF Talk
    <3>3. Awaits(t, d)
      BY <1>1, <1>6, <3>1 DEF Awaits
    <3> QED BY <1>1, <1>5, <1>10, <2>1, <3>2, <3>3
  <2>2. CASE r # s
    <3>1. slave'[r] = slave[r] /\ slave[r].ctl \in Controls /\ chan[slave[r].ctl].slave = r
      BY <1>4, <1>10, <2>2 DEF Owned
    <3>2. slave[r].ctl # i
      BY <2>2, <3>1 DEF s, c
    <3> QED BY <1>4, <1>14, <3>1, <3>2 DEF Talks
  <2> QED BY <2>1, <2>2
<1>22. Queue'
  <2>1. \A k \in Ids : Waits(k)' <=> Waits(k)
    <3>1. ~Waits(i) /\ ~Waits(i)'
      BY <1>1, <1>3, <1>5, <1>6 DEF Waits, c
    <3> QED BY <1>13, <1>14, <3>1 DEF Waits
  <2>2. \A k \in Ids : Waits(k) => chan'[k].slave = chan[k].slave
    BY <1>14 DEF Waits
  <2> QED BY <1>4, <2>1, <2>2, QueueFrame
<1>23. Wire'
  <2>1. \A k \in Ids : k # j => (Opening(k)' <=> Opening(k)) /\ (Open(k)' <=> Open(k))
    BY <1>13, <1>14 DEF Opening, Open
  <2>2. ~Opening(j) /\ ~Open(j) /\ Opening(j)' /\ ~Open(j)'
    BY <1>3, <1>5, <1>7, <1>13 DEF Opening, Open
  <2>3. \A k : (Opening(k) => k \in Ids /\ k # j) /\ (Open(k) => k \in Ids /\ k # j)
    BY <2>2 DEF Opening, Open, Sessions
  <2>4. \A k : (Opening(k) => Opening(k)') /\ (Open(k) => Open(k)')
    BY <2>1, <2>3
  <2>5. \A n : Stage(n) => n.chan # j
    BY <2>3 DEF Stage
  <2>6. \A n : Stage(n) => Stage(n)'
    BY <2>4 DEF Stage
  <2> DEFINE z == Len(toServer) + 1
  <2>7. /\ \A k \in DOMAIN toServer' : k = z \/ (k \in DOMAIN toServer /\ toServer'[k] = toServer[k])
        /\ z \in DOMAIN toServer' /\ toServer'[z] = m(j) /\ z \notin DOMAIN toServer
        /\ \A k \in DOMAIN toServer : k \in DOMAIN toServer' /\ toServer'[k] = toServer[k]
    BY <1>11
  <2>8. m(j).type = "OPEN" /\ m(j).chan = j /\ Asks(m(j))
    BY DEF Asks
  <2> HIDE DEF z, m
  <2>9. j \notin progs
    BY <1>4, <2>2 DEF Wire
  <2>10. Stage(m(j))'
    BY <2>2, <2>8 DEF Stage
  <2>11. \A k \in DOMAIN toServer : Asks(toServer[k]) => toServer[k].chan # j
    BY <1>4, <2>5 DEF Wire
  <2>12. \A k \in DOMAIN toClient : Tells(toClient[k]) => toClient[k].chan # j
    BY <1>4, <2>5 DEF Wire
  <2>13. \A k \in DOMAIN toServer' : Asks(toServer'[k]) => Stage(toServer[k])' /\ toServer'[k].chan \notin progs
    BY <1>4, <2>6, <2>7, <2>8, <2>9, <2>10 DEF Wire
  <2>14. \A k, l \in DOMAIN toServer' : Asks(toServer'[k]) /\ Asks(toServer'[l])
           /\ toServer'[k].chan = toServer'[l].chan => k = l
    BY <1>4, <2>7, <2>8, <2>11 DEF Wire
  <2>15. \A k \in DOMAIN toClient : Tells(toClient[k]) => Stage(toClient[k])'
    BY <1>4, <2>6 DEF Wire
  <2>16. \A k \in DOMAIN toClient, l \in DOMAIN toServer' :
           Ends(toClient[k]) /\ Asks(toServer'[l]) => toClient[k].chan # toServer'[l].chan
    BY <1>4, <2>7, <2>8, <2>12 DEF Wire, Ends, Tells
  <2>17. \A k \in Ids : Opening(k)' =>
           \/ \E l \in DOMAIN toServer' : toServer'[l].type = "OPEN" /\ toServer'[l].chan = k
           \/ \E l \in DOMAIN toClient : toClient[l].type = "OPENED" /\ toClient[l].chan = k
    <3> SUFFICES ASSUME NEW k \in Ids, Opening(k)'
                 PROVE  \/ \E l \in DOMAIN toServer' : toServer'[l].type = "OPEN" /\ toServer'[l].chan = k
                        \/ \E l \in DOMAIN toClient : toClient[l].type = "OPENED" /\ toClient[l].chan = k
      OBVIOUS
    <3>1. CASE k = j
      BY <2>7, <2>8, <3>1
    <3>2. CASE k # j
      <4>1. \/ \E l \in DOMAIN toServer : toServer[l].type = "OPEN" /\ toServer[l].chan = k
            \/ \E l \in DOMAIN toClient : toClient[l].type = "OPENED" /\ toClient[l].chan = k
        BY <1>4, <2>1, <3>2 DEF Wire
      <4> QED BY <2>7, <4>1
    <3> QED BY <3>1, <3>2
  <2> QED BY <1>4, <2>4, <2>13, <2>14, <2>15, <2>16, <2>17 DEF Wire
<1> QED BY <1>12, <1>15, <1>16, <1>17, <1>19, <1>20, <1>21, <1>22, <1>23 DEF IInv, Orderly

\* mux_master_read_cb
LEMMA ReadRequestKeeps ==
  ASSUME IInv, NEW i \in Ids, ReadRequest(i)
  PROVE  IInv'
<1> DEFINE r == Head(Its(i).out)
<1>1. /\ Running /\ MayRead(chan[i]) /\ Its(i).out # <<>> /\ toClient' = toClient /\ progs' = progs
      /\ slave' = [slave EXCEPT ![chan[i].slave].out = Tail(@)]
  BY DEF ReadRequest, Its, server
<1>2. /\ i \in Controls /\ chan[i].slave \in Slaves /\ Its(i) \in Slave
  BY <1>1, RequestRead
<1>3. r \in Requests
  <2>1. Its(i).out \in Seq(Requests)
    BY <1>2 DEF Slave
  <2> QED BY <1>1, <2>1
<1>4. CASE r.type = "OPEN_FWD"
  <2>1. OpenFwd(i, r.fwd) /\ over' = over
    BY <1>4 DEF ReadRequest, Its
  <2> QED BY <1>1, <2>1, OpenFwdKeeps
<1>5. CASE r.type = "CLOSE_FWD"
  <2>1. CloseFwd(i, r.fwd) /\ over' = over
    BY <1>5 DEF ReadRequest, Its
  <2> QED BY <1>1, <2>1, CloseFwdKeeps
<1>6. CASE r.type = "NEW_SESSION"
  <2>1. NewSession(i, r) /\ over' = over /\ confirms' = confirms
    BY <1>6 DEF ReadRequest, Its, tables
  <2> QED BY <1>1, <1>6, <2>1, NewSessionKeeps
<1>7. CASE r.type = "STOP"
  <2>1. chan' = [chan EXCEPT ![i] = Say(@, "OK")] /\ over' = over /\ confirms' = confirms /\ toServer' = toServer
    BY <1>7 DEF ReadRequest, Its, tables
  <2>2. "OK" \in Replies
    BY DEF Replies
  <2> QED BY <1>1, <2>1, <2>2, AnswerKeeps DEF Sends
<1>8. CASE r.type = "TERMINATE"
  <2>1. over' = "quit" /\ chan' = chan /\ confirms' = confirms /\ toServer' = toServer
    BY <1>8 DEF ReadRequest, Its, tables
  <2> DEFINE t == Took(Its(i))
             s == chan[i].slave
  <2>2. t \in Slave /\ LastIsSession(t) /\ t.in = <<>> /\ s \in Slaves /\ Shape /\ slave' = [slave EXCEPT ![s] = t]
    BY <1>1, RequestRead
  <2> HIDE DEF t
  <2>3. slave \in [Slaves -> Slave]
    BY <2>2 DEF Shape
  <2>4. slave'[s] = t /\ (\A q \in Slaves : q # s => slave'[q] = slave[q]) /\ slave' \in [Slaves -> Slave]
    BY <2>2, <2>3
  <2>5. DOMAIN t.in = {}
    BY <2>2
  <2>6. Shape'
    BY <1>1, <2>1, <2>2, <2>4 DEF Shape
  <2>7. \A q \in Slaves : LastIsSession(slave'[q])
    BY <2>2, <2>4 DEF IInv
  <2>8. AnswerReachesAsker'
    BY <2>1, <2>4, <2>5 DEF IInv, AnswerReachesAsker
  <2>9. Survives' /\ ~Running'
    BY <2>1 DEF Survives, Running
  <2> QED BY <2>6, <2>7, <2>8, <2>9 DEF IInv
<1> QED BY <1>3, <1>4, <1>5, <1>6, <1>7, <1>8, RequestType

-----------------------------------------------------------------------------
(* Sessions.                                                               *)

\* channel_garbage_collect: a dead session is not being opened, so its control
\* channel waits for nothing and can be drained.
LEMMA FreeSessionKeeps ==
  ASSUME IInv, NEW j \in Ids, FreeSession(j)
  PROVE  IInv'
<1>0. PICK i : i = chan[j].ctl_chan
  OBVIOUS
<1> DEFINE c == chan[i]
           d == [c EXCEPT !.remote_id = NoChan, !.drain = TRUE]
           v == slave[c.slave]
<1>1. /\ Running /\ j \in Sessions /\ chan[j].dead /\ slave' = slave /\ confirms' = confirms
      /\ toServer' = toServer /\ toClient' = toClient /\ progs' = progs
  BY DEF FreeSession, Sessions, tables, net, server
<1>2. /\ Shape /\ Orderly /\ slave \in [Slaves -> Slave] /\ chan \in [Ids -> {Free} \cup Ctl \cup Ses]
      /\ Owned /\ Linked /\ Talks /\ Queue /\ Wire
  BY <1>1 DEF IInv, Orderly, Shape
<1>3. chan[j].type # "opening" /\ j # NoChan /\ j \notin Controls
  BY <1>1, <1>2, NoChanNoId DEF Linked, Sessions, Controls
<1>4. i # NoChan => i \in Controls /\ i \in Ids /\ i # j /\ c.remote_id = j /\ ~c.mux_pause
  <2>1. i # NoChan => i \in Controls /\ c.remote_id = j
    BY <1>0, <1>1, <1>2 DEF Linked
  <2>2. i # NoChan => ~c.mux_pause
    BY <1>1, <1>2, <1>3, <2>1 DEF Linked
  <2> QED BY <1>3, <2>1, <2>2 DEF Controls
<1>5. /\ over' = over
      /\ chan' = [k \in Ids |-> CASE k = j -> Free [] k = i -> d [] OTHER -> chan[k]]
  BY <1>0, <1>4 DEF FreeSession, Controls
<1>6. i # NoChan => /\ c \in Ctl /\ c.slave \in Slaves /\ v.ctl = i /\ v \in Slave
                    /\ Talk(v, c) /\ Awaits(v, c)
  BY <1>1, <1>4, SlaveOf
<1>7. i # NoChan => /\ d \in Ctl /\ d.slave = c.slave /\ d.remote_id = NoChan /\ d.drain /\ d.out = c.out
                    /\ ~d.mux_pause
  <2> SUFFICES ASSUME i # NoChan
               PROVE  /\ d \in Ctl /\ d.slave = c.slave /\ d.remote_id = NoChan /\ d.drain /\ d.out = c.out
                      /\ ~d.mux_pause
    OBVIOUS
  <2>1. c \in Ctl /\ ~c.mux_pause
    BY <1>4, <1>6
  <2> HIDE DEF c
  <2> QED BY <2>1 DEF Ctl
<1>8. /\ chan'[j] = Free /\ (i # NoChan => chan'[i] = d) /\ \A k \in Ids : k # i /\ k # j => chan'[k] = chan[k]
  <2> HIDE DEF d, c
  <2>1. j # i
    BY <1>3, <1>4
  <2>2. \A k \in Ids : chan'[k] = CASE k = j -> Free [] k = i -> d [] OTHER -> chan[k]
    BY <1>5
  <2> QED BY <1>4, <2>1, <2>2
<1> HIDE DEF d, c, v
<1>9. Controls' = Controls /\ Sessions' = Sessions \ {j}
  <2>1. chan'[j].kind = "free"
    BY <1>8 DEF Free
  <2>2. i # NoChan => chan'[i].kind = "ctl" /\ chan[i].kind = "ctl"
    BY <1>4, <1>7, <1>8 DEF Ctl, Controls
  <2>3. \A k \in Ids : k # j => chan'[k].kind = chan[k].kind
    BY <1>8, <2>2, NoChanNoId
  <2> QED BY <1>3, <2>1, <2>3 DEF Controls, Sessions
<1>10. /\ \A k \in Controls : k \in Ids /\ k # NoChan /\ k # j /\ chan[k].slave \in Slaves /\ chan'[k].slave = chan[k].slave
       /\ \A k \in Controls : k # i => chan'[k] = chan[k]
       /\ \A k \in Sessions : k # j => k \in Ids /\ k # NoChan /\ k # i /\ chan'[k] = chan[k]
  <2>1. \A k \in Controls : k \in Ids /\ chan[k] \in Ctl /\ k # NoChan /\ k # j
    BY <1>2, <1>3, ChanKind, NoChanNoId DEF Controls
  <2>2. \A k \in Controls : chan[k].slave \in Slaves
    BY <2>1 DEF Ctl
  <2>3. \A k \in Sessions : k \in Ids /\ k # NoChan /\ k # i
    BY <1>4, NoChanNoId DEF Sessions, Controls
  <2>4. i # NoChan => chan'[i].slave = chan[i].slave
    BY <1>7, <1>8 DEF c
  <2> QED BY <1>8, <2>1, <2>2, <2>3, <2>4
<1>11. Shape'
  <2>1. \A k \in Ids : chan'[k] \in {Free} \cup Ctl \cup Ses
    BY <1>2, <1>4, <1>7, <1>8, NoChanNoId
  <2>2. chan' \in [Ids -> {Free} \cup Ctl \cup Ses]
    BY <1>5, <2>1
  <2> QED BY <1>1, <1>2, <2>2 DEF Shape
<1>12. (\A r \in Slaves : LastIsSession(slave'[r])) /\ Survives'
  BY <1>1, <1>5 DEF IInv, Survives
<1>13. AnswerReachesAsker'
  <2>1. \A k \in Controls : chan'[k].out = chan[k].out
    BY <1>7, <1>8, <1>10 DEF c
  <2>2. \A k \in Ids : chan'[k].kind = "ctl" => k \in Controls
    BY <1>9 DEF Controls
  <2>3. \A k \in Ids : chan'[k].kind = "ctl" =>
          \A n \in DOMAIN chan'[k].out : chan'[k].out[n].for = chan'[k].slave
    BY <1>10, <2>1, <2>2 DEF IInv, AnswerReachesAsker, Controls
  <2> QED BY <1>1, <2>3 DEF IInv, AnswerReachesAsker
<1>14. Owned'
  <2>1. \A k \in Controls' : slave'[chan'[k].slave].ctl = k
    BY <1>1, <1>2, <1>9, <1>10 DEF Owned
  <2>2. \A r \in Slaves : slave'[r].ctl # NoChan => slave'[r].ctl \in Controls' /\ chan'[slave'[r].ctl].slave = r
    BY <1>1, <1>2, <1>9, <1>10 DEF Owned
  <2> QED BY <1>1, <1>2, <2>1, <2>2 DEF Owned
<1>15. Linked'
  <2>1. i # NoChan => chan'[i].remote_id = NoChan /\ ~chan'[i].mux_pause
    BY <1>7, <1>8
  <2>2. \A k \in Controls : k # i /\ chan[k].remote_id # NoChan => chan[k].remote_id # j
    BY <1>0, <1>2 DEF Linked
  <2>3. \A k \in Controls' : chan'[k].remote_id # NoChan =>
           /\ chan'[k].remote_id \in Sessions' /\ chan'[chan'[k].remote_id].ctl_chan = k
           /\ chan'[k].mux_pause => chan'[chan'[k].remote_id].type = "opening"
    <3> SUFFICES ASSUME NEW k \in Controls, chan'[k].remote_id # NoChan
                 PROVE  /\ chan'[k].remote_id \in Sessions' /\ chan'[chan'[k].remote_id].ctl_chan = k
                        /\ chan'[k].mux_pause => chan'[chan'[k].remote_id].type = "opening"
      BY <1>9
    <3>1. k # i /\ chan'[k] = chan[k]
      BY <1>10, <2>1
    <3>2. chan[k].remote_id \in Sessions /\ chan[k].remote_id # j
      BY <1>2, <2>2, <3>1 DEF Linked
    <3>3. chan'[chan[k].remote_id] = chan[chan[k].remote_id] /\ chan[k].remote_id \in Sessions'
      BY <1>9, <1>10, <3>2
    <3> QED BY <1>2, <3>1, <3>3 DEF Linked
  <2>4. ASSUME NEW k \in Sessions', chan[k].ctl_chan # NoChan
        PROVE  /\ chan[k].ctl_chan \in Controls /\ chan[chan[k].ctl_chan].remote_id = k
               /\ chan[k].ctl_chan # i /\ chan[chan[k].ctl_chan].slave = chan[k].for
    <3>1. k \in Sessions /\ k # j
      BY <1>9
    <3>2. /\ chan[k].ctl_chan \in Controls /\ chan[chan[k].ctl_chan].remote_id = k
          /\ chan[chan[k].ctl_chan].slave = chan[k].for
      BY <1>2, <2>4, <3>1 DEF Linked
    <3>3. chan[k].ctl_chan # i
      BY <1>4, <2>4, <3>1, <3>2 DEF c
    <3> QED BY <3>2, <3>3
  <2>5. \A k \in Sessions' : k \in Sessions /\ chan'[k] = chan[k]
    BY <1>9, <1>10
  <2>6. \A k \in Sessions' : chan'[k].ctl_chan # NoChan =>
           /\ chan'[k].ctl_chan \in Controls' /\ chan'[chan'[k].ctl_chan].remote_id = k
           /\ chan'[chan'[k].ctl_chan].slave = chan'[k].for
    BY <1>9, <1>10, <2>4, <2>5
  <2>7. \A k \in Sessions' : chan'[k].type = "opening" =>
           ~chan'[k].dead /\ chan'[k].ctl_chan # NoChan /\ chan'[chan'[k].ctl_chan].mux_pause
    <3> SUFFICES ASSUME NEW k \in Sessions', chan[k].type = "opening"
                 PROVE  ~chan[k].dead /\ chan[k].ctl_chan # NoChan /\ chan'[chan[k].ctl_chan].mux_pause
      BY <2>5
    <3>1. ~chan[k].dead /\ chan[k].ctl_chan # NoChan /\ chan[chan[k].ctl_chan].mux_pause
      BY <1>2, <2>5 DEF Linked
    <3> QED BY <1>10, <2>4, <3>1
  <2> QED BY <2>3, <2>6, <2>7 DEF Linked
<1>16. Talks'
  <2> SUFFICES ASSUME NEW r \in Slaves, slave[r].ctl # NoChan
               PROVE  Talk(slave[r], chan'[slave[r].ctl]) /\ Awaits(slave[r], chan'[slave[r].ctl])
    BY <1>1 DEF Talks
  <2>1. slave[r].ctl \in Controls /\ chan[slave[r].ctl].slave = r
    BY <1>2 DEF Owned
  <2>2. CASE slave[r].ctl = i
    <3>1. i # NoChan /\ v = slave[r] /\ Talk(v, c) /\ Awaits(v, c) /\ Busy(c)
      BY <1>3, <1>4, <1>6, <2>1, <2>2 DEF v, c, Busy
    <3>2. Busy(d)
      BY <1>7, <3>1 DEF Busy
    <3>3. Talk(v, d)
      BY <1>7, <3>1, <3>2 DEF Talk
    <3>4. Awaits(v, d)
      BY <1>4, <1>7, <3>1, <3>2 DEF Awaits
    <3> QED BY <1>8, <2>2, <3>1, <3>3, <3>4
  <2>3. CASE slave[r].ctl # i
    BY <1>2, <1>10, <2>1, <2>3 DEF Talks
  <2> QED BY <2>2, <2>3
<1>17. Queue'
  <2>1. \A k \in Ids : Waits(k)' <=> Waits(k)
    <3>1. i # NoChan => ~Waits(i) /\ ~Waits(i)'
      BY <1>4, <1>7, <1>8 DEF Waits, c
    <3> QED BY <1>9, <1>10, <3>1, NoChanNoId DEF Waits
  <2>2. \A k \in Ids : Waits(k) => chan'[k].slave = chan[k].slave
    BY <1>10 DEF Waits
  <2> QED BY <1>1, <1>2, <2>1, <2>2, QueueFrame
<1>18. Wire'
  <2>1. \A k \in Ids : (Opening(k)' <=> Opening(k)) /\ (Open(k)' <=> Open(k))
    BY <1>1, <1>9, <1>10 DEF Opening, Open
  <2> QED BY <1>1, <1>2, <2>1, WireFrame
<1> QED BY <1>11, <1>12, <1>13, <1>14, <1>15, <1>16, <1>17, <1>18 DEF IInv, Orderly

-----------------------------------------------------------------------------
(* The queue of confirmations.                                             *)

\* The other confirmations stay in the queue while one comes, is counted or goes.
Paired(h) ==
  /\ \A k \in DOMAIN confirms' : k \in Nat /\ Known(confirms'[k])
  /\ \A k \in DOMAIN confirms' : IsMux(confirms'[k]) =>
       k + h \in DOMAIN confirms /\ confirms'[k] = confirms[k + h]
  /\ \A k \in DOMAIN confirms : IsMux(confirms[k]) =>
       \/ k - h \in DOMAIN confirms' /\ confirms'[k - h] = confirms[k]
       \/ h = 1 /\ k = 1

LEMMA QueueShift ==
  ASSUME Queue, NEW h \in {0, 1}, Paired(h), h = 1 => ~IsMux(confirms[1]),
         \A i \in Ids : Waits(i)' <=> Waits(i),
         \A i \in Ids : Waits(i) => chan'[i].slave = chan[i].slave
  PROVE  Queue'
<1>1. \A i : Waits(i) => i \in Ids
  BY DEF Waits, Controls
<1>2. \A k \in DOMAIN confirms' : IsMux(confirms'[k]) =>
        k \in Nat /\ k + h \in DOMAIN confirms /\ confirms'[k] = confirms[k + h]
  BY DEF Paired
<1>3. \A k \in DOMAIN confirms : IsMux(confirms[k]) =>
        k - h \in DOMAIN confirms' /\ confirms'[k - h] = confirms[k]
  BY DEF Paired
<1>4. \A k \in DOMAIN confirms' : Known(confirms'[k])
  BY DEF Paired
<1>5. \A k \in DOMAIN confirms' : IsMux(confirms'[k]) =>
        /\ confirms'[k].ref_count = 1 /\ Waits(confirms[k].cid)'
        /\ chan'[confirms'[k].cid].slave = confirms'[k].for
  BY <1>1, <1>2 DEF Queue
<1>6. \A k, l \in DOMAIN confirms' :
        IsMux(confirms'[k]) /\ IsMux(confirms'[l]) /\ confirms'[k].cid = confirms'[l].cid => k = l
  <2> SUFFICES ASSUME NEW k \in DOMAIN confirms', NEW l \in DOMAIN confirms', IsMux(confirms'[k]),
                      IsMux(confirms'[l]), confirms'[k].cid = confirms'[l].cid
               PROVE  k = l
    OBVIOUS
  <2>1. k + h = l + h
    BY <1>2 DEF Queue
  <2> QED BY <1>2, <2>1
<1>7. \A i \in Ids : Waits(i)' => \E k \in DOMAIN confirms' : IsMux(confirms'[k]) /\ confirms'[k].cid = i
  <2> SUFFICES ASSUME NEW i \in Ids, Waits(i)
               PROVE  \E k \in DOMAIN confirms' : IsMux(confirms'[k]) /\ confirms'[k].cid = i
    OBVIOUS
  <2>1. PICK k \in DOMAIN confirms : IsMux(confirms[k]) /\ confirms[k].cid = i
    BY DEF Queue
  <2> QED BY <1>3, <2>1
<1> QED BY <1>4, <1>5, <1>6, <1>7 DEF Queue

\* A step that leaves the slaves and channels alone.
LEMMA NetKeeps ==
  ASSUME IInv, Running, slave' = slave, chan' = chan, over' = over,
         IsSeq(confirms') /\ IsSeq(toServer') /\ IsSeq(toClient') /\ progs' \subseteq Ids,
         (\A i \in Ids : Waits(i)' <=> Waits(i)) => Queue',
         (\A j \in Ids : (Opening(j)' <=> Opening(j)) /\ (Open(j)' <=> Open(j))) => Wire'
  PROVE  IInv'
<1>1. Controls' = Controls /\ Sessions' = Sessions
  BY DEF Controls, Sessions
<1>2. Queue'
  BY <1>1 DEF Waits
<1>3. Wire'
  BY <1>1 DEF Opening, Open
<1>4. Orderly /\ Shape
  BY DEF IInv
<1>5. Owned'
  BY <1>1, <1>4 DEF Orderly, Owned
<1>6. Linked'
  BY <1>1, <1>4 DEF Orderly, Linked
<1>7. Talks'
  BY <1>4 DEF Orderly, Talks
<1>8. Shape'
  BY <1>4 DEF Shape
<1>9. Survives' /\ AnswerReachesAsker' /\ \A s \in Slaves : LastIsSession(slave'[s])
  BY DEF IInv, Survives, AnswerReachesAsker
<1> QED BY <1>2, <1>3, <1>5, <1>6, <1>7, <1>8, <1>9 DEF IInv, Orderly

\* What the master does with its queue of confirmations when it gets a reply.
Popped ==
  confirms' = IF Head(confirms).ref_count > 1
              THEN [confirms EXCEPT ![1].ref_count = @ - 1] ELSE Tail(confirms)

LEMMA PopFacts ==
  ASSUME Queue, IsSeq(confirms), confirms # <<>>, Popped
  PROVE  /\ IsSeq(confirms') /\ 1 \in DOMAIN confirms /\ Head(confirms) = confirms[1]
         /\ IsMux(confirms[1]) => confirms' = Tail(confirms) /\ Paired(1)
         /\ ~IsMux(confirms[1]) => \E h \in {0, 1} : Paired(h)
<1>1. /\ IsSeq(Tail(confirms)) /\ Len(confirms) \in Nat \ {0}
      /\ DOMAIN confirms = 1..Len(confirms) /\ DOMAIN Tail(confirms) = 1..(Len(confirms) - 1)
      /\ \A k \in DOMAIN Tail(confirms) : k + 1 \in DOMAIN confirms /\ Tail(confirms)[k] = confirms[k + 1]
      /\ 1 \in DOMAIN confirms /\ Head(confirms) = confirms[1]
  BY SeqTail
<1>2. \A k \in DOMAIN confirms : Known(confirms[k])
  BY DEF Queue
<1>3. CASE confirms' = Tail(confirms)
  <2>1. \A k \in DOMAIN confirms' : k \in Nat /\ Known(confirms'[k])
    BY <1>1, <1>2, <1>3
  <2>2. \A k \in DOMAIN confirms : k = 1 \/ (k - 1 \in DOMAIN confirms' /\ (k - 1) + 1 = k)
    BY <1>1, <1>3
  <2>3. \A k \in DOMAIN confirms : k = 1 \/ (k - 1 \in DOMAIN confirms' /\ confirms'[k - 1] = confirms[k])
    BY <1>1, <1>3, <2>2
  <2>4. Paired(1)
    BY <1>1, <1>3, <2>1, <2>3 DEF Paired
  <2> QED BY <1>1, <1>3, <2>4
<1>4. CASE Head(confirms).ref_count > 1
  <2> DEFINE g == confirms[1]
             e == [g EXCEPT !.ref_count = g.ref_count - 1]
  <2>1. confirms' = [confirms EXCEPT ![1] = e]
    BY <1>1, <1>4 DEF Popped
  <2>2. ~IsMux(g)
    <3>1. IsMux(g) => g.ref_count = 1
      BY <1>1 DEF Queue
    <3> QED BY <1>1, <1>4, <3>1
  <2>3. Known(g)
    BY <1>1, <1>2
  <2>4. Known(e) /\ ~IsMux(e)
    BY <2>2, <2>3 DEF Known, IsMux
  <2> HIDE DEF e
  <2>5. /\ IsSeq(confirms') /\ DOMAIN confirms' = DOMAIN confirms /\ confirms'[1] = e
        /\ \A l \in DOMAIN confirms : l # 1 => confirms'[l] = confirms[l]
    BY <1>1, <2>1, SeqExcept
  <2>6. \A k \in DOMAIN confirms : k \in Nat /\ k + 0 = k /\ k - 0 = k
    BY <1>1
  <2> HIDE DEF g
  <2>7. Paired(0)
    <3>1. \A k \in DOMAIN confirms' : k \in Nat /\ Known(confirms'[k])
      BY <1>2, <2>4, <2>5, <2>6
    <3>2. \A k \in DOMAIN confirms' : IsMux(confirms'[k]) => confirms'[k] = confirms[k]
      BY <2>4, <2>5
    <3>3. \A k \in DOMAIN confirms : IsMux(confirms[k]) => confirms'[k] = confirms[k]
      BY <2>2, <2>5 DEF g
    <3> QED BY <2>5, <2>6, <3>1, <3>2, <3>3 DEF Paired
  <2> QED BY <1>1, <2>2, <2>5, <2>7 DEF g
<1> QED BY <1>3, <1>4 DEF Popped

\* A packet for the master is taken from the queue.
LEMMA TakeClient ==
  ASSUME IInv, Running, toClient # <<>>, toClient' = Tail(toClient)
  PROVE  /\ Kept(toClient', toClient, 1, TellTypes) /\ IsSeq(toClient')
         /\ 1 \in DOMAIN toClient /\ toClient[1] = Head(toClient)
         /\ \A k \in DOMAIN toClient : k \in Nat /\ k >= 1
         /\ IsSeq(toServer) /\ IsSeq(confirms) /\ progs \subseteq Ids /\ Queue /\ Wire /\ Shape
<1>1. Shape /\ Queue /\ Wire
  BY DEF IInv, Orderly
<1>2. IsSeq(toClient) /\ IsSeq(toServer) /\ IsSeq(confirms) /\ progs \subseteq Ids
  BY <1>1 DEF Shape
<1> QED BY <1>1, <1>2, KeptTail

\* The packets after one that neither opens a session nor changes its channel.
LEMMA TakenWire ==
  ASSUME IInv, Running, toClient # <<>>, toClient' = Tail(toClient), toServer' = toServer,
         progs' = progs, Head(toClient).type # "OPENED",
         \A j \in Ids : (Opening(j)' <=> Opening(j)) /\ (Open(j)' <=> Open(j))
  PROVE  Wire'
<1>1. /\ Kept(toClient', toClient, 1, TellTypes) /\ toClient[1] = Head(toClient) /\ IsSeq(toServer) /\ Wire
  BY TakeClient
<1>2. Kept(toServer', toServer, 0, AskTypes)
  BY <1>1, KeptSame
<1>3. 0 \in {0, 1} /\ 1 \in {0, 1} /\ 0 # 1
  OBVIOUS
<1> QED BY <1>1, <1>2, <1>3, WireShift

-----------------------------------------------------------------------------
(* Packets for the master.                                                 *)

\* Neither the slaves nor the channels change.
LEMMA TakenKeeps ==
  ASSUME IInv, Running, toClient # <<>>, toClient' = Tail(toClient), Head(toClient).type # "OPENED",
         slave' = slave, chan' = chan, over' = over, toServer' = toServer, progs' = progs,
         IsSeq(confirms'), (\A i \in Ids : Waits(i)' <=> Waits(i)) => Queue'
  PROVE  IInv'
<1>1. IsSeq(toClient') /\ IsSeq(toServer) /\ progs \subseteq Ids
  BY TakeClient
<1>2. (\A j \in Ids : (Opening(j)' <=> Opening(j)) /\ (Open(j)' <=> Open(j))) => Wire'
  BY TakenWire
<1> QED BY <1>1, <1>2, NetKeeps

\* mux_confirm_remote_forward: the channel that asked still waits, so the
\* callback meets no fatal(), and its slave gets the answer.
LEMMA ResumeKeeps ==
  ASSUME IInv, Running, toClient # <<>>, toClient' = Tail(toClient), Head(toClient).type # "OPENED",
         slave' = slave, toServer' = toServer, progs' = progs,
         confirms # <<>>, Popped, IsMux(Head(confirms)), NEW type \in Replies,
         Resume(Head(confirms).cid, type, Head(confirms).for)
  PROVE  IInv'
<1>1. /\ IsSeq(toClient') /\ IsSeq(toServer) /\ IsSeq(confirms) /\ progs \subseteq Ids /\ Queue /\ Wire /\ Shape
  BY TakeClient
<1>2. PICK gc, i : gc = Head(confirms) /\ i = gc.cid
  OBVIOUS
<1>3. /\ IsSeq(confirms') /\ 1 \in DOMAIN confirms /\ gc = confirms[1] /\ IsMux(gc)
      /\ confirms' = Tail(confirms) /\ Paired(1)
  BY <1>1, <1>2, PopFacts
<1> DEFINE c == chan[i]
           s == c.slave
           v == slave[s]
           e == Msg(type, s)
           o == <<e>>
           d == [c EXCEPT !.out = o, !.mux_pause = FALSE]
<1>4. Waits(i) /\ s = gc.for
  BY <1>1, <1>2, <1>3 DEF Queue
<1>5. i \in Controls /\ c.kind = "ctl" /\ c.mux_pause /\ c.remote_id = NoChan
  BY <1>4 DEF Waits, Controls
<1>6. /\ c \in Ctl /\ s \in Slaves /\ v \in Slave /\ v.ctl = i /\ v.pc # "idle"
      /\ LastIsSession(v) /\ Talk(v, c) /\ Awaits(v, c)
  BY <1>5, SlaveOf
<1>7. c.out = <<>> /\ v.in = <<>> /\ v.out = <<>> /\ ~c.drain /\ v.pc # "hello"
  BY <1>5, <1>6 DEF Talk, Awaits
<1>8. e \in Message /\ e.type = type /\ e.for = s
  BY <1>6 DEF Message, Msg, Replies, Kinds
<1>9. /\ over' = over
      /\ chan' = [chan EXCEPT ![i].out = Append(@, e), ![i].mux_pause = FALSE]
  BY <1>2, <1>4, <1>5 DEF Resume
<1>10. chan' = [chan EXCEPT ![i] = d]
  <2>1. i \in Ids /\ chan \in [Ids -> {Free} \cup Ctl \cup Ses]
    BY <1>1, <1>5 DEF Controls, Shape
  <2>2. Append(c.out, e) = o
    BY <1>7
  <2> HIDE DEF e
  <2> QED BY <1>9, <2>1, <2>2
<1> HIDE DEF e
<1>11. o \in Seq(Message) /\ Len(o) = 1 /\ o # <<>> /\ Head(o) = e /\ \A k \in DOMAIN o : o[k] = e
  BY <1>8
<1> HIDE DEF o
<1>12. d \in Ctl /\ d.slave = s /\ d.remote_id = NoChan /\ ~d.mux_pause /\ ~d.drain /\ d.out = o
  <2>1. d \in Ctl
    BY <1>6, <1>11 DEF Ctl
  <2> QED BY <1>5, <1>6, <1>7, <2>1 DEF Ctl
<1>13. slave' = [slave EXCEPT ![s] = v]
  BY <1>1, <1>6 DEF Shape
<1> HIDE DEF d, c, s, v
<1>14. CtlStep(i, d, v)
  BY <1>5, <1>6, <1>10, <1>12, <1>13 DEF CtlStep, c, s
<1>15. ~Busy(d)
  BY <1>12 DEF Busy
<1>16. Talk(v, d)
  <2>1. Len(v.in) = 0 /\ Len(v.out) = 0 /\ Len(d.out) = 1
    BY <1>7, <1>11, <1>12
  <2>2. Len(v.in) + Len(d.out) + Len(v.out) <= 1
    BY <2>1
  <2> QED BY <1>12, <1>15, <2>2 DEF Talk
<1>17. Awaits(v, d)
  BY <1>7, <1>8, <1>11, <1>12, <1>15 DEF Awaits
<1>18. (\A k \in DOMAIN d.out : d.out[k].for = d.slave) /\ (\A k \in DOMAIN v.in : v.in[k].for = d.slave)
  <2>1. DOMAIN v.in = {}
    BY <1>7
  <2> QED BY <1>8, <1>11, <1>12, <2>1
<1>19. ASSUME ChanIs(i, d) PROVE Wire'
  <2>1. \A j \in Ids : (Opening(j)' <=> Opening(j)) /\ (Open(j)' <=> Open(j))
    BY <1>19 DEF ChanIs
  <2> QED BY <2>1, TakenWire
<1>20. ASSUME ChanIs(i, d) PROVE Queue'
  <2>1. ~Waits(i)' /\ \A k \in Ids : k # i => (Waits(k)' <=> Waits(k))
    BY <1>12, <1>20 DEF ChanIs, Waits
  <2>2. \A k : (Waits(k) => k \in Ids) /\ (Waits(k)' => k \in Ids)
    BY DEF Waits, Controls
  <2>3. \A k \in Ids : chan'[k].slave = chan[k].slave
    BY <1>12, <1>20 DEF ChanIs, c, s
  <2>4. \A k \in DOMAIN confirms' : IsMux(confirms'[k]) =>
          k \in Nat /\ k + 1 \in DOMAIN confirms /\ confirms'[k] = confirms[k + 1] /\ k + 1 # 1
    <3>1. \A k \in DOMAIN confirms' : IsMux(confirms'[k]) =>
            k \in Nat /\ k + 1 \in DOMAIN confirms /\ confirms'[k] = confirms[k + 1]
      BY <1>3 DEF Paired
    <3>2. DOMAIN confirms' = 1..(Len(confirms) - 1) /\ Len(confirms) \in Nat
      BY <1>1, <1>3, SeqTail
    <3> QED BY <3>1, <3>2
  <2>5. \A k \in DOMAIN confirms' : IsMux(confirms'[k]) => confirms'[k].cid # i
    BY <1>1, <1>2, <1>3, <2>4 DEF Queue
  <2>6. \A k \in DOMAIN confirms' : Known(confirms'[k])
    BY <1>3 DEF Paired
  <2>7. \A k \in DOMAIN confirms' : IsMux(confirms'[k]) =>
          /\ confirms'[k].ref_count = 1 /\ Waits(confirms[k].cid)'
          /\ chan'[confirms'[k].cid].slave = confirms'[k].for
    BY <1>1, <2>1, <2>2, <2>3, <2>4, <2>5 DEF Queue
  <2>8. \A k, l \in DOMAIN confirms' :
          IsMux(confirms'[k]) /\ IsMux(confirms'[l]) /\ confirms'[k].cid = confirms'[l].cid => k = l
    <3> SUFFICES ASSUME NEW k \in DOMAIN confirms', NEW l \in DOMAIN confirms', IsMux(confirms'[k]),
                        IsMux(confirms'[l]), confirms'[k].cid = confirms'[l].cid
                 PROVE  k = l
      OBVIOUS
    <3>1. k + 1 = l + 1
      BY <1>1, <2>4 DEF Queue
    <3> QED BY <2>4, <3>1
  <2>9. \A j \in Ids : Waits(j)' => \E k \in DOMAIN confirms' : IsMux(confirms'[k]) /\ confirms'[k].cid = j
    <3> SUFFICES ASSUME NEW j \in Ids, Waits(j)'
                 PROVE  \E k \in DOMAIN confirms' : IsMux(confirms'[k]) /\ confirms'[k].cid = j
      OBVIOUS
    <3>1. j # i /\ Waits(j)
      BY <2>1
    <3>2. PICK k \in DOMAIN confirms : IsMux(confirms[k]) /\ confirms[k].cid = j
      BY <1>1, <3>1 DEF Queue
    <3>3. k # 1
      BY <1>2, <1>3, <3>1, <3>2
    <3>4. k - 1 \in DOMAIN confirms' /\ confirms'[k - 1] = confirms[k]
      BY <1>3, <3>2, <3>3 DEF Paired
    <3> QED BY <3>2, <3>4
  <2> QED BY <2>6, <2>7, <2>8, <2>9 DEF Queue
<1> QED BY <1>1, <1>3, <1>6, <1>9, <1>12, <1>14, <1>16, <1>17, <1>18, <1>19, <1>20, CtlStepKeeps

\* client_global_request_reply
LEMMA ReplyKeeps ==
  ASSUME IInv, Running, toClient # <<>>, toClient' = Tail(toClient), Head(toClient).type # "OPENED",
         slave' = slave, toServer' = toServer, progs' = progs, NEW m, GlobalRequestReply(m)
  PROVE  IInv'
<1>1. IsSeq(confirms) /\ Queue
  BY TakeClient
<1>2. CASE confirms = <<>>
  <2>1. chan' = chan /\ over' = over /\ confirms' = confirms
    BY <1>2 DEF GlobalRequestReply, tables
  <2>2. (\A i \in Ids : Waits(i)' <=> Waits(i)) => Queue'
    BY <1>1, <2>1, QueueFrame
  <2> QED BY <1>1, <2>1, <2>2, TakenKeeps
<1>3. CASE confirms # <<>>
  <2> DEFINE gc == Head(confirms)
  <2>1. Popped
    BY <1>3 DEF GlobalRequestReply, Popped
  <2>2. /\ IsSeq(confirms') /\ 1 \in DOMAIN confirms /\ gc = confirms[1]
        /\ ~IsMux(gc) => \E h \in {0, 1} : Paired(h)
    BY <1>1, <1>3, <2>1, PopFacts
  <2>3. Known(gc)
    BY <1>1, <2>2 DEF Queue
  <2>4. CASE gc.cb = "mux"
    <3>1. MuxConfirmRemoteForward(gc, m) /\ IsMux(gc)
      BY <1>3, <2>4 DEF GlobalRequestReply, IsMux
    <3>2. ~ConfirmIgnored(gc)
      <4>1. chan[gc.cid].kind = "ctl"
        BY <1>1, <2>2, <3>1 DEF Queue, Waits, Controls
      <4> QED BY <4>1 DEF ConfirmIgnored, Free
    <3>3. PICK type : Resume(gc.cid, type, gc.for) /\ type \in Replies
      BY <3>1, <3>2 DEF MuxConfirmRemoteForward, Replies
    <3> QED BY <1>3, <2>1, <3>1, <3>3, ResumeKeeps
  <2>5. CASE gc.cb # "mux"
    <3>1. gc.cb \in {"init", "none"}
      BY <2>3, <2>5 DEF Known
    <3>2. chan' = chan /\ over' \in {over, "port_unread", "dangling"}
      BY <1>3, <3>1 DEF GlobalRequestReply, SshConfirmRemoteForward
    <3>3. ~IsMux(confirms[1])
      BY <2>2, <2>5 DEF IsMux
    <3>4. PICK h \in {0, 1} : Paired(h)
      BY <2>2, <3>3
    <3>5. (\A i \in Ids : Waits(i)' <=> Waits(i)) => Queue'
      BY <1>1, <3>2, <3>3, <3>4, QueueShift
    <3>6. CASE over' = over
      BY <2>2, <3>2, <3>5, <3>6, TakenKeeps
    <3>7. CASE over' \in {"port_unread", "dangling"}
      <4>1. Shape'
        BY <2>2, <3>2, TakeClient DEF Shape
      <4>2. Survives' /\ ~Running'
        BY <3>7 DEF Survives, Running
      <4>3. AnswerReachesAsker' /\ \A s \in Slaves : LastIsSession(slave'[s])
        BY <3>2 DEF IInv, AnswerReachesAsker
      <4> QED BY <4>1, <4>2, <4>3 DEF IInv
    <3> QED BY <3>2, <3>6, <3>7
  <2> QED BY <2>4, <2>5
<1> QED BY <1>2, <1>3

\* A packet about an open session: its control channel, if it still has one, is
\* the one of its slave and waits for nothing.
LEMMA OpenSession ==
  ASSUME IInv, Running, NEW j, Open(j)
  PROVE  /\ j \in Sessions /\ j \in Ids /\ j # NoChan /\ chan[j] \in Ses /\ chan[j].type = "open"
         /\ chan[j].ctl_chan # NoChan =>
              /\ chan[j].ctl_chan \in Controls /\ chan[chan[j].ctl_chan].remote_id = j
              /\ ~chan[chan[j].ctl_chan].mux_pause /\ chan[chan[j].ctl_chan].slave = chan[j].for
<1>1. Shape /\ Linked
  BY DEF IInv, Orderly
<1>2. j \in Sessions /\ j \in Ids /\ j # NoChan /\ chan[j].type = "open"
  BY NoChanNoId DEF Open, Sessions
<1>3. chan[j] \in Ses
  BY <1>1, <1>2, ChanKind
<1>4. chan[j].ctl_chan # NoChan =>
        /\ chan[j].ctl_chan \in Controls /\ chan[chan[j].ctl_chan].remote_id = j
        /\ chan[chan[j].ctl_chan].slave = chan[j].for
  BY <1>1, <1>2 DEF Linked
<1>5. chan[j].ctl_chan # NoChan => ~chan[chan[j].ctl_chan].mux_pause
  BY <1>1, <1>2, <1>4 DEF Linked
<1> QED BY <1>2, <1>3, <1>4, <1>5

\* mux_exit_message, mux_tty_alloc_failed: the slave of the session is told.
LEMMA TellKeeps ==
  ASSUME IInv, Running, toClient # <<>>, toClient' = Tail(toClient), Head(toClient).type # "OPENED",
         slave' = slave, toServer' = toServer, progs' = progs, confirms' = confirms, over' = over,
         NEW j, Open(j), chan[j].ctl_chan # NoChan, NEW type \in Kinds,
         chan' = [chan EXCEPT ![chan[j].ctl_chan].out = Append(@, Msg(type, chan[j].for))]
  PROVE  IInv'
<1>1. /\ IsSeq(toClient') /\ IsSeq(toServer) /\ IsSeq(confirms) /\ progs \subseteq Ids /\ Shape
  BY TakeClient
<1>2. PICK i : i = chan[j].ctl_chan
  OBVIOUS
<1> DEFINE c == chan[i]
           s == c.slave
           v == slave[s]
           e == Msg(type, s)
           o == Append(c.out, e)
           d == [c EXCEPT !.out = o]
<1>3. j # NoChan /\ i \in Controls /\ c.remote_id = j /\ ~c.mux_pause /\ s = chan[j].for
  BY <1>2, OpenSession
<1>4. /\ c \in Ctl /\ s \in Slaves /\ v \in Slave /\ v.ctl = i /\ v.pc # "idle"
      /\ LastIsSession(v) /\ Talk(v, c) /\ Awaits(v, c)
  BY <1>3, SlaveOf
<1>5. e \in Message /\ e.for = s /\ c.out \in Seq(Message)
  BY <1>4 DEF Message, Msg, Ctl
<1>6. chan' = [chan EXCEPT ![i] = d]
  BY <1>2, <1>3
<1>7. /\ o \in Seq(Message) /\ o # <<>> /\ (c.out # <<>> => Head(o) = Head(c.out))
      /\ \A k \in DOMAIN o : (k \in DOMAIN c.out /\ o[k] = c.out[k]) \/ o[k] = e
  <2> HIDE DEF e, c
  <2> QED BY <1>5, AppendFacts
<1> HIDE DEF o
<1>8. d \in Ctl /\ d.slave = s /\ d.remote_id = c.remote_id /\ d.mux_pause = c.mux_pause
      /\ d.drain = c.drain /\ d.out = o
  BY <1>4, <1>7 DEF Ctl
<1>9. slave' = [slave EXCEPT ![s] = v]
  BY <1>1, <1>4 DEF Shape
<1> HIDE DEF d, c, s, v, e
<1>10. CtlStep(i, d, v)
  BY <1>3, <1>4, <1>6, <1>8, <1>9 DEF CtlStep, c, s
<1>11. Busy(c) /\ Busy(d)
  BY <1>3, <1>8 DEF Busy
<1>12. Talk(v, d)
  BY <1>3, <1>4, <1>8, <1>11 DEF Talk
<1>13. Awaits(v, d)
  BY <1>3, <1>4, <1>7, <1>8, <1>11 DEF Awaits
<1>14. \A k \in DOMAIN d.out : d.out[k].for = d.slave
  <2>1. \A k \in DOMAIN c.out : c.out[k].for = s
    BY <1>3 DEF IInv, AnswerReachesAsker, c, s, Controls
  <2> QED BY <1>5, <1>7, <1>8, <2>1
<1>15. \A k \in DOMAIN v.in : v.in[k].for = d.slave
  BY <1>4, <1>8 DEF IInv, AnswerReachesAsker, v
<1>16. ASSUME ChanIs(i, d) PROVE Wire'
  <2>1. \A k \in Ids : (Opening(k)' <=> Opening(k)) /\ (Open(k)' <=> Open(k))
    BY <1>16 DEF ChanIs
  <2> QED BY <2>1, TakenWire
<1>17. ChanIs(i, d) => Queue'
  BY <1>3, <1>8, ChanIsQueue DEF c, s
<1> QED BY <1>1, <1>4, <1>8, <1>10, <1>12, <1>13, <1>14, <1>15, <1>16, <1>17, CtlStepKeeps DEF c

\* client_input_channel_req "exit-status", and a pty-req that failed.
LEMMA StatusKeeps ==
  ASSUME IInv, Running, toClient # <<>>, toClient' = Tail(toClient),
         slave' = slave, toServer' = toServer, progs' = progs, confirms' = confirms,
         \/ Head(toClient).type = "EXIT" /\ ExitStatus(Head(toClient).chan)
         \/ Head(toClient).type = "TTY_FAILURE" /\ TtyFailed(Head(toClient).chan)
  PROVE  IInv'
<1>1. PICK j : j = Head(toClient).chan
  OBVIOUS
<1>2. /\ 1 \in DOMAIN toClient /\ toClient[1] = Head(toClient) /\ IsSeq(confirms) /\ IsSeq(toServer)
      /\ IsSeq(toClient') /\ progs \subseteq Ids /\ Wire /\ Queue /\ Shape
  BY TakeClient
<1>3. Tells(Head(toClient)) /\ Head(toClient).type \notin {"OPEN", "OPENED"}
  BY DEF Tells
<1>4. Open(j)
  BY <1>1, <1>2, <1>3 DEF Wire, Stage
<1>5. CASE chan[j].ctl_chan # NoChan
  <2>1. chan[chan[j].ctl_chan].kind = "ctl"
    BY <1>4, <1>5, OpenSession DEF Controls
  <2>2. PICK type \in Kinds :
          /\ over' = over
          /\ chan' = [chan EXCEPT ![chan[j].ctl_chan].out = Append(@, Msg(type, chan[j].for))]
    BY <1>1, <1>5, <2>1 DEF ExitStatus, TtyFailed, Kinds
  <2> QED BY <1>3, <1>4, <1>5, <2>2, TellKeeps
<1>6. CASE chan[j].ctl_chan = NoChan
  <2>1. chan' = chan /\ over' \in {over, "tty_failed"}
    BY <1>1, <1>6 DEF ExitStatus, TtyFailed
  <2>2. CASE over' = over
    <3>1. (\A i \in Ids : Waits(i)' <=> Waits(i)) => Queue'
      BY <1>2, <2>1, QueueFrame
    <3> QED BY <1>2, <1>3, <2>1, <2>2, <3>1, TakenKeeps
  <2>3. CASE over' = "tty_failed"
    <3>1. Shape'
      BY <1>2, <2>1 DEF Shape
    <3>2. Survives' /\ ~Running'
      BY <2>3 DEF Survives, Running
    <3>3. AnswerReachesAsker' /\ \A s \in Slaves : LastIsSession(slave'[s])
      BY <2>1 DEF IInv, AnswerReachesAsker
    <3> QED BY <3>1, <3>2, <3>3 DEF IInv
  <2> QED BY <2>1, <2>2, <2>3
<1> QED BY <1>5, <1>6

\* Session j becomes e, and is not being opened any more; its control channel i,
\* if it has one, becomes d, which waits for nothing.
SesStep(j, e, i, d) ==
  /\ j \in Sessions /\ e \in Ses /\ e.ctl_chan = i /\ i = chan[j].ctl_chan
  /\ e.for = chan[j].for /\ e.type # "opening" /\ DOMAIN chan' = Ids /\ chan' = [k \in Ids |-> chan'[k]]
  /\ chan'[j] = e /\ \A k \in Ids : k # i /\ k # j => chan'[k] = chan[k]
  /\ i # NoChan =>
       /\ chan'[i] = d /\ d \in Ctl /\ d.slave = chan[i].slave /\ d.remote_id = j /\ ~d.mux_pause
       /\ Talk(Its(i), d) /\ Awaits(Its(i), d) /\ \A k \in DOMAIN d.out : d.out[k].for = d.slave

\* The other sessions stay in their stage.
OtherStages(j) ==
  \A k \in Ids : k # j => (Opening(k)' <=> Opening(k)) /\ (Open(k)' <=> Open(k))

LEMMA SesStepKeeps ==
  ASSUME IInv, Running, NEW j, NEW e, NEW i, NEW d, SesStep(j, e, i, d), slave' = slave, over' = over,
         confirms' = confirms, IsSeq(toServer') /\ IsSeq(toClient') /\ progs' \subseteq Ids,
         chan'[j] = e /\ Sessions' = Sessions /\ OtherStages(j) => Wire'
  PROVE  IInv'
<1>1. /\ Shape /\ slave \in [Slaves -> Slave] /\ chan \in [Ids -> {Free} \cup Ctl \cup Ses]
      /\ Owned /\ Linked /\ Talks /\ Queue /\ IsSeq(confirms)
  BY DEF IInv, Orderly, Shape
<1>2. /\ j \in Sessions /\ e \in Ses /\ e.ctl_chan = i /\ i = chan[j].ctl_chan
      /\ e.for = chan[j].for /\ e.type # "opening" /\ DOMAIN chan' = Ids /\ chan' = [k \in Ids |-> chan'[k]]
      /\ chan'[j] = e /\ \A k \in Ids : k # i /\ k # j => chan'[k] = chan[k]
  BY DEF SesStep
<1>3. i # NoChan =>
        /\ chan'[i] = d /\ d \in Ctl /\ d.slave = chan[i].slave /\ d.remote_id = j /\ ~d.mux_pause
        /\ Talk(Its(i), d) /\ Awaits(Its(i), d) /\ \A k \in DOMAIN d.out : d.out[k].for = d.slave
  BY DEF SesStep
<1>4. j \in Ids /\ j # NoChan /\ j \notin Controls /\ chan[j] \in Ses
  <2>1. j \in Ids /\ j # NoChan /\ j \notin Controls
    BY <1>2, NoChanNoId DEF Sessions, Controls
  <2> QED BY <1>1, <1>2, <2>1, ChanKind
<1>5. i # NoChan => i \in Controls /\ i \in Ids /\ i # j /\ chan[i].remote_id = j /\ chan[i].slave = e.for
  <2>1. i # NoChan => i \in Controls /\ chan[i].remote_id = j /\ chan[i].slave = e.for
    BY <1>1, <1>2 DEF Linked
  <2> QED BY <1>4, <2>1 DEF Controls
<1>6. Controls' = Controls /\ Sessions' = Sessions
  <2>1. chan'[j].kind = "session" /\ chan[j].kind = "session"
    BY <1>2, <1>4 DEF Ses
  <2>2. i # NoChan => chan'[i].kind = "ctl" /\ chan[i].kind = "ctl"
    BY <1>3, <1>5 DEF Ctl, Controls
  <2>3. \A k \in Ids : chan'[k].kind = chan[k].kind
    BY <1>2, <2>1, <2>2, NoChanNoId
  <2> QED BY <2>3 DEF Controls, Sessions
<1>7. /\ \A k \in Controls : k \in Ids /\ k # NoChan /\ k # j /\ chan[k].slave \in Slaves /\ chan'[k].slave = chan[k].slave
                             /\ chan'[k].remote_id = chan[k].remote_id
      /\ \A k \in Controls : k # i => chan'[k] = chan[k]
      /\ \A k \in Sessions : k # j => k \in Ids /\ k # NoChan /\ k # i /\ chan'[k] = chan[k]
      /\ \A k \in Sessions : chan'[k].ctl_chan = chan[k].ctl_chan /\ chan'[k].for = chan[k].for
  <2>1. \A k \in Controls : k \in Ids /\ chan[k] \in Ctl /\ k # NoChan /\ k # j
    BY <1>1, <1>4, ChanKind, NoChanNoId DEF Controls
  <2>2. \A k \in Controls : chan[k].slave \in Slaves
    BY <2>1 DEF Ctl
  <2>3. \A k \in Sessions : k \in Ids /\ k # NoChan /\ k # i
    BY <1>5, NoChanNoId DEF Sessions, Controls
  <2> QED BY <1>2, <1>3, <1>5, <2>1, <2>2, <2>3
<1>8. Shape'
  <2>1. \A k \in Ids : chan'[k] \in {Free} \cup Ctl \cup Ses
    BY <1>1, <1>2, <1>3, <1>5, NoChanNoId
  <2>2. chan' \in [Ids -> {Free} \cup Ctl \cup Ses]
    BY <1>2, <2>1
  <2> QED BY <1>1, <2>2 DEF Shape
<1>9. (\A r \in Slaves : LastIsSession(slave'[r])) /\ Survives'
  BY DEF IInv, Survives
<1>10. AnswerReachesAsker'
  <2>1. \A k \in Ids : chan'[k].kind = "ctl" => k \in Controls
    BY <1>6 DEF Controls
  <2>2. \A k \in Ids : chan'[k].kind = "ctl" =>
          \A n \in DOMAIN chan'[k].out : chan'[k].out[n].for = chan'[k].slave
    BY <1>3, <1>7, <2>1 DEF IInv, AnswerReachesAsker, Controls
  <2> QED BY <2>2 DEF IInv, AnswerReachesAsker
<1>11. Owned'
  <2>1. \A k \in Controls' : slave'[chan'[k].slave].ctl = k
    BY <1>1, <1>6, <1>7 DEF Owned
  <2>2. \A r \in Slaves : slave'[r].ctl # NoChan => slave'[r].ctl \in Controls' /\ chan'[slave'[r].ctl].slave = r
    BY <1>1, <1>6, <1>7 DEF Owned
  <2> QED BY <1>1, <2>1, <2>2 DEF Owned
<1>12. Linked'
  <2>1. \A k \in Controls : chan'[k].remote_id # NoChan =>
           /\ chan'[k].remote_id \in Sessions /\ chan'[chan'[k].remote_id].ctl_chan = k
           /\ chan'[k].mux_pause => chan'[chan'[k].remote_id].type = "opening"
    <3> SUFFICES ASSUME NEW k \in Controls, chan[k].remote_id # NoChan
                 PROVE  /\ chan[k].remote_id \in Sessions /\ chan'[chan[k].remote_id].ctl_chan = k
                        /\ chan'[k].mux_pause => chan'[chan[k].remote_id].type = "opening"
      BY <1>7
    <3>1. chan[k].remote_id \in Sessions /\ chan[chan[k].remote_id].ctl_chan = k
      BY <1>1 DEF Linked
    <3>2. CASE k = i
      BY <1>3, <1>5, <1>7, <3>1, <3>2
    <3>3. CASE k # i
      <4>1. chan[k].remote_id # j
        BY <1>2, <3>1, <3>3
      <4>2. chan'[chan[k].remote_id] = chan[chan[k].remote_id] /\ chan'[k] = chan[k]
        BY <1>7, <3>1, <3>3, <4>1
      <4> QED BY <1>1, <3>1, <4>2 DEF Linked
    <3> QED BY <3>2, <3>3
  <2>2. \A k \in Sessions : chan'[k].ctl_chan # NoChan =>
           /\ chan'[k].ctl_chan \in Controls /\ chan'[chan'[k].ctl_chan].remote_id = k
           /\ chan'[chan'[k].ctl_chan].slave = chan'[k].for
    BY <1>1, <1>7 DEF Linked
  <2>3. \A k \in Sessions : chan'[k].type = "opening" =>
           ~chan'[k].dead /\ chan'[k].ctl_chan # NoChan /\ chan'[chan'[k].ctl_chan].mux_pause
    <3> SUFFICES ASSUME NEW k \in Sessions, chan'[k].type = "opening"
                 PROVE  ~chan'[k].dead /\ chan'[k].ctl_chan # NoChan /\ chan'[chan'[k].ctl_chan].mux_pause
      OBVIOUS
    <3>1. k # j /\ chan'[k] = chan[k]
      BY <1>2, <1>7
    <3>2. ~chan[k].dead /\ chan[k].ctl_chan # NoChan /\ chan[chan[k].ctl_chan].mux_pause
      BY <1>1, <3>1 DEF Linked
    <3>3. chan[k].ctl_chan \in Controls /\ chan[chan[k].ctl_chan].remote_id = k
      BY <1>1, <3>2 DEF Linked
    <3>4. chan[k].ctl_chan # i
      BY <1>5, <3>1, <3>2, <3>3
    <3> QED BY <1>7, <3>1, <3>2, <3>3, <3>4
  <2> QED BY <1>6, <2>1, <2>2, <2>3 DEF Linked
<1>13. Talks'
  <2> SUFFICES ASSUME NEW r \in Slaves, slave[r].ctl # NoChan
               PROVE  Talk(slave[r], chan'[slave[r].ctl]) /\ Awaits(slave[r], chan'[slave[r].ctl])
    BY DEF Talks
  <2>1. slave[r].ctl \in Controls /\ chan[slave[r].ctl].slave = r
    BY <1>1 DEF Owned
  <2>2. CASE slave[r].ctl = i
    <3>1. i # NoChan /\ Its(i) = slave[r]
      BY <2>1, <2>2 DEF Its
    <3> QED BY <1>3, <2>2, <3>1
  <2>3. CASE slave[r].ctl # i
    BY <1>1, <1>7, <2>1, <2>3 DEF Talks
  <2> QED BY <2>2, <2>3
<1>14. Queue'
  <2>1. \A k \in Ids : Waits(k)' <=> Waits(k)
    <3>1. i # NoChan => ~Waits(i) /\ ~Waits(i)'
      BY <1>3, <1>4, <1>5 DEF Waits
    <3> QED BY <1>6, <1>7, <3>1, NoChanNoId DEF Waits
  <2>2. \A k \in Ids : Waits(k) => chan'[k].slave = chan[k].slave
    BY <1>7 DEF Waits
  <2> QED BY <1>1, <2>1, <2>2, QueueFrame
<1>15. Wire'
  <2>1. OtherStages(j)
    BY <1>6, <1>7 DEF Opening, Open, OtherStages
  <2> QED BY <1>2, <1>6, <2>1
<1> QED BY <1>8, <1>9, <1>10, <1>11, <1>12, <1>13, <1>14, <1>15 DEF IInv, Orderly

\* The packets when session j has left its stage: the packet that was taken was
\* the last about it.  Its requests may be sent.
Setup(j, z) ==
  /\ \A k \in DOMAIN toServer' : Asks(toServer'[k]) =>
       \/ k \in DOMAIN toServer /\ toServer'[k] = toServer[k]
       \/ k = z /\ toServer'[k].chan = j /\ toServer'[k].type = "SETUP" /\ Open(j)'
  /\ \A k \in DOMAIN toServer : k \in DOMAIN toServer' /\ toServer'[k] = toServer[k]

LEMMA WireEnds ==
  ASSUME IInv, Running, toClient # <<>>, toClient' = Tail(toClient), NEW j \in Ids, NEW z,
         Ends(Head(toClient)), Head(toClient).chan = j, ~Opening(j)', OtherStages(j),
         progs' = progs, Setup(j, z)
  PROVE  Wire'
<1>1. /\ Kept(toClient', toClient, 1, TellTypes) /\ 1 \in DOMAIN toClient
      /\ Ends(toClient[1]) /\ toClient[1].chan = j
      /\ \A k \in DOMAIN toClient : k \in Nat /\ k >= 1
      /\ Wire
  BY TakeClient
<1>2. \A m : Ends(m) => Tells(m)
  BY DEF Ends, Tells
<1>3. \A k \in DOMAIN toServer : Asks(toServer[k]) => toServer[k].chan # j
  BY <1>1 DEF Wire
<1>4. \A k \in DOMAIN toClient : Tells(toClient[k]) /\ k > 1 => toClient[k].chan # j
  BY <1>1 DEF Wire
<1>5. j \notin progs
  BY <1>1 DEF Wire
<1>6. \A k \in DOMAIN toClient' : Tells(toClient'[k]) =>
        k \in Nat /\ k + 1 \in DOMAIN toClient /\ toClient'[k] = toClient[k + 1] /\ toClient'[k].chan # j
  <2> SUFFICES ASSUME NEW k \in DOMAIN toClient', Tells(toClient'[k])
               PROVE  k \in Nat /\ k + 1 \in DOMAIN toClient /\ toClient'[k] = toClient[k + 1] /\ toClient'[k].chan # j
    OBVIOUS
  <2>1. k \in Nat /\ k + 1 \in DOMAIN toClient /\ toClient'[k] = toClient[k + 1]
    BY <1>1 DEF Kept, Tells, TellTypes
  <2>2. k # 0
    <3>1. DOMAIN toClient' = 1..(Len(toClient) - 1) /\ Len(toClient) \in Nat
      <4>1. IsSeq(toClient)
        BY DEF IInv, Shape
      <4> QED BY <4>1, SeqTail
    <3> QED BY <3>1
  <2>3. k + 1 > 1
    BY <2>1, <2>2
  <2> QED BY <1>4, <2>1, <2>3
<1>7. \A k \in DOMAIN toClient : Tells(toClient[k]) /\ k # 1 =>
        k - 1 \in DOMAIN toClient' /\ toClient'[k - 1] = toClient[k]
  BY <1>1 DEF Kept, Tells, TellTypes
<1>8. \A k : (Opening(k) => k \in Ids) /\ (Open(k) => k \in Ids)
  BY DEF Opening, Open, Sessions
<1>9. \A k : k # j => (Opening(k) => Opening(k)') /\ (Open(k) => Open(k)')
  BY <1>8 DEF OtherStages
<1>10. \A m : m.chan # j /\ Stage(m) => Stage(m)'
  BY <1>9 DEF Stage
<1>11. \A k \in DOMAIN toServer' : Asks(toServer'[k]) => Stage(toServer[k])' /\ toServer'[k].chan \notin progs
  <2> SUFFICES ASSUME NEW k \in DOMAIN toServer', Asks(toServer'[k])
               PROVE  Stage(toServer[k])' /\ toServer'[k].chan \notin progs
    OBVIOUS
  <2>1. CASE k \in DOMAIN toServer /\ toServer'[k] = toServer[k]
    BY <1>1, <1>3, <1>10, <2>1 DEF Wire
  <2>2. CASE toServer'[k].chan = j /\ toServer'[k].type = "SETUP" /\ Open(j)'
    BY <1>5, <2>2 DEF Stage
  <2> QED BY <2>1, <2>2 DEF Setup
<1>12. \A k, l \in DOMAIN toServer' : Asks(toServer'[k]) /\ Asks(toServer'[l])
         /\ toServer'[k].chan = toServer'[l].chan => k = l
  <2> SUFFICES ASSUME NEW k \in DOMAIN toServer', NEW l \in DOMAIN toServer', Asks(toServer'[k]),
                      Asks(toServer'[l]), toServer'[k].chan = toServer'[l].chan
               PROVE  k = l
    OBVIOUS
  <2>1. /\ (k \in DOMAIN toServer /\ toServer'[k] = toServer[k]) \/ (k = z /\ toServer'[k].chan = j)
        /\ (l \in DOMAIN toServer /\ toServer'[l] = toServer[l]) \/ (l = z /\ toServer'[l].chan = j)
    BY DEF Setup
  <2> QED BY <1>1, <1>3, <2>1 DEF Wire
<1>13. \A k \in DOMAIN toClient' : Tells(toClient'[k]) => Stage(toClient[k])'
  BY <1>1, <1>6, <1>10 DEF Wire
<1>14. \A k \in DOMAIN toClient' : Ends(toClient'[k]) => toClient'[k].chan \notin progs
  BY <1>1, <1>2, <1>6 DEF Wire
<1>15. \A k \in DOMAIN toClient', l \in DOMAIN toServer' :
         Ends(toClient'[k]) /\ Asks(toServer'[l]) => toClient'[k].chan # toServer'[l].chan
  <2> SUFFICES ASSUME NEW k \in DOMAIN toClient', NEW l \in DOMAIN toServer', Ends(toClient'[k]),
                      Asks(toServer'[l])
               PROVE  toClient'[k].chan # toServer'[l].chan
    OBVIOUS
  <2>1. k + 1 \in DOMAIN toClient /\ toClient'[k] = toClient[k + 1] /\ toClient'[k].chan # j
    BY <1>2, <1>6
  <2>2. (l \in DOMAIN toServer /\ toServer'[l] = toServer[l]) \/ toServer'[l].chan = j
    BY DEF Setup
  <2> QED BY <1>1, <2>1, <2>2 DEF Wire
<1>16. \A k, l \in DOMAIN toClient' :
         Ends(toClient'[k]) /\ Tells(toClient'[l]) /\ k < l => toClient'[k].chan # toClient'[l].chan
  <2> SUFFICES ASSUME NEW k \in DOMAIN toClient', NEW l \in DOMAIN toClient', Ends(toClient'[k]),
                      Tells(toClient'[l]), k < l
               PROVE  toClient'[k].chan # toClient'[l].chan
    OBVIOUS
  <2>1. /\ k + 1 \in DOMAIN toClient /\ toClient'[k] = toClient[k + 1] /\ k \in Nat
        /\ l + 1 \in DOMAIN toClient /\ toClient'[l] = toClient[l + 1] /\ l \in Nat
    BY <1>2, <1>6
  <2>2. k + 1 < l + 1
    BY <2>1
  <2> QED BY <1>1, <2>1, <2>2 DEF Wire
<1>17. \A k \in progs : Open(k)'
  BY <1>1, <1>5, <1>9 DEF Wire
<1>18. \A k \in Ids : Opening(k)' =>
         \/ \E l \in DOMAIN toServer' : toServer'[l].type = "OPEN" /\ toServer'[l].chan = k
         \/ \E l \in DOMAIN toClient' : toClient'[l].type = "OPENED" /\ toClient'[l].chan = k
  <2> SUFFICES ASSUME NEW k \in Ids, Opening(k)'
               PROVE  \/ \E l \in DOMAIN toServer' : toServer'[l].type = "OPEN" /\ toServer'[l].chan = k
                      \/ \E l \in DOMAIN toClient' : toClient'[l].type = "OPENED" /\ toClient'[l].chan = k
    OBVIOUS
  <2>1. k # j /\ Opening(k)
    BY DEF OtherStages
  <2>2. CASE \E l \in DOMAIN toServer : toServer[l].type = "OPEN" /\ toServer[l].chan = k
    BY <2>2 DEF Setup
  <2>3. CASE \E l \in DOMAIN toClient : toClient[l].type = "OPENED" /\ toClient[l].chan = k
    <3>1. PICK l \in DOMAIN toClient : toClient[l].type = "OPENED" /\ toClient[l].chan = k
      BY <2>3
    <3>2. l # 1 /\ Tells(toClient[l])
      BY <1>1, <2>1, <3>1 DEF Tells
    <3> QED BY <1>7, <3>1, <3>2
  <2> QED BY <1>1, <2>1, <2>2, <2>3 DEF Wire
<1> QED BY <1>11, <1>12, <1>13, <1>14, <1>15, <1>16, <1>17, <1>18 DEF Wire

\* The server closes a session.
LEMMA CloseKeeps ==
  ASSUME IInv, Running, toClient # <<>>, toClient' = Tail(toClient), Head(toClient).type = "CLOSE",
         slave' = slave, toServer' = toServer, progs' = progs, confirms' = confirms, over' = over,
         chan' = [chan EXCEPT ![Head(toClient).chan].dead = TRUE]
  PROVE  IInv'
<1>1. PICK j, i : j = Head(toClient).chan /\ i = chan[j].ctl_chan
  OBVIOUS
<1>2. /\ 1 \in DOMAIN toClient /\ toClient[1] = Head(toClient) /\ IsSeq(toServer)
      /\ IsSeq(toClient') /\ progs \subseteq Ids /\ Wire /\ Shape
  BY TakeClient
<1>3. Ends(Head(toClient)) /\ Tells(Head(toClient))
  BY DEF Tells, Ends
<1>4. Open(j)
  BY <1>1, <1>2, <1>3 DEF Wire, Stage
<1>5. /\ j \in Sessions /\ j \in Ids /\ j # NoChan /\ chan[j] \in Ses /\ chan[j].type = "open"
      /\ i # NoChan => i \in Controls /\ chan[i].remote_id = j /\ ~chan[i].mux_pause /\ chan[i].slave = chan[j].for
  BY <1>1, <1>4, OpenSession
<1> DEFINE e == [chan[j] EXCEPT !.dead = TRUE]
<1>6. e \in Ses /\ e.ctl_chan = i /\ e.for = chan[j].for /\ e.type = "open" /\ e.dead
  BY <1>1, <1>5 DEF Ses
<1>7. DOMAIN chan' = Ids /\ chan' = [k \in Ids |-> chan'[k]] /\ chan'[j] = e /\ \A k \in Ids : k # j => chan'[k] = chan[k]
  <2>1. chan \in [Ids -> {Free} \cup Ctl \cup Ses]
    BY <1>2 DEF Shape
  <2> QED BY <1>1, <1>5, <2>1
<1> HIDE DEF e
<1>8. i # NoChan => /\ i \in Ids /\ i # j /\ chan[i] \in Ctl /\ Talk(Its(i), chan[i]) /\ Awaits(Its(i), chan[i])
                    /\ \A k \in DOMAIN chan[i].out : chan[i].out[k].for = chan[i].slave
  <2> SUFFICES ASSUME i # NoChan
               PROVE  /\ i \in Ids /\ i # j /\ chan[i] \in Ctl /\ Talk(Its(i), chan[i]) /\ Awaits(Its(i), chan[i])
                      /\ \A k \in DOMAIN chan[i].out : chan[i].out[k].for = chan[i].slave
    OBVIOUS
  <2>1. i \in Controls
    BY <1>5
  <2>2. i \in Ids /\ chan[i] \in Ctl /\ Talk(Its(i), chan[i]) /\ Awaits(Its(i), chan[i])
    BY <2>1, SlaveOf DEF Its
  <2>3. i # j
    BY <1>5, <2>1 DEF Controls, Sessions
  <2>4. \A k \in DOMAIN chan[i].out : chan[i].out[k].for = chan[i].slave
    BY <2>1 DEF IInv, AnswerReachesAsker, Controls
  <2> QED BY <2>2, <2>3, <2>4
<1>9. SesStep(j, e, i, chan[i])
  BY <1>1, <1>5, <1>6, <1>7, <1>8 DEF SesStep
<1>10. ASSUME Sessions' = Sessions, OtherStages(j) PROVE Wire'
  <2>1. ~Opening(j)'
    BY <1>6, <1>7 DEF Opening
  <2>2. Setup(j, 0)
    BY DEF Setup
  <2> QED BY <1>1, <1>3, <1>5, <1>10, <2>1, <2>2, WireEnds
<1> QED BY <1>2, <1>9, <1>10, SesStepKeeps

\* mux_session_confirm: the control channel of a session that is being opened
\* waits for it, so the callback meets no fatal().
LEMMA OpenedKeeps ==
  ASSUME IInv, Running, toClient # <<>>, toClient' = Tail(toClient), Head(toClient).type = "OPENED",
         slave' = slave, progs' = progs, confirms' = confirms,
         NEW ok, SessionConfirm(Head(toClient).chan, ok)
  PROVE  IInv'
<1>1. PICK j, i : j = Head(toClient).chan /\ i = chan[j].ctl_chan
  OBVIOUS
<1>2. /\ 1 \in DOMAIN toClient /\ toClient[1] = Head(toClient) /\ IsSeq(toServer)
      /\ IsSeq(toClient') /\ progs \subseteq Ids /\ Wire /\ Shape /\ Linked
  BY TakeClient DEF IInv, Orderly
<1>3. Ends(Head(toClient)) /\ Tells(Head(toClient))
  BY DEF Tells, Ends
<1>4. Opening(j)
  BY <1>1, <1>2, <1>3 DEF Wire, Stage
<1>5. j \in Sessions /\ j \in Ids /\ j # NoChan /\ chan[j].type = "opening" /\ chan[j] \in Ses
  <2>1. j \in Sessions /\ j \in Ids /\ j # NoChan /\ chan[j].type = "opening"
    BY <1>4, NoChanNoId DEF Opening, Sessions
  <2> QED BY <1>2, <2>1, ChanKind
<1>6. i # NoChan /\ chan[i].mux_pause
  BY <1>1, <1>2, <1>5 DEF Linked
<1>7. i \in Controls /\ chan[i].remote_id = j /\ chan[i].slave = chan[j].for
  BY <1>1, <1>2, <1>5, <1>6 DEF Linked
<1> DEFINE c == chan[i]
           s == c.slave
           v == Its(i)
           n == Msg(IF ok THEN "SESSION_OPENED" ELSE "FAILURE", s)
           o == <<n>>
           d == [c EXCEPT !.out = o, !.mux_pause = FALSE]
           y == IF ok THEN "open" ELSE "failed"
           x == ~ok
           e == [chan[j] EXCEPT !.type = y, !.dead = x]
           p == [type |-> "SETUP", chan |-> j, tty |-> chan[j].tty]
<1>8. /\ i \in Ids /\ c \in Ctl /\ s \in Slaves /\ v \in Slave /\ v.ctl = i /\ Talk(v, c) /\ Awaits(v, c)
  BY <1>6, <1>7, SlaveOf DEF Its
<1>9. c.out = <<>> /\ v.in = <<>> /\ v.out = <<>> /\ ~c.drain /\ Busy(c) /\ v.todo = <<>> /\ v.pc # "hello"
  <2>1. Busy(c)
    BY <1>5, <1>7 DEF Busy
  <2> QED BY <1>6, <1>8, <2>1 DEF Talk, Awaits
<1>10. /\ over' = over /\ toServer' = (IF ok THEN Append(toServer, p) ELSE toServer)
       /\ chan' = [chan EXCEPT ![i].out = Append(@, n), ![i].mux_pause = FALSE,
                               ![j].type = y, ![j].dead = x]
  <2>1. c.kind = "ctl" /\ s = chan[j].for
    BY <1>7 DEF Controls
  <2> QED BY <1>1, <1>6, <2>1 DEF SessionConfirm
<1>11. n \in Message /\ n.for = s /\ n.type \in Final
  BY <1>8 DEF Message, Msg, Kinds, Final
<1>12. y \in {"open", "failed"} /\ x \in BOOLEAN /\ (x => ~ok) /\ (ok <=> y = "open") /\ (ok => ~x)
  OBVIOUS
<1> HIDE DEF n, y, x, p
<1>13. i # j
  BY <1>5, <1>7 DEF Controls, Sessions
<1>14. DOMAIN chan' = Ids /\ chan' = [k \in Ids |-> chan'[k]] /\ chan'[j] = e /\ chan'[i] = d
       /\ \A k \in Ids : k # j /\ k # i => chan'[k] = chan[k]
  <2>1. chan \in [Ids -> {Free} \cup Ctl \cup Ses]
    BY <1>2 DEF Shape
  <2>2. Append(c.out, n) = o
    BY <1>9
  <2>3. chan' = [[chan EXCEPT ![i] = [c EXCEPT !.out = Append(c.out, n), !.mux_pause = FALSE]] EXCEPT ![j] = e]
    BY <1>5, <1>8, <1>10, <1>13, <2>1
  <2> HIDE DEF o, e
  <2>4. chan' = [[chan EXCEPT ![i] = d] EXCEPT ![j] = e]
    BY <2>2, <2>3
  <2> HIDE DEF d
  <2> QED BY <1>5, <1>8, <1>13, <2>1, <2>4
<1>15. e \in Ses /\ e.ctl_chan = i /\ e.for = chan[j].for /\ e.type = y /\ e.dead = x /\ e.kind = "session"
  <2>1. e \in Ses
    BY <1>5, <1>12 DEF Ses
  <2> QED BY <1>1, <1>5, <2>1 DEF Ses
<1> HIDE DEF e
<1>16. o \in Seq(Message) /\ o # <<>> /\ Head(o) = n /\ \A k \in DOMAIN o : o[k] = n
  BY <1>11
<1> HIDE DEF o
<1>17. d \in Ctl /\ d.slave = s /\ d.remote_id = j /\ ~d.mux_pause /\ ~d.drain /\ d.out = o
  <2>1. d \in Ctl
    BY <1>8, <1>16 DEF Ctl
  <2> QED BY <1>7, <1>8, <1>9, <2>1 DEF Ctl
<1> HIDE DEF d, c, s, v
<1>18. Busy(d)
  BY <1>5, <1>17 DEF Busy
<1>19. Talk(v, d)
  BY <1>9, <1>17, <1>18 DEF Talk
<1>20. Awaits(v, d)
  BY <1>9, <1>11, <1>16, <1>17, <1>18 DEF Awaits
<1>21. SesStep(j, e, i, d)
  <2>1. e.type # "opening"
    BY <1>12, <1>15
  <2>2. \A k \in DOMAIN d.out : d.out[k].for = d.slave
    BY <1>11, <1>16, <1>17
  <2> QED BY <1>1, <1>5, <1>14, <1>15, <1>17, <1>19, <1>20, <2>1, <2>2 DEF SesStep, s, c, v
<1>22. IsSeq(toServer')
  BY <1>2, <1>10, SeqAppend
<1>23. ASSUME Sessions' = Sessions, OtherStages(j) PROVE Wire'
  <2>1. ~Opening(j)' /\ (ok => Open(j)')
    BY <1>5, <1>12, <1>14, <1>15, <1>23 DEF Opening, Open
  <2>2. PICK z : Setup(j, z)
    <3>1. CASE ok
      <4>1. /\ DOMAIN toServer = 1..Len(toServer) /\ Len(toServer) \in Nat
            /\ DOMAIN toServer' = 1..(Len(toServer) + 1) /\ toServer'[Len(toServer) + 1] = p
            /\ \A k \in DOMAIN toServer : k \in DOMAIN toServer' /\ toServer'[k] = toServer[k]
        BY <1>2, <1>10, <3>1, SeqAppend
      <4>2. p.type = "SETUP" /\ p.chan = j
        BY DEF p
      <4>3. \A k \in DOMAIN toServer' : k \in DOMAIN toServer \/ (k = Len(toServer) + 1 /\ toServer'[k] = p)
        BY <4>1
      <4>4. Setup(j, Len(toServer) + 1)
        BY <2>1, <3>1, <4>1, <4>2, <4>3 DEF Setup
      <4> QED BY <4>4
    <3>2. CASE ~ok
      BY <1>10, <3>2 DEF Setup
    <3> QED BY <3>1, <3>2
  <2> QED BY <1>1, <1>3, <1>5, <1>23, <2>1, <2>2, WireEnds
<1> QED BY <1>2, <1>10, <1>21, <1>22, <1>23, SesStepKeeps

\* A packet for the master.
LEMMA ClientInputKeeps ==
  ASSUME IInv, ClientInput
  PROVE  IInv'
<1> DEFINE m == Head(toClient)
<1>1. Running /\ toClient # <<>> /\ toClient' = Tail(toClient) /\ slave' = slave /\ progs' = progs
  BY DEF ClientInput, server
<1>2. CASE m.type = "REPLY" /\ GlobalRequestReply(m) /\ UNCHANGED <<toServer, routed>>
  <2>1. m.type # "OPENED" /\ toServer' = toServer
    BY <1>2
  <2> QED BY <1>1, <1>2, <2>1, ReplyKeeps
<1>3. CASE m.type = "OPENED" /\ SessionConfirm(m.chan, m.ok) /\ UNCHANGED <<tables, routed, refusedAt>>
  <2>1. confirms' = confirms
    BY <1>3 DEF tables
  <2> QED BY <1>1, <1>3, <2>1, OpenedKeeps
<1>4. CASE m.type = "EXIT" /\ ExitStatus(m.chan) /\ UNCHANGED <<tables, toServer, routed, refusedAt>>
  <2>1. confirms' = confirms /\ toServer' = toServer
    BY <1>4 DEF tables
  <2> QED BY <1>1, <1>4, <2>1, StatusKeeps
<1>5. CASE m.type = "TTY_FAILURE" /\ TtyFailed(m.chan) /\ UNCHANGED <<tables, toServer, routed, refusedAt>>
  <2>1. confirms' = confirms /\ toServer' = toServer
    BY <1>5 DEF tables
  <2> QED BY <1>1, <1>5, <2>1, StatusKeeps
<1>6. CASE /\ m.type = "CLOSE" /\ chan' = [chan EXCEPT ![m.chan].dead = TRUE]
           /\ UNCHANGED <<tables, toServer, over, routed, refusedAt>>
  <2>1. confirms' = confirms /\ toServer' = toServer /\ over' = over
    BY <1>6 DEF tables
  <2> QED BY <1>1, <1>6, <2>1, CloseKeeps
<1>7. CASE m.type = "CONNECT" /\ Forwarded(m) /\ UNCHANGED <<tables, toServer, refusedAt>>
  <2>1. m.type # "OPENED" /\ chan' = chan /\ over' = over /\ confirms' = confirms /\ toServer' = toServer
    BY <1>7 DEF Forwarded, tables
  <2>2. IsSeq(confirms) /\ Queue
    BY <1>1, TakeClient
  <2>3. (\A i \in Ids : Waits(i)' <=> Waits(i)) => Queue'
    BY <2>1, <2>2, QueueFrame
  <2> QED BY <1>1, <2>1, <2>2, <2>3, TakenKeeps
<1> QED BY <1>2, <1>3, <1>4, <1>5, <1>6, <1>7 DEF ClientInput

-----------------------------------------------------------------------------
(* The server.                                                             *)

\* The server has packets of the master and its own; the channels of the master
\* do not change.
LEMMA StagesSame ==
  ASSUME \A j \in Ids : (Opening(j)' <=> Opening(j)) /\ (Open(j)' <=> Open(j))
  PROVE  \A j : (Opening(j) => Opening(j)') /\ (Open(j) => Open(j)')
BY DEF Opening, Open, Sessions

\* The server answers a packet about session j with one about it, at place z, or
\* starts its program.
Told(j, z) ==
  /\ z \in Nat /\ \A k \in DOMAIN toClient' : k \in Nat
  /\ \A k \in DOMAIN toClient' : Tells(toClient'[k]) =>
       \/ k \in DOMAIN toClient /\ toClient'[k] = toClient[k]
       \/ k = z /\ toClient'[k].chan = j /\ Stage(toClient'[k])
  /\ \A k \in DOMAIN toClient : k \in DOMAIN toClient' /\ toClient'[k] = toClient[k] /\ k < z

LEMMA WireServe ==
  ASSUME IInv, Running, toServer # <<>>, toServer' = Tail(toServer), NEW j, NEW z,
         Asks(Head(toServer)), Head(toServer).chan = j, Told(j, z),
         \/ progs' = progs
         \/ /\ progs' = progs \cup {j} /\ Open(j)
            /\ \A k \in DOMAIN toClient' : k = z => ~Ends(toClient'[k]),
         Opening(j) => \E k \in DOMAIN toClient' : toClient'[k].type = "OPENED" /\ toClient'[k].chan = j,
         \A k \in Ids : (Opening(k)' <=> Opening(k)) /\ (Open(k)' <=> Open(k))
  PROVE  Wire'
<1>1. IsSeq(toServer) /\ Wire
  BY DEF IInv, Shape, Orderly
<1>2. /\ Len(toServer) \in Nat \ {0} /\ DOMAIN toServer = 1..Len(toServer)
      /\ DOMAIN toServer' = 1..(Len(toServer) - 1)
      /\ \A k \in DOMAIN toServer' : k + 1 \in DOMAIN toServer /\ toServer'[k] = toServer[k + 1]
      /\ 1 \in DOMAIN toServer /\ Asks(toServer[1]) /\ toServer[1].chan = j
  BY <1>1, SeqTail
<1>3. \A k \in DOMAIN toServer' : k \in Nat /\ k + 1 # 1
  BY <1>2
<1>4. \A k \in DOMAIN toServer' : Asks(toServer'[k]) => toServer'[k].chan # j
  BY <1>1, <1>2, <1>3 DEF Wire
<1>5. \A k \in DOMAIN toServer : k = 1 \/ (k - 1 \in DOMAIN toServer' /\ (k - 1) + 1 = k)
  BY <1>2
<1>6. \A k \in DOMAIN toServer : k = 1 \/ (k - 1 \in DOMAIN toServer' /\ toServer'[k - 1] = toServer[k])
  BY <1>2, <1>5
<1>7. j \notin progs
  BY <1>1, <1>2 DEF Wire
<1>8. \A k \in DOMAIN toClient : Ends(toClient[k]) => toClient[k].chan # j
  BY <1>1, <1>2 DEF Wire
<1>9. \A k : (Opening(k) => Opening(k)') /\ (Open(k) => Open(k)')
  BY StagesSame
<1>10. \A m : Stage(m) => Stage(m)'
  BY <1>9 DEF Stage
<1>11. /\ \A k \in DOMAIN toClient' : Tells(toClient'[k]) =>
            \/ k \in DOMAIN toClient /\ toClient'[k] = toClient[k]
            \/ k = z /\ toClient'[k].chan = j /\ Stage(toClient'[k])
       /\ \A k \in DOMAIN toClient : k \in DOMAIN toClient' /\ toClient'[k] = toClient[k]
  BY DEF Told
<1>12. \A m : Ends(m) => Tells(m)
  BY DEF Ends, Tells
<1>13. \A k \in DOMAIN toServer' : Asks(toServer'[k]) => Stage(toServer[k])' /\ toServer'[k].chan \notin progs'
  <2>1. \A k \in DOMAIN toServer' : Asks(toServer'[k]) => Stage(toServer[k])' /\ toServer'[k].chan \notin progs
    BY <1>1, <1>2, <1>10 DEF Wire
  <2> QED BY <1>4, <2>1
<1>14. \A k, l \in DOMAIN toServer' : Asks(toServer'[k]) /\ Asks(toServer'[l])
         /\ toServer'[k].chan = toServer'[l].chan => k = l
  <2> SUFFICES ASSUME NEW k \in DOMAIN toServer', NEW l \in DOMAIN toServer', Asks(toServer'[k]),
                      Asks(toServer'[l]), toServer'[k].chan = toServer'[l].chan
               PROVE  k = l
    OBVIOUS
  <2>1. k + 1 = l + 1
    BY <1>1, <1>2 DEF Wire
  <2> QED BY <1>3, <2>1
<1>15. \A k \in DOMAIN toClient' : Tells(toClient'[k]) => Stage(toClient[k])'
  BY <1>1, <1>10, <1>11 DEF Wire
<1>16. \A k \in DOMAIN toClient' : Ends(toClient'[k]) => toClient'[k].chan \notin progs'
  <2> SUFFICES ASSUME NEW k \in DOMAIN toClient', Ends(toClient'[k])
               PROVE  toClient'[k].chan \notin progs'
    OBVIOUS
  <2>1. CASE k \in DOMAIN toClient /\ toClient'[k] = toClient[k]
    BY <1>1, <1>8, <2>1 DEF Wire
  <2>2. CASE k = z /\ toClient'[k].chan = j
    BY <1>7, <2>2
  <2> QED BY <1>11, <1>12, <2>1, <2>2
<1>17. \A k \in DOMAIN toClient', l \in DOMAIN toServer' :
         Ends(toClient'[k]) /\ Asks(toServer'[l]) => toClient'[k].chan # toServer'[l].chan
  <2> SUFFICES ASSUME NEW k \in DOMAIN toClient', NEW l \in DOMAIN toServer', Ends(toClient'[k]),
                      Asks(toServer'[l])
               PROVE  toClient'[k].chan # toServer'[l].chan
    OBVIOUS
  <2>1. l + 1 \in DOMAIN toServer /\ toServer'[l] = toServer[l + 1] /\ toServer'[l].chan # j
    BY <1>2, <1>4
  <2>2. (k \in DOMAIN toClient /\ toClient'[k] = toClient[k]) \/ toClient'[k].chan = j
    BY <1>11, <1>12
  <2> QED BY <1>1, <2>1, <2>2 DEF Wire
<1>18. \A k, l \in DOMAIN toClient' :
         Ends(toClient'[k]) /\ Tells(toClient'[l]) /\ k < l => toClient'[k].chan # toClient'[l].chan
  <2> SUFFICES ASSUME NEW k \in DOMAIN toClient', NEW l \in DOMAIN toClient', Ends(toClient'[k]),
                      Tells(toClient'[l]), k < l
               PROVE  toClient'[k].chan # toClient'[l].chan
    OBVIOUS
  <2>1. k \in DOMAIN toClient /\ toClient'[k] = toClient[k]
    <3>1. k # z
      <4>1. /\ z \in Nat /\ k \in Nat /\ l \in Nat /\ (l \in DOMAIN toClient => l < z)
            /\ (l \in DOMAIN toClient \/ l = z)
        BY <1>11 DEF Told
      <4> QED BY <4>1
    <3> QED BY <1>11, <1>12, <3>1
  <2>2. (l \in DOMAIN toClient /\ toClient'[l] = toClient[l]) \/ toClient'[l].chan = j
    BY <1>11
  <2> QED BY <1>1, <1>8, <2>1, <2>2 DEF Wire
<1>19. \A k \in progs' : Open(k)'
  BY <1>1, <1>9 DEF Wire
<1>20. \A k \in Ids : Opening(k)' =>
         \/ \E l \in DOMAIN toServer' : toServer'[l].type = "OPEN" /\ toServer'[l].chan = k
         \/ \E l \in DOMAIN toClient' : toClient'[l].type = "OPENED" /\ toClient'[l].chan = k
  <2> SUFFICES ASSUME NEW k \in Ids, Opening(k), k # j
               PROVE  \/ \E l \in DOMAIN toServer' : toServer'[l].type = "OPEN" /\ toServer'[l].chan = k
                      \/ \E l \in DOMAIN toClient' : toClient'[l].type = "OPENED" /\ toClient'[l].chan = k
    OBVIOUS
  <2>1. CASE \E l \in DOMAIN toServer : toServer[l].type = "OPEN" /\ toServer[l].chan = k
    <3>1. PICK l \in DOMAIN toServer : toServer[l].type = "OPEN" /\ toServer[l].chan = k
      BY <2>1
    <3>2. l # 1
      BY <1>2, <3>1
    <3> QED BY <1>6, <3>1, <3>2
  <2>2. CASE \E l \in DOMAIN toClient : toClient[l].type = "OPENED" /\ toClient[l].chan = k
    BY <1>11, <2>2
  <2> QED BY <1>1, <2>1, <2>2 DEF Wire
<1> QED BY <1>13, <1>14, <1>15, <1>16, <1>17, <1>18, <1>19, <1>20 DEF Wire

\* A packet is added for the master.
LEMMA TellOne ==
  ASSUME IsSeq(toClient), NEW n, toClient' = Append(toClient, n), NEW j, n.chan = j, Stage(n)
  PROVE  /\ Told(j, Len(toClient) + 1) /\ IsSeq(toClient')
         /\ Len(toClient) + 1 \in DOMAIN toClient' /\ toClient'[Len(toClient) + 1] = n
<1>1. /\ IsSeq(toClient') /\ Len(toClient) \in Nat
      /\ DOMAIN toClient = 1..Len(toClient) /\ DOMAIN toClient' = 1..(Len(toClient) + 1)
      /\ toClient'[Len(toClient) + 1] = n
      /\ \A k \in DOMAIN toClient : k \in DOMAIN toClient' /\ toClient'[k] = toClient[k]
  BY SeqAppend
<1> DEFINE z == Len(toClient) + 1
<1>2. /\ z \in Nat /\ z \in DOMAIN toClient' /\ (\A k \in DOMAIN toClient' : k \in Nat)
      /\ (\A k \in DOMAIN toClient' : k \in DOMAIN toClient \/ k = z) /\ (\A k \in DOMAIN toClient : k < z)
      /\ toClient'[z] = n
  BY <1>1
<1> HIDE DEF z
<1>3. Told(j, z)
  BY <1>1, <1>2 DEF Told
<1> QED BY <1>1, <1>2, <1>3 DEF z

\* The confirmations are not touched.
LEMMA QueueUntouched ==
  ASSUME IInv, Running, chan' = chan, confirms' = confirms
  PROVE  (\A i \in Ids : Waits(i)' <=> Waits(i)) => Queue'
<1>1. Queue
  BY DEF IInv, Orderly
<1> QED BY <1>1, QueueFrame

\* The server takes a packet of the master.
LEMMA ServerInputKeeps ==
  ASSUME IInv, ServerInput
  PROVE  IInv'
<1>1. PICK m : m = Head(toServer)
  OBVIOUS
<1>2. /\ Running /\ toServer # <<>> /\ toServer' = Tail(toServer) /\ slave' = slave /\ chan' = chan
      /\ over' = over /\ confirms' = confirms
  BY DEF ServerInput, tables
<1>3. /\ IsSeq(toServer) /\ IsSeq(toClient) /\ IsSeq(confirms) /\ progs \subseteq Ids /\ Wire
  BY <1>2 DEF IInv, Shape, Orderly
<1>4. /\ Kept(toServer', toServer, 1, AskTypes) /\ IsSeq(toServer') /\ 1 \in DOMAIN toServer /\ toServer[1] = m
  BY <1>1, <1>2, <1>3, KeptTail
<1>5. (\A i \in Ids : Waits(i)' <=> Waits(i)) => Queue'
  BY <1>2, QueueUntouched
<1> DEFINE Same == \A j \in Ids : (Opening(j)' <=> Opening(j)) /\ (Open(j)' <=> Open(j))
<1>6. CASE /\ ~Asks(m) /\ progs' = progs
           /\ toClient' = toClient \/ \E n : n.type \notin TellTypes /\ toClient' = Append(toClient, n)
  <2>1. Kept(toClient', toClient, 0, TellTypes) /\ IsSeq(toClient')
    BY <1>3, <1>6, KeptSame, KeptAppend
  <2>2. ASSUME Same PROVE Wire'
    <3>1. 0 \in {0, 1} /\ 1 \in {0, 1} /\ 0 # 1
      OBVIOUS
    <3> QED BY <1>3, <1>4, <1>6, <2>1, <2>2, <3>1, WireShift
  <2> QED BY <1>2, <1>3, <1>4, <1>5, <1>6, <2>1, <2>2, NetKeeps
<1>7. CASE /\ m.type = "OPEN" /\ progs' = progs
           /\ \E ok : toClient' = Append(toClient, [type |-> "OPENED", chan |-> m.chan, ok |-> ok])
  <2>1. PICK ok : toClient' = Append(toClient, [type |-> "OPENED", chan |-> m.chan, ok |-> ok])
    BY <1>7
  <2> DEFINE n == [type |-> "OPENED", chan |-> m.chan, ok |-> ok]
  <2>2. n.type = "OPENED" /\ n.chan = m.chan
    OBVIOUS
  <2> HIDE DEF n
  <2>3. Asks(m)
    BY <1>7 DEF Asks
  <2>4. Stage(n)
    BY <1>3, <1>4, <1>7, <2>2, <2>3 DEF Wire, Stage
  <2>5. toClient' = Append(toClient, n)
    BY <2>1 DEF n
  <2>6. /\ Told(m.chan, Len(toClient) + 1) /\ IsSeq(toClient')
        /\ Len(toClient) + 1 \in DOMAIN toClient' /\ toClient'[Len(toClient) + 1] = n
    BY <1>3, <2>2, <2>4, <2>5, TellOne
  <2>7. \E k \in DOMAIN toClient' : toClient'[k].type = "OPENED" /\ toClient'[k].chan = m.chan
    BY <2>2, <2>6
  <2>8. ASSUME Same PROVE Wire'
    BY <1>1, <1>2, <1>7, <2>3, <2>6, <2>7, <2>8, WireServe
  <2> QED BY <1>2, <1>3, <1>4, <1>5, <1>7, <2>6, <2>8, NetKeeps
<1>8. CASE /\ m.type = "SETUP" /\ progs' = progs \cup {m.chan}
           /\ \/ toClient' = toClient
              \/ toClient' = Append(toClient, [type |-> "TTY_FAILURE", chan |-> m.chan])
  <2> DEFINE n == [type |-> "TTY_FAILURE", chan |-> m.chan]
  <2>1. Asks(m)
    BY <1>8 DEF Asks
  <2>2. Open(m.chan)
    BY <1>3, <1>4, <1>8, <2>1 DEF Wire, Stage
  <2>3. m.chan \in Ids /\ ~Opening(m.chan)
    BY <2>2 DEF Open, Opening, Sessions
  <2>4. n.type = "TTY_FAILURE" /\ n.chan = m.chan
    OBVIOUS
  <2> HIDE DEF n
  <2>5. Stage(n)
    BY <2>2, <2>4 DEF Stage
  <2>6. PICK z : Told(m.chan, z) /\ IsSeq(toClient') /\ \A k \in DOMAIN toClient' : k = z => ~Ends(toClient'[k])
    <3>1. CASE toClient' = toClient
      <4>1. Len(toClient) \in Nat /\ DOMAIN toClient = 1..Len(toClient)
        BY <1>3 DEF IsSeq
      <4>2. PICK z \in Nat : z = Len(toClient) + 1
        BY <4>1
      <4>3. \A k \in DOMAIN toClient : k \in Nat /\ k < z /\ k # z
        BY <4>1, <4>2
      <4>4. Told(m.chan, z)
        BY <3>1, <4>2, <4>3 DEF Told
      <4> QED BY <1>3, <3>1, <4>3, <4>4
    <3>2. CASE toClient' = Append(toClient, n)
      <4>1. ~Ends(n)
        BY <2>4 DEF Ends
      <4> QED BY <1>3, <2>4, <2>5, <3>2, <4>1, TellOne
    <3> QED BY <1>8, <3>1, <3>2 DEF n
  <2>7. ASSUME Same PROVE Wire'
    BY <1>1, <1>2, <1>8, <2>1, <2>2, <2>3, <2>6, <2>7, WireServe
  <2> QED BY <1>2, <1>3, <1>4, <1>5, <1>8, <2>3, <2>6, <2>7, NetKeeps
<1>9. CASE m.type = "FORWARD" /\ ServerForward(m) /\ UNCHANGED progs
  <2>1. ~Asks(m)
    BY <1>9 DEF Asks
  <2>2. PICK ok, p : toClient' = Append(toClient, [type |-> "REPLY", ok |-> ok, port |-> p, nr |-> m.nr])
    BY <1>9 DEF ServerForward, Reply, Send
  <2>3. [type |-> "REPLY", ok |-> ok, port |-> p, nr |-> m.nr].type \notin TellTypes
    BY DEF TellTypes
  <2> QED BY <1>6, <1>9, <2>1, <2>2, <2>3
<1>10. CASE m.type = "CANCEL" /\ UNCHANGED <<toClient, progs, events>>
  BY <1>6, <1>10 DEF Asks
<1>11. CASE m.type = "KEEPALIVE" /\ Reply(FALSE, 0, 0) /\ UNCHANGED <<progs, listening, events>>
  <2>1. ~Asks(m) /\ [type |-> "REPLY", ok |-> FALSE, port |-> 0, nr |-> 0].type \notin TellTypes
    BY <1>11 DEF Asks, TellTypes
  <2> QED BY <1>6, <1>11, <2>1 DEF Reply, Send
<1>12. CASE /\ m.type = "OPEN" /\ \E ok \in BOOLEAN : Send([type |-> "OPENED", chan |-> m.chan, ok |-> ok])
            /\ UNCHANGED <<progs, listening, events>>
  BY <1>7, <1>12 DEF Send
<1>13. CASE /\ m.type = "SETUP" /\ progs' = progs \cup {m.chan}
            /\ \/ UNCHANGED toClient
               \/ m.tty /\ Send([type |-> "TTY_FAILURE", chan |-> m.chan])
  BY <1>8, <1>13 DEF Send
<1> QED BY <1>1, <1>9, <1>10, <1>11, <1>12, <1>13 DEF ServerInput

\* server_alive_check: a placeholder in the queue of confirmations, or one more
\* reply counted by the last one.
LEMMA ServerAliveCheckKeeps ==
  ASSUME IInv, ServerAliveCheck
  PROVE  IInv'
<1> DEFINE p == [cb |-> "none", cid |-> NoChan, fid |-> 0, ref_count |-> 1, nr |-> 0, for |-> NoDest]
           m == [type |-> "KEEPALIVE"]
<1>1. /\ Running /\ slave' = slave /\ chan' = chan /\ over' = over /\ toClient' = toClient
      /\ progs' = progs /\ toServer' = Append(toServer, m) /\ confirms' = Register(confirms, p)
  BY DEF ServerAliveCheck, Placeholder, server
<1>2. /\ IsSeq(toServer) /\ IsSeq(toClient) /\ IsSeq(confirms) /\ progs \subseteq Ids /\ Wire /\ Queue
  BY <1>1 DEF IInv, Shape, Orderly
<1>3. m.type \notin AskTypes
  BY DEF AskTypes
<1>4. Known(p) /\ ~IsMux(p) /\ p.cb = "none"
  BY DEF Known, IsMux
<1> HIDE DEF p, m
<1>5. Kept(toServer', toServer, 0, AskTypes) /\ IsSeq(toServer') /\ Kept(toClient', toClient, 0, TellTypes)
  BY <1>1, <1>2, <1>3, KeptAppend, KeptSame
<1>6. \A k \in DOMAIN confirms : Known(confirms[k])
  BY <1>2 DEF Queue
<1>7. IsSeq(confirms') /\ Paired(0)
  <2>1. Len(confirms) \in Nat /\ DOMAIN confirms = 1..Len(confirms)
    BY <1>2 DEF IsSeq
  <2>2. \A k \in DOMAIN confirms : k \in Nat /\ k + 0 = k /\ k - 0 = k
    BY <2>1
  <2>3. CASE confirms # <<>> /\ Last(confirms).cb = "none"
    <3> DEFINE g == confirms[Len(confirms)]
               e == [g EXCEPT !.ref_count = g.ref_count + 1]
    <3>1. confirms' = [confirms EXCEPT ![Len(confirms)] = e]
      BY <1>1, <1>4, <2>3 DEF Register
    <3>2. Len(confirms) \in DOMAIN confirms /\ g.cb = "none"
      <4>1. Len(confirms) # 0
        BY <1>2, <2>3 DEF IsSeq
      <4> QED BY <2>1, <2>3, <4>1 DEF Last
    <3>3. ~IsMux(g) /\ Known(g)
      BY <1>6, <3>2 DEF IsMux
    <3>4. ~IsMux(e) /\ Known(e)
      BY <3>3 DEF IsMux, Known
    <3> HIDE DEF e
    <3>5. /\ IsSeq(confirms') /\ DOMAIN confirms' = DOMAIN confirms /\ confirms'[Len(confirms)] = e
          /\ \A l \in DOMAIN confirms : l # Len(confirms) => confirms'[l] = confirms[l]
      BY <1>2, <3>1, <3>2, SeqExcept
    <3>6. \A k \in DOMAIN confirms' : k \in Nat /\ Known(confirms'[k])
      BY <1>6, <2>2, <3>4, <3>5
    <3>7. \A k \in DOMAIN confirms' : IsMux(confirms'[k]) => confirms'[k] = confirms[k]
      BY <3>4, <3>5
    <3>8. \A k \in DOMAIN confirms : IsMux(confirms[k]) => confirms'[k] = confirms[k]
      BY <3>3, <3>5
    <3> HIDE DEF g
    <3> QED BY <2>2, <3>5, <3>6, <3>7, <3>8 DEF Paired
  <2>4. CASE ~(confirms # <<>> /\ Last(confirms).cb = "none")
    <3>1. confirms' = Append(confirms, p)
      BY <1>1, <2>4 DEF Register
    <3>2. /\ IsSeq(confirms') /\ DOMAIN confirms' = 1..(Len(confirms) + 1) /\ confirms'[Len(confirms) + 1] = p
          /\ \A k \in DOMAIN confirms : k \in DOMAIN confirms' /\ confirms'[k] = confirms[k]
      BY <1>2, <3>1, SeqAppend
    <3>3. \A k \in DOMAIN confirms' : k \in Nat /\ k + 0 = k /\ (k \in DOMAIN confirms \/ confirms'[k] = p)
      BY <2>1, <3>2
    <3> QED BY <1>4, <1>6, <2>2, <3>2, <3>3 DEF Paired
  <2> QED BY <2>3, <2>4
<1>8. 0 \in {0, 1} /\ 0 # 1
  OBVIOUS
<1>9. (\A i \in Ids : Waits(i)' <=> Waits(i)) => Queue'
  BY <1>1, <1>2, <1>7, <1>8, QueueShift
<1>10. (\A j \in Ids : (Opening(j)' <=> Opening(j)) /\ (Open(j)' <=> Open(j))) => Wire'
  BY <1>1, <1>2, <1>5, <1>8, WireShift
<1> QED BY <1>1, <1>2, <1>5, <1>7, <1>9, <1>10, NetKeeps

\* A connection to a listener.
LEMMA ArriveKeeps ==
  ASSUME IInv, Arrive
  PROVE  IInv'
<1>1. /\ Running /\ slave' = slave /\ chan' = chan /\ over' = over /\ toServer' = toServer
      /\ progs' = progs /\ confirms' = confirms
  BY DEF Arrive, server, tables
<1>2. PICK p, n : toClient' = Append(toClient, [type |-> "CONNECT", port |-> p, nr |-> n])
  BY DEF Arrive, Send
<1>3. /\ IsSeq(toServer) /\ IsSeq(toClient) /\ IsSeq(confirms) /\ progs \subseteq Ids /\ Wire
  BY <1>1 DEF IInv, Shape, Orderly
<1>4. [type |-> "CONNECT", port |-> p, nr |-> n].type \notin TellTypes
  BY DEF TellTypes
<1>5. Kept(toClient', toClient, 0, TellTypes) /\ IsSeq(toClient') /\ Kept(toServer', toServer, 0, AskTypes)
  BY <1>1, <1>2, <1>3, <1>4, KeptAppend, KeptSame
<1>6. 0 \in {0, 1} /\ 0 # 1
  OBVIOUS
<1>7. (\A i \in Ids : Waits(i)' <=> Waits(i)) => Queue'
  BY <1>1, QueueUntouched
<1>8. (\A j \in Ids : (Opening(j)' <=> Opening(j)) /\ (Open(j)' <=> Open(j))) => Wire'
  BY <1>1, <1>3, <1>5, <1>6, WireShift
<1> QED BY <1>1, <1>3, <1>5, <1>7, <1>8, NetKeeps

\* The program of session j ends: nothing else about it is under way that ends it.
LEMMA ProgramEndsKeeps ==
  ASSUME IInv, NEW j \in Ids, ProgramEnds(j)
  PROVE  IInv'
<1> DEFINE a == [type |-> "EXIT", chan |-> j]
           b == [type |-> "CLOSE", chan |-> j]
           y == Len(toClient) + 1
           z == Len(toClient) + 2
<1>1. /\ Running /\ j \in progs /\ progs' = progs \ {j} /\ slave' = slave /\ chan' = chan /\ over' = over
      /\ toServer' = toServer /\ confirms' = confirms /\ toClient' = toClient \o <<a, b>>
  BY DEF ProgramEnds, tables
<1>2. /\ IsSeq(toServer) /\ IsSeq(toClient) /\ IsSeq(confirms) /\ progs \subseteq Ids /\ Wire
  BY <1>1 DEF IInv, Shape, Orderly
<1>3. a.type = "EXIT" /\ a.chan = j /\ b.type = "CLOSE" /\ b.chan = j
  OBVIOUS
<1> HIDE DEF a, b
<1>4. /\ IsSeq(toClient') /\ Len(toClient) \in Nat /\ DOMAIN toClient = 1..Len(toClient)
      /\ DOMAIN toClient' = 1..(Len(toClient) + 2) /\ toClient'[y] = a /\ toClient'[z] = b
      /\ \A k \in DOMAIN toClient : toClient'[k] = toClient[k]
  <2> DEFINE R == {toClient[k] : k \in DOMAIN toClient} \cup {a, b}
  <2>1. toClient \in Seq(R)
    <3>1. toClient \in Seq({toClient[k] : k \in DOMAIN toClient})
      BY <1>2 DEF IsSeq
    <3> QED BY <3>1
  <2>2. a \in R /\ b \in R
    OBVIOUS
  <2> HIDE DEF R
  <2>3. <<a, b>> \in Seq(R) /\ Len(<<a, b>>) = 2 /\ <<a, b>>[1] = a /\ <<a, b>>[2] = b
    BY <2>2
  <2>4. toClient' \in Seq(R)
    BY <1>1, <2>1, <2>3
  <2>5. /\ Len(toClient) \in Nat /\ DOMAIN toClient = 1..Len(toClient)
        /\ Len(toClient') = Len(toClient) + 2 /\ DOMAIN toClient' = 1..(Len(toClient) + 2)
    BY <1>1, <2>1, <2>3
  <2>6. toClient'[y] = a /\ toClient'[z] = b
    BY <1>1, <2>1, <2>3, <2>5
  <2>7. \A k \in DOMAIN toClient : toClient'[k] = toClient[k]
    BY <1>1, <2>1, <2>3
  <2> QED BY <2>4, <2>5, <2>6, <2>7, SeqIs
<1>5. /\ \A k \in DOMAIN toClient' : k \in Nat /\ (k \in DOMAIN toClient \/ k = y \/ k = z)
      /\ \A k \in DOMAIN toClient : k \in DOMAIN toClient' /\ k \in Nat /\ k < y /\ k < z
      /\ y \in DOMAIN toClient' /\ z \in DOMAIN toClient' /\ y < z /\ y \in Nat /\ z \in Nat
  BY <1>4
<1>6. /\ \A k \in DOMAIN toClient : toClient'[k] = toClient[k]
      /\ toClient'[y] = a /\ toClient'[z] = b
  BY <1>4
<1> HIDE DEF y, z
<1>7. (\A i \in Ids : Waits(i)' <=> Waits(i)) => Queue'
  BY <1>1, QueueUntouched
<1>8. ASSUME \A i \in Ids : (Opening(i)' <=> Opening(i)) /\ (Open(i)' <=> Open(i))
      PROVE  Wire'
  <2>1. \A i : (Opening(i) => Opening(i)') /\ (Open(i) => Open(i)')
    BY <1>8, StagesSame
  <2>2. \A m : Stage(m) => Stage(m)'
    BY <2>1 DEF Stage
  <2>3. Open(j)
    BY <1>1, <1>2 DEF Wire
  <2>4. Stage(a)' /\ Stage(b)' /\ ~Ends(a)
    BY <1>3, <2>1, <2>3 DEF Stage, Ends
  <2>5. \A k \in DOMAIN toServer : Asks(toServer[k]) => toServer[k].chan # j
    BY <1>1, <1>2 DEF Wire
  <2>6. \A k \in DOMAIN toClient : Ends(toClient[k]) => toClient[k].chan # j
    BY <1>1, <1>2 DEF Wire
  <2>7. \A k \in DOMAIN toServer' : Asks(toServer'[k]) => Stage(toServer[k])' /\ toServer'[k].chan \notin progs'
    BY <1>1, <1>2, <2>2 DEF Wire
  <2>8. \A k \in DOMAIN toClient' : Tells(toClient'[k]) => Stage(toClient[k])'
    BY <1>2, <1>5, <1>6, <2>2, <2>4 DEF Wire
  <2>9. \A k \in DOMAIN toClient' : Ends(toClient'[k]) => toClient'[k].chan \notin progs'
    BY <1>1, <1>2, <1>3, <1>5, <1>6, <2>4 DEF Wire
  <2>10. \A k \in DOMAIN toClient', l \in DOMAIN toServer' :
           Ends(toClient'[k]) /\ Asks(toServer'[l]) => toClient'[k].chan # toServer'[l].chan
    BY <1>1, <1>2, <1>3, <1>5, <1>6, <2>4, <2>5 DEF Wire
  <2>11. \A k, l \in DOMAIN toClient' :
           Ends(toClient'[k]) /\ Tells(toClient'[l]) /\ k < l => toClient'[k].chan # toClient'[l].chan
    <3> SUFFICES ASSUME NEW k \in DOMAIN toClient', NEW l \in DOMAIN toClient', Ends(toClient'[k]),
                        Tells(toClient'[l]), k < l
                 PROVE  toClient'[k].chan # toClient'[l].chan
      OBVIOUS
    <3>1. k # y
      BY <1>6, <2>4
    <3>2. k # z
      BY <1>5
    <3>3. k \in DOMAIN toClient /\ toClient'[k] = toClient[k] /\ toClient[k].chan # j
      BY <1>5, <1>6, <2>6, <3>1, <3>2
    <3>4. (l \in DOMAIN toClient /\ toClient'[l] = toClient[l]) \/ toClient'[l].chan = j
      BY <1>3, <1>5, <1>6
    <3> QED BY <1>2, <3>3, <3>4 DEF Wire
  <2>12. \A i \in Ids : Opening(i)' =>
           \/ \E k \in DOMAIN toServer' : toServer'[k].type = "OPEN" /\ toServer'[k].chan = i
           \/ \E k \in DOMAIN toClient' : toClient'[k].type = "OPENED" /\ toClient'[k].chan = i
    <3> SUFFICES ASSUME NEW i \in Ids, Opening(i)
                 PROVE  \/ \E k \in DOMAIN toServer : toServer[k].type = "OPEN" /\ toServer[k].chan = i
                        \/ \E k \in DOMAIN toClient' : toClient'[k].type = "OPENED" /\ toClient'[k].chan = i
      BY <1>1, <1>8
    <3>1. CASE \E k \in DOMAIN toClient : toClient[k].type = "OPENED" /\ toClient[k].chan = i
      BY <1>5, <1>6, <3>1
    <3> QED BY <1>2, <3>1 DEF Wire
  <2>13. \A i \in progs' : Open(i)'
    BY <1>1, <1>2, <2>1 DEF Wire
  <2>14. \A k, l \in DOMAIN toServer' : Asks(toServer'[k]) /\ Asks(toServer'[l])
           /\ toServer'[k].chan = toServer'[l].chan => k = l
    BY <1>1, <1>2 DEF Wire
  <2> QED BY <2>7, <2>8, <2>9, <2>10, <2>11, <2>12, <2>13, <2>14 DEF Wire
<1> QED BY <1>1, <1>2, <1>4, <1>7, <1>8, NetKeeps

\* The master has exited.
LEMMA ExitKeeps ==
  ASSUME IInv, Exit
  PROVE  IInv'
<1>1. /\ ~Running /\ slave' = [s \in Slaves |-> [slave[s] EXCEPT !.ctl = NoChan]] /\ chan' = chan
      /\ over' = over /\ confirms' = confirms /\ toServer' = toServer /\ toClient' = toClient /\ progs' = progs
  BY DEF Exit, tables, net, server
<1>2. Shape /\ slave \in [Slaves -> Slave]
  BY DEF IInv, Shape
<1>3. \A s \in Slaves : slave'[s] \in Slave /\ slave'[s].in = slave[s].in
                        /\ slave'[s].out = slave[s].out /\ slave'[s].todo = slave[s].todo
  BY <1>1, <1>2 DEF Slave
<1>4. slave' \in [Slaves -> Slave]
  BY <1>1, <1>3
<1>5. Shape'
  BY <1>1, <1>2, <1>4 DEF Shape
<1>6. \A s \in Slaves : LastIsSession(slave'[s])
  BY <1>3 DEF IInv, LastIsSession
<1>7. AnswerReachesAsker'
  BY <1>1, <1>3 DEF IInv, AnswerReachesAsker
<1>8. Survives' /\ ~Running'
  BY <1>1 DEF IInv, Survives, Running
<1> QED BY <1>5, <1>6, <1>7, <1>8 DEF IInv

-----------------------------------------------------------------------------
(* The theorems.                                                           *)

\* The requests of the -R options have been sent, and no slave has connected.
LEMMA InitHolds == Init => IInv
<1> SUFFICES ASSUME Init PROVE IInv
  OBVIOUS
<1>1. /\ slave = [s \in Slaves |-> [pc |-> "idle", cmd |-> <<>>, todo |-> <<>>,
           ctl |-> NoChan, in |-> <<>>, out |-> <<>>, failed |-> FALSE, exit |-> FALSE, killed |-> FALSE]]
      /\ chan = [i \in Ids |-> Free] /\ progs = {} /\ over = "no" /\ toClient = <<>>
  BY DEF Init
<1>2. \A k \in DOMAIN confirms : "cb" \in DOMAIN confirms[k] /\ confirms[k].cb = "init"
  BY DEF Init
<1>3. \A k \in DOMAIN toServer : toServer[k].type = "FORWARD"
  BY DEF Init
<1>4. IsSeq(confirms) /\ IsSeq(toServer) /\ IsSeq(toClient)
  <2>1. PICK n \in Nat : DOMAIN InitFwds = 1..n
    <3>1. InitFwds \in Seq([port : Nat, dest : STRING])
      BY MuxAssumption
    <3> QED BY <3>1
  <2>2. \A q : q = [k \in 1..n |-> q[k]] => IsSeq(q)
    <3> SUFFICES ASSUME NEW q, q = [k \in 1..n |-> q[k]] PROVE IsSeq(q)
      OBVIOUS
    <3> DEFINE R == {q[k] : k \in DOMAIN q}
    <3>1. DOMAIN q = 1..n /\ \A k \in 1..n : q[k] \in R
      OBVIOUS
    <3> HIDE DEF R
    <3>2. q \in [1..n -> R]
      BY <3>1
    <3> QED BY <3>2 DEF IsSeq, R
  <2>3. confirms = [k \in 1..n |-> confirms[k]] /\ toServer = [k \in 1..n |-> toServer[k]]
    BY <2>1 DEF Init
  <2>4. toClient \in Seq({})
    BY <1>1
  <2> QED BY <2>2, <2>3, <2>4, SeqIs
<1>5. \A s \in Slaves : /\ slave[s] \in Slave /\ slave[s].ctl = NoChan /\ slave[s].in = <<>>
                        /\ slave[s].out = <<>> /\ slave[s].todo = <<>>
  <2>1. <<>> \in Seq(Requests) /\ <<>> \in Seq(Message)
    OBVIOUS
  <2> QED BY <1>1, <2>1 DEF Slave, Pcs
<1>6. Shape
  <2>1. slave \in [Slaves -> Slave]
    BY <1>1, <1>5
  <2>2. chan \in [Ids -> {Free} \cup Ctl \cup Ses]
    BY <1>1
  <2> QED BY <1>1, <1>4, <2>1, <2>2 DEF Shape
<1>7. DOMAIN <<>> = {} /\ DOMAIN toClient = {}
  BY <1>1
<1>8. \A s \in Slaves : LastIsSession(slave[s])
  BY <1>5, <1>7 DEF LastIsSession
<1>9. Controls = {} /\ Sessions = {}
  BY <1>1 DEF Controls, Sessions, Free
<1>10. AnswerReachesAsker
  BY <1>5, <1>7, <1>9 DEF AnswerReachesAsker, Controls
<1>11. Owned /\ Linked /\ Talks
  BY <1>5, <1>9 DEF Owned, Linked, Talks
<1>12. Queue
  BY <1>2, <1>9 DEF Queue, Known, IsMux, Waits
<1>13. Wire
  BY <1>1, <1>3, <1>7, <1>9 DEF Wire, Opening, Open, Asks
<1> QED BY <1>1, <1>6, <1>8, <1>10, <1>11, <1>12, <1>13 DEF IInv, Orderly, Survives

\* Every step keeps the invariant.
LEMMA NextKeeps == IInv /\ [Next]_vars => IInv'
<1> SUFFICES ASSUME IInv, [Next]_vars PROVE IInv'
  OBVIOUS
<1>1. ASSUME NEW s \in Slaves, SlaveStep(s) PROVE IInv'
  BY <1>1, ConnectKeeps, SlaveReadsKeeps, SlaveGone DEF SlaveStep
<1>2. ASSUME NEW i \in Ids, ControlStep(i) PROVE IInv'
  BY <1>2, ReadRequestKeeps, ReadEofKeeps, WriteOutKeeps, DrainedKeeps, FreeSessionKeeps DEF ControlStep
<1>3. CASE UNCHANGED vars
  <2>1. /\ slave' = slave /\ chan' = chan /\ over' = over /\ confirms' = confirms
        /\ toServer' = toServer /\ toClient' = toClient /\ progs' = progs
    BY <1>3 DEF vars, tables, net, server
  <2>2. Shape' /\ Survives' /\ AnswerReachesAsker' /\ \A s \in Slaves : LastIsSession(slave'[s])
    BY <2>1 DEF IInv, Shape, Survives, AnswerReachesAsker
  <2>3. Controls' = Controls /\ Sessions' = Sessions
    BY <2>1 DEF Controls, Sessions
  <2>4. Running' => Orderly'
    <3> SUFFICES ASSUME Running' PROVE Orderly'
      OBVIOUS
    <3>1. Orderly
      BY <2>1 DEF IInv, Running
    <3>2. Owned' /\ Linked' /\ Talks'
      BY <2>1, <2>3, <3>1 DEF Orderly, Owned, Linked, Talks
    <3>3. Queue'
      BY <2>1, <2>3, <3>1, QueueFrame DEF Orderly, Waits
    <3>4. Wire'
      BY <2>1, <2>3, <3>1, WireFrame DEF Orderly, Opening, Open
    <3> QED BY <3>2, <3>3, <3>4 DEF Orderly
  <2> QED BY <2>2, <2>4 DEF IInv
<1> QED BY <1>1, <1>2, <1>3, ClientInputKeeps, ServerInputKeeps, ServerAliveCheckKeeps, ArriveKeeps,
           ProgramEndsKeeps, ExitKeeps DEF Next

LEMMA MuxInvariant == Spec => []IInv
BY InitHolds, NextKeeps, PTL DEF Spec

\* An answer that comes after a kill never reaches a slave that did not ask:
\* what a control channel writes is for the slave connected to it.
THEOREM AnswersReachAskers == Spec => []AnswerReachesAsker
<1>1. IInv => AnswerReachesAsker
  BY DEF IInv
<1> QED BY <1>1, MuxInvariant, PTL

\* A packet of one of the two queues is in their concatenation.
LEMMA InEither ==
  ASSUME NEW q, NEW r, IsSeq(q), IsSeq(r)
  PROVE  /\ \A k \in DOMAIN q : q[k] \in Range(q \o r)
         /\ \A k \in DOMAIN r : r[k] \in Range(q \o r)
<1> DEFINE R == {q[k] : k \in DOMAIN q} \cup {r[k] : k \in DOMAIN r}
<1>1. q \in Seq(R) /\ r \in Seq(R)
  <2>1. q \in Seq({q[k] : k \in DOMAIN q}) /\ r \in Seq({r[k] : k \in DOMAIN r})
    BY DEF IsSeq
  <2> QED BY <2>1
<1> HIDE DEF R
<1>2. \A k \in DOMAIN q : k \in DOMAIN (q \o r) /\ (q \o r)[k] = q[k]
  BY <1>1
<1>3. \A k \in DOMAIN r : Len(q) + k \in DOMAIN (q \o r) /\ (q \o r)[Len(q) + k] = r[k]
  BY <1>1
<1> QED BY <1>2, <1>3 DEF Range

\* A slave that has asked is never forgotten: while the master runs its answer is
\* under way, and a paused control channel has a confirmation or a packet about
\* its session that will resume it.
THEOREM NoSlaveForgotten == Spec => []NobodyForgotten
<1>1. IInv => NobodyForgotten
  <2> SUFFICES ASSUME IInv, NEW s \in Slaves, Running, slave[s].pc \in {"hello", "asked"},
                      slave[s].in = <<>>, slave[s].ctl # NoChan
               PROVE  LET t == slave[s]
                          c == chan[t.ctl]
                      IN  \/ c.out # <<>> \/ c.drain
                          \/ t.out # <<>> /\ ~c.mux_pause
                          \/ c.mux_pause /\ AnswerUnderWay(t.ctl)
    BY DEF NobodyForgotten
  <2> DEFINE t == slave[s]
             i == t.ctl
             c == chan[i]
             j == c.remote_id
  <2>1. Shape /\ Owned /\ Linked /\ Talks /\ Queue /\ Wire
    BY DEF IInv, Orderly
  <2>2. Awaits(t, c) /\ Talk(t, c)
    BY <2>1 DEF Talks
  <2>3. i \in Controls /\ i \in Ids
    BY <2>1 DEF Owned, Controls
  <2>4. CASE ~c.mux_pause
    <3> HIDE DEF t, c
    <3> QED BY <2>2, <2>4 DEF Awaits, Busy, t, c
  <2>5. CASE c.mux_pause /\ j = NoChan
    <3>1. Waits(i)
      BY <2>3, <2>5 DEF Waits
    <3>2. \E k \in DOMAIN confirms : confirms[k].cb = "mux" /\ confirms[k].cid = i
      BY <2>1, <2>3, <3>1 DEF Queue, IsMux
    <3>3. AnswerUnderWay(i)
      BY <3>2 DEF AnswerUnderWay
    <3> QED BY <2>5, <3>3
  <2>6. CASE c.mux_pause /\ j # NoChan
    <3>1. j \in Sessions /\ chan[j].type = "opening"
      BY <2>1, <2>3, <2>6 DEF Linked
    <3>2. Opening(j) /\ j \in Ids
      BY <2>1, <3>1 DEF Linked, Opening, Sessions
    <3>3. IsSeq(toServer) /\ IsSeq(toClient)
      BY <2>1 DEF Shape
    <3>4. \/ \E k \in DOMAIN toServer : toServer[k].type = "OPEN" /\ toServer[k].chan = j
          \/ \E k \in DOMAIN toClient : toClient[k].type = "OPENED" /\ toClient[k].chan = j
      BY <2>1, <3>2 DEF Wire
    <3>5. \E m \in Range(toServer \o toClient) : m.type \in {"OPEN", "OPENED"} /\ m.chan = j
      BY <3>3, <3>4, InEither
    <3>6. AnswerUnderWay(i)
      BY <2>6, <3>5 DEF AnswerUnderWay
    <3> QED BY <2>6, <3>6
  <2> QED BY <2>4, <2>5, <2>6
<1> QED BY <1>1, MuxInvariant, PTL

-----------------------------------------------------------------------------
(* The -R options of the master itself, when they name their ports.        *)

FixedPorts == \A k \in DOMAIN InitFwds : InitFwds[k].port # 0

\* Option k is entry k of the table; its port is there until it is cancelled.
Option(f, k, gone) ==
  /\ "port" \in DOMAIN f /\ "nr" \in DOMAIN f /\ f.nr = k
  /\ f.port # 0 \/ k \in gone

\* The callback of an option is for an entry of the options, that of a slave's
\* request for one behind them.
Target(gc) ==
  /\ "cb" \in DOMAIN gc /\ "fid" \in DOMAIN gc
  /\ gc.cb = "init" => gc.fid \in DOMAIN InitFwds
  /\ gc.cb = "mux" => gc.fid \notin DOMAIN InitFwds

Options ==
  /\ IsSeq(forwards) /\ DOMAIN InitFwds \subseteq DOMAIN forwards
  /\ \A k \in DOMAIN InitFwds : Option(forwards[k], k, cancelled)
Targets == \A k \in DOMAIN confirms : Target(confirms[k])
Unread == over = "port_unread" => cancelled \cap DOMAIN InitFwds # {}

FInv == Options /\ Targets /\ Unread

\* The tables are left alone.
LEMMA SameTables ==
  ASSUME FInv, forwards' = forwards, confirms' = confirms, cancelled' = cancelled,
         over' = over \/ over' # "port_unread"
  PROVE  FInv'
BY DEF FInv, Options, Targets, Unread

\* Another place of an entry is written.
LEMMA OptionWritten ==
  ASSUME NEW f, NEW k, NEW gone, Option(f, k, gone), NEW x
  PROVE  Option([f EXCEPT !.alloc = x], k, gone)
BY DEF Option

\* An entry is forgotten.
LEMMA OptionForgotten ==
  ASSUME NEW f, NEW k, NEW gone, Option(f, k, gone)
  PROVE  Option([f EXCEPT !.dest = NoDest, !.port = 0], k, gone \cup {f.nr})
BY DEF Option

\* Entry n of the table becomes f.
LEMMA EntryWritten ==
  ASSUME Options, NEW n, NEW f, forwards' = [forwards EXCEPT ![n] = f], cancelled \subseteq cancelled',
         n \in DOMAIN InitFwds => Option(f, n, cancelled')
  PROVE  Options'
<1>1. /\ IsSeq(forwards) /\ DOMAIN InitFwds \subseteq DOMAIN forwards
      /\ \A k \in DOMAIN InitFwds : Option(forwards[k], k, cancelled')
  BY DEF Options, Option
<1>2. IsSeq(forwards') /\ DOMAIN forwards' = DOMAIN forwards
  <2>1. CASE n \in DOMAIN forwards
    BY <1>1, <2>1, SeqExcept
  <2>2. CASE n \notin DOMAIN forwards
    <3>1. forwards \in Seq({forwards[k] : k \in DOMAIN forwards})
      BY <1>1 DEF IsSeq
    <3>2. forwards' = forwards
      BY <2>2, <3>1
    <3> QED BY <1>1, <3>2
  <2> QED BY <2>1, <2>2
<1>3. \A k \in DOMAIN InitFwds : k # n => forwards'[k] = forwards[k]
  BY <1>1
<1>4. n \in DOMAIN InitFwds => forwards'[n] = f
  BY <1>1
<1>5. \A k \in DOMAIN InitFwds : Option(forwards'[k], k, cancelled')
  BY <1>1, <1>3, <1>4
<1> QED BY <1>1, <1>2, <1>5 DEF Options

\* The queue of callbacks grows, is counted up, is counted down or is shortened.
LEMMA TargetCounted ==
  ASSUME NEW gc, Target(gc), NEW n
  PROVE  Target([gc EXCEPT !.ref_count = n])
BY DEF Target

LEMMA TargetsCounted ==
  ASSUME Targets, IsSeq(confirms), NEW k \in DOMAIN confirms, NEW n,
         confirms' = [confirms EXCEPT ![k] = [confirms[k] EXCEPT !.ref_count = n]]
  PROVE  Targets'
<1> DEFINE e == [confirms[k] EXCEPT !.ref_count = n]
<1>1. Target(e)
  BY TargetCounted DEF Targets
<1> HIDE DEF e
<1>2. confirms' = [confirms EXCEPT ![k] = e]
  BY DEF e
<1>3. /\ DOMAIN confirms' = DOMAIN confirms /\ confirms'[k] = e
      /\ \A l \in DOMAIN confirms : l # k => confirms'[l] = confirms[l]
  BY <1>2, SeqExcept
<1> QED BY <1>1, <1>3 DEF Targets

LEMMA TargetsRegister ==
  ASSUME Targets, IsSeq(confirms), NEW gc, Target(gc), confirms' = Register(confirms, gc)
  PROVE  Targets'
<1>1. CASE confirms' = Append(confirms, gc)
  <2>1. /\ Len(confirms) \in Nat /\ DOMAIN confirms = 1..Len(confirms)
        /\ DOMAIN confirms' = 1..(Len(confirms) + 1) /\ confirms'[Len(confirms) + 1] = gc
        /\ \A k \in DOMAIN confirms : confirms'[k] = confirms[k]
    BY <1>1, SeqAppend
  <2>2. \A k \in DOMAIN confirms' : k \in DOMAIN confirms \/ k = Len(confirms) + 1
    BY <2>1
  <2> QED BY <2>1, <2>2 DEF Targets
<1>2. CASE confirms # <<>> /\ confirms' = [confirms EXCEPT ![Len(confirms)].ref_count = @ + 1]
  <2>1. Len(confirms) \in DOMAIN confirms
    BY <1>2, SeqTail
  <2> QED BY <1>2, <2>1, TargetsCounted
<1> QED BY <1>1, <1>2 DEF Register

LEMMA TargetsPopped ==
  ASSUME Targets, IsSeq(confirms), confirms # <<>>, Popped
  PROVE  Targets'
<1>1. /\ DOMAIN Tail(confirms) = 1..(Len(confirms) - 1) /\ 1 \in DOMAIN confirms
      /\ \A k \in DOMAIN Tail(confirms) : k + 1 \in DOMAIN confirms /\ Tail(confirms)[k] = confirms[k + 1]
  BY SeqTail
<1>2. CASE confirms' = Tail(confirms)
  BY <1>1, <1>2 DEF Targets
<1>3. CASE confirms' = [confirms EXCEPT ![1].ref_count = @ - 1]
  BY <1>1, <1>3, TargetsCounted
<1> QED BY <1>2, <1>3 DEF Popped

\* process_mux_open_fwd: the new entry is behind the options.
LEMMA OpenFwdOptions ==
  ASSUME FInv, IsSeq(confirms), NEW i, NEW f, OpenFwd(i, f), over' = over, cancelled' = cancelled
  PROVE  FInv'
<1>1. Options /\ Targets /\ Unread
  BY DEF FInv
<1>2. CASE Requested(f) # {}
  <2>1. forwards' = forwards /\ confirms' = confirms
    BY <1>2 DEF OpenFwd, tables
  <2> QED BY <2>1, SameTables
<1>3. CASE Requested(f) = {}
  <2>1. PICK g, gc : /\ forwards' = Append(forwards, g) /\ confirms' = Register(confirms, gc)
                     /\ "cb" \in DOMAIN gc /\ "fid" \in DOMAIN gc
                     /\ gc.cb = "mux" /\ gc.fid = Len(forwards) + 1
    BY <1>3 DEF OpenFwd
  <2>2. /\ IsSeq(forwards') /\ Len(forwards) \in Nat /\ DOMAIN forwards = 1..Len(forwards)
        /\ \A k \in DOMAIN forwards : k \in DOMAIN forwards' /\ forwards'[k] = forwards[k]
    BY <1>1, <2>1, SeqAppend DEF Options
  <2>3. Options'
    BY <1>1, <2>2 DEF Options
  <2>4. Len(forwards) + 1 \notin DOMAIN InitFwds
    BY <1>1, <2>2 DEF Options
  <2>5. Target(gc)
    BY <2>1, <2>4 DEF Target
  <2>6. Targets'
    BY <1>1, <2>1, <2>5, TargetsRegister
  <2> QED BY <1>1, <2>3, <2>6 DEF FInv, Unread
<1> QED BY <1>2, <1>3

\* process_mux_close_fwd: the entry loses its port and is cancelled.
LEMMA CloseFwdOptions ==
  ASSUME FInv, NEW i, NEW f, CloseFwd(i, f), over' = over
  PROVE  FInv'
<1>1. Options /\ Targets /\ Unread
  BY DEF FInv
<1>2. CASE forwards' = forwards /\ confirms' = confirms /\ cancelled' = cancelled
  BY <1>2, SameTables
<1>3. ASSUME NEW k, forwards' = Forgotten(k), cancelled' = cancelled \cup {forwards[k].nr},
             confirms' = confirms
      PROVE  FInv'
  <2> DEFINE e == [forwards[k] EXCEPT !.dest = NoDest, !.port = 0]
  <2>1. k \in DOMAIN InitFwds => Option(e, k, cancelled')
    BY <1>1, <1>3, OptionForgotten DEF Options
  <2>2. forwards' = [forwards EXCEPT ![k] = e]
    <3>1. IsSeq(forwards)
      BY <1>1 DEF Options
    <3>2. forwards \in Seq({forwards[l] : l \in DOMAIN forwards})
      BY <3>1 DEF IsSeq
    <3> QED BY <1>3, <3>2 DEF Forgotten
  <2> HIDE DEF e
  <2>3. cancelled \subseteq cancelled'
    BY <1>3
  <2>4. Options'
    BY <1>1, <2>1, <2>2, <2>3, EntryWritten
  <2>5. Targets' /\ Unread'
    BY <1>1, <1>3 DEF Targets, Unread
  <2> QED BY <2>4, <2>5 DEF FInv
<1>4. \/ forwards' = forwards /\ confirms' = confirms /\ cancelled' = cancelled
      \/ \E k : /\ forwards' = Forgotten(k) /\ cancelled' = cancelled \cup {forwards[k].nr}
                /\ confirms' = confirms
  BY DEF CloseFwd, tables
<1> QED BY <1>2, <1>3, <1>4

\* client_global_request_reply: the callback of an option finds no port only
\* when the option was cancelled.
LEMMA ReplyOptions ==
  ASSUME FInv, IInv, Running, NEW m, GlobalRequestReply(m), cancelled' = cancelled
  PROVE  FInv'
<1>1. Options /\ Targets /\ Unread /\ IsSeq(confirms) /\ IsSeq(forwards)
  BY DEF FInv, IInv, Shape, Options
<1>2. CASE confirms = <<>>
  <2>1. forwards' = forwards /\ confirms' = confirms /\ over' = over
    BY <1>2 DEF GlobalRequestReply, tables
  <2> QED BY <2>1, SameTables
<1>3. CASE confirms # <<>>
  <2>1. PICK gc : gc = Head(confirms)
    OBVIOUS
  <2>2. Targets'
    <3>1. Popped
      BY <1>3 DEF GlobalRequestReply, Popped
    <3> QED BY <1>1, <1>3, <3>1, TargetsPopped
  <2>3. Target(gc) /\ gc.cb \in {"mux", "init", "none"}
    <3>1. 1 \in DOMAIN confirms /\ gc = confirms[1]
      BY <1>1, <1>3, <2>1, SeqTail
    <3>2. Known(gc)
      BY <3>1 DEF IInv, Orderly, Queue
    <3> QED BY <1>1, <3>1, <3>2 DEF Targets, Known
  <2>4. /\ gc.cb = "mux" => MuxConfirmRemoteForward(gc, m)
        /\ gc.cb = "init" => SshConfirmRemoteForward(gc, m)
        /\ gc.cb = "none" => forwards' = forwards /\ over' = over
    BY <1>3, <2>1 DEF GlobalRequestReply
  <2>5. ASSUME NEW x, forwards' = [forwards EXCEPT ![gc.fid].alloc = x] PROVE Options'
    <3> DEFINE n == gc.fid
               e == [forwards[n] EXCEPT !.alloc = x]
    <3>1. n \in DOMAIN InitFwds => Option(e, n, cancelled')
      BY <1>1, OptionWritten DEF Options
    <3>2. forwards' = [forwards EXCEPT ![n] = e]
      <4>1. forwards \in Seq({forwards[l] : l \in DOMAIN forwards})
        BY <1>1 DEF IsSeq
      <4> QED BY <2>5, <4>1
    <3> HIDE DEF e, n
    <3> QED BY <1>1, <3>1, <3>2, EntryWritten
  <2>6. ASSUME forwards' = Forgotten(gc.fid), gc.cb = "mux" PROVE Options'
    <3> DEFINE n == gc.fid
               e == [forwards[n] EXCEPT !.dest = NoDest, !.port = 0]
    <3>1. n \notin DOMAIN InitFwds
      BY <2>3, <2>6 DEF Target
    <3>2. forwards' = [forwards EXCEPT ![n] = e]
      <4>1. forwards \in Seq({forwards[l] : l \in DOMAIN forwards})
        BY <1>1 DEF IsSeq
      <4> QED BY <2>6, <4>1 DEF Forgotten
    <3> HIDE DEF e, n
    <3> QED BY <1>1, <3>1, <3>2, EntryWritten
  <2>7. ASSUME forwards' = forwards PROVE Options'
    BY <1>1, <2>7 DEF Options
  <2>8. CASE gc.cb = "mux"
    <3>1. \/ forwards' = forwards \/ forwards' = Forgotten(gc.fid)
          \/ \E x : forwards' = [forwards EXCEPT ![gc.fid].alloc = x]
      BY <2>4, <2>8 DEF MuxConfirmRemoteForward
    <3>2. over' # "port_unread"
      BY <2>4, <2>8 DEF MuxConfirmRemoteForward, Resume, Running
    <3>3. Unread'
      BY <3>2 DEF Unread
    <3> QED BY <2>2, <2>5, <2>6, <2>7, <2>8, <3>1, <3>3 DEF FInv
  <2>9. CASE gc.cb = "init"
    <3>1. forwards' = forwards \/ \E x : forwards' = [forwards EXCEPT ![gc.fid].alloc = x]
      BY <2>4, <2>9 DEF SshConfirmRemoteForward
    <3>2. over' = "port_unread" => forwards[gc.fid].port = 0
      BY <2>4, <2>9 DEF SshConfirmRemoteForward, Running
    <3>3. gc.fid \in DOMAIN InitFwds /\ (forwards[gc.fid].port # 0 \/ gc.fid \in cancelled)
      BY <1>1, <2>3, <2>9 DEF Target, Options, Option
    <3>4. Unread'
      BY <3>2, <3>3 DEF Unread
    <3> QED BY <2>2, <2>5, <2>7, <3>1, <3>4 DEF FInv
  <2>10. CASE gc.cb = "none"
    <3>1. Unread'
      BY <1>1, <2>4, <2>10 DEF Unread
    <3> QED BY <2>2, <2>4, <2>7, <2>10, <3>1 DEF FInv
  <2> QED BY <2>3, <2>8, <2>9, <2>10
<1> QED BY <1>2, <1>3

LEMMA ReadRequestOptions ==
  ASSUME FInv, IInv, NEW i \in Ids, ReadRequest(i)
  PROVE  FInv'
<1>1. IsSeq(confirms)
  BY DEF IInv, Shape
<1>2. PICK r : r = Head(slave[chan[i].slave].out)
  OBVIOUS
<1>3. \/ OpenFwd(i, r.fwd) /\ over' = over /\ cancelled' = cancelled
      \/ CloseFwd(i, r.fwd) /\ over' = over
      \/ /\ forwards' = forwards /\ confirms' = confirms /\ cancelled' = cancelled
         /\ over' = over \/ over' = "quit"
  <2>1. \/ r.type = "OPEN_FWD" \/ r.type = "CLOSE_FWD" \/ r.type = "NEW_SESSION"
        \/ r.type = "STOP" \/ r.type = "TERMINATE"
    <3>1. Running /\ MayRead(chan[i]) /\ Its(i).out # <<>> /\ r = Head(Its(i).out)
      BY <1>2 DEF ReadRequest, Its
    <3>2. Its(i) \in Slave
      BY <3>1, RequestRead
    <3>3. Its(i).out \in Seq(Requests)
      BY <3>2 DEF Slave
    <3>4. r \in Requests
      BY <3>1, <3>3
    <3> QED BY <3>4, RequestType
  <2> QED BY <1>2, <2>1 DEF ReadRequest, tables, history
<1> QED BY <1>1, <1>3, OpenFwdOptions, CloseFwdOptions, SameTables

LEMMA ClientInputOptions ==
  ASSUME FInv, IInv, ClientInput
  PROVE  FInv'
<1>1. PICK m : m = Head(toClient)
  OBVIOUS
<1>2. Running /\ cancelled' = cancelled
  BY DEF ClientInput
<1>3. CASE m.type = "REPLY"
  <2>1. GlobalRequestReply(m)
    BY <1>1, <1>3 DEF ClientInput
  <2> QED BY <1>2, <2>1, ReplyOptions
<1>4. CASE m.type # "REPLY"
  <2>1. forwards' = forwards /\ confirms' = confirms
    BY <1>1, <1>4 DEF ClientInput, tables
  <2>2. over' = over \/ over' \in {"no_control_channel", "tty_failed"}
    BY <1>1, <1>4 DEF ClientInput, SessionConfirm, ExitStatus, TtyFailed, Forwarded
  <2> QED BY <1>2, <2>1, <2>2, SameTables
<1> QED BY <1>3, <1>4

LEMMA NextOptions == FInv /\ IInv /\ [Next]_vars => FInv'
<1> SUFFICES ASSUME FInv, IInv, [Next]_vars PROVE FInv'
  OBVIOUS
<1>1. ASSUME NEW s \in Slaves, SlaveStep(s) PROVE FInv'
  <2>1. forwards' = forwards /\ confirms' = confirms /\ cancelled' = cancelled /\ over' = over
    BY <1>1 DEF SlaveStep, Connect, SlaveReads, SlaveEof, Kill, tables, history
  <2> QED BY <2>1, SameTables
<1>2. ASSUME NEW i \in Ids, ControlStep(i) PROVE FInv'
  <2>1. CASE ReadRequest(i)
    BY <2>1, ReadRequestOptions
  <2>2. CASE ReadEof(i) \/ WriteOut(i) \/ Drained(i) \/ FreeSession(i)
    <3>1. forwards' = forwards /\ confirms' = confirms /\ cancelled' = cancelled
      BY <2>2 DEF ReadEof, WriteOut, Drained, FreeSession, tables, history
    <3>2. over' = over \/ over' \in {"no_session_channel", "no_control_channel"}
      BY <2>2 DEF ReadEof, WriteOut, Drained, FreeSession, FreeControl
    <3> QED BY <3>1, <3>2, SameTables
  <2> QED BY <1>2, <2>1, <2>2 DEF ControlStep
<1>3. ASSUME NEW j \in Ids, ProgramEnds(j) PROVE FInv'
  BY <1>3, SameTables DEF ProgramEnds, tables, history
<1>4. CASE ServerAliveCheck
  <2>1. forwards' = forwards /\ cancelled' = cancelled /\ over' = over /\ confirms' = Placeholder(confirms)
    BY <1>4 DEF ServerAliveCheck, history
  <2>2. IsSeq(confirms) /\ Options /\ Targets /\ Unread
    BY DEF IInv, Shape, FInv
  <2>3. PICK gc : /\ confirms' = Register(confirms, gc) /\ gc.cb = "none"
                  /\ "cb" \in DOMAIN gc /\ "fid" \in DOMAIN gc
    BY <2>1 DEF Placeholder
  <2>4. Target(gc)
    BY <2>3 DEF Target
  <2>5. Targets'
    BY <2>2, <2>3, <2>4, TargetsRegister
  <2> QED BY <2>1, <2>2, <2>5 DEF FInv, Options, Unread
<1>5. CASE ServerInput
  BY <1>5, SameTables DEF ServerInput, tables, history
<1>6. CASE Arrive
  BY <1>6, SameTables DEF Arrive, tables, history
<1>7. CASE Exit
  BY <1>7, SameTables DEF Exit, tables, history
<1>8. CASE UNCHANGED vars
  BY <1>8, SameTables DEF vars, tables, history
<1> QED BY <1>1, <1>2, <1>3, <1>4, <1>5, <1>6, <1>7, <1>8, ClientInputOptions DEF Next

LEMMA InitOptions == FixedPorts /\ Init => FInv
<1> SUFFICES ASSUME FixedPorts, Init PROVE FInv
  OBVIOUS
<1>1. InitFwds \in Seq([port : Nat, dest : STRING])
  BY MuxAssumption
<1>2. forwards = [k \in DOMAIN InitFwds |->
        [port |-> InitFwds[k].port, dest |-> InitFwds[k].dest, alloc |-> 0, handle |-> k, nr |-> k]]
  BY DEF Init
<1>3. IsSeq(forwards) /\ DOMAIN forwards = DOMAIN InitFwds
  <2> DEFINE R == {forwards[k] : k \in DOMAIN forwards}
  <2>1. PICK n \in Nat : DOMAIN InitFwds = 1..n
    BY <1>1
  <2>2. DOMAIN forwards = 1..n /\ forwards = [k \in 1..n |-> forwards[k]]
    BY <1>2, <2>1
  <2>3. \A k \in 1..n : forwards[k] \in R
    BY <2>2
  <2> HIDE DEF R
  <2>4. forwards \in [1..n -> R]
    BY <2>2, <2>3
  <2>5. forwards \in Seq(R)
    BY <2>4
  <2> QED BY <2>1, <2>2, <2>5 DEF IsSeq, R
<1>4. \A k \in DOMAIN InitFwds : Option(forwards[k], k, cancelled)
  BY <1>2 DEF Option, FixedPorts
<1>5. Targets
  BY DEF Init, Targets, Target
<1>6. Unread
  BY DEF Init, Unread
<1> QED BY <1>3, <1>4, <1>5, <1>6 DEF FInv, Options

\* For a master whose own -R options name their ports: however slaves are killed
\* and channel numbers used again, no callback of the master meets its fatal() on
\* a channel that is missing or does not wait (mux_confirm_remote_forward,
\* mux_session_confirm, the two cleanup callbacks), and ssh_confirm_remote_forward
\* looks in vain for a port only after a slave has cancelled one of the options.
THEOREM MasterNeverFatal == FixedPorts => (Spec => []MasterSurvives)
<1> SUFFICES ASSUME FixedPorts PROVE Spec => []MasterSurvives
  OBVIOUS
<1>1. Init => FInv
  BY InitOptions
<1>2. IInv /\ FInv => MasterSurvives
  BY DEF IInv, FInv, Survives, Unread, MasterSurvives
<1> QED BY <1>1, <1>2, MuxInvariant, NextOptions, PTL DEF Spec
=============================================================================
