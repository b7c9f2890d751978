--------------------------- MODULE ChannelsProofs ---------------------------
(***************************************************************************)
(* Proofs about Channels, for any number of channel ids, sessions and      *)
(* openings.                                                               *)
(*                                                                         *)
(* Each end names the channel of the other by a number that it was told    *)
(* once (rid) and uses it until its CLOSE is sent, while the other end may *)
(* free the slot and give it to a new channel.  That a number is never     *)
(* used for the wrong channel depends on what is in flight, so none of the *)
(* properties is inductive: the invariant IInv says, for each message of   *)
(* each queue, which channel it is for and what may follow it (Addressed,  *)
(* Offered, Confirmed, Refused, Closed, Ended), and for each channel,      *)
(* what its peer is and what has been said to it (Linked, Opening).  SInv  *)
(* ties the sessions of the server to their channels and to the children   *)
(* whose exit status is still to be sent.                                  *)
(*                                                                         *)
(* The elementary steps (a message read, a message sent, a channel         *)
(* changed, freed, offered, accepted, refused, confirmed) come first, each *)
(* with the condition under which it keeps the network invariant NInv;     *)
(* every action is then put together from them.                            *)
(***************************************************************************)
EXTENDS Channels, SequenceTheorems, FiniteSetTheorems, TLAPS

\* The states of one half of a channel (nchan.c).
Halves == {"OPEN", "WAIT_DRAIN", "CLOSED"}

\* A channel in use; Packet: a message on its way.  Both without bounds on the counters.
Channel ==
  [type : Types, ctype : {"session", "tcp"}, rid : Ids \cup {-1}, gen : Nat,
   istate : Halves, ostate : Halves,
   EOF_SENT : BOOLEAN, EOF_RCVD : BOOLEAN, CLOSE_SENT : BOOLEAN, CLOSE_RCVD : BOOLEAN,
   user : BOOLEAN, detach_close : BOOLEAN, confirm : BOOLEAN, rwin : BOOLEAN,
   input : Nat, output : Nat, pipe : Nat, weof : BOOLEAN,
   efd : BOOLEAN, ext : Nat, epipe : Nat]

Packet == [to : Ids \cup {-1}, kind : Kinds, gen : Nat, sid : Ids, n : Nat]

\* Messages that may find no channel: the keep-alive and what the client answers to it.
Noise(e, m) == m.kind = "KEEPALIVE" \/ (e = "S" /\ m.kind = "FAILURE")
\* Messages that ask for a channel, that answer such a request, and that carry bytes.
Offer(m) == m.kind \in {"OPEN_session", "OPEN_tcp"}
Reply(m) == m.kind \in {"CONFIRM", "OPEN_FAILURE"}
Bytes(m) == m.kind \in {"DATA", "EXTENDED_DATA"}

\* Everything belongs to a channel that was opened before.
Typed(ch, nt, op) ==
  /\ ch \in [Ends -> [Ids -> Channel \cup {Free}]]
  /\ nt \in [Ends -> Seq(Packet)]
  /\ op \in Nat
  /\ \A e \in Ends, i \in Ids : ch[e][i] # Free => ch[e][i].gen \in 1..op
  /\ \A e \in Ends : \A k \in DOMAIN nt[e] : nt[e][k].gen \in 1..op

\* What the type of a channel says of its other fields.
Shape(e, c) ==
  /\ c.type \in {"OPENING", "CONNECTING"} =>
       /\ c.istate = "OPEN" /\ c.ostate = "OPEN" /\ ~c.EOF_RCVD /\ ~c.CLOSE_RCVD
  /\ c.type = "LARVAL" => /\ e = "S" /\ c.ctype = "session" /\ ~c.detach_close
                          /\ c.CLOSE_SENT => c.CLOSE_RCVD
  /\ c.type = "CONNECTING" => c.ctype = "tcp"
  /\ c.type \in {"OPENING", "ZOMBIE"} /\ c.ctype = "session" => e = "C"
  /\ c.user <=> c.ctype = "session"
  /\ c.type \in {"CONNECTING", "LARVAL", "OPEN"} => c.rid \in Ids
  /\ c.CLOSE_SENT => BothClosed(c)
  /\ c.EOF_SENT => c.istate = "CLOSED"

Shaped(ch) == \A e \in Ends, i \in Ids : ch[e][i] # Free => Shape(e, ch[e][i])

\* One end of a connection is one slot.
OneEach(ch) ==
  \A e \in Ends, i, j \in Ids :
    ch[e][i] # Free /\ ch[e][j] # Free /\ ch[e][i].gen = ch[e][j].gen => i = j

\* Message m in flight to e is for a channel that takes it.
Delivers(ch, e, m) ==
  /\ m.to \in Ids /\ ch[e][m.to] # Free /\ ch[e][m.to].gen = m.gen
  /\ ~ch[e][m.to].CLOSE_RCVD
  /\ ch[e][m.to].type \in {"OPENING", "LARVAL", "OPEN"}
  /\ Reply(m) => ch[e][m.to].type = "OPENING"

\* Whatever is in flight, offers and noise apart, finds the channel it was sent to.
Addressed(ch, nt) ==
  \A e \in Ends : \A k \in DOMAIN nt[e] :
    ~Noise(e, nt[e][k]) /\ ~Offer(nt[e][k]) => Delivers(ch, e, nt[e][k])

\* End e has no channel g; nothing but noise is in flight to e for g; message k is alone.
Absent(ch, e, g) == \A j \in Ids : ch[e][j] # Free => ch[e][j].gen # g
Quiet(nt, e, g) == \A k \in DOMAIN nt[e] : nt[e][k].gen = g => Noise(e, nt[e][k])
Alone(nt, e, k) ==
  \A j \in DOMAIN nt[e] : j # k /\ nt[e][j].gen = nt[e][k].gen => Noise(e, nt[e][j])

\* The channel that offer m to e comes from.
Offers(ch, e, m) ==
  /\ m.to = -1 /\ m.sid \in Ids /\ (m.kind = "OPEN_session" => e = "S")
  /\ ch[Peer(e)][m.sid] # Free
  /\ ch[Peer(e)][m.sid].type = "OPENING" /\ ch[Peer(e)][m.sid].gen = m.gen
  /\ Absent(ch, e, m.gen)

\* An offer is all there is of its channel, besides the slot that waits for the answer.
Offered(ch, nt) ==
  \A e \in Ends : \A k \in DOMAIN nt[e] : Offer(nt[e][k]) =>
    /\ Offers(ch, e, nt[e][k])
    /\ Alone(nt, e, k)
    /\ Quiet(nt, Peer(e), nt[e][k].gen)

\* No CLOSE for g is in flight to e.
NoClose(nt, e, g) == \A k \in DOMAIN nt[e] : nt[e][k].gen = g => nt[e][k].kind # "CLOSE"

\* Where channel c of end e leads, while e may still write to it.
Reaches(ch, nt, e, c) ==
  /\ c.rid \in Ids /\ ch[Peer(e)][c.rid] # Free /\ ch[Peer(e)][c.rid].gen = c.gen
  /\ ~ch[Peer(e)][c.rid].CLOSE_RCVD
  /\ ch[Peer(e)][c.rid].type \in {"OPENING", "LARVAL", "OPEN"}
  /\ c.type = "CONNECTING" => ch[Peer(e)][c.rid].type = "OPENING" /\ Quiet(nt, Peer(e), c.gen)
  /\ c.type # "CONNECTING" /\ ch[Peer(e)][c.rid].type = "OPENING" =>
       \E k \in DOMAIN nt[Peer(e)] : nt[Peer(e)][k].gen = c.gen /\ nt[Peer(e)][k].kind = "CONFIRM"
  /\ NoClose(nt, Peer(e), c.gen)

\* A channel that has not sent its CLOSE has a peer that still takes messages.
Linked(ch, nt) ==
  \A e \in Ends, i \in Ids :
    ch[e][i] # Free /\ ch[e][i].type \in {"CONNECTING", "LARVAL", "OPEN"} /\ ~ch[e][i].CLOSE_SENT =>
      Reaches(ch, nt, e, ch[e][i])

\* End e has been told nothing of g but the offer.
Silent(ch, nt, e, g) ==
  /\ \A k \in DOMAIN nt[e] : nt[e][k].gen = g => Offer(nt[e][k]) \/ Noise(e, nt[e][k])
  /\ \A i \in Ids : ch[e][i] # Free /\ ch[e][i].gen = g => ~ch[e][i].CLOSE_RCVD

\* CONFIRM comes before anything else that is said of channel g.
ConfirmFirst(nt, e, g) ==
  \A k \in DOMAIN nt[e] :
    nt[e][k].gen = g /\ ~Noise(e, nt[e][k]) /\ ~Reply(nt[e][k]) =>
      \E j \in DOMAIN nt[e] : j < k /\ nt[e][j].gen = g /\ nt[e][j].kind = "CONFIRM"

\* A channel that waits for the answer to its offer has said nothing, and hears the answer first.
Opening(ch, nt) ==
  \A e \in Ends, i \in Ids : ch[e][i] # Free /\ ch[e][i].type = "OPENING" =>
    Silent(ch, nt, Peer(e), ch[e][i].gen) /\ ConfirmFirst(nt, e, ch[e][i].gen)

\* The channel that CONFIRM m to e was sent for.
Confirms(ch, e, m) ==
  /\ m.sid \in Ids /\ ch[Peer(e)][m.sid] # Free /\ ch[Peer(e)][m.sid].gen = m.gen
  /\ ch[Peer(e)][m.sid].type \in {"LARVAL", "OPEN"}

\* Message k is the only answer to its offer.
OnlyReply(nt, e, k) ==
  \A j \in DOMAIN nt[e] : j # k /\ nt[e][j].gen = nt[e][k].gen => ~Reply(nt[e][j])

\* A CONFIRM in flight comes from a channel that exists, and nothing answers twice.
Confirmed(ch, nt) ==
  \A e \in Ends : \A k \in DOMAIN nt[e] : nt[e][k].kind = "CONFIRM" =>
    Confirms(ch, e, nt[e][k]) /\ OnlyReply(nt, e, k)

\* A refusal in flight is all there is of its channel, besides the slot that waits.
Refused(ch, nt) ==
  \A e \in Ends : \A k \in DOMAIN nt[e] : nt[e][k].kind = "OPEN_FAILURE" =>
    Absent(ch, Peer(e), nt[e][k].gen) /\ Alone(nt, e, k)

\* Nothing but keep-alives follows CLOSE, in the queue or after its arrival.
Closed(ch, nt) ==
  \A e \in Ends :
    /\ \A j, k \in DOMAIN nt[e] :
         j < k /\ nt[e][j].kind = "CLOSE" /\ nt[e][k].gen = nt[e][j].gen => nt[e][k].kind = "KEEPALIVE"
    /\ \A i \in Ids : ch[e][i] # Free /\ ch[e][i].CLOSE_RCVD =>
         \A k \in DOMAIN nt[e] : nt[e][k].gen = ch[e][i].gen => nt[e][k].kind = "KEEPALIVE"

\* No EOF for g is in flight to e or has arrived.
NoEof(ch, nt, e, g) ==
  /\ \A k \in DOMAIN nt[e] : nt[e][k].gen = g => nt[e][k].kind # "EOF"
  /\ \A i \in Ids : ch[e][i] # Free /\ ch[e][i].gen = g => ~ch[e][i].EOF_RCVD

\* Bytes never follow EOF, in the queue or after its arrival.
Ended(ch, nt) ==
  \A e \in Ends :
    /\ \A i \in Ids : ch[e][i] # Free /\ ~ch[e][i].EOF_SENT => NoEof(ch, nt, Peer(e), ch[e][i].gen)
    /\ \A j, k \in DOMAIN nt[e] :
         j < k /\ nt[e][j].kind = "EOF" /\ nt[e][k].gen = nt[e][j].gen => ~Bytes(nt[e][k])
    /\ \A i \in Ids : ch[e][i] # Free /\ ch[e][i].EOF_RCVD =>
         \A k \in DOMAIN nt[e] : nt[e][k].gen = ch[e][i].gen => ~Bytes(nt[e][k])

\* The network invariant: the tables of both ends and the queues between them.
NInv(ch, nt, op) ==
  /\ Typed(ch, nt, op)
  /\ Shaped(ch) /\ OneEach(ch)
  /\ Addressed(ch, nt) /\ Offered(ch, nt) /\ Linked(ch, nt) /\ Opening(ch, nt)
  /\ Confirmed(ch, nt) /\ Refused(ch, nt) /\ Closed(ch, nt) /\ Ended(ch, nt)

\* A slot of the table of sessions; the history of a channel at one end.
Session == [chanid : Ids \cup {-1}, pid : {"none", "running", "dead"}]
Log == [wrote : Nat, read : Nat, cut : BOOLEAN, child : {"none", "started", "reported"}]

\* The session invariant: sessions, their channels, and the children whose status is owed.
SInv(ch, se, hi) ==
  /\ se \in [Sids -> Session]
  /\ hi \in [Ends -> [Gens -> Log]]
  /\ \A s \in Sids : se[s].chanid = -1 => se[s].pid = "none"
  /\ \A s \in Sids : se[s].chanid # -1 =>
       ch["S"][se[s].chanid] # Free /\ ch["S"][se[s].chanid].ctype = "session"
  /\ \A s, t \in Sids : se[s].chanid = se[t].chanid /\ se[s].chanid # -1 => s = t
  /\ \A i \in Ids : ch["S"][i] # Free /\ ch["S"][i].ctype = "session" =>
       \E s \in Sids : se[s].chanid = i
  /\ \A s \in Sids : se[s].pid # "none" =>
       /\ ch["S"][se[s].chanid].type = "OPEN"
       /\ ~ch["S"][se[s].chanid].detach_close /\ ~ch["S"][se[s].chanid].CLOSE_SENT
  /\ \A g \in Gens : hi["S"][g].child = "started" =>
       \E s \in Sids : /\ se[s].chanid # -1 /\ se[s].pid # "none"
                       /\ ch["S"][se[s].chanid].gen = g

\* The inductive invariant.
IInv == /\ NInv(chan, net, opens) /\ opens <= MaxOpens
        /\ SInv(chan, sess, hist)
        /\ over \in {"no", "exit"}

-----------------------------------------------------------------------------
(* The two ends, the queues and the tables.                                *)

\* There are two ends.
LEMMA PeerFacts ==
  /\ \A e \in Ends : Peer(e) \in Ends /\ Peer(e) # e /\ Peer(Peer(e)) = e
  /\ \A e, f \in Ends : f # e => f = Peer(e)
BY DEF Ends, Peer

\* Queue b is queue a with m at the end.
Grown(a, b, m) ==
  /\ \A k \in DOMAIN a : k \in DOMAIN b /\ b[k] = a[k] /\ k < Len(a) + 1
  /\ \A k \in DOMAIN b : k \in DOMAIN a \/ (k = Len(a) + 1 /\ b[k] = m)
  /\ Len(a) + 1 \in DOMAIN b /\ b[Len(a) + 1] = m

\* Queue b is queue a without its head.
Shrunk(a, b) ==
  /\ \A k \in DOMAIN b : k + 1 \in DOMAIN a /\ k + 1 # 1 /\ b[k] = a[k + 1]
  /\ \A k \in DOMAIN a : k # 1 => k - 1 \in DOMAIN b /\ b[k - 1] = a[k]

\* A message is appended to a queue.
LEMMA PushFacts ==
  ASSUME NEW nt \in [Ends -> Seq(Packet)], NEW e \in Ends, NEW m \in Packet
  PROVE  LET nt2 == [nt EXCEPT ![e] = Append(@, m)] IN
         /\ nt2 \in [Ends -> Seq(Packet)]
         /\ Grown(nt[e], nt2[e], m)
         /\ \A f \in Ends : f # e => nt2[f] = nt[f]
<1> DEFINE q == nt[e]
<1>1. q \in Seq(Packet)
  OBVIOUS
<1> HIDE DEF q
<1>2. Append(q, m) \in Seq(Packet) /\ Grown(q, Append(q, m), m)
  BY <1>1 DEF Grown
<1> QED BY <1>1, <1>2 DEF q

\* A message is taken off a queue.
LEMMA PopFacts ==
  ASSUME NEW nt \in [Ends -> Seq(Packet)], NEW e \in Ends, nt[e] # <<>>
  PROVE  LET nt2 == [nt EXCEPT ![e] = Tail(@)] IN
         /\ nt2 \in [Ends -> Seq(Packet)]
         /\ 1 \in DOMAIN nt[e] /\ Head(nt[e]) = nt[e][1] /\ nt[e][1] \in Packet
         /\ Shrunk(nt[e], nt2[e])
         /\ \A f \in Ends : f # e => nt2[f] = nt[f]
<1> DEFINE q == nt[e]
<1>1. q \in Seq(Packet) /\ q # <<>>
  OBVIOUS
<1> HIDE DEF q
<1>2. Len(q) \in Nat /\ Len(q) # 0
  BY <1>1
<1>3. Tail(q) \in Seq(Packet) /\ Shrunk(q, Tail(q)) /\ 1 \in DOMAIN q /\ Head(q) = q[1] /\ q[1] \in Packet
  BY <1>1, <1>2 DEF Shrunk
<1> QED BY <1>1, <1>3 DEF q

\* Slot i of end e of the table is set to x.
Put(ch, ch2, e, i, x) ==
  /\ ch2 \in [Ends -> [Ids -> Channel \cup {Free}]]
  /\ ch2[e][i] = x
  /\ \A f \in Ends, j \in Ids : f # e \/ j # i => ch2[f][j] = ch[f][j]

\* Writing one slot of a table.
LEMMA PutFacts ==
  ASSUME NEW ch \in [Ends -> [Ids -> Channel \cup {Free}]], NEW e \in Ends, NEW i \in Ids,
         NEW x \in Channel \cup {Free}
  PROVE  Put(ch, [ch EXCEPT ![e][i] = x], e, i, x)
BY DEF Put

\* A channel in use is not a free slot.
LEMMA UsedFacts ==
  ASSUME NEW c \in Channel
  PROVE  c # Free /\ c.type # "FREE"
<1>1. c.type \in Types
  BY DEF Channel
<1> QED BY <1>1 DEF Types, Free

-----------------------------------------------------------------------------
(* What the elementary steps do to the network invariant.                  *)

\* A message other than CONFIRM leaves the queue.
LEMMA PopKeeps ==
  ASSUME NEW ch, NEW nt, NEW op, NEW e \in Ends,
         NInv(ch, nt, op), nt[e] # <<>>, nt[e][1].kind # "CONFIRM"
  PROVE  NInv(ch, [nt EXCEPT ![e] = Tail(@)], op)
<1> DEFINE nt2 == [nt EXCEPT ![e] = Tail(@)]
<1>0. nt \in [Ends -> Seq(Packet)]
  BY DEF NInv, Typed
<1>1. /\ nt2 \in [Ends -> Seq(Packet)]
      /\ Shrunk(nt[e], nt2[e])
      /\ \A f \in Ends : f # e => nt2[f] = nt[f]
  BY <1>0, PopFacts
<1> HIDE DEF nt2
\* Every message left was there before, in the same order.
<1>2. \A f \in Ends : \A k \in DOMAIN nt2[f] :
        \E l \in DOMAIN nt[f] : l = (IF f = e THEN k + 1 ELSE k) /\ nt2[f][k] = nt[f][l]
  BY <1>1 DEF Shrunk
<1>3. \A f \in Ends : \A l \in DOMAIN nt[f] : nt[f][l].kind = "CONFIRM" =>
        \E k \in DOMAIN nt2[f] : k = (IF f = e THEN l - 1 ELSE l) /\ nt2[f][k] = nt[f][l]
  BY <1>1 DEF Shrunk
<1>4. \A f \in Ends : DOMAIN nt2[f] \subseteq Int /\ DOMAIN nt[f] \subseteq Int
  BY <1>0, <1>1
<1>t. Typed(ch, nt2, op)
  BY <1>1, <1>2 DEF NInv, Typed
<1>a. Addressed(ch, nt2)
  BY <1>2 DEF NInv, Addressed
<1>5. \A f \in Ends : \A g : /\ Quiet(nt, f, g) => Quiet(nt2, f, g)
                             /\ NoClose(nt, f, g) => NoClose(nt2, f, g)
                             /\ Silent(ch, nt, f, g) => Silent(ch, nt2, f, g)
                             /\ NoEof(ch, nt, f, g) => NoEof(ch, nt2, f, g)
  BY <1>2 DEF Quiet, NoClose, Silent, NoEof
<1>6. \A f \in Ends : \A k \in DOMAIN nt2[f], l \in DOMAIN nt[f] :
        l = (IF f = e THEN k + 1 ELSE k) =>
          /\ Alone(nt, f, l) => Alone(nt2, f, k)
          /\ OnlyReply(nt, f, l) => OnlyReply(nt2, f, k)
  <2> SUFFICES ASSUME NEW f \in Ends, NEW k \in DOMAIN nt2[f], NEW l \in DOMAIN nt[f],
                      l = (IF f = e THEN k + 1 ELSE k)
               PROVE  /\ Alone(nt, f, l) => Alone(nt2, f, k)
                      /\ OnlyReply(nt, f, l) => OnlyReply(nt2, f, k)
    OBVIOUS
  <2>1. nt2[f][k] = nt[f][l]
    BY <1>2
  <2>2. \A j \in DOMAIN nt2[f] : j # k => \E n \in DOMAIN nt[f] : n # l /\ nt2[f][j] = nt[f][n]
    BY <1>2, <1>4
  <2> QED BY <2>1, <2>2 DEF Alone, OnlyReply
<1>7. \A f \in Ends : \A g : ConfirmFirst(nt, f, g) => ConfirmFirst(nt2, f, g)
  <2> SUFFICES ASSUME NEW f \in Ends, NEW g, ConfirmFirst(nt, f, g), NEW k \in DOMAIN nt2[f],
                      nt2[f][k].gen = g, ~Noise(f, nt2[f][k]), ~Reply(nt2[f][k])
               PROVE  \E j \in DOMAIN nt2[f] : j < k /\ nt2[f][j].gen = g /\ nt2[f][j].kind = "CONFIRM"
    BY DEF ConfirmFirst
  <2>1. PICK l \in DOMAIN nt[f] : l = (IF f = e THEN k + 1 ELSE k) /\ nt2[f][k] = nt[f][l]
    BY <1>2
  <2>2. PICK n \in DOMAIN nt[f] : n < l /\ nt[f][n].gen = g /\ nt[f][n].kind = "CONFIRM"
    BY <2>1 DEF ConfirmFirst
  <2>3. PICK j \in DOMAIN nt2[f] : j = (IF f = e THEN n - 1 ELSE n) /\ nt2[f][j] = nt[f][n]
    BY <1>3, <2>2
  <2> QED BY <2>1, <2>2, <2>3, <1>4
<1>o. Offered(ch, nt2)
  <2> SUFFICES ASSUME NEW f \in Ends, NEW k \in DOMAIN nt2[f], Offer(nt2[f][k])
               PROVE  /\ Offers(ch, f, nt2[f][k])
                      /\ Alone(nt2, f, k)
                      /\ Quiet(nt2, Peer(f), nt2[f][k].gen)
    BY DEF Offered
  <2>1. PICK l \in DOMAIN nt[f] : l = (IF f = e THEN k + 1 ELSE k) /\ nt2[f][k] = nt[f][l]
    BY <1>2
  <2>2. Offers(ch, f, nt[f][l]) /\ Alone(nt, f, l) /\ Quiet(nt, Peer(f), nt[f][l].gen)
    BY <2>1 DEF NInv, Offered
  <2>3. Alone(nt2, f, k)
    BY <2>1, <2>2, <1>6
  <2>4. Quiet(nt2, Peer(f), nt[f][l].gen)
    BY <2>2, <1>5, PeerFacts
  <2> QED BY <2>1, <2>2, <2>3, <2>4
<1>l. Linked(ch, nt2)
  BY <1>2, <1>3, PeerFacts DEF NInv, Linked, Reaches, Quiet, NoClose
<1>p. Opening(ch, nt2)
  <2> SUFFICES ASSUME NEW f \in Ends, NEW i \in Ids, ch[f][i] # Free, ch[f][i].type = "OPENING"
               PROVE  Silent(ch, nt2, Peer(f), ch[f][i].gen) /\ ConfirmFirst(nt2, f, ch[f][i].gen)
    BY DEF Opening
  <2>1. Silent(ch, nt, Peer(f), ch[f][i].gen) /\ ConfirmFirst(nt, f, ch[f][i].gen)
    BY DEF NInv, Opening
  <2> QED BY <2>1, <1>5, <1>7, PeerFacts
<1>c. Confirmed(ch, nt2)
  BY <1>2, <1>6 DEF NInv, Confirmed
<1>r. Refused(ch, nt2)
  BY <1>2, <1>6 DEF NInv, Refused
<1>z. Closed(ch, nt2)
  BY SMTT(30), <1>2, <1>4 DEF NInv, Closed
<1>f. Ended(ch, nt2)
  BY SMTT(30), <1>2, <1>4, PeerFacts DEF NInv, Ended, NoEof
<1> QED BY <1>t, <1>a, <1>o, <1>l, <1>p, <1>c, <1>r, <1>z, <1>f DEF NInv, nt2

\* Channel c of end e, in slot i, may say m.
MaySay(ch, nt, e, i, m) ==
  /\ ch[e][i] # Free /\ ch[e][i].type \in {"LARVAL", "OPEN"}
  /\ Reaches(ch, nt, e, ch[e][i])
  /\ m \in Packet /\ m.gen = ch[e][i].gen /\ m.to = ch[e][i].rid
  /\ ~Noise(Peer(e), m) /\ ~Offer(m) /\ ~Reply(m)
  /\ m.kind = "CLOSE" => ch[e][i].CLOSE_SENT
  /\ m.kind = "EOF" => ch[e][i].EOF_SENT
  /\ Bytes(m) => NoEof(ch, nt, Peer(e), ch[e][i].gen)

\* A channel says something it may say.
LEMMA PushKeeps ==
  ASSUME NEW ch, NEW nt, NEW op, NEW e \in Ends, NEW i \in Ids, NEW m,
         NInv(ch, nt, op), MaySay(ch, nt, e, i, m)
  PROVE  LET nt2 == [nt EXCEPT ![Peer(e)] = Append(@, m)] IN
         /\ NInv(ch, nt2, op)
         /\ m.kind # "CLOSE" => Reaches(ch, nt2, e, ch[e][i])
         /\ m.kind # "EOF" /\ NoEof(ch, nt, Peer(e), ch[e][i].gen) =>
              NoEof(ch, nt2, Peer(e), ch[e][i].gen)
<1> DEFINE p == Peer(e)
           c == ch[e][i]
           nt2 == [nt EXCEPT ![p] = Append(@, m)]
<1>0. nt \in [Ends -> Seq(Packet)] /\ p \in Ends /\ p # e /\ Peer(p) = e
  BY PeerFacts DEF NInv, Typed
<1>1. /\ nt2 \in [Ends -> Seq(Packet)]
      /\ Grown(nt[p], nt2[p], m)
      /\ \A f \in Ends : f # p => nt2[f] = nt[f]
  BY <1>0, PushFacts DEF MaySay
<1> HIDE DEF nt2
<1>2. /\ \A f \in Ends : \A k \in DOMAIN nt[f] : k \in DOMAIN nt2[f] /\ nt2[f][k] = nt[f][k]
      /\ \A f \in Ends : \A k \in DOMAIN nt2[f] :
           (k \in DOMAIN nt[f] /\ nt2[f][k] = nt[f][k]) \/ (f = p /\ nt2[f][k] = m)
      /\ \A k \in DOMAIN nt2[p] : k \notin DOMAIN nt[p] => \A j \in DOMAIN nt[p] : j < k
      /\ \A j, k \in DOMAIN nt2[p] : k \notin DOMAIN nt[p] /\ j \notin DOMAIN nt[p] => j = k
      /\ \A f \in Ends : f = p \/ f = e
  BY <1>0, <1>1, PeerFacts DEF Grown
<1>3. \A f \in Ends : DOMAIN nt2[f] \subseteq Int /\ DOMAIN nt[f] \subseteq Int
  BY <1>0, <1>1
<1>4. /\ c # Free /\ c.type \in {"LARVAL", "OPEN"} /\ m.gen = c.gen /\ m.to = c.rid
      /\ ~Noise(p, m) /\ ~Offer(m) /\ ~Reply(m)
      /\ m.kind = "CLOSE" => c.CLOSE_SENT
      /\ m.kind = "EOF" => c.EOF_SENT
      /\ Bytes(m) => NoEof(ch, nt, p, c.gen)
      /\ c.rid \in Ids /\ ch[p][c.rid] # Free /\ ch[p][c.rid].gen = c.gen
      /\ ~ch[p][c.rid].CLOSE_RCVD
      /\ ch[p][c.rid].type \in {"OPENING", "LARVAL", "OPEN"}
      /\ ch[p][c.rid].type = "OPENING" =>
           \E k \in DOMAIN nt[p] : nt[p][k].gen = c.gen /\ nt[p][k].kind = "CONFIRM"
      /\ NoClose(nt, p, c.gen)
  BY DEF MaySay, Reaches
<1>5. \A j \in Ids : ch[e][j] # Free /\ ch[e][j].gen = c.gen => j = i
  BY <1>4 DEF NInv, OneEach
<1>6. \A j \in Ids : ch[p][j] # Free /\ ch[p][j].gen = c.gen => j = c.rid
  BY <1>0, <1>4 DEF NInv, OneEach
<1>t. Typed(ch, nt2, op)
  BY <1>1, <1>2, <1>4 DEF NInv, Typed
<1>a. Addressed(ch, nt2)
  <2>1. Delivers(ch, p, m)
    BY SMTT(30), <1>4 DEF Delivers
  <2> QED BY <1>2, <2>1 DEF NInv, Addressed
\* Nobody offers this channel any more: both ends have it.
<1>7. \A f \in Ends : \A k \in DOMAIN nt[f] : Offer(nt[f][k]) => nt[f][k].gen # c.gen
  BY <1>0, <1>2, <1>4 DEF NInv, Offered, Offers, Absent
<1>8. \A f \in Ends : \A g : g # c.gen /\ Quiet(nt, f, g) => Quiet(nt2, f, g)
  BY <1>2, <1>4 DEF Quiet
<1>9. \A f \in Ends : \A k \in DOMAIN nt[f] : nt[f][k].gen # c.gen /\ Alone(nt, f, k) => Alone(nt2, f, k)
  BY <1>2, <1>4 DEF Alone
<1>o. Offered(ch, nt2)
  <2> SUFFICES ASSUME NEW f \in Ends, NEW k \in DOMAIN nt2[f], Offer(nt2[f][k])
               PROVE  /\ Offers(ch, f, nt2[f][k])
                      /\ Alone(nt2, f, k)
                      /\ Quiet(nt2, Peer(f), nt2[f][k].gen)
    BY DEF Offered
  <2>1. k \in DOMAIN nt[f] /\ nt2[f][k] = nt[f][k] /\ nt[f][k].gen # c.gen
    BY <1>2, <1>4, <1>7
  <2>2. Offers(ch, f, nt[f][k]) /\ Alone(nt, f, k) /\ Quiet(nt, Peer(f), nt[f][k].gen)
    BY <2>1 DEF NInv, Offered
  <2> QED BY <2>1, <2>2, <1>8, <1>9, PeerFacts
<1>l1. m.kind # "CLOSE" => Reaches(ch, nt2, e, c)
  <2>1. m.kind # "CLOSE" => NoClose(nt2, p, c.gen)
    BY <1>0, <1>2, <1>4 DEF NoClose
  <2> QED BY <2>1, <1>2, <1>4, <1>0 DEF Reaches
<1>l. Linked(ch, nt2)
  <2> SUFFICES ASSUME NEW f \in Ends, NEW j \in Ids, ch[f][j] # Free,
                      ch[f][j].type \in {"CONNECTING", "LARVAL", "OPEN"}, ~ch[f][j].CLOSE_SENT
               PROVE  Reaches(ch, nt2, f, ch[f][j])
    BY DEF Linked
  <2>1. Reaches(ch, nt, f, ch[f][j])
    BY DEF NInv, Linked
  <2>2. CASE f = e /\ ch[f][j].gen = c.gen
    BY SMTT(30), <2>2, <1>5, <1>4, <1>l1
  <2>3. CASE f = e /\ ch[f][j].gen # c.gen
    <3>1. NoClose(nt2, p, ch[f][j].gen)
      BY SMTT(30), <2>1, <2>3, <1>0, <1>2, <1>4 DEF NoClose, Reaches
    <3> QED BY SMTT(30), <2>1, <2>3, <3>1, <1>0, <1>2, <1>8 DEF Reaches
  <2>4. CASE f = p
    BY <2>1, <2>4, <1>0, <1>1 DEF Reaches, Quiet, NoClose
  <2> QED BY <2>2, <2>3, <2>4, <1>2
<1>p. Opening(ch, nt2)
  <2> SUFFICES ASSUME NEW f \in Ends, NEW j \in Ids, ch[f][j] # Free, ch[f][j].type = "OPENING"
               PROVE  Silent(ch, nt2, Peer(f), ch[f][j].gen) /\ ConfirmFirst(nt2, f, ch[f][j].gen)
    BY DEF Opening
  <2>1. Silent(ch, nt, Peer(f), ch[f][j].gen) /\ ConfirmFirst(nt, f, ch[f][j].gen)
    BY DEF NInv, Opening
  <2>2. CASE f = e
    <3>1. ch[f][j].gen # c.gen
      BY <2>2, <1>4, <1>5
    <3> QED BY SMTT(30), <2>1, <2>2, <3>1, <1>0, <1>1, <1>2, <1>4 DEF Silent, ConfirmFirst
  <2>3. CASE f = p
    <3>1. Silent(ch, nt2, Peer(f), ch[f][j].gen)
      BY <2>1, <2>3, <1>0, <1>1 DEF Silent
    <3>2. SUFFICES ASSUME NEW k \in DOMAIN nt2[p], nt2[p][k].gen = ch[p][j].gen,
                          ~Noise(p, nt2[p][k]), ~Reply(nt2[p][k])
                   PROVE  \E l \in DOMAIN nt2[p] : /\ l < k /\ nt2[p][l].gen = ch[p][j].gen
                                                   /\ nt2[p][l].kind = "CONFIRM"
      BY <2>3, <3>1 DEF ConfirmFirst
    <3>3. CASE k \in DOMAIN nt[p]
      BY <2>1, <2>3, <3>2, <3>3, <1>2, <1>0 DEF ConfirmFirst
    <3>4. CASE k \notin DOMAIN nt[p]
      <4>1. ch[p][j].gen = c.gen /\ j = c.rid
        BY <3>2, <3>4, <1>0, <1>2, <1>4, <1>6, <2>3
      <4>2. PICK l \in DOMAIN nt[p] : nt[p][l].gen = c.gen /\ nt[p][l].kind = "CONFIRM"
        BY <4>1, <1>4, <2>3
      <4> QED BY <4>1, <4>2, <3>4, <1>0, <1>2
    <3> QED BY <3>3, <3>4
  <2> QED BY <2>2, <2>3, <1>2
<1>c. Confirmed(ch, nt2)
  <2>1. \A f \in Ends : \A k \in DOMAIN nt[f] : OnlyReply(nt, f, k) => OnlyReply(nt2, f, k)
    BY <1>2, <1>4 DEF OnlyReply
  <2> QED BY <1>2, <1>4, <2>1 DEF NInv, Confirmed, Reply
<1>r. Refused(ch, nt2)
  <2>1. \A k \in DOMAIN nt[p] : nt[p][k].kind = "OPEN_FAILURE" => nt[p][k].gen # c.gen
    BY <1>0, <1>4 DEF NInv, Refused, Absent
  <2>2. \A k \in DOMAIN nt[e] : Alone(nt, e, k) => Alone(nt2, e, k)
    BY <1>0, <1>1 DEF Alone
  <2> QED BY <1>2, <1>4, <1>9, <2>1, <2>2 DEF NInv, Refused, Reply
<1>z. Closed(ch, nt2)
  <2>1. \A j, k \in DOMAIN nt2[p] :
         j < k /\ nt2[p][j].kind = "CLOSE" /\ nt2[p][k].gen = nt2[p][j].gen => nt2[p][k].kind = "KEEPALIVE"
    BY <1>0, <1>2, <1>3, <1>4 DEF NInv, Closed, NoClose
  <2>2. \A j \in Ids : ch[p][j] # Free /\ ch[p][j].CLOSE_RCVD =>
         \A k \in DOMAIN nt2[p] : nt2[p][k].gen = ch[p][j].gen => nt2[p][k].kind = "KEEPALIVE"
    BY SMTT(30), <1>0, <1>2, <1>4, <1>6 DEF NInv, Closed
  <2> QED BY <2>1, <2>2, <1>0, <1>1, <1>2 DEF NInv, Closed
<1>f1. m.kind # "EOF" /\ NoEof(ch, nt, p, c.gen) => NoEof(ch, nt2, p, c.gen)
  <2>1. ASSUME m.kind # "EOF", NoEof(ch, nt, p, c.gen), NEW k \in DOMAIN nt2[p], nt2[p][k].gen = c.gen
        PROVE  nt2[p][k].kind # "EOF"
    <3>1. CASE k \in DOMAIN nt[p] /\ nt2[p][k] = nt[p][k]
      BY <2>1, <3>1 DEF NoEof
    <3> QED BY <2>1, <3>1, <1>0, <1>2
  <2> QED BY <2>1 DEF NoEof
<1>f. Ended(ch, nt2)
  <2>1. \A j \in Ids : ch[e][j] # Free /\ ~ch[e][j].EOF_SENT => NoEof(ch, nt2, p, ch[e][j].gen)
    <3> SUFFICES ASSUME NEW j \in Ids, ch[e][j] # Free, ~ch[e][j].EOF_SENT
                 PROVE  NoEof(ch, nt2, p, ch[e][j].gen)
      OBVIOUS
    <3>1. NoEof(ch, nt, p, ch[e][j].gen)
      BY DEF NInv, Ended
    <3>2. CASE ch[e][j].gen = c.gen
      BY <3>1, <3>2, <1>4, <1>5, <1>f1
    <3>3. ASSUME ch[e][j].gen # c.gen, NEW k \in DOMAIN nt2[p], nt2[p][k].gen = ch[e][j].gen
          PROVE  nt2[p][k].kind # "EOF"
      <4>1. k \in DOMAIN nt[p] /\ nt2[p][k] = nt[p][k]
        BY <3>3, <1>0, <1>2, <1>4
      <4> QED BY <4>1, <3>1, <3>3 DEF NoEof
    <3> QED BY <3>1, <3>2, <3>3 DEF NoEof
  <2>2. \A j \in Ids : ch[p][j] # Free /\ ~ch[p][j].EOF_SENT => NoEof(ch, nt2, e, ch[p][j].gen)
    BY SMTT(30), <1>0, <1>1 DEF NInv, Ended, NoEof
  <2>3. \A j, k \in DOMAIN nt2[p] :
         j < k /\ nt2[p][j].kind = "EOF" /\ nt2[p][k].gen = nt2[p][j].gen => ~Bytes(nt2[p][k])
    BY SMTT(30), <1>0, <1>2, <1>3, <1>4 DEF NInv, Ended, NoEof
  <2>4. \A j \in Ids : ch[p][j] # Free /\ ch[p][j].EOF_RCVD =>
         \A k \in DOMAIN nt2[p] : nt2[p][k].gen = ch[p][j].gen => ~Bytes(nt2[p][k])
    BY SMTT(30), <1>0, <1>2, <1>4, <1>6 DEF NInv, Ended, NoEof
  <2> QED BY SMTT(30), <2>1, <2>2, <2>3, <2>4, <1>0, <1>1, <1>2 DEF NInv, Ended
<1> QED BY <1>t, <1>a, <1>o, <1>l, <1>l1, <1>p, <1>c, <1>r, <1>z, <1>f, <1>f1 DEF NInv, nt2

\* A keepalive, or the answer to one, may be said of any channel that has not
\* said CLOSE.
LEMMA NoiseKeeps ==
  ASSUME NEW ch, NEW nt, NEW op, NEW e \in Ends, NEW m \in Packet,
         NInv(ch, nt, op), Noise(e, m), m.gen \in 1..op,
         m.kind # "KEEPALIVE" =>
           /\ NoClose(nt, e, m.gen)
           /\ \A i \in Ids : ch[e][i] # Free /\ ch[e][i].gen = m.gen => ~ch[e][i].CLOSE_RCVD
  PROVE  NInv(ch, [nt EXCEPT ![e] = Append(@, m)], op)
<1> DEFINE nt2 == [nt EXCEPT ![e] = Append(@, m)]
<1>0. nt \in [Ends -> Seq(Packet)]
  BY DEF NInv, Typed
<1>1. /\ nt2 \in [Ends -> Seq(Packet)]
      /\ Grown(nt[e], nt2[e], m)
      /\ \A f \in Ends : f # e => nt2[f] = nt[f]
  BY <1>0, PushFacts
<1> HIDE DEF nt2
<1>2. /\ \A f \in Ends : \A k \in DOMAIN nt[f] : k \in DOMAIN nt2[f] /\ nt2[f][k] = nt[f][k]
      /\ \A f \in Ends : \A k \in DOMAIN nt2[f] :
           (k \in DOMAIN nt[f] /\ nt2[f][k] = nt[f][k]) \/ (f = e /\ k \notin DOMAIN nt[f] /\ nt2[f][k] = m)
      /\ \A k \in DOMAIN nt2[e] : k \notin DOMAIN nt[e] => \A j \in DOMAIN nt[e] : j < k
  BY <1>0, <1>1 DEF Grown
<1>3. \A f \in Ends : DOMAIN nt2[f] \subseteq Int /\ DOMAIN nt[f] \subseteq Int
  BY <1>0, <1>1
<1>4. ~Offer(m) /\ ~Reply(m) /\ ~Bytes(m) /\ m.kind # "CLOSE" /\ m.kind # "EOF" /\ m.kind # "CONFIRM"
      /\ m.kind # "OPEN_FAILURE"
  BY DEF Noise, Offer, Reply, Bytes
<1>5. \A f \in Ends : \A g : /\ Quiet(nt, f, g) => Quiet(nt2, f, g)
                             /\ NoClose(nt, f, g) => NoClose(nt2, f, g)
                             /\ Silent(ch, nt, f, g) => Silent(ch, nt2, f, g)
                             /\ NoEof(ch, nt, f, g) => NoEof(ch, nt2, f, g)
  BY <1>2, <1>4 DEF Quiet, NoClose, Silent, NoEof
<1>6. \A f \in Ends : \A k \in DOMAIN nt[f] : /\ Alone(nt, f, k) => Alone(nt2, f, k)
                                              /\ OnlyReply(nt, f, k) => OnlyReply(nt2, f, k)
  BY <1>2, <1>4 DEF Alone, OnlyReply
<1>7. \A f \in Ends : \A g : ConfirmFirst(nt, f, g) => ConfirmFirst(nt2, f, g)
  BY <1>2, <1>4 DEF ConfirmFirst
<1>t. Typed(ch, nt2, op)
  BY <1>1, <1>2 DEF NInv, Typed
<1>a. Addressed(ch, nt2)
  BY <1>2 DEF NInv, Addressed
<1>o. Offered(ch, nt2)
  <2> SUFFICES ASSUME NEW f \in Ends, NEW k \in DOMAIN nt2[f], Offer(nt2[f][k])
               PROVE  /\ Offers(ch, f, nt2[f][k])
                      /\ Alone(nt2, f, k)
                      /\ Quiet(nt2, Peer(f), nt2[f][k].gen)
    BY DEF Offered
  <2>1. k \in DOMAIN nt[f] /\ nt2[f][k] = nt[f][k]
    BY <1>2, <1>4
  <2>2. Offers(ch, f, nt[f][k]) /\ Alone(nt, f, k) /\ Quiet(nt, Peer(f), nt[f][k].gen)
    BY <2>1 DEF NInv, Offered
  <2> QED BY <2>1, <2>2, <1>5, <1>6, PeerFacts
<1>l. Linked(ch, nt2)
  <2> SUFFICES ASSUME NEW f \in Ends, NEW j \in Ids, ch[f][j] # Free,
                      ch[f][j].type \in {"CONNECTING", "LARVAL", "OPEN"}, ~ch[f][j].CLOSE_SENT
               PROVE  Reaches(ch, nt2, f, ch[f][j])
    BY DEF Linked
  <2>1. Reaches(ch, nt, f, ch[f][j])
    BY DEF NInv, Linked
  <2> QED BY <2>1, <1>2, <1>5, PeerFacts DEF Reaches
<1>p. Opening(ch, nt2)
  <2> SUFFICES ASSUME NEW f \in Ends, NEW i \in Ids, ch[f][i] # Free, ch[f][i].type = "OPENING"
               PROVE  Silent(ch, nt2, Peer(f), ch[f][i].gen) /\ ConfirmFirst(nt2, f, ch[f][i].gen)
    BY DEF Opening
  <2>1. Silent(ch, nt, Peer(f), ch[f][i].gen) /\ ConfirmFirst(nt, f, ch[f][i].gen)
    BY DEF NInv, Opening
  <2> QED BY <2>1, <1>5, <1>7, PeerFacts
<1>c. Confirmed(ch, nt2)
  BY <1>2, <1>4, <1>6 DEF NInv, Confirmed
<1>r. Refused(ch, nt2)
  BY <1>2, <1>4, <1>6 DEF NInv, Refused
<1>z. Closed(ch, nt2)
  <2>1. \A f \in Ends : \A j, k \in DOMAIN nt2[f] :
         j < k /\ nt2[f][j].kind = "CLOSE" /\ nt2[f][k].gen = nt2[f][j].gen => nt2[f][k].kind = "KEEPALIVE"
    BY <1>2, <1>3, <1>4 DEF NInv, Closed, NoClose
  <2>2. \A f \in Ends : \A j \in Ids : ch[f][j] # Free /\ ch[f][j].CLOSE_RCVD =>
         \A k \in DOMAIN nt2[f] : nt2[f][k].gen = ch[f][j].gen => nt2[f][k].kind = "KEEPALIVE"
    BY <1>2, <1>4 DEF NInv, Closed
  <2> QED BY <2>1, <2>2 DEF Closed
<1>f. Ended(ch, nt2)
  <2>1. \A f \in Ends : \A j \in Ids :
          ch[f][j] # Free /\ ~ch[f][j].EOF_SENT => NoEof(ch, nt2, Peer(f), ch[f][j].gen)
    BY <1>5, PeerFacts DEF NInv, Ended
  <2>2. \A f \in Ends : \A j, k \in DOMAIN nt2[f] :
         j < k /\ nt2[f][j].kind = "EOF" /\ nt2[f][k].gen = nt2[f][j].gen => ~Bytes(nt2[f][k])
    BY <1>2, <1>3, <1>4 DEF NInv, Ended
  <2>3. \A f \in Ends : \A j \in Ids : ch[f][j] # Free /\ ch[f][j].EOF_RCVD =>
         \A k \in DOMAIN nt2[f] : nt2[f][k].gen = ch[f][j].gen => ~Bytes(nt2[f][k])
    BY <1>2, <1>4 DEF NInv, Ended
  <2> QED BY <2>1, <2>2, <2>3 DEF Ended
<1> QED BY <1>t, <1>a, <1>o, <1>l, <1>p, <1>c, <1>r, <1>z, <1>f DEF NInv, nt2

\* Channel i of end e may become c: it stays the same channel, and says that it
\* has had EOF or CLOSE only when the peer has said so and nothing is to follow.
MayTurn(ch, nt, e, i, c) ==
  /\ ch[e][i] # Free /\ c \in Channel /\ Shape(e, c)
  /\ c.gen = ch[e][i].gen /\ c.rid = ch[e][i].rid
  /\ c.type = ch[e][i].type \/ (ch[e][i].type = "LARVAL" /\ c.type = "OPEN")
  /\ ch[e][i].CLOSE_SENT => c.CLOSE_SENT
  /\ ch[e][i].EOF_SENT => c.EOF_SENT
  /\ c.CLOSE_RCVD /\ ~ch[e][i].CLOSE_RCVD =>
       /\ \A k \in DOMAIN nt[e] : nt[e][k].gen = c.gen => nt[e][k].kind = "KEEPALIVE"
       /\ \A j \in Ids : ch[Peer(e)][j] # Free /\ ch[Peer(e)][j].gen = c.gen =>
            ch[Peer(e)][j].type = "ZOMBIE" \/ ch[Peer(e)][j].CLOSE_SENT
  /\ c.EOF_RCVD /\ ~ch[e][i].EOF_RCVD =>
       /\ \A k \in DOMAIN nt[e] : nt[e][k].gen = c.gen => ~Bytes(nt[e][k])
       /\ \A j \in Ids : ch[Peer(e)][j] # Free /\ ch[Peer(e)][j].gen = c.gen =>
            ch[Peer(e)][j].EOF_SENT

\* A channel changes its own state the way its messages allow.
LEMMA TurnKeeps ==
  ASSUME NEW ch, NEW nt, NEW op, NEW e \in Ends, NEW i \in Ids, NEW c,
         NInv(ch, nt, op), MayTurn(ch, nt, e, i, c)
  PROVE  LET ch2 == [ch EXCEPT ![e][i] = c] IN
         /\ NInv(ch2, nt, op)
         /\ ch2[e][i] = c
         /\ ch[e][i].type # "CONNECTING" /\ Reaches(ch, nt, e, ch[e][i]) => Reaches(ch2, nt, e, c)
         /\ NoEof(ch, nt, Peer(e), c.gen) => NoEof(ch2, nt, Peer(e), c.gen)
<1> DEFINE p == Peer(e)
           b == ch[e][i]
           ch2 == [ch EXCEPT ![e][i] = c]
<1>0. ch \in [Ends -> [Ids -> Channel \cup {Free}]] /\ p \in Ends /\ p # e /\ Peer(p) = e
  BY PeerFacts DEF NInv, Typed
<1>1. c \in Channel /\ c # Free
  BY UsedFacts DEF MayTurn
<1>2. Put(ch, ch2, e, i, c)
  BY <1>0, <1>1, PutFacts
<1> HIDE DEF ch2
<1>3. /\ ch2[e][i] = c /\ b # Free
      /\ \A f \in Ends, j \in Ids : (f = e /\ j = i) \/ ch2[f][j] = ch[f][j]
      /\ \A f \in Ends : f = e \/ f = p
      /\ \A j \in Ids : ch2[p][j] = ch[p][j]
  BY <1>0, <1>2, PeerFacts DEF Put, MayTurn
<1>4. /\ Shape(e, c) /\ c.gen = b.gen /\ c.rid = b.rid
      /\ c.type = b.type \/ (b.type = "LARVAL" /\ c.type = "OPEN")
      /\ b.CLOSE_SENT => c.CLOSE_SENT
      /\ b.EOF_SENT => c.EOF_SENT
  BY DEF MayTurn
<1>5. c.CLOSE_RCVD /\ ~b.CLOSE_RCVD =>
       /\ \A k \in DOMAIN nt[e] : nt[e][k].gen = c.gen => nt[e][k].kind = "KEEPALIVE"
       /\ \A j \in Ids : ch[p][j] # Free /\ ch[p][j].gen = c.gen /\ ch[p][j].type # "ZOMBIE" =>
            ch[p][j].CLOSE_SENT
  BY DEF MayTurn
<1>6. c.EOF_RCVD /\ ~b.EOF_RCVD =>
       /\ \A k \in DOMAIN nt[e] : nt[e][k].gen = c.gen => ~Bytes(nt[e][k])
       /\ \A j \in Ids : ch[p][j] # Free /\ ch[p][j].gen = c.gen => ch[p][j].EOF_SENT
  BY DEF MayTurn
\* The table holds the same channels as before.
<1>7. \A f \in Ends, j \in Ids : /\ ch2[f][j] # Free <=> ch[f][j] # Free
                                 /\ ch[f][j] # Free => ch2[f][j].gen = ch[f][j].gen
  BY <1>1, <1>3, <1>4
<1>8. \A f \in Ends : \A g : Absent(ch, f, g) => Absent(ch2, f, g)
  BY <1>7 DEF Absent
<1>t. Typed(ch2, nt, op)
  BY <1>2, <1>7 DEF Put, NInv, Typed
<1>h. Shaped(ch2)
  BY <1>3, <1>4 DEF NInv, Shaped
<1>u. OneEach(ch2)
  BY <1>7 DEF NInv, OneEach
<1>a. Addressed(ch2, nt)
  <2> SUFFICES ASSUME NEW f \in Ends, NEW k \in DOMAIN nt[f], ~Noise(f, nt[f][k]), ~Offer(nt[f][k])
               PROVE  Delivers(ch2, f, nt[f][k])
    BY DEF Addressed
  <2>1. Delivers(ch, f, nt[f][k])
    BY DEF NInv, Addressed
  <2>2. CASE f = e /\ nt[f][k].to = i
    BY <2>1, <2>2, <1>1, <1>3, <1>4, <1>5 DEF Delivers, Noise, Shape
  <2>3. CASE ~(f = e /\ nt[f][k].to = i)
    BY <2>1, <2>3, <1>3 DEF Delivers
  <2> QED BY <2>2, <2>3
<1>o. Offered(ch2, nt)
  <2>1. \A f \in Ends : \A k \in DOMAIN nt[f] : Offers(ch, f, nt[f][k]) => Offers(ch2, f, nt[f][k])
    BY <1>0, <1>1, <1>3, <1>4, <1>8 DEF Offers
  <2> QED BY <2>1 DEF NInv, Offered
<1>l1. b.type # "CONNECTING" /\ Reaches(ch, nt, e, b) => Reaches(ch2, nt, e, c)
  BY <1>3, <1>4, <1>0 DEF Reaches
<1>l. Linked(ch2, nt)
  <2> SUFFICES ASSUME NEW f \in Ends, NEW j \in Ids, ch2[f][j] # Free,
                      ch2[f][j].type \in {"CONNECTING", "LARVAL", "OPEN"}, ~ch2[f][j].CLOSE_SENT
               PROVE  Reaches(ch2, nt, f, ch2[f][j])
    BY DEF Linked
  <2>1. CASE f = e /\ j = i
    <3>1. Reaches(ch, nt, e, b)
      BY <2>1, <1>3, <1>4 DEF NInv, Linked
    <3>2. CASE b.type = "CONNECTING"
      BY <2>1, <3>1, <3>2, <1>0, <1>3, <1>4 DEF Reaches
    <3> QED BY <2>1, <3>1, <3>2, <1>l1, <1>3
  <2>2. CASE ~(f = e /\ j = i)
    <3>1. ch2[f][j] = ch[f][j] /\ Reaches(ch, nt, f, ch[f][j])
      BY <2>2, <1>3 DEF NInv, Linked
    <3>2. CASE f = e
      BY <3>1, <3>2, <1>0, <1>3 DEF Reaches
    <3>3. CASE f = p /\ ch[f][j].rid # i
      BY <3>1, <3>3, <1>0, <1>3 DEF Reaches
    <3>4. CASE f = p /\ ch[f][j].rid = i
      <4>1. ~c.CLOSE_RCVD
        BY <3>1, <3>4, <1>0, <1>4, <1>5 DEF Reaches
      <4> QED BY <4>1, <3>1, <3>4, <1>0, <1>1, <1>3, <1>4 DEF Reaches
    <3> QED BY <3>2, <3>3, <3>4, <1>3
  <2> QED BY <2>1, <2>2
<1>p. Opening(ch2, nt)
  <2> SUFFICES ASSUME NEW f \in Ends, NEW j \in Ids, ch2[f][j] # Free, ch2[f][j].type = "OPENING"
               PROVE  Silent(ch2, nt, Peer(f), ch2[f][j].gen) /\ ConfirmFirst(nt, f, ch2[f][j].gen)
    BY DEF Opening
  <2>1. ch[f][j] # Free /\ ch[f][j].type = "OPENING" /\ ch2[f][j].gen = ch[f][j].gen
    BY <1>3, <1>4, <1>7
  <2>2. Silent(ch, nt, Peer(f), ch[f][j].gen) /\ ConfirmFirst(nt, f, ch[f][j].gen)
    BY <2>1 DEF NInv, Opening
  <2>3. CASE f = e
    BY <2>1, <2>2, <2>3, <1>0, <1>3 DEF Silent
  <2>4. CASE f = p
    <3>1. ~ch[p][j].CLOSE_SENT
      BY <2>1, <2>4, <1>0 DEF NInv, Shaped, Shape, BothClosed
    <3>2. c.gen = ch[p][j].gen /\ c.CLOSE_RCVD => b.CLOSE_RCVD
      BY <3>1, <2>1, <2>4, <1>5
    <3>3. \A l \in Ids : ch2[e][l] # Free /\ ch2[e][l].gen = ch[p][j].gen => ~ch2[e][l].CLOSE_RCVD
      BY <2>2, <2>4, <3>2, <1>0, <1>3, <1>4 DEF Silent
    <3> QED BY <2>1, <2>2, <2>4, <3>3, <1>0 DEF Silent
  <2> QED BY <2>3, <2>4, <1>3
<1>c. Confirmed(ch2, nt)
  <2>1. \A f \in Ends : \A k \in DOMAIN nt[f] : Confirms(ch, f, nt[f][k]) => Confirms(ch2, f, nt[f][k])
    BY <1>0, <1>1, <1>3, <1>4 DEF Confirms
  <2> QED BY <2>1 DEF NInv, Confirmed
<1>r. Refused(ch2, nt)
  BY <1>8, PeerFacts DEF NInv, Refused
<1>z. Closed(ch2, nt)
  <2>1. \A f \in Ends, j \in Ids : ch2[f][j] # Free /\ ch2[f][j].CLOSE_RCVD =>
         \A k \in DOMAIN nt[f] : nt[f][k].gen = ch2[f][j].gen => nt[f][k].kind = "KEEPALIVE"
    <3> SUFFICES ASSUME NEW f \in Ends, NEW j \in Ids, ch2[f][j] # Free, ch2[f][j].CLOSE_RCVD,
                        NEW k \in DOMAIN nt[f], nt[f][k].gen = ch2[f][j].gen
                 PROVE  nt[f][k].kind = "KEEPALIVE"
      OBVIOUS
    <3>1. CASE f = e /\ j = i /\ ~b.CLOSE_RCVD
      BY <3>1, <1>3, <1>5
    <3>2. CASE ~(f = e /\ j = i /\ ~b.CLOSE_RCVD)
      BY <3>2, <1>3, <1>4 DEF NInv, Closed
    <3> QED BY <3>1, <3>2
  <2> QED BY <2>1 DEF NInv, Closed
<1>f1. \A g : NoEof(ch, nt, p, g) => NoEof(ch2, nt, p, g)
  BY <1>3 DEF NoEof
<1>f. Ended(ch2, nt)
  <2>1. \A j \in Ids : ch2[e][j] # Free /\ ~ch2[e][j].EOF_SENT => NoEof(ch2, nt, p, ch2[e][j].gen)
    BY <1>3, <1>4, <1>f1 DEF NInv, Ended
  <2>2. \A j \in Ids : ch2[p][j] # Free /\ ~ch2[p][j].EOF_SENT => NoEof(ch2, nt, e, ch2[p][j].gen)
    <3> SUFFICES ASSUME NEW j \in Ids, ch2[p][j] # Free, ~ch2[p][j].EOF_SENT
                 PROVE  NoEof(ch2, nt, e, ch2[p][j].gen)
      OBVIOUS
    <3>1. NoEof(ch, nt, e, ch[p][j].gen) /\ ch2[p][j] = ch[p][j]
      BY <1>0, <1>3 DEF NInv, Ended
    <3>2. c.gen = ch[p][j].gen /\ c.EOF_RCVD => b.EOF_RCVD
      BY <3>1, <1>6
    <3>3. \A l \in Ids : ch2[e][l] # Free /\ ch2[e][l].gen = ch[p][j].gen => ~ch2[e][l].EOF_RCVD
      BY <3>1, <3>2, <1>3, <1>4 DEF NoEof
    <3> QED BY <3>1, <3>3 DEF NoEof
  <2>3. \A f \in Ends, j \in Ids : ch2[f][j] # Free /\ ch2[f][j].EOF_RCVD =>
         \A k \in DOMAIN nt[f] : nt[f][k].gen = ch2[f][j].gen => ~Bytes(nt[f][k])
    <3> SUFFICES ASSUME NEW f \in Ends, NEW j \in Ids, ch2[f][j] # Free, ch2[f][j].EOF_RCVD,
                        NEW k \in DOMAIN nt[f], nt[f][k].gen = ch2[f][j].gen
                 PROVE  ~Bytes(nt[f][k])
      OBVIOUS
    <3>1. CASE f = e /\ j = i /\ ~b.EOF_RCVD
      BY <3>1, <1>3, <1>6
    <3>2. CASE ~(f = e /\ j = i /\ ~b.EOF_RCVD)
      BY <3>2, <1>3, <1>4 DEF NInv, Ended
    <3> QED BY <3>1, <3>2
  <2> QED BY <2>1, <2>2, <2>3, <1>0, <1>3 DEF NInv, Ended
<1> QED BY <1>t, <1>h, <1>u, <1>a, <1>o, <1>l, <1>l1, <1>p, <1>c, <1>r, <1>z, <1>f, <1>f1, <1>3
         DEF NInv, ch2

\* channel_free(): the slot of a channel that failed to open, or that has had
\* CLOSE, is given back.
LEMMA RemoveKeeps ==
  ASSUME NEW ch, NEW nt, NEW op, NEW e \in Ends, NEW i \in Ids,
         NInv(ch, nt, op), ch[e][i] # Free,
         ch[e][i].type \in {"ZOMBIE", "CONNECTING"} \/ ch[e][i].CLOSE_RCVD
  PROVE  NInv([ch EXCEPT ![e][i] = Free], nt, op)
<1> DEFINE p == Peer(e)
           b == ch[e][i]
           ch2 == [ch EXCEPT ![e][i] = Free]
<1>0. ch \in [Ends -> [Ids -> Channel \cup {Free}]] /\ p \in Ends /\ p # e /\ Peer(p) = e
  BY PeerFacts DEF NInv, Typed
<1>2. Put(ch, ch2, e, i, Free)
  BY <1>0, PutFacts
<1> HIDE DEF ch2
<1>3. /\ \A f \in Ends, j \in Ids : ch2[f][j] # Free => ~(f = e /\ j = i) /\ ch2[f][j] = ch[f][j]
      /\ \A f \in Ends, j \in Ids : ~(f = e /\ j = i) => ch2[f][j] = ch[f][j]
      /\ \A f \in Ends : f = e \/ f = p
      /\ \A j \in Ids : ch2[p][j] = ch[p][j]
  BY <1>0, <1>2, PeerFacts DEF Put
<1>4. \A f \in Ends : \A g : Absent(ch, f, g) => Absent(ch2, f, g)
  BY <1>3 DEF Absent
<1>5. b.type \in {"ZOMBIE", "CONNECTING"} \/ b.CLOSE_RCVD
  OBVIOUS
\* A channel that has had CLOSE is not being opened.
<1>6. b.type # "OPENING"
  BY <1>5 DEF NInv, Shaped, Shape
<1>t. Typed(ch2, nt, op)
  BY <1>2, <1>3 DEF Put, NInv, Typed
<1>h. Shaped(ch2)
  BY <1>3 DEF NInv, Shaped
<1>u. OneEach(ch2)
  BY <1>3 DEF NInv, OneEach
<1>a. Addressed(ch2, nt)
  <2> SUFFICES ASSUME NEW f \in Ends, NEW k \in DOMAIN nt[f], ~Noise(f, nt[f][k]), ~Offer(nt[f][k])
               PROVE  Delivers(ch2, f, nt[f][k])
    BY DEF Addressed
  <2>1. Delivers(ch, f, nt[f][k])
    BY DEF NInv, Addressed
  <2>2. ~(f = e /\ nt[f][k].to = i)
    BY <2>1, <1>5 DEF Delivers
  <2> QED BY <2>1, <2>2, <1>3 DEF Delivers
<1>o. Offered(ch2, nt)
  <2>1. \A f \in Ends : \A k \in DOMAIN nt[f] : Offers(ch, f, nt[f][k]) => Offers(ch2, f, nt[f][k])
    BY SMTT(30), <1>0, <1>3, <1>4, <1>6 DEF Offers
  <2> QED BY <2>1 DEF NInv, Offered
<1>l. Linked(ch2, nt)
  <2> SUFFICES ASSUME NEW f \in Ends, NEW j \in Ids, ch2[f][j] # Free,
                      ch2[f][j].type \in {"CONNECTING", "LARVAL", "OPEN"}, ~ch2[f][j].CLOSE_SENT
               PROVE  Reaches(ch2, nt, f, ch2[f][j])
    BY DEF Linked
  <2>1. ch2[f][j] = ch[f][j] /\ Reaches(ch, nt, f, ch[f][j])
    BY <1>3 DEF NInv, Linked
  <2>2. ~(Peer(f) = e /\ ch[f][j].rid = i)
    BY <2>1, <1>5 DEF Reaches
  <2>3. ch2[Peer(f)][ch[f][j].rid] = ch[Peer(f)][ch[f][j].rid]
    BY <2>1, <2>2, <1>3, PeerFacts DEF Reaches
  <2> QED BY <2>1, <2>3 DEF Reaches
<1>p. Opening(ch2, nt)
  <2> SUFFICES ASSUME NEW f \in Ends, NEW j \in Ids, ch2[f][j] # Free, ch2[f][j].type = "OPENING"
               PROVE  Silent(ch2, nt, Peer(f), ch2[f][j].gen) /\ ConfirmFirst(nt, f, ch2[f][j].gen)
    BY DEF Opening
  <2>1. ch[f][j] # Free /\ ch[f][j].type = "OPENING" /\ ch2[f][j] = ch[f][j]
    BY <1>3
  <2>2. Silent(ch, nt, Peer(f), ch[f][j].gen) /\ ConfirmFirst(nt, f, ch[f][j].gen)
    BY <2>1 DEF NInv, Opening
  <2> QED BY <2>1, <2>2, <1>3, PeerFacts DEF Silent
<1>c. Confirmed(ch2, nt)
  <2> SUFFICES ASSUME NEW f \in Ends, NEW k \in DOMAIN nt[f], nt[f][k].kind = "CONFIRM"
               PROVE  Confirms(ch2, f, nt[f][k])
    BY DEF NInv, Confirmed
  <2>1. Confirms(ch, f, nt[f][k]) /\ Delivers(ch, f, nt[f][k]) /\ ch[f][nt[f][k].to].type = "OPENING"
    BY DEF NInv, Confirmed, Addressed, Noise, Offer, Reply, Delivers
  <2>2. Silent(ch, nt, Peer(f), nt[f][k].gen)
    BY <2>1 DEF NInv, Opening, Delivers
  <2>3. ~ch[Peer(f)][nt[f][k].sid].CLOSE_RCVD
    BY <2>1, <2>2 DEF Silent, Confirms
  <2>4. ~(Peer(f) = e /\ nt[f][k].sid = i)
    BY <2>1, <2>3, <1>5 DEF Confirms
  <2> QED BY <2>1, <2>4, <1>3, PeerFacts DEF Confirms
<1>r. Refused(ch2, nt)
  BY <1>4, PeerFacts DEF NInv, Refused
<1>z. Closed(ch2, nt)
  BY <1>3 DEF NInv, Closed
<1>f. Ended(ch2, nt)
  <2>1. \A f \in Ends : \A g : NoEof(ch, nt, f, g) => NoEof(ch2, nt, f, g)
    BY <1>3 DEF NoEof
  <2> QED BY <2>1, <1>3, PeerFacts DEF NInv, Ended
<1> QED BY <1>t, <1>h, <1>u, <1>a, <1>o, <1>l, <1>p, <1>c, <1>r, <1>z, <1>f DEF NInv, ch2

\* channel_input_open_failure(): the channel becomes a zombie.
LEMMA ZombieKeeps ==
  ASSUME NEW ch, NEW nt, NEW op, NEW e \in Ends, NEW i \in Ids,
         NInv(ch, nt, op), ch[e][i] # Free, ch[e][i].type = "OPENING",
         Quiet(nt, e, ch[e][i].gen), Quiet(nt, Peer(e), ch[e][i].gen),
         Absent(ch, Peer(e), ch[e][i].gen)
  PROVE  NInv([ch EXCEPT ![e][i] = [ch[e][i] EXCEPT !.type = "ZOMBIE"]], nt, op)
<1> DEFINE p == Peer(e)
           b == ch[e][i]
           c == [b EXCEPT !.type = "ZOMBIE"]
           ch2 == [ch EXCEPT ![e][i] = c]
<1>0. ch \in [Ends -> [Ids -> Channel \cup {Free}]] /\ p \in Ends /\ p # e /\ Peer(p) = e
  BY PeerFacts DEF NInv, Typed
<1>b. b \in Channel /\ b # Free /\ b.type = "OPENING" /\ Shape(e, b)
  BY <1>0 DEF NInv, Shaped
<1>1. /\ c \in Channel /\ c.type = "ZOMBIE" /\ c.gen = b.gen /\ c.EOF_SENT = b.EOF_SENT
      /\ c.EOF_RCVD = b.EOF_RCVD /\ c.CLOSE_RCVD = b.CLOSE_RCVD
      /\ Shape(e, c)
  BY <1>b DEF Channel, Types, Shape, BothClosed
<1>2. Put(ch, ch2, e, i, c)
  BY <1>0, <1>1, PutFacts
<1>q. Quiet(nt, e, b.gen) /\ Quiet(nt, p, b.gen) /\ Absent(ch, p, b.gen)
  OBVIOUS
<1>c. c # Free
  BY <1>1, UsedFacts
<1> HIDE DEF ch2, c, b
<1>3. /\ ch2[e][i] = c /\ ch[e][i] = b
      /\ \A f \in Ends, j \in Ids : (f = e /\ j = i) \/ ch2[f][j] = ch[f][j]
      /\ \A f \in Ends : f = e \/ f = p
      /\ \A j \in Ids : ch2[p][j] = ch[p][j]
  BY <1>0, <1>2, PeerFacts DEF Put, b
<1>7. \A f \in Ends, j \in Ids : /\ ch2[f][j] # Free <=> ch[f][j] # Free
                                 /\ ch[f][j] # Free => ch2[f][j].gen = ch[f][j].gen
  BY <1>1, <1>3, <1>b, <1>c
<1>8. \A f \in Ends : \A g : Absent(ch, f, g) => Absent(ch2, f, g)
  BY <1>7 DEF Absent
<1>t. Typed(ch2, nt, op)
  BY <1>2, <1>7 DEF Put, NInv, Typed
<1>h. Shaped(ch2)
  BY <1>3, <1>1 DEF NInv, Shaped
<1>u. OneEach(ch2)
  BY <1>7 DEF NInv, OneEach
<1>a. Addressed(ch2, nt)
  <2> SUFFICES ASSUME NEW f \in Ends, NEW k \in DOMAIN nt[f], ~Noise(f, nt[f][k]), ~Offer(nt[f][k])
               PROVE  Delivers(ch2, f, nt[f][k])
    BY DEF Addressed
  <2>1. Delivers(ch, f, nt[f][k])
    BY DEF NInv, Addressed
  <2>2. ~(f = e /\ nt[f][k].to = i)
    BY <2>1, <1>3, <1>q DEF Delivers, Quiet
  <2> QED BY <2>1, <2>2, <1>3 DEF Delivers
<1>o. Offered(ch2, nt)
  <2> SUFFICES ASSUME NEW f \in Ends, NEW k \in DOMAIN nt[f], Offer(nt[f][k])
               PROVE  Offers(ch2, f, nt[f][k])
    BY DEF NInv, Offered
  <2>1. Offers(ch, f, nt[f][k])
    BY DEF NInv, Offered
  <2>2. ~Noise(f, nt[f][k])
    BY DEF Offer, Noise
  <2>3. ~(Peer(f) = e /\ nt[f][k].sid = i)
    BY SMTT(30), <2>1, <2>2, <1>0, <1>3, <1>q DEF Offers, Quiet
  <2> QED BY <2>1, <2>3, <1>3, <1>8, PeerFacts DEF Offers
<1>l. Linked(ch2, nt)
  <2> SUFFICES ASSUME NEW f \in Ends, NEW j \in Ids, ch2[f][j] # Free,
                      ch2[f][j].type \in {"CONNECTING", "LARVAL", "OPEN"}, ~ch2[f][j].CLOSE_SENT
               PROVE  Reaches(ch2, nt, f, ch2[f][j])
    BY DEF Linked
  <2>1. ch2[f][j] = ch[f][j] /\ Reaches(ch, nt, f, ch[f][j])
    BY <1>1, <1>3 DEF NInv, Linked
  <2>2. ~(Peer(f) = e /\ ch[f][j].rid = i)
    BY <2>1, <1>0, <1>3, <1>q, PeerFacts DEF Reaches, Absent
  <2>3. ch2[Peer(f)][ch[f][j].rid] = ch[Peer(f)][ch[f][j].rid]
    BY <2>1, <2>2, <1>3, PeerFacts DEF Reaches
  <2> QED BY Zenon, <2>1, <2>3 DEF Reaches
<1>p. Opening(ch2, nt)
  <2> SUFFICES ASSUME NEW f \in Ends, NEW j \in Ids, ch2[f][j] # Free, ch2[f][j].type = "OPENING"
               PROVE  Silent(ch2, nt, Peer(f), ch2[f][j].gen) /\ ConfirmFirst(nt, f, ch2[f][j].gen)
    BY DEF Opening
  <2>1. ch[f][j] # Free /\ ch[f][j].type = "OPENING" /\ ch2[f][j] = ch[f][j]
    BY <1>1, <1>3
  <2>2. Silent(ch, nt, Peer(f), ch[f][j].gen) /\ ConfirmFirst(nt, f, ch[f][j].gen)
    BY <2>1 DEF NInv, Opening
  <2> QED BY <2>1, <2>2, <1>1, <1>3, <1>7, PeerFacts DEF Silent
<1>x. Confirmed(ch2, nt)
  <2>1. \A f \in Ends : \A k \in DOMAIN nt[f] : Confirms(ch, f, nt[f][k]) => Confirms(ch2, f, nt[f][k])
    BY <1>0, <1>b, <1>3 DEF Confirms
  <2> QED BY <2>1 DEF NInv, Confirmed
<1>r. Refused(ch2, nt)
  BY <1>8, PeerFacts DEF NInv, Refused
<1>z. Closed(ch2, nt)
  BY <1>1, <1>3, <1>7 DEF NInv, Closed
<1>f. Ended(ch2, nt)
  <2>1. \A f \in Ends : \A g : NoEof(ch, nt, f, g) => NoEof(ch2, nt, f, g)
    BY <1>1, <1>3, <1>7 DEF NoEof
  <2> QED BY <2>1, <1>1, <1>3, <1>7, PeerFacts DEF NInv, Ended
<1> QED BY <1>t, <1>h, <1>u, <1>a, <1>o, <1>l, <1>p, <1>x, <1>r, <1>z, <1>f DEF NInv, ch2, c, b

\* c is what the CONFIRM at the head makes of the channel in slot i.
MayConfirm(ch, nt, e, i, c) ==
  /\ nt[e] # <<>> /\ nt[e][1].kind = "CONFIRM" /\ nt[e][1].to = i
  /\ Shape(e, c) /\ c.type = "OPEN" /\ c.rid = nt[e][1].sid /\ c.gen = ch[e][i].gen
  /\ c.EOF_SENT = ch[e][i].EOF_SENT /\ c.EOF_RCVD = ch[e][i].EOF_RCVD
  /\ c.CLOSE_RCVD = ch[e][i].CLOSE_RCVD

\* channel_input_open_confirmation(): the channel opens and learns its peer.
LEMMA ConfirmKeeps ==
  ASSUME NEW ch, NEW nt, NEW op, NEW e \in Ends, NEW i \in Ids, NEW c \in Channel,
         NInv(ch, nt, op), MayConfirm(ch, nt, e, i, c)
  PROVE  LET ch2 == [ch EXCEPT ![e][i] = c]
             nt2 == [nt EXCEPT ![e] = Tail(@)]
         IN  NInv(ch2, nt2, op) /\ ch2[e][i] = c /\ Reaches(ch2, nt2, e, c)
<1> DEFINE p == Peer(e)
           b == ch[e][i]
           g == c.gen
           m == nt[e][1]
           ch2 == [ch EXCEPT ![e][i] = c]
           nt2 == [nt EXCEPT ![e] = Tail(@)]
<1> USE DEF MayConfirm
<1>0. /\ ch \in [Ends -> [Ids -> Channel \cup {Free}]] /\ p \in Ends /\ p # e /\ Peer(p) = e
      /\ nt \in [Ends -> Seq(Packet)]
  BY PeerFacts DEF NInv, Typed
<1>c. c # Free
  BY UsedFacts
<1>1. Put(ch, ch2, e, i, c)
  BY <1>0, PutFacts
<1>2. /\ nt2 \in [Ends -> Seq(Packet)]
      /\ 1 \in DOMAIN nt[e]
      /\ Shrunk(nt[e], nt2[e])
      /\ \A f \in Ends : f # e => nt2[f] = nt[f]
  BY <1>0, PopFacts
\* The channel was being opened, and the peer has accepted it.
<1>3. /\ b # Free /\ b.gen = m.gen /\ b.type = "OPENING" /\ ~b.CLOSE_RCVD /\ m.kind = "CONFIRM"
      /\ b.gen = g /\ m.to = i /\ c.rid = m.sid
      /\ c.EOF_SENT = b.EOF_SENT /\ c.EOF_RCVD = b.EOF_RCVD /\ c.CLOSE_RCVD = b.CLOSE_RCVD
  BY <1>2 DEF NInv, Addressed, Delivers, Noise, Offer, Reply
<1>4. /\ m.sid \in Ids /\ ch[p][m.sid] # Free /\ ch[p][m.sid].gen = g
      /\ ch[p][m.sid].type \in {"LARVAL", "OPEN"}
      /\ OnlyReply(nt, e, 1)
  BY <1>2, <1>3 DEF NInv, Confirmed, Confirms
<1>5. /\ \A k \in DOMAIN nt[p] : nt[p][k].gen = g => Offer(nt[p][k]) \/ Noise(p, nt[p][k])
      /\ \A j \in Ids : ch[p][j] # Free /\ ch[p][j].gen = g => ~ch[p][j].CLOSE_RCVD
  BY <1>3 DEF NInv, Opening, Silent
<1>6. \A f \in Ends : \A k \in DOMAIN nt[f] : Offer(nt[f][k]) => nt[f][k].gen # g
  BY <1>0, <1>3, <1>4, PeerFacts DEF NInv, Offered, Offers, Absent
<1>7. Quiet(nt, p, g)
  BY <1>0, <1>5, <1>6 DEF Quiet
<1> HIDE DEF ch2, nt2
<1>8. /\ ch2[e][i] = c
      /\ \A f \in Ends, j \in Ids : (f = e /\ j = i) \/ ch2[f][j] = ch[f][j]
      /\ \A f \in Ends : f = e \/ f = p
      /\ \A j \in Ids : ch2[p][j] = ch[p][j]
  BY <1>0, <1>1, PeerFacts DEF Put
<1>9. \A f \in Ends, j \in Ids : /\ ch2[f][j] # Free <=> ch[f][j] # Free
                                 /\ ch[f][j] # Free => ch2[f][j].gen = ch[f][j].gen
  BY <1>3, <1>8, <1>c
<1>10. \A f \in Ends : \A x : Absent(ch, f, x) => Absent(ch2, f, x)
  BY <1>9 DEF Absent
<1>11. \A j \in Ids : /\ ch[e][j] # Free /\ ch[e][j].gen = g => j = i
                      /\ ch[p][j] # Free /\ ch[p][j].gen = g => j = m.sid
  BY <1>0, <1>3, <1>4 DEF NInv, OneEach
<1>12. \A f \in Ends : \A k \in DOMAIN nt2[f] :
        \E l \in DOMAIN nt[f] : l = (IF f = e THEN k + 1 ELSE k) /\ nt2[f][k] = nt[f][l]
  BY <1>2 DEF Shrunk
<1>13. \A f \in Ends : \A l \in DOMAIN nt[f] : nt[f][l].gen # g =>
        \E k \in DOMAIN nt2[f] : k = (IF f = e THEN l - 1 ELSE l) /\ nt2[f][k] = nt[f][l]
  <2>1. nt[e][1].gen = g
    BY <1>3
  <2>2. \A l \in DOMAIN nt[e] : nt[e][l].gen # g => l - 1 \in DOMAIN nt2[e] /\ nt2[e][l - 1] = nt[e][l]
    BY <2>1, <1>2 DEF Shrunk
  <2> QED BY <2>2, <1>2
<1>14. \A f \in Ends : DOMAIN nt2[f] \subseteq Int /\ DOMAIN nt[f] \subseteq Int
  BY <1>0, <1>2
<1>15. \A k \in DOMAIN nt2[e] : nt2[e][k].gen = g => ~Reply(nt2[e][k])
  BY <1>2, <1>3, <1>4, <1>12, <1>14 DEF OnlyReply, Shrunk
<1>16. \A f \in Ends : \A x : /\ Quiet(nt, f, x) => Quiet(nt2, f, x)
                              /\ NoClose(nt, f, x) => NoClose(nt2, f, x)
                              /\ NoEof(ch, nt, f, x) => NoEof(ch2, nt2, f, x)
                              /\ Silent(ch, nt, f, x) => Silent(ch2, nt2, f, x)
  <2>1. \A f \in Ends : \A x : /\ Quiet(nt, f, x) => Quiet(nt2, f, x)
                               /\ NoClose(nt, f, x) => NoClose(nt2, f, x)
    BY <1>12 DEF Quiet, NoClose
  <2>2. \A f \in Ends : \A x : NoEof(ch, nt, f, x) => NoEof(ch2, nt2, f, x)
    BY <1>3, <1>8, <1>9, <1>12 DEF NoEof
  <2>3. \A f \in Ends : \A x : Silent(ch, nt, f, x) => Silent(ch2, nt2, f, x)
    BY <1>3, <1>8, <1>9, <1>12 DEF Silent
  <2> QED BY <2>1, <2>2, <2>3
<1>17. \A f \in Ends : \A k \in DOMAIN nt2[f], l \in DOMAIN nt[f] :
        l = (IF f = e THEN k + 1 ELSE k) =>
          /\ Alone(nt, f, l) => Alone(nt2, f, k)
          /\ OnlyReply(nt, f, l) => OnlyReply(nt2, f, k)
  <2> SUFFICES ASSUME NEW f \in Ends, NEW k \in DOMAIN nt2[f], NEW l \in DOMAIN nt[f],
                      l = (IF f = e THEN k + 1 ELSE k)
               PROVE  /\ Alone(nt, f, l) => Alone(nt2, f, k)
                      /\ OnlyReply(nt, f, l) => OnlyReply(nt2, f, k)
    OBVIOUS
  <2>1. nt2[f][k] = nt[f][l]
    BY <1>12
  <2>2. \A j \in DOMAIN nt2[f] : j # k => \E n \in DOMAIN nt[f] : n # l /\ nt2[f][j] = nt[f][n]
    BY <1>12, <1>14
  <2> QED BY <2>1, <2>2 DEF Alone, OnlyReply
<1>t. Typed(ch2, nt2, op)
  BY <1>1, <1>2, <1>9, <1>12 DEF Put, NInv, Typed
<1>h. Shaped(ch2)
  BY <1>8 DEF NInv, Shaped
<1>u. OneEach(ch2)
  BY <1>9 DEF NInv, OneEach
<1>a. Addressed(ch2, nt2)
  <2> SUFFICES ASSUME NEW f \in Ends, NEW k \in DOMAIN nt2[f], ~Noise(f, nt2[f][k]), ~Offer(nt2[f][k])
               PROVE  Delivers(ch2, f, nt2[f][k])
    BY DEF Addressed
  <2>1. Delivers(ch, f, nt2[f][k])
    BY <1>12 DEF NInv, Addressed
  <2>2. CASE f = e /\ nt2[f][k].to = i
    <3>1. ~Reply(nt2[f][k])
      BY <2>1, <2>2, <1>3, <1>15 DEF Delivers
    <3> QED BY <2>1, <2>2, <3>1, <1>3, <1>8, <1>c DEF Delivers
  <2>3. CASE ~(f = e /\ nt2[f][k].to = i)
    BY <2>1, <2>3, <1>8 DEF Delivers
  <2> QED BY <2>2, <2>3
<1>o. Offered(ch2, nt2)
  <2> SUFFICES ASSUME NEW f \in Ends, NEW k \in DOMAIN nt2[f], Offer(nt2[f][k])
               PROVE  /\ Offers(ch2, f, nt2[f][k])
                      /\ Alone(nt2, f, k)
                      /\ Quiet(nt2, Peer(f), nt2[f][k].gen)
    BY DEF Offered
  <2>1. PICK l \in DOMAIN nt[f] : l = (IF f = e THEN k + 1 ELSE k) /\ nt2[f][k] = nt[f][l]
    BY <1>12
  <2>2. Offers(ch, f, nt[f][l]) /\ Alone(nt, f, l) /\ Quiet(nt, Peer(f), nt[f][l].gen)
    BY <2>1 DEF NInv, Offered
  <2>3. Alone(nt2, f, k)
    BY <2>1, <2>2, <1>17
  <2>4. Quiet(nt2, Peer(f), nt[f][l].gen)
    BY <2>2, <1>16, PeerFacts
  <2>5. ~(Peer(f) = e /\ nt[f][l].sid = i)
    BY <2>1, <2>2, <1>6, <1>3 DEF Offers
  <2>6. Offers(ch2, f, nt[f][l])
    BY <2>2, <2>5, <1>8, <1>10, PeerFacts DEF Offers
  <2> QED BY <2>1, <2>3, <2>4, <2>6
<1>l1. Reaches(ch2, nt2, e, c)
  <2>1. NoClose(nt2, p, g)
    <3>1. NoClose(nt, p, g)
      BY <1>7 DEF Quiet, NoClose, Noise
    <3> QED BY <3>1, <1>0, <1>16
  <2> QED BY <2>1, <1>0, <1>3, <1>4, <1>5, <1>8 DEF Reaches
<1>l. Linked(ch2, nt2)
  <2> SUFFICES ASSUME NEW f \in Ends, NEW j \in Ids, ch2[f][j] # Free,
                      ch2[f][j].type \in {"CONNECTING", "LARVAL", "OPEN"}, ~ch2[f][j].CLOSE_SENT
               PROVE  Reaches(ch2, nt2, f, ch2[f][j])
    BY DEF Linked
  <2>1. CASE f = e /\ j = i
    BY <2>1, <1>8, <1>l1
  <2>2. CASE ~(f = e /\ j = i)
    <3>1. ch2[f][j] = ch[f][j] /\ Reaches(ch, nt, f, ch[f][j])
      BY <2>2, <1>8 DEF NInv, Linked
    <3> DEFINE d == ch[f][j]
               q == Peer(f)
    <3>2. q \in Ends /\ NoClose(nt2, q, d.gen) /\ (Quiet(nt, q, d.gen) => Quiet(nt2, q, d.gen))
      BY <3>1, <1>16, PeerFacts DEF Reaches
    <3>3. CASE q = e /\ d.rid = i
      <4>1. f = p /\ d.gen = g /\ d.type # "CONNECTING"
        <5>1. f = p
          BY <3>3, <1>0, PeerFacts
        <5>2. d.gen = g /\ d # Free
          BY <3>1, <3>3, <1>3 DEF Reaches
        <5>3. j = m.sid
          BY SMTT(30), <5>1, <5>2, <1>11
        <5> QED BY <5>1, <5>2, <5>3, <1>4
      <4> QED BY <4>1, <3>1, <3>2, <3>3, <1>3, <1>8, <1>c DEF Reaches
    <3>4. CASE ~(q = e /\ d.rid = i)
      <4>1. d.gen # g \/ q = p
        BY <3>1, <3>4, <1>8, <1>3, <1>11, PeerFacts DEF Reaches
      <4>2. ch2[q][d.rid] = ch[q][d.rid]
        BY <3>1, <3>2, <3>4, <1>8 DEF Reaches
      <4>3. (\E k \in DOMAIN nt[q] : nt[q][k].gen = d.gen /\ nt[q][k].kind = "CONFIRM")
            => (\E k \in DOMAIN nt2[q] : nt2[q][k].gen = d.gen /\ nt2[q][k].kind = "CONFIRM")
        BY <4>1, <3>2, <1>0, <1>2, <1>13
      <4> QED BY <3>1, <3>2, <4>2, <4>3 DEF Reaches
    <3> QED BY <3>3, <3>4
  <2> QED BY <2>1, <2>2
<1>p. Opening(ch2, nt2)
  <2> SUFFICES ASSUME NEW f \in Ends, NEW j \in Ids, ch2[f][j] # Free, ch2[f][j].type = "OPENING"
               PROVE  Silent(ch2, nt2, Peer(f), ch2[f][j].gen) /\ ConfirmFirst(nt2, f, ch2[f][j].gen)
    BY DEF Opening
  <2>1. ch[f][j] # Free /\ ch[f][j].type = "OPENING" /\ ch2[f][j] = ch[f][j] /\ ~(f = e /\ j = i)
    BY <1>8
  <2> DEFINE x == ch[f][j].gen
  <2>2. Silent(ch, nt, Peer(f), x) /\ ConfirmFirst(nt, f, x)
    BY <2>1 DEF NInv, Opening
  <2>3. x # g
    BY <2>1, <1>8, <1>11, <1>4
  <2>4. ASSUME NEW k \in DOMAIN nt2[f], nt2[f][k].gen = x, ~Noise(f, nt2[f][k]), ~Reply(nt2[f][k])
        PROVE  \E n \in DOMAIN nt2[f] : n < k /\ nt2[f][n].gen = x /\ nt2[f][n].kind = "CONFIRM"
    <3>1. PICK l \in DOMAIN nt[f] : l = (IF f = e THEN k + 1 ELSE k) /\ nt2[f][k] = nt[f][l]
      BY <1>12
    <3>2. PICK n \in DOMAIN nt[f] : n < l /\ nt[f][n].gen = x /\ nt[f][n].kind = "CONFIRM"
      BY <2>2, <2>4, <3>1 DEF ConfirmFirst
    <3>3. PICK y \in DOMAIN nt2[f] : y = (IF f = e THEN n - 1 ELSE n) /\ nt2[f][y] = nt[f][n]
      BY <1>13, <2>3, <3>2
    <3> QED BY <3>1, <3>2, <3>3, <1>14
  <2>5. ConfirmFirst(nt2, f, x)
    BY <2>4 DEF ConfirmFirst
  <2> QED BY <2>1, <2>2, <2>5, <1>16, PeerFacts
<1>x. Confirmed(ch2, nt2)
  <2>1. \A f \in Ends : \A k \in DOMAIN nt[f] : nt[f][k].kind = "CONFIRM" => Confirms(ch2, f, nt[f][k])
    <3> SUFFICES ASSUME NEW f \in Ends, NEW k \in DOMAIN nt[f], nt[f][k].kind = "CONFIRM"
                 PROVE  Confirms(ch2, f, nt[f][k])
      OBVIOUS
    <3>1. Confirms(ch, f, nt[f][k])
      BY DEF NInv, Confirmed
    <3>2. ~(Peer(f) = e /\ nt[f][k].sid = i)
      BY <3>1, <1>3 DEF Confirms
    <3> QED BY <3>1, <3>2, <1>8, PeerFacts DEF Confirms
  <2> QED BY <2>1, <1>12, <1>17 DEF NInv, Confirmed
<1>r. Refused(ch2, nt2)
  BY <1>10, <1>12, <1>17, PeerFacts DEF NInv, Refused
<1>z. Closed(ch2, nt2)
  <2>1. \A f \in Ends : \A j, k \in DOMAIN nt2[f] :
         j < k /\ nt2[f][j].kind = "CLOSE" /\ nt2[f][k].gen = nt2[f][j].gen => nt2[f][k].kind = "KEEPALIVE"
    BY SMTT(30), <1>12, <1>14 DEF NInv, Closed
  <2>2. \A f \in Ends : \A j \in Ids : ch2[f][j] # Free /\ ch2[f][j].CLOSE_RCVD =>
         \A k \in DOMAIN nt2[f] : nt2[f][k].gen = ch2[f][j].gen => nt2[f][k].kind = "KEEPALIVE"
    BY <1>3, <1>8, <1>9, <1>12 DEF NInv, Closed
  <2> QED BY <2>1, <2>2 DEF Closed
<1>f. Ended(ch2, nt2)
  <2>1. \A f \in Ends : \A j \in Ids :
          ch2[f][j] # Free /\ ~ch2[f][j].EOF_SENT => NoEof(ch2, nt2, Peer(f), ch2[f][j].gen)
    BY <1>3, <1>8, <1>9, <1>16, PeerFacts DEF NInv, Ended
  <2>2. \A f \in Ends : \A j, k \in DOMAIN nt2[f] :
         j < k /\ nt2[f][j].kind = "EOF" /\ nt2[f][k].gen = nt2[f][j].gen => ~Bytes(nt2[f][k])
    <3> SUFFICES ASSUME NEW f \in Ends, NEW j \in DOMAIN nt2[f], NEW k \in DOMAIN nt2[f],
                        j < k, nt2[f][j].kind = "EOF", nt2[f][k].gen = nt2[f][j].gen
                 PROVE  ~Bytes(nt2[f][k])
      OBVIOUS
    <3>1. PICK l \in DOMAIN nt[f] : l = (IF f = e THEN k + 1 ELSE k) /\ nt2[f][k] = nt[f][l]
      BY <1>12
    <3>2. PICK n \in DOMAIN nt[f] : n = (IF f = e THEN j + 1 ELSE j) /\ nt2[f][j] = nt[f][n]
      BY <1>12
    <3>3. n < l
      BY <3>1, <3>2, <1>14
    <3> QED BY <3>1, <3>2, <3>3 DEF NInv, Ended
  <2>3. \A f \in Ends : \A j \in Ids : ch2[f][j] # Free /\ ch2[f][j].EOF_RCVD =>
         \A k \in DOMAIN nt2[f] : nt2[f][k].gen = ch2[f][j].gen => ~Bytes(nt2[f][k])
    BY <1>3, <1>8, <1>9, <1>12 DEF NInv, Ended
  <2> QED BY <2>1, <2>2, <2>3 DEF Ended
<1> QED BY <1>t, <1>h, <1>u, <1>a, <1>o, <1>l, <1>l1, <1>p, <1>x, <1>r, <1>z, <1>f, <1>8 DEF NInv, ch2, nt2

\* The offer of channel g, from slot j of the peer, was taken from the queue of
\* e and is not answered yet.
Answerable(ch, nt, e, g, j) ==
  /\ j \in Ids /\ ch[Peer(e)][j] # Free
  /\ ch[Peer(e)][j].type = "OPENING" /\ ch[Peer(e)][j].gen = g
  /\ Quiet(nt, e, g) /\ Quiet(nt, Peer(e), g)

\* Channel c takes slot i of end e to answer the offer: it connects first, or
\* the confirmation m is sent at once.
LEMMA AcceptKeeps ==
  ASSUME NEW ch, NEW nt, NEW op, NEW e \in Ends, NEW i \in Ids, NEW c \in Channel, NEW m \in Packet,
         NInv(ch, nt, op), Answerable(ch, nt, e, c.gen, c.rid),
         \/ ch[e][i] = Free /\ Absent(ch, e, c.gen)
         \/ ch[e][i] # Free /\ ch[e][i].type = "CONNECTING" /\ ch[e][i].gen = c.gen,
         Shape(e, c), c.type \in {"CONNECTING", "LARVAL", "OPEN"},
         ~c.EOF_RCVD, ~c.CLOSE_RCVD,
         m.kind = "CONFIRM", m.to = c.rid, m.gen = c.gen, m.sid = i
  PROVE  LET ch2 == [ch EXCEPT ![e][i] = c]
             nt2 == IF c.type = "CONNECTING" THEN nt ELSE [nt EXCEPT ![Peer(e)] = Append(@, m)]
         IN  NInv(ch2, nt2, op)
<1> DEFINE p == Peer(e)
           g == c.gen
           j == c.rid
           ch2 == [ch EXCEPT ![e][i] = c]
           nt2 == IF c.type = "CONNECTING" THEN nt ELSE [nt EXCEPT ![p] = Append(@, m)]
<1>0. /\ ch \in [Ends -> [Ids -> Channel \cup {Free}]] /\ p \in Ends /\ p # e /\ Peer(p) = e
      /\ nt \in [Ends -> Seq(Packet)]
  BY PeerFacts DEF NInv, Typed
<1>c. c # Free
  BY UsedFacts
<1>1. Put(ch, ch2, e, i, c)
  BY <1>0, PutFacts
<1>2. /\ nt2 \in [Ends -> Seq(Packet)]
      /\ \A f \in Ends : \A k \in DOMAIN nt[f] : k \in DOMAIN nt2[f] /\ nt2[f][k] = nt[f][k]
      /\ \A f \in Ends : \A k \in DOMAIN nt2[f] :
           \/ k \in DOMAIN nt[f] /\ nt2[f][k] = nt[f][k]
           \/ f = p /\ k \notin DOMAIN nt[f] /\ nt2[f][k] = m
      /\ c.type # "CONNECTING" => \E k \in DOMAIN nt2[p] : nt2[p][k] = m
      /\ \A k \in DOMAIN nt2[p] : k \notin DOMAIN nt[p] =>
           c.type # "CONNECTING" /\ \A l \in DOMAIN nt[p] : l < k
      /\ \A k, l \in DOMAIN nt2[p] : k \notin DOMAIN nt[p] /\ l \notin DOMAIN nt[p] => l = k
  <2>1. CASE c.type = "CONNECTING"
    BY <2>1, <1>0
  <2>2. CASE c.type # "CONNECTING"
    <3>1. /\ nt2 \in [Ends -> Seq(Packet)]
          /\ Grown(nt[p], nt2[p], m)
          /\ \A f \in Ends : f # p => nt2[f] = nt[f]
      BY <2>2, <1>0, PushFacts
    <3> HIDE DEF nt2
    <3> QED BY ZenonT(40), <3>1, <2>2, <1>0 DEF Grown
  <2> QED BY <2>1, <2>2
<1> HIDE DEF ch2, nt2
<1>3. /\ j \in Ids /\ ch[p][j] # Free /\ ch[p][j].type = "OPENING" /\ ch[p][j].gen = g
      /\ Quiet(nt, e, g) /\ Quiet(nt, p, g)
      /\ ~ch[p][j].EOF_RCVD /\ ~ch[p][j].CLOSE_RCVD
  BY <1>0 DEF Answerable, NInv, Shaped, Shape
<1>4. /\ m.kind = "CONFIRM" /\ m.to = j /\ m.gen = g /\ m.sid = i
      /\ ~Offer(m) /\ Reply(m) /\ ~Bytes(m)
  BY DEF Offer, Reply, Bytes
<1>5. /\ ch[e][i] # Free => ch[e][i].type = "CONNECTING" /\ ch[e][i].gen = g
      /\ \A l \in Ids : ch[e][l] # Free /\ ch[e][l].gen = g => l = i
      /\ \A l \in Ids : ch[p][l] # Free /\ ch[p][l].gen = g => l = j
  BY <1>0, <1>3 DEF Absent, NInv, OneEach
<1>8. /\ ch2[e][i] = c
      /\ \A f \in Ends, l \in Ids : (f = e /\ l = i) \/ ch2[f][l] = ch[f][l]
      /\ \A f \in Ends : f = e \/ f = p
      /\ \A l \in Ids : ch2[p][l] = ch[p][l]
  BY <1>0, <1>1, PeerFacts DEF Put
<1>9. \A f \in Ends : DOMAIN nt2[f] \subseteq Int /\ DOMAIN nt[f] \subseteq Int
  BY <1>0, <1>2
\* g is a number already given.
<1>10. g \in 1..op
  BY <1>0, <1>3 DEF NInv, Typed
<1>11. \A f \in Ends : \A x : x # g /\ Absent(ch, f, x) => Absent(ch2, f, x)
  BY <1>8 DEF Absent
<1>12. \A x : Absent(ch, p, x) => Absent(ch2, p, x)
  BY <1>8 DEF Absent
\* What is in flight was not said of g.
<1>13. \A f \in Ends : \A k \in DOMAIN nt[f] : ~Noise(f, nt[f][k]) => nt[f][k].gen # g
  BY <1>3, <1>8 DEF Quiet
<1>14. \A f \in Ends : \A x : x # g =>
         /\ Quiet(nt, f, x) => Quiet(nt2, f, x)
         /\ NoClose(nt, f, x) => NoClose(nt2, f, x)
  BY ZenonT(40), <1>2, <1>4 DEF Quiet, NoClose
<1>15. \A f \in Ends : \A k \in DOMAIN nt[f] : nt[f][k].gen # g =>
         /\ Alone(nt, f, k) => Alone(nt2, f, k)
         /\ OnlyReply(nt, f, k) => OnlyReply(nt2, f, k)
  BY ZenonT(40), <1>2, <1>4 DEF Alone, OnlyReply
<1>t. Typed(ch2, nt2, op)
  <2>1. \A f \in Ends, l \in Ids : ch2[f][l] # Free => ch2[f][l].gen \in 1..op
    BY <1>8, <1>10 DEF NInv, Typed
  <2>2. \A f \in Ends : \A k \in DOMAIN nt2[f] : nt2[f][k].gen \in 1..op
    BY <1>2, <1>4, <1>10 DEF NInv, Typed
  <2> QED BY <2>1, <2>2, <1>1, <1>2 DEF Put, NInv, Typed
<1>h. Shaped(ch2)
  BY <1>8 DEF NInv, Shaped
<1>u. OneEach(ch2)
  BY <1>5, <1>8 DEF NInv, OneEach
<1>a. Addressed(ch2, nt2)
  <2> SUFFICES ASSUME NEW f \in Ends, NEW k \in DOMAIN nt2[f], ~Noise(f, nt2[f][k]), ~Offer(nt2[f][k])
               PROVE  Delivers(ch2, f, nt2[f][k])
    BY DEF Addressed
  <2>1. CASE k \in DOMAIN nt[f] /\ nt2[f][k] = nt[f][k]
    <3>1. Delivers(ch, f, nt[f][k])
      BY <2>1 DEF NInv, Addressed
    <3>2. ~(f = e /\ nt[f][k].to = i)
      BY <3>1, <1>5 DEF Delivers
    <3> QED BY <2>1, <3>1, <3>2, <1>8 DEF Delivers
  <2>2. CASE f = p /\ nt2[f][k] = m
    BY <2>2, <1>3, <1>4, <1>8 DEF Delivers
  <2> QED BY <2>1, <2>2, <1>2
<1>o. Offered(ch2, nt2)
  <2> SUFFICES ASSUME NEW f \in Ends, NEW k \in DOMAIN nt2[f], Offer(nt2[f][k])
               PROVE  /\ Offers(ch2, f, nt2[f][k])
                      /\ Alone(nt2, f, k)
                      /\ Quiet(nt2, Peer(f), nt2[f][k].gen)
    BY DEF Offered
  <2>1. k \in DOMAIN nt[f] /\ nt2[f][k] = nt[f][k]
    BY <1>2, <1>4
  <2>2. Offers(ch, f, nt[f][k]) /\ Alone(nt, f, k) /\ Quiet(nt, Peer(f), nt[f][k].gen)
    BY <2>1 DEF NInv, Offered
  <2>3. nt[f][k].gen # g
    BY <2>1, <1>13 DEF Offer, Noise
  <2>4. ~(Peer(f) = e /\ nt[f][k].sid = i)
    BY <2>2, <1>5 DEF Offers
  <2>5. Offers(ch2, f, nt[f][k])
    BY <2>2, <2>3, <2>4, <1>8, <1>11, PeerFacts DEF Offers
  <2> QED BY <2>1, <2>2, <2>3, <2>5, <1>14, <1>15, PeerFacts
<1>l. Linked(ch2, nt2)
  <2> SUFFICES ASSUME NEW f \in Ends, NEW l \in Ids, ch2[f][l] # Free,
                      ch2[f][l].type \in {"CONNECTING", "LARVAL", "OPEN"}, ~ch2[f][l].CLOSE_SENT
               PROVE  Reaches(ch2, nt2, f, ch2[f][l])
    BY DEF Linked
  <2>1. CASE f = e /\ l = i
    <3>1. NoClose(nt2, p, g)
      <4>1. NoClose(nt, p, g)
        BY <1>3 DEF Quiet, NoClose, Noise
      <4> QED BY <4>1, <1>0, <1>2, <1>4 DEF NoClose
    <3>2. c.type = "CONNECTING" => Quiet(nt2, p, g)
      BY <1>0, <1>2, <1>3 DEF Quiet
    <3>3. c.type # "CONNECTING" => \E k \in DOMAIN nt2[p] : nt2[p][k].gen = g /\ nt2[p][k].kind = "CONFIRM"
      BY SMTT(30), <1>2, <1>4
    <3> QED BY <2>1, <3>1, <3>2, <3>3, <1>3, <1>8 DEF Reaches
  <2>2. CASE ~(f = e /\ l = i)
    <3>1. ch2[f][l] = ch[f][l] /\ Reaches(ch, nt, f, ch[f][l])
      BY <2>2, <1>8 DEF NInv, Linked
    <3> DEFINE d == ch[f][l]
               q == Peer(f)
    <3>2. d.gen # g
      BY <3>1, <2>2, <1>3, <1>5, <1>8
    <3>3. q \in Ends /\ NoClose(nt2, q, d.gen) /\ (Quiet(nt, q, d.gen) => Quiet(nt2, q, d.gen))
      BY <3>1, <3>2, <1>14, PeerFacts DEF Reaches
    <3>4. ~(q = e /\ d.rid = i)
      BY <3>1, <3>2, <1>5 DEF Reaches
    <3>5. ch2[q][d.rid] = ch[q][d.rid]
      BY <3>1, <3>3, <3>4, <1>8 DEF Reaches
    <3>6. (\E k \in DOMAIN nt[q] : nt[q][k].gen = d.gen /\ nt[q][k].kind = "CONFIRM")
          => (\E k \in DOMAIN nt2[q] : nt2[q][k].gen = d.gen /\ nt2[q][k].kind = "CONFIRM")
      BY <3>3, <1>2
    <3> QED BY <3>1, <3>3, <3>5, <3>6 DEF Reaches
  <2> QED BY <2>1, <2>2
<1>p. Opening(ch2, nt2)
  <2> SUFFICES ASSUME NEW f \in Ends, NEW l \in Ids, ch2[f][l] # Free, ch2[f][l].type = "OPENING"
               PROVE  Silent(ch2, nt2, Peer(f), ch2[f][l].gen) /\ ConfirmFirst(nt2, f, ch2[f][l].gen)
    BY DEF Opening
  <2>1. ch[f][l] # Free /\ ch[f][l].type = "OPENING" /\ ch2[f][l] = ch[f][l] /\ ~(f = e /\ l = i)
    BY <1>8
  <2> DEFINE x == ch[f][l].gen
             q == Peer(f)
  <2>2. Silent(ch, nt, q, x) /\ ConfirmFirst(nt, f, x)
    BY <2>1 DEF NInv, Opening
  <2>3. ConfirmFirst(nt2, f, x)
    <3> SUFFICES ASSUME NEW k \in DOMAIN nt2[f], nt2[f][k].gen = x, ~Noise(f, nt2[f][k]), ~Reply(nt2[f][k])
                 PROVE  \E n \in DOMAIN nt2[f] : n < k /\ nt2[f][n].gen = x /\ nt2[f][n].kind = "CONFIRM"
      BY DEF ConfirmFirst
    <3>1. k \in DOMAIN nt[f] /\ nt2[f][k] = nt[f][k]
      BY <1>2, <1>4
    <3>2. PICK n \in DOMAIN nt[f] : n < k /\ nt[f][n].gen = x /\ nt[f][n].kind = "CONFIRM"
      BY <2>2, <3>1 DEF ConfirmFirst
    <3> QED BY <3>2, <1>2
  <2>4. \A n \in Ids : ch2[q][n] # Free /\ ch2[q][n].gen = x => ~ch2[q][n].CLOSE_RCVD
    BY <2>2, <1>8, PeerFacts DEF Silent
  <2>5. \A k \in DOMAIN nt2[q] : nt2[q][k].gen = x => Offer(nt2[q][k]) \/ Noise(q, nt2[q][k])
    <3>1. q = p => x # g
      BY <2>1, <1>0, <1>3, <1>5, PeerFacts
    <3>2. ASSUME NEW k \in DOMAIN nt2[q], nt2[q][k].gen = x
          PROVE  Offer(nt2[q][k]) \/ Noise(q, nt2[q][k])
      <4>1. k \in DOMAIN nt[q] /\ nt2[q][k] = nt[q][k]
        BY <3>1, <3>2, <1>2, <1>4, PeerFacts
      <4> QED BY <4>1, <3>2, <2>2 DEF Silent
    <3> QED BY <3>2
  <2> QED BY <2>1, <2>3, <2>4, <2>5 DEF Silent
<1>x. Confirmed(ch2, nt2)
  <2> SUFFICES ASSUME NEW f \in Ends, NEW k \in DOMAIN nt2[f], nt2[f][k].kind = "CONFIRM"
               PROVE  Confirms(ch2, f, nt2[f][k]) /\ OnlyReply(nt2, f, k)
    BY DEF Confirmed
  <2>1. CASE k \in DOMAIN nt[f] /\ nt2[f][k] = nt[f][k]
    <3>1. Confirms(ch, f, nt[f][k]) /\ OnlyReply(nt, f, k)
      BY <2>1 DEF NInv, Confirmed
    <3>2. nt[f][k].gen # g
      BY <2>1, <1>13 DEF Noise
    <3>3. ~(Peer(f) = e /\ nt[f][k].sid = i)
      BY <3>1, <1>5 DEF Confirms
    <3>4. Confirms(ch2, f, nt[f][k])
      BY <3>1, <3>3, <1>8, PeerFacts DEF Confirms
    <3> QED BY <2>1, <3>1, <3>2, <3>4, <1>15
  <2>2. CASE f = p /\ k \notin DOMAIN nt[f] /\ nt2[f][k] = m
    <3>1. c.type \in {"LARVAL", "OPEN"}
      BY <2>2, <1>2
    <3>2. OnlyReply(nt2, p, k)
      <4> SUFFICES ASSUME NEW l \in DOMAIN nt2[p], l # k, nt2[p][l].gen = nt2[p][k].gen
                   PROVE  ~Reply(nt2[p][l])
        BY DEF OnlyReply
      <4>1. l \in DOMAIN nt[p] /\ nt2[p][l] = nt[p][l] /\ nt[p][l].gen = g
        BY <2>2, <1>2, <1>4, <1>0
      <4> QED BY <4>1, <1>3 DEF Quiet, Noise, Reply
    <3> QED BY <2>2, <3>1, <3>2, <1>0, <1>4, <1>8, <1>c DEF Confirms
  <2> QED BY <2>1, <2>2, <1>2
<1>r. Refused(ch2, nt2)
  <2> SUFFICES ASSUME NEW f \in Ends, NEW k \in DOMAIN nt2[f], nt2[f][k].kind = "OPEN_FAILURE"
               PROVE  Absent(ch2, Peer(f), nt2[f][k].gen) /\ Alone(nt2, f, k)
    BY DEF Refused
  <2>1. k \in DOMAIN nt[f] /\ nt2[f][k] = nt[f][k]
    BY <1>2, <1>4
  <2>2. nt[f][k].gen # g
    BY <2>1, <1>13 DEF Noise
  <2>3. Absent(ch, Peer(f), nt[f][k].gen) /\ Alone(nt, f, k)
    BY <2>1 DEF NInv, Refused
  <2> QED BY <2>1, <2>2, <2>3, <1>11, <1>15, PeerFacts
<1>z. Closed(ch2, nt2)
  <2>1. \A f \in Ends : \A n, k \in DOMAIN nt2[f] :
         n < k /\ nt2[f][n].kind = "CLOSE" /\ nt2[f][k].gen = nt2[f][n].gen => nt2[f][k].kind = "KEEPALIVE"
    <3> SUFFICES ASSUME NEW f \in Ends, NEW n \in DOMAIN nt2[f], NEW k \in DOMAIN nt2[f],
                        n < k, nt2[f][n].kind = "CLOSE", nt2[f][k].gen = nt2[f][n].gen
                 PROVE  nt2[f][k].kind = "KEEPALIVE"
      OBVIOUS
    <3>1. n \in DOMAIN nt[f] /\ nt2[f][n] = nt[f][n]
      BY <1>2, <1>4
    <3>2. nt[f][n].gen # g
      BY <3>1, <1>13 DEF Noise
    <3>3. k \in DOMAIN nt[f] /\ nt2[f][k] = nt[f][k]
      BY <3>1, <3>2, <1>2, <1>4
    <3> QED BY <3>1, <3>3 DEF NInv, Closed
  <2>2. \A f \in Ends : \A l \in Ids : ch2[f][l] # Free /\ ch2[f][l].CLOSE_RCVD =>
         \A k \in DOMAIN nt2[f] : nt2[f][k].gen = ch2[f][l].gen => nt2[f][k].kind = "KEEPALIVE"
    <3> SUFFICES ASSUME NEW f \in Ends, NEW l \in Ids, ch2[f][l] # Free, ch2[f][l].CLOSE_RCVD,
                        NEW k \in DOMAIN nt2[f], nt2[f][k].gen = ch2[f][l].gen
                 PROVE  nt2[f][k].kind = "KEEPALIVE"
      OBVIOUS
    <3>1. ch2[f][l] = ch[f][l]
      BY <1>8
    <3>2. k \in DOMAIN nt[f] /\ nt2[f][k] = nt[f][k]
      <4>1. f = p => ch[p][l].gen # g
        BY <3>1, <1>0, <1>3, <1>5
      <4> QED BY <4>1, <3>1, <1>2, <1>4
    <3> QED BY <3>1, <3>2 DEF NInv, Closed
  <2> QED BY <2>1, <2>2 DEF Closed
<1>f. Ended(ch2, nt2)
  <2>1. \A f \in Ends : \A x : NoEof(ch, nt, f, x) => NoEof(ch2, nt2, f, x)
    BY SMTT(30), <1>2, <1>4, <1>8 DEF NoEof
  <2>2. NoEof(ch, nt, p, g)
    BY <1>3, <1>5 DEF NoEof, Quiet, Noise
  <2>3. \A f \in Ends : \A l \in Ids :
          ch2[f][l] # Free /\ ~ch2[f][l].EOF_SENT => NoEof(ch2, nt2, Peer(f), ch2[f][l].gen)
    BY <2>1, <2>2, <1>8, PeerFacts DEF NInv, Ended
  <2>4. \A f \in Ends : \A n, k \in DOMAIN nt2[f] :
         n < k /\ nt2[f][n].kind = "EOF" /\ nt2[f][k].gen = nt2[f][n].gen => ~Bytes(nt2[f][k])
    <3> SUFFICES ASSUME NEW f \in Ends, NEW n \in DOMAIN nt2[f], NEW k \in DOMAIN nt2[f],
                        n < k, nt2[f][n].kind = "EOF", nt2[f][k].gen = nt2[f][n].gen
                 PROVE  ~Bytes(nt2[f][k])
      OBVIOUS
    <3>1. n \in DOMAIN nt[f] /\ nt2[f][n] = nt[f][n]
      BY <1>2, <1>4
    <3>2. CASE k \in DOMAIN nt[f] /\ nt2[f][k] = nt[f][k]
      BY <3>1, <3>2 DEF NInv, Ended
    <3> QED BY <3>2, <1>2, <1>4
  <2>5. \A f \in Ends : \A l \in Ids : ch2[f][l] # Free /\ ch2[f][l].EOF_RCVD =>
         \A k \in DOMAIN nt2[f] : nt2[f][k].gen = ch2[f][l].gen => ~Bytes(nt2[f][k])
    BY <1>2, <1>4, <1>8 DEF NInv, Ended
  <2> QED BY <2>3, <2>4, <2>5 DEF Ended
<1> QED BY <1>t, <1>h, <1>u, <1>a, <1>o, <1>l, <1>p, <1>x, <1>r, <1>z, <1>f DEF NInv, ch2, nt2

\* The offer is refused.
LEMMA RefuseKeeps ==
  ASSUME NEW ch, NEW nt, NEW op, NEW e \in Ends, NEW m \in Packet,
         NInv(ch, nt, op), Answerable(ch, nt, e, m.gen, m.to), Absent(ch, e, m.gen),
         m.kind = "OPEN_FAILURE"
  PROVE  NInv(ch, [nt EXCEPT ![Peer(e)] = Append(@, m)], op)
<1> DEFINE p == Peer(e)
           g == m.gen
           j == m.to
           nt2 == [nt EXCEPT ![p] = Append(@, m)]
<1>0. /\ ch \in [Ends -> [Ids -> Channel \cup {Free}]] /\ p \in Ends /\ p # e /\ Peer(p) = e
      /\ nt \in [Ends -> Seq(Packet)]
  BY PeerFacts DEF NInv, Typed
<1>1. /\ nt2 \in [Ends -> Seq(Packet)]
      /\ Grown(nt[p], nt2[p], m)
      /\ \A f \in Ends : f # p => nt2[f] = nt[f]
  BY <1>0, PushFacts
<1> HIDE DEF nt2
<1>2. /\ \A f \in Ends : \A k \in DOMAIN nt[f] : k \in DOMAIN nt2[f] /\ nt2[f][k] = nt[f][k]
      /\ \A f \in Ends : \A k \in DOMAIN nt2[f] :
           \/ k \in DOMAIN nt[f] /\ nt2[f][k] = nt[f][k]
           \/ f = p /\ k \notin DOMAIN nt[f] /\ nt2[f][k] = m
      /\ \A k, l \in DOMAIN nt2[p] : k \notin DOMAIN nt[p] /\ l \notin DOMAIN nt[p] => l = k
      /\ \A f \in Ends : f = e \/ f = p
  BY ZenonT(30), <1>0, <1>1, PeerFacts DEF Grown
<1>3. /\ j \in Ids /\ ch[p][j] # Free /\ ch[p][j].type = "OPENING" /\ ch[p][j].gen = g
      /\ Quiet(nt, e, g) /\ Quiet(nt, p, g) /\ ~ch[p][j].CLOSE_RCVD /\ ~ch[p][j].EOF_RCVD
  BY <1>0 DEF Answerable, NInv, Shaped, Shape
<1>4. /\ m.kind = "OPEN_FAILURE"
      /\ ~Offer(m) /\ Reply(m) /\ ~Bytes(m)
  BY DEF Offer, Reply, Bytes
<1>5. /\ \A l \in Ids : ch[e][l] # Free => ch[e][l].gen # g
      /\ \A l \in Ids : ch[p][l] # Free /\ ch[p][l].gen = g => l = j
  BY <1>0, <1>3 DEF Absent, NInv, OneEach
<1>6. g \in 1..op
  BY <1>0, <1>3 DEF NInv, Typed
<1>13. \A f \in Ends : \A k \in DOMAIN nt[f] : ~Noise(f, nt[f][k]) => nt[f][k].gen # g
  BY <1>2, <1>3 DEF Quiet
<1>14. \A f \in Ends : \A x : x # g =>
         /\ Quiet(nt, f, x) => Quiet(nt2, f, x)
         /\ NoClose(nt, f, x) => NoClose(nt2, f, x)
  BY <1>2, <1>4 DEF Quiet, NoClose
<1>15. \A f \in Ends : \A k \in DOMAIN nt[f] : nt[f][k].gen # g =>
         /\ Alone(nt, f, k) => Alone(nt2, f, k)
         /\ OnlyReply(nt, f, k) => OnlyReply(nt2, f, k)
  BY <1>2, <1>4 DEF Alone, OnlyReply
<1>t. Typed(ch, nt2, op)
  <2>2. \A f \in Ends : \A k \in DOMAIN nt2[f] : nt2[f][k].gen \in 1..op
    BY <1>2, <1>6 DEF NInv, Typed
  <2> QED BY <2>2, <1>1 DEF NInv, Typed
<1>a. Addressed(ch, nt2)
  <2>1. Delivers(ch, p, m)
    BY <1>3 DEF Delivers
  <2> QED BY <2>1, <1>2 DEF NInv, Addressed
<1>o. Offered(ch, nt2)
  <2> SUFFICES ASSUME NEW f \in Ends, NEW k \in DOMAIN nt2[f], Offer(nt2[f][k])
               PROVE  /\ Offers(ch, f, nt2[f][k])
                      /\ Alone(nt2, f, k)
                      /\ Quiet(nt2, Peer(f), nt2[f][k].gen)
    BY DEF Offered
  <2>1. k \in DOMAIN nt[f] /\ nt2[f][k] = nt[f][k]
    BY <1>2, <1>4
  <2>2. Offers(ch, f, nt[f][k]) /\ Alone(nt, f, k) /\ Quiet(nt, Peer(f), nt[f][k].gen)
    BY <2>1 DEF NInv, Offered
  <2>3. nt[f][k].gen # g
    BY SMTT(30), <2>1, <1>13 DEF Offer, Noise
  <2> QED BY <2>1, <2>2, <2>3, <1>14, <1>15, PeerFacts
<1>l. Linked(ch, nt2)
  <2> SUFFICES ASSUME NEW f \in Ends, NEW l \in Ids, ch[f][l] # Free,
                      ch[f][l].type \in {"CONNECTING", "LARVAL", "OPEN"}, ~ch[f][l].CLOSE_SENT
               PROVE  Reaches(ch, nt2, f, ch[f][l])
    BY DEF Linked
  <2>1. Reaches(ch, nt, f, ch[f][l])
    BY DEF NInv, Linked
  <2> DEFINE d == ch[f][l]
             q == Peer(f)
  <2>2. d.gen # g
    BY <2>1, <1>2, <1>3, <1>5
  <2>3. q \in Ends /\ NoClose(nt2, q, d.gen) /\ (Quiet(nt, q, d.gen) => Quiet(nt2, q, d.gen))
    BY <2>1, <2>2, <1>14, PeerFacts DEF Reaches
  <2>6. (\E k \in DOMAIN nt[q] : nt[q][k].gen = d.gen /\ nt[q][k].kind = "CONFIRM")
        => (\E k \in DOMAIN nt2[q] : nt2[q][k].gen = d.gen /\ nt2[q][k].kind = "CONFIRM")
    BY <2>3, <1>2
  <2> QED BY <2>1, <2>3, <2>6 DEF Reaches
<1>p. Opening(ch, nt2)
  <2> SUFFICES ASSUME NEW f \in Ends, NEW l \in Ids, ch[f][l] # Free, ch[f][l].type = "OPENING"
               PROVE  Silent(ch, nt2, Peer(f), ch[f][l].gen) /\ ConfirmFirst(nt2, f, ch[f][l].gen)
    BY DEF Opening
  <2> DEFINE x == ch[f][l].gen
             q == Peer(f)
  <2>2. Silent(ch, nt, q, x) /\ ConfirmFirst(nt, f, x)
    BY DEF NInv, Opening
  <2>3. ConfirmFirst(nt2, f, x)
    <3> SUFFICES ASSUME NEW k \in DOMAIN nt2[f], nt2[f][k].gen = x, ~Noise(f, nt2[f][k]), ~Reply(nt2[f][k])
                 PROVE  \E n \in DOMAIN nt2[f] : n < k /\ nt2[f][n].gen = x /\ nt2[f][n].kind = "CONFIRM"
      BY DEF ConfirmFirst
    <3>1. k \in DOMAIN nt[f] /\ nt2[f][k] = nt[f][k]
      BY <1>2, <1>4
    <3>2. PICK n \in DOMAIN nt[f] : n < k /\ nt[f][n].gen = x /\ nt[f][n].kind = "CONFIRM"
      BY <2>2, <3>1 DEF ConfirmFirst
    <3> QED BY <3>2, <1>2
  <2>5. ASSUME NEW k \in DOMAIN nt2[q], nt2[q][k].gen = x
        PROVE  Offer(nt2[q][k]) \/ Noise(q, nt2[q][k])
    <3>1. q = p => x # g
      BY <1>0, <1>5, PeerFacts
    <3>2. k \in DOMAIN nt[q] /\ nt2[q][k] = nt[q][k]
      BY <2>5, <3>1, <1>2, PeerFacts
    <3> QED BY <3>2, <2>5, <2>2 DEF Silent
  <2> QED BY <2>2, <2>3, <2>5 DEF Silent
<1>x. Confirmed(ch, nt2)
  <2> SUFFICES ASSUME NEW f \in Ends, NEW k \in DOMAIN nt2[f], nt2[f][k].kind = "CONFIRM"
               PROVE  Confirms(ch, f, nt2[f][k]) /\ OnlyReply(nt2, f, k)
    BY DEF Confirmed
  <2>1. k \in DOMAIN nt[f] /\ nt2[f][k] = nt[f][k]
    BY <1>2, <1>4
  <2>2. Confirms(ch, f, nt[f][k]) /\ OnlyReply(nt, f, k)
    BY <2>1 DEF NInv, Confirmed
  <2>3. nt[f][k].gen # g
    BY <2>1, <1>13 DEF Noise
  <2> QED BY <2>1, <2>2, <2>3, <1>15
<1>r. Refused(ch, nt2)
  <2> SUFFICES ASSUME NEW f \in Ends, NEW k \in DOMAIN nt2[f], nt2[f][k].kind = "OPEN_FAILURE"
               PROVE  Absent(ch, Peer(f), nt2[f][k].gen) /\ Alone(nt2, f, k)
    BY DEF Refused
  <2>1. CASE k \in DOMAIN nt[f] /\ nt2[f][k] = nt[f][k]
    <3>2. nt[f][k].gen # g
      BY <2>1, <1>13 DEF Noise
    <3>3. Absent(ch, Peer(f), nt[f][k].gen) /\ Alone(nt, f, k)
      BY <2>1 DEF NInv, Refused
    <3> QED BY <2>1, <3>2, <3>3, <1>15
  <2>2. CASE f = p /\ k \notin DOMAIN nt[f] /\ nt2[f][k] = m
    <3>1. ASSUME NEW l \in DOMAIN nt2[p], l # k, nt2[p][l].gen = nt2[p][k].gen
          PROVE  Noise(p, nt2[p][l])
      <4>1. l \in DOMAIN nt[p] /\ nt2[p][l] = nt[p][l] /\ nt[p][l].gen = g
        BY <3>1, <2>2, <1>2, <1>0
      <4> QED BY <4>1, <1>3 DEF Quiet
    <3> QED BY <2>2, <3>1, <1>0 DEF Alone
  <2> QED BY <2>1, <2>2, <1>2
<1>z. Closed(ch, nt2)
  <2>1. \A f \in Ends : \A n, k \in DOMAIN nt2[f] :
         n < k /\ nt2[f][n].kind = "CLOSE" /\ nt2[f][k].gen = nt2[f][n].gen => nt2[f][k].kind = "KEEPALIVE"
    <3> SUFFICES ASSUME NEW f \in Ends, NEW n \in DOMAIN nt2[f], NEW k \in DOMAIN nt2[f],
                        n < k, nt2[f][n].kind = "CLOSE", nt2[f][k].gen = nt2[f][n].gen
                 PROVE  nt2[f][k].kind = "KEEPALIVE"
      OBVIOUS
    <3>1. n \in DOMAIN nt[f] /\ nt2[f][n] = nt[f][n]
      BY <1>2, <1>4
    <3>2. nt[f][n].gen # g
      BY <3>1, <1>13 DEF Noise
    <3>3. k \in DOMAIN nt[f] /\ nt2[f][k] = nt[f][k]
      BY <3>1, <3>2, <1>2
    <3> QED BY <3>1, <3>3 DEF NInv, Closed
  <2>2. \A f \in Ends : \A l \in Ids : ch[f][l] # Free /\ ch[f][l].CLOSE_RCVD =>
         \A k \in DOMAIN nt2[f] : nt2[f][k].gen = ch[f][l].gen => nt2[f][k].kind = "KEEPALIVE"
    <3> SUFFICES ASSUME NEW f \in Ends, NEW l \in Ids, ch[f][l] # Free, ch[f][l].CLOSE_RCVD,
                        NEW k \in DOMAIN nt2[f], nt2[f][k].gen = ch[f][l].gen
                 PROVE  nt2[f][k].kind = "KEEPALIVE"
      OBVIOUS
    <3>1. f = p => ch[p][l].gen # g
      BY <1>3, <1>5
    <3>2. k \in DOMAIN nt[f] /\ nt2[f][k] = nt[f][k]
      BY <3>1, <1>2
    <3> QED BY <3>2 DEF NInv, Closed
  <2> QED BY <2>1, <2>2 DEF Closed
<1>f. Ended(ch, nt2)
  <2>1. \A f \in Ends : \A x : NoEof(ch, nt, f, x) => NoEof(ch, nt2, f, x)
    BY <1>2, <1>4 DEF NoEof
  <2>3. \A f \in Ends : \A l \in Ids :
          ch[f][l] # Free /\ ~ch[f][l].EOF_SENT => NoEof(ch, nt2, Peer(f), ch[f][l].gen)
    BY <2>1, PeerFacts DEF NInv, Ended
  <2>4. \A f \in Ends : \A n, k \in DOMAIN nt2[f] :
         n < k /\ nt2[f][n].kind = "EOF" /\ nt2[f][k].gen = nt2[f][n].gen => ~Bytes(nt2[f][k])
    <3> SUFFICES ASSUME NEW f \in Ends, NEW n \in DOMAIN nt2[f], NEW k \in DOMAIN nt2[f],
                        n < k, nt2[f][n].kind = "EOF", nt2[f][k].gen = nt2[f][n].gen
                 PROVE  ~Bytes(nt2[f][k])
      OBVIOUS
    <3>1. n \in DOMAIN nt[f] /\ nt2[f][n] = nt[f][n]
      BY <1>2, <1>4
    <3>2. CASE k \in DOMAIN nt[f] /\ nt2[f][k] = nt[f][k]
      BY <3>1, <3>2 DEF NInv, Ended
    <3> QED BY <3>2, <1>2, <1>4
  <2>5. \A f \in Ends : \A l \in Ids : ch[f][l] # Free /\ ch[f][l].EOF_RCVD =>
         \A k \in DOMAIN nt2[f] : nt2[f][k].gen = ch[f][l].gen => ~Bytes(nt2[f][k])
    BY <1>2, <1>4 DEF NInv, Ended
  <2> QED BY <2>3, <2>4, <2>5 DEF Ended
<1> QED BY <1>t, <1>a, <1>o, <1>l, <1>p, <1>x, <1>r, <1>z, <1>f DEF NInv, nt2

\* channel_new() and CHANNEL_OPEN: channel op + 1 is offered to the peer.
LEMMA OfferKeeps ==
  ASSUME NEW ch, NEW nt, NEW op, NEW e \in Ends, NEW i \in Ids, NEW c \in Channel, NEW m \in Packet,
         NInv(ch, nt, op), ch[e][i] = Free, Shape(e, c), c.type = "OPENING", c.gen = op + 1,
         Offer(m), m.to = -1, m.sid = i, m.gen = op + 1, m.kind = "OPEN_session" => Peer(e) = "S"
  PROVE  NInv([ch EXCEPT ![e][i] = c], [nt EXCEPT ![Peer(e)] = Append(@, m)], op + 1)
<1> DEFINE p == Peer(e)
           g == op + 1
           ch2 == [ch EXCEPT ![e][i] = c]
           nt2 == [nt EXCEPT ![p] = Append(@, m)]
<1>0. /\ ch \in [Ends -> [Ids -> Channel \cup {Free}]] /\ p \in Ends /\ p # e /\ Peer(p) = e
      /\ nt \in [Ends -> Seq(Packet)] /\ op \in Nat
  BY PeerFacts DEF NInv, Typed
<1>c. c # Free /\ ~c.EOF_RCVD /\ ~c.CLOSE_RCVD
  BY UsedFacts DEF Shape
<1>1. Put(ch, ch2, e, i, c)
  BY <1>0, PutFacts
<1>2. /\ nt2 \in [Ends -> Seq(Packet)]
      /\ Grown(nt[p], nt2[p], m)
      /\ \A f \in Ends : f # p => nt2[f] = nt[f]
  BY <1>0, PushFacts
<1>n. /\ \A f \in Ends, l \in Ids : ch[f][l] # Free => ch[f][l].gen # g
      /\ \A f \in Ends : \A k \in DOMAIN nt[f] : nt[f][k].gen # g
  BY <1>0 DEF NInv, Typed
<1>4. /\ m.gen = g /\ m.to = -1 /\ m.sid = i /\ Offer(m) /\ (m.kind = "OPEN_session" => p = "S")
      /\ ~Noise(p, m) /\ ~Reply(m) /\ ~Bytes(m) /\ m.kind # "CLOSE" /\ m.kind # "EOF"
      /\ m.kind # "CONFIRM" /\ m.kind # "OPEN_FAILURE" /\ c.gen = g /\ c.type = "OPENING"
  BY DEF Offer, Noise, Reply, Bytes
<1> HIDE DEF ch2, nt2, g
<1>3. /\ \A f \in Ends : \A k \in DOMAIN nt[f] : k \in DOMAIN nt2[f] /\ nt2[f][k] = nt[f][k]
      /\ \A f \in Ends : \A k \in DOMAIN nt2[f] :
           \/ k \in DOMAIN nt[f] /\ nt2[f][k] = nt[f][k]
           \/ f = p /\ k \notin DOMAIN nt[f] /\ nt2[f][k] = m
      /\ \A k, l \in DOMAIN nt2[p] : k \notin DOMAIN nt[p] /\ l \notin DOMAIN nt[p] => l = k
      /\ \A f \in Ends : f = e \/ f = p
  <2>1. \A f \in Ends : f = e \/ f = p
    BY PeerFacts
  <2>2. /\ \A k \in DOMAIN nt[p] : k \in DOMAIN nt2[p] /\ nt2[p][k] = nt[p][k]
        /\ \A k \in DOMAIN nt2[p] : \/ k \in DOMAIN nt[p] /\ nt2[p][k] = nt[p][k]
                                    \/ k \notin DOMAIN nt[p] /\ nt2[p][k] = m
        /\ \A k, l \in DOMAIN nt2[p] : k \notin DOMAIN nt[p] /\ l \notin DOMAIN nt[p] => l = k
    BY <1>2 DEF Grown
  <2>3. nt2[e] = nt[e]
    BY <1>0, <1>2
  <2> QED BY <2>1, <2>2, <2>3
<1>8. /\ ch2[e][i] = c /\ ch[e][i] = Free
      /\ \A f \in Ends, l \in Ids : (f = e /\ l = i) \/ ch2[f][l] = ch[f][l]
      /\ \A l \in Ids : ch2[p][l] = ch[p][l]
  <2>1. ch[e][i] = Free
    OBVIOUS
  <2> QED BY <2>1, <1>0, <1>1 DEF Put
<1>11. \A f \in Ends : \A x : x # g /\ Absent(ch, f, x) => Absent(ch2, f, x)
  BY <1>4, <1>8 DEF Absent
<1>14. \A f \in Ends : \A x : x # g =>
         /\ Quiet(nt, f, x) => Quiet(nt2, f, x)
         /\ NoClose(nt, f, x) => NoClose(nt2, f, x)
  BY <1>3, <1>4 DEF Quiet, NoClose
<1>15. \A f \in Ends : \A k \in DOMAIN nt[f] :
         /\ Alone(nt, f, k) => Alone(nt2, f, k)
         /\ OnlyReply(nt, f, k) => OnlyReply(nt2, f, k)
  BY <1>3, <1>4, <1>n DEF Alone, OnlyReply
<1>16. \A f \in Ends, l \in Ids : ch2[f][l] # Free =>
         (f = e /\ l = i) \/ (ch[f][l] # Free /\ ch2[f][l] = ch[f][l] /\ ch[f][l].gen # g)
  BY <1>8, <1>n
<1>t. Typed(ch2, nt2, op + 1)
  <2>0. \A x \in 1..op : x \in 1..(op + 1)
    BY <1>0
  <2>00. g \in 1..(op + 1)
    BY <1>0 DEF g
  <2>1. \A f \in Ends, l \in Ids : ch2[f][l] # Free => ch2[f][l].gen \in 1..(op + 1)
    BY <2>0, <2>00, <1>8, <1>4 DEF NInv, Typed
  <2>2. \A f \in Ends : \A k \in DOMAIN nt2[f] : nt2[f][k].gen \in 1..(op + 1)
    <3>1. \A f \in Ends : \A k \in DOMAIN nt[f] : nt[f][k].gen \in 1..(op + 1)
      BY <2>0 DEF NInv, Typed
    <3> QED BY <3>1, <2>00, <1>3, <1>4
  <2>3. op + 1 \in Nat
    BY <1>0
  <2> QED BY <2>1, <2>2, <2>3, <1>1, <1>2 DEF Put, Typed
<1>h. Shaped(ch2)
  BY <1>8 DEF NInv, Shaped
<1>u. OneEach(ch2)
  BY <1>4, <1>8, <1>16 DEF NInv, OneEach
<1>a. Addressed(ch2, nt2)
  <2> SUFFICES ASSUME NEW f \in Ends, NEW k \in DOMAIN nt2[f], ~Noise(f, nt2[f][k]), ~Offer(nt2[f][k])
               PROVE  Delivers(ch2, f, nt2[f][k])
    BY DEF Addressed
  <2>1. k \in DOMAIN nt[f] /\ nt2[f][k] = nt[f][k]
    BY <1>3, <1>4
  <2>2. Delivers(ch, f, nt[f][k])
    BY <2>1 DEF NInv, Addressed
  <2> QED BY <2>1, <2>2, <1>8 DEF Delivers
<1>o. Offered(ch2, nt2)
  <2> SUFFICES ASSUME NEW f \in Ends, NEW k \in DOMAIN nt2[f], Offer(nt2[f][k])
               PROVE  /\ Offers(ch2, f, nt2[f][k])
                      /\ Alone(nt2, f, k)
                      /\ Quiet(nt2, Peer(f), nt2[f][k].gen)
    BY DEF Offered
  <2>1. CASE k \in DOMAIN nt[f] /\ nt2[f][k] = nt[f][k]
    <3>2. Offers(ch, f, nt[f][k]) /\ Alone(nt, f, k) /\ Quiet(nt, Peer(f), nt[f][k].gen)
      BY <2>1 DEF NInv, Offered
    <3>3. nt[f][k].gen # g
      BY <2>1, <1>n
    <3>5. Offers(ch2, f, nt[f][k])
      BY <3>2, <3>3, <1>8, <1>11, PeerFacts DEF Offers
    <3> QED BY <2>1, <3>2, <3>3, <3>5, <1>14, <1>15, PeerFacts
  <2>2. CASE f = p /\ k \notin DOMAIN nt[f] /\ nt2[f][k] = m
    <3>1. Absent(ch2, p, g)
      BY <1>0, <1>8, <1>n DEF Absent
    <3>2. Offers(ch2, p, m)
      BY <3>1, <1>0, <1>4, <1>8, <1>c DEF Offers
    <3>3. Alone(nt2, p, k)
      BY <2>2, <1>0, <1>3, <1>4, <1>n DEF Alone
    <3>4. Quiet(nt2, e, g)
      BY SMTT(30), <1>0, <1>3, <1>n DEF Quiet
    <3> QED BY <2>2, <3>2, <3>3, <3>4, <1>0, <1>4
  <2> QED BY <2>1, <2>2, <1>3
<1>l. Linked(ch2, nt2)
  <2> SUFFICES ASSUME NEW f \in Ends, NEW l \in Ids, ch2[f][l] # Free,
                      ch2[f][l].type \in {"CONNECTING", "LARVAL", "OPEN"}, ~ch2[f][l].CLOSE_SENT
               PROVE  Reaches(ch2, nt2, f, ch2[f][l])
    BY DEF Linked
  <2>1. ch[f][l] # Free /\ ch2[f][l] = ch[f][l] /\ ch[f][l].gen # g
    BY <1>4, <1>8, <1>16
  <2>2. Reaches(ch, nt, f, ch[f][l])
    BY <2>1 DEF NInv, Linked
  <2> DEFINE d == ch[f][l]
             q == Peer(f)
  <2>3. q \in Ends /\ NoClose(nt2, q, d.gen) /\ (Quiet(nt, q, d.gen) => Quiet(nt2, q, d.gen))
    BY <2>1, <2>2, <1>14, PeerFacts DEF Reaches
  <2>4. ch2[q][d.rid] = ch[q][d.rid]
    BY <2>2, <2>3, <1>8 DEF Reaches
  <2>6. (\E k \in DOMAIN nt[q] : nt[q][k].gen = d.gen /\ nt[q][k].kind = "CONFIRM")
        => (\E k \in DOMAIN nt2[q] : nt2[q][k].gen = d.gen /\ nt2[q][k].kind = "CONFIRM")
    BY <2>3, <1>3
  <2> QED BY <2>1, <2>2, <2>3, <2>4, <2>6 DEF Reaches
<1>p. Opening(ch2, nt2)
  <2> SUFFICES ASSUME NEW f \in Ends, NEW l \in Ids, ch2[f][l] # Free, ch2[f][l].type = "OPENING"
               PROVE  Silent(ch2, nt2, Peer(f), ch2[f][l].gen) /\ ConfirmFirst(nt2, f, ch2[f][l].gen)
    BY DEF Opening
  <2>1. CASE f = e /\ l = i
    <3>1. Silent(ch2, nt2, p, g)
      <4>1. ASSUME NEW k \in DOMAIN nt2[p], nt2[p][k].gen = g
            PROVE  Offer(nt2[p][k])
        <5>1. nt2[p][k] = m
          BY <4>1, <1>0, <1>3, <1>n
        <5> QED BY <5>1, <1>4
      <4>2. \A n \in Ids : ch2[p][n] # Free => ch2[p][n].gen # g
        BY <1>0, <1>8, <1>n
      <4> QED BY <4>1, <4>2 DEF Silent
    <3>2. ConfirmFirst(nt2, e, g)
      BY <1>0, <1>3, <1>n DEF ConfirmFirst
    <3> QED BY <2>1, <3>1, <3>2, <1>4, <1>8
  <2>2. CASE ch[f][l] # Free /\ ch2[f][l] = ch[f][l] /\ ch[f][l].gen # g
    <3> DEFINE x == ch[f][l].gen
               q == Peer(f)
    <3>2. Silent(ch, nt, q, x) /\ ConfirmFirst(nt, f, x)
      BY <2>2 DEF NInv, Opening
    <3>3. ConfirmFirst(nt2, f, x)
      <4> SUFFICES ASSUME NEW k \in DOMAIN nt2[f], nt2[f][k].gen = x, ~Noise(f, nt2[f][k]), ~Reply(nt2[f][k])
                   PROVE  \E n \in DOMAIN nt2[f] : n < k /\ nt2[f][n].gen = x /\ nt2[f][n].kind = "CONFIRM"
        BY DEF ConfirmFirst
      <4>1. k \in DOMAIN nt[f] /\ nt2[f][k] = nt[f][k]
        BY <2>2, <1>3, <1>4
      <4>2. PICK n \in DOMAIN nt[f] : n < k /\ nt[f][n].gen = x /\ nt[f][n].kind = "CONFIRM"
        BY <3>2, <4>1 DEF ConfirmFirst
      <4> QED BY <4>2, <1>3
    <3>4. \A n \in Ids : ch2[q][n] # Free /\ ch2[q][n].gen = x => ~ch2[q][n].CLOSE_RCVD
      BY <3>2, <1>8, <1>c, PeerFacts DEF Silent
    <3>5. \A k \in DOMAIN nt2[q] : nt2[q][k].gen = x => Offer(nt2[q][k]) \/ Noise(q, nt2[q][k])
      BY <3>2, <1>3, <1>4, PeerFacts DEF Silent
    <3> QED BY <2>2, <3>3, <3>4, <3>5 DEF Silent
  <2> QED BY <2>1, <2>2, <1>16
<1>x. Confirmed(ch2, nt2)
  <2> SUFFICES ASSUME NEW f \in Ends, NEW k \in DOMAIN nt2[f], nt2[f][k].kind = "CONFIRM"
               PROVE  Confirms(ch2, f, nt2[f][k]) /\ OnlyReply(nt2, f, k)
    BY DEF Confirmed
  <2>1. k \in DOMAIN nt[f] /\ nt2[f][k] = nt[f][k]
    BY <1>3, <1>4
  <2>2. Confirms(ch, f, nt[f][k]) /\ OnlyReply(nt, f, k)
    BY <2>1 DEF NInv, Confirmed
  <2>3. Confirms(ch2, f, nt[f][k])
    BY <2>2, <1>8, PeerFacts DEF Confirms
  <2> QED BY <2>1, <2>2, <2>3, <1>15
<1>r. Refused(ch2, nt2)
  <2> SUFFICES ASSUME NEW f \in Ends, NEW k \in DOMAIN nt2[f], nt2[f][k].kind = "OPEN_FAILURE"
               PROVE  Absent(ch2, Peer(f), nt2[f][k].gen) /\ Alone(nt2, f, k)
    BY DEF Refused
  <2>1. k \in DOMAIN nt[f] /\ nt2[f][k] = nt[f][k] /\ nt[f][k].gen # g
    BY <1>3, <1>4, <1>n
  <2>3. Absent(ch, Peer(f), nt[f][k].gen) /\ Alone(nt, f, k)
    BY <2>1 DEF NInv, Refused
  <2> QED BY <2>1, <2>3, <1>11, <1>15, PeerFacts
<1>z. Closed(ch2, nt2)
  <2>1. \A f \in Ends : \A n, k \in DOMAIN nt2[f] :
         n < k /\ nt2[f][n].kind = "CLOSE" /\ nt2[f][k].gen = nt2[f][n].gen => nt2[f][k].kind = "KEEPALIVE"
    <3> SUFFICES ASSUME NEW f \in Ends, NEW n \in DOMAIN nt2[f], NEW k \in DOMAIN nt2[f],
                        n < k, nt2[f][n].kind = "CLOSE", nt2[f][k].gen = nt2[f][n].gen
                 PROVE  nt2[f][k].kind = "KEEPALIVE"
      OBVIOUS
    <3>1. n \in DOMAIN nt[f] /\ nt2[f][n] = nt[f][n]
      BY <1>3, <1>4
    <3>3. k \in DOMAIN nt[f] /\ nt2[f][k] = nt[f][k]
      BY <3>1, <1>3, <1>4, <1>n
    <3> QED BY <3>1, <3>3 DEF NInv, Closed
  <2>2. \A f \in Ends : \A l \in Ids : ch2[f][l] # Free /\ ch2[f][l].CLOSE_RCVD =>
         \A k \in DOMAIN nt2[f] : nt2[f][k].gen = ch2[f][l].gen => nt2[f][k].kind = "KEEPALIVE"
    <3> SUFFICES ASSUME NEW f \in Ends, NEW l \in Ids, ch2[f][l] # Free, ch2[f][l].CLOSE_RCVD,
                        NEW k \in DOMAIN nt2[f], nt2[f][k].gen = ch2[f][l].gen
                 PROVE  nt2[f][k].kind = "KEEPALIVE"
      OBVIOUS
    <3>1. ch[f][l] # Free /\ ch2[f][l] = ch[f][l] /\ ch[f][l].gen # g
      BY <1>8, <1>c, <1>16
    <3>2. k \in DOMAIN nt[f] /\ nt2[f][k] = nt[f][k]
      BY <3>1, <1>3, <1>4
    <3> QED BY <3>1, <3>2 DEF NInv, Closed
  <2> QED BY <2>1, <2>2 DEF Closed
<1>f. Ended(ch2, nt2)
  <2>1. \A f \in Ends : \A x : NoEof(ch, nt, f, x) => NoEof(ch2, nt2, f, x)
    BY <1>3, <1>4, <1>8, <1>c DEF NoEof
  <2>2. NoEof(ch, nt, p, g)
    BY <1>0, <1>n DEF NoEof
  <2>3. \A f \in Ends : \A l \in Ids :
          ch2[f][l] # Free /\ ~ch2[f][l].EOF_SENT => NoEof(ch2, nt2, Peer(f), ch2[f][l].gen)
    BY <2>1, <2>2, <1>4, <1>8, PeerFacts DEF NInv, Ended
  <2>4. \A f \in Ends : \A n, k \in DOMAIN nt2[f] :
         n < k /\ nt2[f][n].kind = "EOF" /\ nt2[f][k].gen = nt2[f][n].gen => ~Bytes(nt2[f][k])
    <3> SUFFICES ASSUME NEW f \in Ends, NEW n \in DOMAIN nt2[f], NEW k \in DOMAIN nt2[f],
                        n < k, nt2[f][n].kind = "EOF", nt2[f][k].gen = nt2[f][n].gen
                 PROVE  ~Bytes(nt2[f][k])
      OBVIOUS
    <3>1. n \in DOMAIN nt[f] /\ nt2[f][n] = nt[f][n]
      BY <1>3, <1>4
    <3>2. CASE k \in DOMAIN nt[f] /\ nt2[f][k] = nt[f][k]
      BY <3>1, <3>2 DEF NInv, Ended
    <3> QED BY <3>2, <1>3, <1>4
  <2>5. \A f \in Ends : \A l \in Ids : ch2[f][l] # Free /\ ch2[f][l].EOF_RCVD =>
         \A k \in DOMAIN nt2[f] : nt2[f][k].gen = ch2[f][l].gen => ~Bytes(nt2[f][k])
    BY <1>3, <1>4, <1>8, <1>c DEF NInv, Ended
  <2> QED BY <2>3, <2>4, <2>5 DEF Ended
<1> QED BY <1>t, <1>h, <1>u, <1>a, <1>o, <1>l, <1>p, <1>x, <1>r, <1>z, <1>f DEF NInv, ch2, nt2

-----------------------------------------------------------------------------
(* Handlers: a channel that changes and the messages it sends.             *)

\* What a channel says, before it is addressed.
Note == [kind : Kinds, n : Nat]

\* Channel b of end e, which becomes c, may send x.
Sayable(e, b, c, x) ==
  /\ b.type \in {"LARVAL", "OPEN"} /\ ~b.CLOSE_SENT
  /\ x \in Note /\ ~Noise(Peer(e), x) /\ ~Offer(x) /\ ~Reply(x)
  /\ x.kind = "CLOSE" => c.CLOSE_SENT
  /\ x.kind = "EOF" => c.EOF_SENT
  /\ Bytes(x) => ~b.EOF_SENT

\* Notes become packets.
LEMMA MessageFacts ==
  ASSUME NEW c \in Channel, NEW i \in Ids, NEW x \in Note
  PROVE  /\ Message(c, i, x) \in Packet
         /\ Message(c, i, x).kind = x.kind /\ Message(c, i, x).gen = c.gen
         /\ Message(c, i, x).to = c.rid /\ Message(c, i, x).sid = i
<1>1. x.kind \in Kinds /\ x.n \in Nat /\ c.rid \in Ids \cup {-1} /\ c.gen \in Nat
  BY DEF Note, Channel
<1> QED BY <1>1 DEF Message, Packet

\* A note is of the class of the message it becomes.
LEMMA KindFacts ==
  ASSUME NEW e, NEW m, NEW x, m.kind = x.kind
  PROVE  /\ Noise(e, m) = Noise(e, x) /\ Offer(m) = Offer(x)
         /\ Reply(m) = Reply(x) /\ Bytes(m) = Bytes(x)
BY DEF Noise, Offer, Reply, Bytes

\* The channel changes and sends one message.
LEMMA SayOne ==
  ASSUME NEW ch, NEW nt, NEW op, NEW e \in Ends, NEW i \in Ids, NEW c, NEW x,
         NInv(ch, nt, op), MayTurn(ch, nt, e, i, c), Sayable(e, ch[e][i], c, x)
  PROVE  LET ch2 == [ch EXCEPT ![e][i] = c]
             nt2 == [nt EXCEPT ![Peer(e)] = Append(@, Message(c, i, x))]
         IN  /\ NInv(ch2, nt2, op) /\ ch2[e][i] = c
             /\ x.kind # "CLOSE" => Reaches(ch2, nt2, e, c)
             /\ x.kind # "EOF" /\ ~ch[e][i].EOF_SENT => NoEof(ch2, nt2, Peer(e), c.gen)
<1> DEFINE b == ch[e][i]
           ch2 == [ch EXCEPT ![e][i] = c]
           m == Message(c, i, x)
<1>1. /\ b # Free /\ c \in Channel /\ c.gen = b.gen /\ c.rid = b.rid
      /\ c.type = b.type \/ (b.type = "LARVAL" /\ c.type = "OPEN")
  BY DEF MayTurn
<1>2. /\ b.type \in {"LARVAL", "OPEN"} /\ ~b.CLOSE_SENT
      /\ x \in Note /\ ~Noise(Peer(e), x) /\ ~Offer(x) /\ ~Reply(x)
      /\ x.kind = "CLOSE" => c.CLOSE_SENT
      /\ x.kind = "EOF" => c.EOF_SENT
      /\ Bytes(x) => ~b.EOF_SENT
  BY DEF Sayable
<1>3. Reaches(ch, nt, e, b)
  BY <1>1, <1>2 DEF NInv, Linked
<1>4. ~b.EOF_SENT => NoEof(ch, nt, Peer(e), c.gen)
  BY <1>1 DEF NInv, Ended
<1>5. /\ NInv(ch2, nt, op) /\ ch2[e][i] = c
      /\ Reaches(ch2, nt, e, c)
      /\ ~b.EOF_SENT => NoEof(ch2, nt, Peer(e), c.gen)
  <2>1. /\ NInv(ch2, nt, op)
        /\ ch2[e][i] = c
        /\ b.type # "CONNECTING" /\ Reaches(ch, nt, e, b) => Reaches(ch2, nt, e, c)
        /\ NoEof(ch, nt, Peer(e), c.gen) => NoEof(ch2, nt, Peer(e), c.gen)
    BY TurnKeeps
  <2> HIDE DEF ch2
  <2> QED BY <2>1, <1>2, <1>3, <1>4
<1>6. /\ m \in Packet /\ m.kind = x.kind /\ m.gen = c.gen /\ m.to = c.rid
  BY <1>1, <1>2, MessageFacts
<1>7. c # Free
  BY <1>1, UsedFacts
<1> HIDE DEF ch2, m
<1>8. ~Noise(Peer(e), m) /\ ~Offer(m) /\ ~Reply(m) /\ Bytes(m) = Bytes(x)
  <2>1. m.kind = x.kind
    BY <1>6
  <2>2. /\ Noise(Peer(e), m) = Noise(Peer(e), x) /\ Offer(m) = Offer(x)
        /\ Reply(m) = Reply(x) /\ Bytes(m) = Bytes(x)
    BY <2>1, KindFacts
  <2> QED BY <2>2, <1>2
<1>9. MaySay(ch2, nt, e, i, m)
  BY <1>1, <1>2, <1>5, <1>6, <1>7, <1>8 DEF MaySay
<1>10. LET nt2 == [nt EXCEPT ![Peer(e)] = Append(@, m)] IN
         /\ NInv(ch2, nt2, op)
         /\ m.kind # "CLOSE" => Reaches(ch2, nt2, e, ch2[e][i])
         /\ m.kind # "EOF" /\ NoEof(ch2, nt, Peer(e), ch2[e][i].gen) =>
              NoEof(ch2, nt2, Peer(e), ch2[e][i].gen)
  BY <1>5, <1>9, PushKeeps
<1> QED BY <1>5, <1>6, <1>10 DEF ch2, m

\* It sends two, of which the first is not the last of its kind.
LEMMA SayTwo ==
  ASSUME NEW ch, NEW nt, NEW op, NEW e \in Ends, NEW i \in Ids, NEW c, NEW x, NEW y,
         NInv(ch, nt, op), MayTurn(ch, nt, e, i, c), Sayable(e, ch[e][i], c, x),
         Sayable(e, ch[e][i], c, y), x.kind \notin {"CLOSE", "EOF"}
  PROVE  LET ch2 == [ch EXCEPT ![e][i] = c]
             nt2 == [nt EXCEPT ![Peer(e)] = Append(@, Message(c, i, x))]
         IN  NInv(ch2, [nt2 EXCEPT ![Peer(e)] = Append(@, Message(c, i, y))], op)
<1> DEFINE b == ch[e][i]
           ch2 == [ch EXCEPT ![e][i] = c]
           nt2 == [nt EXCEPT ![Peer(e)] = Append(@, Message(c, i, x))]
           m == Message(c, i, y)
<1>1. /\ NInv(ch2, nt2, op) /\ ch2[e][i] = c
      /\ Reaches(ch2, nt2, e, c)
      /\ ~b.EOF_SENT => NoEof(ch2, nt2, Peer(e), c.gen)
  <2>1. /\ NInv(ch2, nt2, op) /\ ch2[e][i] = c
        /\ x.kind # "CLOSE" => Reaches(ch2, nt2, e, c)
        /\ x.kind # "EOF" /\ ~b.EOF_SENT => NoEof(ch2, nt2, Peer(e), c.gen)
    BY SayOne
  <2> HIDE DEF ch2, nt2
  <2> QED BY <2>1
<1>2. /\ b # Free /\ c \in Channel
      /\ c.type = b.type \/ (b.type = "LARVAL" /\ c.type = "OPEN")
  BY DEF MayTurn
<1>3. /\ b.type \in {"LARVAL", "OPEN"}
      /\ y \in Note /\ ~Noise(Peer(e), y) /\ ~Offer(y) /\ ~Reply(y)
      /\ y.kind = "CLOSE" => c.CLOSE_SENT
      /\ y.kind = "EOF" => c.EOF_SENT
      /\ Bytes(y) => ~b.EOF_SENT
  BY DEF Sayable
<1>6. /\ m \in Packet /\ m.kind = y.kind /\ m.gen = c.gen /\ m.to = c.rid
  BY <1>2, <1>3, MessageFacts
<1>7. c # Free
  BY <1>2, UsedFacts
<1> HIDE DEF ch2, nt2, m
<1>8. ~Noise(Peer(e), m) /\ ~Offer(m) /\ ~Reply(m) /\ Bytes(m) = Bytes(y)
  <2>1. m.kind = y.kind
    BY <1>6
  <2>2. /\ Noise(Peer(e), m) = Noise(Peer(e), y) /\ Offer(m) = Offer(y)
        /\ Reply(m) = Reply(y) /\ Bytes(m) = Bytes(y)
    BY <2>1, KindFacts
  <2> QED BY <2>2, <1>3
<1>9. MaySay(ch2, nt2, e, i, m)
  BY <1>1, <1>2, <1>3, <1>6, <1>7, <1>8 DEF MaySay
<1>10. NInv(ch2, [nt2 EXCEPT ![Peer(e)] = Append(@, m)], op)
  BY <1>1, <1>9, PushKeeps
<1> QED BY <1>10 DEF ch2, nt2, m

\* The messages out of a handler, in terms of Append.
Told(nt, f, m) == [nt EXCEPT ![f] = Append(@, m)]
\* ... and everything that handling a channel produced.
Sent(nt, f, i, r) == [nt EXCEPT ![f] = @ \o Outgoing(i, r)]

\* The messages of zero, one or two notes.
LEMMA OutgoingFacts ==
  ASSUME NEW nt \in [Ends -> Seq(Packet)], NEW f \in Ends, NEW i \in Ids, NEW r, r.c \in Channel
  PROVE  /\ r.out = <<>> => Sent(nt, f, i, r) = nt
         /\ \A x \in Note : r.out = <<x>> => Sent(nt, f, i, r) = Told(nt, f, Message(r.c, i, x))
         /\ \A x, y \in Note : r.out = <<x, y>> =>
              Sent(nt, f, i, r) = Told(Told(nt, f, Message(r.c, i, x)), f, Message(r.c, i, y))
<1> DEFINE q == nt[f]
           o == Outgoing(i, r)
<1>0. q \in Seq(Packet)
  OBVIOUS
<1>1. ASSUME r.out = <<>>
      PROVE  [nt EXCEPT ![f] = @ \o o] = nt
  <2>1. o = <<>>
    BY <1>1 DEF Outgoing
  <2>2. q \o <<>> = q
    BY <1>0
  <2> QED BY <2>1, <2>2
<1>2. ASSUME NEW x \in Note, r.out = <<x>>
      PROVE  [nt EXCEPT ![f] = @ \o o] = [nt EXCEPT ![f] = Append(@, Message(r.c, i, x))]
  <2> DEFINE m == Message(r.c, i, x)
  <2>1. o = <<m>>
    BY <1>2 DEF Outgoing
  <2>2. m \in Packet
    BY MessageFacts
  <2> HIDE DEF m
  <2>3. q \o <<m>> = Append(q, m)
    BY <1>0, <2>2
  <2> QED BY <2>1, <2>3 DEF m
<1>3. ASSUME NEW x \in Note, NEW y \in Note, r.out = <<x, y>>
      PROVE  [nt EXCEPT ![f] = @ \o o] = [[nt EXCEPT ![f] = Append(@, Message(r.c, i, x))]
                                             EXCEPT ![f] = Append(@, Message(r.c, i, y))]
  <2> DEFINE m == Message(r.c, i, x)
             n == Message(r.c, i, y)
  <2>1. o = <<m, n>>
    BY <1>3 DEF Outgoing
  <2>2. m \in Packet /\ n \in Packet
    BY MessageFacts
  <2> HIDE DEF m, n
  <2>3. q \o <<m, n>> = Append(Append(q, m), n)
    BY <1>0, <2>2
  <2> QED BY <2>1, <2>3 DEF m, n
<1> QED BY <1>1, <1>2, <1>3 DEF Sent, Told

\* The messages of result r are ones that channel b may send.
Talk(e, b, r) ==
  \/ r.out = <<>>
  \/ \E x : r.out = <<x>> /\ Sayable(e, b, r.c, x)
  \/ \E x, y : /\ r.out = <<x, y>> /\ Sayable(e, b, r.c, x) /\ Sayable(e, b, r.c, y)
               /\ x.kind \notin {"CLOSE", "EOF"}

\* A channel turns and says what it has to.
LEMMA HandleKeeps ==
  ASSUME NEW ch, NEW nt, NEW op, NEW e \in Ends, NEW i \in Ids, NEW r,
         NInv(ch, nt, op), MayTurn(ch, nt, e, i, r.c), Talk(e, ch[e][i], r)
  PROVE  NInv([ch EXCEPT ![e][i] = r.c], [nt EXCEPT ![Peer(e)] = @ \o Outgoing(i, r)], op)
<1> DEFINE ch2 == [ch EXCEPT ![e][i] = r.c]
           p == Peer(e)
           nt2 == Sent(nt, p, i, r)
<1>1. nt \in [Ends -> Seq(Packet)] /\ p \in Ends /\ r.c \in Channel
  BY PeerFacts DEF NInv, Typed, MayTurn
<1>2. /\ r.out = <<>> => nt2 = nt
      /\ \A x \in Note : r.out = <<x>> => nt2 = Told(nt, p, Message(r.c, i, x))
      /\ \A x, y \in Note : r.out = <<x, y>> =>
           nt2 = Told(Told(nt, p, Message(r.c, i, x)), p, Message(r.c, i, y))
  BY <1>1, OutgoingFacts
<1>3. ASSUME r.out = <<>>
      PROVE  NInv(ch2, nt2, op)
  <2>1. NInv(ch2, nt, op)
    BY TurnKeeps
  <2>2. nt2 = nt
    BY <1>2, <1>3
  <2> QED BY <2>1, <2>2
<1>4. ASSUME NEW x, r.out = <<x>>, Sayable(e, ch[e][i], r.c, x)
      PROVE  NInv(ch2, nt2, op)
  <2>1. NInv(ch2, Told(nt, p, Message(r.c, i, x)), op)
    BY <1>4, SayOne DEF Told
  <2>2. x \in Note
    BY <1>4 DEF Sayable
  <2>3. nt2 = Told(nt, p, Message(r.c, i, x))
    BY <1>2, <1>4, <2>2
  <2> QED BY <2>1, <2>3
<1>5. ASSUME NEW x, NEW y, r.out = <<x, y>>, Sayable(e, ch[e][i], r.c, x),
             Sayable(e, ch[e][i], r.c, y), x.kind \notin {"CLOSE", "EOF"}
      PROVE  NInv(ch2, nt2, op)
  <2>1. NInv(ch2, Told(Told(nt, p, Message(r.c, i, x)), p, Message(r.c, i, y)), op)
    BY <1>5, SayTwo DEF Told
  <2>2. x \in Note /\ y \in Note
    BY <1>5 DEF Sayable
  <2>3. nt2 = Told(Told(nt, p, Message(r.c, i, x)), p, Message(r.c, i, y))
    BY <1>2, <1>5, <2>2
  <2> QED BY <2>1, <2>3
<1> QED BY <1>3, <1>4, <1>5 DEF Talk, Sent

\* What a handler works on: a channel and its messages.
Res(x, o) == [c |-> x, out |-> o]

\* Reading the result of an operation.
LEMMA ResFacts ==
  ASSUME NEW x, NEW o
  PROVE  /\ Res(x, o).c = x /\ Res(x, o).out = o
         /\ \A z : Set(Res(x, o), z) = Res(z, o)
         /\ \A k, n : SendBytes(Res(x, o), k, n) = Res(x, Append(o, [kind |-> k, n |-> n]))
         /\ \A k : Send(Res(x, o), k) = Res(x, Append(o, [kind |-> k, n |-> 0]))
         /\ On(x) = Res(x, <<>>)
BY SMTT(30) DEF Res, Set, Send, SendBytes, On

\* What chan_send_close2() says.
CloseNote == [kind |-> "CLOSE", n |-> 0]

\* Channel c is ready to send its CLOSE.
MayClose(c) == c.type # "ZOMBIE" /\ BothClosed(c) /\ ~c.CLOSE_SENT

\* chan_is_dead() sends the CLOSE of a channel that is ready for it, and of no other.
LEMMA SendCloseFacts ==
  ASSUME NEW x, NEW o, NEW s \in BOOLEAN
  PROVE  /\ MayClose(x) /\ s => SendCloseIfDead(Res(x, o), s) =
                                  Res([x EXCEPT !.CLOSE_SENT = TRUE], Append(o, CloseNote))
         /\ ~(MayClose(x) /\ s) => SendCloseIfDead(Res(x, o), s) = Res(x, o)
<1> DEFINE z == [x EXCEPT !.CLOSE_SENT = TRUE]
<1>1. SendCloseIfDead(Res(x, o), s) = IF MayClose(x) /\ s THEN Send(Set(Res(x, o), z), "CLOSE")
                                      ELSE Res(x, o)
  <2>1. Res(x, o).c = x
    BY ResFacts
  <2>2. ASSUME NEW y, y.c = x
        PROVE  SendCloseIfDead(y, s) = IF MayClose(x) /\ s THEN Send(Set(y, z), "CLOSE") ELSE y
    <3>1. [y.c EXCEPT !.CLOSE_SENT = TRUE] = z
      BY <2>2
    <3> HIDE DEF z
    <3>2. SendCloseIfDead(y, s) = IF y.c.type # "ZOMBIE" /\ BothClosed(y.c) /\ ~y.c.CLOSE_SENT /\ s
                                  THEN Send(Set(y, z), "CLOSE") ELSE y
      BY <3>1, Zenon DEF SendCloseIfDead
    <3> QED BY <3>2, <2>2 DEF MayClose
  <2> QED BY <2>1, <2>2, Zenon
<1> HIDE DEF z
<1>2. Send(Set(Res(x, o), z), "CLOSE") = Res(z, Append(o, CloseNote))
  BY ResFacts DEF CloseNote
<1> QED BY <1>1, <1>2 DEF z

\* The outcomes of channel_garbage_collect(): the channel is left alone, sends
\* its CLOSE, or is freed; then it failed to open, or its peer has closed it and
\* its own CLOSE was or is sent.
LeftAlone(c, o, g) ==
  g.r = Res(c, o) /\ ~g.free /\ ~g.detached /\ (c.type = "ZOMBIE" => c.user)
\* CLOSE is sent; the channel stays, or is freed.
Closing(c, o, g) ==
  /\ g.r = Res([c EXCEPT !.CLOSE_SENT = TRUE], Append(o, CloseNote))
  /\ ~g.free /\ ~g.detached
  /\ MayClose(c) /\ (c.user => c.detach_close)
\* The channel is freed by garbage collection.
Gone(e, i, c, o, g) ==
  /\ g.free /\ (g.detached <=> c.user) /\ (c.user => Detaches(e, i))
  /\ g.r.c.rid = c.rid /\ g.r.c.gen = c.gen
  /\ c.type = "ZOMBIE" \/ BothClosed(c)
  /\ \/ g.r.out = o /\ (c.type = "ZOMBIE" \/ c.CLOSE_RCVD)
     \/ g.r.out = Append(o, CloseNote) /\ c.CLOSE_RCVD /\ MayClose(c)

\* The outcomes of channel_garbage_collect.
LEMMA CollectFacts ==
  ASSUME NEW e, NEW i, NEW c \in Channel, NEW o
  PROVE  LET g == Collect(e, i, Res(c, o)) IN
         LeftAlone(c, o, g) \/ Closing(c, o, g) \/ Gone(e, i, c, o, g)
<1> DEFINE r == Res(c, o)
           r1 == IF c.user THEN SendCloseIfDead(r, c.detach_close) ELSE r
           stay == \/ c.user /\ ~IsDead(r1.c, c.detach_close)
                   \/ c.user /\ ~Detaches(e, i)
           r2 == IF c.user THEN Set(r1, [r1.c EXCEPT !.user = FALSE, !.detach_close = FALSE]) ELSE r1
           r3 == SendCloseIfDead(r2, TRUE)
           g == Collect(e, i, r)
           ce == [c EXCEPT !.CLOSE_SENT = TRUE]
           oc == Append(o, CloseNote)
<1>0. c.user \in BOOLEAN /\ c.detach_close \in BOOLEAN /\ c.CLOSE_SENT \in BOOLEAN
  BY DEF Channel
<1>1. g = IF stay THEN [r |-> r1, detached |-> FALSE, free |-> FALSE]
                  ELSE [r |-> r3, detached |-> c.user, free |-> IsDead(r3.c, TRUE)]
  <2>1. r.c = c
    BY ResFacts
  <2> HIDE DEF r
  <2> QED BY <2>1, Zenon DEF Collect
<1>2. /\ ce \in Channel /\ ce.type = c.type /\ ce.istate = c.istate /\ ce.ostate = c.ostate
      /\ ce.CLOSE_RCVD = c.CLOSE_RCVD /\ ce.CLOSE_SENT /\ ce.rid = c.rid /\ ce.gen = c.gen
  BY DEF Channel
<1>3. ASSUME NEW x \in Channel
      PROVE  LET d == [x EXCEPT !.user = FALSE, !.detach_close = FALSE] IN
             /\ d \in Channel /\ d.type = x.type /\ d.istate = x.istate /\ d.ostate = x.ostate
             /\ d.CLOSE_RCVD = x.CLOSE_RCVD /\ d.CLOSE_SENT = x.CLOSE_SENT
             /\ d.rid = x.rid /\ d.gen = x.gen
  BY ZenonT(30) DEF Channel
<1> HIDE DEF g, r, stay, r1, r3
<1>4. stay => g.r = r1 /\ ~g.detached /\ ~g.free
  BY <1>1
<1>5. ~stay => g.r = r3 /\ (g.detached <=> c.user) /\ (g.free <=> IsDead(r3.c, TRUE))
  <2> SUFFICES ASSUME ~stay PROVE g.r = r3 /\ g.detached = c.user /\ g.free = IsDead(r3.c, TRUE)
    BY Zenon
  <2> QED BY <1>1, Zenon
<1>r. r.c = c /\ r.out = o /\ Res(ce, oc).c = ce /\ Res(ce, oc).out = oc
  BY ResFacts DEF r
<1>a. CASE ~c.user
  <2>1. r1 = r /\ ~stay /\ r3 = SendCloseIfDead(r, TRUE)
    BY <1>a DEF stay, r1, r3
  <2>2. g.r = r3 /\ ~g.detached /\ (g.free <=> IsDead(r3.c, TRUE))
    BY <2>1, <1>5, <1>a
  <2>3. CASE MayClose(c)
    <3>1. r3 = Res(ce, oc)
      BY <2>1, <2>3, SendCloseFacts DEF r
    <3> HIDE DEF ce, oc
    <3>2. IsDead(r3.c, TRUE) <=> c.CLOSE_RCVD
      BY <3>1, <1>r, <1>2, <2>3 DEF IsDead, MayClose, BothClosed
    <3>3. g.r = Res(ce, oc) /\ g.r.c.rid = c.rid /\ g.r.c.gen = c.gen /\ g.r.out = oc
      BY <3>1, <2>2, <1>r, <1>2
    <3>4. CASE c.CLOSE_RCVD
      <4>1. Gone(e, i, c, o, g)
        BY <3>2, <3>3, <3>4, <2>2, <2>3, <1>a DEF Gone, MayClose, oc
      <4> QED BY <4>1 DEF g, r
    <3>5. CASE ~c.CLOSE_RCVD
      <4>1. Closing(c, o, g)
        BY <3>2, <3>3, <3>5, <2>2, <2>3, <1>a DEF Closing, oc, ce
      <4> QED BY <4>1 DEF g, r
    <3> QED BY <3>4, <3>5
  <2>4. CASE ~MayClose(c)
    <3>1. r3 = r
      BY <2>1, <2>4, SendCloseFacts DEF r
    <3>2. g.r = r /\ g.r.c = c /\ g.r.out = o /\ (g.free <=> IsDead(c, TRUE))
      BY <3>1, <2>2, <1>r
    <3>3. CASE IsDead(c, TRUE)
      <4>1. Gone(e, i, c, o, g)
        BY <3>2, <3>3, <2>2, <1>a DEF Gone, IsDead
      <4> QED BY <4>1 DEF g, r
    <3>4. CASE ~IsDead(c, TRUE)
      <4>1. LeftAlone(c, o, g)
        BY <3>2, <3>4, <2>2 DEF LeftAlone, r, IsDead
      <4> QED BY <4>1 DEF g, r
    <3> QED BY <3>3, <3>4
  <2> QED BY <2>3, <2>4
<1>b. CASE c.user /\ stay
  <2>1. g.r = r1 /\ ~g.free /\ ~g.detached
    BY <1>4, <1>b
  <2>2. r1 = SendCloseIfDead(r, c.detach_close)
    BY <1>b DEF r1
  <2>3. CASE MayClose(c) /\ c.detach_close
    <3>1. r1 = Res(ce, oc)
      BY <2>2, <2>3, <1>0, SendCloseFacts DEF r
    <3> HIDE DEF ce, oc
    <3>2. Closing(c, o, g)
      BY <2>1, <2>3, <3>1 DEF Closing, ce, oc
    <3> QED BY <3>2 DEF g, r
  <2>4. CASE ~(MayClose(c) /\ c.detach_close)
    <3>1. r1 = r
      BY <2>2, <2>4, <1>0, SendCloseFacts DEF r
    <3>2. LeftAlone(c, o, g)
      BY <2>1, <3>1, <1>b DEF LeftAlone, r
    <3> QED BY <3>2 DEF g, r
  <2> QED BY <2>3, <2>4
<1>c. CASE c.user /\ ~stay
  <2>1. g.r = r3 /\ g.detached /\ (g.free <=> IsDead(r3.c, TRUE))
    BY <1>c, <1>5
  <2>2. Detaches(e, i) /\ IsDead(r1.c, c.detach_close)
    BY <1>c DEF stay
  <2>3. r1 = SendCloseIfDead(r, c.detach_close)
    BY <1>c DEF r1
  <2>4. ASSUME NEW x \in Channel, NEW q, r1 = Res(x, q), IsDead(x, TRUE) \/ MayClose(x),
               x.CLOSE_RCVD \/ x.type = "ZOMBIE"
        PROVE  /\ IsDead(r3.c, TRUE) /\ r3.c.rid = x.rid /\ r3.c.gen = x.gen
               /\ r3.out = IF MayClose(x) THEN Append(q, CloseNote) ELSE q
    <3> DEFINE d == [x EXCEPT !.user = FALSE, !.detach_close = FALSE]
               de == [d EXCEPT !.CLOSE_SENT = TRUE]
    <3>1. /\ d \in Channel /\ d.type = x.type /\ d.istate = x.istate /\ d.ostate = x.ostate
          /\ d.CLOSE_RCVD = x.CLOSE_RCVD /\ d.CLOSE_SENT = x.CLOSE_SENT
          /\ d.rid = x.rid /\ d.gen = x.gen
      BY Zenon, <1>3
    <3>2. r1.c = x
      BY <2>4, ResFacts
    <3>3. r2 = Set(r1, d)
      BY <3>2, <1>c
    <3> HIDE DEF d
    <3>4. Set(r1, d) = Res(d, q)
      BY <2>4, ResFacts
    <3>5. r3 = SendCloseIfDead(Res(d, q), TRUE)
      BY <3>3, <3>4 DEF r3
    <3>6. MayClose(d) <=> MayClose(x)
      BY <3>1 DEF MayClose, BothClosed
    <3>7. CASE MayClose(x)
      <4>1. r3 = Res(de, Append(q, CloseNote))
        BY <3>5, <3>6, <3>7, SendCloseFacts
      <4>2. /\ de.type = d.type /\ de.istate = d.istate /\ de.ostate = d.ostate
            /\ de.CLOSE_RCVD = d.CLOSE_RCVD /\ de.CLOSE_SENT /\ de.rid = d.rid /\ de.gen = d.gen
        BY <3>1 DEF Channel
      <4> HIDE DEF de
      <4>3. r3.c = de /\ r3.out = Append(q, CloseNote)
        BY <4>1, ResFacts
      <4>4. IsDead(de, TRUE)
        BY <4>2, <3>1, <3>7, <2>4 DEF IsDead, MayClose, BothClosed
      <4> QED BY <4>2, <4>3, <4>4, <3>1, <3>7
    <3>8. CASE ~MayClose(x)
      <4>1. r3 = Res(d, q)
        BY <3>5, <3>6, <3>8, SendCloseFacts
      <4>2. r3.c = d /\ r3.out = q
        BY <4>1, ResFacts
      <4>3. IsDead(d, TRUE)
        BY <3>1, <3>8, <2>4 DEF IsDead, MayClose, BothClosed
      <4> QED BY <4>2, <4>3, <3>1, <3>8
    <3> QED BY <3>7, <3>8
  <2>5. CASE MayClose(c) /\ c.detach_close
    <3>1. r1 = Res(ce, oc)
      BY <2>3, <2>5, <1>0, SendCloseFacts DEF r
    <3> HIDE DEF ce, oc
    <3>2. IsDead(ce, TRUE) /\ ce.CLOSE_RCVD /\ ~MayClose(ce)
      BY <3>1, <2>2, <2>5, <1>r, <1>2 DEF IsDead, MayClose, BothClosed
    <3>3. IsDead(r3.c, TRUE) /\ r3.c.rid = c.rid /\ r3.c.gen = c.gen /\ r3.out = oc
      BY <2>4, <3>1, <3>2, <1>2
    <3>4. Gone(e, i, c, o, g)
      BY <3>2, <3>3, <2>1, <2>2, <2>5, <1>2, <1>c DEF Gone, MayClose, oc
    <3> QED BY <3>4 DEF g, r
  <2>6. CASE ~(MayClose(c) /\ c.detach_close)
    <3>1. r1 = r
      BY <2>3, <2>6, <1>0, SendCloseFacts DEF r
    <3>2. IsDead(c, c.detach_close)
      BY <3>1, <2>2, <1>r
    <3>3. /\ IsDead(c, TRUE) \/ MayClose(c)
          /\ c.CLOSE_RCVD \/ c.type = "ZOMBIE"
          /\ BothClosed(c) \/ c.type = "ZOMBIE"
      BY <3>2 DEF IsDead, MayClose
    <3>4. /\ IsDead(r3.c, TRUE) /\ r3.c.rid = c.rid /\ r3.c.gen = c.gen
          /\ r3.out = IF MayClose(c) THEN Append(o, CloseNote) ELSE o
      BY <2>4, <3>1, <3>3 DEF r
    <3>5. Gone(e, i, c, o, g)
      BY <3>3, <3>4, <2>1, <2>2, <1>c DEF Gone, MayClose
    <3> QED BY <3>5 DEF g, r
  <2> QED BY <2>5, <2>6
<1> QED BY <1>0, <1>a, <1>b, <1>c

\* The table with x in slot i of end e.
Held(ch, e, i, x) == [ch EXCEPT ![e][i] = x]

\* Saying nothing leaves the queues alone.
LEMMA SentSame ==
  ASSUME NEW nt, NEW f, NEW i, NEW r, NEW q,
         r.out = q.out, r.c.rid = q.c.rid, r.c.gen = q.c.gen
  PROVE  Sent(nt, f, i, r) = Sent(nt, f, i, q)
<1>1. Outgoing(i, r) = Outgoing(i, q)
  BY DEF Outgoing, Message
<1> QED BY <1>1 DEF Sent

\* Writing a slot twice is writing it once.
LEMMA HeldTwice ==
  ASSUME NEW ch \in [Ends -> [Ids -> Channel \cup {Free}]], NEW e \in Ends, NEW i \in Ids, NEW x, NEW y
  PROVE  Held(Held(ch, e, i, x), e, i, y) = Held(ch, e, i, y) /\ Held(ch, e, i, x)[e][i] = x
BY DEF Held

\* The handler's channel and messages, then the slot given back.
LEMMA HandleAndFree ==
  ASSUME NEW ch, NEW nt, NEW op, NEW e \in Ends, NEW i \in Ids, NEW x, NEW q,
         NInv(ch, nt, op), MayTurn(ch, nt, e, i, x), Talk(e, ch[e][i], Res(x, q))
  PROVE  /\ NInv(Held(ch, e, i, x), Sent(nt, Peer(e), i, Res(x, q)), op)
         /\ x.type = "ZOMBIE" \/ x.CLOSE_RCVD =>
              NInv(Held(ch, e, i, Free), Sent(nt, Peer(e), i, Res(x, q)), op)
<1> DEFINE r == Res(x, q)
           ch2 == Held(ch, e, i, x)
           nt2 == Sent(nt, Peer(e), i, r)
<1>1. r.c = x
  BY ResFacts
<1>2. x # Free /\ ch \in [Ends -> [Ids -> Channel \cup {Free}]]
  BY UsedFacts DEF MayTurn, NInv, Typed
<1>3. NInv(ch2, nt2, op)
  <2> HIDE DEF r
  <2>1. NInv([ch EXCEPT ![e][i] = r.c], [nt EXCEPT ![Peer(e)] = @ \o Outgoing(i, r)], op)
    BY <1>1, HandleKeeps DEF r
  <2> QED BY <2>1, <1>1 DEF Held, Sent
<1>4. ch2[e][i] = x /\ Held(ch2, e, i, Free) = Held(ch, e, i, Free)
  BY <1>2, HeldTwice
<1> HIDE DEF ch2, nt2
<1>5. x.type = "ZOMBIE" \/ x.CLOSE_RCVD => NInv(Held(ch2, e, i, Free), nt2, op)
  BY <1>2, <1>3, <1>4, RemoveKeeps DEF Held
<1> QED BY <1>3, <1>4, <1>5 DEF ch2, nt2

\* One note is one message.
LEMMA AppendOne ==
  ASSUME NEW x, NEW y
  PROVE  Append(<<x>>, y) = <<x, y>>
<1> DEFINE S == {x, y}
<1>1. <<x>> \in Seq(S) /\ <<x, y>> \in Seq(S) /\ y \in S
  OBVIOUS
<1> HIDE DEF S
<1>2. Append(<<x>>, y) \in Seq(S) /\ Len(Append(<<x>>, y)) = 2
  BY <1>1
<1>3. \A k \in 1..2 : Append(<<x>>, y)[k] = <<x, y>>[k]
  BY <1>1
<1> DEFINE a == Append(<<x>>, y)
           b == <<x, y>>
<1>4. Len(b) = 2
  OBVIOUS
<1> HIDE DEF a, b
<1>5. a = b
  BY <1>1, <1>2, <1>3, <1>4, SeqEqual DEF a, b
<1> QED BY <1>5 DEF a, b

\* Garbage collection keeps the network invariant.
LEMMA CollectKeeps ==
  ASSUME NEW ch, NEW nt, NEW op, NEW e \in Ends, NEW i \in Ids, NEW c, NEW o, NEW g,
         NInv(ch, nt, op), MayTurn(ch, nt, e, i, c),
         o = <<>> \/ \E x : o = <<x>> /\ Sayable(e, ch[e][i], c, x) /\ x.kind \notin {"CLOSE", "EOF"},
         LeftAlone(c, o, g) \/ Closing(c, o, g) \/ Gone(e, i, c, o, g)
  PROVE  NInv(Held(ch, e, i, IF g.free THEN Free ELSE g.r.c), Sent(nt, Peer(e), i, g.r), op)
<1> DEFINE ce == [c EXCEPT !.CLOSE_SENT = TRUE]
           oc == Append(o, CloseNote)
           b == ch[e][i]
<1>0. c \in Channel /\ Shape(e, c) /\ b # Free
  BY DEF MayTurn
<1>1. /\ Res(c, o).c = c /\ Res(c, o).out = o /\ Res(ce, oc).c = ce /\ Res(ce, oc).out = oc
  BY ResFacts
<1>2. Talk(e, b, Res(c, o))
  BY <1>1 DEF Talk
<1>3. /\ ce \in Channel /\ ce.type = c.type /\ ce.ctype = c.ctype
      /\ ce.istate = c.istate /\ ce.ostate = c.ostate
      /\ ce.EOF_SENT = c.EOF_SENT /\ ce.EOF_RCVD = c.EOF_RCVD
      /\ ce.user = c.user /\ ce.detach_close = c.detach_close
      /\ ce.CLOSE_RCVD = c.CLOSE_RCVD /\ ce.CLOSE_SENT /\ ce.rid = c.rid /\ ce.gen = c.gen
  BY <1>0 DEF Channel
<1>n. CloseNote \in Note /\ CloseNote.kind = "CLOSE"
  BY DEF CloseNote, Note, Kinds
<1> HIDE DEF ce
<1>4. ASSUME MayClose(c), c.CLOSE_RCVD \/ (c.user => c.detach_close)
      PROVE  MayTurn(ch, nt, e, i, ce) /\ Talk(e, b, Res(ce, oc))
  <2>1. Shape(e, ce) /\ b.type \in {"LARVAL", "OPEN"} /\ ~b.CLOSE_SENT
    <3>1. c.type \in {"LARVAL", "OPEN"} /\ (c.type = "LARVAL" => c.CLOSE_RCVD)
      BY <1>0, <1>4 DEF Channel, Types, Shape, MayClose, BothClosed
    <3>2. Shape(e, ce)
      BY <3>1, <1>0, <1>3, <1>4 DEF Shape, MayClose, BothClosed
    <3>3. b.type \in {"LARVAL", "OPEN"} /\ ~b.CLOSE_SENT
      BY <3>1, <1>4 DEF MayTurn, MayClose
    <3> QED BY <3>2, <3>3
  <2>2. MayTurn(ch, nt, e, i, ce)
    BY <2>1, <1>3 DEF MayTurn
  <2>3. Sayable(e, b, ce, CloseNote)
    BY <2>1, <1>3, <1>n DEF Sayable, Noise, Offer, Reply, Bytes
  <2>4. CASE o = <<>>
    <3>1. oc = <<CloseNote>>
      BY <2>4
    <3> QED BY <3>1, <2>2, <2>3, <1>1 DEF Talk
  <2>5. ASSUME NEW x, o = <<x>>, Sayable(e, b, c, x), x.kind \notin {"CLOSE", "EOF"}
        PROVE  Talk(e, b, Res(ce, oc))
    <3>1. oc = <<x, CloseNote>>
      <4>1. Append(<<x>>, CloseNote) = <<x, CloseNote>>
        BY AppendOne
      <4> QED BY <2>5, <4>1
    <3>2. Sayable(e, b, ce, x)
      BY <2>5, <1>3 DEF Sayable
    <3> HIDE DEF oc
    <3> QED BY <3>1, <3>2, <2>3, <2>5, <1>1 DEF Talk
  <2> QED BY <2>2, <2>4, <2>5
<1> HIDE DEF oc
<1>5. CASE LeftAlone(c, o, g)
  <2>1. NInv(Held(ch, e, i, c), Sent(nt, Peer(e), i, Res(c, o)), op)
    BY <1>2, HandleAndFree
  <2> QED BY <2>1, <1>1, <1>5 DEF LeftAlone
<1>6. CASE Closing(c, o, g)
  <2>1. MayTurn(ch, nt, e, i, ce) /\ Talk(e, b, Res(ce, oc))
    BY <1>4, <1>6 DEF Closing
  <2>2. NInv(Held(ch, e, i, ce), Sent(nt, Peer(e), i, Res(ce, oc)), op)
    BY <2>1, HandleAndFree
  <2>3. g.r = Res(ce, oc) /\ ~g.free
    BY <1>6 DEF Closing, ce, oc
  <2> QED BY <2>2, <2>3, <1>1
<1>7. CASE Gone(e, i, c, o, g)
  <2>1. CASE g.r.out = o /\ (c.type = "ZOMBIE" \/ c.CLOSE_RCVD)
    <3>1. NInv(Held(ch, e, i, Free), Sent(nt, Peer(e), i, Res(c, o)), op)
      BY <2>1, <1>2, HandleAndFree
    <3>2. Sent(nt, Peer(e), i, Res(c, o)) = Sent(nt, Peer(e), i, g.r)
      BY <2>1, <1>1, <1>7, SentSame DEF Gone
    <3> QED BY <3>1, <3>2, <1>7 DEF Gone
  <2>2. CASE g.r.out = oc /\ c.CLOSE_RCVD /\ MayClose(c)
    <3>1. MayTurn(ch, nt, e, i, ce) /\ Talk(e, b, Res(ce, oc))
      BY <1>4, <2>2
    <3>2. NInv(Held(ch, e, i, Free), Sent(nt, Peer(e), i, Res(ce, oc)), op)
      BY <3>1, <1>3, <2>2, HandleAndFree
    <3>3. Sent(nt, Peer(e), i, Res(ce, oc)) = Sent(nt, Peer(e), i, g.r)
      BY <2>2, <1>1, <1>3, <1>7, SentSame DEF Gone
    <3> QED BY <3>2, <3>3, <1>7 DEF Gone
  <2> QED BY <2>1, <2>2, <1>7 DEF Gone, oc
<1> QED BY <1>5, <1>6, <1>7

-----------------------------------------------------------------------------
(* The queue of end e without its head.                                    *)

\* The queues once the head of e's is read.
Popped(nt, e) == [nt EXCEPT ![e] = Tail(@)]

\* The message at the head is a packet, and is for the channel it names.
LEMMA HeadFacts ==
  ASSUME NEW ch, NEW nt, NEW op, NEW e \in Ends, NInv(ch, nt, op), nt[e] # <<>>
  PROVE  /\ Head(nt[e]) = nt[e][1] /\ nt[e][1] \in Packet /\ 1 \in DOMAIN nt[e]
         /\ Popped(nt, e)[Peer(e)] = nt[Peer(e)]
         /\ \A k \in DOMAIN Popped(nt, e)[e] :
              \E l \in DOMAIN nt[e] : 1 < l /\ l # 1 /\ Popped(nt, e)[e][k] = nt[e][l]
         /\ nt[e][1].gen \in 1..op
<1> DEFINE nt2 == Popped(nt, e)
<1>1. nt \in [Ends -> Seq(Packet)]
  BY DEF NInv, Typed
<1>2. /\ 1 \in DOMAIN nt[e] /\ Head(nt[e]) = nt[e][1] /\ nt[e][1] \in Packet
      /\ Shrunk(nt[e], nt2[e])
      /\ \A f \in Ends : f # e => nt2[f] = nt[f]
  BY <1>1, PopFacts DEF Popped
<1> HIDE DEF nt2
<1>3. nt2[Peer(e)] = nt[Peer(e)]
  BY <1>2, PeerFacts
<1>4. nt[e][1].gen \in 1..op
  BY <1>2 DEF NInv, Typed
<1>5. DOMAIN nt[e] \subseteq Nat \ {0}
  BY <1>1
<1>6. \A k \in DOMAIN nt2[e] : \E l \in DOMAIN nt[e] : 1 < l /\ l # 1 /\ nt2[e][k] = nt[e][l]
  <2> SUFFICES ASSUME NEW k \in DOMAIN nt2[e]
               PROVE  \E l \in DOMAIN nt[e] : 1 < l /\ l # 1 /\ nt2[e][k] = nt[e][l]
    OBVIOUS
  <2>1. k + 1 \in DOMAIN nt[e] /\ k + 1 # 1 /\ nt2[e][k] = nt[e][k + 1]
    BY <1>2 DEF Shrunk
  <2>2. 1 < k + 1
    BY <2>1, <1>5
  <2> QED BY <2>1, <2>2
<1> QED BY <1>2, <1>3, <1>4, <1>6 DEF nt2

\* channel_lookup() finds the channel of a message that is no offer and no
\* keepalive, and it takes the message.
LEMMA FoundFacts ==
  ASSUME NEW ch, NEW nt, NEW op, NEW e \in Ends, NInv(ch, nt, op), nt[e] # <<>>,
         ~Noise(e, nt[e][1]), ~Offer(nt[e][1])
  PROVE  /\ Delivers(ch, e, nt[e][1])
         /\ nt[e][1].to \in Ids /\ ch[e][nt[e][1].to] \in Channel
         /\ Shape(e, ch[e][nt[e][1].to])
         /\ ch[e][nt[e][1].to].gen \in 1..op
<1>1. Delivers(ch, e, nt[e][1])
  BY HeadFacts DEF NInv, Addressed
<1>2. nt[e][1].to \in Ids /\ ch[e][nt[e][1].to] # Free
  BY <1>1 DEF Delivers
<1> QED BY <1>1, <1>2 DEF NInv, Typed, Shaped

\* The handler of the message at the head leaves x and the messages q.
LEMMA AnswerKeeps ==
  ASSUME NEW e \in Ends, NEW i \in Ids, NEW x, NEW q,
         NInv(chan, net, opens), net[e] # <<>>, net[e][1].kind # "CONFIRM",
         MayTurn(chan, Popped(net, e), e, i, x), Talk(e, chan[e][i], Res(x, q)),
         Answer(e, i, Res(x, q))
  PROVE  /\ NInv(chan', net', opens)
         /\ chan' = Held(chan, e, i, x)
<1> DEFINE nt2 == Popped(net, e)
<1>1. NInv(chan, nt2, opens)
  BY PopKeeps DEF Popped
<1>2. chan' = Held(chan, e, i, x)
  BY ResFacts DEF Answer, Held
<1>3. net' = Sent(nt2, Peer(e), i, Res(x, q))
  <2>1. net \in [Ends -> Seq(Packet)]
    BY DEF NInv, Typed
  <2> DEFINE o == Outgoing(i, Res(x, q))
  <2>2. net' = [net EXCEPT ![e] = Tail(@), ![Peer(e)] = @ \o o]
    BY DEF Answer
  <2> HIDE DEF o
  <2>3. net' = [[net EXCEPT ![e] = Tail(@)] EXCEPT ![Peer(e)] = @ \o o]
    BY <2>1, <2>2, PeerFacts
  <2> QED BY <2>3 DEF o, Sent, Popped
<1> HIDE DEF nt2
<1>4. NInv(Held(chan, e, i, x), Sent(nt2, Peer(e), i, Res(x, q)), opens)
  BY <1>1, HandleAndFree DEF nt2
<1> QED BY <1>2, <1>3, <1>4

\* A message is read and nothing is done.
LEMMA IgnoreKeeps ==
  ASSUME NEW e \in Ends, NInv(chan, net, opens), net[e] # <<>>, net[e][1].kind # "CONFIRM",
         Ignore(e)
  PROVE  NInv(chan', net', opens) /\ chan' = chan
BY PopKeeps DEF Ignore

-----------------------------------------------------------------------------
(* What the elementary steps do to the sessions.                           *)

\* The server's channel in slot j becomes c: the same channel still, which a
\* live child does not lose.
Follows(se, b, c, j) ==
  /\ b # Free /\ c # Free /\ c.ctype = b.ctype /\ c.gen = b.gen
  /\ b.type = "OPEN" => c.type = "OPEN"
  /\ \A s \in Sids : se[s].chanid = j /\ se[s].pid # "none" =>
       /\ ~b.detach_close => ~c.detach_close
       /\ ~b.CLOSE_SENT => ~c.CLOSE_SENT

\* A channel of the server turns and its session follows.
LEMMA SessionTurn ==
  ASSUME NEW ch, NEW ch2, NEW se, NEW hi, SInv(ch, se, hi),
         \A j \in Ids : ch2["S"][j] = ch["S"][j] \/ Follows(se, ch["S"][j], ch2["S"][j], j)
  PROVE  SInv(ch2, se, hi)
<1> DEFINE a == ch["S"]
           b == ch2["S"]
<1>1. /\ se \in [Sids -> Session] /\ hi \in [Ends -> [Gens -> Log]]
      /\ \A s \in Sids : se[s].chanid = -1 => se[s].pid = "none"
      /\ \A s \in Sids : se[s].chanid # -1 => a[se[s].chanid] # Free /\ a[se[s].chanid].ctype = "session"
      /\ \A s, t \in Sids : se[s].chanid = se[t].chanid /\ se[s].chanid # -1 => s = t
      /\ \A i \in Ids : a[i] # Free /\ a[i].ctype = "session" => \E s \in Sids : se[s].chanid = i
      /\ \A s \in Sids : se[s].pid # "none" =>
           a[se[s].chanid].type = "OPEN" /\ ~a[se[s].chanid].detach_close /\ ~a[se[s].chanid].CLOSE_SENT
      /\ \A g \in Gens : hi["S"][g].child = "started" =>
           \E s \in Sids : se[s].chanid # -1 /\ se[s].pid # "none" /\ a[se[s].chanid].gen = g
  BY DEF SInv
<1>2. \A j \in Ids : b[j] = a[j] \/ Follows(se, a[j], b[j], j)
  OBVIOUS
<1> HIDE DEF a, b
<1>3. \A s \in Sids : se[s].chanid # -1 => se[s].chanid \in Ids
  BY <1>1 DEF Session
<1>4. \A j \in Ids : a[j] # Free => b[j] # Free /\ b[j].ctype = a[j].ctype /\ b[j].gen = a[j].gen
  BY <1>2 DEF Follows
<1>5. \A j \in Ids : b[j] # Free => a[j] # Free
  BY <1>2 DEF Follows
<1>6. \A s \in Sids : se[s].chanid # -1 => b[se[s].chanid] # Free /\ b[se[s].chanid].ctype = "session"
  BY <1>1, <1>3, <1>4
<1>7. \A i \in Ids : b[i] # Free /\ b[i].ctype = "session" => \E s \in Sids : se[s].chanid = i
  BY <1>1, <1>4, <1>5
<1>8. \A s \in Sids : se[s].pid # "none" =>
        b[se[s].chanid].type = "OPEN" /\ ~b[se[s].chanid].detach_close /\ ~b[se[s].chanid].CLOSE_SENT
  BY <1>1, <1>2, <1>3 DEF Follows
<1>9. \A g \in Gens : hi["S"][g].child = "started" =>
           \E s \in Sids : se[s].chanid # -1 /\ se[s].pid # "none" /\ b[se[s].chanid].gen = g
  BY <1>1, <1>3, <1>4
<1> QED BY <1>1, <1>6, <1>7, <1>8, <1>9 DEF SInv, b

\* A step of the client's table does not concern the sessions.
LEMMA SessionClient ==
  ASSUME NEW ch, NEW ch2, NEW se, NEW hi, SInv(ch, se, hi), ch2["S"] = ch["S"]
  PROVE  SInv(ch2, se, hi)
BY DEF SInv

\* hi2 says the same of the children as hi.
SameChildren(hi, hi2) ==
  /\ hi2 \in [Ends -> [Gens -> Log]]
  /\ \A g \in Gens : hi2["S"][g].child = hi["S"][g].child

\* The session invariant reads nothing of the history but the children.
LEMMA SessionLog ==
  ASSUME NEW ch, NEW se, NEW hi, NEW hi2, SInv(ch, se, hi), SameChildren(hi, hi2)
  PROVE  SInv(ch, se, hi2)
BY DEF SInv, SameChildren

\* The sessions without the one of channel i.
Emptied(se, i) == [s \in Sids |-> IF se[s].chanid = i THEN NoSession ELSE se[s]]

\* A session channel is freed with its session, another channel alone.
LEMMA SessionFree ==
  ASSUME NEW ch, NEW ch2, NEW se, NEW hi, NEW i \in Ids, SInv(ch, se, hi),
         ch["S"][i] # Free, ch2["S"][i] = Free,
         \A j \in Ids : j # i => ch2["S"][j] = ch["S"][j],
         ch["S"][i].ctype = "session" => \E s \in Sids : se[s].chanid = i /\ se[s].pid = "none"
  PROVE  SInv(ch2, Emptied(se, i), hi)
<1> DEFINE a == ch["S"]
           b == ch2["S"]
           se2 == Emptied(se, i)
<1>1. /\ se \in [Sids -> Session] /\ hi \in [Ends -> [Gens -> Log]]
      /\ \A s \in Sids : se[s].chanid = -1 => se[s].pid = "none"
      /\ \A s \in Sids : se[s].chanid # -1 => a[se[s].chanid] # Free /\ a[se[s].chanid].ctype = "session"
      /\ \A s, t \in Sids : se[s].chanid = se[t].chanid /\ se[s].chanid # -1 => s = t
      /\ \A j \in Ids : a[j] # Free /\ a[j].ctype = "session" => \E s \in Sids : se[s].chanid = j
      /\ \A s \in Sids : se[s].pid # "none" =>
           a[se[s].chanid].type = "OPEN" /\ ~a[se[s].chanid].detach_close /\ ~a[se[s].chanid].CLOSE_SENT
      /\ \A g \in Gens : hi["S"][g].child = "started" =>
           \E s \in Sids : se[s].chanid # -1 /\ se[s].pid # "none" /\ a[se[s].chanid].gen = g
  BY DEF SInv
<1>2. /\ a[i] # Free /\ b[i] = Free /\ \A j \in Ids : j # i => b[j] = a[j]
      /\ a[i].ctype = "session" => \E s \in Sids : se[s].chanid = i /\ se[s].pid = "none"
  OBVIOUS
<1> HIDE DEF a, b
<1>3. i # -1
  BY ChannelsAssumption
<1>4. /\ NoSession \in Session /\ NoSession.chanid = -1 /\ NoSession.pid = "none"
  BY DEF NoSession, Session
<1>5. \A s \in Sids : /\ se[s].chanid = i => se2[s] = NoSession /\ se[s].pid = "none"
                      /\ se[s].chanid # i => se2[s] = se[s]
  BY <1>1, <1>2, <1>3 DEF Emptied
<1> HIDE DEF NoSession
<1>6. se2 \in [Sids -> Session]
  BY <1>1, <1>4 DEF Emptied
<1> HIDE DEF se2
<1>7. \A s \in Sids : se2[s].chanid # -1 => se2[s] = se[s] /\ se[s].chanid # i /\ se[s].chanid \in Ids
  BY <1>1, <1>4, <1>5 DEF Session
<1>8. \A s \in Sids : se2[s].chanid = -1 => se2[s].pid = "none"
  BY <1>1, <1>4, <1>5
<1>9. \A s \in Sids : se2[s].chanid # -1 => b[se2[s].chanid] # Free /\ b[se2[s].chanid].ctype = "session"
  BY <1>1, <1>2, <1>7
<1>10. \A s, t \in Sids : se2[s].chanid = se2[t].chanid /\ se2[s].chanid # -1 => s = t
  BY <1>1, <1>7
<1>11. \A j \in Ids : b[j] # Free /\ b[j].ctype = "session" => \E s \in Sids : se2[s].chanid = j
  BY <1>1, <1>2, <1>5
<1>12. \A s \in Sids : se2[s].pid # "none" =>
         b[se2[s].chanid].type = "OPEN" /\ ~b[se2[s].chanid].detach_close /\ ~b[se2[s].chanid].CLOSE_SENT
  BY <1>1, <1>2, <1>7, <1>8
<1>13. \A g \in Gens : hi["S"][g].child = "started" =>
         \E s \in Sids : se2[s].chanid # -1 /\ se2[s].pid # "none" /\ b[se2[s].chanid].gen = g
  <2> SUFFICES ASSUME NEW g \in Gens, hi["S"][g].child = "started"
               PROVE  \E s \in Sids : se2[s].chanid # -1 /\ se2[s].pid # "none" /\ b[se2[s].chanid].gen = g
    OBVIOUS
  <2>1. PICK s \in Sids : se[s].chanid # -1 /\ se[s].pid # "none" /\ a[se[s].chanid].gen = g
    BY <1>1
  <2>2. se2[s] = se[s] /\ se[s].chanid # i
    BY <2>1, <1>5
  <2> QED BY <2>1, <2>2, <1>7, <1>2
<1> QED BY <1>1, <1>6, <1>8, <1>9, <1>10, <1>11, <1>12, <1>13 DEF SInv, b, se2

-----------------------------------------------------------------------------
(* Handlers that leave the sessions alone.                                 *)

\* A channel in use keeps its type of channel and what its end has promised.
Keeps(b, x) ==
  x.ctype = b.ctype /\ x.detach_close = b.detach_close /\ x.CLOSE_SENT = b.CLOSE_SENT

\* Everything but the table and the queues: the children stay as they are.
Rest ==
  /\ opens' = opens /\ sess' = sess /\ over' \in {"no", "exit"}
  /\ SameChildren(hist, hist')

\* A channel is written in a way its session does not notice.
LEMMA HeldSession ==
  ASSUME NEW e \in Ends, NEW i \in Ids, NEW x, NEW nt,
         IInv, MayTurn(chan, nt, e, i, x), Keeps(chan[e][i], x), Rest,
         chan' = Held(chan, e, i, x)
  PROVE  SInv(chan', sess', hist')
<1>1. SInv(chan, sess, hist) /\ chan \in [Ends -> [Ids -> Channel \cup {Free}]]
  BY DEF IInv, NInv, Typed
<1>2. x \in Channel \cup {Free} /\ x # Free
  BY UsedFacts DEF MayTurn
<1>3. \A j \in Ids : chan'["S"][j] = chan["S"][j] \/ Follows(sess, chan["S"][j], chan'["S"][j], j)
  <2>1. Put(chan, chan', e, i, x)
    BY <1>1, <1>2, PutFacts DEF Held
  <2>2. Follows(sess, chan[e][i], x, i)
    BY <1>2 DEF Follows, Keeps, MayTurn
  <2> QED BY <2>1, <2>2 DEF Put, Ends
<1>4. SInv(chan', sess, hist)
  BY <1>1, <1>3, SessionTurn
<1> QED BY <1>4, SessionLog DEF Rest

\* A message is read and a reply is written.
LEMMA AnswerInv ==
  ASSUME NEW e \in Ends, NEW i \in Ids, NEW x, NEW q,
         IInv, net[e] # <<>>, net[e][1].kind # "CONFIRM",
         MayTurn(chan, Popped(net, e), e, i, x), Talk(e, chan[e][i], Res(x, q)),
         Keeps(chan[e][i], x), Answer(e, i, Res(x, q)), Rest
  PROVE  IInv'
<1>1. NInv(chan', net', opens) /\ chan' = Held(chan, e, i, x)
  BY AnswerKeeps DEF IInv
<1>2. SInv(chan', sess', hist')
  BY <1>1, HeldSession
<1> QED BY <1>1, <1>2 DEF IInv, Rest

\* A message is read and ignored.
LEMMA IgnoreInv ==
  ASSUME NEW e \in Ends, IInv, net[e] # <<>>, net[e][1].kind # "CONFIRM", Ignore(e), Rest
  PROVE  IInv'
<1>1. NInv(chan', net', opens) /\ chan' = chan
  BY IgnoreKeeps DEF IInv
<1>2. SInv(chan', sess', hist')
  BY <1>1, SessionLog DEF Rest, IInv
<1> QED BY <1>1, <1>2 DEF IInv, Rest

\* A message is read and its channel updated.
LEMMA UpdateInv ==
  ASSUME NEW e \in Ends, NEW i \in Ids, NEW x, NEW q, IInv,
         MayTurn(chan, net, e, i, x), Talk(e, chan[e][i], Res(x, q)),
         Keeps(chan[e][i], x), Update(e, i, Res(x, q)), Rest
  PROVE  IInv'
<1>1. chan' = Held(chan, e, i, x) /\ net' = Sent(net, Peer(e), i, Res(x, q))
  BY ResFacts DEF Update, Held, Sent
<1>2. NInv(chan', net', opens)
  BY <1>1, HandleAndFree DEF IInv
<1>3. SInv(chan', sess', hist')
  BY <1>1, HeldSession
<1> QED BY <1>2, <1>3 DEF IInv, Rest

\* A handler that only reads.
LEMMA StillKeeps ==
  ASSUME NEW ch, NEW nt, NEW op, NEW e \in Ends, NEW i \in Ids, NInv(ch, nt, op), ch[e][i] # Free
  PROVE  MayTurn(ch, nt, e, i, ch[e][i]) /\ ch[e][i] \in Channel
BY DEF NInv, Typed, Shaped, MayTurn

\* An action that leaves the sessions and the history alone.
LEMMA RestFacts ==
  ASSUME SInv(chan, sess, hist), opens' = opens, sess' = sess, hist' = hist, over' \in {"no", "exit"}
  PROVE  Rest
BY DEF Rest, SameChildren, SInv

-----------------------------------------------------------------------------
(* The handlers of the messages that arrive.                               *)

\* The message an input handler reads.
LEMMA IncomingFacts ==
  ASSUME NEW e \in Ends, NEW kind, IInv, Incoming(e, kind)
  PROVE  /\ net[e] # <<>> /\ Head(net[e]) = net[e][1] /\ net[e][1].kind = kind
         /\ over = "no" /\ NInv(chan, net, opens) /\ net[e][1] \in Packet
<1>1. NInv(chan, net, opens) /\ net[e] # <<>> /\ Head(net[e]).kind = kind /\ over = "no"
  BY DEF Incoming, IInv
<1>2. net \in [Ends -> Seq(Packet)]
  BY <1>1 DEF NInv, Typed
<1>3. Head(net[e]) = net[e][1] /\ net[e][1] \in Packet
  BY SMTT(30), <1>1, <1>2, PopFacts
<1> QED BY <1>1, <1>3

\* A message of a channel's own finds the channel.
LEMMA OwnFacts ==
  ASSUME NEW e \in Ends, NEW kind, IInv, Incoming(e, kind),
         kind \in {"CONFIRM", "OPEN_FAILURE", "EXEC", "ADJUST", "SUCCESS", "EXIT", "EOW",
                   "WINDOW_CHANGE", "DATA", "EXTENDED_DATA", "EOF", "CLOSE"}
         \/ (kind = "FAILURE" /\ e = "C")
  PROVE  /\ Found(e) /\ Delivers(chan, e, net[e][1])
         /\ net[e][1].to \in Ids /\ chan[e][net[e][1].to] \in Channel
         /\ chan[e][net[e][1].to] # Free /\ Shape(e, chan[e][net[e][1].to])
         /\ MayTurn(chan, net, e, net[e][1].to, chan[e][net[e][1].to])
         /\ MayTurn(chan, Popped(net, e), e, net[e][1].to, chan[e][net[e][1].to])
         /\ chan[e][net[e][1].to].gen = net[e][1].gen /\ net[e][1].gen \in Gens
<1> DEFINE m == net[e][1]
           c == chan[e][m.to]
<1>1. /\ net[e] # <<>> /\ Head(net[e]) = m /\ m.kind = kind /\ NInv(chan, net, opens)
  BY IncomingFacts
<1>2. ~Noise(e, m) /\ ~Offer(m)
  BY <1>1 DEF Noise, Offer
<1>3. Delivers(chan, e, m) /\ m.to \in Ids /\ c \in Channel /\ Shape(e, c) /\ c.gen \in 1..opens
  BY <1>1, <1>2, FoundFacts
<1>4. c # Free /\ c.type \in {"OPENING", "LARVAL", "OPEN"} /\ c.gen = m.gen
  BY <1>3 DEF Delivers
<1>5. Found(e)
  BY <1>1, <1>3, <1>4 DEF Found
<1>6. m.gen \in Gens
  BY SMTT(30), <1>3, <1>4, ChannelsAssumption DEF Gens, IInv, NInv, Typed
<1>7. MayTurn(chan, net, e, m.to, c) /\ MayTurn(chan, Popped(net, e), e, m.to, c)
  BY Zenon, <1>1, <1>3, <1>4 DEF MayTurn
<1> QED BY <1>3, <1>4, <1>5, <1>6, <1>7

\* A change of what Shape, MayTurn and Keeps do not speak of.
LEMMA PlainTurn ==
  ASSUME NEW ch, NEW nt, NEW e, NEW i, NEW c, NEW x, MayTurn(ch, nt, e, i, c), x \in Channel,
         x.type = c.type, x.ctype = c.ctype, x.rid = c.rid, x.gen = c.gen,
         x.istate = c.istate, x.ostate = c.ostate, x.EOF_SENT = c.EOF_SENT,
         x.EOF_RCVD = c.EOF_RCVD, x.CLOSE_SENT = c.CLOSE_SENT, x.CLOSE_RCVD = c.CLOSE_RCVD,
         x.user = c.user, x.detach_close = c.detach_close
  PROVE  MayTurn(ch, nt, e, i, x) /\ Keeps(c, x)
<1>1. Shape(e, x)
  BY DEF MayTurn, Shape, BothClosed
<1> QED BY <1>1 DEF MayTurn, Keeps

\* Channel x is c with other buffers.
Plain(c, x) ==
  /\ x \in Channel /\ x.type = c.type /\ x.ctype = c.ctype /\ x.rid = c.rid /\ x.gen = c.gen
  /\ x.istate = c.istate /\ x.ostate = c.ostate /\ x.EOF_SENT = c.EOF_SENT
  /\ x.EOF_RCVD = c.EOF_RCVD /\ x.CLOSE_SENT = c.CLOSE_SENT /\ x.CLOSE_RCVD = c.CLOSE_RCVD
  /\ x.user = c.user /\ x.detach_close = c.detach_close

\* Other contents of the output buffer.
LEMMA OutputSet ==
  ASSUME NEW c \in Channel, NEW v \in Nat
  PROVE  Plain(c, [c EXCEPT !.output = v]) /\ c.output \in Nat
<1> DEFINE x == [c EXCEPT !.output = v]
<1>1. x \in Channel
  BY DEF Channel
<1>2. /\ x.type = c.type /\ x.ctype = c.ctype /\ x.rid = c.rid /\ x.gen = c.gen
      /\ x.istate = c.istate /\ x.ostate = c.ostate /\ x.EOF_SENT = c.EOF_SENT
      /\ x.EOF_RCVD = c.EOF_RCVD /\ x.CLOSE_SENT = c.CLOSE_SENT /\ x.CLOSE_RCVD = c.CLOSE_RCVD
      /\ x.user = c.user /\ x.detach_close = c.detach_close
  BY DEF Channel
<1>3. c.output \in Nat
  BY DEF Channel
<1> QED BY <1>1, <1>2, <1>3 DEF Plain

\* Other contents of the extended buffer.
LEMMA ExtSet ==
  ASSUME NEW c \in Channel, NEW v \in Nat
  PROVE  Plain(c, [c EXCEPT !.ext = v]) /\ c.ext \in Nat
<1> DEFINE x == [c EXCEPT !.ext = v]
<1>1. x \in Channel
  BY DEF Channel
<1>2. /\ x.type = c.type /\ x.ctype = c.ctype /\ x.rid = c.rid /\ x.gen = c.gen
      /\ x.istate = c.istate /\ x.ostate = c.ostate /\ x.EOF_SENT = c.EOF_SENT
      /\ x.EOF_RCVD = c.EOF_RCVD /\ x.CLOSE_SENT = c.CLOSE_SENT /\ x.CLOSE_RCVD = c.CLOSE_RCVD
      /\ x.user = c.user /\ x.detach_close = c.detach_close
  BY DEF Channel
<1>3. c.ext \in Nat
  BY DEF Channel
<1> QED BY <1>1, <1>2, <1>3 DEF Plain

\* One lemma per action from here on: channel_input_data.
LEMMA InputDataInv ==
  ASSUME IInv, NEW e \in Ends, InputData(e)
  PROVE  IInv'
<1> DEFINE m == net[e][1]
           c == chan[e][m.to]
           x == [c EXCEPT !.output = @ + m.n]
<1>1. Incoming(e, "DATA") /\ UNCHANGED <<sess, opens, notices, hist>>
  BY DEF InputData
<1>2. /\ net[e] # <<>> /\ Head(net[e]) = m /\ m.kind = "DATA" /\ over = "no" /\ m \in Packet
      /\ NInv(chan, net, opens)
  BY <1>1, IncomingFacts
<1>3. /\ Found(e) /\ m.to \in Ids /\ c \in Channel /\ MayTurn(chan, Popped(net, e), e, m.to, c)
  BY SMTT(30), <1>1, OwnFacts
<1>4. /\ \/ Answer(e, m.to, On(x))
         \/ Ignore(e)
      /\ UNCHANGED over
  BY <1>2, <1>3 DEF InputData
<1>5. Rest
  BY <1>1, <1>2, <1>4, RestFacts DEF IInv
<1>6. CASE Answer(e, m.to, On(x))
  <2> DEFINE v == c.output + m.n
  <2>n. m.n \in Nat /\ c.output \in Nat
    BY <1>2, <1>3, OutputSet DEF Packet
  <2>1. v \in Nat
    BY <2>n
  <2> HIDE DEF v
  <2>e. x = [c EXCEPT !.output = v]
    BY Zenon DEF v
  <2>p. Plain(c, x)
    BY Zenon, <1>3, <2>1, <2>e, OutputSet
  <2> HIDE DEF x
  <2>2. /\ x \in Channel /\ x.type = c.type /\ x.ctype = c.ctype /\ x.rid = c.rid /\ x.gen = c.gen
        /\ x.istate = c.istate /\ x.ostate = c.ostate /\ x.EOF_SENT = c.EOF_SENT
        /\ x.EOF_RCVD = c.EOF_RCVD /\ x.CLOSE_SENT = c.CLOSE_SENT /\ x.CLOSE_RCVD = c.CLOSE_RCVD
        /\ x.user = c.user /\ x.detach_close = c.detach_close
    BY Zenon, <2>p DEF Plain
  <2>3. MayTurn(chan, Popped(net, e), e, m.to, x) /\ Keeps(c, x)
    BY SMTT(30), <1>3, <2>2, PlainTurn
  <2>4. Talk(e, c, Res(x, <<>>)) /\ On(x) = Res(x, <<>>)
    BY ResFacts DEF Talk
  <2> QED BY SMTT(30), <1>2, <1>3, <1>5, <1>6, <2>3, <2>4, AnswerInv
<1>7. CASE Ignore(e)
  BY <1>2, <1>5, <1>7, IgnoreInv
<1> QED BY <1>4, <1>6, <1>7

\* channel_input_extended_data.
LEMMA InputExtendedDataInv ==
  ASSUME IInv, InputExtendedData
  PROVE  IInv'
<1> DEFINE m == net["C"][1]
           c == chan["C"][m.to]
           x == [c EXCEPT !.ext = @ + m.n]
<1>0. "C" \in Ends
  BY DEF Ends
<1>1. Incoming("C", "EXTENDED_DATA") /\ UNCHANGED <<sess, opens, notices, hist>>
  BY DEF InputExtendedData
<1>2. /\ net["C"] # <<>> /\ Head(net["C"]) = m /\ m.kind = "EXTENDED_DATA" /\ over = "no" /\ m \in Packet
      /\ NInv(chan, net, opens)
  BY <1>0, <1>1, IncomingFacts
<1>3. /\ Found("C") /\ m.to \in Ids /\ c \in Channel /\ MayTurn(chan, Popped(net, "C"), "C", m.to, c)
      /\ c # Free /\ c.gen = m.gen
  BY <1>0, <1>1, OwnFacts
\* The server sends no data after its EOF.
<1>e. ~c.EOF_RCVD
  <2>1. 1 \in DOMAIN net["C"]
    BY <1>0, <1>2, HeadFacts
  <2>2. Bytes(m)
    BY <1>2 DEF Bytes
  <2> QED BY <1>0, <1>2, <1>3, <2>1, <2>2 DEF NInv, Ended
<1>4. /\ \/ Answer("C", m.to, On(x))
         \/ Ignore("C")
      /\ UNCHANGED over
  BY Zenon, <1>2, <1>3, <1>e DEF InputExtendedData
<1>5. Rest
  BY <1>1, <1>2, <1>4, RestFacts DEF IInv
<1>6. CASE Answer("C", m.to, On(x))
  <2> DEFINE v == c.ext + m.n
  <2>n. m.n \in Nat /\ c.ext \in Nat
    BY <1>2, <1>3, ExtSet DEF Packet
  <2>1. v \in Nat
    BY <2>n
  <2> HIDE DEF v
  <2>e. x = [c EXCEPT !.ext = v]
    BY Zenon DEF v
  <2>p. Plain(c, x)
    BY Zenon, <1>3, <2>1, <2>e, ExtSet
  <2> HIDE DEF x
  <2>2. /\ x \in Channel /\ x.type = c.type /\ x.ctype = c.ctype /\ x.rid = c.rid /\ x.gen = c.gen
        /\ x.istate = c.istate /\ x.ostate = c.ostate /\ x.EOF_SENT = c.EOF_SENT
        /\ x.EOF_RCVD = c.EOF_RCVD /\ x.CLOSE_SENT = c.CLOSE_SENT /\ x.CLOSE_RCVD = c.CLOSE_RCVD
        /\ x.user = c.user /\ x.detach_close = c.detach_close
    BY Zenon, <2>p DEF Plain
  <2>3. MayTurn(chan, Popped(net, "C"), "C", m.to, x) /\ Keeps(c, x)
    BY SMTT(30), <1>3, <2>2, PlainTurn
  <2>4. Talk("C", c, Res(x, <<>>)) /\ On(x) = Res(x, <<>>)
    BY ResFacts DEF Talk
  <2> QED BY <1>0, <1>2, <1>3, <1>5, <1>6, <2>3, <2>4, AnswerInv
<1>7. CASE Ignore("C")
  BY <1>0, <1>2, <1>5, <1>7, IgnoreInv
<1> QED BY <1>4, <1>6, <1>7

\* channel_input_window_adjust.
LEMMA InputAdjustInv ==
  ASSUME IInv, InputAdjust
  PROVE  IInv'
<1> DEFINE m == net["C"][1]
           c == chan["C"][m.to]
           x == [c EXCEPT !.rwin = TRUE]
<1>0. "C" \in Ends
  BY DEF Ends
<1>1. Incoming("C", "ADJUST") /\ UNCHANGED <<sess, opens, notices, hist, over>>
  BY DEF InputAdjust
<1>2. /\ net["C"] # <<>> /\ Head(net["C"]) = m /\ m.kind = "ADJUST" /\ over = "no" /\ m \in Packet
      /\ NInv(chan, net, opens)
  BY <1>0, <1>1, IncomingFacts
<1>3. /\ Found("C") /\ m.to \in Ids /\ c \in Channel /\ MayTurn(chan, Popped(net, "C"), "C", m.to, c)
  BY <1>0, <1>1, OwnFacts
<1>4. Answer("C", m.to, On(x))
  BY <1>2, <1>3 DEF InputAdjust
<1>5. Rest
  BY SMTT(30), <1>1, <1>2, RestFacts DEF IInv
<1>6. /\ x \in Channel /\ x.type = c.type /\ x.ctype = c.ctype /\ x.rid = c.rid /\ x.gen = c.gen
      /\ x.istate = c.istate /\ x.ostate = c.ostate /\ x.EOF_SENT = c.EOF_SENT
      /\ x.EOF_RCVD = c.EOF_RCVD /\ x.CLOSE_SENT = c.CLOSE_SENT /\ x.CLOSE_RCVD = c.CLOSE_RCVD
      /\ x.user = c.user /\ x.detach_close = c.detach_close
  BY ZenonT(30), <1>3 DEF Channel
<1> HIDE DEF x
<1>7. MayTurn(chan, Popped(net, "C"), "C", m.to, x) /\ Keeps(c, x)
  BY SMTT(30), <1>3, <1>6, PlainTurn
<1>8. Talk("C", c, Res(x, <<>>)) /\ On(x) = Res(x, <<>>)
  BY ResFacts DEF Talk
<1> QED BY <1>0, <1>2, <1>3, <1>4, <1>5, <1>7, <1>8, AnswerInv

\* client_input_channel_req, exit-status.
LEMMA InputExitInv ==
  ASSUME IInv, InputExit
  PROVE  IInv'
<1>0. "C" \in Ends
  BY DEF Ends
<1>1. Incoming("C", "EXIT") /\ Ignore("C") /\ UNCHANGED <<sess, opens, notices, hist, over>>
  BY DEF InputExit
<1>2. net["C"] # <<>> /\ net["C"][1].kind = "EXIT" /\ over = "no"
  BY <1>0, <1>1, IncomingFacts
<1>3. Rest
  BY <1>1, <1>2, RestFacts DEF IInv
<1> QED BY <1>0, <1>1, <1>2, <1>3, IgnoreInv

\* server_input_keep_alive.
LEMMA InputKeepAliveReplyInv ==
  ASSUME IInv, InputKeepAliveReply
  PROVE  IInv'
<1>0. "S" \in Ends
  BY DEF Ends
<1>1. Incoming("S", "FAILURE") /\ Ignore("S") /\ UNCHANGED <<sess, opens, notices, hist, over>>
  BY DEF InputKeepAliveReply
<1>2. net["S"] # <<>> /\ net["S"][1].kind = "FAILURE" /\ over = "no"
  BY <1>0, <1>1, IncomingFacts
<1>3. Rest
  BY <1>1, <1>2, RestFacts DEF IInv
<1> QED BY <1>0, <1>1, <1>2, <1>3, IgnoreInv

\* session_window_change_req.
LEMMA InputWindowChangeInv ==
  ASSUME IInv, InputWindowChange
  PROVE  IInv'
<1>0. "S" \in Ends
  BY DEF Ends
<1>1. Incoming("S", "WINDOW_CHANGE") /\ UNCHANGED <<sess, opens, notices, hist>>
  BY DEF InputWindowChange
<1>2. net["S"] # <<>> /\ net["S"][1].kind = "WINDOW_CHANGE" /\ over = "no"
  BY <1>0, <1>1, IncomingFacts
<1>3. Found("S")
  BY <1>0, <1>1, OwnFacts
<1>4. Ignore("S") /\ UNCHANGED over
  BY <1>3 DEF InputWindowChange
<1>5. Rest
  BY <1>1, <1>2, <1>4, RestFacts DEF IInv
<1> QED BY <1>0, <1>2, <1>4, <1>5, IgnoreInv

\* Nothing but an answer to its offer reaches a channel that is being opened.
LEMMA HeadOpened ==
  ASSUME NEW e \in Ends, NInv(chan, net, opens), net[e] # <<>>,
         ~Noise(e, net[e][1]), ~Offer(net[e][1]), ~Reply(net[e][1])
  PROVE  chan[e][net[e][1].to].type \in {"LARVAL", "OPEN"}
<1> DEFINE m == net[e][1]
           c == chan[e][m.to]
<1>1. Delivers(chan, e, m) /\ 1 \in DOMAIN net[e]
  BY FoundFacts, HeadFacts
<1>2. m.to \in Ids /\ c # Free /\ c.gen = m.gen /\ c.type \in {"OPENING", "LARVAL", "OPEN"}
  BY <1>1 DEF Delivers
<1>3. DOMAIN net[e] \subseteq Nat \ {0}
  BY DEF NInv, Typed
<1>4. ASSUME c.type = "OPENING" PROVE FALSE
  <2>1. ConfirmFirst(net, e, c.gen)
    BY <1>2, <1>4 DEF NInv, Opening
  <2>2. PICK j \in DOMAIN net[e] : j < 1
    BY <2>1, <1>1, <1>2 DEF ConfirmFirst
  <2> QED BY <2>2, <1>3
<1> QED BY <1>2, <1>4

\* server_input_channel_req, eow@openssh.com.
LEMMA InputEowInv ==
  ASSUME IInv, NEW e \in Ends, InputEow(e)
  PROVE  IInv'
<1> DEFINE m == net[e][1]
           c == chan[e][m.to]
           x == [c EXCEPT !.istate = "CLOSED"]
<1>1. Incoming(e, "EOW") /\ UNCHANGED <<sess, opens, notices, hist>>
  BY DEF InputEow
<1>2. /\ net[e] # <<>> /\ Head(net[e]) = m /\ m.kind = "EOW" /\ over = "no" /\ m \in Packet
      /\ NInv(chan, net, opens)
  BY <1>1, IncomingFacts
<1>3. /\ Found(e) /\ m.to \in Ids /\ c \in Channel /\ MayTurn(chan, Popped(net, e), e, m.to, c)
  BY <1>1, OwnFacts
<1>4. c.type \in {"LARVAL", "OPEN"}
  BY <1>2, HeadOpened DEF Noise, Offer, Reply
<1>5. Answer(e, m.to, RcvdEow(On(c))) /\ UNCHANGED over
  BY <1>2, <1>3 DEF InputEow
<1>6. Rest
  BY <1>1, <1>2, <1>5, RestFacts DEF IInv
<1>7. ASSUME NEW y, RcvdEow(On(c)) = Res(y, <<>>), MayTurn(chan, Popped(net, e), e, m.to, y), Keeps(c, y)
      PROVE  IInv'
  <2>1. Talk(e, c, Res(y, <<>>))
    BY ResFacts DEF Talk
  <2> QED BY <1>2, <1>3, <1>5, <1>6, <1>7, <2>1, AnswerInv
<1>8. CASE c.istate = "OPEN"
  <2>1. /\ x \in Channel /\ x.type = c.type /\ x.ctype = c.ctype /\ x.rid = c.rid /\ x.gen = c.gen
        /\ x.istate = "CLOSED" /\ x.ostate = c.ostate /\ x.EOF_SENT = c.EOF_SENT
        /\ x.EOF_RCVD = c.EOF_RCVD /\ x.CLOSE_SENT = c.CLOSE_SENT /\ x.CLOSE_RCVD = c.CLOSE_RCVD
        /\ x.user = c.user /\ x.detach_close = c.detach_close
    BY Zenon, <1>3 DEF Channel, Halves
  <2>2. On(c).c = c
    BY ResFacts
  <2>3. RcvdEow(On(c)) = Set(On(c), x)
    BY <2>2, <1>8 DEF RcvdEow
  <2> HIDE DEF x
  <2>4. Set(On(c), x) = Res(x, <<>>)
    BY SMTT(30), ResFacts
  <2>5. Shape(e, x)
    BY ZenonT(30), <2>1, <1>3, <1>4, <1>8 DEF MayTurn, Shape, BothClosed
  <2>6. MayTurn(chan, Popped(net, e), e, m.to, x) /\ Keeps(c, x)
    BY ZenonT(30), <2>1, <2>5, <1>3 DEF MayTurn, Keeps
  <2> QED BY SMTT(30), <2>3, <2>4, <2>6, <1>7
<1>9. CASE c.istate # "OPEN"
  <2>1. On(c).c = c /\ On(c) = Res(c, <<>>)
    BY ResFacts
  <2>2. RcvdEow(On(c)) = Res(c, <<>>)
    BY <2>1, <1>9 DEF RcvdEow
  <2>3. Keeps(c, c)
    BY DEF Keeps
  <2> QED BY <2>2, <2>3, <1>3, <1>7
<1> QED BY <1>8, <1>9

\* channel_input_ieof.
LEMMA InputEofInv ==
  ASSUME IInv, NEW e \in Ends, InputEof(e)
  PROVE  IInv'
<1> DEFINE m == net[e][1]
           c == chan[e][m.to]
           o == IF c.ostate = "OPEN" THEN "WAIT_DRAIN" ELSE c.ostate
           x == [c EXCEPT !.EOF_RCVD = TRUE, !.ostate = o]
           y == [x EXCEPT !.ostate = "CLOSED"]
           nt2 == Popped(net, e)
<1>1. Incoming(e, "EOF") /\ UNCHANGED <<sess, opens, notices, hist>>
  BY DEF InputEof
<1>2. /\ net[e] # <<>> /\ Head(net[e]) = m /\ m.kind = "EOF" /\ over = "no" /\ m \in Packet
      /\ NInv(chan, net, opens)
  BY <1>1, IncomingFacts
<1>3. /\ Found(e) /\ m.to \in Ids /\ c \in Channel /\ MayTurn(chan, nt2, e, m.to, c)
      /\ c.gen = m.gen
  BY <1>1, OwnFacts
<1>4. c.type \in {"LARVAL", "OPEN"}
  BY <1>2, HeadOpened DEF Noise, Offer, Reply
<1>5. Answer(e, m.to, RcvdIeof(e, On(c))) /\ UNCHANGED over
  BY <1>2, <1>3 DEF InputEof
<1>6. Rest
  BY <1>1, <1>2, <1>5, RestFacts DEF IInv
<1>7. RcvdIeof(e, On(c)) = Res(x, <<>>) \/ RcvdIeof(e, On(c)) = Res(y, <<>>)
  <2>1. On(c).c = c /\ On(c) = Res(c, <<>>)
    BY ResFacts
  <2>2. \/ RcvdIeof(e, On(c)) = Set(On(c), x)
        \/ RcvdIeof(e, On(c)) = ObufEmpty(Set(On(c), x))
    BY <2>1, Zenon DEF RcvdIeof
  <2> HIDE DEF x
  <2>3. Set(On(c), x) = Res(x, <<>>) /\ Res(x, <<>>).c = x
    BY <2>1, ResFacts
  <2>4. ObufEmpty(Res(x, <<>>)) = Set(Res(x, <<>>), y)
    BY <2>3, Zenon DEF ObufEmpty
  <2> HIDE DEF y
  <2>5. Set(Res(x, <<>>), y) = Res(y, <<>>)
    BY SMTT(30), ResFacts
  <2> QED BY <2>2, <2>3, <2>4, <2>5
<1>8. ASSUME NEW z, z \in {x, y}
      PROVE  /\ z \in Channel /\ z.type = c.type /\ z.ctype = c.ctype /\ z.rid = c.rid /\ z.gen = c.gen
             /\ z.istate = c.istate /\ (c.ostate = "CLOSED" => z.ostate = "CLOSED")
             /\ z.EOF_SENT = c.EOF_SENT /\ z.CLOSE_SENT = c.CLOSE_SENT /\ z.CLOSE_RCVD = c.CLOSE_RCVD
             /\ z.user = c.user /\ z.detach_close = c.detach_close
  <2>1. o \in Halves
    BY Zenon, <1>3 DEF Channel, Halves
  <2>2. c.ostate = "CLOSED" => o = "CLOSED"
    BY SMTT(30)
  <2> HIDE DEF o
  <2>3. /\ x \in Channel /\ x.type = c.type /\ x.ctype = c.ctype /\ x.rid = c.rid /\ x.gen = c.gen
        /\ x.istate = c.istate /\ x.ostate = o
        /\ x.EOF_SENT = c.EOF_SENT /\ x.CLOSE_SENT = c.CLOSE_SENT /\ x.CLOSE_RCVD = c.CLOSE_RCVD
        /\ x.user = c.user /\ x.detach_close = c.detach_close
    BY ZenonT(30), <2>1, <1>3 DEF Channel
  <2> HIDE DEF x
  <2>4. /\ y \in Channel /\ y.type = x.type /\ y.ctype = x.ctype /\ y.rid = x.rid /\ y.gen = x.gen
        /\ y.istate = x.istate /\ y.ostate = "CLOSED"
        /\ y.EOF_SENT = x.EOF_SENT /\ y.CLOSE_SENT = x.CLOSE_SENT /\ y.CLOSE_RCVD = x.CLOSE_RCVD
        /\ y.user = x.user /\ y.detach_close = x.detach_close
    BY Zenon, <2>3 DEF Channel, Halves
  <2> HIDE DEF y
  <2> QED BY SMTT(30), <2>2, <2>3, <2>4, <1>8
<1> HIDE DEF x, y
\* Nothing but data is to come before EOF, and the peer has sent it.
<1>9. \A k \in DOMAIN nt2[e] : nt2[e][k].gen = c.gen => ~Bytes(nt2[e][k])
  <2> SUFFICES ASSUME NEW k \in DOMAIN nt2[e], nt2[e][k].gen = c.gen
               PROVE  ~Bytes(nt2[e][k])
    OBVIOUS
  <2>1. 1 \in DOMAIN net[e]
    BY <1>2, HeadFacts
  <2>2. PICK l \in DOMAIN net[e] : 1 < l /\ nt2[e][k] = net[e][l]
    BY ZenonT(30), <1>2, HeadFacts
  <2> QED BY <2>1, <2>2, <1>2, <1>3 DEF NInv, Ended
<1>10. \A j \in Ids : chan[Peer(e)][j] # Free /\ chan[Peer(e)][j].gen = c.gen =>
            chan[Peer(e)][j].EOF_SENT
  <2>1. 1 \in DOMAIN net[e]
    BY <1>2, HeadFacts
  <2>2. ~NoEof(chan, net, Peer(Peer(e)), c.gen) /\ Peer(e) \in Ends
    BY <2>1, <1>2, <1>3, PeerFacts DEF NoEof
  <2> QED BY <2>2, <1>2 DEF NInv, Ended
<1>11. ASSUME NEW z, z \in {x, y}
       PROVE  MayTurn(chan, nt2, e, m.to, z) /\ Keeps(c, z)
  <2>1. /\ z \in Channel /\ z.type = c.type /\ z.ctype = c.ctype /\ z.rid = c.rid /\ z.gen = c.gen
        /\ z.istate = c.istate /\ (c.ostate = "CLOSED" => z.ostate = "CLOSED")
        /\ z.EOF_SENT = c.EOF_SENT /\ z.CLOSE_SENT = c.CLOSE_SENT /\ z.CLOSE_RCVD = c.CLOSE_RCVD
        /\ z.user = c.user /\ z.detach_close = c.detach_close
    BY SMTT(30), <1>8, <1>11
  <2>2. Shape(e, z)
    BY ZenonT(30), <2>1, <1>3, <1>4 DEF MayTurn, Shape, BothClosed
  <2> HIDE DEF nt2
  <2> QED BY ZenonT(30), <2>1, <2>2, <1>3, <1>9, <1>10 DEF MayTurn, Keeps
<1>12. ASSUME NEW z, RcvdIeof(e, On(c)) = Res(z, <<>>), z \in {x, y}
       PROVE  IInv'
  <2>1. Talk(e, c, Res(z, <<>>))
    BY ResFacts DEF Talk
  <2>2. MayTurn(chan, nt2, e, m.to, z) /\ Keeps(c, z)
    BY <1>11, <1>12
  <2> QED BY <1>2, <1>3, <1>5, <1>6, <1>12, <2>1, <2>2, AnswerInv
<1> QED BY <1>7, <1>12

\* chan_send_eof2() and its message.
EofNote == [kind |-> "EOF", n |-> 0]

\* chan_send_eof2 says EOF for a half that is closed.
LEMMA SendEofFacts ==
  ASSUME NEW x, NEW o
  PROVE  /\ x.istate = "WAIT_DRAIN" => SendEof(Res(x, o)) =
                                       Res([x EXCEPT !.EOF_SENT = TRUE], Append(o, EofNote))
         /\ x.istate # "WAIT_DRAIN" => SendEof(Res(x, o)) = Res(x, o)
<1> DEFINE z == [x EXCEPT !.EOF_SENT = TRUE]
<1>1. Res(x, o).c = x
  BY ResFacts
<1>2. ASSUME NEW y, y.c = x
      PROVE  SendEof(y) = IF x.istate = "WAIT_DRAIN" THEN Send(Set(y, z), "EOF") ELSE y
  BY <1>2, Zenon DEF SendEof
<1> HIDE DEF z
<1>3. Send(Set(Res(x, o), z), "EOF") = Res(z, Append(o, EofNote))
  BY ResFacts DEF EofNote
<1> QED BY <1>1, <1>2, <1>3 DEF z

\* The buffers and descriptors of c are those of x.
SameBuffers(c, x) ==
  /\ x.rwin = c.rwin /\ x.efd = c.efd /\ x.pipe = c.pipe /\ x.epipe = c.epipe
  /\ x.input = c.input /\ x.output = c.output /\ x.ext = c.ext

\* What chan_rcvd_oclose() makes of a channel: it has had CLOSE, and reads and
\* sends no more.
RcvdCloseOf(c, x) ==
  /\ x \in Channel /\ x.type = c.type /\ x.ctype = c.ctype /\ x.rid = c.rid /\ x.gen = c.gen
  /\ x.istate = "CLOSED" /\ (c.ostate = "CLOSED" => x.ostate = "CLOSED")
  /\ (c.EOF_SENT => x.EOF_SENT) /\ x.EOF_RCVD = c.EOF_RCVD /\ x.CLOSE_SENT = c.CLOSE_SENT
  /\ x.CLOSE_RCVD /\ x.user = c.user /\ x.detach_close = c.detach_close
  /\ x.ostate = "CLOSED" => c.ostate = "CLOSED" \/ c.type = "LARVAL"
  /\ c.type = "LARVAL" => x.EOF_SENT = c.EOF_SENT
  /\ SameBuffers(c, x)

\* chan_rcvd_close2.
LEMMA RcvdCloseFacts ==
  ASSUME NEW c \in Channel
  PROVE  \E x, q : /\ RcvdClose(On(c)) = Res(x, q) /\ RcvdCloseOf(c, x)
                   /\ \/ q = <<>> /\ x.EOF_SENT = c.EOF_SENT
                      \/ q = <<EofNote>> /\ c.istate = "WAIT_DRAIN" /\ x.EOF_SENT
<1> DEFINE x1 == [c EXCEPT !.CLOSE_RCVD = TRUE]
           o == IF x1.ostate = "OPEN" THEN "WAIT_DRAIN" ELSE x1.ostate
           r1 == Set(On(c), x1)
           r2 == IF x1.istate = "WAIT_DRAIN" THEN SendEof(r1) ELSE r1
           xl == [x1 EXCEPT !.ostate = "CLOSED", !.istate = "CLOSED"]
<1>0. On(c) = Res(c, <<>>) /\ Res(c, <<>>).c = c
  BY ResFacts
<1>1. /\ x1 \in Channel /\ x1.type = c.type /\ x1.ctype = c.ctype /\ x1.rid = c.rid /\ x1.gen = c.gen
      /\ x1.istate = c.istate /\ x1.ostate = c.ostate /\ x1.EOF_SENT = c.EOF_SENT
      /\ x1.EOF_RCVD = c.EOF_RCVD /\ x1.CLOSE_SENT = c.CLOSE_SENT
      /\ x1.CLOSE_RCVD /\ x1.user = c.user /\ x1.detach_close = c.detach_close
      /\ SameBuffers(c, x1)
  BY DEF Channel, SameBuffers
<1> HIDE DEF x1
<1>2. r1 = Res(x1, <<>>) /\ r1.c = x1
  BY <1>0, ResFacts
<1>3. RcvdClose(On(c)) = IF x1.type = "LARVAL" THEN Set(r1, xl)
                         ELSE Set(r2, [r2.c EXCEPT !.ostate = o, !.istate = "CLOSED"])
  <2>1. ASSUME NEW y, y.c = c
        PROVE  LET s1 == Set(y, x1)
                   s2 == IF s1.c.istate = "WAIT_DRAIN" THEN SendEof(s1) ELSE s1
                   p == IF s1.c.ostate = "OPEN" THEN "WAIT_DRAIN" ELSE s1.c.ostate
               IN  RcvdClose(y) = IF s1.c.type = "LARVAL"
                                  THEN Set(s1, [s1.c EXCEPT !.ostate = "CLOSED", !.istate = "CLOSED"])
                                  ELSE Set(s2, [s2.c EXCEPT !.ostate = p, !.istate = "CLOSED"])
    BY <2>1, Zenon DEF RcvdClose, x1
  <2>2. On(c).c = c
    BY <1>0
  <2> QED BY <2>1, <2>2, <1>2, Zenon
<1>o. o \in Halves /\ (c.ostate = "CLOSED" <=> o = "CLOSED")
  BY <1>1 DEF Channel, Halves
<1> HIDE DEF o
<1>4. CASE x1.type = "LARVAL"
  <2>1. RcvdCloseOf(c, xl) /\ xl.EOF_SENT = c.EOF_SENT
    BY ZenonT(40), <1>1, <1>4 DEF RcvdCloseOf, Channel, Halves, SameBuffers
  <2> HIDE DEF xl
  <2>2. RcvdClose(On(c)) = Set(r1, xl)
    BY <1>3, <1>4
  <2>3. Set(r1, xl) = Res(xl, <<>>)
    BY <1>2, ResFacts
  <2> QED BY <2>1, <2>2, <2>3
<1>5. CASE x1.type # "LARVAL"
  <2>1. ASSUME NEW y \in Channel, NEW q, r2 = Res(y, q),
               y.type = c.type, y.ctype = c.ctype, y.rid = c.rid, y.gen = c.gen,
               c.EOF_SENT => y.EOF_SENT, y.EOF_RCVD = c.EOF_RCVD, y.CLOSE_SENT = c.CLOSE_SENT,
               y.CLOSE_RCVD, y.user = c.user, y.detach_close = c.detach_close, SameBuffers(c, y)
        PROVE  \E x : /\ RcvdClose(On(c)) = Res(x, q) /\ RcvdCloseOf(c, x)
                      /\ x.EOF_SENT = y.EOF_SENT
    <3> DEFINE z == [y EXCEPT !.ostate = o, !.istate = "CLOSED"]
    <3>1. r2.c = y
      BY <2>1, ResFacts
    <3>2. RcvdClose(On(c)) = Set(r2, z)
      BY <3>1, <1>3, <1>5
    <3>3. RcvdCloseOf(c, z) /\ z.EOF_SENT = y.EOF_SENT
      <4>1. c.type # "LARVAL"
        BY <1>1, <1>5
      <4> QED BY ZenonT(30), <4>1, <2>1, <1>o DEF RcvdCloseOf, Channel, Halves, SameBuffers
    <3> HIDE DEF z
    <3>4. Set(r2, z) = Res(z, q)
      BY <2>1, ResFacts
    <3> QED BY <3>2, <3>3, <3>4
  <2>2. CASE c.istate = "WAIT_DRAIN"
    <3> DEFINE y == [x1 EXCEPT !.EOF_SENT = TRUE]
    <3>1. r2 = Res(y, Append(<<>>, EofNote))
      BY ZenonT(40), <1>1, <1>2, <2>2, SendEofFacts
    <3>2. Append(<<>>, EofNote) = <<EofNote>>
      OBVIOUS
    <3>3. /\ y \in Channel /\ y.type = c.type /\ y.ctype = c.ctype /\ y.rid = c.rid /\ y.gen = c.gen
          /\ y.EOF_SENT /\ y.EOF_RCVD = c.EOF_RCVD /\ y.CLOSE_SENT = c.CLOSE_SENT
          /\ y.CLOSE_RCVD /\ y.user = c.user /\ y.detach_close = c.detach_close
          /\ SameBuffers(c, y)
      BY <1>1 DEF Channel, SameBuffers
    <3> DEFINE q == <<EofNote>>
    <3> HIDE DEF y, r2
    <3>4. r2 = Res(y, q) /\ (c.EOF_SENT => y.EOF_SENT)
      BY <3>1, <3>2, <3>3
    <3> HIDE DEF q
    <3>5. \E x : RcvdClose(On(c)) = Res(x, q) /\ RcvdCloseOf(c, x) /\ x.EOF_SENT = y.EOF_SENT
      BY <2>1, <3>4, <3>3
    <3> QED BY <3>5, <3>3, <2>2 DEF q
  <2>3. CASE c.istate # "WAIT_DRAIN"
    <3>1. r2 = Res(x1, <<>>)
      BY <1>1, <1>2, <2>3
    <3>2. PICK x : RcvdClose(On(c)) = Res(x, <<>>) /\ RcvdCloseOf(c, x) /\ x.EOF_SENT = x1.EOF_SENT
      BY SMTT(30), <2>1, <3>1, <1>1
    <3> QED BY <3>2, <1>1
  <2> QED BY <2>2, <2>3
<1> QED BY <1>4, <1>5

\* channel_input_oclose.
LEMMA InputCloseInv ==
  ASSUME IInv, NEW e \in Ends, InputClose(e)
  PROVE  IInv'
<1> DEFINE m == net[e][1]
           c == chan[e][m.to]
           nt2 == Popped(net, e)
<1>1. Incoming(e, "CLOSE") /\ UNCHANGED <<sess, opens, notices, hist>>
  BY DEF InputClose
<1>2. /\ net[e] # <<>> /\ Head(net[e]) = m /\ m.kind = "CLOSE" /\ over = "no" /\ m \in Packet
      /\ NInv(chan, net, opens) /\ 1 \in DOMAIN net[e]
  BY <1>1, IncomingFacts, HeadFacts
<1>3. /\ Found(e) /\ m.to \in Ids /\ c \in Channel /\ MayTurn(chan, nt2, e, m.to, c)
      /\ c.gen = m.gen
  BY <1>1, OwnFacts
<1>4. c.type \in {"LARVAL", "OPEN"}
  BY <1>2, HeadOpened DEF Noise, Offer, Reply
<1>5. Answer(e, m.to, RcvdClose(On(c))) /\ UNCHANGED over
  BY <1>2, <1>3 DEF InputClose
<1>6. Rest
  BY SMTT(30), <1>1, <1>2, <1>5, RestFacts DEF IInv
<1>7. PICK x, q : /\ RcvdClose(On(c)) = Res(x, q) /\ RcvdCloseOf(c, x)
                  /\ \/ q = <<>>
                     \/ q = <<EofNote>> /\ c.istate = "WAIT_DRAIN" /\ x.EOF_SENT
  BY <1>3, RcvdCloseFacts
\* Only keepalives are to come, and the peer has sent its CLOSE.
<1>8. \A k \in DOMAIN nt2[e] : nt2[e][k].gen = c.gen => nt2[e][k].kind = "KEEPALIVE"
  <2> SUFFICES ASSUME NEW k \in DOMAIN nt2[e], nt2[e][k].gen = c.gen
               PROVE  nt2[e][k].kind = "KEEPALIVE"
    OBVIOUS
  <2>1. PICK l \in DOMAIN net[e] : 1 < l /\ nt2[e][k] = net[e][l]
    BY ZenonT(40), <1>2, HeadFacts
  <2> QED BY <2>1, <1>2, <1>3 DEF NInv, Closed
<1>9. \A j \in Ids : chan[Peer(e)][j] # Free /\ chan[Peer(e)][j].gen = c.gen =>
        chan[Peer(e)][j].type = "ZOMBIE" \/ chan[Peer(e)][j].CLOSE_SENT
  <2> SUFFICES ASSUME NEW j \in Ids, chan[Peer(e)][j] # Free, chan[Peer(e)][j].gen = c.gen,
                      chan[Peer(e)][j].type # "ZOMBIE", ~chan[Peer(e)][j].CLOSE_SENT
               PROVE  FALSE
    OBVIOUS
  <2> DEFINE p == Peer(e)
             d == chan[p][j]
  <2>1. p \in Ends /\ Peer(p) = e
    BY PeerFacts
  <2>2. d \in Channel /\ d.type \in Types
    BY <2>1, <1>2 DEF NInv, Typed, Channel
  <2>3. CASE d.type = "OPENING"
    <3>1. Silent(chan, net, e, d.gen)
      BY <2>1, <2>3, <1>2 DEF NInv, Opening
    <3> QED BY <3>1, <1>2, <1>3 DEF Silent, Offer, Noise
  <2>4. CASE d.type \in {"CONNECTING", "LARVAL", "OPEN"}
    <3>1. Reaches(chan, net, p, d)
      BY SMTT(30), <2>1, <2>4, <1>2 DEF NInv, Linked
    <3>2. NoClose(net, e, d.gen)
      BY ZenonT(30), <3>1, <2>1 DEF Reaches
    <3> QED BY <3>2, <1>2, <1>3 DEF NoClose
  <2> QED BY <2>2, <2>3, <2>4 DEF Types
<1>10. Shape(e, x)
  BY ZenonT(30), <1>3, <1>4, <1>7 DEF RcvdCloseOf, MayTurn, Shape, BothClosed
<1>11. MayTurn(chan, nt2, e, m.to, x) /\ Keeps(c, x)
  <2> HIDE DEF nt2
  <2> QED BY Zenon, <1>3, <1>7, <1>8, <1>9, <1>10 DEF RcvdCloseOf, MayTurn, Keeps
<1>12. Talk(e, c, Res(x, q))
  <2>1. Res(x, q).c = x /\ Res(x, q).out = q
    BY ResFacts
  <2>2. CASE q = <<>>
    BY <2>1, <2>2 DEF Talk
  <2>3. CASE q = <<EofNote>> /\ c.istate = "WAIT_DRAIN" /\ x.EOF_SENT
    <3>1. ~c.CLOSE_SENT
      BY Zenon, <2>3, <1>3 DEF MayTurn, Shape, BothClosed
    <3>2. EofNote \in Note /\ EofNote.kind = "EOF"
      BY DEF EofNote, Note, Kinds
    <3>3. Sayable(e, c, x, EofNote)
      BY <2>3, <3>1, <3>2, <1>4 DEF Sayable, Noise, Offer, Reply, Bytes
    <3> QED BY SMTT(30), <2>1, <2>3, <3>3 DEF Talk
  <2> QED BY <2>2, <2>3, <1>7
<1> QED BY Zenon, <1>2, <1>3, <1>5, <1>6, <1>7, <1>11, <1>12, AnswerInv

-----------------------------------------------------------------------------
(* Keepalives and window changes.                                          *)

\* A message without data.
Word(k) == [kind |-> k, n |-> 0]

\* A note without bytes.
LEMMA WordFacts ==
  /\ \A k \in Kinds : Word(k) \in Note /\ Word(k).kind = k
  /\ \A c, k : Send(On(c), k) = Res(c, <<Word(k)>>)
  /\ \A c, o, k : Send(Res(c, o), k) = Res(c, Append(o, Word(k)))
<1>1. \A k \in Kinds : Word(k) \in Note /\ Word(k).kind = k
  BY DEF Word, Note
<1>2. \A c, o, k : Send(Res(c, o), k) = Res(c, Append(o, Word(k)))
  BY SMTT(30) DEF Res, Send, SendBytes, Word
<1>3. ASSUME NEW c, NEW k PROVE Send(On(c), k) = Res(c, <<Word(k)>>)
  <2>1. On(c) = Res(c, <<>>)
    BY ResFacts
  <2>2. Send(Res(c, <<>>), k) = Res(c, Append(<<>>, Word(k)))
    BY <1>2
  <2>3. Append(<<>>, Word(k)) = <<Word(k)>>
    OBVIOUS
  <2> QED BY <2>1, <2>2, <2>3
<1> QED BY <1>1, <1>2, <1>3

\* Writing back what is there changes nothing.
LEMMA HeldSame ==
  ASSUME NEW ch \in [Ends -> [Ids -> Channel \cup {Free}]], NEW e \in Ends, NEW i \in Ids
  PROVE  Held(ch, e, i, ch[e][i]) = ch
BY DEF Held

\* A set of slots has a lowest one.
LEMMA LeastOf ==
  ASSUME NEW T, T \subseteq Nat, T # {}
  PROVE  \E j \in T : \A k \in T : j <= k
<1> DEFINE R == OpToRel(<, Nat)
<1>1. IsWellFoundedOn(R, Nat)
  BY Zenon, NatLessThanWellFounded
<1>2. \A x, y \in Nat : <<x, y>> \in R <=> x < y
  BY DEF OpToRel
<1> HIDE DEF R
<1>3. PICK j \in T : \A k \in T : ~(<<k, j>> \in R)
  BY <1>1, WFMin
<1>4. \A k \in T : k \in Nat /\ j \in Nat /\ ~(k < j)
  BY <1>2, <1>3
<1> QED BY <1>4

\* client_alive_check.
LEMMA KeepAliveInv ==
  ASSUME IInv, KeepAlive
  PROVE  IInv'
<1> DEFINE S == {i \in Ids : chan["S"][i].type \in {"LARVAL", "OPEN"}}
           i == CHOOSE j \in S : \A k \in S : j <= k
           c == chan["S"][i]
           x == Word("KEEPALIVE")
           q == <<x>>
           m == Message(c, i, x)
<1>0. "S" \in Ends /\ "C" \in Ends /\ Peer("S") = "C"
  BY DEF Ends, Peer
<1>1. /\ over = "no" /\ S # {} /\ Update("S", i, Send(On(c), "KEEPALIVE"))
      /\ UNCHANGED <<sess, opens, hist, over>>
  BY DEF KeepAlive
<1>2. i \in S
  <2>1. \E j \in S : \A k \in S : j <= k
    <3>1. S \subseteq Nat /\ S # {}
      BY <1>1, ChannelsAssumption
    <3> HIDE DEF S
    <3> QED BY <3>1, LeastOf
  <2> HIDE DEF S
  <2> QED BY <2>1
<1>3. i \in Ids /\ c.type \in {"LARVAL", "OPEN"}
  BY <1>2
<1> HIDE DEF i
<1>4. chan \in [Ends -> [Ids -> Channel \cup {Free}]] /\ net \in [Ends -> Seq(Packet)]
  BY DEF IInv, NInv, Typed
<1>5. c # Free /\ c \in Channel /\ c.gen \in 1..opens
  BY <1>0, <1>3, <1>4 DEF IInv, NInv, Typed, Free
<1>6. x \in Note /\ x.kind = "KEEPALIVE"
  BY WordFacts DEF Kinds
<1>7. Send(On(c), "KEEPALIVE") = Res(c, q) /\ Res(c, q).c = c /\ Res(c, q).out = q
  BY WordFacts, ResFacts
<1> HIDE DEF x
<1>8. q = <<x>>
  OBVIOUS
<1> HIDE DEF q
<1>9. chan' = chan
  <2>1. chan' = Held(chan, "S", i, c)
    BY <1>1, <1>7 DEF Update, Held
  <2> QED BY <2>1, <1>0, <1>3, <1>4, HeldSame
<1>10. net' = Told(net, "C", m)
  <2>1. net' = Sent(net, "C", i, Res(c, q))
    BY <1>0, <1>1, <1>7 DEF Update, Sent
  <2> DEFINE r == Res(c, q)
  <2> HIDE DEF r
  <2>2. r.c \in Channel
    BY <1>5, <1>7 DEF r
  <2>3. \A y \in Note : r.out = <<y>> => Sent(net, "C", i, r) = Told(net, "C", Message(r.c, i, y))
    BY SMTT(30), <2>2, <1>0, <1>3, <1>4, OutgoingFacts
  <2> QED BY <2>1, <2>3, <1>6, <1>7, <1>8 DEF r
<1>11. m \in Packet /\ m.kind = "KEEPALIVE" /\ m.gen = c.gen
  BY <1>3, <1>5, <1>6, MessageFacts
<1> HIDE DEF m
<1>12. NInv(chan, Told(net, "C", m), opens)
  BY <1>0, <1>5, <1>11, NoiseKeeps DEF Told, Noise, IInv
<1> QED BY <1>1, <1>9, <1>10, <1>12 DEF IInv

\* client_input_channel_req, keep-alive.
LEMMA InputKeepAliveInv ==
  ASSUME IInv, InputKeepAlive
  PROVE  IInv'
<1> DEFINE m == net["C"][1]
           i == m.to
           c == chan["C"][i]
           x == Word("FAILURE")
           q == <<x>>
           nt2 == Popped(net, "C")
           a == Message(c, i, x)
<1>0. "S" \in Ends /\ "C" \in Ends /\ Peer("C") = "S" /\ Peer("S") = "C"
  BY DEF Ends, Peer
<1>1. Incoming("C", "KEEPALIVE") /\ UNCHANGED <<sess, opens, notices, hist, over>>
  BY DEF InputKeepAlive
<1>2. /\ net["C"] # <<>> /\ Head(net["C"]) = m /\ m.kind = "KEEPALIVE" /\ over = "no" /\ m \in Packet
      /\ NInv(chan, net, opens)
  BY <1>0, <1>1, IncomingFacts
<1>3. \/ Ignore("C")
      \/ Answer("C", i, Send(On(c), "FAILURE")) /\ Found("C") /\ ~c.CLOSE_SENT
  BY <1>2 DEF InputKeepAlive
<1>4. CASE Ignore("C")
  <2>1. Rest
    BY <1>1, <1>2, RestFacts DEF IInv
  <2> QED BY <2>1, <1>0, <1>2, <1>4, IgnoreInv
<1>5. CASE Answer("C", i, Send(On(c), "FAILURE")) /\ Found("C") /\ ~c.CLOSE_SENT
  <2>1. i \in Ids /\ c.type \in {"OPENING", "LARVAL", "CONNECTING", "OPEN"}
    BY <1>2, <1>5 DEF Found
  <2>2. chan \in [Ends -> [Ids -> Channel \cup {Free}]] /\ net \in [Ends -> Seq(Packet)]
    BY <1>2 DEF NInv, Typed
  <2>3. c # Free /\ c \in Channel /\ c.gen \in 1..opens
    BY <1>0, <1>2, <2>1, <2>2 DEF NInv, Typed, Free
  <2>4. x \in Note /\ x.kind = "FAILURE"
    BY WordFacts DEF Kinds
  <2>5. Send(On(c), "FAILURE") = Res(c, q) /\ Res(c, q).c = c /\ Res(c, q).out = q
    BY WordFacts, ResFacts
  <2> HIDE DEF x
  <2>6. q = <<x>>
    OBVIOUS
  <2> HIDE DEF q
  <2>7. NInv(chan, nt2, opens) /\ nt2 \in [Ends -> Seq(Packet)]
    <3>1. NInv(chan, nt2, opens)
      BY <1>0, <1>2, PopKeeps DEF Popped
    <3> QED BY <3>1 DEF NInv, Typed
  <2>8. nt2["S"] = net["S"]
    BY ZenonT(30), <1>0, <1>2, HeadFacts
  <2>9. chan' = chan
    <3>1. chan' = Held(chan, "C", i, c)
      BY ZenonT(30), <1>5, <2>5 DEF Answer, Held
    <3> QED BY <3>1, <1>0, <2>1, <2>2, HeldSame
  <2>10. net' = Told(nt2, "S", a)
    <3> DEFINE r == Res(c, q)
               o == Outgoing(i, r)
    <3>1. net' = Sent(nt2, "S", i, r)
      <4>1. net' = [net EXCEPT !["C"] = Tail(@), !["S"] = @ \o o]
        BY Zenon, <1>0, <1>5, <2>5 DEF Answer
      <4> HIDE DEF o
      <4>2. net' = [[net EXCEPT !["C"] = Tail(@)] EXCEPT !["S"] = @ \o o]
        BY <4>1, <2>2 DEF Ends
      <4> QED BY SMTT(30), <4>2 DEF o, Sent, Popped
    <3> HIDE DEF r, nt2
    <3>2. r.c \in Channel
      BY <2>3, <2>5 DEF r
    <3>3. \A y \in Note : r.out = <<y>> => Sent(nt2, "S", i, r) = Told(nt2, "S", Message(r.c, i, y))
      BY <3>2, <1>0, <2>1, <2>7, OutgoingFacts
    <3> QED BY Zenon, <3>1, <3>3, <2>4, <2>5, <2>6 DEF r
  <2>11. a \in Packet /\ a.kind = "FAILURE" /\ a.gen = c.gen
    BY <2>1, <2>3, <2>4, MessageFacts
  <2> HIDE DEF a
  \* The channel has not said CLOSE: none is in flight, and none was received.
  <2>12. /\ NoClose(net, "S", c.gen)
         /\ \A j \in Ids : chan["S"][j] # Free /\ chan["S"][j].gen = c.gen => ~chan["S"][j].CLOSE_RCVD
    <3>1. CASE c.type = "OPENING"
      <4>1. Silent(chan, net, "S", c.gen)
        BY <1>0, <1>2, <2>1, <2>3, <3>1 DEF NInv, Opening
      <4>2. \A k \in DOMAIN net["S"] : net["S"][k].gen = c.gen => net["S"][k].kind # "CLOSE"
        BY SMTT(30), <4>1 DEF Silent, Offer, Noise
      <4> QED BY <4>1, <4>2 DEF Silent, NoClose
    <3>2. CASE c.type # "OPENING"
      <4>1. Reaches(chan, net, "C", c)
        BY SMTT(30), <1>0, <1>2, <1>5, <2>1, <2>3, <3>2 DEF NInv, Linked
      <4>2. /\ c.rid \in Ids /\ chan["S"][c.rid] # Free /\ chan["S"][c.rid].gen = c.gen
            /\ ~chan["S"][c.rid].CLOSE_RCVD /\ NoClose(net, "S", c.gen)
        BY ZenonT(30), <4>1, <1>0 DEF Reaches
      <4>3. \A j \in Ids : chan["S"][j] # Free /\ chan["S"][j].gen = c.gen => j = c.rid
        BY Zenon, <4>2, <1>0, <1>2 DEF NInv, OneEach
      <4> QED BY ZenonT(30), <4>2, <4>3
    <3> QED BY <3>1, <3>2
  <2>13. NoClose(nt2, "S", a.gen)
    BY SMTT(30), <2>8, <2>11, <2>12 DEF NoClose
  <2> HIDE DEF nt2
  <2>14. NInv(chan, Told(nt2, "S", a), opens)
    BY Zenon, <1>0, <2>3, <2>7, <2>11, <2>12, <2>13, NoiseKeeps DEF Told, Noise
  <2> QED BY <1>1, <2>9, <2>10, <2>14 DEF IInv
<1> QED BY <1>3, <1>4, <1>5

\* channel_send_window_changes.
LEMMA WindowChangeInv ==
  ASSUME IInv, NEW i \in Ids, WindowChange(i)
  PROVE  IInv'
<1> DEFINE c == chan["C"][i]
           x == Word("WINDOW_CHANGE")
           q == <<x>>
<1>0. "C" \in Ends /\ Peer("C") = "S"
  BY DEF Ends, Peer
<1>1. /\ over = "no" /\ c.type = "OPEN" /\ c.istate = "OPEN"
      /\ Update("C", i, Send(On(c), "WINDOW_CHANGE"))
      /\ UNCHANGED <<sess, opens, hist, over>>
  BY DEF WindowChange, HasWindowSize
<1>2. NInv(chan, net, opens) /\ c # Free
  BY <1>1 DEF IInv, Free
<1>3. MayTurn(chan, net, "C", i, c) /\ c \in Channel
  BY <1>0, <1>2, StillKeeps
<1>4. Rest
  BY <1>1, RestFacts DEF IInv
<1>5. x \in Note /\ x.kind = "WINDOW_CHANGE"
  BY WordFacts DEF Kinds
<1>6. Send(On(c), "WINDOW_CHANGE") = Res(c, q) /\ Res(c, q).c = c /\ Res(c, q).out = q
  BY WordFacts, ResFacts
<1>7. ~c.CLOSE_SENT
  BY <1>1, <1>3 DEF MayTurn, Shape, BothClosed
<1>8. Sayable("C", c, c, x)
  BY <1>0, <1>1, <1>5, <1>7 DEF Sayable, Noise, Offer, Reply, Bytes
<1> HIDE DEF x
<1>9. q = <<x>>
  OBVIOUS
<1>10. Talk("C", c, Res(c, q))
  <2>1. Res(c, q).c = c /\ Res(c, q).out = q
    BY ResFacts
  <2> HIDE DEF q
  <2> QED BY <2>1, <1>8, <1>9 DEF Talk
<1>11. Keeps(c, c)
  BY DEF Keeps
<1> HIDE DEF q
<1> QED BY <1>0, <1>1, <1>3, <1>4, <1>6, <1>10, <1>11, UpdateInv

-----------------------------------------------------------------------------
(* The two halves of a channel shut down.                                  *)

\* y is channel x with a half shut down further, or other buffers.
Proceeds(x, y) ==
  /\ y \in Channel /\ y.type = x.type /\ y.ctype = x.ctype /\ y.rid = x.rid /\ y.gen = x.gen
  /\ x.istate = "CLOSED" => y.istate = "CLOSED"
  /\ x.ostate = "CLOSED" => y.ostate = "CLOSED"
  /\ y.EOF_SENT = x.EOF_SENT /\ y.EOF_RCVD = x.EOF_RCVD
  /\ y.CLOSE_SENT = x.CLOSE_SENT /\ y.CLOSE_RCVD = x.CLOSE_RCVD
  /\ y.user = x.user /\ y.detach_close = x.detach_close

\* Such a step is one a channel may take.
LEMMA ProceedsTurn ==
  ASSUME NEW ch, NEW nt, NEW e, NEW i, NEW x, NEW y, MayTurn(ch, nt, e, i, x),
         x.type \in {"LARVAL", "OPEN"}, Proceeds(x, y)
  PROVE  MayTurn(ch, nt, e, i, y) /\ Keeps(x, y)
<1>1. Shape(e, y)
  BY DEF MayTurn, Proceeds, Shape, BothClosed
<1> QED BY <1>1 DEF MayTurn, Proceeds, Keeps

\* Two such steps are one.
LEMMA ProceedsTrans ==
  ASSUME NEW x, NEW y, NEW z, Proceeds(x, y), Proceeds(y, z)
  PROVE  Proceeds(x, z)
BY DEF Proceeds

\* What chan_read_failed and chan_write_failed2 do to the buffers.
ReadStops(x, y) ==
  /\ SameBuffers(x, y) /\ y.ostate = x.ostate
  /\ y.istate = x.istate \/ (x.istate = "OPEN" /\ y.istate = "WAIT_DRAIN")
WriteStops(x, y) ==
  /\ y.istate = x.istate /\ y.ostate = "CLOSED"
  /\ y.output = 0 \/ (x.ostate = "CLOSED" /\ y.output = x.output)
  /\ y.rwin = x.rwin /\ y.efd = x.efd /\ y.pipe = x.pipe /\ y.epipe = x.epipe
  /\ y.input = x.input /\ y.ext = x.ext

\* chan_read_failed.
LEMMA ReadFailedFacts ==
  ASSUME NEW x \in Channel, NEW o
  PROVE  \E y : ReadFailed(Res(x, o)) = Res(y, o) /\ Proceeds(x, y) /\ ReadStops(x, y)
<1> DEFINE z == [x EXCEPT !.istate = "WAIT_DRAIN"]
<1>1. Res(x, o).c = x
  BY ResFacts
<1>2. ASSUME NEW r, r.c = x
      PROVE  ReadFailed(r) = IF x.istate = "OPEN" THEN Set(r, z) ELSE r
  BY <1>2, Zenon DEF ReadFailed
<1>3. x.istate = "OPEN" => Proceeds(x, z) /\ ReadStops(x, z)
  BY DEF Proceeds, Channel, Halves, ReadStops, SameBuffers
<1>4. Proceeds(x, x) /\ ReadStops(x, x)
  BY DEF Proceeds, ReadStops, SameBuffers
<1> HIDE DEF z
<1>5. Set(Res(x, o), z) = Res(z, o)
  BY ResFacts
<1>6. CASE x.istate = "OPEN"
  <2>1. ReadFailed(Res(x, o)) = Res(z, o)
    BY <1>1, <1>2, <1>5, <1>6
  <2> QED BY <2>1, <1>3, <1>6
<1>7. CASE x.istate # "OPEN"
  <2>1. ReadFailed(Res(x, o)) = Res(x, o)
    BY <1>1, <1>2, <1>7
  <2> QED BY <2>1, <1>4
<1> QED BY <1>6, <1>7

\* chan_write_failed2.
LEMMA WriteFailedFacts ==
  ASSUME NEW x \in Channel, NEW o
  PROVE  \E y, q : /\ WriteFailed(Res(x, o)) = Res(y, q) /\ Proceeds(x, y) /\ WriteStops(x, y)
                   /\ q = o \/ (q = Append(o, Word("EOW")) /\ x.ostate # "CLOSED")
<1> DEFINE z == [x EXCEPT !.ostate = "CLOSED", !.output = 0]
<1>1. Res(x, o).c = x
  BY ResFacts
<1>2. ASSUME NEW r, r.c = x
      PROVE  WriteFailed(r) = IF x.ostate = "CLOSED" THEN r
                              ELSE IF x.ctype = "session" THEN Send(Set(r, z), "EOW") ELSE Set(r, z)
  BY <1>2, Zenon DEF WriteFailed
<1>3. Proceeds(x, z) /\ WriteStops(x, z)
  BY DEF Proceeds, Channel, Halves, WriteStops
<1>4. Proceeds(x, x) /\ (x.ostate = "CLOSED" => WriteStops(x, x))
  BY DEF Proceeds, WriteStops
<1> HIDE DEF z
<1>5. Set(Res(x, o), z) = Res(z, o) /\ Send(Res(z, o), "EOW") = Res(z, Append(o, Word("EOW")))
  BY ResFacts, WordFacts
<1>6. CASE x.ostate = "CLOSED"
  <2>1. WriteFailed(Res(x, o)) = Res(x, o)
    BY <1>1, <1>2, <1>6
  <2> QED BY <2>1, <1>4, <1>6
<1>7. CASE x.ostate # "CLOSED" /\ x.ctype = "session"
  <2>1. WriteFailed(Res(x, o)) = Res(z, Append(o, Word("EOW")))
    BY <1>1, <1>2, <1>5, <1>7
  <2> QED BY <2>1, <1>3, <1>7
<1>8. CASE x.ostate # "CLOSED" /\ x.ctype # "session"
  <2>1. WriteFailed(Res(x, o)) = Res(z, o)
    BY <1>1, <1>2, <1>5, <1>8
  <2> QED BY <2>1, <1>3
<1> QED BY <1>6, <1>7, <1>8

\* The messages that a channel which has not sent CLOSE may always send.
LEMMA SayableFacts ==
  ASSUME NEW e \in Ends, NEW b, NEW c, NEW k \in {"EOW", "EXIT", "ADJUST", "SUCCESS", "FAILURE", "EXEC"},
         b.type \in {"LARVAL", "OPEN"}, ~b.CLOSE_SENT, k = "FAILURE" => e = "S"
  PROVE  Sayable(e, b, c, Word(k)) /\ Word(k).kind = k
<1>1. Word(k) \in Note /\ Word(k).kind = k
  BY SMTT(30), WordFacts DEF Kinds
<1> QED BY <1>1 DEF Sayable, Noise, Offer, Reply, Bytes, Peer, Ends

\* client_status_confirm.
LEMMA InputStatusConfirmInv ==
  ASSUME IInv, InputStatusConfirm
  PROVE  IInv'
<1> DEFINE m == net["C"][1]
           c == chan["C"][m.to]
           x == [c EXCEPT !.confirm = FALSE]
           nt2 == Popped(net, "C")
<1>0. "C" \in Ends
  BY DEF Ends
<1>1. PICK kind \in {"SUCCESS", "FAILURE"} : Incoming("C", kind)
  BY ZenonT(30) DEF InputStatusConfirm
<1>u. UNCHANGED <<sess, opens, notices>>
  BY Zenon DEF InputStatusConfirm
<1>2. /\ net["C"] # <<>> /\ Head(net["C"]) = m /\ m.kind = kind /\ over = "no" /\ m \in Packet
      /\ NInv(chan, net, opens)
  BY <1>0, <1>1, IncomingFacts
<1>3. /\ Found("C") /\ m.to \in Ids /\ c \in Channel /\ MayTurn(chan, nt2, "C", m.to, c)
      /\ c.gen = m.gen /\ m.gen \in Gens
  BY <1>0, <1>1, OwnFacts
<1>4. c.type \in {"LARVAL", "OPEN"}
  BY SMTT(30), <1>0, <1>1, <1>2, HeadOpened DEF Noise, Offer, Reply
<1>5. \/ Ignore("C") /\ UNCHANGED <<over, hist>>
      \/ Answer("C", m.to, On(x)) /\ UNCHANGED <<over, hist>>
      \/ Disconnect("C", "exit") /\ UNCHANGED hist
      \/ /\ Answer("C", m.to, WriteFailed(ReadFailed(On(x))))
         /\ hist' = [e \in Ends |-> [hist[e] EXCEPT ![c.gen].cut = TRUE]]
         /\ UNCHANGED over
  <2> HIDE DEF x
  <2> QED BY ZenonT(30), <1>2 DEF InputStatusConfirm, x
<1>6. Proceeds(c, x)
  BY Zenon, <1>3 DEF Proceeds, Channel
<1> HIDE DEF x
<1>7. On(x) = Res(x, <<>>) /\ x \in Channel
  BY <1>6, ResFacts DEF Proceeds
<1>a. CASE Ignore("C") /\ UNCHANGED <<over, hist>>
  <2>1. Rest
    BY <1>a, <1>u, <1>2, RestFacts DEF IInv
  <2> QED BY <2>1, <1>0, <1>1, <1>2, <1>a, IgnoreInv
<1>b. CASE Answer("C", m.to, On(x)) /\ UNCHANGED <<over, hist>>
  <2>1. Rest
    BY <1>b, <1>u, <1>2, RestFacts DEF IInv
  <2>2. MayTurn(chan, nt2, "C", m.to, x) /\ Keeps(c, x)
    BY <1>3, <1>4, <1>6, ProceedsTurn
  <2>3. Talk("C", c, Res(x, <<>>))
    BY ResFacts DEF Talk
  <2> QED BY <2>1, <2>2, <2>3, <1>0, <1>1, <1>2, <1>3, <1>7, <1>b, AnswerInv
<1>c. CASE Disconnect("C", "exit") /\ UNCHANGED hist
  <2>1. Ignore("C") /\ over' = "exit"
    BY <1>c DEF Disconnect
  <2>2. Rest
    BY <1>c, <1>u, <2>1, RestFacts DEF IInv
  <2> QED BY <2>1, <2>2, <1>0, <1>1, <1>2, IgnoreInv
<1>d. CASE /\ Answer("C", m.to, WriteFailed(ReadFailed(On(x))))
           /\ hist' = [e \in Ends |-> [hist[e] EXCEPT ![c.gen].cut = TRUE]]
           /\ UNCHANGED over
  <2>1. SameChildren(hist, hist')
    <3>1. hist \in [Ends -> [Gens -> Log]] /\ c.gen \in Gens
      BY SMTT(30), <1>3 DEF IInv, SInv
    <3>2. \A e \in Ends, g \in Gens :
            hist'[e][g] = IF g = c.gen THEN [hist[e][g] EXCEPT !.cut = TRUE] ELSE hist[e][g]
      BY Zenon, <1>d, <3>1
    <3>3. \A e \in Ends, g \in Gens : hist[e][g] \in Log
      BY <3>1
    <3>4. \A l \in Log : [l EXCEPT !.cut = TRUE] \in Log /\ [l EXCEPT !.cut = TRUE].child = l.child
      BY DEF Log
    <3>5. \A e \in Ends, g \in Gens : hist'[e][g] \in Log /\ hist'[e][g].child = hist[e][g].child
      BY ZenonT(40), <3>2, <3>3, <3>4
    <3>6. hist' = [e \in Ends |-> hist'[e]] /\ \A e \in Ends : hist'[e] = [g \in Gens |-> hist'[e][g]]
      BY Zenon, <1>d, <3>1
    <3>7. hist' \in [Ends -> [Gens -> Log]]
      BY SMTT(30), <3>5, <3>6
    <3> QED BY <3>5, <3>7 DEF SameChildren, Ends
  <2>2. Rest
    BY Zenon, <1>d, <1>u, <1>2, <2>1 DEF Rest
  <2>3. PICK y : ReadFailed(Res(x, <<>>)) = Res(y, <<>>) /\ Proceeds(x, y)
    BY <1>7, ReadFailedFacts
  <2>4. PICK z, q : /\ WriteFailed(Res(y, <<>>)) = Res(z, q) /\ Proceeds(y, z)
                    /\ q = <<>> \/ (q = Append(<<>>, Word("EOW")) /\ y.ostate # "CLOSED")
    <3>1. y \in Channel
      BY <2>3 DEF Proceeds
    <3> QED BY <3>1, WriteFailedFacts
  <2>5. Proceeds(c, y) /\ Proceeds(c, z)
    BY <2>3, <2>4, <1>6, ProceedsTrans
  <2>6. MayTurn(chan, nt2, "C", m.to, z) /\ Keeps(c, z)
    BY <1>3, <1>4, <2>5, ProceedsTurn
  <2>7. Talk("C", c, Res(z, q))
    <3>1. Res(z, q).c = z /\ Res(z, q).out = q
      BY ResFacts
    <3>2. CASE q = <<>>
      BY <3>1, <3>2 DEF Talk
    <3>3. CASE q = Append(<<>>, Word("EOW")) /\ y.ostate # "CLOSED"
      <4>1. ~c.CLOSE_SENT
        BY Zenon, <2>5, <3>3, <1>3 DEF Proceeds, MayTurn, Shape, BothClosed
      <4>2. Sayable("C", c, z, Word("EOW"))
        BY <1>0, <1>4, <4>1, SayableFacts
      <4>3. q = <<Word("EOW")>>
        BY SMTT(30), <3>3
      <4> QED BY SMTT(30), <3>1, <4>2, <4>3 DEF Talk
    <3> QED BY <3>2, <3>3, <2>4
  <2>8. Answer("C", m.to, Res(z, q))
    BY Zenon, <1>7, <1>d, <2>3, <2>4
  <2> QED BY <2>2, <2>6, <2>7, <2>8, <1>0, <1>1, <1>2, <1>3, AnswerInv
<1> QED BY ZenonT(30), <1>5, <1>a, <1>b, <1>c, <1>d

-----------------------------------------------------------------------------
(* channel_output_poll() and the programs behind the channels.             *)

\* A message with data.
Payload(k, n) == [kind |-> k, n |-> n]

\* A note with bytes.
LEMMA PayloadFacts ==
  /\ \A k \in {"DATA", "EXTENDED_DATA"}, n \in Nat : Payload(k, n) \in Note /\ Payload(k, n).kind = k
  /\ \A c, o, k, n : SendBytes(Res(c, o), k, n) = Res(c, Append(o, Payload(k, n)))
<1>1. \A k \in {"DATA", "EXTENDED_DATA"}, n \in Nat : Payload(k, n) \in Note /\ Payload(k, n).kind = k
  BY DEF Payload, Note, Kinds
<1>2. \A c, o, k, n : SendBytes(Res(c, o), k, n) = Res(c, Append(o, Payload(k, n)))
  BY SMTT(30) DEF Res, SendBytes, Payload
<1> QED BY <1>1, <1>2

\* Bytes may be sent while the input half is not closed.
LEMMA BytesSayable ==
  ASSUME NEW e \in Ends, NEW b, NEW c, NEW k \in {"DATA", "EXTENDED_DATA"}, NEW n \in Nat,
         b.type \in {"LARVAL", "OPEN"}, ~b.CLOSE_SENT, ~b.EOF_SENT
  PROVE  Sayable(e, b, c, Payload(k, n)) /\ Payload(k, n).kind = k
<1>1. Payload(k, n) \in Note /\ Payload(k, n).kind = k
  BY PayloadFacts
<1> QED BY <1>1 DEF Sayable, Noise, Offer, Reply, Bytes

\* channel_output_poll.
LEMMA OutputPollInv ==
  ASSUME IInv, NEW e \in Ends, NEW i \in Ids, OutputPoll(e, i)
  PROVE  IInv'
<1> DEFINE c == chan[e][i]
           r1 == IF c.istate \in {"OPEN", "WAIT_DRAIN"} /\ c.input > 0
                 THEN IF c.rwin THEN SendBytes(On([c EXCEPT !.input = 0]), "DATA", c.input) ELSE On(c)
                 ELSE IF c.istate = "WAIT_DRAIN" /\ ~EfdInputActive(e, c) THEN IbufEmpty(On(c))
                 ELSE On(c)
           send == e = "S" /\ ~r1.c.EOF_SENT /\ c.rwin /\ c.ext > 0
           r2 == IF send THEN SendBytes(Set(r1, [r1.c EXCEPT !.ext = 0]), "EXTENDED_DATA", c.ext)
                 ELSE r1
<1>1. /\ over = "no" /\ c.type = "OPEN" /\ ~c.CLOSE_SENT /\ Update(e, i, r2)
      /\ UNCHANGED <<sess, opens, notices, hist, over>>
  BY Zenon DEF OutputPoll
<1>2. NInv(chan, net, opens) /\ c # Free
  BY SMTT(30), <1>1 DEF IInv, Free
<1>3. MayTurn(chan, net, e, i, c) /\ c \in Channel /\ Shape(e, c)
  BY Zenon, <1>2, StillKeeps DEF MayTurn
<1>4. Rest
  BY Zenon, <1>1, RestFacts DEF IInv
<1>5. c.input \in Nat /\ c.ext \in Nat
  BY <1>3 DEF Channel
<1>6. ASSUME NEW y, NEW q, r2 = Res(y, q), MayTurn(chan, net, e, i, y), Keeps(c, y),
             Talk(e, c, Res(y, q))
      PROVE  IInv'
  <2> HIDE DEF r2
  <2> QED BY <1>1, <1>4, <1>6, UpdateInv
\* The first half leaves y and at most one message of data, or EOF.
<1>7. ASSUME NEW y, NEW q, r1 = Res(y, q), Proceeds(c, y),
             q = <<>> \/ (q = <<Payload("DATA", c.input)>> /\ ~c.EOF_SENT)
      PROVE  IInv'
  <2> HIDE DEF r1
  <2>1. r1.c = y
    BY <1>7, ResFacts
  <2>d. ~c.EOF_SENT => Sayable(e, c, y, Payload("DATA", c.input)) /\ Payload("DATA", c.input).kind = "DATA"
    BY <1>1, <1>5, BytesSayable
  <2>2. CASE ~send
    <3>1. r2 = Res(y, q)
      BY <2>2, <1>7
    <3>2. MayTurn(chan, net, e, i, y) /\ Keeps(c, y)
      BY <1>1, <1>3, <1>7, ProceedsTurn
    <3>3. Talk(e, c, Res(y, q))
      <4>1. Res(y, q).c = y /\ Res(y, q).out = q
        BY ResFacts
      <4> QED BY <4>1, <1>7, <2>d DEF Talk
    <3> QED BY <3>1, <3>2, <3>3, <1>6
  <2>3. CASE send
    <3> DEFINE z == [y EXCEPT !.ext = 0]
               p == Payload("EXTENDED_DATA", c.ext)
    <3>1. ~c.EOF_SENT /\ y \in Channel
      BY <2>1, <2>3, <1>7 DEF Proceeds
    <3>2. Proceeds(y, z)
      BY <3>1 DEF Proceeds, Channel
    <3>3. r2 = SendBytes(Set(r1, z), "EXTENDED_DATA", c.ext)
      BY <2>1, <2>3
    <3> HIDE DEF z, r2
    <3>4. r2 = Res(z, Append(q, p))
      BY <3>3, <1>7, ResFacts, PayloadFacts
    <3>5. MayTurn(chan, net, e, i, z) /\ Keeps(c, z)
      BY <1>1, <1>3, <1>7, <3>2, ProceedsTurn, ProceedsTrans
    <3>6. Sayable(e, c, z, p) /\ Sayable(e, c, z, Payload("DATA", c.input))
          /\ Payload("DATA", c.input).kind = "DATA"
      BY <1>1, <1>5, <3>1, BytesSayable
    <3> DEFINE o == Append(q, p)
    <3>7. Res(z, o).c = z /\ Res(z, o).out = o
      BY ResFacts
    <3> HIDE DEF p
    <3>8. CASE q = <<>>
      <4>1. o = <<p>>
        BY <3>8
      <4> HIDE DEF o
      <4>2. Talk(e, c, Res(z, o))
        BY <3>6, <3>7, <4>1 DEF Talk
      <4> QED BY <3>4, <3>5, <4>2, <1>6 DEF o, r2
    <3>9. CASE q = <<Payload("DATA", c.input)>>
      <4>1. o = <<Payload("DATA", c.input), p>>
        BY <3>9, AppendOne
      <4> HIDE DEF o
      <4>2. Talk(e, c, Res(z, o))
        BY <3>6, <3>7, <4>1 DEF Talk
      <4> QED BY <3>4, <3>5, <4>2, <1>6 DEF o, r2
    <3> QED BY <3>8, <3>9, <1>7
  <2> QED BY <2>2, <2>3
<1>8. On(c) = Res(c, <<>>) /\ On(c).c = c /\ Proceeds(c, c)
  BY <1>3, ResFacts DEF Proceeds
<1>9. CASE r1 = On(c)
  BY <1>7, <1>8, <1>9
<1>10. CASE c.istate \in {"OPEN", "WAIT_DRAIN"} /\ c.input > 0 /\ c.rwin
  <2> DEFINE y == [c EXCEPT !.input = 0]
  <2>1. r1 = SendBytes(On(y), "DATA", c.input)
    BY <1>10, Zenon
  <2>2. Proceeds(c, y)
    BY <1>3 DEF Proceeds, Channel
  <2> HIDE DEF y
  <2>3. On(y) = Res(y, <<>>)
    BY ResFacts
  <2>4. SendBytes(Res(y, <<>>), "DATA", c.input) = Res(y, Append(<<>>, Payload("DATA", c.input)))
    <3>1. \A o : SendBytes(Res(y, o), "DATA", c.input) = Res(y, Append(o, Payload("DATA", c.input)))
      BY PayloadFacts
    <3> QED BY <3>1, Zenon
  <2>5. Append(<<>>, Payload("DATA", c.input)) = <<Payload("DATA", c.input)>>
    OBVIOUS
  <2>6. ~c.EOF_SENT
    BY <1>3, <1>10 DEF Shape
  <2> HIDE DEF r1
  <2>7. r1 = Res(y, <<Payload("DATA", c.input)>>)
    BY SMTT(30), <2>1, <2>3, <2>4, <2>5
  <2> QED BY <2>2, <2>6, <2>7, <1>7 DEF r1
<1>11. CASE c.istate = "WAIT_DRAIN" /\ r1 = IbufEmpty(On(c))
  <2> DEFINE x == [c EXCEPT !.EOF_SENT = TRUE]
             y == [x EXCEPT !.istate = "CLOSED"]
             q == Append(<<>>, EofNote)
  <2>1. SendEof(Res(c, <<>>)) = Res(x, q)
    BY <1>11, SendEofFacts
  <2>2. x \in Channel
    BY <1>3 DEF Channel
  <2>3. /\ y \in Channel /\ y.type = c.type /\ y.ctype = c.ctype /\ y.rid = c.rid /\ y.gen = c.gen
        /\ y.istate = "CLOSED" /\ y.ostate = c.ostate /\ y.EOF_SENT /\ y.EOF_RCVD = c.EOF_RCVD
        /\ y.CLOSE_SENT = c.CLOSE_SENT /\ y.CLOSE_RCVD = c.CLOSE_RCVD
        /\ y.user = c.user /\ y.detach_close = c.detach_close
    BY <1>3 DEF Channel, Halves
  <2>q. q = <<EofNote>>
    OBVIOUS
  <2>4. IbufEmpty(On(c)) = Res(y, q)
    <3>1. ASSUME NEW r, r.c = c
          PROVE  IbufEmpty(r) = Set(SendEof(r), [SendEof(r).c EXCEPT !.istate = "CLOSED"])
      BY <3>1, <1>1, Zenon DEF IbufEmpty
    <3>2. Res(x, q).c = x
      BY ResFacts
    <3> HIDE DEF x, q
    <3>3. IbufEmpty(On(c)) = Set(Res(x, q), y)
      BY SMTT(30), <3>1, <3>2, <2>1, <1>8
    <3> HIDE DEF y
    <3> QED BY <3>3, ResFacts
  <2> HIDE DEF x, y
  <2>5. Shape(e, y)
    BY Zenon, <2>3, <1>1, <1>3 DEF Shape, BothClosed
  <2>6. MayTurn(chan, net, e, i, y) /\ Keeps(c, y)
    BY <2>3, <2>5, <1>3 DEF MayTurn, Keeps
  <2>7. EofNote \in Note /\ EofNote.kind = "EOF"
    BY SMTT(30) DEF EofNote, Note, Kinds
  <2>8. Sayable(e, c, y, EofNote)
    BY Zenon, <2>3, <2>7, <1>1 DEF Sayable, Noise, Offer, Reply, Bytes
  <2> HIDE DEF q
  <2>9. Res(y, q).c = y /\ Res(y, q).out = q
    BY ResFacts
  <2>10. Talk(e, c, Res(y, q))
    BY <2>8, <2>9, <2>q DEF Talk
  <2>11. r2 = Res(y, q)
    <3>1. r1 = Res(y, q) /\ ~send
      BY <1>11, <2>3, <2>4, <2>9
    <3> HIDE DEF r1, send
    <3> QED BY <3>1
  <2> QED BY Zenon, <2>6, <2>10, <2>11, <1>6
<1> QED BY <1>9, <1>10, <1>11

\* A step that only touches one channel of type OPEN.
LEMMA LocalInv ==
  ASSUME IInv, NEW e \in Ends, NEW i \in Ids, NEW y, chan[e][i].type = "OPEN",
         Proceeds(chan[e][i], y), chan' = Held(chan, e, i, y), net' = net, Rest
  PROVE  IInv'
<1> DEFINE c == chan[e][i]
<1>1. NInv(chan, net, opens) /\ c # Free
  BY DEF IInv, Free
<1>2. MayTurn(chan, net, e, i, y) /\ Keeps(c, y)
  BY <1>1, StillKeeps, ProceedsTurn
<1>3. NInv(chan', net', opens)
  BY <1>1, <1>2, TurnKeeps DEF Held
<1>4. SInv(chan', sess', hist')
  BY <1>2, HeldSession
<1> QED BY <1>3, <1>4 DEF IInv, Rest

\* The program at the other end of the pipe closes it.
LEMMA WriterClosesInv ==
  ASSUME IInv, NEW e \in Ends, NEW i \in Ids, WriterCloses(e, i)
  PROVE  IInv'
<1> DEFINE c == chan[e][i]
           y == [c EXCEPT !.weof = TRUE]
<1>1. /\ over = "no" /\ c.type = "OPEN" /\ chan' = [chan EXCEPT ![e][i].weof = TRUE]
      /\ UNCHANGED <<net, sess, opens, notices, hist, over>>
  BY DEF WriterCloses
<1>2. chan \in [Ends -> [Ids -> Channel \cup {Free}]] /\ c \in Channel
  BY <1>1 DEF IInv, NInv, Typed, Free
<1>3. Proceeds(c, y)
  BY <1>2 DEF Proceeds, Channel
<1>4. chan' = Held(chan, e, i, y)
  BY <1>1 DEF Held
<1>5. Rest
  BY <1>1, RestFacts DEF IInv
<1> HIDE DEF y
<1> QED BY <1>1, <1>3, <1>4, <1>5, LocalInv

\* One entry of the history changes, and not in what it says of a child.
LEMMA LogFacts ==
  ASSUME NEW hi \in [Ends -> [Gens -> Log]], NEW e \in Ends, NEW g \in Gens, NEW l \in Log,
         l.child = hi[e][g].child
  PROVE  SameChildren(hi, [hi EXCEPT ![e][g] = l])
BY DEF SameChildren, Ends

\* The program at the other end of the pipe writes.
LEMMA ProduceInv ==
  ASSUME IInv, NEW e \in Ends, NEW i \in Ids, NEW err \in BOOLEAN, Produce(e, i, err)
  PROVE  IInv'
<1> DEFINE c == chan[e][i]
           y == IF err THEN [c EXCEPT !.epipe = @ + 1] ELSE [c EXCEPT !.pipe = @ + 1]
           l == [hist[e][c.gen] EXCEPT !.wrote = @ + 1]
<1>1. /\ over = "no" /\ c.type = "OPEN" /\ chan' = [chan EXCEPT ![e][i] = y]
      /\ hist' = [hist EXCEPT ![e][c.gen].wrote = @ + 1]
      /\ UNCHANGED <<net, sess, opens, notices, over>>
  BY DEF Produce
<1>2. /\ c \in Channel /\ c # Free /\ c.gen \in 1..opens /\ opens \in Nat /\ opens <= MaxOpens
      /\ hist \in [Ends -> [Gens -> Log]]
  BY <1>1 DEF IInv, NInv, Typed, Free, SInv
<1>3. Proceeds(c, y)
  BY SMTT(30), <1>2 DEF Proceeds, Channel
<1>4. c.gen \in Gens
  BY <1>2, ChannelsAssumption DEF Gens
<1>5. hist' = [hist EXCEPT ![e][c.gen] = l]
  BY <1>1, <1>2, <1>4
<1>6. l \in Log /\ l.child = hist[e][c.gen].child
  <2>1. hist[e][c.gen] \in Log
    BY <1>2, <1>4
  <2> QED BY <2>1 DEF Log
<1> HIDE DEF y, l
<1>7. SameChildren(hist, hist')
  BY <1>2, <1>4, <1>5, <1>6, LogFacts
<1>8. Rest
  BY Zenon, <1>1, <1>7 DEF Rest
<1>9. chan' = Held(chan, e, i, y)
  BY <1>1 DEF Held
<1> QED BY <1>1, <1>3, <1>8, <1>9, LocalInv

-----------------------------------------------------------------------------
(* channel_handler() and its garbage collection.                           *)

\* channel_garbage_collect.
LEMMA CollectInv ==
  ASSUME IInv, NEW e \in Ends, NEW i \in Ids, NEW c, NEW o,
         MayTurn(chan, net, e, i, c), Keeps(chan[e][i], c),
         o = <<>> \/ \E x : o = <<x>> /\ Sayable(e, chan[e][i], c, x) /\ x.kind \notin {"CLOSE", "EOF"},
         UpdateAndCollect(e, i, Res(c, o)),
         opens' = opens, over' \in {"no", "exit"}, SameChildren(hist, hist')
  PROVE  IInv'
<1> DEFINE g == Collect(e, i, Res(c, o))
           b == chan[e][i]
           x == IF g.free THEN Free ELSE g.r.c
<1>0. /\ NInv(chan, net, opens) /\ SInv(chan, sess, hist) /\ c \in Channel /\ b # Free
      /\ Shape(e, c) /\ c.gen = b.gen
      /\ chan \in [Ends -> [Ids -> Channel \cup {Free}]]
      /\ c.type = b.type \/ (b.type = "LARVAL" /\ c.type = "OPEN")
  BY DEF IInv, MayTurn, NInv, Typed
<1>1. LeftAlone(c, o, g) \/ Closing(c, o, g) \/ Gone(e, i, c, o, g)
  BY <1>0, CollectFacts
<1>2. /\ chan' = Held(chan, e, i, x) /\ net' = Sent(net, Peer(e), i, g.r)
      /\ sess' = IF g.detached /\ e = "S"
                 THEN [s \in Sids |-> IF s \in SessionsOf(i) THEN NoSession ELSE sess[s]]
                 ELSE sess
  BY DEF UpdateAndCollect, Held, Sent
<1> HIDE DEF g
<1>3. NInv(chan', net', opens)
  BY <1>0, <1>1, <1>2, CollectKeeps
<1>4. SInv(chan', sess', hist)
  <2>1. Put(chan, chan', e, i, x)
    <3>1. x \in Channel \cup {Free}
      <4>1. CASE LeftAlone(c, o, g)
        BY <4>1, <1>0, ResFacts DEF LeftAlone
      <4>2. CASE Closing(c, o, g)
        <5> DEFINE ce == [c EXCEPT !.CLOSE_SENT = TRUE]
        <5>1. ce \in Channel
          BY <1>0 DEF Channel
        <5>2. g.r = Res(ce, Append(o, CloseNote)) /\ ~g.free
          BY <4>2 DEF Closing
        <5> HIDE DEF ce
        <5> QED BY <5>1, <5>2, ResFacts
      <4>3. CASE Gone(e, i, c, o, g)
        BY <4>3 DEF Gone
      <4> QED BY <1>1, <4>1, <4>2, <4>3
    <3> HIDE DEF x
    <3> QED BY <1>0, <1>2, <3>1, PutFacts DEF Held
  <2>2. CASE LeftAlone(c, o, g) \/ Closing(c, o, g)
    <3>1. /\ ~g.free /\ ~g.detached
          /\ x = c \/ (x = [c EXCEPT !.CLOSE_SENT = TRUE] /\ (c.user => c.detach_close))
      <4>1. CASE LeftAlone(c, o, g)
        BY <4>1, ResFacts DEF LeftAlone
      <4>2. CASE Closing(c, o, g)
        <5> DEFINE ce == [c EXCEPT !.CLOSE_SENT = TRUE]
        <5>1. g.r = Res(ce, Append(o, CloseNote)) /\ ~g.free /\ ~g.detached /\ (c.user => c.detach_close)
          BY <4>2 DEF Closing
        <5> HIDE DEF ce
        <5>2. x = ce
          BY <5>1, ResFacts
        <5> QED BY <5>1, <5>2 DEF ce
      <4> QED BY <2>2, <4>1, <4>2
    <3>2. /\ x # Free /\ x.ctype = c.ctype /\ x.gen = c.gen /\ x.type = c.type
          /\ x.detach_close = c.detach_close
          /\ x.CLOSE_SENT = c.CLOSE_SENT \/ (c.user => c.detach_close)
      <4>1. CASE x = c
        BY <4>1, <1>0, UsedFacts
      <4>2. CASE x = [c EXCEPT !.CLOSE_SENT = TRUE] /\ (c.user => c.detach_close)
        <5> HIDE DEF x
        <5>1. x \in Channel /\ x.ctype = c.ctype /\ x.gen = c.gen /\ x.type = c.type
              /\ x.detach_close = c.detach_close
          BY <4>2, <1>0 DEF Channel
        <5> QED BY <4>2, <5>1, UsedFacts
      <4> QED BY <3>1, <4>1, <4>2
    <3> HIDE DEF x
    <3>3. sess' = sess
      BY <1>2, <3>1
    <3>4. CASE e = "C"
      <4>1. chan'["S"] = chan["S"]
        BY <1>0, <1>2, <3>4 DEF Held, Ends
      <4> QED BY <1>0, <3>3, <4>1, SessionClient
    <3>5. CASE e = "S"
      <4>1. ASSUME NEW s \in Sids, sess[s].chanid = i, sess[s].pid # "none"
            PROVE  ~(c.user => c.detach_close)
        <5>1. i # -1
          BY ChannelsAssumption
        <5>2. b.ctype = "session" /\ ~b.detach_close
          BY <1>0, <3>5, <4>1, <5>1 DEF SInv
        <5> QED BY <5>2, <1>0 DEF Keeps, Shape
      <4>2. Follows(sess, b, x, i)
        BY <1>0, <3>2, <4>1 DEF Follows, Keeps
      <4>3. \A j \in Ids : chan'["S"][j] = chan["S"][j] \/ Follows(sess, chan["S"][j], chan'["S"][j], j)
        BY <2>1, <3>5, <4>2 DEF Put, Ends
      <4> QED BY <1>0, <3>3, <4>3, SessionTurn
    <3> QED BY <3>4, <3>5 DEF Ends
  <2>3. CASE Gone(e, i, c, o, g)
    <3>1. x = Free /\ (g.detached <=> c.user) /\ (c.user => Detaches(e, i))
      BY <2>3 DEF Gone
    <3> HIDE DEF x
    <3>2. CASE e = "C"
      <4>1. chan'["S"] = chan["S"] /\ sess' = sess
        BY <1>0, <1>2, <3>2 DEF Held, Ends
      <4> QED BY <1>0, <4>1, SessionClient
    <3>3. CASE e = "S"
      <4>1. c.user <=> b.ctype = "session"
        BY <1>0 DEF Keeps, Shape
      <4>2. b.ctype = "session" => \E s \in Sids : sess[s].chanid = i /\ sess[s].pid = "none"
        BY <3>1, <3>3, <4>1 DEF Detaches, SessionsOf
      <4>3. sess' = Emptied(sess, i)
        <5>1. CASE c.user
          BY <5>1, <1>2, <3>1, <3>3 DEF SessionsOf, Emptied
        <5>2. CASE ~c.user
          <6>1. sess' = sess /\ sess \in [Sids -> Session]
            BY <5>2, <1>0, <1>2, <3>1 DEF SInv
          <6>2. i # -1
            BY ChannelsAssumption
          <6>3. \A s \in Sids : sess[s].chanid # i
            BY <5>2, <6>2, <4>1, <1>0, <3>3 DEF SInv
          <6> QED BY <6>1, <6>3 DEF Emptied
        <5> QED BY <5>1, <5>2
      <4>4. chan'["S"][i] = Free /\ \A j \in Ids : j # i => chan'["S"][j] = chan["S"][j]
        BY <2>1, <3>1, <3>3 DEF Put
      <4>5. chan["S"][i] # Free /\ (chan["S"][i].ctype = "session" =>
              \E s \in Sids : sess[s].chanid = i /\ sess[s].pid = "none")
        BY <1>0, <3>3, <4>2
      <4>6. SInv(chan', Emptied(sess, i), hist)
        BY <1>0, <4>4, <4>5, SessionFree
      <4> QED BY <4>3, <4>6
    <3> QED BY <3>2, <3>3 DEF Ends
  <2> QED BY <1>1, <2>2, <2>3
<1>5. SInv(chan', sess', hist')
  BY <1>4, SessionLog
<1> QED BY <1>3, <1>5 DEF IInv

\* channel_pre_open.
LEMMA HandlerPreInv ==
  ASSUME IInv, NEW e \in Ends, NEW i \in Ids, HandlerPre(e, i)
  PROVE  IInv'
<1> DEFINE c == chan[e][i]
           y == [c EXCEPT !.ostate = "CLOSED"]
<1>1. /\ over = "no" /\ c # Free /\ UNCHANGED <<opens, notices, hist, over>>
      /\ \/ UpdateAndCollect(e, i, On(c))
         \/ UpdateAndCollect(e, i, ObufEmpty(On(c))) /\ c.type = "OPEN"
  BY DEF HandlerPre
<1>2. NInv(chan, net, opens) /\ SameChildren(hist, hist')
  BY <1>1 DEF IInv, SameChildren, SInv
<1>3. MayTurn(chan, net, e, i, c) /\ c \in Channel
  BY <1>1, <1>2, StillKeeps
<1>4. On(c) = Res(c, <<>>) /\ On(c).c = c
  BY ResFacts
<1>5. CASE UpdateAndCollect(e, i, On(c))
  <2>1. Keeps(c, c)
    BY DEF Keeps
  <2> QED BY <2>1, <1>1, <1>2, <1>3, <1>4, <1>5, CollectInv
<1>6. CASE UpdateAndCollect(e, i, ObufEmpty(On(c))) /\ c.type = "OPEN"
  <2>1. Proceeds(c, y)
    BY <1>3 DEF Proceeds, Channel, Halves
  <2>2. ObufEmpty(On(c)) = Set(On(c), y)
    BY <1>4, Zenon DEF ObufEmpty
  <2> HIDE DEF y
  <2>3. ObufEmpty(On(c)) = Res(y, <<>>)
    BY <2>2, <1>4, ResFacts
  <2>4. MayTurn(chan, net, e, i, y) /\ Keeps(c, y)
    BY <2>1, <1>3, <1>6, ProceedsTurn
  <2>5. UpdateAndCollect(e, i, Res(y, <<>>))
    BY <2>3, <1>6
  <2> QED BY <2>4, <2>5, <1>1, <1>2, CollectInv
<1> QED BY <1>1, <1>5, <1>6

\* What channel_handle_rfd does to the buffers.
FromRfd(x, y, rd) ==
  /\ y.ostate = x.ostate /\ y.rwin = x.rwin /\ y.efd = x.efd /\ y.epipe = x.epipe
  /\ y.output = x.output /\ y.ext = x.ext
  /\ \/ rd # "data" /\ y.pipe = x.pipe /\ y.input = x.input
     \/ rd = "data" /\ y.pipe = 0 /\ y.input = x.input + x.pipe
  /\ y.istate = x.istate \/ (rd = "eof" /\ x.istate = "OPEN" /\ y.istate = "WAIT_DRAIN")

\* channel_handle_rfd.
LEMMA HandleRfdFacts ==
  ASSUME NEW x \in Channel, NEW o, NEW rd
  PROVE  \E y : HandleRfd(Res(x, o), rd) = Res(y, o) /\ Proceeds(x, y) /\ FromRfd(x, y, rd)
<1> DEFINE v == x.input + x.pipe
           z == [x EXCEPT !.input = v, !.pipe = 0]
<1>1. Res(x, o).c = x
  BY ResFacts
<1>2. /\ Proceeds(x, x) /\ Proceeds(x, z)
      /\ rd = "data" => FromRfd(x, z, rd)
      /\ rd # "data" => FromRfd(x, x, rd)
  <2>1. v \in Nat /\ v = x.input + x.pipe
    BY DEF Channel
  <2> HIDE DEF v
  <2>2. Proceeds(x, x) /\ Proceeds(x, z) /\ (rd # "data" => FromRfd(x, x, rd))
    BY <2>1 DEF Proceeds, Channel, FromRfd
  <2>3. /\ z.ostate = x.ostate /\ z.rwin = x.rwin /\ z.efd = x.efd /\ z.epipe = x.epipe
        /\ z.output = x.output /\ z.ext = x.ext /\ z.pipe = 0 /\ z.input = v /\ z.istate = x.istate
    BY <2>1 DEF Channel
  <2> QED BY <2>1, <2>2, <2>3 DEF FromRfd
<1>3. CASE rd = "data"
  <2>1. ASSUME NEW r, r.c = x
        PROVE  HandleRfd(r, rd) = Set(r, z)
    BY <2>1, <1>3 DEF HandleRfd
  <2> HIDE DEF z
  <2>2. HandleRfd(Res(x, o), rd) = Set(Res(x, o), z)
    BY <2>1, <1>1
  <2>3. Set(Res(x, o), z) = Res(z, o)
    BY ResFacts
  <2> QED BY <2>2, <2>3, <1>2, <1>3
<1>4. CASE rd = "eof"
  <2>1. HandleRfd(Res(x, o), rd) = ReadFailed(Res(x, o))
    BY <1>4 DEF HandleRfd
  <2>2. PICK y : ReadFailed(Res(x, o)) = Res(y, o) /\ Proceeds(x, y) /\ ReadStops(x, y)
    BY ReadFailedFacts
  <2>3. FromRfd(x, y, rd)
    BY <2>2, <1>4 DEF FromRfd, ReadStops, SameBuffers
  <2> QED BY <2>1, <2>2, <2>3
<1>5. CASE rd \notin {"data", "eof"}
  <2>1. HandleRfd(Res(x, o), rd) = Res(x, o)
    BY <1>5 DEF HandleRfd
  <2> QED BY <2>1, <1>2, <1>5
<1> QED BY <1>3, <1>4, <1>5

\* What channel_handle_wfd does to the buffers.
ToWfd(x, y, wr) ==
  /\ y.istate = x.istate /\ y.rwin = x.rwin /\ y.efd = x.efd /\ y.pipe = x.pipe
  /\ y.epipe = x.epipe /\ y.input = x.input /\ y.ext = x.ext
  /\ \/ wr = "data" /\ y.output = 0 /\ y.ostate = x.ostate
     \/ wr = "fail" /\ y.ostate = "CLOSED" /\ (y.output = 0 \/ (x.ostate = "CLOSED" /\ y.output = x.output))
     \/ wr \notin {"data", "fail"} /\ y.output = x.output /\ y.ostate = x.ostate

\* channel_handle_wfd.
LEMMA HandleWfdFacts ==
  ASSUME NEW x \in Channel, NEW o, NEW wr
  PROVE  \E y, q : /\ HandleWfd(Res(x, o), wr) = Res(y, q) /\ Proceeds(x, y) /\ ToWfd(x, y, wr)
                   /\ q = o \/ (q = Append(o, Word("EOW")) /\ x.ostate # "CLOSED" /\ wr = "fail")
<1> DEFINE z == [x EXCEPT !.output = 0]
<1>1. Res(x, o).c = x
  BY ResFacts
<1>2. /\ Proceeds(x, x) /\ Proceeds(x, z)
      /\ wr = "data" => ToWfd(x, z, wr)
      /\ wr \notin {"data", "fail"} => ToWfd(x, x, wr)
  BY DEF Proceeds, Channel, ToWfd
<1>3. CASE wr = "data"
  <2>1. ASSUME NEW r, r.c = x
        PROVE  HandleWfd(r, wr) = Set(r, z)
    BY <2>1, <1>3 DEF HandleWfd
  <2> HIDE DEF z
  <2>2. HandleWfd(Res(x, o), wr) = Set(Res(x, o), z)
    BY <2>1, <1>1
  <2>3. Set(Res(x, o), z) = Res(z, o)
    BY ResFacts
  <2> QED BY <2>2, <2>3, <1>2, <1>3
<1>4. CASE wr = "fail"
  <2>1. HandleWfd(Res(x, o), wr) = WriteFailed(Res(x, o))
    BY <1>4 DEF HandleWfd
  <2>2. PICK y, q : /\ WriteFailed(Res(x, o)) = Res(y, q) /\ Proceeds(x, y) /\ WriteStops(x, y)
                    /\ q = o \/ (q = Append(o, Word("EOW")) /\ x.ostate # "CLOSED")
    BY WriteFailedFacts
  <2>3. ToWfd(x, y, wr)
    BY <2>2, <1>4 DEF ToWfd, WriteStops
  <2> QED BY <2>1, <2>2, <2>3, <1>4
<1>5. CASE wr \notin {"data", "fail"}
  <2>1. HandleWfd(Res(x, o), wr) = Res(x, o)
    BY <1>5 DEF HandleWfd
  <2> QED BY <2>1, <1>2, <1>5
<1> QED BY <1>3, <1>4, <1>5

\* What channel_handle_efd does to the buffers.
OfEfd(e, x, y, er) ==
  /\ y.istate = x.istate /\ y.ostate = x.ostate /\ y.rwin = x.rwin /\ y.pipe = x.pipe
  /\ y.input = x.input /\ y.output = x.output
  /\ \/ er = "data" /\ e = "C" /\ y.ext = 0 /\ y.epipe = x.epipe /\ y.efd = x.efd
     \/ er = "data" /\ e = "S" /\ y.ext = x.ext + x.epipe /\ y.epipe = 0 /\ y.efd = x.efd
     \/ er \in {"fail", "eof"} /\ ~y.efd /\ y.ext = x.ext /\ y.epipe = x.epipe
     \/ er \notin {"data", "fail", "eof"} /\ y.ext = x.ext /\ y.epipe = x.epipe /\ y.efd = x.efd

\* channel_handle_efd.
LEMMA HandleEfdFacts ==
  ASSUME NEW x \in Channel, NEW o, NEW er, NEW e \in Ends
  PROVE  \E y : HandleEfd(e, Res(x, o), er) = Res(y, o) /\ Proceeds(x, y) /\ OfEfd(e, x, y, er)
<1> DEFINE z1 == [x EXCEPT !.ext = 0]
           v == x.ext + x.epipe
           z2 == [x EXCEPT !.ext = v, !.epipe = 0]
           z3 == [x EXCEPT !.efd = FALSE]
<1>1. Res(x, o).c = x
  BY ResFacts
<1>2. Proceeds(x, x) /\ Proceeds(x, z1) /\ Proceeds(x, z2) /\ Proceeds(x, z3)
  <2>1. v \in Nat
    BY DEF Channel
  <2> HIDE DEF v
  <2>2. Proceeds(x, x) /\ Proceeds(x, z1) /\ Proceeds(x, z3)
    BY DEF Proceeds, Channel
  <2>3. Proceeds(x, z2)
    BY <2>1 DEF Proceeds, Channel
  <2> QED BY <2>2, <2>3
<1>z. /\ er = "data" /\ e = "C" => OfEfd(e, x, z1, er)
      /\ er = "data" /\ e = "S" => OfEfd(e, x, z2, er)
      /\ er \in {"fail", "eof"} => OfEfd(e, x, z3, er)
      /\ er \notin {"data", "fail", "eof"} => OfEfd(e, x, x, er)
  <2>1. v \in Nat /\ v = x.ext + x.epipe
    BY DEF Channel
  <2> HIDE DEF v
  <2>2. /\ z2.istate = x.istate /\ z2.ostate = x.ostate /\ z2.rwin = x.rwin /\ z2.pipe = x.pipe
        /\ z2.input = x.input /\ z2.output = x.output /\ z2.ext = v /\ z2.epipe = 0 /\ z2.efd = x.efd
    BY <2>1 DEF Channel
  <2> HIDE DEF z2
  <2>3. er = "data" /\ e = "S" => OfEfd(e, x, z2, er)
    BY <2>1, <2>2 DEF OfEfd
  <2>4. er = "data" /\ e = "C" => OfEfd(e, x, z1, er)
    BY DEF OfEfd, Channel
  <2>5. er \in {"fail", "eof"} => OfEfd(e, x, z3, er)
    BY DEF OfEfd, Channel
  <2>6. er \notin {"data", "fail", "eof"} => OfEfd(e, x, x, er)
    BY DEF OfEfd
  <2> QED BY <2>3, <2>4, <2>5, <2>6
<1>3. ASSUME NEW r, r.c = x
      PROVE  /\ er = "data" /\ e = "C" => HandleEfd(e, r, er) = Set(r, z1)
             /\ er = "data" /\ e = "S" => HandleEfd(e, r, er) = Set(r, z2)
             /\ er \in {"fail", "eof"} => HandleEfd(e, r, er) = Set(r, z3)
             /\ er \notin {"data", "fail", "eof"} => HandleEfd(e, r, er) = r
  <2>1. CASE er = "data" /\ e = "C"
    BY <2>1, <1>3 DEF HandleEfd
  <2>2. CASE er = "data" /\ e = "S"
    BY <2>2, <1>3 DEF HandleEfd
  <2>3. CASE er \in {"fail", "eof"}
    BY <2>3, <1>3 DEF HandleEfd
  <2>4. CASE er \notin {"data", "fail", "eof"}
    BY <2>4, <1>3 DEF HandleEfd
  <2> QED BY <2>1, <2>2, <2>3, <2>4 DEF Ends
<1> HIDE DEF z1, z2, z3
<1>4. /\ er = "data" /\ e = "C" => HandleEfd(e, Res(x, o), er) = Set(Res(x, o), z1)
      /\ er = "data" /\ e = "S" => HandleEfd(e, Res(x, o), er) = Set(Res(x, o), z2)
      /\ er \in {"fail", "eof"} => HandleEfd(e, Res(x, o), er) = Set(Res(x, o), z3)
      /\ er \notin {"data", "fail", "eof"} => HandleEfd(e, Res(x, o), er) = Res(x, o)
  BY <1>1, <1>3
<1>5. /\ Set(Res(x, o), z1) = Res(z1, o) /\ Set(Res(x, o), z2) = Res(z2, o)
      /\ Set(Res(x, o), z3) = Res(z3, o)
  BY SMTT(30), ResFacts
<1> QED BY <1>2, <1>z, <1>4, <1>5 DEF Ends

\* channel_post_open.
LEMMA HandlerPostInv ==
  ASSUME IInv, NEW e \in Ends, NEW i \in Ids, NEW rd, NEW wr, NEW er, HandlerPost(e, i, rd, wr, er)
  PROVE  IInv'
<1> DEFINE c == chan[e][i]
           n == (IF wr = "data" THEN c.output ELSE 0) + (IF e = "C" /\ er = "data" THEN c.ext ELSE 0)
           cut == "fail" \in {wr, er}
<1>1. /\ over = "no" /\ c.type = "OPEN" /\ UNCHANGED <<opens, notices, over>>
      /\ UpdateAndCollect(e, i, HandleEfd(e, HandleWfd(HandleRfd(On(c), rd), wr), er))
      /\ hist' = [hist EXCEPT ![e][c.gen].read = @ + n, ![Peer(e)][c.gen].cut = @ \/ cut]
  BY Zenon DEF HandlerPost
<1>2. /\ NInv(chan, net, opens) /\ c # Free /\ c.gen \in 1..opens /\ opens \in Nat /\ opens <= MaxOpens
      /\ hist \in [Ends -> [Gens -> Log]]
  BY SMTT(30), <1>1 DEF IInv, NInv, Typed, Free, SInv
<1>3. MayTurn(chan, net, e, i, c) /\ c \in Channel /\ Shape(e, c)
  BY <1>2, StillKeeps DEF MayTurn
<1>4. SameChildren(hist, hist')
  <2>1. c.gen \in Gens
    BY <1>2, ChannelsAssumption DEF Gens
  <2>2. n \in Nat /\ cut \in BOOLEAN
    <3>1. c.output \in Nat /\ c.ext \in Nat
      BY <1>3 DEF Channel
    <3> QED BY <3>1
  <2> DEFINE p == Peer(e)
             g == c.gen
             l == [hist[e][g] EXCEPT !.read = @ + n]
             h1 == [hist EXCEPT ![e][g] = l]
             k == [h1[p][g] EXCEPT !.cut = @ \/ cut]
  <2>3. p \in Ends /\ p # e
    BY PeerFacts
  <2> HIDE DEF n, cut, p
  <2>4. hist' = [h1 EXCEPT ![p][g] = k]
    BY <1>1, <1>2, <2>1, <2>3 DEF p
  <2>5. hist[e][g] \in Log
    BY <1>2, <2>1
  <2>6. l \in Log /\ l.child = hist[e][g].child
    BY <2>2, <2>5 DEF Log
  <2> HIDE DEF l
  <2>7. SameChildren(hist, h1)
    BY <1>2, <2>1, <2>6, LogFacts
  <2> HIDE DEF h1
  <2>8. h1 \in [Ends -> [Gens -> Log]] /\ h1[p][g] \in Log
    BY <2>1, <2>3, <2>7 DEF SameChildren
  <2>9. k \in Log /\ k.child = h1[p][g].child
    <3>1. (h1[p][g].cut \/ cut) \in BOOLEAN
      BY <2>8 DEF Log
    <3> QED BY <2>8, <3>1 DEF Log
  <2> HIDE DEF k
  <2>10. SameChildren(h1, hist')
    BY <2>1, <2>3, <2>4, <2>8, <2>9, LogFacts
  <2> QED BY <2>7, <2>10 DEF SameChildren
<1>5. On(c) = Res(c, <<>>)
  BY ResFacts
<1>6. PICK y : HandleRfd(Res(c, <<>>), rd) = Res(y, <<>>) /\ Proceeds(c, y)
  BY <1>3, HandleRfdFacts
<1>7. PICK z, q : /\ HandleWfd(Res(y, <<>>), wr) = Res(z, q) /\ Proceeds(y, z)
                  /\ q = <<>> \/ (q = Append(<<>>, Word("EOW")) /\ y.ostate # "CLOSED")
  <2>1. y \in Channel
    BY <1>6 DEF Proceeds
  <2> QED BY <2>1, HandleWfdFacts
<1>8. PICK x : HandleEfd(e, Res(z, q), er) = Res(x, q) /\ Proceeds(z, x)
  <2>1. z \in Channel
    BY <1>7 DEF Proceeds
  <2> QED BY <2>1, HandleEfdFacts
<1>9. Proceeds(c, x)
  BY SMTT(30), <1>6, <1>7, <1>8, ProceedsTrans
<1>10. MayTurn(chan, net, e, i, x) /\ Keeps(c, x)
  BY ZenonT(30), <1>1, <1>3, <1>9, ProceedsTurn
<1>11. UpdateAndCollect(e, i, Res(x, q))
  BY Zenon, <1>1, <1>5, <1>6, <1>7, <1>8
<1>12. q = <<>> \/ \E w : q = <<w>> /\ Sayable(e, c, x, w) /\ w.kind \notin {"CLOSE", "EOF"}
  <2>1. CASE q = Append(<<>>, Word("EOW")) /\ y.ostate # "CLOSED"
    <3>1. ~c.CLOSE_SENT
      BY SMTT(30), <2>1, <1>3, <1>6 DEF Proceeds, Shape, BothClosed
    <3>2. Sayable(e, c, x, Word("EOW")) /\ Word("EOW").kind = "EOW"
      BY Zenon, <1>1, <3>1, SayableFacts
    <3>3. q = <<Word("EOW")>>
      BY <2>1
    <3> QED BY <3>2, <3>3
  <2> QED BY <2>1, <1>7
<1> QED BY Zenon, <1>1, <1>4, <1>10, <1>11, <1>12, CollectInv

-----------------------------------------------------------------------------
(* Opening and answering.                                                  *)

\* One note, addressed.
LEMMA SaidOne ==
  ASSUME NEW nt \in [Ends -> Seq(Packet)], NEW f \in Ends, NEW i \in Ids, NEW c \in Channel,
         NEW x \in Note
  PROVE  Sent(nt, f, i, Res(c, <<x>>)) = Told(nt, f, Message(c, i, x))
<1> DEFINE r == Res(c, <<x>>)
<1>1. r.c = c /\ r.out = <<x>>
  BY ResFacts
<1> HIDE DEF r
<1>2. r.c \in Channel
  BY <1>1
<1>3. \A y \in Note : r.out = <<y>> => Sent(nt, f, i, r) = Told(nt, f, Message(r.c, i, y))
  BY <1>2, OutgoingFacts
<1>4. Sent(nt, f, i, r) = Told(nt, f, Message(r.c, i, x))
  BY <1>1, <1>3
<1> QED BY <1>1, <1>4 DEF r

\* No note, no message.
LEMMA SaidNone ==
  ASSUME NEW nt \in [Ends -> Seq(Packet)], NEW f \in Ends, NEW i \in Ids, NEW c \in Channel
  PROVE  Sent(nt, f, i, Res(c, <<>>)) = nt
<1> DEFINE r == Res(c, <<>>)
<1>1. r.c = c /\ r.out = <<>>
  BY ResFacts
<1> HIDE DEF r
<1>2. r.c \in Channel
  BY <1>1
<1>3. r.out = <<>> => Sent(nt, f, i, r) = nt
  BY <1>2, OutgoingFacts
<1> QED BY <1>1, <1>3 DEF r

\* A handler that answers the message it read.
LEMMA AnswerFacts ==
  ASSUME NEW e \in Ends, NEW i \in Ids, NEW x, NEW q, net \in [Ends -> Seq(Packet)],
         Answer(e, i, Res(x, q))
  PROVE  /\ chan' = Held(chan, e, i, x)
         /\ net' = Sent(Popped(net, e), Peer(e), i, Res(x, q))
<1>1. chan' = Held(chan, e, i, x)
  BY ResFacts DEF Answer, Held
<1> DEFINE o == Outgoing(i, Res(x, q))
<1>2. net' = [net EXCEPT ![e] = Tail(@), ![Peer(e)] = @ \o o]
  BY DEF Answer
<1> HIDE DEF o
<1>3. net' = [[net EXCEPT ![e] = Tail(@)] EXCEPT ![Peer(e)] = @ \o o]
  BY <1>2, PeerFacts
<1> QED BY <1>1, <1>3 DEF o, Sent, Popped

\* channel_new() takes the lowest free slot.
LEMMA LowestFacts ==
  ASSUME NEW e, FreeIds(e) # {}
  PROVE  LowestFree(e) \in Ids /\ chan[e][LowestFree(e)] = Free
<1> DEFINE T == FreeIds(e)
<1>1. T \subseteq Nat /\ T # {}
  BY ChannelsAssumption DEF FreeIds
<1> HIDE DEF T
<1>2. \E j \in T : \A k \in T : j <= k
  BY <1>1, LeastOf
<1>3. (CHOOSE j \in T : \A k \in T : j <= k) \in T
  BY <1>2
<1>4. LowestFree(e) \in T
  BY <1>3 DEF LowestFree, T
<1> QED BY <1>4 DEF T, FreeIds

\* While a channel is opening, nothing is in flight to an acceptor that knows it.
LEMMA OpeningQuiet ==
  ASSUME NEW ch, NEW nt, NEW op, NEW e \in Ends, NEW j \in Ids, NEW g, NInv(ch, nt, op),
         ch[Peer(e)][j] # Free, ch[Peer(e)][j].type = "OPENING", ch[Peer(e)][j].gen = g,
         ~Absent(ch, e, g)
  PROVE  Quiet(nt, e, g)
<1>1. Peer(e) \in Ends /\ Peer(Peer(e)) = e
  BY PeerFacts
<1>2. Silent(ch, nt, e, g)
  <2>1. Opening(ch, nt)
    BY DEF NInv
  <2>2. Silent(ch, nt, Peer(Peer(e)), ch[Peer(e)][j].gen)
    BY <1>1, <2>1 DEF Opening
  <2> QED BY <2>2, <1>1
<1>3. ASSUME NEW k \in DOMAIN nt[e], nt[e][k].gen = g, Offer(nt[e][k]) PROVE FALSE
  <2>1. Offered(ch, nt)
    BY DEF NInv
  <2>2. Offers(ch, e, nt[e][k])
    BY <1>3, <2>1 DEF Offered
  <2> QED BY <2>2, <1>3 DEF Offers
<1> QED BY <1>2, <1>3 DEF Silent, Quiet

\* A channel that connects: what its peer knows of it.
LEMMA ConnectingFacts ==
  ASSUME NEW ch, NEW nt, NEW op, NEW e \in Ends, NEW i \in Ids, NInv(ch, nt, op),
         ch[e][i] # Free, ch[e][i].type = "CONNECTING"
  PROVE  /\ Answerable(ch, nt, e, ch[e][i].gen, ch[e][i].rid)
         /\ ch[e][i] \in Channel /\ Shape(e, ch[e][i])
         /\ ch[e][i].ctype = "tcp" /\ ~ch[e][i].user /\ ~BothClosed(ch[e][i])
         /\ ~ch[e][i].CLOSE_RCVD /\ ~ch[e][i].EOF_RCVD /\ ~ch[e][i].CLOSE_SENT
         /\ ch[e][i].rid \in Ids
<1> DEFINE c == ch[e][i]
<1>1. c \in Channel /\ Shape(e, c)
  BY DEF NInv, Typed, Shaped
<1>2. /\ c.ctype = "tcp" /\ ~c.user /\ ~BothClosed(c) /\ ~c.CLOSE_RCVD /\ ~c.EOF_RCVD /\ ~c.CLOSE_SENT
      /\ c.rid \in Ids
  BY <1>1 DEF Shape, BothClosed
<1>3. Reaches(ch, nt, e, c)
  <2>1. Linked(ch, nt)
    BY DEF NInv
  <2> QED BY <1>2, <2>1 DEF Linked
<1>4. /\ ch[Peer(e)][c.rid] # Free /\ ch[Peer(e)][c.rid].gen = c.gen
      /\ ch[Peer(e)][c.rid].type = "OPENING" /\ Quiet(nt, Peer(e), c.gen)
  BY <1>3 DEF Reaches
<1>5. ~Absent(ch, e, c.gen)
  BY DEF Absent
<1>6. Quiet(nt, e, c.gen)
  BY <1>2, <1>4, <1>5, OpeningQuiet
<1> QED BY <1>1, <1>2, <1>4, <1>6 DEF Answerable

\* A slot of the server changes that holds no session.
LEMMA SessionOther ==
  ASSUME NEW ch \in [Ends -> [Ids -> Channel \cup {Free}]], NEW se, NEW hi, NEW e \in Ends,
         NEW i \in Ids, NEW x \in Channel \cup {Free}, SInv(ch, se, hi),
         e = "S" => /\ ch[e][i] = Free \/ ch[e][i].ctype # "session"
                    /\ x = Free \/ x.ctype # "session"
  PROVE  SInv(Held(ch, e, i, x), se, hi)
<1> DEFINE ch2 == Held(ch, e, i, x)
<1>1. Put(ch, ch2, e, i, x)
  BY PutFacts DEF Held
<1> HIDE DEF ch2
<1>2. CASE e = "C"
  <2>1. ch2["S"] = ch["S"]
    BY <1>2 DEF ch2, Held, Ends
  <2> QED BY <2>1, SessionClient DEF ch2
<1>3. CASE e = "S"
  <2> DEFINE a == ch["S"]
             b == ch2["S"]
  <2>1. /\ se \in [Sids -> Session] /\ hi \in [Ends -> [Gens -> Log]]
        /\ \A s \in Sids : se[s].chanid = -1 => se[s].pid = "none"
        /\ \A s \in Sids : se[s].chanid # -1 => a[se[s].chanid] # Free /\ a[se[s].chanid].ctype = "session"
        /\ \A s, t \in Sids : se[s].chanid = se[t].chanid /\ se[s].chanid # -1 => s = t
        /\ \A j \in Ids : a[j] # Free /\ a[j].ctype = "session" => \E s \in Sids : se[s].chanid = j
        /\ \A s \in Sids : se[s].pid # "none" =>
             a[se[s].chanid].type = "OPEN" /\ ~a[se[s].chanid].detach_close /\ ~a[se[s].chanid].CLOSE_SENT
        /\ \A g \in Gens : hi["S"][g].child = "started" =>
             \E s \in Sids : se[s].chanid # -1 /\ se[s].pid # "none" /\ a[se[s].chanid].gen = g
    BY DEF SInv
  <2>2. /\ a[i] = Free \/ a[i].ctype # "session"
        /\ b[i] = Free \/ b[i].ctype # "session"
        /\ \A j \in Ids : j # i => b[j] = a[j]
    BY <1>1, <1>3 DEF Put
  <2> HIDE DEF a, b
  <2>3. \A s \in Sids : se[s].chanid # -1 => se[s].chanid \in Ids /\ se[s].chanid # i
    BY <2>1, <2>2 DEF Session
  <2>4. \A s \in Sids : se[s].chanid # -1 => b[se[s].chanid] = a[se[s].chanid]
    BY <2>2, <2>3
  <2>5. \A j \in Ids : b[j] # Free /\ b[j].ctype = "session" => \E s \in Sids : se[s].chanid = j
    BY <2>1, <2>2
  <2>6. \A s \in Sids : se[s].chanid # -1 => b[se[s].chanid] # Free /\ b[se[s].chanid].ctype = "session"
    BY <2>1, <2>4
  <2>7. \A s \in Sids : se[s].pid # "none" =>
          b[se[s].chanid].type = "OPEN" /\ ~b[se[s].chanid].detach_close /\ ~b[se[s].chanid].CLOSE_SENT
    BY <2>1, <2>4
  <2>8. \A g \in Gens : hi["S"][g].child = "started" =>
             \E s \in Sids : se[s].chanid # -1 /\ se[s].pid # "none" /\ b[se[s].chanid].gen = g
    BY <2>1, <2>4
  <2>9. SInv(ch2, se, hi)
    BY <2>1, <2>5, <2>6, <2>7, <2>8 DEF SInv, b
  <2> QED BY <2>9 DEF ch2
<1> QED BY <1>2, <1>3 DEF Ends

\* channel_post_connecting.
LEMMA PostConnectingInv ==
  ASSUME IInv, NEW e \in Ends, NEW i \in Ids, NEW ok \in BOOLEAN, PostConnecting(e, i, ok)
  PROVE  IInv'
<1> DEFINE c == chan[e][i]
           x == [c EXCEPT !.type = IF ok THEN "OPEN" ELSE "ZOMBIE"]
           w == Word(IF ok THEN "CONFIRM" ELSE "OPEN_FAILURE")
           o == <<w>>
           g == Collect(e, i, Res(x, o))
           m == Message(x, i, w)
<1>1. /\ over = "no" /\ c.type = "CONNECTING" /\ UNCHANGED <<opens, notices, hist, over>>
      /\ NInv(chan, net, opens) /\ SInv(chan, sess, hist)
  BY DEF PostConnecting, IInv
<1>2. chan \in [Ends -> [Ids -> Channel \cup {Free}]] /\ net \in [Ends -> Seq(Packet)] /\ c # Free
  BY <1>1 DEF NInv, Typed, Free
<1>3. UpdateAndCollect(e, i, Res(x, o))
  <2>1. UpdateAndCollect(e, i, IF ok THEN Send(On([c EXCEPT !.type = "OPEN"]), "CONFIRM")
                                  ELSE Send(On([c EXCEPT !.type = "ZOMBIE"]), "OPEN_FAILURE"))
    BY DEF PostConnecting
  <2>2. CASE ok
    <3> DEFINE y == [c EXCEPT !.type = "OPEN"]
    <3>1. Send(On(y), "CONFIRM") = Res(y, <<Word("CONFIRM")>>)
      BY WordFacts
    <3>2. UpdateAndCollect(e, i, Send(On(y), "CONFIRM"))
      BY <2>1, <2>2
    <3>3. x = y /\ w = Word("CONFIRM")
      BY <2>2
    <3> HIDE DEF y, x, w
    <3> QED BY <3>1, <3>2, <3>3
  <2>3. CASE ~ok
    <3> DEFINE y == [c EXCEPT !.type = "ZOMBIE"]
    <3>1. Send(On(y), "OPEN_FAILURE") = Res(y, <<Word("OPEN_FAILURE")>>)
      BY WordFacts
    <3>2. UpdateAndCollect(e, i, Send(On(y), "OPEN_FAILURE"))
      BY <2>1, <2>3
    <3>3. x = y /\ w = Word("OPEN_FAILURE")
      BY <2>3
    <3> HIDE DEF y, x, w
    <3> QED BY <3>1, <3>2, <3>3
  <2> QED BY <2>2, <2>3
<1>4. /\ Answerable(chan, net, e, c.gen, c.rid) /\ c \in Channel /\ Shape(e, c) /\ c.ctype = "tcp"
      /\ ~c.user /\ ~BothClosed(c) /\ ~c.CLOSE_RCVD /\ ~c.EOF_RCVD /\ ~c.CLOSE_SENT /\ c.rid \in Ids
  BY <1>1, <1>2, ConnectingFacts
<1>5. /\ x \in Channel /\ x.gen = c.gen /\ x.rid = c.rid /\ x.ctype = "tcp" /\ ~x.user
      /\ ~BothClosed(x) /\ ~x.CLOSE_RCVD /\ ~x.EOF_RCVD
      /\ x.type = (IF ok THEN "OPEN" ELSE "ZOMBIE")
  BY <1>4 DEF Channel, Types, BothClosed
<1>6. ok => Shape(e, x)
  BY <1>4, <1>5 DEF Shape, BothClosed, Channel
<1>7. w \in Note /\ w.kind = (IF ok THEN "CONFIRM" ELSE "OPEN_FAILURE")
  BY WordFacts DEF Kinds
<1> HIDE DEF x, w
<1>8. m \in Packet /\ m.kind = w.kind /\ m.gen = c.gen /\ m.to = c.rid /\ m.sid = i
  BY <1>5, <1>7, MessageFacts
<1>9. Sent(net, Peer(e), i, Res(x, o)) = Told(net, Peer(e), m)
  <2>1. Peer(e) \in Ends
    BY PeerFacts
  <2> QED BY <2>1, <1>2, <1>5, <1>7, SaidOne
<1> HIDE DEF o, m
<1>10. LeftAlone(x, o, g) \/ Closing(x, o, g) \/ Gone(e, i, x, o, g)
  BY <1>5, CollectFacts
<1>11. /\ chan' = Held(chan, e, i, IF g.free THEN Free ELSE g.r.c)
       /\ net' = Sent(net, Peer(e), i, g.r)
       /\ sess' = IF g.detached /\ e = "S"
                  THEN [s \in Sids |-> IF s \in SessionsOf(i) THEN NoSession ELSE sess[s]]
                  ELSE sess
  BY <1>3 DEF UpdateAndCollect, Held, Sent
<1> HIDE DEF g
<1>12. ~Closing(x, o, g)
  BY <1>5 DEF Closing, MayClose
<1>13. CASE ok
  <2>1. g.r = Res(x, o) /\ ~g.free /\ ~g.detached
    BY <1>13, <1>5, <1>10, <1>12 DEF LeftAlone, Gone
  <2>2. chan' = Held(chan, e, i, x) /\ net' = Told(net, Peer(e), m) /\ sess' = sess
    BY <2>1, <1>9, <1>11, ResFacts
  <2>3. NInv(chan', net', opens)
    <3>1. x.type = "OPEN" /\ m.kind = "CONFIRM" /\ m.to = x.rid /\ m.gen = x.gen
      BY <1>5, <1>7, <1>8, <1>13
    <3>2. Answerable(chan, net, e, x.gen, x.rid)
      BY <1>4, <1>5
    <3>3. LET ch2 == [chan EXCEPT ![e][i] = x]
              nt2 == IF x.type = "CONNECTING" THEN net ELSE [net EXCEPT ![Peer(e)] = Append(@, m)]
          IN  NInv(ch2, nt2, opens)
      BY <3>1, <3>2, <1>1, <1>2, <1>5, <1>6, <1>8, <1>13, AcceptKeeps
    <3> QED BY <3>1, <3>3, <2>2 DEF Held, Told
  <2>4. SInv(chan', sess', hist')
    <3>1. SInv(Held(chan, e, i, x), sess, hist)
      BY <1>1, <1>2, <1>4, <1>5, SessionOther
    <3> QED BY <3>1, <2>2, <1>1
  <2> QED BY <2>3, <2>4, <1>1 DEF IInv
<1>14. CASE ~ok
  <2>1. Gone(e, i, x, o, g)
    BY <1>14, <1>5, <1>10, <1>12 DEF LeftAlone
  <2>2. /\ g.free /\ ~g.detached /\ g.r.out = o /\ g.r.c.rid = x.rid /\ g.r.c.gen = x.gen
    BY <2>1, <1>5 DEF Gone
  <2>3. Sent(net, Peer(e), i, g.r) = Sent(net, Peer(e), i, Res(x, o))
    <3>1. Res(x, o).c = x /\ Res(x, o).out = o
      BY ResFacts
    <3> QED BY <3>1, <2>2, SentSame
  <2>4. chan' = Held(chan, e, i, Free) /\ net' = Told(net, Peer(e), m) /\ sess' = sess
    BY <2>2, <2>3, <1>9, <1>11
  <2>5. NInv(Held(chan, e, i, Free), net, opens)
    BY <1>1, <1>2, RemoveKeeps DEF Held
  <2>6. Put(chan, Held(chan, e, i, Free), e, i, Free)
    BY <1>2, PutFacts DEF Held
  <2>7. Absent(Held(chan, e, i, Free), e, c.gen)
    <3>1. OneEach(chan)
      BY <1>1 DEF NInv
    <3> DEFINE ch2 == Held(chan, e, i, Free)
    <3> HIDE DEF ch2
    <3>2. ch2[e][i] = Free /\ \A j \in Ids : j # i => ch2[e][j] = chan[e][j]
      BY <2>6 DEF Put, ch2
    <3>3. \A j \in Ids : chan[e][j] # Free /\ chan[e][j].gen = c.gen => j = i
      BY <3>1, <1>2 DEF OneEach
    <3>4. Absent(ch2, e, c.gen)
      BY <3>2, <3>3 DEF Absent
    <3> QED BY <3>4 DEF ch2
  <2>8. Answerable(Held(chan, e, i, Free), net, e, m.gen, m.to)
    BY <2>6, <1>4, <1>8, PeerFacts DEF Answerable, Put
  <2> DEFINE ch2 == Held(chan, e, i, Free)
  <2> HIDE DEF ch2
  <2>9. NInv(ch2, Told(net, Peer(e), m), opens)
    <3>1. NInv(ch2, net, opens) /\ Answerable(ch2, net, e, m.gen, m.to) /\ Absent(ch2, e, m.gen)
      BY <2>5, <2>7, <2>8, <1>8 DEF ch2
    <3>2. m.kind = "OPEN_FAILURE" /\ m \in Packet
      BY <1>7, <1>8, <1>14
    <3> QED BY <3>1, <3>2, RefuseKeeps DEF Told
  <2>10. SInv(ch2, sess, hist)
    BY <1>1, <1>2, <1>4, SessionOther DEF ch2
  <2> QED BY <2>4, <2>9, <2>10, <1>1 DEF IInv, ch2
<1> QED BY <1>13, <1>14

\* channel_new.
LEMMA NewFacts ==
  ASSUME NEW type \in Types, NEW ctype \in {"session", "tcp"}, NEW rid \in Ids \cup {-1}, NEW g \in Nat
  PROVE  LET c == NewChannel(type, ctype, rid, g) IN
         /\ c \in Channel /\ c.type = type /\ c.ctype = ctype /\ c.rid = rid /\ c.gen = g
         /\ c.istate = "OPEN" /\ c.ostate = "OPEN" /\ ~c.EOF_SENT /\ ~c.EOF_RCVD
         /\ ~c.CLOSE_SENT /\ ~c.CLOSE_RCVD /\ ~c.user /\ ~c.detach_close
<1> DEFINE w == type # "OPENING"
<1>1. w \in BOOLEAN
  OBVIOUS
<1> HIDE DEF w
<1> DEFINE c == [type |-> type, ctype |-> ctype, rid |-> rid, gen |-> g,
   istate |-> "OPEN", ostate |-> "OPEN",
   EOF_SENT |-> FALSE, EOF_RCVD |-> FALSE,
   CLOSE_SENT |-> FALSE, CLOSE_RCVD |-> FALSE,
   user |-> FALSE, detach_close |-> FALSE, confirm |-> FALSE, rwin |-> w,
   input |-> 0, output |-> 0, pipe |-> 0, weof |-> FALSE,
   efd |-> FALSE, ext |-> 0, epipe |-> 0]
<1>2. c \in Channel
  BY <1>1 DEF Channel, Halves
<1>3. NewChannel(type, ctype, rid, g) = c
  BY DEF NewChannel, w
<1>4. /\ c.type = type /\ c.ctype = ctype /\ c.rid = rid /\ c.gen = g
      /\ c.istate = "OPEN" /\ c.ostate = "OPEN" /\ ~c.EOF_SENT /\ ~c.EOF_RCVD
      /\ ~c.CLOSE_SENT /\ ~c.CLOSE_RCVD /\ ~c.user /\ ~c.detach_close
  OBVIOUS
<1> HIDE DEF c
<1> QED BY <1>2, <1>3, <1>4

\* A new channel as the requester of it marks it.
Marked(n, u, d, f) == [n EXCEPT !.user = u, !.detach_close = d, !.efd = f]

\* Marking keeps what channel_new set.
LEMMA MarkFacts ==
  ASSUME NEW n \in Channel, NEW u \in BOOLEAN, NEW d \in BOOLEAN, NEW f \in BOOLEAN
  PROVE  LET c == Marked(n, u, d, f) IN
         /\ c \in Channel /\ c.type = n.type /\ c.ctype = n.ctype /\ c.rid = n.rid /\ c.gen = n.gen
         /\ c.istate = n.istate /\ c.ostate = n.ostate
         /\ (c.EOF_SENT <=> n.EOF_SENT) /\ (c.EOF_RCVD <=> n.EOF_RCVD)
         /\ (c.CLOSE_SENT <=> n.CLOSE_SENT) /\ (c.CLOSE_RCVD <=> n.CLOSE_RCVD)
         /\ c.user = u
<1> DEFINE c == Marked(n, u, d, f)
<1>1. c \in Channel /\ c.type = n.type /\ c.ctype = n.ctype /\ c.rid = n.rid /\ c.gen = n.gen
      /\ c.istate = n.istate /\ c.ostate = n.ostate
  BY ZenonT(40) DEF Channel, Marked
<1>2. c.EOF_SENT = n.EOF_SENT /\ c.EOF_RCVD = n.EOF_RCVD
  BY DEF Channel, Marked
<1>3. c.CLOSE_SENT = n.CLOSE_SENT /\ c.CLOSE_RCVD = n.CLOSE_RCVD
  BY DEF Channel, Marked
<1>4. c.user = u
  BY DEF Channel, Marked
<1> HIDE DEF c
<1>5. /\ (c.EOF_SENT <=> n.EOF_SENT) /\ (c.EOF_RCVD <=> n.EOF_RCVD)
      /\ (c.CLOSE_SENT <=> n.CLOSE_SENT) /\ (c.CLOSE_RCVD <=> n.CLOSE_RCVD)
  BY <1>2, <1>3, Zenon
<1> QED BY <1>1, <1>4, <1>5 DEF c

\* ssh_session2_open, and a forwarded connection.
LEMMA OpenChannelInv ==
  ASSUME IInv, NEW e \in Ends, NEW ctype \in CTypes, NEW mux \in BOOLEAN, OpenChannel(e, ctype, mux)
  PROVE  IInv'
<1> DEFINE i == LowestFree(e)
           n == NewChannel("OPENING", ctype, -1, opens + 1)
           u == ctype = "session"
           f == ctype = "session" /\ Stderr
           c == Marked(n, u, mux, f)
           w == Word(OpenKind(ctype))
           o == <<w>>
           m == Message(c, i, w)
<1>1. /\ opens < MaxOpens /\ FreeIds(e) # {} /\ (ctype = "session" => e = "C")
      /\ opens' = opens + 1 /\ Update(e, i, Send(On(c), OpenKind(ctype)))
      /\ UNCHANGED <<sess, notices, hist, over>>
  BY DEF OpenChannel, Marked
<1>2. i \in Ids /\ chan[e][i] = Free
  BY <1>1, LowestFacts
<1> HIDE DEF i
<1>3. /\ NInv(chan, net, opens) /\ SInv(chan, sess, hist) /\ opens \in Nat /\ over \in {"no", "exit"}
      /\ chan \in [Ends -> [Ids -> Channel \cup {Free}]] /\ net \in [Ends -> Seq(Packet)]
  BY DEF IInv, NInv, Typed
<1>4. /\ n \in Channel /\ n.type = "OPENING" /\ n.ctype = ctype /\ n.rid = -1 /\ n.gen = opens + 1
      /\ n.istate = "OPEN" /\ n.ostate = "OPEN" /\ ~n.EOF_SENT /\ ~n.EOF_RCVD
      /\ ~n.CLOSE_SENT /\ ~n.CLOSE_RCVD
  <2>1. "OPENING" \in Types /\ ctype \in {"session", "tcp"} /\ -1 \in Ids \cup {-1} /\ opens + 1 \in Nat
    BY <1>3, ChannelsAssumption DEF Types
  <2> QED BY <2>1, NewFacts
<1>5. u \in BOOLEAN /\ f \in BOOLEAN /\ (u <=> ctype = "session")
  BY ChannelsAssumption
<1> HIDE DEF n, u, f
<1>6. /\ c \in Channel /\ c.type = n.type /\ c.ctype = n.ctype /\ c.rid = n.rid /\ c.gen = n.gen
      /\ c.istate = n.istate /\ c.ostate = n.ostate
      /\ (c.EOF_SENT <=> n.EOF_SENT) /\ (c.EOF_RCVD <=> n.EOF_RCVD)
      /\ (c.CLOSE_SENT <=> n.CLOSE_SENT) /\ (c.CLOSE_RCVD <=> n.CLOSE_RCVD)
      /\ c.user = u
  <2>1. \A a, d, b \in BOOLEAN :
          LET y == Marked(n, a, d, b) IN
          /\ y \in Channel /\ y.type = n.type /\ y.ctype = n.ctype /\ y.rid = n.rid /\ y.gen = n.gen
          /\ y.istate = n.istate /\ y.ostate = n.ostate
          /\ (y.EOF_SENT <=> n.EOF_SENT) /\ (y.EOF_RCVD <=> n.EOF_RCVD)
          /\ (y.CLOSE_SENT <=> n.CLOSE_SENT) /\ (y.CLOSE_RCVD <=> n.CLOSE_RCVD)
          /\ y.user = a
    BY <1>4, MarkFacts
  <2>2. u \in BOOLEAN /\ f \in BOOLEAN /\ mux \in BOOLEAN
    BY <1>5
  <2>3. PICK a \in BOOLEAN : a = u
    BY <2>2, Zenon
  <2>4. PICK b \in BOOLEAN : b = f
    BY <2>2, Zenon
  <2>5. c = Marked(n, a, mux, b)
    BY <2>3, <2>4, Zenon
  <2> HIDE DEF c
  <2> QED BY <2>1, <2>3, <2>5
<1>u. c.user <=> ctype = "session"
  <2>1. c.user = u
    BY <1>6
  <2> HIDE DEF c
  <2> QED BY <2>1, Zenon DEF u
<1> HIDE DEF c
<1>7. Shape(e, c)
  BY <1>1, <1>4, <1>u, <1>6 DEF Shape
<1>8. w \in Note /\ w.kind = OpenKind(ctype) /\ Send(On(c), OpenKind(ctype)) = Res(c, o)
  <2>1. OpenKind(ctype) \in Kinds
    BY DEF OpenKind, Kinds
  <2> QED BY <2>1, WordFacts
<1>w. w.kind \in {"OPEN_session", "OPEN_tcp"} /\ (w.kind = "OPEN_session" => ctype = "session")
  BY <1>8 DEF OpenKind
<1> HIDE DEF w
<1>9. m \in Packet /\ m.kind = w.kind /\ m.gen = opens + 1 /\ m.to = -1 /\ m.sid = i
  BY <1>2, <1>4, <1>6, <1>8, MessageFacts
<1>10. Sent(net, Peer(e), i, Res(c, o)) = Told(net, Peer(e), m)
  <2>1. Peer(e) \in Ends
    BY PeerFacts
  <2> QED BY <2>1, <1>2, <1>3, <1>6, <1>8, SaidOne
<1> HIDE DEF m, o
<1>11. chan' = Held(chan, e, i, c) /\ net' = Told(net, Peer(e), m)
  <2>1. Res(c, o).c = c
    BY ResFacts
  <2>2. Update(e, i, Res(c, o))
    BY <1>1, <1>8
  <2> QED BY <2>1, <2>2, <1>10 DEF Update, Held, Sent
<1>12. NInv(chan', net', opens')
  <2>1. Offer(m) /\ (m.kind = "OPEN_session" => Peer(e) = "S")
    BY <1>1, <1>9, <1>w DEF Offer, Peer
  <2>2. NInv([chan EXCEPT ![e][i] = c], [net EXCEPT ![Peer(e)] = Append(@, m)], opens + 1)
    BY <2>1, <1>2, <1>3, <1>4, <1>6, <1>7, <1>9, OfferKeeps
  <2> QED BY <2>2, <1>1, <1>11 DEF Held, Told
<1>13. SInv(chan', sess', hist')
  <2>1. e = "S" => c.ctype # "session"
    BY <1>1, <1>4, <1>6
  <2>2. SInv(Held(chan, e, i, c), sess, hist)
    BY <2>1, <1>2, <1>3, <1>6, SessionOther
  <2> QED BY <2>2, <1>1, <1>11
<1>14. opens' <= MaxOpens
  BY <1>1, <1>3, ChannelsAssumption
<1> QED BY <1>1, <1>3, <1>12, <1>13, <1>14 DEF IInv

\* An offer at the head can be answered once it has left the queue.
LEMMA HeadOffer ==
  ASSUME NEW ch, NEW nt, NEW op, NEW e \in Ends, NInv(ch, nt, op), nt[e] # <<>>, Offer(nt[e][1])
  PROVE  /\ NInv(ch, Popped(nt, e), op)
         /\ Answerable(ch, Popped(nt, e), e, nt[e][1].gen, nt[e][1].sid)
         /\ Absent(ch, e, nt[e][1].gen) /\ nt[e][1].sid \in Ids /\ nt[e][1].gen \in Nat
<1> DEFINE m == nt[e][1]
           nt2 == Popped(nt, e)
<1>1. NInv(ch, nt2, op)
  BY PopKeeps DEF Popped, Offer
<1>2. /\ 1 \in DOMAIN nt[e] /\ nt2[Peer(e)] = nt[Peer(e)] /\ m \in Packet
      /\ \A k \in DOMAIN nt2[e] : \E l \in DOMAIN nt[e] : l # 1 /\ nt2[e][k] = nt[e][l]
  <2>1. nt \in [Ends -> Seq(Packet)]
    BY DEF NInv, Typed
  <2>2. /\ 1 \in DOMAIN nt[e] /\ nt[e][1] \in Packet /\ Shrunk(nt[e], nt2[e])
        /\ \A f \in Ends : f # e => nt2[f] = nt[f]
    BY <2>1, PopFacts DEF Popped
  <2> HIDE DEF nt2
  <2> QED BY <2>2, PeerFacts DEF Shrunk
<1> HIDE DEF nt2
<1>3. Offers(ch, e, m) /\ Alone(nt, e, 1) /\ Quiet(nt, Peer(e), m.gen)
  <2>1. Offered(ch, nt)
    BY DEF NInv
  <2> QED BY <1>2, <2>1 DEF Offered
<1>4. Quiet(nt2, e, m.gen)
  BY <1>2, <1>3 DEF Quiet, Alone
<1>5. Quiet(nt2, Peer(e), m.gen)
  BY <1>2, <1>3 DEF Quiet
<1>6. m.gen \in Nat
  BY <1>2 DEF Packet
<1> QED BY <1>1, <1>3, <1>4, <1>5, <1>6 DEF Offers, Answerable, nt2

\* Reading at one end and writing to the other commute.
LEMMA ToldPopped ==
  ASSUME NEW e \in Ends, NEW m, net \in [Ends -> Seq(Packet)]
  PROVE  [net EXCEPT ![e] = Tail(@), ![Peer(e)] = Append(@, m)] = Told(Popped(net, e), Peer(e), m)
BY PeerFacts DEF Told, Popped

\* The offer at the head is refused.
LEMMA RefuseInv ==
  ASSUME IInv, NEW e \in Ends, NEW i \in Ids, NEW c \in Channel, net[e] # <<>>, Offer(net[e][1]),
         c.rid = net[e][1].sid, c.gen = net[e][1].gen,
         net' = [net EXCEPT ![e] = Tail(@),
                   ![Peer(e)] = Append(@, Message(c, i, [kind |-> "OPEN_FAILURE", n |-> 0]))],
         UNCHANGED <<chan, sess, opens, hist, over>>
  PROVE  IInv'
<1> DEFINE w == Word("OPEN_FAILURE")
           m == Message(c, i, w)
           nt2 == Popped(net, e)
<1>1. NInv(chan, net, opens) /\ net \in [Ends -> Seq(Packet)]
  BY DEF IInv, NInv, Typed
<1>2. /\ NInv(chan, nt2, opens)
      /\ Answerable(chan, nt2, e, net[e][1].gen, net[e][1].sid)
      /\ Absent(chan, e, net[e][1].gen)
  BY <1>1, HeadOffer
<1>3. net' = [net EXCEPT ![e] = Tail(@), ![Peer(e)] = Append(@, m)]
  BY DEF Word
<1>4. w \in Note /\ w.kind = "OPEN_FAILURE"
  BY WordFacts DEF Kinds
<1> HIDE DEF w, nt2
<1>5. m \in Packet /\ m.kind = "OPEN_FAILURE" /\ m.gen = c.gen /\ m.to = c.rid
  BY <1>4, MessageFacts
<1> HIDE DEF m
<1>6. net' = Told(nt2, Peer(e), m)
  BY <1>1, <1>3, ToldPopped DEF nt2
<1>7. Answerable(chan, nt2, e, m.gen, m.to) /\ Absent(chan, e, m.gen)
  BY <1>2, <1>5
<1>8. NInv(chan, Told(nt2, Peer(e), m), opens)
  BY <1>2, <1>5, <1>7, RefuseKeeps DEF Told
<1> QED BY <1>6, <1>8 DEF IInv

\* An offer is accepted at once or after a connect().
LEMMA AcceptEither ==
  ASSUME NEW ch, NEW nt, NEW op, NEW e \in Ends, NEW i \in Ids, NEW c \in Channel, NEW m \in Packet,
         NInv(ch, nt, op), Answerable(ch, nt, e, c.gen, c.rid), ch[e][i] = Free, Absent(ch, e, c.gen),
         Shape(e, c), c.type \in {"CONNECTING", "LARVAL", "OPEN"}, ~c.EOF_RCVD, ~c.CLOSE_RCVD,
         m.kind = "CONFIRM", m.to = c.rid, m.gen = c.gen, m.sid = i
  PROVE  /\ c.type = "CONNECTING" => NInv(Held(ch, e, i, c), nt, op)
         /\ c.type # "CONNECTING" => NInv(Held(ch, e, i, c), Told(nt, Peer(e), m), op)
<1>1. LET ch2 == [ch EXCEPT ![e][i] = c]
          nt2 == IF c.type = "CONNECTING" THEN nt ELSE [nt EXCEPT ![Peer(e)] = Append(@, m)]
      IN  NInv(ch2, nt2, op)
  BY AcceptKeeps
<1> QED BY <1>1 DEF Held, Told

\* The acceptor starts to connect, and says nothing yet.
LEMMA AwaitKeeps ==
  ASSUME NEW ch, NEW nt, NEW op, NEW e \in Ends, NEW i \in Ids, NEW c \in Channel,
         NInv(ch, nt, op), Answerable(ch, nt, e, c.gen, c.rid),
         ch[e][i] = Free, Absent(ch, e, c.gen), Shape(e, c), c.type = "CONNECTING",
         ~c.EOF_RCVD, ~c.CLOSE_RCVD
  PROVE  NInv(Held(ch, e, i, c), nt, op)
<1> DEFINE w == Word("CONFIRM")
           a == Message(c, i, w)
<1>1. w \in Note /\ w.kind = "CONFIRM"
  BY WordFacts DEF Kinds
<1> HIDE DEF w
<1>2. a \in Packet /\ a.kind = "CONFIRM" /\ a.gen = c.gen /\ a.to = c.rid /\ a.sid = i
  BY <1>1, MessageFacts
<1> HIDE DEF a
<1> QED BY <1>2, AcceptEither

\* The acceptor takes the offer.
LEMMA ConfirmsKeeps ==
  ASSUME NEW ch, NEW nt, NEW op, NEW e \in Ends, NEW i \in Ids, NEW c \in Channel,
         NInv(ch, nt, op), Answerable(ch, nt, e, c.gen, c.rid),
         ch[e][i] = Free, Absent(ch, e, c.gen), Shape(e, c), c.type = "LARVAL",
         ~c.EOF_RCVD, ~c.CLOSE_RCVD
  PROVE  NInv(Held(ch, e, i, c), Sent(nt, Peer(e), i, Res(c, <<Word("CONFIRM")>>)), op)
<1> DEFINE w == Word("CONFIRM")
           a == Message(c, i, w)
<1>1. w \in Note /\ w.kind = "CONFIRM"
  BY WordFacts DEF Kinds
<1>0. nt \in [Ends -> Seq(Packet)] /\ Peer(e) \in Ends
  BY PeerFacts DEF NInv, Typed
<1> HIDE DEF w
<1>2. a \in Packet /\ a.kind = "CONFIRM" /\ a.gen = c.gen /\ a.to = c.rid /\ a.sid = i
  BY <1>1, MessageFacts
<1>3. Sent(nt, Peer(e), i, Res(c, <<w>>)) = Told(nt, Peer(e), a)
  BY <1>0, <1>1, SaidOne
<1> HIDE DEF a
<1>4. NInv(Held(ch, e, i, c), Told(nt, Peer(e), a), op)
  BY <1>2, AcceptEither
<1> QED BY <1>3, <1>4 DEF w

\* server_request_direct_tcpip, and its like in the client.
LEMMA InputOpenTcpInv ==
  ASSUME IInv, NEW e \in Ends, NEW accept \in BOOLEAN, InputOpenTcp(e, accept)
  PROVE  IInv'
<1> DEFINE m == net[e][1]
           i == LowestFree(e)
           c == NewChannel("CONNECTING", "tcp", m.sid, m.gen)
           nt2 == Popped(net, e)
<1>1. Incoming(e, "OPEN_tcp") /\ FreeIds(e) # {} /\ UNCHANGED <<sess, opens, notices, hist, over>>
  BY DEF InputOpenTcp
<1>2. /\ net[e] # <<>> /\ Head(net[e]) = m /\ m.kind = "OPEN_tcp" /\ NInv(chan, net, opens)
      /\ over = "no"
  BY <1>1, IncomingFacts
<1>3. IF accept THEN Answer(e, i, On(c))
      ELSE /\ net' = [net EXCEPT ![e] = Tail(@),
                        ![Peer(e)] = Append(@, Message(c, i, [kind |-> "OPEN_FAILURE", n |-> 0]))]
           /\ UNCHANGED chan
  BY <1>2 DEF InputOpenTcp
<1>4. /\ SInv(chan, sess, hist) /\ net \in [Ends -> Seq(Packet)]
      /\ chan \in [Ends -> [Ids -> Channel \cup {Free}]]
  BY DEF IInv, NInv, Typed
<1>5. Offer(m)
  BY <1>2 DEF Offer
<1>6. /\ NInv(chan, nt2, opens) /\ Answerable(chan, nt2, e, m.gen, m.sid)
      /\ Absent(chan, e, m.gen) /\ m.sid \in Ids /\ m.gen \in Nat
  BY <1>2, <1>5, HeadOffer
<1>7. i \in Ids /\ chan[e][i] = Free
  BY <1>1, LowestFacts
<1> HIDE DEF i
<1>8. /\ c \in Channel /\ c.type = "CONNECTING" /\ c.ctype = "tcp" /\ c.rid = m.sid /\ c.gen = m.gen
      /\ c.istate = "OPEN" /\ c.ostate = "OPEN" /\ ~c.EOF_SENT /\ ~c.EOF_RCVD
      /\ ~c.CLOSE_SENT /\ ~c.CLOSE_RCVD /\ ~c.user
  <2>1. "CONNECTING" \in Types /\ m.sid \in Ids \cup {-1}
    BY <1>6 DEF Types
  <2> QED BY <2>1, <1>6, NewFacts
<1> HIDE DEF c
<1>9. CASE accept
  <2> HIDE DEF nt2
  <2>3. Shape(e, c)
    BY <1>6, <1>8 DEF Shape
  <2>4. NInv(Held(chan, e, i, c), nt2, opens)
    <3>1. Answerable(chan, nt2, e, c.gen, c.rid) /\ chan[e][i] = Free /\ Absent(chan, e, c.gen)
      BY <1>6, <1>7, <1>8
    <3> QED BY <3>1, <2>3, <1>6, <1>7, <1>8, AwaitKeeps
  <2>5. chan' = Held(chan, e, i, c) /\ net' = nt2
    <3> DEFINE r == Res(c, <<>>)
    <3>1. r.c = c /\ r.out = <<>> /\ On(c) = r
      BY ResFacts
    <3>2. Answer(e, i, r)
      BY <1>3, <1>9, <3>1
    <3>3. chan' = Held(chan, e, i, c) /\ net' = Sent(Popped(net, e), Peer(e), i, r)
      BY <3>2, <1>4, <1>7, AnswerFacts
    <3> HIDE DEF r
    <3>4. Popped(net, e) \in [Ends -> Seq(Packet)] /\ Peer(e) \in Ends /\ r.c \in Channel
      BY <3>1, <1>6, <1>8, PeerFacts DEF nt2, NInv, Typed
    <3>5. Sent(Popped(net, e), Peer(e), i, r) = Popped(net, e)
      BY <3>1, <3>4, <1>7, OutgoingFacts
    <3> QED BY <3>3, <3>5 DEF nt2
  <2>6. SInv(Held(chan, e, i, c), sess, hist)
    BY <1>4, <1>7, <1>8, SessionOther
  <2> QED BY <2>4, <2>5, <2>6, <1>1 DEF IInv
<1>10. CASE ~accept
  BY <1>1, <1>2, <1>3, <1>5, <1>7, <1>8, <1>10, RefuseInv
<1> QED BY <1>9, <1>10

\* server_request_session(): a free slot takes a session channel, a free
\* session the slot.
Taken(se, s, i) == [se EXCEPT ![s].chanid = i]

\* A session is attached to its new channel.
LEMMA SessionNew ==
  ASSUME NEW ch \in [Ends -> [Ids -> Channel \cup {Free}]], NEW se, NEW hi, NEW i \in Ids,
         NEW x \in Channel, NEW s \in Sids, SInv(ch, se, hi),
         ch["S"][i] = Free, x.ctype = "session", se[s] = NoSession
  PROVE  SInv(Held(ch, "S", i, x), Taken(se, s, i), hi)
<1> DEFINE ch2 == Held(ch, "S", i, x)
           se2 == Taken(se, s, i)
           a == ch["S"]
           b == ch2["S"]
<1>1. /\ se \in [Sids -> Session] /\ hi \in [Ends -> [Gens -> Log]]
      /\ \A t \in Sids : se[t].chanid = -1 => se[t].pid = "none"
      /\ \A t \in Sids : se[t].chanid # -1 => a[se[t].chanid] # Free /\ a[se[t].chanid].ctype = "session"
      /\ \A t, u \in Sids : se[t].chanid = se[u].chanid /\ se[t].chanid # -1 => t = u
      /\ \A j \in Ids : a[j] # Free /\ a[j].ctype = "session" => \E t \in Sids : se[t].chanid = j
      /\ \A t \in Sids : se[t].pid # "none" =>
           a[se[t].chanid].type = "OPEN" /\ ~a[se[t].chanid].detach_close /\ ~a[se[t].chanid].CLOSE_SENT
      /\ \A g \in Gens : hi["S"][g].child = "started" =>
           \E t \in Sids : se[t].chanid # -1 /\ se[t].pid # "none" /\ a[se[t].chanid].gen = g
  BY DEF SInv
<1>2. a[i] = Free /\ b[i] = x /\ \A j \in Ids : j # i => b[j] = a[j]
  <2>1. Put(ch, ch2, "S", i, x)
    BY PutFacts DEF Held, Ends
  <2> HIDE DEF ch2
  <2> QED BY <2>1 DEF Put, Ends
<1>3. x # Free /\ i # -1
  BY UsedFacts, ChannelsAssumption
<1>4. se[s].chanid = -1 /\ se[s].pid = "none"
  BY DEF NoSession
<1>5. /\ se2 \in [Sids -> Session] /\ se2[s].chanid = i /\ se2[s].pid = "none"
      /\ \A t \in Sids : t # s => se2[t] = se[t]
  BY <1>1, <1>4 DEF Taken, Session
<1> HIDE DEF a, b, ch2, se2
<1>6. \A t \in Sids : t # s /\ se2[t].chanid # -1 =>
        se2[t] = se[t] /\ se[t].chanid \in Ids /\ se[t].chanid # i
  BY <1>1, <1>2, <1>5 DEF Session
<1>7. \A t \in Sids : se2[t].chanid = -1 => se2[t].pid = "none"
  BY <1>1, <1>5
<1>8. \A t \in Sids : se2[t].chanid # -1 => b[se2[t].chanid] # Free /\ b[se2[t].chanid].ctype = "session"
  <2> SUFFICES ASSUME NEW t \in Sids, se2[t].chanid # -1
               PROVE  b[se2[t].chanid] # Free /\ b[se2[t].chanid].ctype = "session"
    OBVIOUS
  <2>1. CASE t = s
    BY <2>1, <1>2, <1>3, <1>5
  <2>2. CASE t # s
    BY <2>2, <1>1, <1>2, <1>6
  <2> QED BY <2>1, <2>2
<1>9. \A t, u \in Sids : se2[t].chanid = se2[u].chanid /\ se2[t].chanid # -1 => t = u
  BY <1>1, <1>5, <1>6
<1>10. \A j \in Ids : b[j] # Free /\ b[j].ctype = "session" => \E t \in Sids : se2[t].chanid = j
  <2> SUFFICES ASSUME NEW j \in Ids, b[j] # Free, b[j].ctype = "session"
               PROVE  \E t \in Sids : se2[t].chanid = j
    OBVIOUS
  <2>1. CASE j = i
    BY <2>1, <1>5
  <2>2. CASE j # i
    <3>1. PICK t \in Sids : se[t].chanid = j
      BY <2>2, <1>1, <1>2
    <3>2. t # s
      BY <3>1, <1>4, ChannelsAssumption
    <3> QED BY <3>1, <3>2, <1>5
  <2> QED BY <2>1, <2>2
<1>11. \A t \in Sids : se2[t].pid # "none" => t # s /\ se2[t] = se[t] /\ b[se[t].chanid] = a[se[t].chanid]
                                            /\ se[t].chanid # -1
  BY <1>1, <1>2, <1>5, <1>6
<1>12. \A t \in Sids : se2[t].pid # "none" =>
         b[se2[t].chanid].type = "OPEN" /\ ~b[se2[t].chanid].detach_close /\ ~b[se2[t].chanid].CLOSE_SENT
  BY <1>1, <1>11
<1>13. \A g \in Gens : hi["S"][g].child = "started" =>
         \E t \in Sids : se2[t].chanid # -1 /\ se2[t].pid # "none" /\ b[se2[t].chanid].gen = g
  <2> SUFFICES ASSUME NEW g \in Gens, hi["S"][g].child = "started"
               PROVE  \E t \in Sids : se2[t].chanid # -1 /\ se2[t].pid # "none" /\ b[se2[t].chanid].gen = g
    OBVIOUS
  <2>1. PICK t \in Sids : se[t].chanid # -1 /\ se[t].pid # "none" /\ a[se[t].chanid].gen = g
    BY <1>1
  <2>2. se2[t] = se[t]
    BY <2>1, <1>4, <1>5
  <2> QED BY <2>1, <2>2, <1>11
<1>14. SInv(ch2, se2, hi)
  BY <1>1, <1>5, <1>7, <1>8, <1>9, <1>10, <1>12, <1>13 DEF SInv, b
<1> QED BY <1>14 DEF ch2, se2

\* server_input_channel_open, a session.
LEMMA InputOpenSessionInv ==
  ASSUME IInv, InputOpenSession
  PROVE  IInv'
<1> DEFINE m == net["S"][1]
           i == LowestFree("S")
           n == NewChannel("LARVAL", "session", m.sid, m.gen)
           c == [n EXCEPT !.user = TRUE]
           nt2 == Popped(net, "S")
           q == <<Word("CONFIRM")>>
<1>0. "S" \in Ends /\ Peer("S") = "C"
  BY DEF Ends, Peer
<1>1. Incoming("S", "OPEN_session") /\ FreeIds("S") # {} /\ UNCHANGED <<opens, notices, hist, over>>
  BY DEF InputOpenSession
<1>2. /\ net["S"] # <<>> /\ Head(net["S"]) = m /\ m.kind = "OPEN_session" /\ NInv(chan, net, opens)
      /\ over = "no"
  BY <1>0, <1>1, IncomingFacts
<1>3. IF FreeSids # {}
      THEN /\ Answer("S", i, Send(On(c), "CONFIRM"))
           /\ \E s \in FreeSids : sess' = [sess EXCEPT ![s].chanid = i]
      ELSE /\ net' = [net EXCEPT !["S"] = Tail(@),
                        !["C"] = Append(@, Message(c, i, [kind |-> "OPEN_FAILURE", n |-> 0]))]
           /\ UNCHANGED <<chan, sess>>
  BY <1>2 DEF InputOpenSession
<1>4. /\ SInv(chan, sess, hist) /\ net \in [Ends -> Seq(Packet)]
      /\ chan \in [Ends -> [Ids -> Channel \cup {Free}]]
  BY DEF IInv, NInv, Typed
<1>5. Offer(m)
  BY <1>2 DEF Offer
<1>6. /\ NInv(chan, nt2, opens) /\ Answerable(chan, nt2, "S", m.gen, m.sid)
      /\ Absent(chan, "S", m.gen) /\ m.sid \in Ids /\ m.gen \in Nat
  BY <1>0, <1>2, <1>5, HeadOffer
<1>7. i \in Ids /\ chan["S"][i] = Free
  BY <1>1, LowestFacts
<1> HIDE DEF i
<1>8. /\ n \in Channel /\ n.type = "LARVAL" /\ n.ctype = "session" /\ n.rid = m.sid /\ n.gen = m.gen
      /\ n.istate = "OPEN" /\ n.ostate = "OPEN" /\ ~n.EOF_SENT /\ ~n.EOF_RCVD
      /\ ~n.CLOSE_SENT /\ ~n.CLOSE_RCVD /\ ~n.detach_close
  <2>1. "LARVAL" \in Types /\ m.sid \in Ids \cup {-1}
    BY <1>6 DEF Types
  <2> QED BY <2>1, <1>6, NewFacts
<1> HIDE DEF n
<1>9. /\ c \in Channel /\ c.type = "LARVAL" /\ c.ctype = "session" /\ c.rid = m.sid /\ c.gen = m.gen
      /\ c.istate = "OPEN" /\ c.ostate = "OPEN" /\ ~c.EOF_SENT /\ ~c.EOF_RCVD
      /\ ~c.CLOSE_SENT /\ ~c.CLOSE_RCVD /\ c.user /\ ~c.detach_close
  BY <1>8 DEF Channel
<1> HIDE DEF c
<1>10. CASE FreeSids # {}
  <2>1. Shape("S", c)
    BY <1>6, <1>9 DEF Shape
  <2>2. Answer("S", i, Res(c, q))
    <3>1. Send(On(c), "CONFIRM") = Res(c, q)
      BY WordFacts
    <3> QED BY <3>1, <1>3, <1>10
  <2>3. chan' = Held(chan, "S", i, c) /\ net' = Sent(nt2, Peer("S"), i, Res(c, q))
    BY <2>2, <1>0, <1>4, <1>7, AnswerFacts
  <2>4. NInv(chan', net', opens)
    <3> HIDE DEF nt2
    <3>1. Answerable(chan, nt2, "S", c.gen, c.rid) /\ Absent(chan, "S", c.gen)
      BY <1>6, <1>9
    <3>2. NInv(Held(chan, "S", i, c), Sent(nt2, Peer("S"), i, Res(c, <<Word("CONFIRM")>>)), opens)
      BY <3>1, <2>1, <1>0, <1>6, <1>7, <1>9, ConfirmsKeeps
    <3> QED BY <3>2, <2>3
  <2>5. PICK s \in FreeSids : sess' = [sess EXCEPT ![s].chanid = i]
    BY <1>3, <1>10
  <2>6. s \in Sids /\ sess[s] = NoSession
    BY DEF FreeSids
  <2>7. SInv(Held(chan, "S", i, c), Taken(sess, s, i), hist)
    BY <2>6, <1>4, <1>7, <1>9, SessionNew
  <2>8. SInv(chan', sess', hist')
    BY <2>3, <2>5, <2>7, <1>1 DEF Taken
  <2> QED BY <2>4, <2>8, <1>1 DEF IInv
<1>11. CASE FreeSids = {}
  BY <1>0, <1>1, <1>2, <1>3, <1>5, <1>7, <1>9, <1>11, RefuseInv
<1> QED BY <1>10, <1>11

\* channel_input_open_failure.
LEMMA InputOpenFailureInv ==
  ASSUME IInv, NEW e \in Ends, InputOpenFailure(e)
  PROVE  IInv'
<1> DEFINE m == net[e][1]
           i == m.to
           c == chan[e][i]
           z == [c EXCEPT !.type = "ZOMBIE"]
           nt2 == Popped(net, e)
           p == Peer(e)
<1>1. Incoming(e, "OPEN_FAILURE") /\ UNCHANGED <<sess, opens, notices, hist>>
  BY DEF InputOpenFailure
<1>2. /\ net[e] # <<>> /\ Head(net[e]) = m /\ m.kind = "OPEN_FAILURE" /\ NInv(chan, net, opens)
      /\ over = "no"
  BY <1>1, IncomingFacts
<1>3. /\ Found(e) /\ Delivers(chan, e, m) /\ i \in Ids /\ c \in Channel /\ c # Free /\ Shape(e, c)
      /\ c.gen = m.gen
  BY <1>1, OwnFacts
<1>4. c.type = "OPENING"
  BY <1>2, <1>3 DEF Delivers, Reply
<1>5. Answer(e, i, On(z)) /\ over' = over
  BY <1>2, <1>3, <1>4 DEF InputOpenFailure
<1>6. /\ SInv(chan, sess, hist) /\ net \in [Ends -> Seq(Packet)]
      /\ chan \in [Ends -> [Ids -> Channel \cup {Free}]]
  BY SMTT(30) DEF IInv, NInv, Typed
<1>7. z \in Channel /\ z.ctype = c.ctype
  BY Zenon, <1>3 DEF Channel, Types
<1>8. NInv(chan, nt2, opens)
  BY <1>2, PopKeeps DEF Popped
<1>9. /\ 1 \in DOMAIN net[e] /\ nt2[p] = net[p]
      /\ \A k \in DOMAIN nt2[e] : \E l \in DOMAIN net[e] : l # 1 /\ nt2[e][k] = net[e][l]
  <2>1. /\ 1 \in DOMAIN net[e] /\ Shrunk(net[e], nt2[e])
        /\ \A f \in Ends : f # e => nt2[f] = net[f]
    BY ZenonT(30), <1>2, <1>6, PopFacts DEF Popped
  <2> HIDE DEF nt2
  <2> QED BY <2>1, PeerFacts DEF Shrunk
<1>10. chan' = Held(chan, e, i, z) /\ net' = nt2
  <2> HIDE DEF z
  <2>1. On(z) = Res(z, <<>>)
    BY ResFacts
  <2>2. Answer(e, i, Res(z, <<>>))
    BY <1>5, <2>1
  <2>3. chan' = Held(chan, e, i, z) /\ net' = Sent(nt2, p, i, Res(z, <<>>))
    BY <2>2, <1>3, <1>6, AnswerFacts
  <2>4. nt2 \in [Ends -> Seq(Packet)] /\ p \in Ends
    BY <1>8, PeerFacts DEF NInv, Typed
  <2> HIDE DEF nt2
  <2>5. Sent(nt2, p, i, Res(z, <<>>)) = nt2
    BY <2>4, <1>3, <1>7, SaidNone
  <2> QED BY <2>3, <2>5
<1> HIDE DEF nt2
<1>11. Absent(chan, p, c.gen) /\ Alone(net, e, 1)
  <2>1. Refused(chan, net)
    BY <1>2 DEF NInv
  <2> QED BY <2>1, <1>2, <1>3, <1>9 DEF Refused
<1>12. Quiet(nt2, e, c.gen)
  BY <1>3, <1>9, <1>11 DEF Quiet, Alone
<1>13. Quiet(nt2, p, c.gen)
  <2>1. p \in Ends /\ Peer(p) = e
    BY PeerFacts
  <2>2. Silent(chan, net, p, c.gen)
    <3>1. Opening(chan, net)
      BY <1>2 DEF NInv
    <3> QED BY <3>1, <1>3, <1>4 DEF Opening
  <2>3. ASSUME NEW k \in DOMAIN net[p], net[p][k].gen = c.gen, Offer(net[p][k]) PROVE FALSE
    <3>1. Offered(chan, net)
      BY <1>2 DEF NInv
    <3>2. Quiet(net, Peer(p), net[p][k].gen)
      BY <3>1, <2>1, <2>3 DEF Offered
    <3>3. Quiet(net, e, m.gen)
      BY <3>2, <2>1, <2>3, <1>3
    <3> QED BY <3>3, <1>2, <1>9 DEF Quiet, Noise
  <2>4. Quiet(net, p, c.gen)
    BY <2>2, <2>3 DEF Silent, Quiet
  <2> QED BY <2>4, <1>9 DEF Quiet
<1>14. NInv(Held(chan, e, i, z), nt2, opens)
  <2>1. NInv([chan EXCEPT ![e][i] = [chan[e][i] EXCEPT !.type = "ZOMBIE"]], nt2, opens)
    BY Zenon, <1>3, <1>4, <1>8, <1>11, <1>12, <1>13, ZombieKeeps
  <2> QED BY SMTT(30), <2>1 DEF Held
<1>15. SInv(Held(chan, e, i, z), sess, hist)
  <2>1. e = "S" => c.ctype # "session"
    BY <1>3, <1>4 DEF Shape
  <2> HIDE DEF z
  <2> QED BY <2>1, <1>3, <1>6, <1>7, SessionOther
<1> QED BY <1>1, <1>2, <1>5, <1>10, <1>14, <1>15 DEF IInv

\* The opener takes the acceptor's id.
Granted(c, j, w) == [c EXCEPT !.type = "OPEN", !.rid = j, !.rwin = w]
\* ... and a channel that asked for a reply.
Asking(c) == [c EXCEPT !.confirm = TRUE]

\* What CONFIRM makes of a channel.
LEMMA GrantFacts ==
  ASSUME NEW c \in Channel, NEW j \in Ids, NEW w \in BOOLEAN
  PROVE  LET y == Granted(c, j, w) IN
         /\ y \in Channel /\ y.type = "OPEN" /\ y.rid = j /\ y.gen = c.gen /\ y.ctype = c.ctype
         /\ y.istate = c.istate /\ y.ostate = c.ostate
         /\ y.EOF_SENT = c.EOF_SENT /\ y.EOF_RCVD = c.EOF_RCVD
         /\ y.CLOSE_SENT = c.CLOSE_SENT /\ y.CLOSE_RCVD = c.CLOSE_RCVD
         /\ y.user = c.user /\ y.detach_close = c.detach_close
BY DEF Granted, Channel, Types

\* Waiting for a reply changes nothing else.
LEMMA AskFacts ==
  ASSUME NEW c \in Channel
  PROVE  LET y == Asking(c) IN
         /\ y \in Channel /\ y.type = c.type /\ y.rid = c.rid /\ y.gen = c.gen /\ y.ctype = c.ctype
         /\ y.istate = c.istate /\ y.ostate = c.ostate
         /\ y.EOF_SENT = c.EOF_SENT /\ y.EOF_RCVD = c.EOF_RCVD
         /\ y.CLOSE_SENT = c.CLOSE_SENT /\ y.CLOSE_RCVD = c.CLOSE_RCVD
         /\ y.user = c.user /\ y.detach_close = c.detach_close
BY DEF Asking, Channel

\* The CONFIRM at the head opens the channel, which may speak at once.
LEMMA OpenedKeeps ==
  ASSUME NEW ch, NEW nt, NEW op, NEW e \in Ends, NEW i \in Ids, NEW c \in Channel,
         NInv(ch, nt, op), MayConfirm(ch, nt, e, i, c)
  PROVE  /\ NInv(Held(ch, e, i, c), Popped(nt, e), op)
         /\ NInv(Held(ch, e, i, c), Sent(Popped(nt, e), Peer(e), i, Res(c, <<Word("EXEC")>>)), op)
<1> DEFINE ch2 == Held(ch, e, i, c)
           nt2 == Popped(nt, e)
           w == Word("EXEC")
           m == Message(c, i, w)
<1>1. NInv(ch2, nt2, op) /\ ch2[e][i] = c /\ Reaches(ch2, nt2, e, c)
  <2>1. LET ch3 == [ch EXCEPT ![e][i] = c]
            nt3 == [nt EXCEPT ![e] = Tail(@)]
        IN  NInv(ch3, nt3, op) /\ ch3[e][i] = c /\ Reaches(ch3, nt3, e, c)
    BY ConfirmKeeps
  <2> QED BY <2>1 DEF Held, Popped
<1>2. w \in Note /\ w.kind = "EXEC"
  BY WordFacts DEF Kinds
<1> HIDE DEF ch2, nt2, w
<1>3. m \in Packet /\ m.kind = "EXEC" /\ m.gen = c.gen /\ m.to = c.rid
  BY <1>2, MessageFacts
<1>4. Sent(nt2, Peer(e), i, Res(c, <<w>>)) = Told(nt2, Peer(e), m)
  <2>1. Peer(e) \in Ends /\ nt2 \in [Ends -> Seq(Packet)]
    BY <1>1, PeerFacts DEF NInv, Typed
  <2> QED BY <2>1, <1>2, SaidOne
<1> HIDE DEF m
<1>5. MaySay(ch2, nt2, e, i, m)
  <2>1. ~Noise(Peer(e), m) /\ ~Offer(m) /\ ~Reply(m) /\ ~Bytes(m) /\ m.kind \notin {"CLOSE", "EOF"}
    BY <1>3 DEF Noise, Offer, Reply, Bytes
  <2>2. c # Free
    BY UsedFacts
  <2> QED BY <2>1, <2>2, <1>1, <1>3 DEF MaySay, MayConfirm
<1>6. NInv(ch2, Told(nt2, Peer(e), m), op)
  BY <1>1, <1>5, PushKeeps DEF Told
<1> QED BY <1>1, <1>4, <1>6 DEF ch2, nt2, w

\* channel_input_open_confirmation.
LEMMA InputOpenConfirmationInv ==
  ASSUME IInv, NEW e \in Ends, InputOpenConfirmation(e)
  PROVE  IInv'
<1> DEFINE m == net[e][1]
           i == m.to
           c == chan[e][i]
           w == c.ctype = "tcp"
           y == Granted(c, m.sid, w)
           z == Asking(y)
           nt2 == Popped(net, e)
           q == <<Word("EXEC")>>
<1>1. Incoming(e, "CONFIRM") /\ UNCHANGED <<sess, opens, notices, hist>>
  BY DEF InputOpenConfirmation
<1>2. /\ net[e] # <<>> /\ Head(net[e]) = m /\ m.kind = "CONFIRM" /\ NInv(chan, net, opens)
      /\ over = "no" /\ m \in Packet
  BY <1>1, IncomingFacts
<1>3. /\ Found(e) /\ Delivers(chan, e, m) /\ i \in Ids /\ c \in Channel /\ c # Free /\ Shape(e, c)
      /\ c.gen = m.gen
  BY <1>1, OwnFacts
<1>4. c.type = "OPENING"
  BY SMTT(30), <1>2, <1>3 DEF Delivers, Reply
<1>5. /\ Answer(e, i, IF c.ctype = "session" THEN Send(On(z), "EXEC") ELSE On(y))
      /\ over' = over
  BY Zenon, <1>2, <1>3, <1>4 DEF InputOpenConfirmation, Granted, Asking
<1>6. /\ SInv(chan, sess, hist) /\ net \in [Ends -> Seq(Packet)] /\ m.sid \in Ids
      /\ chan \in [Ends -> [Ids -> Channel \cup {Free}]]
  BY Zenon, <1>2 DEF IInv, NInv, Typed, Packet
<1>7. PICK v \in BOOLEAN : v = w
  BY Zenon
<1>8. y = Granted(c, m.sid, v)
  BY <1>7, Zenon
<1> HIDE DEF w, y
<1>9. /\ y \in Channel /\ y.type = "OPEN" /\ y.rid = m.sid /\ y.gen = c.gen /\ y.ctype = c.ctype
      /\ y.istate = c.istate /\ y.ostate = c.ostate
      /\ y.EOF_SENT = c.EOF_SENT /\ y.EOF_RCVD = c.EOF_RCVD
      /\ y.CLOSE_SENT = c.CLOSE_SENT /\ y.CLOSE_RCVD = c.CLOSE_RCVD
      /\ y.user = c.user /\ y.detach_close = c.detach_close
  BY SMTT(30), <1>3, <1>6, <1>8, GrantFacts
<1>10. /\ z \in Channel /\ z.type = y.type /\ z.rid = y.rid /\ z.gen = y.gen /\ z.ctype = y.ctype
       /\ z.istate = y.istate /\ z.ostate = y.ostate
       /\ z.EOF_SENT = y.EOF_SENT /\ z.EOF_RCVD = y.EOF_RCVD
       /\ z.CLOSE_SENT = y.CLOSE_SENT /\ z.CLOSE_RCVD = y.CLOSE_RCVD
       /\ z.user = y.user /\ z.detach_close = y.detach_close
  BY <1>9, AskFacts
<1> HIDE DEF z
<1>11. Shape(e, y)
  BY ZenonT(30), <1>3, <1>4, <1>6, <1>9 DEF Shape, BothClosed
<1>12. Shape(e, z)
  BY ZenonT(30), <1>9, <1>10, <1>11 DEF Shape, BothClosed
<1>13. MayConfirm(chan, net, e, i, y)
  BY <1>2, <1>9, <1>11 DEF MayConfirm
<1>14. MayConfirm(chan, net, e, i, z)
  BY <1>2, <1>9, <1>10, <1>12 DEF MayConfirm
<1>15. ASSUME NEW x, x \in {y, z}
       PROVE  SInv(Held(chan, e, i, x), sess, hist)
  <2>1. x \in Channel /\ x.ctype = c.ctype
    BY SMTT(30), <1>9, <1>10, <1>15
  <2>2. e = "S" => c.ctype # "session"
    BY <1>3, <1>4 DEF Shape
  <2> QED BY <2>1, <2>2, <1>3, <1>6, SessionOther
<1>16. CASE c.ctype = "session"
  <2>1. Send(On(z), "EXEC") = Res(z, q)
    BY WordFacts
  <2>2. Answer(e, i, Res(z, q))
    BY <2>1, <1>5, <1>16
  <2>3. chan' = Held(chan, e, i, z) /\ net' = Sent(nt2, Peer(e), i, Res(z, q))
    BY <2>2, <1>3, <1>6, AnswerFacts
  <2>4. NInv(Held(chan, e, i, z), Sent(Popped(net, e), Peer(e), i, Res(z, <<Word("EXEC")>>)), opens)
    BY <1>2, <1>3, <1>10, <1>14, OpenedKeeps
  <2>5. SInv(Held(chan, e, i, z), sess, hist)
    BY <1>15
  <2> QED BY <2>3, <2>4, <2>5, <1>1, <1>2, <1>5 DEF IInv
<1>17. CASE c.ctype # "session"
  <2>1. On(y) = Res(y, <<>>)
    BY ResFacts
  <2>2. Answer(e, i, Res(y, <<>>))
    BY <2>1, <1>5, <1>17
  <2>3. chan' = Held(chan, e, i, y) /\ net' = Sent(nt2, Peer(e), i, Res(y, <<>>))
    BY SMTT(30), <2>2, <1>3, <1>6, AnswerFacts
  <2>4. NInv(Held(chan, e, i, y), nt2, opens)
    BY ZenonT(30), <1>2, <1>3, <1>9, <1>13, OpenedKeeps
  <2>5. nt2 \in [Ends -> Seq(Packet)] /\ Peer(e) \in Ends
    BY SMTT(30), <2>4, PeerFacts DEF NInv, Typed
  <2> HIDE DEF nt2
  <2>6. Sent(nt2, Peer(e), i, Res(y, <<>>)) = nt2
    BY <2>5, <1>3, <1>9, SaidNone
  <2>7. SInv(Held(chan, e, i, y), sess, hist)
    BY <1>15
  <2> QED BY <2>3, <2>4, <2>6, <2>7, <1>1, <1>2, <1>5 DEF IInv
<1> QED BY <1>16, <1>17

-----------------------------------------------------------------------------
(* The children of the sessions.                                           *)

\* Channel i of the server, its session and the record of its child change.
Tends(ch, ch2, se, se2, hi, hi2, i) ==
  /\ ch["S"][i] # Free /\ ch2["S"][i] # Free
  /\ ch2["S"][i].ctype = ch["S"][i].ctype /\ ch2["S"][i].gen = ch["S"][i].gen
  /\ \A j \in Ids : j # i => ch2["S"][j] = ch["S"][j]
  /\ se2 \in [Sids -> Session] /\ hi2 \in [Ends -> [Gens -> Log]]
  /\ \A t \in Sids : se2[t].chanid = se[t].chanid /\ (se[t].chanid # i => se2[t] = se[t])
  /\ \A t \in Sids : se[t].chanid = i /\ se2[t].pid # "none" =>
       ch2["S"][i].type = "OPEN" /\ ~ch2["S"][i].detach_close /\ ~ch2["S"][i].CLOSE_SENT
  /\ \A g \in Gens : g # ch["S"][i].gen /\ hi2["S"][g].child = "started" => hi["S"][g].child = "started"
  /\ \A g \in Gens : g = ch["S"][i].gen /\ hi2["S"][g].child = "started" =>
       \E t \in Sids : se[t].chanid = i /\ se2[t].pid # "none"

\* The session invariant, when one channel and its session change together.
LEMMA SessionTends ==
  ASSUME NEW ch, NEW ch2, NEW se, NEW se2, NEW hi, NEW hi2, NEW i \in Ids, SInv(ch, se, hi),
         Tends(ch, ch2, se, se2, hi, hi2, i)
  PROVE  SInv(ch2, se2, hi2)
<1> DEFINE a == ch["S"]
           b == ch2["S"]
<1>1. /\ se \in [Sids -> Session] /\ hi \in [Ends -> [Gens -> Log]]
      /\ \A t \in Sids : se[t].chanid = -1 => se[t].pid = "none"
      /\ \A t \in Sids : se[t].chanid # -1 => a[se[t].chanid] # Free /\ a[se[t].chanid].ctype = "session"
      /\ \A t, u \in Sids : se[t].chanid = se[u].chanid /\ se[t].chanid # -1 => t = u
      /\ \A j \in Ids : a[j] # Free /\ a[j].ctype = "session" => \E t \in Sids : se[t].chanid = j
      /\ \A t \in Sids : se[t].pid # "none" =>
           a[se[t].chanid].type = "OPEN" /\ ~a[se[t].chanid].detach_close /\ ~a[se[t].chanid].CLOSE_SENT
      /\ \A g \in Gens : hi["S"][g].child = "started" =>
           \E t \in Sids : se[t].chanid # -1 /\ se[t].pid # "none" /\ a[se[t].chanid].gen = g
  BY DEF SInv
<1>2. /\ a[i] # Free /\ b[i] # Free /\ b[i].ctype = a[i].ctype /\ b[i].gen = a[i].gen
      /\ \A j \in Ids : j # i => b[j] = a[j]
      /\ se2 \in [Sids -> Session] /\ hi2 \in [Ends -> [Gens -> Log]]
      /\ \A t \in Sids : se2[t].chanid = se[t].chanid /\ (se[t].chanid # i => se2[t] = se[t])
      /\ \A t \in Sids : se[t].chanid = i /\ se2[t].pid # "none" =>
           b[i].type = "OPEN" /\ ~b[i].detach_close /\ ~b[i].CLOSE_SENT
      /\ \A g \in Gens : g # a[i].gen /\ hi2["S"][g].child = "started" => hi["S"][g].child = "started"
      /\ \A g \in Gens : g = a[i].gen /\ hi2["S"][g].child = "started" =>
           \E t \in Sids : se[t].chanid = i /\ se2[t].pid # "none"
  BY DEF Tends
<1> HIDE DEF a, b
<1>3. i # -1
  BY ChannelsAssumption
<1>4. \A t \in Sids : se[t].chanid # -1 => se[t].chanid \in Ids
  BY <1>1 DEF Session
<1>5. \A t \in Sids : se2[t].chanid = -1 => se2[t].pid = "none"
  BY <1>1, <1>2, <1>3
<1>6. \A t \in Sids : se2[t].chanid # -1 => b[se2[t].chanid] # Free /\ b[se2[t].chanid].ctype = "session"
  BY <1>1, <1>2, <1>4
<1>7. \A t, u \in Sids : se2[t].chanid = se2[u].chanid /\ se2[t].chanid # -1 => t = u
  BY <1>1, <1>2
<1>8. \A j \in Ids : b[j] # Free /\ b[j].ctype = "session" => \E t \in Sids : se2[t].chanid = j
  BY SMTT(30), <1>1, <1>2
<1>9. \A t \in Sids : se2[t].pid # "none" =>
        b[se2[t].chanid].type = "OPEN" /\ ~b[se2[t].chanid].detach_close /\ ~b[se2[t].chanid].CLOSE_SENT
  <2> SUFFICES ASSUME NEW t \in Sids, se2[t].pid # "none"
               PROVE  b[se2[t].chanid].type = "OPEN" /\ ~b[se2[t].chanid].detach_close
                      /\ ~b[se2[t].chanid].CLOSE_SENT
    OBVIOUS
  <2>1. CASE se[t].chanid = i
    BY <2>1, <1>2
  <2>2. CASE se[t].chanid # i
    <3>1. se2[t] = se[t] /\ se[t].chanid \in Ids
      BY <2>2, <1>1, <1>2, <1>4
    <3>2. b[se[t].chanid] = a[se[t].chanid]
      BY <3>1, <2>2, <1>2
    <3> QED BY <3>1, <3>2, <1>1
  <2> QED BY <2>1, <2>2
<1>10. \A g \in Gens : hi2["S"][g].child = "started" =>
         \E t \in Sids : se2[t].chanid # -1 /\ se2[t].pid # "none" /\ b[se2[t].chanid].gen = g
  <2> SUFFICES ASSUME NEW g \in Gens, hi2["S"][g].child = "started"
               PROVE  \E t \in Sids : se2[t].chanid # -1 /\ se2[t].pid # "none" /\ b[se2[t].chanid].gen = g
    OBVIOUS
  <2>1. CASE g = a[i].gen
    <3>1. PICK t \in Sids : se[t].chanid = i /\ se2[t].pid # "none"
      BY <2>1, <1>2
    <3> QED BY <3>1, <2>1, <1>2, <1>3
  <2>2. CASE g # a[i].gen
    <3>1. PICK t \in Sids : se[t].chanid # -1 /\ se[t].pid # "none" /\ a[se[t].chanid].gen = g
      BY <2>2, <1>1, <1>2
    <3>2. se[t].chanid # i /\ se[t].chanid \in Ids
      BY <3>1, <2>2, <1>4
    <3>3. se2[t] = se[t] /\ b[se[t].chanid] = a[se[t].chanid]
      BY <3>2, <1>2
    <3> QED BY <3>1, <3>3
  <2> QED BY <2>1, <2>2
<1> QED BY <1>2, <1>5, <1>6, <1>7, <1>8, <1>9, <1>10 DEF SInv, b

\* The session of a live child has an open channel.
LEMMA ChildFacts ==
  ASSUME IInv, NEW s \in Sids, sess[s].pid # "none"
  PROVE  /\ sess[s].chanid \in Ids /\ chan["S"][sess[s].chanid] # Free
         /\ chan["S"][sess[s].chanid] \in Channel /\ Shape("S", chan["S"][sess[s].chanid])
         /\ chan["S"][sess[s].chanid].type = "OPEN" /\ chan["S"][sess[s].chanid].ctype = "session"
         /\ ~chan["S"][sess[s].chanid].detach_close /\ ~chan["S"][sess[s].chanid].CLOSE_SENT
         /\ chan["S"][sess[s].chanid].gen \in Gens
         /\ \A t \in Sids : sess[t].chanid = sess[s].chanid => t = s
<1> DEFINE i == sess[s].chanid
           c == chan["S"][i]
<1>1. SInv(chan, sess, hist) /\ NInv(chan, net, opens) /\ "S" \in Ends
  BY DEF IInv, Ends
<1>2. i # -1 /\ sess \in [Sids -> Session]
  BY <1>1 DEF SInv
<1>3. i \in Ids
  BY <1>2 DEF Session
<1>4. c # Free /\ c.ctype = "session" /\ c.type = "OPEN" /\ ~c.detach_close /\ ~c.CLOSE_SENT
  BY <1>1, <1>2 DEF SInv
<1>5. c \in Channel /\ Shape("S", c) /\ c.gen \in 1..opens
  BY <1>1, <1>3, <1>4 DEF NInv, Typed, Shaped
<1>6. c.gen \in Gens
  BY <1>5, ChannelsAssumption DEF Gens, IInv, NInv, Typed
<1>7. \A t \in Sids : sess[t].chanid = i => t = s
  BY <1>1, <1>2 DEF SInv
<1> QED BY <1>3, <1>4, <1>5, <1>6, <1>7

\* The child of a session dies.
LEMMA ChildExitInv ==
  ASSUME IInv, NEW s \in Sids, ChildExit(s)
  PROVE  IInv'
<1> DEFINE i == sess[s].chanid
           c == chan["S"][i]
<1>1. /\ sess[s].pid = "running" /\ sess' = [sess EXCEPT ![s].pid = "dead"]
      /\ UNCHANGED <<chan, net, opens, notices, hist, over>>
  BY DEF ChildExit
<1>2. /\ i \in Ids /\ c # Free /\ c.type = "OPEN" /\ ~c.detach_close /\ ~c.CLOSE_SENT
      /\ \A t \in Sids : sess[t].chanid = i => t = s
  BY <1>1, ChildFacts
<1>3. SInv(chan, sess, hist) /\ sess \in [Sids -> Session] /\ hist \in [Ends -> [Gens -> Log]]
  BY DEF IInv, SInv
<1>4. /\ sess' \in [Sids -> Session] /\ sess'[s].chanid = sess[s].chanid /\ sess'[s].pid = "dead"
      /\ \A t \in Sids : t # s => sess'[t] = sess[t]
  BY <1>1, <1>3 DEF Session
<1>5. \A t \in Sids : sess'[t].chanid = sess[t].chanid /\ (sess[t].chanid # i => sess'[t] = sess[t])
  BY <1>4
<1>6. Tends(chan, chan, sess, sess', hist, hist, i)
  BY <1>2, <1>3, <1>4, <1>5 DEF Tends
<1>7. SInv(chan, sess', hist)
  BY <1>2, <1>3, <1>6, SessionTends
<1> QED BY <1>1, <1>7 DEF IInv

\* The record of channel g at end e becomes l.
Noted(hi, e, g, l) == [hi EXCEPT ![e][g] = l]

\* Writing one entry of the history.
LEMMA NotedFacts ==
  ASSUME NEW hi \in [Ends -> [Gens -> Log]], NEW e \in Ends, NEW g \in Gens, NEW l \in Log
  PROVE  /\ Noted(hi, e, g, l) \in [Ends -> [Gens -> Log]]
         /\ Noted(hi, e, g, l)[e][g] = l
         /\ \A f \in Gens : f # g => Noted(hi, e, g, l)[e][f] = hi[e][f]
         /\ Noted(hi, e, g, l)[Peer(e)] = hi[Peer(e)]
BY PeerFacts DEF Noted

\* Noting that bytes were dropped at one end leaves the history of the other end alone.
LEMMA CutFacts ==
  ASSUME NEW hi \in [Ends -> [Gens -> Log]], NEW e \in Ends, NEW g \in Gens
  PROVE  LET h == [hi EXCEPT ![e][g].cut = TRUE] IN
         h \in [Ends -> [Gens -> Log]] /\ h[Peer(e)] = hi[Peer(e)]
<1> DEFINE a == hi[e][g]
           b == [a EXCEPT !.cut = TRUE]
<1>1. a \in Log
  OBVIOUS
<1>2. b \in Log
  BY <1>1 DEF Log
<1>3. [hi EXCEPT ![e][g].cut = TRUE] = Noted(hi, e, g, b)
  BY DEF Noted
<1> HIDE DEF b
<1>4. Noted(hi, e, g, b) \in [Ends -> [Gens -> Log]] /\ Noted(hi, e, g, b)[Peer(e)] = hi[Peer(e)]
  BY <1>2, NotedFacts
<1> QED BY <1>3, <1>4

\* The history once a child is started or reported.
Childed(hi, e, g, k) == [hi EXCEPT ![e][g].child = k]

\* Only that child changes.
LEMMA ChildLog ==
  ASSUME NEW hi \in [Ends -> [Gens -> Log]], NEW e \in Ends, NEW g \in Gens,
         NEW k \in {"none", "started", "reported"}
  PROVE  LET h == Childed(hi, e, g, k) IN
         /\ h \in [Ends -> [Gens -> Log]] /\ h[e][g].child = k
         /\ \A f \in Gens : f # g => h[e][f].child = hi[e][f].child
<1> DEFINE a == hi[e][g]
           b == [a EXCEPT !.child = k]
           h == Noted(hi, e, g, b)
<1>1. a \in Log
  OBVIOUS
<1>2. b \in Log /\ b.child = k
  BY <1>1 DEF Log
<1>3. Childed(hi, e, g, k) = h
  BY DEF Noted, Childed
<1> HIDE DEF b
<1>4. h \in [Ends -> [Gens -> Log]] /\ h[e][g] = b /\ \A f \in Gens : f # g => h[e][f] = hi[e][f]
  BY <1>2, NotedFacts
<1> HIDE DEF h
<1> QED BY <1>2, <1>3, <1>4

\* Releasing a session keeps its channel.
LEMMA ReleaseFacts ==
  ASSUME NEW c \in Channel, c.user
  PROVE  /\ Release(c) \in Channel /\ Release(c).type = c.type /\ Release(c).rid = c.rid
         /\ Release(c).gen = c.gen /\ Release(c).ctype = c.ctype
         /\ Release(c).istate = c.istate /\ Release(c).ostate = c.ostate
         /\ Release(c).EOF_SENT = c.EOF_SENT /\ Release(c).EOF_RCVD = c.EOF_RCVD
         /\ Release(c).CLOSE_SENT = c.CLOSE_SENT /\ Release(c).CLOSE_RCVD = c.CLOSE_RCVD
         /\ Release(c).user
BY ZenonT(30) DEF Release, Channel

\* session_close_by_pid.
LEMMA CollectChildInv ==
  ASSUME IInv, NEW s \in Sids, CollectChild(s)
  PROVE  IInv'
<1> DEFINE i == sess[s].chanid
           c == chan["S"][i]
           x == Release(c)
           w == Word("EXIT")
           ow == Word("EOW")
<1>0. "S" \in Ends /\ "C" \in Ends /\ Peer("S") = "C"
  BY DEF Ends, Peer
<1>1. /\ sess[s].pid = "dead" /\ sess' = [sess EXCEPT ![s].pid = "none"]
      /\ UNCHANGED <<opens, notices>> /\ over = "no"
  BY Zenon DEF CollectChild
<1>2. /\ i \in Ids /\ c # Free /\ c \in Channel /\ Shape("S", c) /\ c.type = "OPEN"
      /\ c.ctype = "session" /\ ~c.detach_close /\ ~c.CLOSE_SENT /\ c.gen \in Gens
      /\ \A t \in Sids : sess[t].chanid = i => t = s
  BY SMTT(30), <1>1, ChildFacts
<1>3. /\ Update("S", i, WriteFailed(Send(On(x), "EXIT")))
      /\ hist' = [CutStream("C", c.gen) EXCEPT !["S"][c.gen].child = "reported"]
      /\ over' = over
  BY Zenon, <1>2 DEF CollectChild
<1>4. /\ NInv(chan, net, opens) /\ SInv(chan, sess, hist) /\ sess \in [Sids -> Session]
      /\ hist \in [Ends -> [Gens -> Log]] /\ chan \in [Ends -> [Ids -> Channel \cup {Free}]]
  BY DEF IInv, SInv, NInv, Typed
<1>5. c.user
  BY SMTT(30), <1>2 DEF Shape
<1>6. /\ x \in Channel /\ x.type = c.type /\ x.rid = c.rid /\ x.gen = c.gen /\ x.ctype = c.ctype
      /\ x.istate = c.istate /\ x.ostate = c.ostate
      /\ x.EOF_SENT = c.EOF_SENT /\ x.EOF_RCVD = c.EOF_RCVD
      /\ x.CLOSE_SENT = c.CLOSE_SENT /\ x.CLOSE_RCVD = c.CLOSE_RCVD /\ x.user
  BY SMTT(30), <1>2, <1>5, ReleaseFacts
<1> HIDE DEF x
<1>7. MayTurn(chan, net, "S", i, x)
  <2>1. Shape("S", x)
    BY <1>2, <1>5, <1>6 DEF Shape, BothClosed
  <2>2. MayTurn(chan, net, "S", i, c)
    BY <1>0, <1>2, <1>4, StillKeeps
  <2> QED BY Zenon, <2>1, <2>2, <1>2, <1>6 DEF MayTurn
<1>8. Send(On(x), "EXIT") = Res(x, <<w>>)
  BY WordFacts
<1>9. PICK y, q : /\ WriteFailed(Res(x, <<w>>)) = Res(y, q) /\ Proceeds(x, y)
                  /\ q = <<w>> \/ (q = Append(<<w>>, Word("EOW")) /\ x.ostate # "CLOSED")
  <2> DEFINE o == <<w>>
  <2> HIDE DEF o
  <2>1. \E y, q : /\ WriteFailed(Res(x, o)) = Res(y, q) /\ Proceeds(x, y)
                  /\ q = o \/ (q = Append(o, Word("EOW")) /\ x.ostate # "CLOSED")
    BY <1>6, WriteFailedFacts
  <2> QED BY <2>1 DEF o
<1>10. MayTurn(chan, net, "S", i, y) /\ Keeps(x, y)
  BY <1>2, <1>6, <1>7, <1>9, ProceedsTurn
<1>11. Sayable("S", c, y, w) /\ w.kind = "EXIT" /\ Sayable("S", c, y, ow)
  BY <1>0, <1>2, SayableFacts
<1> HIDE DEF w
<1>12. q = <<w>> \/ q = <<w, ow>>
  BY <1>9, AppendOne
<1> HIDE DEF ow
<1>13. Talk("S", c, Res(y, q))
  <2>1. Res(y, q).c = y /\ Res(y, q).out = q
    BY ResFacts
  <2> DEFINE r == Res(y, q)
  <2> HIDE DEF r
  <2>2. r.c = y /\ r.out = q
    BY <2>1 DEF r
  <2>3. Talk("S", c, r)
    <3>1. CASE q = <<w>>
      BY <3>1, <2>2, <1>11 DEF Talk
    <3>2. CASE q = <<w, ow>>
      BY <3>2, <2>2, <1>11 DEF Talk
    <3> QED BY <3>1, <3>2, <1>12
  <2> QED BY <2>3 DEF r
<1>14. chan' = Held(chan, "S", i, y) /\ net' = Sent(net, Peer("S"), i, Res(y, q))
  <2>1. Update("S", i, Res(y, q))
    BY Zenon, <1>3, <1>8, <1>9 DEF w
  <2> QED BY <2>1, ResFacts DEF Update, Held, Sent
<1>15. NInv(chan', net', opens)
  BY <1>0, <1>2, <1>4, <1>10, <1>13, <1>14, HandleAndFree
<1>16. SInv(chan', sess', hist')
  <2>1. y \in Channel /\ y.ctype = c.ctype /\ y.gen = c.gen /\ y # Free
    BY <1>6, <1>9, UsedFacts DEF Proceeds
  <2>2. Put(chan, chan', "S", i, y)
    BY <2>1, <1>0, <1>2, <1>4, <1>14, PutFacts DEF Held
  <2>3. chan'["S"][i] = y /\ \A j \in Ids : j # i => chan'["S"][j] = chan["S"][j]
    BY <2>2, <1>0 DEF Put
  <2>4. /\ sess' \in [Sids -> Session] /\ sess'[s].chanid = sess[s].chanid /\ sess'[s].pid = "none"
        /\ \A t \in Sids : t # s => sess'[t] = sess[t]
    BY <1>1, <1>4 DEF Session
  <2>5. \A t \in Sids : /\ sess'[t].chanid = sess[t].chanid
                        /\ sess[t].chanid # i => sess'[t] = sess[t]
                        /\ sess[t].chanid = i => sess'[t].pid = "none"
    BY <2>4, <1>2
  <2>6. /\ hist' \in [Ends -> [Gens -> Log]] /\ hist'["S"][c.gen].child = "reported"
        /\ \A g \in Gens : g # c.gen => hist'["S"][g].child = hist["S"][g].child
    <3> DEFINE g == c.gen
               h == CutStream("C", g)
    <3> HIDE DEF g
    <3>1. g \in Gens /\ hist' = [h EXCEPT !["S"][g].child = "reported"]
      BY Zenon, <1>2, <1>3 DEF g
    <3>2. h \in [Ends -> [Gens -> Log]] /\ h["S"] = hist["S"]
      <4>1. Peer("C") = "S"
        BY DEF Peer
      <4>2. h \in [Ends -> [Gens -> Log]] /\ h[Peer("C")] = hist[Peer("C")]
        BY <3>1, <1>0, <1>4, CutFacts DEF CutStream
      <4> QED BY <4>1, <4>2
    <3> HIDE DEF h
    <3>3. /\ hist' \in [Ends -> [Gens -> Log]] /\ hist'["S"][g].child = "reported"
          /\ \A f \in Gens : f # g => hist'["S"][f].child = h["S"][f].child
      <4>1. hist' = Childed(h, "S", g, "reported")
        BY <3>1 DEF Childed
      <4>2. "reported" \in {"none", "started", "reported"}
        BY SMTT(30)
      <4> QED BY <4>1, <4>2, <3>1, <3>2, <1>0, ChildLog
    <3> QED BY SMTT(30), <3>2, <3>3 DEF g
  <2>7. Tends(chan, chan', sess, sess', hist, hist', i)
    BY Zenon, <2>1, <2>3, <2>4, <2>5, <2>6, <1>2 DEF Tends
  <2> QED BY <2>7, <1>2, <1>4, SessionTends
<1> QED BY Zenon, <1>1, <1>3, <1>15, <1>16 DEF IInv

\* session_set_fds()
Started(c) == [c EXCEPT !.type = "OPEN", !.efd = Stderr]

\* session_set_fds.
LEMMA StartedFacts ==
  ASSUME NEW c \in Channel
  PROVE  LET y == Started(c) IN
         /\ y \in Channel /\ y.type = "OPEN" /\ y.rid = c.rid /\ y.gen = c.gen /\ y.ctype = c.ctype
         /\ y.istate = c.istate /\ y.ostate = c.ostate
         /\ y.EOF_SENT = c.EOF_SENT /\ y.EOF_RCVD = c.EOF_RCVD
         /\ y.CLOSE_SENT = c.CLOSE_SENT /\ y.CLOSE_RCVD = c.CLOSE_RCVD
         /\ y.user = c.user /\ y.detach_close = c.detach_close
<1>1. Stderr \in BOOLEAN
  BY ChannelsAssumption
<1> QED BY <1>1 DEF Started, Channel, Types

\* The children of channel i run.
Running(se, i) == [s \in Sids |-> IF se[s].chanid = i THEN [se[s] EXCEPT !.pid = "running"] ELSE se[s]]

\* The table of sessions once a child runs.
LEMMA RunningFacts ==
  ASSUME NEW se \in [Sids -> Session], NEW i
  PROVE  /\ Running(se, i) \in [Sids -> Session]
         /\ \A t \in Sids : /\ Running(se, i)[t].chanid = se[t].chanid
                            /\ se[t].chanid # i => Running(se, i)[t] = se[t]
                            /\ se[t].chanid = i => Running(se, i)[t].pid = "running"
BY DEF Running, Session

\* session_input_channel_req, shell and exec.
LEMMA InputExecInv ==
  ASSUME IInv, NEW ok \in BOOLEAN, InputExec(ok)
  PROVE  IInv'
<1> DEFINE m == net["S"][1]
           i == m.to
           c == chan["S"][i]
           started == ok /\ c.type = "LARVAL" /\ SessionsOf(i) # {}
           x == Started(c)
           nt2 == Popped(net, "S")
<1>0. "S" \in Ends
  BY SMTT(30) DEF Ends
<1>1. Incoming("S", "EXEC") /\ UNCHANGED <<opens, notices>>
  BY Zenon DEF InputExec
<1>2. /\ net["S"] # <<>> /\ Head(net["S"]) = m /\ m.kind = "EXEC" /\ NInv(chan, net, opens)
      /\ over = "no"
  BY <1>0, <1>1, IncomingFacts
<1>3. /\ Found("S") /\ Delivers(chan, "S", m) /\ i \in Ids /\ c \in Channel /\ c # Free
      /\ Shape("S", c) /\ c.gen = m.gen /\ m.gen \in Gens /\ MayTurn(chan, nt2, "S", i, c)
  BY SMTT(30), <1>0, <1>1, OwnFacts
<1>4. ~c.CLOSE_RCVD /\ c.type \in {"LARVAL", "OPEN"}
  <2>1. ~Noise("S", m) /\ ~Offer(m) /\ ~Reply(m)
    BY <1>2 DEF Noise, Offer, Reply
  <2>2. c.type \in {"LARVAL", "OPEN"}
    BY <2>1, <1>0, <1>2, HeadOpened
  <2> QED BY Zenon, <2>2, <1>3 DEF Delivers
<1>5. /\ NInv(chan, net, opens) /\ SInv(chan, sess, hist) /\ sess \in [Sids -> Session]
      /\ hist \in [Ends -> [Gens -> Log]] /\ chan \in [Ends -> [Ids -> Channel \cup {Free}]]
  BY SMTT(30) DEF IInv, SInv, NInv, Typed
<1>6. CASE started
  <2> DEFINE w == Word("ADJUST")
             v == Word("SUCCESS")
             q == <<w, v>>
  <2>1. ~c.CLOSE_SENT /\ c.type = "LARVAL" /\ ~c.detach_close
    BY ZenonT(30), <1>3, <1>4, <1>6 DEF Shape
  <2>2. /\ Answer("S", i, Send(Send(On(x), "ADJUST"), "SUCCESS"))
        /\ sess' = [s \in Sids |-> IF started /\ s \in SessionsOf(i)
                                   THEN [sess[s] EXCEPT !.pid = "running"] ELSE sess[s]]
        /\ hist' = [hist EXCEPT !["S"][c.gen].child = "started"]
        /\ over' = over
    BY ZenonT(30), <2>1, <1>2, <1>3, <1>6 DEF InputExec, Started
  <2>3. /\ x \in Channel /\ x.type = "OPEN" /\ x.rid = c.rid /\ x.gen = c.gen /\ x.ctype = c.ctype
        /\ x.istate = c.istate /\ x.ostate = c.ostate
        /\ x.EOF_SENT = c.EOF_SENT /\ x.EOF_RCVD = c.EOF_RCVD
        /\ x.CLOSE_SENT = c.CLOSE_SENT /\ x.CLOSE_RCVD = c.CLOSE_RCVD
        /\ x.user = c.user /\ x.detach_close = c.detach_close
    BY ZenonT(30), <1>3, StartedFacts
  <2> HIDE DEF x
  <2>4. MayTurn(chan, nt2, "S", i, x)
    <3>1. Shape("S", x)
      BY Zenon, <2>1, <2>3, <1>3 DEF Shape, BothClosed
    <3> HIDE DEF nt2
    <3> QED BY ZenonT(30), <3>1, <2>1, <2>3, <1>3 DEF MayTurn
  <2>5. Sayable("S", c, x, w) /\ Sayable("S", c, x, v) /\ w.kind = "ADJUST"
    BY <2>1, <1>0, <1>4, SayableFacts
  <2>6. Send(Send(On(x), "ADJUST"), "SUCCESS") = Res(x, q)
    <3>1. Send(On(x), "ADJUST") = Res(x, <<w>>)
      BY WordFacts
    <3>2. Send(Res(x, <<w>>), "SUCCESS") = Res(x, Append(<<w>>, v))
      BY WordFacts
    <3>3. Append(<<w>>, v) = <<w, v>>
      BY AppendOne
    <3> QED BY <3>1, <3>2, <3>3
  <2> HIDE DEF w, v
  <2>7. Talk("S", c, Res(x, q))
    <3> DEFINE r == Res(x, q)
    <3>1. r.c = x /\ r.out = <<w, v>>
      BY ResFacts
    <3> HIDE DEF r
    <3>2. Talk("S", c, r)
      BY SMTT(30), <3>1, <2>5 DEF Talk
    <3> QED BY <3>2 DEF r
  <2> HIDE DEF q
  <2>8. NInv(chan', net', opens) /\ chan' = Held(chan, "S", i, x)
    <3>1. Answer("S", i, Res(x, q))
      BY Zenon, <2>2, <2>6
    <3>2. m.kind # "CONFIRM"
      BY SMTT(30), <1>2
    <3> QED BY SMTT(30), <3>1, <3>2, <2>4, <2>7, <1>0, <1>2, <1>3, AnswerKeeps
  <2>9. sess' = Running(sess, i)
    BY Zenon, <2>2, <1>6 DEF Running, SessionsOf
  <2>10. /\ sess' \in [Sids -> Session]
         /\ \A t \in Sids : /\ sess'[t].chanid = sess[t].chanid
                            /\ sess[t].chanid # i => sess'[t] = sess[t]
                            /\ sess[t].chanid = i => sess'[t].pid = "running"
    BY SMTT(30), <2>9, <1>5, RunningFacts
  <2>11. /\ hist' \in [Ends -> [Gens -> Log]]
         /\ \A g \in Gens : g # c.gen => hist'["S"][g].child = hist["S"][g].child
    <3> DEFINE n == c.gen
    <3>1. hist' = Childed(hist, "S", n, "started") /\ n \in Gens
      BY Zenon, <2>2, <1>3 DEF Childed
    <3>2. "started" \in {"none", "started", "reported"}
      OBVIOUS
    <3> HIDE DEF n
    <3>3. /\ hist' \in [Ends -> [Gens -> Log]] /\ hist'["S"][n].child = "started"
          /\ \A g \in Gens : g # n => hist'["S"][g].child = hist["S"][g].child
      <4>1. hist \in [Ends -> [Gens -> Log]] /\ n \in Gens
        BY <3>1, <1>5
      <4>2. LET hi == Childed(hist, "S", n, "started") IN
            /\ hi \in [Ends -> [Gens -> Log]] /\ hi["S"][n].child = "started"
            /\ \A f \in Gens : f # n => hi["S"][f].child = hist["S"][f].child
        BY SMTT(30), <4>1, <3>2, <1>0, ChildLog
      <4> QED BY <4>2, <3>1
    <3> QED BY SMTT(30), <3>3 DEF n
  <2>12. x # Free /\ Put(chan, chan', "S", i, x)
    BY Zenon, <2>3, <2>8, <1>0, <1>3, <1>5, UsedFacts, PutFacts DEF Held
  <2>13. chan'["S"][i] = x /\ \A j \in Ids : j # i => chan'["S"][j] = chan["S"][j]
    BY <2>12, <1>0 DEF Put
  <2>14. \E t \in Sids : sess[t].chanid = i
    BY SMTT(30), <1>6 DEF SessionsOf
  <2>15. Tends(chan, chan', sess, sess', hist, hist', i)
    BY ZenonT(30), <2>1, <2>3, <2>10, <2>11, <2>12, <2>13, <2>14, <1>3 DEF Tends
  <2>16. SInv(chan', sess', hist')
    BY <2>15, <1>3, <1>5, SessionTends
  <2> QED BY ZenonT(30), <2>2, <2>8, <2>16, <1>1, <1>2 DEF IInv
<1>7. CASE ~started
  <2> DEFINE w == Word("FAILURE")
             q == <<w>>
  <2>1. /\ Answer("S", i, IF c.CLOSE_SENT THEN On(c) ELSE Send(On(c), "FAILURE"))
        /\ sess' = [s \in Sids |-> sess[s]] /\ hist' = hist /\ over' = over
    BY Zenon, <1>2, <1>3, <1>7 DEF InputExec
  <2>2. sess' = sess
    BY <2>1, <1>5
  <2>3. Rest
    BY <2>1, <2>2, <1>1, <1>2, <1>5, RestFacts
  <2>4. Keeps(c, c) /\ m.kind # "CONFIRM"
    BY SMTT(30), <1>2 DEF Keeps
  <2>5. CASE c.CLOSE_SENT
    <3>1. On(c) = Res(c, <<>>) /\ Res(c, <<>>).out = <<>>
      BY SMTT(30), ResFacts
    <3>2. Answer("S", i, Res(c, <<>>)) /\ Talk("S", c, Res(c, <<>>))
      BY ZenonT(30), <3>1, <2>1, <2>5 DEF Talk
    <3> QED BY Zenon, <3>2, <2>3, <2>4, <1>0, <1>2, <1>3, AnswerInv
  <2>6. CASE ~c.CLOSE_SENT
    <3>1. Send(On(c), "FAILURE") = Res(c, q)
      BY WordFacts
    <3>2. Sayable("S", c, c, w)
      BY <2>6, <1>0, <1>4, SayableFacts
    <3> HIDE DEF w
    <3>3. Talk("S", c, Res(c, q))
      <4> DEFINE r == Res(c, q)
      <4>1. r.c = c /\ r.out = <<w>>
        BY ResFacts
      <4> HIDE DEF r
      <4>2. Talk("S", c, r)
        BY <4>1, <3>2 DEF Talk
      <4> QED BY <4>2 DEF r
    <3>4. Answer("S", i, Res(c, q))
      BY <3>1, <2>1, <2>6
    <3> HIDE DEF q
    <3> QED BY Zenon, <3>3, <3>4, <2>3, <2>4, <1>0, <1>2, <1>3, AnswerInv
  <2> QED BY SMTT(30), <2>5, <2>6
<1> QED BY <1>6, <1>7

-----------------------------------------------------------------------------
(* The invariant is inductive.                                             *)

\* The initial state.
LEMMA InitInv ==
  ASSUME Init
  PROVE  IInv
<1>1. /\ chan = [e \in Ends |-> [i \in Ids |-> Free]] /\ net = [e \in Ends |-> <<>>]
      /\ sess = [s \in Sids |-> NoSession] /\ opens = 0 /\ over = "no"
      /\ hist = [e \in Ends |-> [g \in Gens |-> [wrote |-> 0, read |-> 0, cut |-> FALSE,
                                                    child |-> "none"]]]
  BY DEF Init
<1>2. /\ \A e \in Ends, i \in Ids : chan[e][i] = Free
      /\ \A e \in Ends : net[e] = <<>> /\ DOMAIN net[e] = {}
  BY <1>1
<1>3. Typed(chan, net, opens)
  BY <1>1, <1>2 DEF Typed
<1>4. /\ Shaped(chan) /\ OneEach(chan)
      /\ Addressed(chan, net) /\ Offered(chan, net) /\ Linked(chan, net) /\ Opening(chan, net)
  BY <1>2 DEF Shaped, OneEach, Addressed, Offered, Linked, Opening
<1>5. Confirmed(chan, net) /\ Refused(chan, net) /\ Closed(chan, net) /\ Ended(chan, net)
  BY <1>2 DEF Confirmed, Refused, Closed, Ended
<1>6. NInv(chan, net, opens) /\ opens <= MaxOpens
  BY <1>1, <1>3, <1>4, <1>5, ChannelsAssumption DEF NInv
<1>7. SInv(chan, sess, hist)
  <2>1. /\ sess \in [Sids -> Session] /\ \A s \in Sids : sess[s].chanid = -1 /\ sess[s].pid = "none"
    BY <1>1 DEF NoSession, Session
  <2>2. hist \in [Ends -> [Gens -> Log]] /\ \A g \in Gens : hist["S"][g].child = "none"
    BY <1>1 DEF Log, Ends
  <2>3. \A i \in Ids : chan["S"][i] = Free
    BY <1>2 DEF Ends
  <2> QED BY <2>1, <2>2, <2>3 DEF SInv
<1> QED BY <1>1, <1>6, <1>7 DEF IInv

\* Every action leads from a state of the invariant to one.
LEMMA NextInv ==
  ASSUME IInv, Next
  PROVE  IInv'
<1>1. ASSUME NEW e \in Ends, NEW ctype \in CTypes, NEW mux \in BOOLEAN, OpenChannel(e, ctype, mux)
      PROVE  IInv'
  BY <1>1, OpenChannelInv
<1>2. ASSUME NEW e \in Ends, Receive(e)
      PROVE  IInv'
  <2>1. ASSUME NEW accept \in BOOLEAN, InputOpenTcp(e, accept) PROVE IInv'
    BY <2>1, InputOpenTcpInv
  <2> QED BY <1>2, <2>1, InputOpenConfirmationInv, InputOpenFailureInv, InputDataInv, InputEofInv,
             InputCloseInv, InputEowInv DEF Receive
<1>3. CASE ReceiveClient
  BY <1>3, InputAdjustInv, InputStatusConfirmInv, InputExitInv, InputKeepAliveInv,
     InputExtendedDataInv DEF ReceiveClient
<1>4. CASE ReceiveServer
  BY <1>4, InputOpenSessionInv, InputExecInv, InputKeepAliveReplyInv, InputWindowChangeInv
     DEF ReceiveServer
<1>5. ASSUME NEW e \in Ends, NEW i \in Ids,
             \/ OutputPoll(e, i) \/ Handlers(e, i) \/ WriterCloses(e, i)
             \/ \E err \in BOOLEAN : Produce(e, i, err)
      PROVE  IInv'
  <2>1. CASE OutputPoll(e, i)
    BY <2>1, OutputPollInv
  <2>2. CASE Handlers(e, i)
    <3>1. CASE HandlerPre(e, i)
      BY <3>1, HandlerPreInv
    <3>2. ASSUME NEW rd, NEW wr, NEW er, HandlerPost(e, i, rd, wr, er) PROVE IInv'
      BY <3>2, HandlerPostInv
    <3>3. ASSUME NEW ok \in BOOLEAN, PostConnecting(e, i, ok) PROVE IInv'
      BY <3>3, PostConnectingInv
    <3> QED BY <2>2, <3>1, <3>2, <3>3 DEF Handlers
  <2>3. CASE WriterCloses(e, i)
    BY <2>3, WriterClosesInv
  <2>4. CASE \E err \in BOOLEAN : Produce(e, i, err)
    BY <2>4, ProduceInv
  <2> QED BY <1>5, <2>1, <2>2, <2>3, <2>4
<1>6. ASSUME NEW s \in Sids, ChildExit(s) \/ CollectChild(s)
      PROVE  IInv'
  BY <1>6, ChildExitInv, CollectChildInv
<1>7. CASE KeepAlive
  BY <1>7, KeepAliveInv
<1>8. ASSUME NEW i \in Ids, WindowChange(i)
      PROVE  IInv'
  BY <1>8, WindowChangeInv
<1> QED BY <1>1, <1>2, <1>3, <1>4, <1>5, <1>6, <1>7, <1>8 DEF Next

\* A step that changes nothing.
LEMMA StutterInv ==
  ASSUME IInv, UNCHANGED vars
  PROVE  IInv'
BY DEF vars, IInv

\* The connection of two such ends keeps IInv, whatever the order in which
\* messages arrive, programs end and garbage is collected.
THEOREM ChannelsInductive == Spec => []IInv
<1>1. Init => IInv
  BY InitInv
<1>2. IInv /\ [Next]_vars => IInv'
  BY NextInv, StutterInv
<1> QED BY <1>1, <1>2, PTL DEF Spec

-----------------------------------------------------------------------------
(* What it gives.                                                          *)

\* No handler of channels.c, serverloop.c or session.c calls packet_disconnect()
\* or fatal(): whatever arrives finds its channel, in a state that takes it.
THEOREM NoProtocolErrorAlways == Spec => []NoProtocolError
<1>1. IInv => NoProtocolError
  BY DEF IInv, NoProtocolError
<1> QED BY <1>1, ChannelsInductive, PTL

\* chan_send_close2() is the last an end says of a channel: only the server's
\* keepalive can follow a CLOSE in the queue or come after it was processed.
THEOREM CloseIsLastAlways == Spec => []CloseIsLast
<1>1. ASSUME IInv PROVE CloseIsLast
  <2>1. Closed(chan, net) /\ net \in [Ends -> Seq(Packet)]
    BY <1>1 DEF IInv, NInv, Typed
  <2> SUFFICES ASSUME NEW e \in Ends
               PROVE  /\ \A k \in 1..Len(net[e]) : net[e][k].kind = "CLOSE" =>
                           \A m \in After(e, net[e][k].gen, k + 1) : m.kind = "KEEPALIVE"
                      /\ \A i \in Ids : chan[e][i] # Free /\ chan[e][i].CLOSE_RCVD =>
                           \A m \in After(e, chan[e][i].gen, 1) : m.kind = "KEEPALIVE"
    BY DEF CloseIsLast
  <2>2. net[e] \in Seq(Packet) /\ DOMAIN net[e] = 1..Len(net[e]) /\ Len(net[e]) \in Nat
    BY <2>1
  <2>3. ASSUME NEW k \in 1..Len(net[e]), net[e][k].kind = "CLOSE",
               NEW m \in After(e, net[e][k].gen, k + 1)
        PROVE  m.kind = "KEEPALIVE"
    <3>1. PICK j \in (k + 1)..Len(net[e]) : m = net[e][j] /\ m.gen = net[e][k].gen
      BY DEF After
    <3>2. j \in DOMAIN net[e] /\ k \in DOMAIN net[e] /\ k < j
      BY <2>2
    <3> QED BY <3>1, <3>2, <2>1, <2>3 DEF Closed
  <2>4. ASSUME NEW i \in Ids, chan[e][i] # Free, chan[e][i].CLOSE_RCVD,
               NEW m \in After(e, chan[e][i].gen, 1)
        PROVE  m.kind = "KEEPALIVE"
    <3>1. PICK j \in 1..Len(net[e]) : m = net[e][j] /\ m.gen = chan[e][i].gen
      BY DEF After
    <3> QED BY <3>1, <2>1, <2>2, <2>4 DEF Closed
  <2> QED BY <2>3, <2>4
<1> QED BY <1>1, ChannelsInductive, PTL

\* channel_free() does not give an id back while a message for its present user
\* is in flight, and what arrives is for the present user of its id.
THEOREM NoStaleDeliveryAlways == Spec => []NoStaleDelivery
<1>1. ASSUME IInv PROVE NoStaleDelivery
  <2> SUFFICES ASSUME NEW e \in Ends, NEW k \in 1..Len(net[e]), net[e][k].to # -1,
                      net[e][k].kind # "KEEPALIVE", ~(e = "S" /\ net[e][k].kind = "FAILURE")
               PROVE  /\ net[e][k].to \in Ids /\ chan[e][net[e][k].to] # Free
                      /\ chan[e][net[e][k].to].gen = net[e][k].gen
    BY DEF NoStaleDelivery
  <2>1. Addressed(chan, net) /\ Offered(chan, net) /\ net \in [Ends -> Seq(Packet)]
    BY <1>1 DEF IInv, NInv, Typed
  <2>2. k \in DOMAIN net[e]
    BY <2>1
  <2>3. ~Noise(e, net[e][k])
    BY DEF Noise
  <2>4. ~Offer(net[e][k])
    BY <2>1, <2>2 DEF Offered, Offers
  <2>5. Delivers(chan, e, net[e][k])
    BY <2>1, <2>2, <2>3, <2>4 DEF Addressed
  <2> QED BY <2>5 DEF Delivers
<1> QED BY <1>1, ChannelsInductive, PTL

\* session_close_by_channel() and session_close_by_pid() leave no session
\* without its channel and no session channel without its session.
THEOREM SessionsLinkedAlways == Spec => []SessionsLinked
<1>1. ASSUME IInv PROVE SessionsLinked
  <2>1. SInv(chan, sess, hist) /\ Shaped(chan) /\ "S" \in Ends
    BY <1>1 DEF IInv, NInv, Ends
  <2>2. ASSUME NEW s \in Sids, sess[s].chanid # -1
        PROVE  /\ chan["S"][sess[s].chanid] # Free /\ chan["S"][sess[s].chanid].ctype = "session"
               /\ chan["S"][sess[s].chanid].user
    <3>1. sess[s].chanid \in Ids
      BY <2>1, <2>2 DEF SInv, Session
    <3>2. chan["S"][sess[s].chanid] # Free /\ chan["S"][sess[s].chanid].ctype = "session"
      BY <2>1, <2>2 DEF SInv
    <3> QED BY <3>1, <3>2, <2>1 DEF Shaped, Shape
  <2>3. ASSUME NEW i \in Ids, chan["S"][i] # Free, chan["S"][i].user
        PROVE  Cardinality(SessionsOf(i)) = 1
    <3>1. chan["S"][i].ctype = "session"
      BY <2>1, <2>3 DEF Shaped, Shape
    <3>2. PICK s \in Sids : sess[s].chanid = i
      BY <2>1, <2>3, <3>1 DEF SInv
    <3>3. i # -1
      BY ChannelsAssumption
    <3>4. SessionsOf(i) = {s}
      BY <3>2, <3>3, <2>1 DEF SessionsOf, SInv
    <3> QED BY <3>4, FS_Singleton
  <2> QED BY <2>2, <2>3 DEF SessionsLinked
<1> QED BY <1>1, ChannelsInductive, PTL

\* session_exit_message() comes before chan_send_close2(): a CLOSE on its way to
\* the client is never for a session whose child's status was not sent.
THEOREM ExitStatusFirstAlways == Spec => []ExitStatusFirst
<1>1. ASSUME IInv PROVE ExitStatusFirst
  <2> SUFFICES ASSUME NEW k \in 1..Len(net["C"]), net["C"][k].kind = "CLOSE",
                      hist["S"][net["C"][k].gen].child = "started"
               PROVE  FALSE
    BY DEF ExitStatusFirst
  <2> DEFINE g == net["C"][k].gen
  <2>0. "S" \in Ends /\ "C" \in Ends /\ Peer("S") = "C"
    BY DEF Ends, Peer
  <2>1. NInv(chan, net, opens) /\ SInv(chan, sess, hist) /\ opens <= MaxOpens /\ opens \in Nat
    BY <1>1 DEF IInv, NInv, Typed
  <2>2. k \in DOMAIN net["C"] /\ g \in 1..opens
    BY <2>0, <2>1 DEF NInv, Typed
  <2>3. g \in Gens
    BY <2>1, <2>2, ChannelsAssumption DEF Gens
  <2>4. PICK s \in Sids : /\ sess[s].chanid # -1 /\ sess[s].pid # "none"
                          /\ chan["S"][sess[s].chanid].gen = g
    BY <2>1, <2>3 DEF SInv
  <2> DEFINE i == sess[s].chanid
  <2>5. /\ i \in Ids /\ chan["S"][i] # Free /\ chan["S"][i].type = "OPEN" /\ ~chan["S"][i].CLOSE_SENT
    BY <1>1, <2>4, ChildFacts
  <2>6. Reaches(chan, net, "S", chan["S"][i])
    <3>1. Linked(chan, net)
      BY SMTT(30), <2>1 DEF NInv
    <3> QED BY <3>1, <2>0, <2>5 DEF Linked
  <2>7. NoClose(net, "C", g)
    BY Zenon, <2>0, <2>4, <2>6 DEF Reaches
  <2> QED BY <2>2, <2>7 DEF NoClose
<1> QED BY <1>1, ChannelsInductive, PTL
=============================================================================
