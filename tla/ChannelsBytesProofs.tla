------------------------ MODULE ChannelsBytesProofs ------------------------
(***************************************************************************)
(* Proofs about the bytes of Channels, for any number of channel ids,      *)
(* sessions and openings and any amount of data: no close in order loses   *)
(* what a program wrote.                                                   *)
(*                                                                         *)
(* For each opening and each direction, a byte written at one end is in    *)
(* its buffers, in flight, held by the other end or read by its program,   *)
(* unless an end gave it up (cut).  What is in flight is a sum over a      *)
(* queue, which Stream states with a running total instead of a recursive  *)
(* definition: a message that enters or leaves moves one end of the total. *)
(* Accounts says that the parts cover what was written; the rest of        *)
(* BytesInv says when nothing can be left in one of them: a half that was  *)
(* closed has been drained (Sounds), a CLOSE comes after EOF both ways     *)
(* (Stopped), an EOF that was sent is on its way or has arrived            *)
(* (EofArrives), only sessions have a second stream (SameType), and a      *)
(* channel without a program behind it is sent no bytes (LarvalQuiet).     *)
(***************************************************************************)
EXTENDS ChannelsProofs

\* Message m carries bytes of channel g.
Carries(m, g) == Bytes(m) /\ m.gen = g

\* Of the stream of channel g, a bytes have left queue q and b have entered it.
\* f is the running total; where nothing more is carried it has its last value.
Stream(q, g, a, b) ==
  \E f \in [0..Len(q) -> Nat] :
    /\ f[0] = a /\ f[Len(q)] = b
    /\ \A k \in 1..Len(q) : f[k] = f[k - 1] + (IF Carries(q[k], g) THEN q[k].n ELSE 0)
    /\ \A j \in 0..Len(q) : (\A k \in (j + 1)..Len(q) : ~Carries(q[k], g)) => f[j] = f[Len(q)]

\* An empty queue holds nothing.
LEMMA StreamEmpty ==
  ASSUME NEW g
  PROVE  Stream(<<>>, g, 0, 0)
<1> DEFINE f == [k \in 0..0 |-> 0]
<1>1. f \in [0..0 -> Nat] /\ f[0] = 0 /\ Len(<<>>) = 0
  OBVIOUS
<1>2. 1..0 = {} /\ \A j \in 0..0 : j = 0
  OBVIOUS
<1> HIDE DEF f
<1> QED BY <1>1, <1>2 DEF Stream

\* A message enters.
LEMMA StreamPush ==
  ASSUME NEW q \in Seq(Packet), NEW m \in Packet, NEW g, NEW a \in Nat, NEW b \in Nat,
         Stream(q, g, a, b)
  PROVE  Stream(Append(q, m), g, a, b + (IF Carries(m, g) THEN m.n ELSE 0))
<1> DEFINE n == IF Carries(m, g) THEN m.n ELSE 0
           q2 == Append(q, m)
<1>1. n \in Nat
  BY DEF Packet
<1>n. n = IF Carries(m, g) THEN m.n ELSE 0
  OBVIOUS
<1>2. PICK f \in [0..Len(q) -> Nat] :
        /\ f[0] = a /\ f[Len(q)] = b
        /\ \A k \in 1..Len(q) : f[k] = f[k - 1] + (IF Carries(q[k], g) THEN q[k].n ELSE 0)
        /\ \A j \in 0..Len(q) : (\A k \in (j + 1)..Len(q) : ~Carries(q[k], g)) => f[j] = f[Len(q)]
  BY DEF Stream
<1>3. /\ Len(q) \in Nat /\ Len(q2) = Len(q) + 1
      /\ \A k \in 1..Len(q) : q2[k] = q[k]
      /\ q2[Len(q) + 1] = m
  OBVIOUS
<1> HIDE DEF q2, n
<1> DEFINE f2 == [k \in 0..(Len(q) + 1) |-> IF k = Len(q) + 1 THEN b + n ELSE f[k]]
<1>4. /\ f2 \in [0..Len(q2) -> Nat]
      /\ f2[0] = a /\ f2[Len(q2)] = b + n
      /\ \A k \in 0..Len(q) : f2[k] = f[k]
  BY <1>1, <1>2, <1>3
<1> HIDE DEF f2
<1>5. \A k \in 1..Len(q2) : f2[k] = f2[k - 1] + (IF Carries(q2[k], g) THEN q2[k].n ELSE 0)
  <2> SUFFICES ASSUME NEW k \in 1..Len(q2)
               PROVE  f2[k] = f2[k - 1] + (IF Carries(q2[k], g) THEN q2[k].n ELSE 0)
    OBVIOUS
  <2>1. CASE k = Len(q) + 1
    <3>1. k - 1 = Len(q) /\ Len(q) \in 0..Len(q) /\ k = Len(q2)
      BY <2>1, <1>3
    <3>2. f2[k - 1] = b /\ q2[k] = m /\ f2[k] = b + n
      BY <3>1, <2>1, <1>2, <1>3, <1>4
    <3> QED BY <3>2, <1>n
  <2>2. CASE k \in 1..Len(q)
    <3>1. k - 1 \in 0..Len(q) /\ k \in 0..Len(q)
      BY <2>2, <1>3
    <3> QED BY <3>1, <2>2, <1>2, <1>3, <1>4
  <2> QED BY <2>1, <2>2, <1>3
<1>6. \A j \in 0..Len(q2) : (\A k \in (j + 1)..Len(q2) : ~Carries(q2[k], g)) => f2[j] = f2[Len(q2)]
  <2> SUFFICES ASSUME NEW j \in 0..Len(q2), \A k \in (j + 1)..Len(q2) : ~Carries(q2[k], g)
               PROVE  f2[j] = f2[Len(q2)]
    OBVIOUS
  <2>1. CASE j = Len(q2)
    BY <2>1
  <2>2. CASE j \in 0..Len(q)
    <3>1. Len(q2) \in (j + 1)..Len(q2) /\ q2[Len(q2)] = m
      BY <2>2, <1>3
    <3>2. n = 0
      BY <3>1, <1>n
    <3>3. \A k \in (j + 1)..Len(q) : k \in (j + 1)..Len(q2) /\ k \in 1..Len(q)
      BY <2>2, <1>3
    <3>4. f[j] = f[Len(q)]
      BY <3>3, <2>2, <1>2, <1>3
    <3> QED BY <3>2, <3>4, <2>2, <1>2, <1>3, <1>4
  <2> QED BY <2>1, <2>2, <1>3
<1>7. Stream(q2, g, a, b + n)
  BY <1>4, <1>5, <1>6 DEF Stream
<1> QED BY <1>7 DEF q2, n

\* A message leaves.
LEMMA StreamPop ==
  ASSUME NEW q \in Seq(Packet), q # <<>>, NEW g, NEW a \in Nat, NEW b \in Nat, Stream(q, g, a, b)
  PROVE  Stream(Tail(q), g, a + (IF Carries(q[1], g) THEN q[1].n ELSE 0), b)
<1> DEFINE n == IF Carries(q[1], g) THEN q[1].n ELSE 0
           q2 == Tail(q)
<1>n. n = IF Carries(q[1], g) THEN q[1].n ELSE 0
  OBVIOUS
<1>2. PICK f \in [0..Len(q) -> Nat] :
        /\ f[0] = a /\ f[Len(q)] = b
        /\ \A k \in 1..Len(q) : f[k] = f[k - 1] + (IF Carries(q[k], g) THEN q[k].n ELSE 0)
        /\ \A j \in 0..Len(q) : (\A k \in (j + 1)..Len(q) : ~Carries(q[k], g)) => f[j] = f[Len(q)]
  BY DEF Stream
<1>3. /\ Len(q) \in Nat /\ Len(q) # 0 /\ Len(q2) = Len(q) - 1
      /\ \A k \in 1..Len(q2) : q2[k] = q[k + 1]
  OBVIOUS
<1> HIDE DEF q2, n
<1>1. f[1] = a + n /\ f[1] \in Nat
  <2>1. 1 \in 1..Len(q) /\ 1 - 1 = 0 /\ 1 \in 0..Len(q)
    BY <1>3
  <2> QED BY <2>1, <1>2, <1>n
<1> DEFINE f2 == [k \in 0..Len(q2) |-> f[k + 1]]
<1>4. /\ f2 \in [0..Len(q2) -> Nat]
      /\ f2[0] = a + n /\ f2[Len(q2)] = b
      /\ \A k \in 0..Len(q2) : f2[k] = f[k + 1]
  <2>1. \A k \in 0..Len(q2) : k + 1 \in 0..Len(q)
    BY <1>3
  <2>2. 0 \in 0..Len(q2) /\ Len(q2) \in 0..Len(q2) /\ Len(q2) + 1 = Len(q) /\ 0 + 1 = 1
    BY <1>3
  <2> QED BY <2>1, <2>2, <1>1, <1>2
<1> HIDE DEF f2
<1>5. \A k \in 1..Len(q2) : f2[k] = f2[k - 1] + (IF Carries(q2[k], g) THEN q2[k].n ELSE 0)
  <2> SUFFICES ASSUME NEW k \in 1..Len(q2)
               PROVE  f2[k] = f2[k - 1] + (IF Carries(q2[k], g) THEN q2[k].n ELSE 0)
    OBVIOUS
  <2>1. k - 1 \in 0..Len(q2) /\ k \in 0..Len(q2) /\ k + 1 \in 1..Len(q) /\ (k - 1) + 1 = (k + 1) - 1
    BY <1>3
  <2>2. f2[k] = f[k + 1] /\ f2[k - 1] = f[(k + 1) - 1] /\ q2[k] = q[k + 1]
    BY <2>1, <1>3, <1>4
  <2>3. f[k + 1] = f[(k + 1) - 1] + (IF Carries(q[k + 1], g) THEN q[k + 1].n ELSE 0)
    BY <2>1, <1>2
  <2> QED BY <2>2, <2>3
<1>6. \A j \in 0..Len(q2) : (\A k \in (j + 1)..Len(q2) : ~Carries(q2[k], g)) => f2[j] = f2[Len(q2)]
  <2> SUFFICES ASSUME NEW j \in 0..Len(q2), \A k \in (j + 1)..Len(q2) : ~Carries(q2[k], g)
               PROVE  f2[j] = f2[Len(q2)]
    OBVIOUS
  <2>1. \A k \in ((j + 1) + 1)..Len(q) : ~Carries(q[k], g)
    <3> SUFFICES ASSUME NEW k \in ((j + 1) + 1)..Len(q) PROVE ~Carries(q[k], g)
      OBVIOUS
    <3>1. k - 1 \in (j + 1)..Len(q2) /\ k - 1 \in 1..Len(q2) /\ (k - 1) + 1 = k
      BY <1>3
    <3> QED BY <3>1, <1>3
  <2>2. j + 1 \in 0..Len(q)
    BY <1>3
  <2>3. f[j + 1] = f[Len(q)]
    BY <2>1, <2>2, <1>2
  <2> QED BY <2>3, <1>2, <1>4
<1>7. Stream(q2, g, a + n, b)
  BY <1>4, <1>5, <1>6 DEF Stream
<1> QED BY <1>7 DEF q2, n

\* Where nothing is carried nothing is on its way.
LEMMA StreamIdle ==
  ASSUME NEW q \in Seq(Packet), NEW g, NEW a, NEW b, Stream(q, g, a, b),
         \A k \in DOMAIN q : ~Carries(q[k], g)
  PROVE  a = b
<1>1. Len(q) \in Nat /\ DOMAIN q = 1..Len(q)
  OBVIOUS
<1>2. 0 \in 0..Len(q) /\ (0 + 1)..Len(q) = DOMAIN q
  BY <1>1
<1> QED BY <1>2 DEF Stream


\* What a channel holds of the stream that leaves by it, and of the one that arrives.
Unsent(e, c) == c.pipe + c.epipe + c.input + (IF e = "S" THEN c.ext ELSE 0)
Unread(e, c) == c.output + (IF e = "C" THEN c.ext ELSE 0)

\* Channel c of end e; out and in: the stream that leaves by it, that arrives, is cut.
\* A half that closed has ended its stream or lost it, and a stream that ended is drained.
Sound(e, c, out, in) ==
  /\ c.istate = "CLOSED" => c.EOF_SENT \/ out
  /\ c.ostate # "OPEN" => c.EOF_RCVD \/ in
  /\ c.istate # "OPEN" => c.pipe = 0 \/ out
  /\ c.EOF_SENT => (c.input = 0 /\ (e = "S" => ~c.efd /\ c.ext = 0)) \/ out
  /\ c.ostate = "CLOSED" => c.output = 0 /\ (e = "S" \/ c.ext = 0 \/ in)
  /\ c.type # "OPEN" => c.pipe = 0 /\ c.epipe = 0 /\ c.input = 0 /\ c.output = 0 /\ c.ext = 0
  /\ ~c.efd \/ e = "C" => c.epipe = 0
  /\ c.ext > 0 \/ (e = "S" /\ c.efd) => c.ctype = "session" /\ Stderr
  /\ e = "C" /\ c.ctype = "session" /\ Stderr => c.efd \/ in
  /\ c.type = "OPENING" => ~c.rwin
  /\ c.EOF_SENT => c.type # "LARVAL"

\* The program behind end e of channel g, or its reader, gave up bytes.
Cut(hi, e, g) == hi[e][g].cut
About(ch, e, i, g) == ch[e][i] # Free /\ ch[e][i].gen = g

Sounds(ch, hi) ==
  \A e \in Ends, i \in Ids : ch[e][i] # Free =>
    Sound(e, ch[e][i], Cut(hi, e, ch[e][i].gen), Cut(hi, Peer(e), ch[e][i].gen))

\* EOF for g is in flight to e before position k.
EofBefore(nt, e, g, k) ==
  \E j \in DOMAIN nt[e] : j < k /\ nt[e][j].gen = g /\ nt[e][j].kind = "EOF"

\* An end asks for no more, or closes, only what is cut or has ended.
Stopped(ch, nt, hi) ==
  \A e \in Ends : \A k \in DOMAIN nt[e] :
    /\ nt[e][k].kind = "EOW" => Cut(hi, e, nt[e][k].gen)
    /\ nt[e][k].kind = "CLOSE" => \A i \in Ids : About(ch, e, i, nt[e][k].gen) =>
         /\ ch[e][i].EOF_SENT \/ Cut(hi, e, nt[e][k].gen)
         /\ \/ ch[e][i].EOF_RCVD \/ Cut(hi, Peer(e), nt[e][k].gen)
            \/ EofBefore(nt, e, nt[e][k].gen, k)

\* EOF that was sent is on its way or has arrived.
EofArrives(ch, nt) ==
  \A e \in Ends, i, j \in Ids :
    ch[Peer(e)][j] # Free /\ ch[Peer(e)][j].EOF_SENT /\ About(ch, e, i, ch[Peer(e)][j].gen) =>
      \/ ch[e][i].EOF_RCVD
      \/ \E k \in DOMAIN nt[e] : nt[e][k].gen = ch[e][i].gen /\ nt[e][k].kind = "EOF"

\* What is a session for the server is one for the client; extended data are of sessions.
SameType(ch, nt) ==
  /\ \A i, j \in Ids :
       ch["C"][i] # Free /\ About(ch, "S", j, ch["C"][i].gen) /\ ch["S"][j].ctype = "session" =>
         ch["C"][i].ctype = "session"
  /\ \A i \in Ids : \A k \in DOMAIN nt["S"] :
       About(ch, "C", i, nt["S"][k].gen) /\ nt["S"][k].kind = "OPEN_session" =>
         ch["C"][i].ctype = "session"
  /\ \A i \in Ids : \A k \in DOMAIN nt["C"] :
       About(ch, "C", i, nt["C"][k].gen) /\ nt["C"][k].kind = "EXTENDED_DATA" =>
         ch["C"][i].ctype = "session" /\ Stderr
  /\ \A k \in DOMAIN nt["S"] : nt["S"][k].kind # "EXTENDED_DATA"

\* Nothing is sent to a session without a program.
LarvalQuiet(ch, nt) ==
  \A j \in Ids : ch["S"][j] # Free /\ ch["S"][j].type = "LARVAL" =>
    /\ \A i \in Ids : About(ch, "C", i, ch["S"][j].gen) => ~ch["C"][i].rwin
    /\ \A k \in DOMAIN nt["C"] : nt["C"][k].gen = ch["S"][j].gen => nt["C"][k].kind # "ADJUST"
    /\ \A k \in DOMAIN nt["S"] : nt["S"][k].gen = ch["S"][j].gen => ~Bytes(nt["S"][k])

\* b bytes of the stream from e have been sent, a have arrived.
Account(ch, hi, e, g, a, b) ==
  /\ \A i \in Ids : About(ch, e, i, g) => hi[e][g].wrote <= b + Unsent(e, ch[e][i])
  /\ Absent(ch, e, g) => hi[e][g].wrote <= b
  /\ \A i \in Ids : About(ch, Peer(e), i, g) =>
       a <= hi[Peer(e)][g].read + Unread(Peer(e), ch[Peer(e)][i])
  /\ Absent(ch, Peer(e), g) => a <= hi[Peer(e)][g].read

\* What was written and not cut is read, held at one of the ends, or in flight.
Accounts(ch, nt, hi) ==
  \A e \in Ends, g \in Gens : ~Cut(hi, e, g) =>
    \E a, b \in Nat : Stream(nt[Peer(e)], g, a, b) /\ Account(ch, hi, e, g, a, b)

\* The byte invariant.
BInv(ch, nt, hi) ==
  /\ Sounds(ch, hi) /\ Stopped(ch, nt, hi) /\ EofArrives(ch, nt)
  /\ SameType(ch, nt) /\ LarvalQuiet(ch, nt) /\ Accounts(ch, nt, hi)

-----------------------------------------------------------------------------
(* What a step does to a queue.                                            *)

\* Queue r is queue q followed by messages of channel g, of the kinds ks, with d bytes.
Emits(q, r, g, ks, d) ==
  /\ q \in Seq(Packet) /\ r \in Seq(Packet) /\ d \in Nat
  /\ \A k \in DOMAIN q : k \in DOMAIN r /\ r[k] = q[k]
  /\ \A k \in DOMAIN r : k \in DOMAIN q \/
       (r[k].gen = g /\ r[k].kind \in ks /\ \A l \in DOMAIN q : l < k)
  /\ \A x \in ks : \E k \in DOMAIN r : r[k].kind = x /\ r[k].gen = g
  /\ \A h \in Gens : \A a, b \in Nat :
       Stream(q, h, a, b) => Stream(r, h, a, IF h = g THEN b + d ELSE b)

\* Nothing is sent.
LEMMA EmitsNone ==
  ASSUME NEW q \in Seq(Packet), NEW g
  PROVE  Emits(q, q, g, {}, 0)
BY DEF Emits

\* One more message.
LEMMA EmitsMore ==
  ASSUME NEW q, NEW r, NEW g, NEW ks, NEW d, Emits(q, r, g, ks, d),
         NEW m \in Packet, m.gen = g, NEW n \in Nat, n = IF Bytes(m) THEN m.n ELSE 0
  PROVE  Emits(q, Append(r, m), g, ks \cup {m.kind}, d + n)
<1> DEFINE r2 == Append(r, m)
<1>1. q \in Seq(Packet) /\ r \in Seq(Packet) /\ d \in Nat
  BY DEF Emits
<1>2. r2 \in Seq(Packet) /\ Grown(r, r2, m) /\ Len(r) \in Nat
  BY <1>1 DEF Grown
<1>3. \A h \in Gens : \A a, b \in Nat :
        Stream(r, h, a, b) => Stream(r2, h, a, IF h = g THEN b + n ELSE b)
  <2> SUFFICES ASSUME NEW h \in Gens, NEW a \in Nat, NEW b \in Nat, Stream(r, h, a, b)
               PROVE  Stream(r2, h, a, IF h = g THEN b + n ELSE b)
    OBVIOUS
  <2>1. Stream(r2, h, a, b + (IF Carries(m, h) THEN m.n ELSE 0))
    BY <1>1, StreamPush
  <2>2. b + (IF Carries(m, h) THEN m.n ELSE 0) = IF h = g THEN b + n ELSE b
    BY DEF Carries
  <2> QED BY <2>1, <2>2
<1> HIDE DEF r2
<1>4. \A h \in Gens : \A a, b \in Nat :
        Stream(q, h, a, b) => Stream(r2, h, a, IF h = g THEN b + (d + n) ELSE b)
  <2> SUFFICES ASSUME NEW h \in Gens, NEW a \in Nat, NEW b \in Nat, Stream(q, h, a, b)
               PROVE  Stream(r2, h, a, IF h = g THEN b + (d + n) ELSE b)
    OBVIOUS
  <2>1. CASE h = g
    <3>1. Stream(r, h, a, b + d) /\ b + d \in Nat
      BY <2>1, <1>1 DEF Emits
    <3>2. Stream(r2, h, a, (b + d) + n)
      BY <3>1, <2>1, <1>3
    <3>3. (b + d) + n = b + (d + n)
      BY <1>1
    <3> QED BY <3>2, <3>3, <2>1
  <2>2. CASE h # g
    BY <2>2, <1>3 DEF Emits
  <2> QED BY <2>1, <2>2
<1>5. \A k \in DOMAIN q : k \in DOMAIN r2 /\ r2[k] = q[k] /\ k < Len(r) + 1
  BY <1>2 DEF Emits, Grown
<1>6. \A k \in DOMAIN r2 : k \in DOMAIN q \/
       (r2[k].gen = g /\ r2[k].kind \in ks \cup {m.kind} /\ \A l \in DOMAIN q : l < k)
  BY <1>2, <1>5 DEF Emits, Grown
<1>7. \A x \in ks \cup {m.kind} : \E k \in DOMAIN r2 : r2[k].kind = x /\ r2[k].gen = g
  BY ZenonT(40), <1>2 DEF Emits, Grown
<1> QED BY SMTT(30), <1>1, <1>2, <1>4, <1>5, <1>6, <1>7 DEF Emits, r2

\* Queue r is q, or q without its head, which is of kind t and has u bytes of
\* channel g.
Takes(q, r, g, u, t) ==
  /\ q \in Seq(Packet) /\ r \in Seq(Packet) /\ u \in Nat
  /\ \E s \in {0, 1} :
       /\ \A k \in DOMAIN r : k + s \in DOMAIN q /\ r[k] = q[k + s]
       /\ \A k \in DOMAIN q : \/ k - s \in DOMAIN r /\ r[k - s] = q[k]
                              \/ (q[k].kind = "EOF" => t = "EOF" /\ q[k].gen = g)
  /\ \A h \in Gens : \A a, b \in Nat :
       Stream(q, h, a, b) => Stream(r, h, IF h = g THEN a + u ELSE a, b)

\* Nothing is read.
LEMMA TakesNone ==
  ASSUME NEW q \in Seq(Packet), NEW g, NEW t
  PROVE  Takes(q, q, g, 0, t)
<1>1. \A k \in DOMAIN q : k + 0 = k /\ k - 0 = k
  OBVIOUS
<1>2. \E s \in {0, 1} :
       /\ \A k \in DOMAIN q : k + s \in DOMAIN q /\ q[k] = q[k + s]
       /\ \A k \in DOMAIN q : \/ k - s \in DOMAIN q /\ q[k - s] = q[k]
                              \/ (q[k].kind = "EOF" => t = "EOF" /\ q[k].gen = g)
  BY <1>1
<1> QED BY <1>2 DEF Takes

\* The head is read.
LEMMA TakesHead ==
  ASSUME NEW q \in Seq(Packet), q # <<>>, NEW g, NEW t, NEW u \in Nat,
         u = IF Carries(q[1], g) THEN q[1].n ELSE 0,
         Bytes(q[1]) => q[1].gen = g,
         q[1].kind = "EOF" => t = "EOF" /\ q[1].gen = g
  PROVE  Takes(q, Tail(q), g, u, t)
<1> DEFINE r == Tail(q)
<1>1. r \in Seq(Packet) /\ Shrunk(q, r) /\ Len(q) \in Nat
  BY DEF Shrunk
<1>2. \A h \in Gens : \A a, b \in Nat :
       Stream(q, h, a, b) => Stream(r, h, IF h = g THEN a + u ELSE a, b)
  <2> SUFFICES ASSUME NEW h \in Gens, NEW a \in Nat, NEW b \in Nat, Stream(q, h, a, b)
               PROVE  Stream(r, h, IF h = g THEN a + u ELSE a, b)
    OBVIOUS
  <2>1. Stream(r, h, a + (IF Carries(q[1], h) THEN q[1].n ELSE 0), b)
    BY StreamPop
  <2>2. a + (IF Carries(q[1], h) THEN q[1].n ELSE 0) = IF h = g THEN a + u ELSE a
    BY DEF Carries
  <2> QED BY <2>1, <2>2
<1> HIDE DEF r
<1>3. /\ \A k \in DOMAIN r : k + 1 \in DOMAIN q /\ r[k] = q[k + 1]
      /\ \A k \in DOMAIN q : \/ k - 1 \in DOMAIN r /\ r[k - 1] = q[k]
                             \/ (q[k].kind = "EOF" => t = "EOF" /\ q[k].gen = g)
  BY <1>1 DEF Shrunk
<1> QED BY <1>1, <1>2, <1>3 DEF Takes, r

-----------------------------------------------------------------------------
(* A channel that changes, with the bytes it takes, holds and sends.       *)

\* What is sound stays so when more is cut.
LEMMA SoundMore ==
  ASSUME NEW e, NEW c, NEW o, NEW n, NEW o2, NEW n2, Sound(e, c, o, n), o => o2, n => n2
  PROVE  Sound(e, c, o2, n2)
BY DEF Sound

\* Nothing but the entry of end e of channel g changes, and what is cut stays cut.
Logs(hi, hi2, e, g) ==
  /\ hi \in [Ends -> [Gens -> Log]] /\ hi2 \in [Ends -> [Gens -> Log]]
  /\ \A f \in Ends, h \in Gens : Cut(hi, f, h) => Cut(hi2, f, h)
  /\ \A f \in Ends, h \in Gens : f # e \/ h # g =>
       hi2[f][h].wrote = hi[f][h].wrote /\ hi2[f][h].read = hi[f][h].read

\* Channel c becomes y, which is freed only when it is closed.
Becomes(c, y, x) ==
  /\ c # Free /\ y \in Channel /\ y.gen = c.gen /\ y.ctype = c.ctype
  /\ c.EOF_SENT => y.EOF_SENT
  /\ c.EOF_RCVD => y.EOF_RCVD
  /\ y.type = "LARVAL" => c.type = "LARVAL"
  /\ x = y \/ x = Free
  /\ x = Free => y.type = "ZOMBIE" \/ BothClosed(y)

\* Channel c of end e, which becomes y, sends messages of the kinds ks; in: what arrives
\* by it is cut.
Announces(ch, e, c, y, ks, in) ==
  /\ ks \subseteq Kinds /\ "OPEN_session" \notin ks
  /\ "EOW" \in ks => in
  /\ "CLOSE" \in ks => BothClosed(y) /\ (y.EOF_SENT => c.EOF_SENT) /\ (y.EOF_RCVD => c.EOF_RCVD)
  /\ y.EOF_SENT => c.EOF_SENT \/ "EOF" \in ks
  /\ "EXTENDED_DATA" \in ks => e = "S" /\ y.ctype = "session" /\ Stderr
  /\ "ADJUST" \in ks => y.type # "LARVAL"
  /\ "DATA" \in ks => c.rwin
  /\ y.rwin => c.rwin \/ \A j \in Ids : About(ch, "S", j, y.gen) => ch["S"][j].type # "LARVAL"

\* No byte that is not cut is lost: d are sent and u taken.
Balanced(hi, hi2, e, c, y, d, u) ==
  /\ ~Cut(hi2, e, y.gen) =>
       hi2[e][y.gen].wrote + Unsent(e, c) <= hi[e][y.gen].wrote + Unsent(e, y) + d
  /\ ~Cut(hi2, Peer(e), y.gen) =>
       hi[e][y.gen].read + Unread(e, c) + u <= hi2[e][y.gen].read + Unread(e, y)

ByteStep(ch, nt, hi, ch2, nt2, hi2, e, i, y, x, ks, d, u, t) ==
  /\ Becomes(ch[e][i], y, x)
  /\ ch2 = Held(ch, e, i, x)
  /\ Emits(nt[Peer(e)], nt2[Peer(e)], y.gen, ks, d)
  /\ Takes(nt[e], nt2[e], y.gen, u, t)
  /\ t = "EOF" => y.EOF_RCVD
  /\ Logs(hi, hi2, e, y.gen)
  /\ Sound(e, y, Cut(hi2, e, y.gen), Cut(hi2, Peer(e), y.gen))
  /\ Announces(ch, e, ch[e][i], y, ks, Cut(hi2, Peer(e), y.gen))
  /\ Balanced(hi, hi2, e, ch[e][i], y, d, u)

\* The table after such a step.
Turned(ch, ch2, e, i, y, x) ==
  /\ ch2[e][i] = x /\ (x = y \/ x = Free)
  /\ y # Free
  /\ \A f \in Ends, j \in Ids : (f = e /\ j = i) \/ ch2[f][j] = ch[f][j]
  /\ \A f \in Ends, j \in Ids : \A h : About(ch2, f, j, h) =>
       /\ About(ch, f, j, h)
       /\ ch[f][j].EOF_SENT => ch2[f][j].EOF_SENT
       /\ ch[f][j].EOF_RCVD => ch2[f][j].EOF_RCVD
       /\ ch2[f][j].ctype = ch[f][j].ctype
       /\ ch2[f][j].type = "LARVAL" => ch[f][j].type = "LARVAL"

\* The table after one channel has been given its new value, or freed.
LEMMA StepTable ==
  ASSUME NEW ch \in [Ends -> [Ids -> Channel \cup {Free}]], NEW ch2, NEW e \in Ends, NEW i \in Ids,
         NEW y, NEW x, Becomes(ch[e][i], y, x), ch2 = Held(ch, e, i, x)
  PROVE  Turned(ch, ch2, e, i, y, x)
<1>1. y \in Channel /\ y # Free /\ ch[e][i] # Free /\ x \in Channel \cup {Free}
  BY UsedFacts DEF Becomes
<1>2. Put(ch, ch2, e, i, x)
  BY <1>1, PutFacts DEF Held
<1>3. /\ ch2[e][i] = x /\ (x = y \/ x = Free)
      /\ \A f \in Ends, j \in Ids : (f = e /\ j = i) \/ ch2[f][j] = ch[f][j]
  BY <1>2 DEF Put, Becomes
<1>4. \A f \in Ends, j \in Ids : \A h : About(ch2, f, j, h) =>
              /\ About(ch, f, j, h)
              /\ ch[f][j].EOF_SENT => ch2[f][j].EOF_SENT
              /\ ch[f][j].EOF_RCVD => ch2[f][j].EOF_RCVD
              /\ ch2[f][j].ctype = ch[f][j].ctype
              /\ ch2[f][j].type = "LARVAL" => ch[f][j].type = "LARVAL"
  <2> SUFFICES ASSUME NEW f \in Ends, NEW j \in Ids, NEW h, About(ch2, f, j, h)
               PROVE  /\ About(ch, f, j, h)
                      /\ ch[f][j].EOF_SENT => ch2[f][j].EOF_SENT
                      /\ ch[f][j].EOF_RCVD => ch2[f][j].EOF_RCVD
                      /\ ch2[f][j].ctype = ch[f][j].ctype
                      /\ ch2[f][j].type = "LARVAL" => ch[f][j].type = "LARVAL"
    OBVIOUS
  <2>1. CASE f = e /\ j = i
    <3>1. ch2[f][j] = y
      BY <2>1, <1>3 DEF About
    <3> QED BY <3>1, <2>1, <1>1 DEF About, Becomes
  <2>2. CASE ~(f = e /\ j = i)
    BY <2>2, <1>3 DEF About
  <2> QED BY <2>1, <2>2
<1> QED BY <1>1, <1>3, <1>4 DEF Turned

\* The channels stay sound.
LEMMA StepSounds ==
  ASSUME NEW ch, NEW nt, NEW op, NEW hi, NEW ch2, NEW nt2, NEW hi2, NEW e \in Ends, NEW i \in Ids,
         NEW y, NEW x, NEW ks, NEW d, NEW u, NEW t,
         NInv(ch, nt, op), op <= MaxOpens, BInv(ch, nt, hi),
         ByteStep(ch, nt, hi, ch2, nt2, hi2, e, i, y, x, ks, d, u, t)
  PROVE  Sounds(ch2, hi2)
<1>1. ch \in [Ends -> [Ids -> Channel \cup {Free}]] /\ op \in Nat
  BY DEF NInv, Typed
<1>2. \A f \in Ends, j \in Ids : ch[f][j] # Free => ch[f][j].gen \in Gens
  BY <1>1, ChannelsAssumption DEF NInv, Typed, Gens
<1>3. Turned(ch, ch2, e, i, y, x)
  <2>1. Becomes(ch[e][i], y, x) /\ ch2 = Held(ch, e, i, x)
    BY DEF ByteStep
  <2> QED BY <2>1, <1>1, StepTable
<1> SUFFICES ASSUME NEW f \in Ends, NEW j \in Ids, ch2[f][j] # Free
             PROVE  Sound(f, ch2[f][j], Cut(hi2, f, ch2[f][j].gen), Cut(hi2, Peer(f), ch2[f][j].gen))
  BY DEF Sounds
<1>4. CASE f = e /\ j = i
  <2>1. ch2[f][j] = y
    BY <1>3, <1>4 DEF Turned
  <2>2. Sound(e, y, Cut(hi2, e, y.gen), Cut(hi2, Peer(e), y.gen))
    BY DEF ByteStep
  <2> QED BY <2>1, <2>2, <1>4
<1>5. CASE ~(f = e /\ j = i)
  <2>1. ch2[f][j] = ch[f][j]
    BY <1>3, <1>5 DEF Turned
  <2> DEFINE g == ch[f][j].gen
  <2>2. Sound(f, ch[f][j], Cut(hi, f, g), Cut(hi, Peer(f), g))
    BY <2>1 DEF BInv, Sounds
  <2>3. g \in Gens /\ Peer(f) \in Ends
    BY <2>1, <1>2, PeerFacts
  <2>4. (Cut(hi, f, g) => Cut(hi2, f, g)) /\ (Cut(hi, Peer(f), g) => Cut(hi2, Peer(f), g))
    BY <2>3 DEF ByteStep, Logs
  <2> HIDE DEF g
  <2>5. Sound(f, ch[f][j], Cut(hi2, f, g), Cut(hi2, Peer(f), g))
    BY <2>2, <2>4, SoundMore
  <2> QED BY <2>5, <2>1 DEF g
<1> QED BY <1>4, <1>5

\* EOW and CLOSE still tell the truth.
LEMMA StepStopped ==
  ASSUME NEW ch, NEW nt, NEW op, NEW hi, NEW ch2, NEW nt2, NEW hi2, NEW e \in Ends, NEW i \in Ids,
         NEW y, NEW x, NEW ks, NEW d, NEW u, NEW t,
         NInv(ch, nt, op), op <= MaxOpens, BInv(ch, nt, hi),
         ByteStep(ch, nt, hi, ch2, nt2, hi2, e, i, y, x, ks, d, u, t)
  PROVE  Stopped(ch2, nt2, hi2)
<1> DEFINE p == Peer(e)
           c == ch[e][i]
           g == y.gen
<1>0. p \in Ends /\ p # e /\ Peer(p) = e /\ \A f \in Ends : f = e \/ f = p
  BY PeerFacts
<1>1. ch \in [Ends -> [Ids -> Channel \cup {Free}]] /\ op \in Nat
  BY DEF NInv, Typed
<1>2. \A f \in Ends : \A k \in DOMAIN nt[f] : nt[f][k].gen \in Gens
  BY <1>1, ChannelsAssumption DEF NInv, Typed, Gens
<1>b. Becomes(c, y, x) /\ ch2 = Held(ch, e, i, x)
  BY DEF ByteStep
<1>3. Turned(ch, ch2, e, i, y, x)
  BY <1>b, <1>1, StepTable
<1>4. c # Free /\ c.gen = g
  BY <1>b DEF Becomes
<1>5. Emits(nt[p], nt2[p], g, ks, d) /\ Takes(nt[e], nt2[e], g, u, t) /\ (t = "EOF" => y.EOF_RCVD)
  BY DEF ByteStep
<1>6. \A f \in Ends, h \in Gens : Cut(hi, f, h) => Cut(hi2, f, h)
  BY DEF ByteStep, Logs
<1>7. /\ "EOW" \in ks => Cut(hi2, p, g)
      /\ "CLOSE" \in ks => BothClosed(y) /\ (y.EOF_SENT => c.EOF_SENT) /\ (y.EOF_RCVD => c.EOF_RCVD)
  BY DEF ByteStep, Announces
<1>8. Sound(e, y, Cut(hi2, e, g), Cut(hi2, p, g))
  BY DEF ByteStep
<1> HIDE DEF p, c, g
\* A message that was there.
<1>9. ASSUME NEW f \in Ends, NEW k \in DOMAIN nt[f]
      PROVE  /\ nt[f][k].kind = "EOW" => Cut(hi2, f, nt[f][k].gen)
             /\ nt[f][k].kind = "CLOSE" => \A j \in Ids : About(ch2, f, j, nt[f][k].gen) =>
                  /\ ch2[f][j].EOF_SENT \/ Cut(hi2, f, nt[f][k].gen)
                  /\ \/ ch2[f][j].EOF_RCVD \/ Cut(hi2, Peer(f), nt[f][k].gen)
                     \/ EofBefore(nt, f, nt[f][k].gen, k)
  <2>1. nt[f][k].gen \in Gens /\ Peer(f) \in Ends
    BY <1>2, PeerFacts
  <2> QED BY <2>1, <1>3, <1>6 DEF BInv, Stopped, Turned
<1> SUFFICES ASSUME NEW f \in Ends, NEW k \in DOMAIN nt2[f]
             PROVE  /\ nt2[f][k].kind = "EOW" => Cut(hi2, f, nt2[f][k].gen)
                    /\ nt2[f][k].kind = "CLOSE" => \A j \in Ids : About(ch2, f, j, nt2[f][k].gen) =>
                         /\ ch2[f][j].EOF_SENT \/ Cut(hi2, f, nt2[f][k].gen)
                         /\ \/ ch2[f][j].EOF_RCVD \/ Cut(hi2, Peer(f), nt2[f][k].gen)
                            \/ EofBefore(nt2, f, nt2[f][k].gen, k)
  BY DEF Stopped
<1>10. CASE f = p /\ k \in DOMAIN nt[p]
  <2>1. nt2[p][k] = nt[p][k] /\ \A h : EofBefore(nt, p, h, k) => EofBefore(nt2, p, h, k)
    BY <1>5, <1>10 DEF Emits, EofBefore
  <2> QED BY <2>1, <1>9, <1>10
<1>11. CASE f = p /\ k \notin DOMAIN nt[p]
  <2>1. nt2[p][k].gen = g /\ nt2[p][k].kind \in ks /\ \A l \in DOMAIN nt[p] : l < k
    BY <1>5, <1>11 DEF Emits
  <2>2. nt2[p][k].kind = "EOW" => Cut(hi2, p, g)
    BY <2>1, <1>7
  <2>3. ASSUME nt2[p][k].kind = "CLOSE", NEW j \in Ids, About(ch2, p, j, g)
        PROVE  /\ ch2[p][j].EOF_SENT \/ Cut(hi2, p, g)
               /\ ch2[p][j].EOF_RCVD \/ Cut(hi2, e, g) \/ EofBefore(nt2, p, g, k)
    <3>1. BothClosed(y) /\ (y.EOF_SENT => c.EOF_SENT) /\ (y.EOF_RCVD => c.EOF_RCVD)
      BY <2>1, <2>3, <1>7
    <3>2. (c.EOF_SENT \/ Cut(hi2, e, g)) /\ (c.EOF_RCVD \/ Cut(hi2, p, g))
      BY <3>1, <1>8 DEF Sound, BothClosed
    <3>3. ch2[p][j] = ch[p][j] /\ About(ch, p, j, g)
      BY <2>3, <1>0, <1>3 DEF Turned
    <3>4. c.EOF_RCVD => ch[p][j].EOF_SENT
      <4>1. ~ch[p][j].EOF_SENT => NoEof(ch, nt, e, ch[p][j].gen)
        BY <3>3, <1>0 DEF NInv, Ended, About
      <4> QED BY <4>1, <3>3, <1>4 DEF NoEof, About, c
    <3>5. c.EOF_SENT => ch[p][j].EOF_RCVD \/ EofBefore(nt2, p, g, k)
      <4> SUFFICES ASSUME c.EOF_SENT, ~ch[p][j].EOF_RCVD PROVE EofBefore(nt2, p, g, k)
        OBVIOUS
      <4>1. \E l \in DOMAIN nt[p] : nt[p][l].gen = ch[p][j].gen /\ nt[p][l].kind = "EOF"
        <5>1. ch[Peer(p)][i] # Free /\ ch[Peer(p)][i].EOF_SENT /\ About(ch, p, j, ch[Peer(p)][i].gen)
          BY <1>0, <1>4, <3>3 DEF c
        <5> QED BY <5>1, <1>0 DEF BInv, EofArrives
      <4>2. ch[p][j].gen = g
        BY <3>3 DEF About
      <4> QED BY <4>1, <4>2, <2>1, <1>5 DEF EofBefore, Emits
    <3> QED BY <3>2, <3>3, <3>4, <3>5
  <2> QED BY <2>1, <2>2, <2>3, <1>0, <1>11
<1>12. CASE f = e
  <2>1. PICK s \in {0, 1} :
       /\ \A l \in DOMAIN nt2[e] : l + s \in DOMAIN nt[e] /\ nt2[e][l] = nt[e][l + s]
       /\ \A l \in DOMAIN nt[e] : \/ l - s \in DOMAIN nt2[e] /\ nt2[e][l - s] = nt[e][l]
                                  \/ (nt[e][l].kind = "EOF" => t = "EOF" /\ nt[e][l].gen = g)
    BY <1>5 DEF Takes
  <2>2. k + s \in DOMAIN nt[e] /\ nt2[e][k] = nt[e][k + s]
    BY <2>1, <1>12
  <2>3. DOMAIN nt2[e] \subseteq Int /\ DOMAIN nt[e] \subseteq Int
    BY <1>5 DEF Takes
  <2>4. ASSUME NEW j \in Ids, About(ch2, e, j, nt2[e][k].gen), EofBefore(nt, e, nt2[e][k].gen, k + s)
        PROVE  ch2[e][j].EOF_RCVD \/ EofBefore(nt2, e, nt2[e][k].gen, k)
    <3>1. PICK l \in DOMAIN nt[e] : l < k + s /\ nt[e][l].gen = nt2[e][k].gen /\ nt[e][l].kind = "EOF"
      BY <2>4 DEF EofBefore
    <3>2. CASE l - s \in DOMAIN nt2[e] /\ nt2[e][l - s] = nt[e][l]
      <4>1. l - s < k
        BY <3>1, <2>3, <1>12
      <4> QED BY <4>1, <3>1, <3>2 DEF EofBefore
    <3>3. CASE t = "EOF" /\ nt[e][l].gen = g
      <4>1. About(ch, e, j, g)
        BY <3>3, <3>1, <2>4, <1>3 DEF Turned
      <4>2. j = i
        BY <4>1, <1>4 DEF NInv, OneEach, About, c
      <4>3. ch2[e][j] = y
        BY <4>2, <2>4, <1>3 DEF About, Turned
      <4> QED BY <4>3, <3>3, <1>5
    <3> QED BY <3>1, <3>2, <3>3, <2>1
  <2> QED BY <2>2, <2>4, <1>9, <1>12
<1> QED BY <1>0, <1>10, <1>11, <1>12

\* EOF is not lost.
LEMMA StepEof ==
  ASSUME NEW ch, NEW nt, NEW op, NEW hi, NEW ch2, NEW nt2, NEW hi2, NEW e \in Ends, NEW i \in Ids,
         NEW y, NEW x, NEW ks, NEW d, NEW u, NEW t,
         NInv(ch, nt, op), BInv(ch, nt, hi),
         ByteStep(ch, nt, hi, ch2, nt2, hi2, e, i, y, x, ks, d, u, t)
  PROVE  EofArrives(ch2, nt2)
<1> DEFINE p == Peer(e)
           c == ch[e][i]
           g == y.gen
<1>0. p \in Ends /\ p # e /\ Peer(p) = e /\ \A f \in Ends : f = e \/ f = p
  BY PeerFacts
<1>1. ch \in [Ends -> [Ids -> Channel \cup {Free}]]
  BY DEF NInv, Typed
<1>b. Becomes(c, y, x) /\ ch2 = Held(ch, e, i, x)
  BY DEF ByteStep
<1>3. Turned(ch, ch2, e, i, y, x)
  BY <1>b, <1>1, StepTable
<1>4. c # Free /\ c.gen = g
  BY <1>b DEF Becomes
<1>5. Emits(nt[p], nt2[p], g, ks, d) /\ Takes(nt[e], nt2[e], g, u, t) /\ (t = "EOF" => y.EOF_RCVD)
  BY DEF ByteStep
<1>6. y.EOF_SENT => c.EOF_SENT \/ "EOF" \in ks
  BY DEF ByteStep, Announces
<1> HIDE DEF p, c, g
<1> SUFFICES ASSUME NEW f \in Ends, NEW l \in Ids, NEW j \in Ids,
                    ch2[Peer(f)][j] # Free, ch2[Peer(f)][j].EOF_SENT,
                    About(ch2, f, l, ch2[Peer(f)][j].gen), ~ch2[f][l].EOF_RCVD
             PROVE  \E k \in DOMAIN nt2[f] : nt2[f][k].gen = ch2[f][l].gen /\ nt2[f][k].kind = "EOF"
  BY DEF EofArrives
<1>7. About(ch, f, l, ch2[Peer(f)][j].gen) /\ ~ch[f][l].EOF_RCVD /\ ch[f][l].gen = ch2[f][l].gen
  BY <1>3 DEF Turned, About
<1>8. CASE f = p
  <2>1. CASE j = i /\ ~c.EOF_SENT
    <3>1. ch2[e][i] = y
      BY <2>1, <1>0, <1>3, <1>8 DEF Turned
    <3>2. "EOF" \in ks
      BY <3>1, <2>1, <1>0, <1>6, <1>8
    <3>3. PICK k \in DOMAIN nt2[p] : nt2[p][k].kind = "EOF" /\ nt2[p][k].gen = g
      BY <3>2, <1>5 DEF Emits
    <3>4. ch2[f][l].gen = g
      BY <3>1, <2>1, <1>0, <1>8 DEF About, g
    <3> QED BY <3>3, <3>4, <1>8
  <2>2. CASE j # i \/ c.EOF_SENT
    <3>1. ch[e][j] # Free /\ ch[e][j].EOF_SENT /\ ch[e][j].gen = ch2[e][j].gen
      <4>1. CASE j # i
        BY <4>1, <1>0, <1>3, <1>8 DEF Turned
      <4>2. CASE j = i
        BY <4>2, <2>2, <1>0, <1>3, <1>4, <1>8 DEF Turned, c, g
      <4> QED BY <4>1, <4>2
    <3>2. \E k \in DOMAIN nt[p] : nt[p][k].gen = ch[p][l].gen /\ nt[p][k].kind = "EOF"
      BY <3>1, <1>0, <1>7, <1>8 DEF BInv, EofArrives
    <3> QED BY <3>2, <1>5, <1>7, <1>8 DEF Emits
  <2> QED BY <2>1, <2>2
<1>9. CASE f = e
  <2>1. ch2[p][j] = ch[p][j]
    BY <1>0, <1>3 DEF Turned
  <2>2. PICK k \in DOMAIN nt[e] : nt[e][k].gen = ch[e][l].gen /\ nt[e][k].kind = "EOF"
    <3>1. Peer(e) = p
      BY DEF p
    <3>2. ch[Peer(e)][j] # Free /\ ch[Peer(e)][j].EOF_SENT /\ About(ch, e, l, ch[Peer(e)][j].gen)
      BY <3>1, <2>1, <1>7, <1>9
    <3> QED BY <3>2, <1>7, <1>9 DEF BInv, EofArrives
  <2>3. PICK s \in {0, 1} :
       \A n \in DOMAIN nt[e] : \/ n - s \in DOMAIN nt2[e] /\ nt2[e][n - s] = nt[e][n]
                               \/ (nt[e][n].kind = "EOF" => t = "EOF" /\ nt[e][n].gen = g)
    BY <1>5 DEF Takes
  <2>4. CASE k - s \in DOMAIN nt2[e] /\ nt2[e][k - s] = nt[e][k]
    BY <2>2, <2>4, <1>7, <1>9
  <2>5. CASE t = "EOF" /\ nt[e][k].gen = g
    <3>1. ch[e][l] # Free /\ ch[e][l].gen = g
      BY <2>2, <2>5, <1>7, <1>9 DEF About
    <3>2. l = i
      BY <3>1, <1>4 DEF NInv, OneEach, c
    <3>3. ch2[e][l] = y
      BY <3>2, <1>3, <1>9 DEF Turned, About
    <3> QED BY <3>3, <2>5, <1>5, <1>9
  <2> QED BY <2>2, <2>3, <2>4, <2>5
<1> QED BY <1>0, <1>8, <1>9

\* The ends still agree on what is a session.
LEMMA StepType ==
  ASSUME NEW ch, NEW nt, NEW op, NEW hi, NEW ch2, NEW nt2, NEW hi2, NEW e \in Ends, NEW i \in Ids,
         NEW y, NEW x, NEW ks, NEW d, NEW u, NEW t,
         NInv(ch, nt, op), BInv(ch, nt, hi),
         ByteStep(ch, nt, hi, ch2, nt2, hi2, e, i, y, x, ks, d, u, t)
  PROVE  SameType(ch2, nt2)
<1> DEFINE p == Peer(e)
           c == ch[e][i]
           g == y.gen
<1>0. p \in Ends /\ p # e /\ Peer(p) = e /\ (\A f \in Ends : f = e \/ f = p) /\ "C" \in Ends /\ "S" \in Ends
  BY PeerFacts DEF Ends
<1>1. ch \in [Ends -> [Ids -> Channel \cup {Free}]]
  BY DEF NInv, Typed
<1>b. Becomes(c, y, x) /\ ch2 = Held(ch, e, i, x)
  BY DEF ByteStep
<1>3. Turned(ch, ch2, e, i, y, x)
  BY <1>b, <1>1, StepTable
<1>4. c # Free /\ c.gen = g /\ c.ctype = y.ctype
  BY <1>b DEF Becomes
<1>5. Emits(nt[p], nt2[p], g, ks, d) /\ Takes(nt[e], nt2[e], g, u, t)
  BY DEF ByteStep
<1>6. "OPEN_session" \notin ks /\ ("EXTENDED_DATA" \in ks => e = "S" /\ y.ctype = "session" /\ Stderr)
  BY DEF ByteStep, Announces
<1> HIDE DEF p, c, g
\* A message in flight was there, or is one of those sent.
<1>7. ASSUME NEW f \in Ends, NEW k \in DOMAIN nt2[f]
      PROVE  \/ \E l \in DOMAIN nt[f] : nt2[f][k] = nt[f][l]
             \/ f = p /\ nt2[f][k].gen = g /\ nt2[f][k].kind \in ks
  <2>1. CASE f = p
    BY <2>1, <1>5 DEF Emits
  <2>2. CASE f = e
    BY <2>2, <1>5 DEF Takes
  <2> QED BY <2>1, <2>2, <1>0
<1>8. \A f \in Ends, j \in Ids : \A h : About(ch2, f, j, h) =>
        About(ch, f, j, h) /\ ch2[f][j].ctype = ch[f][j].ctype
  BY <1>3 DEF Turned
<1>9. ASSUME NEW l \in Ids, NEW j \in Ids, ch2["C"][l] # Free, About(ch2, "S", j, ch2["C"][l].gen),
             ch2["S"][j].ctype = "session"
      PROVE  ch2["C"][l].ctype = "session"
  <2>1. About(ch2, "C", l, ch2["C"][l].gen)
    BY <1>9 DEF About
  <2>2. About(ch, "C", l, ch2["C"][l].gen) /\ ch2["C"][l].ctype = ch["C"][l].ctype
    BY <2>1, <1>0, <1>8
  <2>3. About(ch, "S", j, ch2["C"][l].gen) /\ ch["S"][j].ctype = "session"
    BY <1>0, <1>8, <1>9
  <2> QED BY <2>2, <2>3 DEF BInv, SameType, About
<1>10. ASSUME NEW l \in Ids, NEW k \in DOMAIN nt2["S"], About(ch2, "C", l, nt2["S"][k].gen),
              nt2["S"][k].kind = "OPEN_session"
       PROVE  ch2["C"][l].ctype = "session"
  <2>1. PICK n \in DOMAIN nt["S"] : nt2["S"][k] = nt["S"][n]
    BY <1>0, <1>6, <1>7, <1>10
  <2> QED BY <2>1, <1>0, <1>8, <1>10 DEF BInv, SameType
<1>11. ASSUME NEW l \in Ids, NEW k \in DOMAIN nt2["C"], About(ch2, "C", l, nt2["C"][k].gen),
              nt2["C"][k].kind = "EXTENDED_DATA"
       PROVE  ch2["C"][l].ctype = "session" /\ Stderr
  <2>0. About(ch, "C", l, nt2["C"][k].gen) /\ ch2["C"][l].ctype = ch["C"][l].ctype
    BY <1>0, <1>8, <1>11
  <2>1. CASE \E n \in DOMAIN nt["C"] : nt2["C"][k] = nt["C"][n]
    BY <2>0, <2>1, <1>11 DEF BInv, SameType
  <2>2. CASE nt2["C"][k].gen = g /\ nt2["C"][k].kind \in ks
    <3>1. e = "S" /\ y.ctype = "session" /\ Stderr
      BY <2>2, <1>6, <1>11
    <3>2. About(ch, "S", i, ch["C"][l].gen) /\ ch["S"][i].ctype = "session" /\ ch["C"][l] # Free
      BY <3>1, <2>0, <2>2, <1>4 DEF About, c
    <3> QED BY <3>1, <3>2, <2>0 DEF BInv, SameType
  <2> QED BY <2>1, <2>2, <1>0, <1>7
<1>12. ASSUME NEW k \in DOMAIN nt2["S"]
       PROVE  nt2["S"][k].kind # "EXTENDED_DATA"
  <2>1. CASE \E n \in DOMAIN nt["S"] : nt2["S"][k] = nt["S"][n]
    BY <2>1 DEF BInv, SameType
  <2>2. CASE "S" = p /\ nt2["S"][k].kind \in ks
    BY <2>2, <1>0, <1>6
  <2> QED BY <2>1, <2>2, <1>0, <1>7
<1> QED BY <1>9, <1>10, <1>11, <1>12 DEF SameType

\* Still nothing is sent to a session without a program.
LEMMA StepLarval ==
  ASSUME NEW ch, NEW nt, NEW op, NEW hi, NEW ch2, NEW nt2, NEW hi2, NEW e \in Ends, NEW i \in Ids,
         NEW y, NEW x, NEW ks, NEW d, NEW u, NEW t,
         NInv(ch, nt, op), BInv(ch, nt, hi),
         ByteStep(ch, nt, hi, ch2, nt2, hi2, e, i, y, x, ks, d, u, t)
  PROVE  LarvalQuiet(ch2, nt2)
<1> DEFINE p == Peer(e)
           c == ch[e][i]
           g == y.gen
<1>0. /\ p \in Ends /\ p # e /\ (\A f \in Ends : f = e \/ f = p) /\ "C" \in Ends /\ "S" \in Ends
      /\ Peer("S") = "C" /\ Peer("C") = "S"
  BY PeerFacts DEF Ends, Peer
<1>1. ch \in [Ends -> [Ids -> Channel \cup {Free}]]
  BY DEF NInv, Typed
<1>b. Becomes(c, y, x) /\ ch2 = Held(ch, e, i, x)
  BY DEF ByteStep
<1>3. Turned(ch, ch2, e, i, y, x)
  BY <1>b, <1>1, StepTable
<1>4. c # Free /\ c.gen = g
  BY <1>b DEF Becomes
<1>5. Emits(nt[p], nt2[p], g, ks, d) /\ Takes(nt[e], nt2[e], g, u, t)
  BY DEF ByteStep
<1>6. /\ "EXTENDED_DATA" \in ks => e = "S"
      /\ "ADJUST" \in ks => y.type # "LARVAL"
      /\ "DATA" \in ks => c.rwin
      /\ y.rwin => c.rwin \/ \A j \in Ids : About(ch, "S", j, g) => ch["S"][j].type # "LARVAL"
  BY DEF ByteStep, Announces
<1> HIDE DEF p, c, g
<1>7. ASSUME NEW f \in Ends, NEW k \in DOMAIN nt2[f]
      PROVE  \/ \E l \in DOMAIN nt[f] : nt2[f][k] = nt[f][l]
             \/ f = p /\ nt2[f][k].gen = g /\ nt2[f][k].kind \in ks
  <2>1. CASE f = p
    BY <2>1, <1>5 DEF Emits
  <2>2. CASE f = e
    BY <2>2, <1>5 DEF Takes
  <2> QED BY <2>1, <2>2, <1>0
<1> SUFFICES ASSUME NEW j \in Ids, ch2["S"][j] # Free, ch2["S"][j].type = "LARVAL"
             PROVE  /\ \A l \in Ids : About(ch2, "C", l, ch2["S"][j].gen) => ~ch2["C"][l].rwin
                    /\ \A k \in DOMAIN nt2["C"] : nt2["C"][k].gen = ch2["S"][j].gen =>
                         nt2["C"][k].kind # "ADJUST"
                    /\ \A k \in DOMAIN nt2["S"] : nt2["S"][k].gen = ch2["S"][j].gen =>
                         ~Bytes(nt2["S"][k])
  BY DEF LarvalQuiet
<1> DEFINE h == ch2["S"][j].gen
<1>8. ch["S"][j] # Free /\ ch["S"][j].type = "LARVAL" /\ ch["S"][j].gen = h
  <2>1. About(ch2, "S", j, h)
    BY DEF About
  <2> QED BY <2>1, <1>0, <1>3 DEF Turned, About
<1>h. h = ch2["S"][j].gen
  OBVIOUS
<1> HIDE DEF h
<1>9. /\ \A l \in Ids : About(ch, "C", l, h) => ~ch["C"][l].rwin
      /\ \A k \in DOMAIN nt["C"] : nt["C"][k].gen = h => nt["C"][k].kind # "ADJUST"
      /\ \A k \in DOMAIN nt["S"] : nt["S"][k].gen = h => ~Bytes(nt["S"][k])
  BY <1>8 DEF BInv, LarvalQuiet
<1>10. ASSUME NEW l \in Ids, About(ch2, "C", l, h)
       PROVE  ~ch2["C"][l].rwin
  <2>1. About(ch, "C", l, h) /\ ~ch["C"][l].rwin
    BY <1>0, <1>3, <1>9, <1>10 DEF Turned
  <2>2. CASE e = "C" /\ l = i
    <3>1. ch2["C"][l] = y /\ g = h
      BY <2>2, <1>3, <1>10 DEF Turned, About, g
    <3>2. About(ch, "S", j, g) /\ ~c.rwin
      BY <3>1, <2>1, <2>2, <1>8 DEF About, c
    <3> QED BY <3>1, <3>2, <1>6, <1>8
  <2>3. CASE ~(e = "C" /\ l = i)
    <3>1. ch2["C"][l] = ch["C"][l]
      BY <2>3, <1>0, <1>3 DEF Turned
    <3> QED BY <3>1, <2>1
  <2> QED BY <2>2, <2>3
<1>11. ASSUME NEW k \in DOMAIN nt2["C"], nt2["C"][k].gen = h, nt2["C"][k].kind = "ADJUST"
       PROVE  FALSE
  <2>1. p = "C" /\ g = h /\ "ADJUST" \in ks
    BY <1>0, <1>7, <1>9, <1>11
  <2>2. e = "S" /\ ch["S"][i] # Free /\ ch["S"][i].gen = h
    BY <2>1, <1>0, <1>4 DEF c
  <2>3. j = i
    BY <2>2, <1>0, <1>8 DEF NInv, OneEach
  <2>4. ch2["S"][j] = y
    BY <2>2, <2>3, <1>3 DEF Turned
  <2> QED BY <2>1, <2>4, <1>6
<1>12. ASSUME NEW k \in DOMAIN nt2["S"], nt2["S"][k].gen = h, Bytes(nt2["S"][k])
       PROVE  FALSE
  <2>1. p = "S" /\ g = h /\ nt2["S"][k].kind \in ks
    BY <1>0, <1>7, <1>9, <1>12
  <2>2. e = "C" /\ About(ch, "C", i, h)
    BY <2>1, <1>0, <1>4 DEF c, About
  <2>3. c.rwin
    BY <2>1, <2>2, <1>6, <1>12 DEF Bytes
  <2> QED BY <2>2, <2>3, <1>9 DEF c
<1> QED BY <1>h, <1>10, <1>11, <1>12

\* A channel that is freed holds nothing that is not cut.
LEMMA Drained ==
  ASSUME NEW e \in Ends, NEW y \in Channel, NEW out, NEW in, Sound(e, y, out, in),
         y.type = "ZOMBIE" \/ BothClosed(y)
  PROVE  (~out => Unsent(e, y) = 0) /\ (~in => Unread(e, y) = 0)
<1>1. /\ y.pipe \in Nat /\ y.epipe \in Nat /\ y.input \in Nat /\ y.ext \in Nat /\ y.output \in Nat
      /\ y.EOF_SENT \in BOOLEAN /\ y.efd \in BOOLEAN /\ (e = "C" \/ e = "S")
  BY DEF Channel, Ends
<1>2. CASE y.type = "ZOMBIE"
  <2>1. y.pipe = 0 /\ y.epipe = 0 /\ y.input = 0 /\ y.output = 0 /\ y.ext = 0
    BY <1>2 DEF Sound
  <2> QED BY <2>1 DEF Unsent, Unread
<1>3. CASE BothClosed(y)
  <2>1. ASSUME ~out PROVE Unsent(e, y) = 0
    <3>1. y.EOF_SENT /\ y.pipe = 0 /\ y.input = 0 /\ (e = "S" => ~y.efd /\ y.ext = 0)
      BY <1>3, <2>1 DEF Sound, BothClosed
    <3>2. y.epipe = 0
      BY <3>1, <1>1 DEF Sound
    <3> QED BY <3>1, <3>2, <1>1 DEF Unsent
  <2>2. ASSUME ~in PROVE Unread(e, y) = 0
    <3>1. y.output = 0 /\ (e = "S" \/ y.ext = 0)
      BY <1>3, <2>2 DEF Sound, BothClosed
    <3> QED BY <3>1, <1>1 DEF Unread
  <2> QED BY <2>1, <2>2
<1> QED BY <1>2, <1>3

\* The amounts are natural numbers.
LEMMA AmountFacts ==
  ASSUME NEW e, NEW c \in Channel
  PROVE  Unsent(e, c) \in Nat /\ Unread(e, c) \in Nat
<1>1. c.pipe \in Nat /\ c.epipe \in Nat /\ c.input \in Nat /\ c.ext \in Nat /\ c.output \in Nat
  BY DEF Channel
<1> QED BY <1>1 DEF Unsent, Unread

\* The account of a stream the step is not about.
LEMMA OtherAccount ==
  ASSUME NEW ch, NEW ch2, NEW hi, NEW hi2, NEW f, NEW h, NEW a, NEW b, Account(ch, hi, f, h, a, b),
         hi2[f][h].wrote = hi[f][h].wrote, hi2[Peer(f)][h].read = hi[Peer(f)][h].read,
         \A l \in Ids : About(ch2, f, l, h) => About(ch, f, l, h) /\ ch2[f][l] = ch[f][l],
         Absent(ch2, f, h) => Absent(ch, f, h),
         \A l \in Ids : About(ch2, Peer(f), l, h) =>
           About(ch, Peer(f), l, h) /\ ch2[Peer(f)][l] = ch[Peer(f)][l],
         Absent(ch2, Peer(f), h) => Absent(ch, Peer(f), h)
  PROVE  Account(ch2, hi2, f, h, a, b)
BY DEF Account

\* The accounts still hold.
LEMMA StepAccounts ==
  ASSUME NEW ch, NEW nt, NEW op, NEW hi, NEW ch2, NEW nt2, NEW hi2, NEW e \in Ends, NEW i \in Ids,
         NEW y, NEW x, NEW ks, NEW d, NEW u, NEW t,
         NInv(ch, nt, op), op <= MaxOpens, BInv(ch, nt, hi),
         ByteStep(ch, nt, hi, ch2, nt2, hi2, e, i, y, x, ks, d, u, t)
  PROVE  Accounts(ch2, nt2, hi2)
<1> DEFINE p == Peer(e)
           c == ch[e][i]
           g == y.gen
<1>0. p \in Ends /\ p # e /\ Peer(p) = e /\ (\A f \in Ends : f = e \/ f = p) /\ Peer(e) = p
  BY PeerFacts
<1>1. ch \in [Ends -> [Ids -> Channel \cup {Free}]]
  BY DEF NInv, Typed
<1>b. Becomes(c, y, x) /\ ch2 = Held(ch, e, i, x)
  BY DEF ByteStep
<1>3. Turned(ch, ch2, e, i, y, x)
  BY <1>b, <1>1, StepTable
<1>4. c # Free /\ c.gen = g /\ c \in Channel /\ y \in Channel /\ About(ch, e, i, g)
  BY <1>b, <1>1 DEF Becomes, About
<1>5. Emits(nt[p], nt2[p], g, ks, d) /\ Takes(nt[e], nt2[e], g, u, t) /\ d \in Nat /\ u \in Nat
  BY DEF ByteStep, Emits, Takes
<1>6. Logs(hi, hi2, e, g)
  BY DEF ByteStep
<1>7. /\ ~Cut(hi2, e, g) => hi2[e][g].wrote + Unsent(e, c) <= hi[e][g].wrote + Unsent(e, y) + d
      /\ ~Cut(hi2, p, g) => hi[e][g].read + Unread(e, c) + u <= hi2[e][g].read + Unread(e, y)
  BY DEF ByteStep, Balanced
<1>8. x = Free => (~Cut(hi2, e, g) => Unsent(e, y) = 0) /\ (~Cut(hi2, p, g) => Unread(e, y) = 0)
  <2>1. Sound(e, y, Cut(hi2, e, g), Cut(hi2, p, g))
    BY DEF ByteStep
  <2>2. x = Free => y.type = "ZOMBIE" \/ BothClosed(y)
    BY <1>b DEF Becomes
  <2> HIDE DEF p, g
  <2> QED BY <2>1, <2>2, <1>4, Drained
<1> HIDE DEF p, c, g
<1>9. Unsent(e, c) \in Nat /\ Unsent(e, y) \in Nat /\ Unread(e, c) \in Nat /\ Unread(e, y) \in Nat
  BY <1>4, AmountFacts
\* Where the step does not change the table.
<1>10. ASSUME NEW f \in Ends, NEW h, f # e \/ h # g
       PROVE  /\ \A l \in Ids : About(ch2, f, l, h) => About(ch, f, l, h) /\ ch2[f][l] = ch[f][l]
              /\ Absent(ch2, f, h) => Absent(ch, f, h)
  <2>1. \A l \in Ids : About(ch, f, l, h) => ~(f = e /\ l = i)
    BY <1>4, <1>10 DEF About, c
  <2>2. \A l \in Ids : ~(f = e /\ l = i) => ch2[f][l] = ch[f][l]
    BY <1>3 DEF Turned
  <2>3. \A l \in Ids : About(ch2, f, l, h) => About(ch, f, l, h)
    BY <1>3 DEF Turned
  <2>4. ASSUME Absent(ch2, f, h) PROVE Absent(ch, f, h)
    BY <2>1, <2>2, <2>4 DEF Absent, About
  <2> QED BY <2>1, <2>2, <2>3, <2>4
\* The slot the step is about.
<1>11. /\ \A l \in Ids : About(ch2, e, l, g) => ch2[e][l] = y
       /\ Absent(ch2, e, g) => x = Free
  <2>1. \A l \in Ids : About(ch2, e, l, g) => l = i
    BY <1>3, <1>4 DEF Turned, About, NInv, OneEach, c
  <2>2. \A l \in Ids : About(ch2, e, l, g) => ch2[e][l] = y
    BY <2>1, <1>3 DEF Turned, About
  <2>3. Absent(ch2, e, g) => x = Free
    BY <1>3, <1>4 DEF Turned, Absent, g
  <2> QED BY <2>2, <2>3
<1> SUFFICES ASSUME NEW f \in Ends, NEW h \in Gens, ~Cut(hi2, f, h)
             PROVE  \E a, b \in Nat : Stream(nt2[Peer(f)], h, a, b) /\ Account(ch2, hi2, f, h, a, b)
  BY DEF Accounts
<1>12. ~Cut(hi, f, h)
  BY <1>6 DEF Logs
<1>13. PICK a \in Nat, b \in Nat : Stream(nt[Peer(f)], h, a, b) /\ Account(ch, hi, f, h, a, b)
  BY <1>12 DEF BInv, Accounts
<1>14. hi[e][h] \in Log /\ hi2[e][h] \in Log
  BY <1>6 DEF Logs
<1>15. /\ hi[e][h].wrote \in Nat /\ hi2[e][h].wrote \in Nat
       /\ hi[e][h].read \in Nat /\ hi2[e][h].read \in Nat
  BY <1>14 DEF Log
<1>16. CASE h # g
  <2>1. hi2[f][h].wrote = hi[f][h].wrote /\ hi2[Peer(f)][h].read = hi[Peer(f)][h].read
    BY <1>6, <1>16, PeerFacts DEF Logs
  <2>2. /\ \A l \in Ids : About(ch2, f, l, h) => About(ch, f, l, h) /\ ch2[f][l] = ch[f][l]
        /\ Absent(ch2, f, h) => Absent(ch, f, h)
    BY <1>10, <1>16
  <2>3. /\ \A l \in Ids : About(ch2, Peer(f), l, h) =>
             About(ch, Peer(f), l, h) /\ ch2[Peer(f)][l] = ch[Peer(f)][l]
        /\ Absent(ch2, Peer(f), h) => Absent(ch, Peer(f), h)
    BY <1>10, <1>16, PeerFacts
  <2>4. Account(ch2, hi2, f, h, a, b)
    BY <2>1, <2>2, <2>3, <1>13, OtherAccount
  <2>5. Stream(nt2[Peer(f)], h, a, b)
    <3>1. CASE f = e
      BY <3>1, <1>0, <1>5, <1>13, <1>16 DEF Emits
    <3>2. CASE f = p
      BY <3>2, <1>0, <1>5, <1>13, <1>16 DEF Takes
    <3> QED BY <3>1, <3>2, <1>0
  <2> QED BY <2>4, <2>5
<1>17. CASE h = g /\ f = e
  <2>1. Stream(nt2[p], h, a, b + d) /\ b + d \in Nat
    BY <1>0, <1>5, <1>13, <1>17 DEF Emits
  <2>2. hi[e][g].wrote <= b + Unsent(e, c)
    BY <1>4, <1>13, <1>17 DEF Account, c
  <2>3. hi2[e][g].wrote <= (b + d) + Unsent(e, y)
    BY <2>2, <1>5, <1>7, <1>9, <1>15, <1>17
  <2>4. \A l \in Ids : About(ch2, e, l, g) => hi2[e][g].wrote <= (b + d) + Unsent(e, ch2[e][l])
    BY <2>3, <1>11
  <2>5. Absent(ch2, e, g) => hi2[e][g].wrote <= b + d
    BY <2>1, <2>3, <1>8, <1>11, <1>15, <1>17
  <2>6. hi2[p][g].read = hi[p][g].read
    BY <1>0, <1>6, <1>17 DEF Logs
  <2>7. /\ \A l \in Ids : About(ch2, p, l, g) => a <= hi2[p][g].read + Unread(p, ch2[p][l])
        /\ Absent(ch2, p, g) => a <= hi2[p][g].read
    <3>1. /\ \A l \in Ids : About(ch2, p, l, g) => About(ch, p, l, g) /\ ch2[p][l] = ch[p][l]
          /\ Absent(ch2, p, g) => Absent(ch, p, g)
      BY <1>0, <1>10
    <3>2. /\ \A l \in Ids : About(ch, p, l, g) => a <= hi[p][g].read + Unread(p, ch[p][l])
          /\ Absent(ch, p, g) => a <= hi[p][g].read
      BY <1>0, <1>13, <1>17 DEF Account
    <3> QED BY <3>1, <3>2, <2>6
  <2>8. Account(ch2, hi2, e, g, a, b + d)
    BY <2>4, <2>5, <2>7, <1>0 DEF Account
  <2> QED BY <2>1, <2>8, <1>0, <1>17
<1>18. CASE h = g /\ f = p
  <2>1. Stream(nt2[e], h, a + u, b) /\ a + u \in Nat
    BY <1>0, <1>5, <1>13, <1>18 DEF Takes
  <2>2. a <= hi[e][g].read + Unread(e, c)
    BY <1>0, <1>4, <1>13, <1>18 DEF Account, c
  <2>3. a + u <= hi2[e][g].read + Unread(e, y)
    BY <2>2, <1>5, <1>7, <1>9, <1>15, <1>18
  <2>4. \A l \in Ids : About(ch2, e, l, g) => a + u <= hi2[e][g].read + Unread(e, ch2[e][l])
    BY <2>3, <1>11
  <2>5. Absent(ch2, e, g) => a + u <= hi2[e][g].read
    BY <2>1, <2>3, <1>8, <1>11, <1>15, <1>18
  <2>6. hi2[p][g].wrote = hi[p][g].wrote
    BY <1>0, <1>6, <1>18 DEF Logs
  <2>7. /\ \A l \in Ids : About(ch2, p, l, g) => hi2[p][g].wrote <= b + Unsent(p, ch2[p][l])
        /\ Absent(ch2, p, g) => hi2[p][g].wrote <= b
    <3>1. /\ \A l \in Ids : About(ch2, p, l, g) => About(ch, p, l, g) /\ ch2[p][l] = ch[p][l]
          /\ Absent(ch2, p, g) => Absent(ch, p, g)
      BY <1>0, <1>10
    <3>2. /\ \A l \in Ids : About(ch, p, l, g) => hi[p][g].wrote <= b + Unsent(p, ch[p][l])
          /\ Absent(ch, p, g) => hi[p][g].wrote <= b
      BY <1>0, <1>13, <1>18 DEF Account
    <3> QED BY <3>1, <3>2, <2>6
  <2>8. Account(ch2, hi2, p, g, a + u, b)
    BY <2>4, <2>5, <2>7, <1>0 DEF Account
  <2> QED BY <2>1, <2>8, <1>0, <1>18
<1> QED BY <1>0, <1>16, <1>17, <1>18

\* A step of one channel keeps the byte invariant.
LEMMA StepBytes ==
  ASSUME NEW ch, NEW nt, NEW op, NEW hi, NEW ch2, NEW nt2, NEW hi2, NEW e \in Ends, NEW i \in Ids,
         NEW y, NEW x, NEW ks, NEW d, NEW u, NEW t,
         NInv(ch, nt, op), op <= MaxOpens, BInv(ch, nt, hi),
         ByteStep(ch, nt, hi, ch2, nt2, hi2, e, i, y, x, ks, d, u, t)
  PROVE  BInv(ch2, nt2, hi2)
<1>1. Sounds(ch2, hi2)
  BY StepSounds
<1>2. Stopped(ch2, nt2, hi2)
  BY StepStopped
<1>3. EofArrives(ch2, nt2)
  BY StepEof
<1>4. SameType(ch2, nt2)
  BY StepType
<1>5. LarvalQuiet(ch2, nt2)
  BY StepLarval
<1>6. Accounts(ch2, nt2, hi2)
  BY StepAccounts
<1> QED BY <1>1, <1>2, <1>3, <1>4, <1>5, <1>6 DEF BInv

-----------------------------------------------------------------------------
(* Messages that carry nothing, and new channels.                          *)

\* Messages are read and sent that say nothing of bytes.
LEMMA WireBytes ==
  ASSUME NEW ch, NEW nt, NEW hi, NEW nt2, NEW e \in Ends, NEW g, NEW ks, BInv(ch, nt, hi),
         Emits(nt[Peer(e)], nt2[Peer(e)], g, ks, 0), Takes(nt[e], nt2[e], g, 0, "none"),
         ks \cap {"EOW", "CLOSE", "EXTENDED_DATA", "ADJUST", "DATA"} = {},
         "OPEN_session" \in ks => \A l \in Ids : ~About(ch, "C", l, g)
  PROVE  BInv(ch, nt2, hi)
<1> DEFINE p == Peer(e)
<1>0. /\ p \in Ends /\ p # e /\ Peer(p) = e /\ (\A f \in Ends : f = e \/ f = p) /\ Peer(e) = p
      /\ "C" \in Ends /\ "S" \in Ends
  BY PeerFacts DEF Ends
<1>1. Emits(nt[p], nt2[p], g, ks, 0)
  OBVIOUS
<1>2. PICK s \in {0, 1} :
       /\ \A l \in DOMAIN nt2[e] : l + s \in DOMAIN nt[e] /\ nt2[e][l] = nt[e][l + s]
       /\ \A l \in DOMAIN nt[e] : \/ l - s \in DOMAIN nt2[e] /\ nt2[e][l - s] = nt[e][l]
                                  \/ (nt[e][l].kind = "EOF" => "none" = "EOF" /\ nt[e][l].gen = g)
  BY DEF Takes
<1>3. /\ "EOW" \notin ks /\ "CLOSE" \notin ks /\ "EXTENDED_DATA" \notin ks /\ "ADJUST" \notin ks
      /\ "DATA" \notin ks
  OBVIOUS
<1>4. DOMAIN nt2[e] \subseteq Int /\ DOMAIN nt[e] \subseteq Int
  BY DEF Takes
<1> HIDE DEF p
<1>5. ASSUME NEW f \in Ends, NEW k \in DOMAIN nt2[f]
      PROVE  \/ \E l \in DOMAIN nt[f] :
                  /\ nt2[f][k] = nt[f][l]
                  /\ \A h : EofBefore(nt, f, h, l) => EofBefore(nt2, f, h, k)
             \/ f = p /\ nt2[f][k].gen = g /\ nt2[f][k].kind \in ks
  <2>1. CASE f = p /\ k \in DOMAIN nt[p]
    <3>1. nt2[p][k] = nt[p][k]
      BY <2>1, <1>1 DEF Emits
    <3>2. \A h : EofBefore(nt, p, h, k) => EofBefore(nt2, p, h, k)
      BY <1>1 DEF Emits, EofBefore
    <3> QED BY <3>1, <3>2, <2>1
  <2>2. CASE f = p /\ k \notin DOMAIN nt[p]
    BY <2>2, <1>1 DEF Emits
  <2>3. CASE f = e
    <3>1. k + s \in DOMAIN nt[e] /\ nt2[e][k] = nt[e][k + s]
      BY <2>3, <1>2
    <3>2. ASSUME NEW h, EofBefore(nt, e, h, k + s) PROVE EofBefore(nt2, e, h, k)
      <4>1. PICK j \in DOMAIN nt[e] : j < k + s /\ nt[e][j].gen = h /\ nt[e][j].kind = "EOF"
        BY <3>2 DEF EofBefore
      <4>2. j - s \in DOMAIN nt2[e] /\ nt2[e][j - s] = nt[e][j]
        BY <4>1, <1>2
      <4>3. j - s < k
        BY <4>1, <2>3, <1>4
      <4> QED BY <4>1, <4>2, <4>3 DEF EofBefore
    <3> QED BY <3>1, <3>2, <2>3
  <2> QED BY <2>1, <2>2, <2>3, <1>0
<1>6. \A f \in Ends : \A k \in DOMAIN nt[f] : nt[f][k].kind = "EOF" =>
        \E l \in DOMAIN nt2[f] : nt2[f][l] = nt[f][k]
  <2>1. \A k \in DOMAIN nt[p] : nt[p][k].kind = "EOF" => \E l \in DOMAIN nt2[p] : nt2[p][l] = nt[p][k]
    BY <1>1 DEF Emits
  <2>2. \A k \in DOMAIN nt[e] : nt[e][k].kind = "EOF" => \E l \in DOMAIN nt2[e] : nt2[e][l] = nt[e][k]
    BY <1>2
  <2> QED BY <2>1, <2>2, <1>0
<1>7. Stopped(ch, nt2, hi)
  <2> SUFFICES ASSUME NEW f \in Ends, NEW k \in DOMAIN nt2[f], nt2[f][k].kind \in {"EOW", "CLOSE"}
               PROVE  /\ nt2[f][k].kind = "EOW" => Cut(hi, f, nt2[f][k].gen)
                      /\ nt2[f][k].kind = "CLOSE" => \A i \in Ids : About(ch, f, i, nt2[f][k].gen) =>
                           /\ ch[f][i].EOF_SENT \/ Cut(hi, f, nt2[f][k].gen)
                           /\ \/ ch[f][i].EOF_RCVD \/ Cut(hi, Peer(f), nt2[f][k].gen)
                              \/ EofBefore(nt2, f, nt2[f][k].gen, k)
    BY DEF Stopped
  <2>1. PICK l \in DOMAIN nt[f] : /\ nt2[f][k] = nt[f][l]
                                  /\ \A h : EofBefore(nt, f, h, l) => EofBefore(nt2, f, h, k)
    BY <1>3, <1>5
  <2> QED BY <2>1 DEF BInv, Stopped
<1>8. EofArrives(ch, nt2)
  BY <1>6 DEF BInv, EofArrives
<1>9. SameType(ch, nt2)
  <2>1. ASSUME NEW i \in Ids, NEW k \in DOMAIN nt2["S"], About(ch, "C", i, nt2["S"][k].gen),
               nt2["S"][k].kind = "OPEN_session"
        PROVE  ch["C"][i].ctype = "session"
    <3>1. \E l \in DOMAIN nt["S"] : nt2["S"][k] = nt["S"][l]
      BY <2>1, <1>0, <1>5
    <3> QED BY <3>1, <2>1 DEF BInv, SameType
  <2>2. ASSUME NEW i \in Ids, NEW k \in DOMAIN nt2["C"], About(ch, "C", i, nt2["C"][k].gen),
               nt2["C"][k].kind = "EXTENDED_DATA"
        PROVE  ch["C"][i].ctype = "session" /\ Stderr
    <3>1. \E l \in DOMAIN nt["C"] : nt2["C"][k] = nt["C"][l]
      BY <2>2, <1>0, <1>3, <1>5
    <3> QED BY <3>1, <2>2 DEF BInv, SameType
  <2>3. ASSUME NEW k \in DOMAIN nt2["S"] PROVE nt2["S"][k].kind # "EXTENDED_DATA"
    <3>1. (\E l \in DOMAIN nt["S"] : nt2["S"][k] = nt["S"][l]) \/ nt2["S"][k].kind \in ks
      BY <1>0, <1>5
    <3> QED BY <3>1, <1>3 DEF BInv, SameType
  <2> QED BY <2>1, <2>2, <2>3 DEF BInv, SameType
<1>10. LarvalQuiet(ch, nt2)
  <2> SUFFICES ASSUME NEW j \in Ids, ch["S"][j] # Free, ch["S"][j].type = "LARVAL"
               PROVE  /\ \A k \in DOMAIN nt2["C"] : nt2["C"][k].gen = ch["S"][j].gen =>
                           nt2["C"][k].kind # "ADJUST"
                      /\ \A k \in DOMAIN nt2["S"] : nt2["S"][k].gen = ch["S"][j].gen =>
                           ~Bytes(nt2["S"][k])
    BY DEF BInv, LarvalQuiet
  <2>1. ASSUME NEW k \in DOMAIN nt2["C"], nt2["C"][k].gen = ch["S"][j].gen
        PROVE  nt2["C"][k].kind # "ADJUST"
    <3>1. (\E l \in DOMAIN nt["C"] : nt2["C"][k] = nt["C"][l]) \/ nt2["C"][k].kind \in ks
      BY <1>0, <1>5
    <3> QED BY <3>1, <2>1, <1>3 DEF BInv, LarvalQuiet
  <2>2. ASSUME NEW k \in DOMAIN nt2["S"], nt2["S"][k].gen = ch["S"][j].gen
        PROVE  ~Bytes(nt2["S"][k])
    <3>1. CASE \E l \in DOMAIN nt["S"] : nt2["S"][k] = nt["S"][l]
      BY <3>1, <2>2 DEF BInv, LarvalQuiet
    <3>2. CASE nt2["S"][k].kind \in ks
      BY <3>2, <1>3 DEF Bytes
    <3> QED BY <3>1, <3>2, <1>0, <1>5
  <2> QED BY <2>1, <2>2
<1>11. Accounts(ch, nt2, hi)
  <2> SUFFICES ASSUME NEW f \in Ends, NEW h \in Gens, ~Cut(hi, f, h)
               PROVE  \E a, b \in Nat : Stream(nt2[Peer(f)], h, a, b) /\ Account(ch, hi, f, h, a, b)
    BY DEF Accounts
  <2>1. PICK a \in Nat, b \in Nat : Stream(nt[Peer(f)], h, a, b) /\ Account(ch, hi, f, h, a, b)
    BY DEF BInv, Accounts
  <2>2. a + 0 = a /\ b + 0 = b
    OBVIOUS
  <2>3. CASE f = e
    <3>1. Stream(nt2[p], h, a, IF h = g THEN b + 0 ELSE b)
      BY <2>1, <2>3, <1>0, <1>1 DEF Emits
    <3> QED BY <3>1, <2>1, <2>2, <2>3, <1>0
  <2>4. CASE f = p
    <3>1. Stream(nt2[e], h, IF h = g THEN a + 0 ELSE a, b)
      BY <2>1, <2>4, <1>0 DEF Takes
    <3> QED BY <3>1, <2>1, <2>2, <2>4, <1>0
  <2> QED BY <2>3, <2>4, <1>0
<1> QED BY <1>7, <1>8, <1>9, <1>10, <1>11 DEF BInv

\* A channel that starts: nothing is held, ended or known of it.
Starts(ch, nt, e, y) ==
  /\ y \in Channel /\ Absent(ch, e, y.gen) /\ ~y.EOF_SENT /\ y.gen \in Gens
  /\ Sound(e, y, FALSE, FALSE)
  /\ \A k \in DOMAIN nt[e] : nt[e][k].gen = y.gen =>
       nt[e][k].kind \notin {"CLOSE", "OPEN_session", "EXTENDED_DATA", "DATA"}
  /\ \A k \in DOMAIN nt[Peer(e)] : nt[Peer(e)][k].gen = y.gen => nt[Peer(e)][k].kind # "ADJUST"
  /\ \A l \in Ids : About(ch, Peer(e), l, y.gen) =>
       /\ ch[Peer(e)][l].type = "OPENING"
       /\ e = "S" /\ y.ctype = "session" => ch[Peer(e)][l].ctype = "session"
  /\ e = "C" => \A k \in DOMAIN nt["S"] :
       nt["S"][k].gen = y.gen /\ nt["S"][k].kind = "OPEN_session" => y.ctype = "session"

\* A new channel, that has said and held nothing, disturbs no account.
LEMMA StartBytes ==
  ASSUME NEW ch, NEW nt, NEW op, NEW hi, NEW ch2, NEW e \in Ends, NEW i \in Ids, NEW y,
         ch \in [Ends -> [Ids -> Channel \cup {Free}]], Shaped(ch), BInv(ch, nt, hi),
         hi \in [Ends -> [Gens -> Log]], ch[e][i] = Free, Starts(ch, nt, e, y), ch2 = Held(ch, e, i, y)
  PROVE  BInv(ch2, nt, hi)
<1> DEFINE p == Peer(e)
           g == y.gen
<1>0. /\ p \in Ends /\ p # e /\ Peer(p) = e /\ (\A f \in Ends : f = e \/ f = p) /\ Peer(e) = p
      /\ "C" \in Ends /\ "S" \in Ends /\ Peer("C") = "S" /\ Peer("S") = "C"
  BY PeerFacts DEF Ends, Peer
<1>1. y \in Channel /\ y # Free /\ g \in Gens
  BY UsedFacts DEF Starts
<1>2. Put(ch, ch2, e, i, y)
  BY <1>1, PutFacts DEF Held
<1>3. /\ ch2[e][i] = y
      /\ \A f \in Ends, j \in Ids : (f = e /\ j = i) \/ ch2[f][j] = ch[f][j]
  BY <1>2 DEF Put
<1>4. /\ Absent(ch, e, g) /\ ~y.EOF_SENT /\ Sound(e, y, FALSE, FALSE)
      /\ \A k \in DOMAIN nt[e] : nt[e][k].gen = g =>
           nt[e][k].kind \notin {"CLOSE", "OPEN_session", "EXTENDED_DATA", "DATA"}
      /\ \A k \in DOMAIN nt[p] : nt[p][k].gen = g => nt[p][k].kind # "ADJUST"
      /\ \A l \in Ids : About(ch, p, l, g) =>
           /\ ch[p][l].type = "OPENING"
           /\ e = "S" /\ y.ctype = "session" => ch[p][l].ctype = "session"
      /\ e = "C" => \A k \in DOMAIN nt["S"] :
           nt["S"][k].gen = g /\ nt["S"][k].kind = "OPEN_session" => y.ctype = "session"
  BY DEF Starts
<1> HIDE DEF p, g
<1>5. \A f \in Ends, l \in Ids : \A h : About(ch2, f, l, h) =>
        \/ About(ch, f, l, h) /\ ch2[f][l] = ch[f][l]
        \/ f = e /\ l = i /\ h = g /\ ch2[f][l] = y
  BY <1>3 DEF About, g
<1>6. Sounds(ch2, hi)
  <2> SUFFICES ASSUME NEW f \in Ends, NEW j \in Ids, ch2[f][j] # Free
               PROVE  Sound(f, ch2[f][j], Cut(hi, f, ch2[f][j].gen), Cut(hi, Peer(f), ch2[f][j].gen))
    BY DEF Sounds
  <2>1. CASE f = e /\ j = i
    <3>1. Sound(e, y, Cut(hi, e, y.gen), Cut(hi, p, y.gen))
      BY <1>4 DEF Sound
    <3> QED BY <3>1, <2>1, <1>0, <1>3
  <2>2. CASE ~(f = e /\ j = i)
    BY <2>2, <1>3 DEF BInv, Sounds
  <2> QED BY <2>1, <2>2
<1>7. Stopped(ch2, nt, hi)
  <2> SUFFICES ASSUME NEW f \in Ends, NEW k \in DOMAIN nt[f], nt[f][k].kind = "CLOSE", NEW j \in Ids,
                      About(ch2, f, j, nt[f][k].gen)
               PROVE  /\ ch2[f][j].EOF_SENT \/ Cut(hi, f, nt[f][k].gen)
                      /\ \/ ch2[f][j].EOF_RCVD \/ Cut(hi, Peer(f), nt[f][k].gen)
                         \/ EofBefore(nt, f, nt[f][k].gen, k)
    BY DEF BInv, Stopped
  <2>1. About(ch, f, j, nt[f][k].gen) /\ ch2[f][j] = ch[f][j]
    BY <1>4, <1>5
  <2> QED BY <2>1 DEF BInv, Stopped
<1>8. EofArrives(ch2, nt)
  <2> SUFFICES ASSUME NEW f \in Ends, NEW l \in Ids, NEW j \in Ids,
                      ch2[Peer(f)][j] # Free, ch2[Peer(f)][j].EOF_SENT,
                      About(ch2, f, l, ch2[Peer(f)][j].gen), ~ch2[f][l].EOF_RCVD
               PROVE  \E k \in DOMAIN nt[f] : nt[f][k].gen = ch2[f][l].gen /\ nt[f][k].kind = "EOF"
    BY DEF EofArrives
  <2>1. ch2[Peer(f)][j] = ch[Peer(f)][j]
    BY <1>0, <1>3, <1>4, PeerFacts
  <2>2. CASE About(ch, f, l, ch2[Peer(f)][j].gen) /\ ch2[f][l] = ch[f][l]
    BY <2>1, <2>2 DEF BInv, EofArrives
  <2>3. CASE f = e /\ ch2[Peer(f)][j].gen = g
    <3>1. About(ch, p, j, g) /\ ch[p][j].EOF_SENT
      BY <2>1, <2>3, <1>0 DEF About
    <3>2. ch[p][j].type = "OPENING" /\ Shape(p, ch[p][j])
      BY <3>1, <1>0, <1>4 DEF Shaped, About
    <3> QED BY <3>1, <3>2 DEF Shape
  <2> QED BY <2>2, <2>3, <1>5
<1>9. SameType(ch2, nt)
  <2>1. ASSUME NEW l \in Ids, NEW j \in Ids, ch2["C"][l] # Free, About(ch2, "S", j, ch2["C"][l].gen),
               ch2["S"][j].ctype = "session"
        PROVE  ch2["C"][l].ctype = "session"
    <3>1. CASE e = "C" /\ l = i
      <4>1. ch2["C"][l] = y /\ About(ch, "S", j, g) /\ ch2["S"][j] = ch["S"][j] /\ p = "S"
        BY <3>1, <2>1, <1>0, <1>3, <1>5 DEF g
      <4>2. ch["S"][j].type = "OPENING" /\ Shape("S", ch["S"][j])
        BY <4>1, <1>0, <1>4 DEF Shaped, About
      <4> QED BY <4>1, <4>2, <2>1 DEF Shape
    <3>2. CASE e = "S" /\ j = i
      <4>1. ch2["S"][j] = y /\ ch2["C"][l] = ch["C"][l] /\ p = "C"
        BY <3>2, <1>0, <1>3
      <4>2. About(ch, "C", l, g)
        BY <4>1, <2>1 DEF About, g
      <4> QED BY <4>1, <4>2, <3>2, <2>1, <1>4
    <3>3. CASE ~(e = "C" /\ l = i) /\ ~(e = "S" /\ j = i)
      <4>1. ch2["C"][l] = ch["C"][l] /\ ch2["S"][j] = ch["S"][j]
        BY <3>3, <1>0, <1>3
      <4> QED BY <4>1, <2>1 DEF BInv, SameType, About
    <3> QED BY <3>1, <3>2, <3>3
  <2>2. ASSUME NEW l \in Ids, NEW k \in DOMAIN nt["S"], About(ch2, "C", l, nt["S"][k].gen),
               nt["S"][k].kind = "OPEN_session"
        PROVE  ch2["C"][l].ctype = "session"
    BY <2>2, <1>0, <1>4, <1>5 DEF BInv, SameType
  <2>3. ASSUME NEW l \in Ids, NEW k \in DOMAIN nt["C"], About(ch2, "C", l, nt["C"][k].gen),
               nt["C"][k].kind = "EXTENDED_DATA"
        PROVE  ch2["C"][l].ctype = "session" /\ Stderr
    BY <2>3, <1>0, <1>4, <1>5 DEF BInv, SameType
  <2> QED BY <2>1, <2>2, <2>3 DEF BInv, SameType
<1>10. LarvalQuiet(ch2, nt)
  <2> SUFFICES ASSUME NEW j \in Ids, ch2["S"][j] # Free, ch2["S"][j].type = "LARVAL"
               PROVE  /\ \A l \in Ids : About(ch2, "C", l, ch2["S"][j].gen) => ~ch2["C"][l].rwin
                      /\ \A k \in DOMAIN nt["C"] : nt["C"][k].gen = ch2["S"][j].gen =>
                           nt["C"][k].kind # "ADJUST"
                      /\ \A k \in DOMAIN nt["S"] : nt["S"][k].gen = ch2["S"][j].gen => ~Bytes(nt["S"][k])
    BY DEF LarvalQuiet
  <2>1. CASE e = "S" /\ j = i
    <3>1. ch2["S"][j] = y /\ p = "C"
      BY <2>1, <1>0, <1>3
    <3>2. ASSUME NEW l \in Ids, About(ch2, "C", l, g) PROVE ~ch2["C"][l].rwin
      <4>1. About(ch, "C", l, g) /\ ch2["C"][l] = ch["C"][l]
        BY <3>1, <3>2, <2>1, <1>0, <1>5
      <4>2. ch["C"][l].type = "OPENING"
        BY <4>1, <3>1, <1>4
      <4> QED BY <4>1, <4>2, <1>0 DEF BInv, Sounds, Sound, About
    <3>3. \A k \in DOMAIN nt["C"] : nt["C"][k].gen = g => nt["C"][k].kind # "ADJUST"
      BY <3>1, <1>4
    <3>4. \A k \in DOMAIN nt["S"] : nt["S"][k].gen = g => ~Bytes(nt["S"][k])
      BY <2>1, <1>4 DEF Bytes
    <3> QED BY <3>1, <3>2, <3>3, <3>4 DEF g
  <2>2. CASE ~(e = "S" /\ j = i)
    <3>1. ch2["S"][j] = ch["S"][j]
      BY <2>2, <1>0, <1>3
    <3>2. ASSUME NEW l \in Ids, About(ch2, "C", l, ch["S"][j].gen) PROVE ~ch2["C"][l].rwin
      <4>1. CASE About(ch, "C", l, ch["S"][j].gen) /\ ch2["C"][l] = ch["C"][l]
        BY <4>1, <3>1 DEF BInv, LarvalQuiet
      <4>2. CASE "C" = e /\ ch["S"][j].gen = g
        <5>1. About(ch, p, j, g) /\ p = "S"
          BY <4>2, <3>1, <1>0 DEF About
        <5> QED BY <5>1, <3>1, <1>4
      <4> QED BY <4>1, <4>2, <3>2, <1>0, <1>5
    <3> QED BY <3>1, <3>2 DEF BInv, LarvalQuiet
  <2> QED BY <2>1, <2>2
<1>11. Accounts(ch2, nt, hi)
  <2> SUFFICES ASSUME NEW f \in Ends, NEW h \in Gens, ~Cut(hi, f, h)
               PROVE  \E a, b \in Nat : Stream(nt[Peer(f)], h, a, b) /\ Account(ch2, hi, f, h, a, b)
    BY DEF Accounts
  <2>1. PICK a \in Nat, b \in Nat : Stream(nt[Peer(f)], h, a, b) /\ Account(ch, hi, f, h, a, b)
    BY DEF BInv, Accounts
  <2>2. \A n \in Ends : Absent(ch2, n, h) => Absent(ch, n, h)
    BY <1>1, <1>3, <1>4 DEF Absent
  <2>3. hi[f][h].wrote \in Nat /\ hi[Peer(f)][h].read \in Nat
    BY PeerFacts DEF Log
  <2>4. Unsent(e, y) \in Nat /\ Unread(e, y) \in Nat
    BY <1>1, AmountFacts
  <2>5. \A l \in Ids : About(ch2, f, l, h) => hi[f][h].wrote <= b + Unsent(f, ch2[f][l])
    <3> SUFFICES ASSUME NEW l \in Ids, About(ch2, f, l, h)
                 PROVE  hi[f][h].wrote <= b + Unsent(f, ch2[f][l])
      OBVIOUS
    <3>1. CASE About(ch, f, l, h) /\ ch2[f][l] = ch[f][l]
      BY <3>1, <2>1 DEF Account
    <3>2. CASE f = e /\ h = g /\ ch2[f][l] = y
      <4>1. hi[f][h].wrote <= b
        BY <3>2, <2>1, <1>4 DEF Account
      <4> QED BY <4>1, <3>2, <2>3, <2>4
    <3> QED BY <3>1, <3>2, <1>5
  <2>6. \A l \in Ids : About(ch2, Peer(f), l, h) => a <= hi[Peer(f)][h].read + Unread(Peer(f), ch2[Peer(f)][l])
    <3> SUFFICES ASSUME NEW l \in Ids, About(ch2, Peer(f), l, h)
                 PROVE  a <= hi[Peer(f)][h].read + Unread(Peer(f), ch2[Peer(f)][l])
      OBVIOUS
    <3>1. CASE About(ch, Peer(f), l, h) /\ ch2[Peer(f)][l] = ch[Peer(f)][l]
      BY <3>1, <2>1 DEF Account
    <3>2. CASE Peer(f) = e /\ h = g /\ ch2[Peer(f)][l] = y
      <4>1. a <= hi[Peer(f)][h].read
        BY <3>2, <2>1, <1>4 DEF Account
      <4> QED BY <4>1, <3>2, <2>3, <2>4
    <3> QED BY <3>1, <3>2, <1>5, PeerFacts
  <2>7. Account(ch2, hi, f, h, a, b)
    BY <2>1, <2>2, <2>5, <2>6, PeerFacts DEF Account
  <2> QED BY <2>1, <2>7
<1> QED BY <1>6, <1>7, <1>8, <1>9, <1>10, <1>11 DEF BInv

-----------------------------------------------------------------------------
(* Handlers, in terms of the steps above.                                  *)

\* The bytes of a message.
Amount(m) == IF Bytes(m) THEN m.n ELSE 0

\* The notes o are of the kinds ks and have d bytes.
Notes(o, ks, d) ==
  \/ o = <<>> /\ ks = {} /\ d = 0
  \/ \E x \in Note : o = <<x>> /\ ks = {x.kind} /\ d = Amount(x)
  \/ \E x, z \in Note : o = <<x, z>> /\ ks = {x.kind, z.kind} /\ d = Amount(x) + Amount(z)

\* One message more on a queue.
LEMMA ToldEmits ==
  ASSUME NEW nt \in [Ends -> Seq(Packet)], NEW f \in Ends, NEW i \in Ids, NEW y \in Channel,
         NEW x \in Note, NEW q, NEW ks, NEW d, Emits(q, nt[f], y.gen, ks, d)
  PROVE  LET nt2 == Told(nt, f, Message(y, i, x)) IN
         /\ nt2 \in [Ends -> Seq(Packet)]
         /\ Emits(q, nt2[f], y.gen, ks \cup {x.kind}, d + Amount(x))
         /\ \A h \in Ends : h # f => nt2[h] = nt[h]
<1> DEFINE m == Message(y, i, x)
           nt2 == Told(nt, f, m)
<1>1. m \in Packet /\ m.kind = x.kind /\ m.gen = y.gen
  BY MessageFacts
<1>2. m.n = x.n /\ x.n \in Nat
  BY DEF Message, Note
<1> HIDE DEF m
<1>3. /\ nt2 \in [Ends -> Seq(Packet)] /\ nt2[f] = Append(nt[f], m)
      /\ \A h \in Ends : h # f => nt2[h] = nt[h]
  BY <1>1 DEF Told
<1>4. Amount(x) \in Nat /\ Amount(x) = IF Bytes(m) THEN m.n ELSE 0
  BY <1>1, <1>2 DEF Amount, Bytes
<1> HIDE DEF nt2
<1>5. Emits(q, Append(nt[f], m), y.gen, ks \cup {m.kind}, d + Amount(x))
  BY <1>1, <1>4, EmitsMore
<1> QED BY <1>1, <1>3, <1>5 DEF nt2, m

\* What a handler sends.
LEMMA SentEmits ==
  ASSUME NEW nt \in [Ends -> Seq(Packet)], NEW f \in Ends, NEW i \in Ids, NEW y \in Channel,
         NEW o, NEW ks, NEW d, Notes(o, ks, d)
  PROVE  LET nt2 == Sent(nt, f, i, Res(y, o)) IN
         /\ Emits(nt[f], nt2[f], y.gen, ks, d)
         /\ \A h \in Ends : h # f => nt2[h] = nt[h]
<1> DEFINE r == Res(y, o)
           nt2 == Sent(nt, f, i, r)
<1>1. r.c = y /\ r.out = o
  BY ResFacts
<1> HIDE DEF r
<1>2. /\ o = <<>> => nt2 = nt
      /\ \A x \in Note : o = <<x>> => nt2 = Told(nt, f, Message(y, i, x))
      /\ \A x, z \in Note : o = <<x, z>> =>
           nt2 = Told(Told(nt, f, Message(y, i, x)), f, Message(y, i, z))
  BY SMTT(30), <1>1, OutgoingFacts
<1> HIDE DEF nt2
<1>3. nt[f] \in Seq(Packet)
  OBVIOUS
<1>4. Emits(nt[f], nt[f], y.gen, {}, 0)
  BY <1>3, EmitsNone
<1>5. CASE o = <<>> /\ ks = {} /\ d = 0
  BY <1>2, <1>4, <1>5 DEF nt2, r
<1>6. CASE \E x \in Note : o = <<x>> /\ ks = {x.kind} /\ d = Amount(x)
  <2>1. PICK x \in Note : o = <<x>> /\ ks = {x.kind} /\ d = Amount(x)
    BY <1>6
  <2> DEFINE nt1 == Told(nt, f, Message(y, i, x))
  <2>2. /\ Emits(nt[f], nt1[f], y.gen, {} \cup {x.kind}, 0 + Amount(x))
        /\ \A h \in Ends : h # f => nt1[h] = nt[h]
    BY ZenonT(30), <1>4, ToldEmits
  <2>3. nt2 = nt1
    BY <1>2, <2>1
  <2> HIDE DEF nt1
  <2>4. {} \cup {x.kind} = ks /\ 0 + Amount(x) = d
    <3>1. Amount(x) \in Nat
      BY DEF Amount, Note
    <3> QED BY <2>1, <3>1
  <2> QED BY <2>2, <2>3, <2>4 DEF nt2, r
<1>7. CASE \E x, z \in Note : o = <<x, z>> /\ ks = {x.kind, z.kind} /\ d = Amount(x) + Amount(z)
  <2>1. PICK x \in Note, z \in Note : o = <<x, z>> /\ ks = {x.kind, z.kind} /\ d = Amount(x) + Amount(z)
    BY <1>7
  <2> DEFINE nt1 == Told(nt, f, Message(y, i, x))
             nt3 == Told(nt1, f, Message(y, i, z))
  <2>2. /\ Emits(nt[f], nt1[f], y.gen, {} \cup {x.kind}, 0 + Amount(x))
        /\ \A h \in Ends : h # f => nt1[h] = nt[h]
        /\ nt1 \in [Ends -> Seq(Packet)]
    BY ZenonT(40), <1>4, ToldEmits
  <2>3. nt2 = nt3
    BY <1>2, <2>1
  <2> HIDE DEF nt1
  <2> DEFINE k1 == {} \cup {x.kind}
             d1 == 0 + Amount(x)
  <2>a. Emits(nt[f], nt1[f], y.gen, k1, d1)
    BY <2>2
  <2> HIDE DEF k1, d1
  <2>4. /\ Emits(nt[f], nt3[f], y.gen, k1 \cup {z.kind}, d1 + Amount(z))
        /\ \A h \in Ends : h # f => nt3[h] = nt1[h]
    BY ZenonT(40), <2>2, <2>a, ToldEmits
  <2> HIDE DEF nt3
  <2> USE DEF k1, d1
  <2>5. k1 \cup {z.kind} = ks /\ d1 + Amount(z) = d
    <3>1. Amount(x) \in Nat /\ Amount(z) \in Nat
      BY DEF Amount, Note
    <3> QED BY <2>1, <3>1
  <2> QED BY <2>2, <2>3, <2>4, <2>5 DEF nt2, r
<1> QED BY <1>5, <1>6, <1>7 DEF Notes

\* A handler of channel g takes the u bytes of message m, of kind t if that is EOF.
Reads(m, g, u, t) ==
  /\ u = Amount(m) /\ (Bytes(m) => m.gen = g)
  /\ m.kind = "EOF" => t = "EOF" /\ m.gen = g

\* What is left of the queue when its head was read.
LEMMA PoppedTakes ==
  ASSUME NEW nt \in [Ends -> Seq(Packet)], NEW e \in Ends, nt[e] # <<>>, NEW g, NEW u, NEW t,
         Reads(nt[e][1], g, u, t)
  PROVE  Takes(nt[e], Popped(nt, e)[e], g, u, t)
<1>1. nt[e] \in Seq(Packet) /\ Popped(nt, e)[e] = Tail(nt[e])
  BY DEF Popped
<1>2. nt[e][1] \in Packet
  BY PopFacts
<1>3. u \in Nat /\ u = IF Carries(nt[e][1], g) THEN nt[e][1].n ELSE 0
  BY <1>2 DEF Reads, Amount, Carries, Packet
<1>4. /\ Bytes(nt[e][1]) => nt[e][1].gen = g
      /\ nt[e][1].kind = "EOF" => t = "EOF" /\ nt[e][1].gen = g
  BY DEF Reads
<1>5. Takes(nt[e], Tail(nt[e]), g, u, t)
  BY <1>1, <1>3, <1>4, TakesHead
<1> QED BY <1>1, <1>5


\* Channel c of end e becomes y, and x is left: what ByteStep says apart from the queues.
Change(ch, hi, hi2, e, c, y, x, ks, d, u, t) ==
  /\ Becomes(c, y, x)
  /\ t = "EOF" => y.EOF_RCVD
  /\ Logs(hi, hi2, e, y.gen)
  /\ Sound(e, y, Cut(hi2, e, y.gen), Cut(hi2, Peer(e), y.gen))
  /\ Announces(ch, e, c, y, ks, Cut(hi2, Peer(e), y.gen))
  /\ Balanced(hi, hi2, e, c, y, d, u)

\* A handler changes a channel and sends something.
LEMMA SentBytes ==
  ASSUME NEW e \in Ends, NEW i \in Ids, NEW y, NEW x, NEW o, NEW ks, NEW d, IInv, BInv(chan, net, hist),
         Notes(o, ks, d), Change(chan, hist, hist', e, chan[e][i], y, x, ks, d, 0, "none"),
         chan' = Held(chan, e, i, x), net' = Sent(net, Peer(e), i, Res(y, o))
  PROVE  BInv(chan', net', hist')
<1>1. NInv(chan, net, opens) /\ opens <= MaxOpens /\ net \in [Ends -> Seq(Packet)]
  BY DEF IInv, NInv, Typed
<1>2. y \in Channel /\ Peer(e) \in Ends /\ Peer(e) # e
  BY PeerFacts DEF Change, Becomes
<1>3. Emits(net[Peer(e)], net'[Peer(e)], y.gen, ks, d) /\ net'[e] = net[e]
  BY <1>1, <1>2, SentEmits
<1>4. Takes(net[e], net'[e], y.gen, 0, "none")
  <2>1. net[e] \in Seq(Packet)
    BY <1>1
  <2>2. Takes(net[e], net[e], y.gen, 0, "none")
    BY <2>1, TakesNone
  <2> QED BY <2>2, <1>3
<1>5. ByteStep(chan, net, hist, chan', net', hist', e, i, y, x, ks, d, 0, "none")
  BY <1>3, <1>4 DEF ByteStep, Change
<1> QED BY <1>1, <1>5, StepBytes

\* ... outside the garbage collection.
LEMMA UpdateBytes ==
  ASSUME NEW e \in Ends, NEW i \in Ids, NEW y, NEW o, NEW ks, NEW d, IInv, BInv(chan, net, hist),
         Notes(o, ks, d), Change(chan, hist, hist', e, chan[e][i], y, y, ks, d, 0, "none"),
         Update(e, i, Res(y, o))
  PROVE  BInv(chan', net', hist')
<1>1. chan' = Held(chan, e, i, y) /\ net' = Sent(net, Peer(e), i, Res(y, o))
  BY ResFacts DEF Update, Held, Sent
<1> QED BY <1>1, SentBytes

\* ... of the message at the head.
LEMMA AnswerBytes ==
  ASSUME NEW e \in Ends, NEW i \in Ids, NEW y, NEW o, NEW ks, NEW d, NEW u, NEW t,
         IInv, BInv(chan, net, hist), net[e] # <<>>,
         Notes(o, ks, d), Reads(net[e][1], y.gen, u, t),
         Change(chan, hist, hist', e, chan[e][i], y, y, ks, d, u, t),
         Answer(e, i, Res(y, o))
  PROVE  BInv(chan', net', hist')
<1> DEFINE nt2 == Popped(net, e)
<1>1. NInv(chan, net, opens) /\ opens <= MaxOpens /\ net \in [Ends -> Seq(Packet)]
  BY DEF IInv, NInv, Typed
<1>2. y \in Channel /\ Peer(e) \in Ends /\ Peer(e) # e
  BY PeerFacts DEF Change, Becomes
<1>a. chan' = Held(chan, e, i, y) /\ net' = Sent(nt2, Peer(e), i, Res(y, o))
  <2>1. chan' = Held(chan, e, i, y)
    BY ResFacts DEF Answer, Held
  <2> DEFINE w == Outgoing(i, Res(y, o))
  <2>2. net' = [net EXCEPT ![e] = Tail(@), ![Peer(e)] = @ \o w]
    BY DEF Answer
  <2> HIDE DEF w
  <2>3. net' = [[net EXCEPT ![e] = Tail(@)] EXCEPT ![Peer(e)] = @ \o w]
    BY <2>2, <1>1, PeerFacts
  <2> QED BY <2>1, <2>3 DEF w, Sent, Popped
<1>b. nt2 \in [Ends -> Seq(Packet)] /\ nt2[Peer(e)] = net[Peer(e)]
  BY <1>1, <1>2, PopFacts DEF Popped
<1>4. Takes(net[e], nt2[e], y.gen, u, t)
  BY <1>1, PoppedTakes
<1> HIDE DEF nt2
<1>3. Emits(nt2[Peer(e)], net'[Peer(e)], y.gen, ks, d) /\ net'[e] = nt2[e]
  BY SMTT(30), <1>a, <1>b, <1>2, SentEmits
<1>5. ByteStep(chan, net, hist, chan', net', hist', e, i, y, y, ks, d, u, t)
  BY <1>a, <1>b, <1>3, <1>4 DEF ByteStep, Change
<1> QED BY <1>1, <1>5, StepBytes

\* A handler leaves the channel alone.
LEMMA IgnoreAnswers ==
  ASSUME NEW e \in Ends, NEW i \in Ids, IInv, Ignore(e), chan[e][i] # Free
  PROVE  Answer(e, i, Res(chan[e][i], <<>>))
<1> DEFINE c == chan[e][i]
           r == Res(c, <<>>)
<1>1. /\ net \in [Ends -> Seq(Packet)] /\ chan \in [Ends -> [Ids -> Channel \cup {Free}]]
      /\ c \in Channel
  BY DEF IInv, NInv, Typed
<1>2. r.c = c /\ Outgoing(i, r) = <<>>
  BY ResFacts DEF Outgoing
<1> HIDE DEF r
<1>3. chan' = [chan EXCEPT ![e][i] = r.c]
  BY <1>1, <1>2 DEF Ignore
<1>4. net' = [net EXCEPT ![e] = Tail(@), ![Peer(e)] = @ \o <<>>]
  <2>1. net[Peer(e)] \o <<>> = net[Peer(e)]
    <3>1. net[Peer(e)] \in Seq(Packet)
      BY <1>1, PeerFacts
    <3> QED BY <3>1
  <2> QED BY <2>1, <1>1, PeerFacts DEF Ignore
<1> QED BY <1>2, <1>3, <1>4 DEF Answer, r

\* A message is read that says nothing of bytes, and nothing is done.
LEMMA IgnoreBytes ==
  ASSUME NEW e \in Ends, IInv, BInv(chan, net, hist), Ignore(e), net[e] # <<>>, hist' = hist,
         ~Bytes(net[e][1]), net[e][1].kind # "EOF"
  PROVE  BInv(chan', net', hist')
<1>1. net \in [Ends -> Seq(Packet)] /\ Peer(e) \in Ends /\ Peer(e) # e
  BY PeerFacts DEF IInv, NInv, Typed
<1>2. chan' = chan /\ net' = Popped(net, e)
  BY DEF Ignore, Popped
<1>3. net'[Peer(e)] = net[Peer(e)] /\ net[Peer(e)] \in Seq(Packet)
  BY <1>1, <1>2, PopFacts DEF Popped
<1>4. Reads(net[e][1], 0, 0, "none")
  BY DEF Reads, Amount
<1>5. Takes(net[e], net'[e], 0, 0, "none")
  BY <1>1, <1>2, <1>4, PoppedTakes
<1>6. Emits(net[Peer(e)], net'[Peer(e)], 0, {}, 0)
  BY <1>3, EmitsNone
<1> DEFINE ks == {}
<1>k. /\ ks \cap {"EOW", "CLOSE", "EXTENDED_DATA", "ADJUST", "DATA"} = {}
      /\ "OPEN_session" \in ks => \A l \in Ids : ~About(chan, "C", l, 0)
      /\ Emits(net[Peer(e)], net'[Peer(e)], 0, ks, 0)
  BY <1>6
<1> HIDE DEF ks
<1>7. BInv(chan, net', hist)
  BY <1>5, <1>k, WireBytes
<1> QED BY <1>2, <1>7


\* What is known of a channel in use.
Known(e, c) ==
  /\ c # Free /\ c \in Channel /\ c.gen \in Gens /\ Shape(e, c)
  /\ Sound(e, c, Cut(hist, e, c.gen), Cut(hist, Peer(e), c.gen))
  /\ Cut(hist, e, c.gen) \in BOOLEAN /\ Cut(hist, Peer(e), c.gen) \in BOOLEAN
  /\ hist[e][c.gen] \in Log

\* The invariants, read for one channel in use.
LEMMA KnownFacts ==
  ASSUME NEW e \in Ends, NEW i \in Ids, IInv, BInv(chan, net, hist), chan[e][i] # Free
  PROVE  Known(e, chan[e][i])
<1>1. /\ chan[e][i] \in Channel /\ chan[e][i].gen \in 1..opens /\ Shape(e, chan[e][i])
      /\ opens \in Nat /\ opens <= MaxOpens /\ hist \in [Ends -> [Gens -> Log]]
  BY DEF IInv, NInv, Typed, Shaped, SInv
<1>2. chan[e][i].gen \in Gens
  BY <1>1, ChannelsAssumption DEF Gens
<1>3. hist[e][chan[e][i].gen] \in Log /\ hist[Peer(e)][chan[e][i].gen] \in Log
  BY <1>1, <1>2, PeerFacts
<1>4. Cut(hist, e, chan[e][i].gen) \in BOOLEAN /\ Cut(hist, Peer(e), chan[e][i].gen) \in BOOLEAN
  BY <1>3 DEF Cut, Log
<1> QED BY <1>1, <1>2, <1>3, <1>4 DEF Known, BInv, Sounds

\* The history stays as it is.
LEMMA SameLogs ==
  ASSUME NEW e \in Ends, NEW g, IInv, hist' = hist
  PROVE  Logs(hist, hist', e, g)
<1>1. hist \in [Ends -> [Gens -> Log]]
  BY DEF IInv, SInv
<1> QED BY <1>1 DEF Logs

\* Messages that say nothing of bytes, EOF, CLOSE or windows.
Mild(ks) ==
  /\ ks \subseteq Kinds
  /\ "OPEN_session" \notin ks /\ "EOW" \notin ks /\ "CLOSE" \notin ks /\ "EXTENDED_DATA" \notin ks
  /\ "ADJUST" \notin ks /\ "DATA" \notin ks

\* The bytes held are natural numbers.
LEMMA HeldFacts ==
  ASSUME NEW e \in Ends, NEW c, Known(e, c)
  PROVE  /\ Unsent(e, c) \in Nat /\ Unread(e, c) \in Nat
         /\ hist[e][c.gen].wrote \in Nat /\ hist[e][c.gen].read \in Nat
<1>1. c \in Channel /\ hist[e][c.gen] \in Log
  BY DEF Known
<1> QED BY <1>1, AmountFacts DEF Log

\* A channel that stays as it is and says nothing of the kind.
LEMMA StillChange ==
  ASSUME NEW e \in Ends, NEW i \in Ids, NEW ks, IInv, BInv(chan, net, hist), chan[e][i] # Free,
         hist' = hist, Mild(ks)
  PROVE  Change(chan, hist, hist', e, chan[e][i], chan[e][i], chan[e][i], ks, 0, 0, "none")
<1> DEFINE c == chan[e][i]
<1>1. Known(e, c)
  BY KnownFacts
<1>2. Unsent(e, c) \in Nat /\ Unread(e, c) \in Nat /\ hist[e][c.gen].wrote \in Nat /\ hist[e][c.gen].read \in Nat
  BY <1>1, HeldFacts
<1> HIDE DEF c
<1>3. Logs(hist, hist', e, c.gen)
  BY SameLogs
<1>4. Becomes(c, c, c)
  BY <1>1 DEF Becomes, Known, Channel
<1>5. Announces(chan, e, c, c, ks, Cut(hist', Peer(e), c.gen))
  BY DEF Announces, Mild
<1>6. Balanced(hist, hist', e, c, c, 0, 0)
  BY <1>2 DEF Balanced
<1>7. Sound(e, c, Cut(hist', e, c.gen), Cut(hist', Peer(e), c.gen))
  BY <1>1 DEF Known
<1> QED BY <1>3, <1>4, <1>5, <1>6, <1>7 DEF Change, c


\* One message, or none.
LEMMA NotesFacts ==
  /\ Notes(<<>>, {}, 0)
  /\ \A x \in Note : Notes(<<x>>, {x.kind}, Amount(x))
  /\ \A x, z \in Note : Notes(<<x, z>>, {x.kind, z.kind}, Amount(x) + Amount(z))
  /\ \A x \in Note : Amount(x) \in Nat
BY DEF Notes, Amount, Note

\* A message without bytes.
LEMMA WordNotes ==
  ASSUME NEW k \in Kinds, k \notin {"DATA", "EXTENDED_DATA"}
  PROVE  Notes(<<Word(k)>>, {k}, 0) /\ Amount(Word(k)) = 0
<1>1. Word(k) \in Note /\ Word(k).kind = k
  BY WordFacts
<1>2. Amount(Word(k)) = 0
  BY <1>1 DEF Amount, Bytes
<1>3. Notes(<<Word(k)>>, {Word(k).kind}, Amount(Word(k)))
  BY <1>1, NotesFacts
<1> QED BY <1>1, <1>2, <1>3

\* A message of n bytes.
LEMMA PayloadNotes ==
  ASSUME NEW k \in {"DATA", "EXTENDED_DATA"}, NEW n \in Nat
  PROVE  Notes(<<Payload(k, n)>>, {k}, n) /\ Amount(Payload(k, n)) = n
<1>1. Payload(k, n) \in Note /\ Payload(k, n).kind = k
  BY PayloadFacts
<1>2. Payload(k, n).n = n
  BY DEF Payload
<1>3. Amount(Payload(k, n)) = n
  BY <1>1, <1>2 DEF Amount, Bytes
<1>4. Notes(<<Payload(k, n)>>, {Payload(k, n).kind}, Amount(Payload(k, n)))
  BY <1>1, NotesFacts
<1> QED BY <1>1, <1>3, <1>4

\* A message is sent that changes nothing.
LEMMA SayBytes ==
  ASSUME NEW e \in Ends, NEW i \in Ids, IInv, BInv(chan, net, hist), chan[e][i] # Free, hist' = hist,
         NEW k \in {"KEEPALIVE", "WINDOW_CHANGE"}, Update(e, i, Send(On(chan[e][i]), k))
  PROVE  BInv(chan', net', hist')
<1> DEFINE ks == {k}
<1>1. Mild(ks) /\ k \in Kinds
  BY DEF Mild, Kinds
<1>k. Notes(<<Word(k)>>, ks, 0)
  BY <1>1, WordNotes
<1> HIDE DEF ks
<1>2. Change(chan, hist, hist', e, chan[e][i], chan[e][i], chan[e][i], ks, 0, 0, "none")
  BY <1>1, StillChange
<1>3. Send(On(chan[e][i]), k) = Res(chan[e][i], <<Word(k)>>)
  BY WordFacts
<1>4. Update(e, i, Res(chan[e][i], <<Word(k)>>))
  BY <1>3
<1> QED BY <1>2, <1>k, <1>4, UpdateBytes


\* One lemma per action from here on: client_alive_check.
LEMMA KeepAliveBytes ==
  ASSUME IInv, BInv(chan, net, hist), KeepAlive
  PROVE  BInv(chan', net', hist')
<1> DEFINE S == {i \in Ids : chan["S"][i].type \in {"LARVAL", "OPEN"}}
           i == CHOOSE j \in S : \A k \in S : j <= k
           c == chan["S"][i]
<1>0. "S" \in Ends
  BY DEF Ends
<1>1. S # {} /\ Update("S", i, Send(On(c), "KEEPALIVE")) /\ hist' = hist
  BY DEF KeepAlive
<1>2. i \in S
  <2>1. \E j \in S : \A k \in S : j <= k
    <3>1. S \subseteq Nat /\ S # {}
      BY <1>1, ChannelsAssumption
    <3> HIDE DEF S
    <3> QED BY <3>1, LeastOf
  <2> HIDE DEF S
  <2> QED BY <2>1
<1>3. i \in Ids /\ c # Free
  BY <1>2 DEF Free
<1> HIDE DEF i
<1> QED BY <1>0, <1>1, <1>3, SayBytes

\* channel_send_window_changes.
LEMMA WindowChangeBytes ==
  ASSUME IInv, BInv(chan, net, hist), NEW i \in Ids, WindowChange(i)
  PROVE  BInv(chan', net', hist')
<1>1. "C" \in Ends /\ chan["C"][i] # Free /\ Update("C", i, Send(On(chan["C"][i]), "WINDOW_CHANGE")) /\ hist' = hist
  BY DEF WindowChange, Ends, Free
<1> QED BY <1>1, SayBytes

\* Messages that are read and ignored.
LEMMA IgnoredBytes ==
  ASSUME IInv, BInv(chan, net, hist), NEW e \in Ends, NEW kind, Incoming(e, kind), Ignore(e), hist' = hist,
         kind \notin {"DATA", "EXTENDED_DATA", "EOF"}
  PROVE  BInv(chan', net', hist')
<1>1. net[e] # <<>> /\ net[e][1].kind = kind
  BY IncomingFacts
<1>2. ~Bytes(net[e][1]) /\ net[e][1].kind # "EOF"
  BY <1>1 DEF Bytes
<1> QED BY <1>1, <1>2, IgnoreBytes

\* client_input_channel_req, exit-status.
LEMMA InputExitBytes ==
  ASSUME IInv, BInv(chan, net, hist), InputExit
  PROVE  BInv(chan', net', hist')
<1>1. "C" \in Ends /\ Incoming("C", "EXIT") /\ Ignore("C") /\ hist' = hist
  BY DEF InputExit, Ends
<1> QED BY <1>1, IgnoredBytes

\* server_input_keep_alive.
LEMMA InputKeepAliveReplyBytes ==
  ASSUME IInv, BInv(chan, net, hist), InputKeepAliveReply
  PROVE  BInv(chan', net', hist')
<1>1. "S" \in Ends /\ Incoming("S", "FAILURE") /\ Ignore("S") /\ hist' = hist
  BY DEF InputKeepAliveReply, Ends
<1> QED BY <1>1, IgnoredBytes

\* session_window_change_req.
LEMMA InputWindowChangeBytes ==
  ASSUME IInv, BInv(chan, net, hist), InputWindowChange
  PROVE  BInv(chan', net', hist')
<1>1. "S" \in Ends /\ Incoming("S", "WINDOW_CHANGE") /\ Ignore("S") /\ hist' = hist
  BY DEF InputWindowChange, Ends, Disconnect
<1> QED BY <1>1, IgnoredBytes

\* A message that says nothing of bytes is answered by a channel that stays as it is.
LEMMA ReplyBytes ==
  ASSUME NEW e \in Ends, NEW i \in Ids, IInv, BInv(chan, net, hist), chan[e][i] # Free, hist' = hist,
         NEW kind, Incoming(e, kind), kind \notin {"DATA", "EXTENDED_DATA", "EOF"},
         NEW k \in {"SUCCESS", "FAILURE"}, Answer(e, i, Send(On(chan[e][i]), k))
  PROVE  BInv(chan', net', hist')
<1> DEFINE ks == {k}
<1>1. Mild(ks) /\ k \in Kinds
  BY DEF Mild, Kinds
<1>k. Notes(<<Word(k)>>, ks, 0)
  BY <1>1, WordNotes
<1> HIDE DEF ks
<1>2. Change(chan, hist, hist', e, chan[e][i], chan[e][i], chan[e][i], ks, 0, 0, "none")
  BY <1>1, StillChange
<1>3. Answer(e, i, Res(chan[e][i], <<Word(k)>>))
  BY WordFacts
<1>4. net[e] # <<>> /\ Reads(net[e][1], chan[e][i].gen, 0, "none")
  BY IncomingFacts DEF Reads, Amount, Bytes
<1> QED BY <1>2, <1>k, <1>3, <1>4, AnswerBytes

\* client_input_channel_req, keep-alive.
LEMMA InputKeepAliveBytes ==
  ASSUME IInv, BInv(chan, net, hist), InputKeepAlive
  PROVE  BInv(chan', net', hist')
<1> DEFINE m == net["C"][1]
           i == m.to
           c == chan["C"][i]
<1>0. "C" \in Ends
  BY DEF Ends
<1>1. Incoming("C", "KEEPALIVE") /\ hist' = hist
  BY DEF InputKeepAlive
<1>2. Head(net["C"]) = m
  BY <1>0, <1>1, IncomingFacts
<1>3. \/ Ignore("C")
      \/ Answer("C", i, Send(On(c), "FAILURE")) /\ Found("C")
  BY <1>2 DEF InputKeepAlive
<1>4. CASE Ignore("C")
  BY <1>0, <1>1, <1>4, IgnoredBytes
<1>5. CASE Answer("C", i, Send(On(c), "FAILURE")) /\ Found("C")
  <2>1. i \in Ids /\ c # Free
    BY <1>2, <1>5 DEF Found, Free
  <2> QED BY <2>1, <1>0, <1>1, <1>5, ReplyBytes
<1> QED BY <1>3, <1>4, <1>5


\* Channel y is c with other buffers; nothing else that is spoken of changes.
Alike(c, y) ==
  /\ y \in Channel /\ y.type = c.type /\ y.ctype = c.ctype /\ y.gen = c.gen
  /\ y.istate = c.istate /\ y.ostate = c.ostate
  /\ y.EOF_SENT = c.EOF_SENT /\ y.EOF_RCVD = c.EOF_RCVD /\ y.rwin = c.rwin

\* Channel x is c with v bytes in its output buffer.
FilledOutput(c, x, v) ==
  /\ Alike(c, x) /\ x.pipe = c.pipe /\ x.epipe = c.epipe /\ x.input = c.input /\ x.ext = c.ext
  /\ x.efd = c.efd /\ x.output = v /\ c.output \in Nat /\ c.ext \in Nat
  /\ c.pipe \in Nat /\ c.epipe \in Nat /\ c.input \in Nat

\* The other buffers are left alone.
LEMMA OutputFill ==
  ASSUME NEW c \in Channel, NEW v \in Nat
  PROVE  FilledOutput(c, [c EXCEPT !.output = v], v)
<1> DEFINE x == [c EXCEPT !.output = v]
<1>1. Alike(c, x)
  <2>1. Plain(c, x) /\ x.rwin = c.rwin
    BY OutputSet DEF Channel
  <2> QED BY <2>1 DEF Plain, Alike
<1>2. /\ x.pipe = c.pipe /\ x.epipe = c.epipe /\ x.input = c.input /\ x.ext = c.ext
      /\ x.efd = c.efd /\ x.output = v
  BY DEF Channel
<1>3. c.output \in Nat /\ c.ext \in Nat /\ c.pipe \in Nat /\ c.epipe \in Nat /\ c.input \in Nat
  BY DEF Channel
<1> QED BY <1>1, <1>2, <1>3 DEF FilledOutput

\* Channel x is c with v bytes in its extended buffer.
FilledExt(c, x, v) ==
  /\ Alike(c, x) /\ x.pipe = c.pipe /\ x.epipe = c.epipe /\ x.input = c.input /\ x.output = c.output
  /\ x.efd = c.efd /\ x.ext = v /\ c.output \in Nat /\ c.ext \in Nat
  /\ c.pipe \in Nat /\ c.epipe \in Nat /\ c.input \in Nat

\* The other buffers are left alone.
LEMMA ExtFill ==
  ASSUME NEW c \in Channel, NEW v \in Nat
  PROVE  FilledExt(c, [c EXCEPT !.ext = v], v)
<1> DEFINE x == [c EXCEPT !.ext = v]
<1>1. Alike(c, x)
  <2>1. Plain(c, x) /\ x.rwin = c.rwin
    BY ExtSet DEF Channel
  <2> QED BY <2>1 DEF Plain, Alike
<1>2. /\ x.pipe = c.pipe /\ x.epipe = c.epipe /\ x.input = c.input /\ x.output = c.output
      /\ x.efd = c.efd /\ x.ext = v
  BY DEF Channel
<1>3. c.output \in Nat /\ c.ext \in Nat /\ c.pipe \in Nat /\ c.epipe \in Nat /\ c.input \in Nat
  BY DEF Channel
<1> QED BY <1>1, <1>2, <1>3 DEF FilledExt

\* Other buffers change nothing that is announced.
LEMMA AlikeFacts ==
  ASSUME NEW e, NEW c, NEW y, NEW ks, NEW in, Known(e, c), Alike(c, y), Mild(ks)
  PROVE  Becomes(c, y, y) /\ Announces(chan, e, c, y, ks, in)
<1>1. y # Free /\ y \in Channel
  BY UsedFacts DEF Alike
<1>2. Becomes(c, y, y)
  BY <1>1 DEF Becomes, Known, Alike
<1>3. Announces(chan, e, c, y, ks, in)
  BY DEF Announces, Mild, Alike
<1> QED BY <1>2, <1>3

\* The parts of a change that leaves the history alone.
LEMMA QuietChange ==
  ASSUME NEW e \in Ends, NEW c, NEW y, NEW ks, NEW d, NEW u, NEW t, IInv, hist' = hist,
         Becomes(c, y, y), t = "EOF" => y.EOF_RCVD,
         Sound(e, y, Cut(hist, e, c.gen), Cut(hist, Peer(e), c.gen)),
         Announces(chan, e, c, y, ks, Cut(hist, Peer(e), c.gen)),
         ~Cut(hist, e, c.gen) => Unsent(e, c) <= Unsent(e, y) + d,
         ~Cut(hist, Peer(e), c.gen) => Unread(e, c) + u <= Unread(e, y),
         Known(e, c), d \in Nat, u \in Nat
  PROVE  Change(chan, hist, hist', e, c, y, y, ks, d, u, t)
<1>1. y.gen = c.gen /\ y \in Channel
  BY DEF Becomes
<1>2. /\ Unsent(e, c) \in Nat /\ Unread(e, c) \in Nat /\ Unsent(e, y) \in Nat /\ Unread(e, y) \in Nat
      /\ hist[e][c.gen].wrote \in Nat /\ hist[e][c.gen].read \in Nat
  BY <1>1, HeldFacts, AmountFacts
<1>3. Logs(hist, hist', e, y.gen)
  BY SameLogs
<1>4. Balanced(hist, hist', e, c, y, d, u)
  BY SMTT(30), <1>1, <1>2 DEF Balanced
<1> QED BY <1>1, <1>3, <1>4 DEF Change

\* channel_input_data.
LEMMA InputDataBytes ==
  ASSUME IInv, BInv(chan, net, hist), NEW e \in Ends, InputData(e), IInv'
  PROVE  BInv(chan', net', hist')
<1> DEFINE m == net[e][1]
           c == chan[e][m.to]
           x == [c EXCEPT !.output = @ + m.n]
<1>1. Incoming(e, "DATA") /\ hist' = hist
  BY DEF InputData
<1>2. /\ net[e] # <<>> /\ Head(net[e]) = m /\ m.kind = "DATA" /\ m \in Packet
      /\ NInv(chan, net, opens)
  BY <1>1, IncomingFacts
<1>3. Found(e) /\ m.to \in Ids /\ c # Free /\ c.gen = m.gen
  BY SMTT(30), <1>1, OwnFacts
<1>4. \/ Answer(e, m.to, On(x)) /\ c.type = "OPEN" /\ c.ostate = "OPEN"
      \/ Ignore(e) /\ ~(c.type = "OPEN" /\ c.ostate = "OPEN")
  BY <1>2, <1>3 DEF InputData
<1>5. Bytes(m) /\ 1 \in DOMAIN net[e]
  BY <1>2, HeadFacts DEF Bytes
<1>6. c.type \in {"LARVAL", "OPEN"}
  BY <1>2, HeadOpened DEF Noise, Offer, Reply
<1>7. Known(e, c)
  BY <1>3, KnownFacts
<1>8. ~c.EOF_RCVD
  BY <1>2, <1>3, <1>5 DEF NInv, Ended
<1>9. Reads(m, m.gen, m.n, "none") /\ m.n \in Nat
  BY <1>2, <1>5 DEF Reads, Amount, Packet
<1>k. Notes(<<>>, {}, 0)
  BY NotesFacts
<1> DEFINE ks == {}
<1>m. Mild(ks)
  BY DEF Mild
<1> HIDE DEF ks
<1>10. CASE Answer(e, m.to, On(x)) /\ c.type = "OPEN" /\ c.ostate = "OPEN"
  <2>1. c \in Channel
    BY Zenon, <1>7 DEF Known
  <2> DEFINE v == c.output + m.n
  <2>v. v \in Nat
    <3>1. c.output \in Nat
      BY Zenon, <2>1, <1>9, OutputSet
    <3> QED BY <3>1, <1>9
  <2> HIDE DEF v
  <2>e. x = [c EXCEPT !.output = v]
    BY Zenon DEF v
  <2>f. FilledOutput(c, x, v)
    BY Zenon, <2>1, <2>v, <2>e, OutputFill
  <2> HIDE DEF x
  <2>2. /\ Alike(c, x) /\ x.pipe = c.pipe /\ x.epipe = c.epipe /\ x.input = c.input /\ x.ext = c.ext
        /\ x.efd = c.efd /\ x.output = c.output + m.n /\ c.output \in Nat /\ c.ext \in Nat
        /\ c.pipe \in Nat /\ c.epipe \in Nat /\ c.input \in Nat
    BY Zenon, <2>f DEF v, FilledOutput
  <2>3. Becomes(c, x, x) /\ Announces(chan, e, c, x, ks, Cut(hist, Peer(e), c.gen))
    BY Zenon, <2>2, <1>7, <1>m, AlikeFacts
  <2>4. Sound(e, x, Cut(hist, e, c.gen), Cut(hist, Peer(e), c.gen))
    BY ZenonT(30), <2>2, <1>7, <1>10 DEF Known, Sound, Alike
  <2>5. Unsent(e, c) <= Unsent(e, x) + 0 /\ Unread(e, c) + m.n <= Unread(e, x)
    BY SMTT(30), <2>2, <1>9 DEF Unsent, Unread
  <2>6. Change(chan, hist, hist', e, c, x, x, ks, 0, m.n, "none")
    BY ZenonT(30), <2>3, <2>4, <2>5, <1>1, <1>7, <1>9, QuietChange
  <2>7. Answer(e, m.to, Res(x, <<>>)) /\ x.gen = m.gen
    BY ZenonT(30), <2>2, <1>3, <1>10, ResFacts DEF Alike
  <2> QED BY ZenonT(30), <2>6, <2>7, <1>2, <1>3, <1>9, <1>k, AnswerBytes DEF ks
<1>11. CASE Ignore(e) /\ ~(c.type = "OPEN" /\ c.ostate = "OPEN")
  <2>1. c.type # "LARVAL"
    <3> SUFFICES ASSUME c.type = "LARVAL" PROVE FALSE
      BY SMTT(30)
    <3>1. e = "S"
      BY ZenonT(30), <1>7 DEF Known, Shape
    <3> QED BY <3>1, <1>3, <1>5 DEF BInv, LarvalQuiet
  <2>2. Cut(hist, Peer(e), c.gen)
    BY ZenonT(30), <2>1, <1>6, <1>7, <1>8, <1>11 DEF Known, Sound
  <2>3. Alike(c, c)
    BY Zenon, <1>7 DEF Alike, Known
  <2>4. Becomes(c, c, c) /\ Announces(chan, e, c, c, ks, Cut(hist, Peer(e), c.gen))
    BY SMTT(30), <2>3, <1>7, <1>m, AlikeFacts
  <2>5. Unsent(e, c) <= Unsent(e, c) + 0 /\ Sound(e, c, Cut(hist, e, c.gen), Cut(hist, Peer(e), c.gen))
    <3>1. Unsent(e, c) \in Nat
      BY <1>7, HeldFacts
    <3>2. Unsent(e, c) <= Unsent(e, c) + 0
      BY SMTT(30), <3>1
    <3> QED BY Zenon, <3>2, <1>7 DEF Known
  <2>6. Change(chan, hist, hist', e, c, c, c, ks, 0, m.n, "none")
    BY Zenon, <2>2, <2>4, <2>5, <1>1, <1>7, <1>9, QuietChange
  <2>7. Answer(e, m.to, Res(c, <<>>))
    BY <1>3, <1>11, IgnoreAnswers
  <2> QED BY <2>6, <2>7, <1>2, <1>3, <1>9, <1>k, AnswerBytes DEF ks
<1> QED BY <1>4, <1>10, <1>11


\* channel_input_extended_data.
LEMMA InputExtendedDataBytes ==
  ASSUME IInv, BInv(chan, net, hist), InputExtendedData, IInv'
  PROVE  BInv(chan', net', hist')
<1> DEFINE e == "C"
           m == net[e][1]
           c == chan[e][m.to]
           x == [c EXCEPT !.ext = @ + m.n]
<1>0. e \in Ends
  BY DEF Ends
<1>1. Incoming(e, "EXTENDED_DATA") /\ hist' = hist
  BY DEF InputExtendedData
<1>2. /\ net[e] # <<>> /\ Head(net[e]) = m /\ m.kind = "EXTENDED_DATA" /\ m \in Packet
      /\ NInv(chan, net, opens)
  BY <1>0, <1>1, IncomingFacts
<1>3. Found(e) /\ m.to \in Ids /\ c # Free /\ c.gen = m.gen
  BY <1>0, <1>1, OwnFacts
<1>5. Bytes(m) /\ 1 \in DOMAIN net[e]
  BY <1>0, <1>2, HeadFacts DEF Bytes
<1>6. c.type \in {"LARVAL", "OPEN"}
  BY <1>0, <1>2, HeadOpened DEF Noise, Offer, Reply
<1>7. Known(e, c)
  BY <1>0, <1>3, KnownFacts
<1>8. ~c.EOF_RCVD
  BY <1>0, <1>2, <1>3, <1>5 DEF NInv, Ended
<1>9. Reads(m, m.gen, m.n, "none") /\ m.n \in Nat
  BY <1>2, <1>5 DEF Reads, Amount, Packet
<1>s. c.ctype = "session" /\ Stderr
  BY SMTT(30), <1>2, <1>3, <1>5 DEF BInv, SameType, About
<1>t. c.type = "OPEN"
  BY ZenonT(30), <1>6, <1>7 DEF Known, Shape
<1>4. \/ Answer(e, m.to, On(x)) /\ c.efd
      \/ Ignore(e) /\ ~c.efd
  BY <1>2, <1>3, <1>8, <1>t DEF InputExtendedData
<1>k. Notes(<<>>, {}, 0)
  BY NotesFacts
<1> DEFINE ks == {}
<1>m. Mild(ks)
  BY DEF Mild
<1> HIDE DEF ks, e
<1>10. CASE Answer(e, m.to, On(x)) /\ c.efd
  <2>1. c \in Channel
    BY Zenon, <1>7 DEF Known
  <2> DEFINE v == c.ext + m.n
  <2>v. v \in Nat
    <3>1. c.ext \in Nat
      BY Zenon, <2>1, <1>9, ExtSet
    <3> QED BY <3>1, <1>9
  <2> HIDE DEF v
  <2>e. x = [c EXCEPT !.ext = v]
    BY Zenon DEF v
  <2>f. FilledExt(c, x, v)
    BY Zenon, <2>1, <2>v, <2>e, ExtFill
  <2> HIDE DEF x
  <2>2. /\ Alike(c, x) /\ x.pipe = c.pipe /\ x.epipe = c.epipe /\ x.input = c.input /\ x.output = c.output
        /\ x.efd = c.efd /\ x.ext = c.ext + m.n /\ c.output \in Nat /\ c.ext \in Nat
        /\ c.pipe \in Nat /\ c.epipe \in Nat /\ c.input \in Nat
    BY Zenon, <2>f DEF v, FilledExt
  <2>3. Becomes(c, x, x) /\ Announces(chan, e, c, x, ks, Cut(hist, Peer(e), c.gen))
    BY Zenon, <2>2, <1>7, <1>m, AlikeFacts
  <2>4. Sound(e, x, Cut(hist, e, c.gen), Cut(hist, Peer(e), c.gen))
    BY ZenonT(30), <2>2, <1>7, <1>8, <1>10, <1>s, <1>t DEF Known, Sound, Alike, e
  <2>5. Unsent(e, c) <= Unsent(e, x) + 0 /\ Unread(e, c) + m.n <= Unread(e, x)
    BY SMTT(30), <2>2, <1>9 DEF Unsent, Unread, e
  <2>6. Change(chan, hist, hist', e, c, x, x, ks, 0, m.n, "none")
    BY ZenonT(30), <2>3, <2>4, <2>5, <1>0, <1>1, <1>7, <1>9, QuietChange
  <2>7. Answer(e, m.to, Res(x, <<>>)) /\ x.gen = m.gen
    BY ZenonT(30), <2>2, <1>3, <1>10, ResFacts DEF Alike
  <2> QED BY ZenonT(30), <2>6, <2>7, <1>0, <1>2, <1>3, <1>9, <1>k, AnswerBytes DEF ks
<1>11. CASE Ignore(e) /\ ~c.efd
  <2>2. Cut(hist, Peer(e), c.gen)
    BY Zenon, <1>7, <1>11, <1>s DEF Known, Sound, e
  <2>3. Alike(c, c)
    BY ZenonT(30), <1>7 DEF Alike, Known
  <2>4. Becomes(c, c, c) /\ Announces(chan, e, c, c, ks, Cut(hist, Peer(e), c.gen))
    BY SMTT(30), <2>3, <1>7, <1>m, AlikeFacts
  <2>5. Unsent(e, c) <= Unsent(e, c) + 0 /\ Sound(e, c, Cut(hist, e, c.gen), Cut(hist, Peer(e), c.gen))
    <3>1. Unsent(e, c) \in Nat
      BY <1>0, <1>7, HeldFacts
    <3>2. Unsent(e, c) <= Unsent(e, c) + 0
      BY SMTT(30), <3>1
    <3> QED BY Zenon, <3>2, <1>7 DEF Known
  <2>6. Change(chan, hist, hist', e, c, c, c, ks, 0, m.n, "none")
    BY Zenon, <2>2, <2>4, <2>5, <1>0, <1>1, <1>7, <1>9, QuietChange
  <2>7. Answer(e, m.to, Res(c, <<>>))
    BY <1>0, <1>3, <1>11, IgnoreAnswers
  <2> QED BY ZenonT(30), <2>6, <2>7, <1>0, <1>2, <1>3, <1>9, <1>k, AnswerBytes DEF ks
<1> QED BY <1>4, <1>10, <1>11 DEF e

\* channel_input_window_adjust.
LEMMA InputAdjustBytes ==
  ASSUME IInv, BInv(chan, net, hist), InputAdjust, IInv'
  PROVE  BInv(chan', net', hist')
<1> DEFINE e == "C"
           m == net[e][1]
           c == chan[e][m.to]
           x == [c EXCEPT !.rwin = TRUE]
<1>0. e \in Ends
  BY DEF Ends
<1>1. Incoming(e, "ADJUST") /\ hist' = hist
  BY DEF InputAdjust
<1>2. /\ net[e] # <<>> /\ Head(net[e]) = m /\ m.kind = "ADJUST" /\ m \in Packet
      /\ NInv(chan, net, opens)
  BY <1>0, <1>1, IncomingFacts
<1>3. Found(e) /\ m.to \in Ids /\ c # Free /\ c.gen = m.gen
  BY <1>0, <1>1, OwnFacts
<1>4. Answer(e, m.to, On(x))
  BY <1>2, <1>3 DEF InputAdjust
<1>5. 1 \in DOMAIN net[e]
  BY <1>0, <1>2, HeadFacts
<1>6. c.type \in {"LARVAL", "OPEN"}
  BY <1>0, <1>2, HeadOpened DEF Noise, Offer, Reply
<1>7. Known(e, c)
  BY <1>0, <1>3, KnownFacts
\* The server has started the program: it does not wait for it any more.
<1>8. \A j \in Ids : About(chan, "S", j, c.gen) => chan["S"][j].type # "LARVAL"
  BY <1>2, <1>3, <1>5 DEF BInv, LarvalQuiet, About
<1>9. Reads(m, m.gen, 0, "none")
  BY SMTT(30), <1>2 DEF Reads, Amount, Bytes
<1>k. Notes(<<>>, {}, 0)
  BY NotesFacts
<1>10. c \in Channel
  BY ZenonT(30), <1>7 DEF Known
<1>11. /\ x \in Channel /\ x.type = c.type /\ x.ctype = c.ctype /\ x.gen = c.gen
       /\ x.istate = c.istate /\ x.ostate = c.ostate
       /\ x.EOF_SENT = c.EOF_SENT /\ x.EOF_RCVD = c.EOF_RCVD
       /\ x.pipe = c.pipe /\ x.epipe = c.epipe /\ x.input = c.input /\ x.output = c.output
       /\ x.efd = c.efd /\ x.ext = c.ext
  BY ZenonT(30), <1>10 DEF Channel
<1> HIDE DEF x, e
<1>12. Becomes(c, x, x)
  BY Zenon, <1>7, <1>11, UsedFacts DEF Becomes, Known
<1> DEFINE ks == {}
<1>13. Announces(chan, e, c, x, ks, Cut(hist, Peer(e), c.gen))
  BY ZenonT(30), <1>8, <1>11 DEF Announces
<1> HIDE DEF ks
<1>14. Sound(e, x, Cut(hist, e, c.gen), Cut(hist, Peer(e), c.gen))
  BY ZenonT(40), <1>6, <1>7, <1>11 DEF Known, Sound
<1>15. Unsent(e, c) <= Unsent(e, x) + 0 /\ Unread(e, c) + 0 <= Unread(e, x)
  <2>1. Unsent(e, x) = Unsent(e, c) /\ Unread(e, x) = Unread(e, c)
    BY <1>11 DEF Unsent, Unread
  <2>2. Unsent(e, c) \in Nat /\ Unread(e, c) \in Nat
    BY <1>0, <1>7, HeldFacts
  <2> QED BY <2>1, <2>2
<1>16. Change(chan, hist, hist', e, c, x, x, ks, 0, 0, "none")
  BY ZenonT(30), <1>12, <1>13, <1>14, <1>15, <1>0, <1>1, <1>7, QuietChange
<1>17. Answer(e, m.to, Res(x, <<>>)) /\ x.gen = m.gen
  BY <1>3, <1>4, <1>11, ResFacts DEF e
<1> QED BY <1>16, <1>17, <1>0, <1>2, <1>3, <1>9, <1>k, AnswerBytes DEF ks

-----------------------------------------------------------------------------
(* Handlers that say nothing, and garbage collection.                      *)

\* Channel c of end e becomes y and nothing is said, lost or ended.
Calm(e, c, y) ==
  /\ Becomes(c, y, y)
  /\ y.EOF_SENT => c.EOF_SENT
  /\ y.rwin => c.rwin
  /\ Sound(e, y, Cut(hist, e, c.gen), Cut(hist, Peer(e), c.gen))
  /\ Cut(hist, e, c.gen) \/ Unsent(e, c) <= Unsent(e, y)
  /\ Cut(hist, Peer(e), c.gen) \/ Unread(e, c) <= Unread(e, y)

\* A change that moves no byte and announces nothing.
LEMMA CalmChange ==
  ASSUME NEW e \in Ends, NEW c, NEW y, NEW t, NEW ks, Mild(ks), IInv, hist' = hist, Known(e, c),
         Calm(e, c, y), t = "EOF" => y.EOF_RCVD
  PROVE  Change(chan, hist, hist', e, c, y, y, ks, 0, 0, t)
<1>1. y \in Channel /\ Becomes(c, y, y)
  BY DEF Calm, Becomes
<1>2. Unsent(e, c) \in Nat /\ Unread(e, c) \in Nat /\ Unsent(e, y) \in Nat /\ Unread(e, y) \in Nat
  BY <1>1, HeldFacts, AmountFacts
<1>3. Announces(chan, e, c, y, ks, Cut(hist, Peer(e), c.gen))
  BY DEF Announces, Mild, Calm
<1>4. /\ ~Cut(hist, e, c.gen) => Unsent(e, c) <= Unsent(e, y)
      /\ ~Cut(hist, Peer(e), c.gen) => Unread(e, c) <= Unread(e, y)
  BY DEF Calm
<1>5. /\ ~Cut(hist, e, c.gen) => Unsent(e, c) <= Unsent(e, y) + 0
      /\ ~Cut(hist, Peer(e), c.gen) => Unread(e, c) + 0 <= Unread(e, y)
  BY <1>2, <1>4
<1>6. Sound(e, y, Cut(hist, e, c.gen), Cut(hist, Peer(e), c.gen))
  BY DEF Calm
<1> QED BY <1>1, <1>3, <1>5, <1>6, QuietChange

\* A message without bytes is handled in silence.
LEMMA CalmAnswer ==
  ASSUME NEW e \in Ends, NEW i \in Ids, NEW y, NEW kind, IInv, BInv(chan, net, hist), hist' = hist,
         chan[e][i] # Free, Incoming(e, kind), kind \notin {"DATA", "EXTENDED_DATA"},
         Calm(e, chan[e][i], y), kind = "EOF" => y.EOF_RCVD /\ net[e][1].gen = chan[e][i].gen,
         Answer(e, i, Res(y, <<>>))
  PROVE  BInv(chan', net', hist')
<1> DEFINE ks == {}
           c == chan[e][i]
<1>1. Mild(ks)
  BY DEF Mild
<1>2. Notes(<<>>, ks, 0)
  BY NotesFacts
<1> HIDE DEF ks
<1>3. net[e] # <<>> /\ net[e][1].kind = kind
  BY IncomingFacts
<1>4. y.gen = c.gen
  BY DEF Calm, Becomes
<1>5. Reads(net[e][1], y.gen, 0, kind)
  BY <1>3, <1>4 DEF Reads, Amount, Bytes
<1>6. Known(e, c)
  BY KnownFacts
<1>7. Change(chan, hist, hist', e, c, y, y, ks, 0, 0, kind)
  BY <1>1, <1>6, CalmChange
<1> QED BY <1>2, <1>3, <1>5, <1>7, AnswerBytes

\* A channel that stays as it is.
LEMMA SameCalm ==
  ASSUME NEW e \in Ends, NEW c, Known(e, c)
  PROVE  Calm(e, c, c)
<1>1. Unsent(e, c) \in Nat /\ Unread(e, c) \in Nat
  BY HeldFacts
<1>2. Unsent(e, c) <= Unsent(e, c) /\ Unread(e, c) <= Unread(e, c)
  BY <1>1
<1>3. Becomes(c, c, c) /\ Sound(e, c, Cut(hist, e, c.gen), Cut(hist, Peer(e), c.gen))
  BY DEF Becomes, Known
<1> QED BY <1>2, <1>3 DEF Calm

\* A handler's result, then channel_garbage_collect.
LEMMA CollectBytes ==
  ASSUME NEW e \in Ends, NEW i \in Ids, NEW y, NEW o, NEW ks, NEW d, IInv, BInv(chan, net, hist),
         Notes(o, ks, d), o = <<>> \/ \E w : o = <<w>>,
         Change(chan, hist, hist', e, chan[e][i], y, y, ks, d, 0, "none"),
         y.EOF_SENT => chan[e][i].EOF_SENT, y.EOF_RCVD => chan[e][i].EOF_RCVD,
         UpdateAndCollect(e, i, Res(y, o))
  PROVE  BInv(chan', net', hist')
<1> DEFINE c == chan[e][i]
           g == Collect(e, i, Res(y, o))
           x == IF g.free THEN Free ELSE g.r.c
           ye == [y EXCEPT !.CLOSE_SENT = TRUE]
           oc == Append(o, CloseNote)
           kc == ks \cup {"CLOSE"}
<1>1. y \in Channel /\ Becomes(c, y, y) /\ y # Free
  BY UsedFacts DEF Change, Becomes
<1>2. LeftAlone(y, o, g) \/ Closing(y, o, g) \/ Gone(e, i, y, o, g)
  BY <1>1, CollectFacts
<1>3. chan' = Held(chan, e, i, x) /\ net' = Sent(net, Peer(e), i, g.r)
  BY DEF UpdateAndCollect, Held, Sent
<1> HIDE DEF g
<1>4. Res(y, o).c = y /\ Res(y, o).out = o /\ Res(y, oc).c = y /\ Res(y, oc).out = oc
      /\ Res(ye, oc).c = ye
  <2> HIDE DEF ye, oc
  <2> QED BY ResFacts
<1>5. Notes(oc, kc, d)
  <2>1. CloseNote \in Note /\ CloseNote.kind = "CLOSE" /\ Amount(CloseNote) = 0
    BY DEF CloseNote, Note, Kinds, Amount, Bytes
  <2>2. CASE o = <<>>
    <3>1. oc = <<CloseNote>> /\ ks = {} /\ d = 0
      BY <2>2 DEF Notes
    <3>2. kc = {CloseNote.kind}
      BY <3>1, <2>1
    <3> HIDE DEF oc, kc
    <3>3. Notes(<<CloseNote>>, {CloseNote.kind}, Amount(CloseNote))
      BY <2>1, NotesFacts
    <3> QED BY <3>1, <3>2, <3>3, <2>1
  <2>3. CASE \E w : o = <<w>>
    <3>1. PICK w \in Note : o = <<w>> /\ ks = {w.kind} /\ d = Amount(w)
      BY <2>3 DEF Notes
    <3>2. oc = <<w, CloseNote>> /\ kc = {w.kind, CloseNote.kind}
      <4>1. Append(<<w>>, CloseNote) = <<w, CloseNote>>
        BY AppendOne
      <4> QED BY <4>1, <3>1, <2>1
    <3> HIDE DEF oc, kc
    <3>3. Notes(<<w, CloseNote>>, {w.kind, CloseNote.kind}, Amount(w) + Amount(CloseNote)) /\ Amount(w) \in Nat
      BY <2>1, NotesFacts
    <3>4. Amount(w) + Amount(CloseNote) = d
      BY <3>1, <3>3, <2>1
    <3> QED BY <3>2, <3>3, <3>4
  <2> QED BY <2>2, <2>3
<1>6. /\ ye \in Channel /\ ye.type = y.type /\ ye.ctype = y.ctype /\ ye.gen = y.gen /\ ye.istate = y.istate
      /\ ye.ostate = y.ostate /\ ye.EOF_SENT = y.EOF_SENT /\ ye.EOF_RCVD = y.EOF_RCVD
      /\ ye.rwin = y.rwin /\ ye.pipe = y.pipe /\ ye.epipe = y.epipe /\ ye.input = y.input
      /\ ye.output = y.output /\ ye.ext = y.ext /\ ye.efd = y.efd
  BY <1>1 DEF Channel
<1> HIDE DEF ye, oc, kc
\* A channel whose halves are both closed says so.
<1>7. ASSUME BothClosed(y), NEW z, NEW v, z \in {y, ye}, v \in {z, Free}
      PROVE  Change(chan, hist, hist', e, c, z, v, kc, d, 0, "none")
  <2>1. /\ z \in Channel /\ z.type = y.type /\ z.ctype = y.ctype /\ z.gen = y.gen /\ z.istate = y.istate
        /\ z.ostate = y.ostate /\ z.EOF_SENT = y.EOF_SENT /\ z.EOF_RCVD = y.EOF_RCVD
        /\ z.rwin = y.rwin /\ z.pipe = y.pipe /\ z.epipe = y.epipe /\ z.input = y.input
        /\ z.output = y.output /\ z.ext = y.ext /\ z.efd = y.efd
    BY <1>1, <1>6, <1>7
  <2>2. Becomes(c, z, v)
    BY <2>1, <1>1, <1>7 DEF Becomes, BothClosed
  <2>3. Announces(chan, e, c, z, kc, Cut(hist', Peer(e), z.gen))
    <3>1. Announces(chan, e, c, y, ks, Cut(hist', Peer(e), y.gen))
      BY DEF Change
    <3>2. kc = ks \cup {"CLOSE"} /\ "CLOSE" \in Kinds
      BY DEF kc, Kinds
    <3> QED BY <3>1, <3>2, <2>1, <1>7 DEF Announces, BothClosed
  <2>4. Sound(e, z, Cut(hist', e, z.gen), Cut(hist', Peer(e), z.gen))
    <3>1. Sound(e, y, Cut(hist', e, y.gen), Cut(hist', Peer(e), y.gen))
      BY DEF Change
    <3> QED BY <3>1, <2>1 DEF Sound
  <2>5. Logs(hist, hist', e, z.gen)
    BY <2>1 DEF Change
  <2>6. Balanced(hist, hist', e, c, z, d, 0)
    <3>1. Unsent(e, z) = Unsent(e, y) /\ Unread(e, z) = Unread(e, y)
      BY <2>1 DEF Unsent, Unread
    <3>2. Balanced(hist, hist', e, c, y, d, 0)
      BY DEF Change
    <3> QED BY <3>1, <3>2, <2>1 DEF Balanced
  <2> QED BY <2>2, <2>3, <2>4, <2>5, <2>6 DEF Change
<1>8. CASE LeftAlone(y, o, g)
  <2>1. x = y /\ net' = Sent(net, Peer(e), i, Res(y, o))
    BY <1>3, <1>4, <1>8 DEF LeftAlone
  <2>2. chan' = Held(chan, e, i, y)
    BY <2>1, <1>3
  <2> QED BY <2>1, <2>2, SentBytes
<1>9. CASE Closing(y, o, g)
  <2>1. g.r = Res(ye, oc) /\ ~g.free /\ BothClosed(y)
    BY <1>9 DEF Closing, ye, oc, MayClose
  <2>2. chan' = Held(chan, e, i, ye) /\ net' = Sent(net, Peer(e), i, Res(ye, oc))
    BY <2>1, <1>3, <1>4
  <2>3. Change(chan, hist, hist', e, c, ye, ye, kc, d, 0, "none")
    BY <2>1, <1>7
  <2> QED BY <2>2, <2>3, <1>5, SentBytes
<1>10. CASE Gone(e, i, y, o, g)
  <2>1. chan' = Held(chan, e, i, Free) /\ g.r.c.rid = y.rid /\ g.r.c.gen = y.gen
    BY <1>3, <1>10 DEF Gone
  <2>2. CASE g.r.out = o
    <3>1. Sent(net, Peer(e), i, Res(y, o)) = Sent(net, Peer(e), i, g.r)
      BY <2>1, <2>2, <1>4, SentSame
    <3>2. Becomes(c, y, Free)
      BY <1>1, <1>10 DEF Becomes, Gone
    <3>3. Change(chan, hist, hist', e, c, y, Free, ks, d, 0, "none")
      BY <3>2 DEF Change
    <3>4. net' = Sent(net, Peer(e), i, Res(y, o))
      BY <3>1, <1>3
    <3> QED BY <3>3, <3>4, <2>1, SentBytes
  <2>3. CASE g.r.out = oc /\ MayClose(y)
    <3>1. Sent(net, Peer(e), i, Res(y, oc)) = Sent(net, Peer(e), i, g.r)
      BY <2>1, <2>3, <1>4, SentSame
    <3>2. Change(chan, hist, hist', e, c, y, Free, kc, d, 0, "none")
      BY <2>3, <1>7 DEF MayClose
    <3>3. net' = Sent(net, Peer(e), i, Res(y, oc))
      BY <3>1, <1>3
    <3> QED BY <3>2, <3>3, <2>1, <1>5, SentBytes
  <2> QED BY <2>2, <2>3, <1>10 DEF Gone, oc
<1> QED BY <1>2, <1>8, <1>9, <1>10

-----------------------------------------------------------------------------
(* The halves of a channel and its bytes.                                  *)

\* eow@openssh.com.
LEMMA InputEowBytes ==
  ASSUME IInv, BInv(chan, net, hist), NEW e \in Ends, InputEow(e)
  PROVE  BInv(chan', net', hist')
<1> DEFINE m == net[e][1]
           c == chan[e][m.to]
           x == [c EXCEPT !.istate = "CLOSED"]
<1>1. Incoming(e, "EOW") /\ hist' = hist
  BY DEF InputEow
<1>2. /\ net[e] # <<>> /\ Head(net[e]) = m /\ m.kind = "EOW" /\ m \in Packet
      /\ NInv(chan, net, opens)
  BY <1>1, IncomingFacts
<1>3. Found(e) /\ m.to \in Ids /\ c # Free /\ c.gen = m.gen
  BY <1>1, OwnFacts
<1>4. Answer(e, m.to, RcvdEow(On(c)))
  BY <1>2, <1>3 DEF InputEow
<1>5. 1 \in DOMAIN net[e]
  BY <1>2, HeadFacts
<1>6. c.type \in {"LARVAL", "OPEN"}
  BY <1>2, HeadOpened DEF Noise, Offer, Reply
<1>7. Known(e, c)
  BY <1>3, KnownFacts
<1>8. Cut(hist, e, c.gen)
  BY <1>2, <1>3, <1>5 DEF BInv, Stopped
<1>9. On(c).c = c /\ On(c) = Res(c, <<>>)
  BY ResFacts
<1>10. CASE c.istate = "OPEN"
  <2>1. c \in Channel
    BY Zenon, <1>7 DEF Known
  <2>2. RcvdEow(On(c)) = Set(On(c), x)
    BY SMTT(30), <1>9, <1>10 DEF RcvdEow
  <2>3. /\ x \in Channel /\ x.type = c.type /\ x.ctype = c.ctype /\ x.gen = c.gen
        /\ x.istate = "CLOSED" /\ x.ostate = c.ostate
        /\ x.EOF_SENT = c.EOF_SENT /\ x.EOF_RCVD = c.EOF_RCVD /\ x.rwin = c.rwin
        /\ x.pipe = c.pipe /\ x.epipe = c.epipe /\ x.input = c.input /\ x.output = c.output
        /\ x.efd = c.efd /\ x.ext = c.ext
    BY SMTT(30), <2>1 DEF Channel, Halves
  <2> HIDE DEF x
  <2>4. Becomes(c, x, x)
    BY ZenonT(30), <1>7, <2>3, UsedFacts DEF Becomes, Known
  <2>5. Sound(e, x, Cut(hist, e, c.gen), Cut(hist, Peer(e), c.gen))
    BY ZenonT(30), <1>7, <1>8, <2>3 DEF Known, Sound
  <2>6. Unread(e, c) <= Unread(e, x)
    <3>1. Unread(e, x) = Unread(e, c)
      BY <2>3 DEF Unread
    <3>2. Unread(e, c) \in Nat
      BY <1>7, HeldFacts
    <3> QED BY <3>1, <3>2
  <2>7. Calm(e, c, x)
    BY Zenon, <2>3, <2>4, <2>5, <2>6, <1>8 DEF Calm
  <2>8. Answer(e, m.to, Res(x, <<>>))
    BY <2>2, <1>4, <1>9, ResFacts
  <2> QED BY Zenon, <2>7, <2>8, <1>1, <1>3, CalmAnswer
<1>11. CASE c.istate # "OPEN"
  <2>1. Answer(e, m.to, Res(c, <<>>))
    BY <1>4, <1>9, <1>11 DEF RcvdEow
  <2>2. Calm(e, c, c)
    BY SMTT(30), <1>7, SameCalm
  <2> QED BY <2>1, <2>2, <1>1, <1>3, CalmAnswer
<1> QED BY <1>10, <1>11

\* channel_input_ieof.
LEMMA InputEofBytes ==
  ASSUME IInv, BInv(chan, net, hist), NEW e \in Ends, InputEof(e)
  PROVE  BInv(chan', net', hist')
<1> DEFINE m == net[e][1]
           c == chan[e][m.to]
           o == IF c.ostate = "OPEN" THEN "WAIT_DRAIN" ELSE c.ostate
           x == [c EXCEPT !.EOF_RCVD = TRUE, !.ostate = o]
           y == [x EXCEPT !.ostate = "CLOSED"]
<1>1. Incoming(e, "EOF") /\ hist' = hist
  BY DEF InputEof
<1>2. /\ net[e] # <<>> /\ Head(net[e]) = m /\ m.kind = "EOF" /\ m \in Packet
      /\ NInv(chan, net, opens)
  BY <1>1, IncomingFacts
<1>3. Found(e) /\ m.to \in Ids /\ c # Free /\ c.gen = m.gen
  BY <1>1, OwnFacts
<1>4. Answer(e, m.to, RcvdIeof(e, On(c)))
  BY <1>2, <1>3 DEF InputEof
<1>6. c.type \in {"LARVAL", "OPEN"}
  BY <1>2, HeadOpened DEF Noise, Offer, Reply
<1>7. Known(e, c)
  BY <1>3, KnownFacts
<1>c. c \in Channel
  BY <1>7 DEF Known
<1>8. \/ RcvdIeof(e, On(c)) = Res(x, <<>>)
      \/ RcvdIeof(e, On(c)) = Res(y, <<>>) /\ x.output = 0 /\ ~EfdOutputActive(e, x)
  <2>1. On(c).c = c /\ On(c) = Res(c, <<>>)
    BY ResFacts
  <2>2. \/ RcvdIeof(e, On(c)) = Set(On(c), x)
        \/ RcvdIeof(e, On(c)) = ObufEmpty(Set(On(c), x)) /\ x.output = 0 /\ ~EfdOutputActive(e, x)
    BY <2>1, Zenon DEF RcvdIeof
  <2> HIDE DEF x
  <2>3. Set(On(c), x) = Res(x, <<>>) /\ Res(x, <<>>).c = x
    BY <2>1, ResFacts
  <2>4. ObufEmpty(Res(x, <<>>)) = Set(Res(x, <<>>), y)
    BY <2>3, Zenon DEF ObufEmpty
  <2> HIDE DEF y
  <2>5. Set(Res(x, <<>>), y) = Res(y, <<>>)
    BY SMTT(30), ResFacts
  <2> QED BY <2>2, <2>3, <2>4, <2>5
<1>9. /\ x \in Channel /\ x.type = c.type /\ x.ctype = c.ctype /\ x.gen = c.gen
      /\ x.istate = c.istate /\ x.ostate \in {c.ostate, "WAIT_DRAIN"} /\ (c.ostate = "OPEN" => x.ostate = "WAIT_DRAIN")
      /\ (x.ostate = "CLOSED" => c.ostate = "CLOSED")
      /\ x.EOF_SENT = c.EOF_SENT /\ x.EOF_RCVD /\ x.rwin = c.rwin
      /\ x.pipe = c.pipe /\ x.epipe = c.epipe /\ x.input = c.input /\ x.output = c.output
      /\ x.efd = c.efd /\ x.ext = c.ext
  <2>1. o \in Halves /\ o \in {c.ostate, "WAIT_DRAIN"} /\ (c.ostate = "OPEN" => o = "WAIT_DRAIN")
        /\ (o = "CLOSED" => c.ostate = "CLOSED")
    BY SMTT(30), <1>c DEF Channel, Halves
  <2> HIDE DEF o
  <2> QED BY ZenonT(30), <2>1, <1>c DEF Channel
<1> HIDE DEF x
<1>10. /\ y \in Channel /\ y.type = c.type /\ y.ctype = c.ctype /\ y.gen = c.gen
       /\ y.istate = c.istate /\ y.ostate = "CLOSED"
       /\ y.EOF_SENT = c.EOF_SENT /\ y.EOF_RCVD /\ y.rwin = c.rwin
       /\ y.pipe = c.pipe /\ y.epipe = c.epipe /\ y.input = c.input /\ y.output = c.output
       /\ y.efd = c.efd /\ y.ext = c.ext
  BY ZenonT(30), <1>9 DEF Channel, Halves
<1> HIDE DEF y
<1>11. ASSUME NEW z, z \in {x, y}, RcvdIeof(e, On(c)) = Res(z, <<>>),
              Sound(e, z, Cut(hist, e, c.gen), Cut(hist, Peer(e), c.gen))
       PROVE  BInv(chan', net', hist')
  <2>1. /\ z \in Channel /\ z.type = c.type /\ z.ctype = c.ctype /\ z.gen = c.gen
        /\ z.EOF_SENT = c.EOF_SENT /\ z.EOF_RCVD /\ z.rwin = c.rwin
        /\ z.pipe = c.pipe /\ z.epipe = c.epipe /\ z.input = c.input /\ z.output = c.output
        /\ z.ext = c.ext
    BY ZenonT(30), <1>9, <1>10, <1>11
  <2>2. Becomes(c, z, z)
    BY Zenon, <1>7, <2>1, UsedFacts DEF Becomes, Known
  <2>3. Unsent(e, c) <= Unsent(e, z) /\ Unread(e, c) <= Unread(e, z)
    <3>1. Unread(e, z) = Unread(e, c) /\ Unsent(e, z) = Unsent(e, c)
      BY <2>1 DEF Unread, Unsent
    <3>2. Unread(e, c) \in Nat /\ Unsent(e, c) \in Nat
      BY SMTT(30), <1>7, HeldFacts
    <3> QED BY <3>1, <3>2
  <2>4. Calm(e, c, z)
    BY Zenon, <2>1, <2>2, <2>3, <1>11 DEF Calm
  <2>5. Answer(e, m.to, Res(z, <<>>))
    BY ZenonT(40), <1>4, <1>11
  <2> QED BY ZenonT(30), <2>1, <2>4, <2>5, <1>1, <1>3, CalmAnswer
<1>12. Sound(e, x, Cut(hist, e, c.gen), Cut(hist, Peer(e), c.gen))
  BY ZenonT(40), <1>7, <1>9 DEF Known, Sound
<1>13. ASSUME x.output = 0, ~EfdOutputActive(e, x)
       PROVE  Sound(e, y, Cut(hist, e, c.gen), Cut(hist, Peer(e), c.gen))
  <2>1. e = "S" \/ ~c.efd \/ c.ext = 0
    <3>1. c.ext \in Nat
      BY <1>c DEF Channel
    <3> QED BY <3>1, <1>9, <1>13 DEF EfdOutputActive, Ends
  <2>2. e = "S" \/ c.ext = 0 \/ Cut(hist, Peer(e), c.gen)
    <3>1. c.ext \in Nat
      BY <1>c DEF Channel
    <3>2. c.ext > 0 => c.ctype = "session" /\ Stderr
      BY ZenonT(30), <1>7 DEF Known, Sound
    <3>3. e = "C" /\ c.ctype = "session" /\ Stderr => c.efd \/ Cut(hist, Peer(e), c.gen)
      BY ZenonT(30), <1>7 DEF Known, Sound
    <3> QED BY SMTT(30), <2>1, <3>1, <3>2, <3>3 DEF Ends
  <2>3. y.output = 0 /\ (e = "S" \/ y.ext = 0 \/ Cut(hist, Peer(e), c.gen))
    BY SMTT(30), <2>2, <1>9, <1>10, <1>13
  <2>4. Sound(e, c, Cut(hist, e, c.gen), Cut(hist, Peer(e), c.gen))
    BY Zenon, <1>7 DEF Known
  <2> HIDE DEF c
  <2> QED BY <2>3, <2>4, <1>10 DEF Sound
<1> QED BY Zenon, <1>8, <1>11, <1>12, <1>13

\* channel_input_oclose.
LEMMA InputCloseBytes ==
  ASSUME IInv, BInv(chan, net, hist), NEW e \in Ends, InputClose(e)
  PROVE  BInv(chan', net', hist')
<1> DEFINE m == net[e][1]
           c == chan[e][m.to]
<1>1. Incoming(e, "CLOSE") /\ hist' = hist
  BY DEF InputClose
<1>2. /\ net[e] # <<>> /\ Head(net[e]) = m /\ m.kind = "CLOSE" /\ m \in Packet
      /\ NInv(chan, net, opens)
  BY <1>1, IncomingFacts
<1>3. Found(e) /\ m.to \in Ids /\ c # Free /\ c.gen = m.gen
  BY <1>1, OwnFacts
<1>4. Answer(e, m.to, RcvdClose(On(c)))
  BY <1>2, <1>3 DEF InputClose
<1>5. 1 \in DOMAIN net[e] /\ \A j \in DOMAIN net[e] : ~(j < 1)
  <2>1. net[e] \in Seq(Packet)
    BY <1>2 DEF NInv, Typed
  <2> QED BY <2>1, <1>2
<1>6. c.type \in {"LARVAL", "OPEN"}
  BY <1>2, HeadOpened DEF Noise, Offer, Reply
<1>7. Known(e, c)
  BY <1>3, KnownFacts
<1>c. c \in Channel
  BY <1>7 DEF Known
\* The peer closes what it has ended or asked for no more.
<1>8. /\ c.EOF_SENT \/ Cut(hist, e, c.gen)
      /\ c.EOF_RCVD \/ Cut(hist, Peer(e), c.gen)
  <2>1. About(chan, e, m.to, m.gen)
    BY <1>3 DEF About
  <2>2. ~EofBefore(net, e, m.gen, 1)
    BY <1>5 DEF EofBefore
  <2> QED BY <2>1, <2>2, <1>2, <1>3, <1>5 DEF BInv, Stopped
<1>9. PICK x, q : /\ RcvdClose(On(c)) = Res(x, q) /\ RcvdCloseOf(c, x)
                  /\ \/ q = <<>> /\ x.EOF_SENT = c.EOF_SENT
                     \/ q = <<EofNote>> /\ c.istate = "WAIT_DRAIN" /\ x.EOF_SENT
  BY SMTT(30), <1>c, RcvdCloseFacts
<1>10. Becomes(c, x, x)
  BY ZenonT(30), <1>7, <1>9, UsedFacts DEF RcvdCloseOf, Becomes, Known
<1>11. c.istate # "CLOSED" => ~c.EOF_SENT
  BY Zenon, <1>7 DEF Known, Shape
<1>12. Sound(e, x, Cut(hist, e, c.gen), Cut(hist, Peer(e), c.gen))
  <2>1. Sound(e, c, Cut(hist, e, c.gen), Cut(hist, Peer(e), c.gen))
    BY <1>7 DEF Known
  <2>2. /\ x.istate = "CLOSED" /\ (c.EOF_SENT => x.EOF_SENT) /\ x.EOF_RCVD = c.EOF_RCVD
        /\ x.type = c.type /\ x.ctype = c.ctype /\ x.rwin = c.rwin /\ x.efd = c.efd
        /\ x.pipe = c.pipe /\ x.epipe = c.epipe /\ x.input = c.input /\ x.output = c.output
        /\ x.ext = c.ext /\ (x.ostate = "CLOSED" => c.ostate = "CLOSED" \/ c.type = "LARVAL")
        /\ c.type = "LARVAL" => x.EOF_SENT = c.EOF_SENT
    BY Zenon, <1>9 DEF RcvdCloseOf, SameBuffers
  <2> HIDE DEF c
  <2>3. x.ostate = "CLOSED" => x.output = 0 /\ (e = "S" \/ x.ext = 0 \/ Cut(hist, Peer(e), c.gen))
    BY <2>1, <2>2 DEF Sound
  <2> QED BY SMTT(30), <2>1, <2>2, <2>3, <1>8, <1>11 DEF Sound
<1>13. Unsent(e, c) <= Unsent(e, x) + 0 /\ Unread(e, c) + 0 <= Unread(e, x)
  <2>1. Unread(e, x) = Unread(e, c) /\ Unsent(e, x) = Unsent(e, c)
    BY Zenon, <1>9 DEF Unread, Unsent, RcvdCloseOf, SameBuffers
  <2>2. Unread(e, c) \in Nat /\ Unsent(e, c) \in Nat
    BY <1>7, HeldFacts
  <2> QED BY SMTT(30), <2>1, <2>2
<1>14. Reads(m, x.gen, 0, "none")
  BY <1>2 DEF Reads, Amount, Bytes
<1>15. ASSUME NEW ks, Notes(q, ks, 0), ks \subseteq {"EOF"}, x.EOF_SENT => c.EOF_SENT \/ "EOF" \in ks
       PROVE  BInv(chan', net', hist')
  <2>1. Announces(chan, e, c, x, ks, Cut(hist, Peer(e), c.gen))
    BY ZenonT(30), <1>9, <1>15 DEF Announces, Kinds, RcvdCloseOf, SameBuffers
  <2>2. Change(chan, hist, hist', e, c, x, x, ks, 0, 0, "none")
    BY Zenon, <2>1, <1>1, <1>7, <1>10, <1>12, <1>13, QuietChange
  <2>3. Answer(e, m.to, Res(x, q))
    BY <1>4, <1>9
  <2> QED BY Zenon, <2>2, <2>3, <1>2, <1>3, <1>14, <1>15, AnswerBytes
<1>16. CASE q = <<>> /\ x.EOF_SENT = c.EOF_SENT
  <2> DEFINE ks == {}
  <2>1. Notes(q, ks, 0) /\ ks \subseteq {"EOF"}
    BY <1>16, NotesFacts
  <2> HIDE DEF ks
  <2> QED BY <2>1, <1>15, <1>16
<1>17. CASE q = <<EofNote>> /\ c.istate = "WAIT_DRAIN" /\ x.EOF_SENT
  <2> DEFINE ks == {"EOF"}
  <2>1. EofNote = Word("EOF") /\ "EOF" \in Kinds
    BY DEF EofNote, Word, Kinds
  <2>2. Notes(q, ks, 0) /\ ks \subseteq {"EOF"} /\ "EOF" \in ks
    BY <2>1, <1>17, WordNotes
  <2> HIDE DEF ks
  <2> QED BY <2>2, <1>15
<1> QED BY <1>9, <1>16, <1>17

\* channel_input_open_failure: the channel has never held anything.
LEMMA InputOpenFailureBytes ==
  ASSUME IInv, BInv(chan, net, hist), NEW e \in Ends, InputOpenFailure(e)
  PROVE  BInv(chan', net', hist')
<1> DEFINE m == net[e][1]
           c == chan[e][m.to]
           x == [c EXCEPT !.type = "ZOMBIE"]
<1>1. Incoming(e, "OPEN_FAILURE") /\ hist' = hist
  BY DEF InputOpenFailure
<1>2. /\ net[e] # <<>> /\ Head(net[e]) = m /\ m.kind = "OPEN_FAILURE"
  BY <1>1, IncomingFacts
<1>3. Found(e) /\ m.to \in Ids /\ c # Free /\ c.gen = m.gen /\ Delivers(chan, e, m)
  BY <1>1, OwnFacts
<1>4. c.type = "OPENING"
  BY <1>2, <1>3 DEF Delivers, Reply
<1>5. Answer(e, m.to, On(x))
  BY <1>2, <1>3, <1>4 DEF InputOpenFailure
<1>7. Known(e, c)
  BY SMTT(30), <1>3, KnownFacts
<1>c. c \in Channel
  BY <1>7 DEF Known
<1>8. /\ x \in Channel /\ x.type = "ZOMBIE" /\ x.ctype = c.ctype /\ x.gen = c.gen
      /\ x.istate = c.istate /\ x.ostate = c.ostate
      /\ x.EOF_SENT = c.EOF_SENT /\ x.EOF_RCVD = c.EOF_RCVD /\ x.rwin = c.rwin
      /\ x.pipe = c.pipe /\ x.epipe = c.epipe /\ x.input = c.input /\ x.output = c.output
      /\ x.efd = c.efd /\ x.ext = c.ext
  BY ZenonT(30), <1>c DEF Channel, Types
<1> HIDE DEF x
<1>9. Becomes(c, x, x)
  BY ZenonT(30), <1>7, <1>8, UsedFacts DEF Becomes, Known
<1>10. Sound(e, x, Cut(hist, e, c.gen), Cut(hist, Peer(e), c.gen))
  BY ZenonT(30), <1>4, <1>7, <1>8 DEF Known, Sound
<1>11. Unsent(e, c) <= Unsent(e, x) /\ Unread(e, c) <= Unread(e, x)
  <2>1. Unread(e, x) = Unread(e, c) /\ Unsent(e, x) = Unsent(e, c)
    BY <1>8 DEF Unread, Unsent
  <2>2. Unread(e, c) \in Nat /\ Unsent(e, c) \in Nat
    BY <1>7, HeldFacts
  <2> QED BY <2>1, <2>2
<1>12. Calm(e, c, x)
  BY Zenon, <1>8, <1>9, <1>10, <1>11 DEF Calm
<1>13. Answer(e, m.to, Res(x, <<>>))
  BY <1>5, ResFacts
<1> QED BY <1>12, <1>13, <1>1, <1>3, CalmAnswer

\* The last writer closes its descriptors.
LEMMA WriterClosesBytes ==
  ASSUME IInv, BInv(chan, net, hist), NEW e \in Ends, NEW i \in Ids, WriterCloses(e, i)
  PROVE  BInv(chan', net', hist')
<1> DEFINE c == chan[e][i]
           x == [c EXCEPT !.weof = TRUE]
           ks == {}
<1>1. /\ chan' = [chan EXCEPT ![e][i].weof = TRUE] /\ net' = net /\ hist' = hist /\ c # Free
  BY DEF WriterCloses, Free
<1>2. /\ chan \in [Ends -> [Ids -> Channel \cup {Free}]] /\ net \in [Ends -> Seq(Packet)]
  BY DEF IInv, NInv, Typed
<1>3. chan' = Held(chan, e, i, x)
  BY <1>1, <1>2 DEF Held
<1>7. Known(e, c)
  BY <1>1, KnownFacts
<1>c. c \in Channel
  BY <1>7 DEF Known
<1>8. /\ x \in Channel /\ x.type = c.type /\ x.ctype = c.ctype /\ x.gen = c.gen
      /\ x.istate = c.istate /\ x.ostate = c.ostate
      /\ x.EOF_SENT = c.EOF_SENT /\ x.EOF_RCVD = c.EOF_RCVD /\ x.rwin = c.rwin
      /\ x.pipe = c.pipe /\ x.epipe = c.epipe /\ x.input = c.input /\ x.output = c.output
      /\ x.efd = c.efd /\ x.ext = c.ext
  BY <1>c DEF Channel
<1> HIDE DEF x
<1>9. Becomes(c, x, x)
  BY <1>7, <1>8, UsedFacts DEF Becomes, Known
<1>10. Sound(e, x, Cut(hist, e, c.gen), Cut(hist, Peer(e), c.gen))
  BY <1>7, <1>8 DEF Known, Sound
<1>11. Unsent(e, c) <= Unsent(e, x) /\ Unread(e, c) <= Unread(e, x)
  <2>1. Unread(e, x) = Unread(e, c) /\ Unsent(e, x) = Unsent(e, c)
    BY <1>8 DEF Unread, Unsent
  <2>2. Unread(e, c) \in Nat /\ Unsent(e, c) \in Nat
    BY <1>7, HeldFacts
  <2> QED BY <2>1, <2>2
<1>12. Calm(e, c, x)
  BY <1>8, <1>9, <1>10, <1>11 DEF Calm
<1>13. Mild(ks) /\ Notes(<<>>, ks, 0)
  BY NotesFacts DEF Mild
<1> HIDE DEF ks
<1>14. Change(chan, hist, hist', e, c, x, x, ks, 0, 0, "none")
  BY <1>1, <1>7, <1>12, <1>13, CalmChange
<1>15. net' = Sent(net, Peer(e), i, Res(x, <<>>))
  <2>1. Res(x, <<>>).out = <<>> /\ Res(x, <<>>).c = x
    BY ResFacts
  <2> DEFINE r == Res(x, <<>>)
  <2>2. r.out = <<>> /\ r.c = x
    BY <2>1
  <2> HIDE DEF r
  <2>3. Sent(net, Peer(e), i, r) = net
    BY SMTT(30), <2>2, <1>2, <1>8, PeerFacts, OutgoingFacts
  <2> QED BY <2>3, <1>1 DEF r
<1> QED BY <1>3, <1>13, <1>14, <1>15, SentBytes

-----------------------------------------------------------------------------
(* The programs behind the channels.                                       *)

\* One record of the history of channel g changes.
LEMMA NotedLogs ==
  ASSUME NEW hi \in [Ends -> [Gens -> Log]], NEW e \in Ends, NEW f \in Ends, NEW g \in Gens, NEW l \in Log,
         hi[f][g].cut => l.cut, f # e => l.wrote = hi[f][g].wrote /\ l.read = hi[f][g].read
  PROVE  Logs(hi, Noted(hi, f, g, l), e, g)
<1> DEFINE h2 == Noted(hi, f, g, l)
<1>1. /\ h2 \in [Ends -> [Gens -> Log]] /\ h2[f][g] = l
      /\ \A h \in Gens : h # g => h2[f][h] = hi[f][h]
      /\ h2[Peer(f)] = hi[Peer(f)]
  BY NotedFacts
<1> HIDE DEF h2
<1>2. \A k \in Ends, h \in Gens : h2[k][h] = IF k = f /\ h = g THEN l ELSE hi[k][h]
  BY <1>1, PeerFacts
<1>3. \A k \in Ends, h \in Gens : Cut(hi, k, h) => Cut(h2, k, h)
  BY <1>2 DEF Cut
<1>4. \A k \in Ends, h \in Gens : k # e \/ h # g =>
        h2[k][h].wrote = hi[k][h].wrote /\ h2[k][h].read = hi[k][h].read
  BY <1>2
<1> QED BY <1>1, <1>3, <1>4 DEF Logs, h2

\* Two records in a row.
LEMMA LogsTrans ==
  ASSUME NEW hi, NEW h1, NEW h2, NEW e, NEW g, Logs(hi, h1, e, g), Logs(h1, h2, e, g)
  PROVE  Logs(hi, h2, e, g)
BY DEF Logs

\* The program behind end e of channel g has written w bytes more and read n more.
Records(e, g, w, n) ==
  /\ Logs(hist, hist', e, g) /\ w \in Nat /\ n \in Nat
  /\ hist'[e][g].wrote = hist[e][g].wrote + w
  /\ hist'[e][g].read = hist[e][g].read + n

\* The parts of a change with its records.
LEMMA LoudChange ==
  ASSUME NEW e \in Ends, NEW c, NEW y, NEW ks, NEW d, NEW u, NEW t, NEW w, NEW n, Records(e, c.gen, w, n),
         Becomes(c, y, y), t = "EOF" => y.EOF_RCVD,
         Sound(e, y, Cut(hist', e, c.gen), Cut(hist', Peer(e), c.gen)),
         Announces(chan, e, c, y, ks, Cut(hist', Peer(e), c.gen)),
         ~Cut(hist', e, c.gen) => w + Unsent(e, c) <= Unsent(e, y) + d,
         ~Cut(hist', Peer(e), c.gen) => Unread(e, c) + u <= n + Unread(e, y),
         Known(e, c), d \in Nat, u \in Nat
  PROVE  Change(chan, hist, hist', e, c, y, y, ks, d, u, t)
<1>1. y.gen = c.gen /\ y \in Channel
  BY DEF Becomes
<1>2. /\ Unsent(e, c) \in Nat /\ Unread(e, c) \in Nat /\ Unsent(e, y) \in Nat /\ Unread(e, y) \in Nat
      /\ hist[e][c.gen].wrote \in Nat /\ hist[e][c.gen].read \in Nat
  BY <1>1, HeldFacts, AmountFacts
<1>3. /\ Logs(hist, hist', e, y.gen) /\ w \in Nat /\ n \in Nat
      /\ hist'[e][c.gen].wrote = hist[e][c.gen].wrote + w
      /\ hist'[e][c.gen].read = hist[e][c.gen].read + n
  BY <1>1 DEF Records
<1>4. ASSUME ~Cut(hist', e, c.gen)
      PROVE  hist'[e][c.gen].wrote + Unsent(e, c) <= hist[e][c.gen].wrote + Unsent(e, y) + d
  <2>1. w + Unsent(e, c) <= Unsent(e, y) + d
    BY <1>4
  <2> QED BY <2>1, <1>2, <1>3
<1>5. ASSUME ~Cut(hist', Peer(e), c.gen)
      PROVE  hist[e][c.gen].read + Unread(e, c) + u <= hist'[e][c.gen].read + Unread(e, y)
  <2>1. Unread(e, c) + u <= n + Unread(e, y)
    BY <1>5
  <2> QED BY <2>1, <1>2, <1>3
<1>6. Balanced(hist, hist', e, c, y, d, u)
  BY SMTT(30), <1>1, <1>4, <1>5 DEF Balanced
<1> QED BY <1>1, <1>3, <1>6 DEF Change

\* A write into the pipe.
LEMMA ProduceBytes ==
  ASSUME IInv, BInv(chan, net, hist), NEW e \in Ends, NEW i \in Ids, NEW err \in BOOLEAN, Produce(e, i, err)
  PROVE  BInv(chan', net', hist')
<1> DEFINE c == chan[e][i]
           g == c.gen
           x1 == [c EXCEPT !.epipe = @ + 1]
           x2 == [c EXCEPT !.pipe = @ + 1]
           l == [hist[e][g] EXCEPT !.wrote = @ + 1]
           ks == {}
<1>1. /\ c.type = "OPEN" /\ c # Free /\ net' = net
      /\ \/ e = "S" /\ c.efd /\ chan' = Held(chan, e, i, x1)
         \/ c.istate = "OPEN" /\ chan' = Held(chan, e, i, x2)
      /\ hist' = [hist EXCEPT ![e][g].wrote = @ + 1]
  <2>1. c.type = "OPEN" /\ net' = net /\ hist' = [hist EXCEPT ![e][g].wrote = @ + 1]
    BY DEF Produce
  <2>2. c # Free
    BY <2>1 DEF Free
  <2>3. CASE err
    <3>1. e = "S" /\ c.efd /\ chan' = [chan EXCEPT ![e][i] = x1]
      BY <2>3, Zenon DEF Produce
    <3> QED BY <2>1, <2>2, <3>1, Zenon DEF Held
  <2>4. CASE ~err
    <3>1. c.istate = "OPEN" /\ chan' = [chan EXCEPT ![e][i] = x2]
      BY <2>4, Zenon DEF Produce
    <3> QED BY <2>1, <2>2, <3>1, Zenon DEF Held
  <2> QED BY <2>3, <2>4
<1>2. /\ hist \in [Ends -> [Gens -> Log]] /\ net \in [Ends -> Seq(Packet)]
  BY DEF IInv, NInv, Typed, SInv
<1>7. Known(e, c)
  BY <1>1, KnownFacts
<1>c. c \in Channel /\ g \in Gens
  BY SMTT(30), <1>7 DEF Known
<1>3. l \in Log /\ l.cut = hist[e][g].cut /\ l.wrote = hist[e][g].wrote + 1 /\ l.read = hist[e][g].read
      /\ hist[e][g].read \in Nat
  <2>1. hist[e][g] \in Log
    BY <1>2, <1>c
  <2> QED BY <2>1 DEF Log
<1>4. hist' = Noted(hist, e, g, l)
  BY <1>1, <1>2, <1>c DEF Noted
<1> HIDE DEF l
<1>5. /\ Logs(hist, hist', e, g) /\ hist'[e][g] = l /\ hist'[Peer(e)] = hist[Peer(e)]
  BY <1>2, <1>c, <1>3, <1>4, NotedLogs, NotedFacts
<1>6. Records(e, g, 1, 0) /\ Cut(hist', e, g) = Cut(hist, e, g) /\ Cut(hist', Peer(e), g) = Cut(hist, Peer(e), g)
  BY <1>3, <1>5 DEF Records, Cut
<1>8. Mild(ks) /\ Notes(<<>>, ks, 0)
  BY NotesFacts DEF Mild
<1> HIDE DEF ks
<1>9. ASSUME NEW x, Alike(c, x), x.efd = c.efd, x.input = c.input, x.output = c.output, x.ext = c.ext,
             \/ x.pipe = c.pipe /\ x.epipe = c.epipe + 1 /\ e = "S" /\ c.efd
             \/ x.pipe = c.pipe + 1 /\ x.epipe = c.epipe /\ c.istate = "OPEN",
             chan' = Held(chan, e, i, x)
      PROVE  BInv(chan', net', hist')
  <2>1. Becomes(c, x, x) /\ Announces(chan, e, c, x, ks, Cut(hist', Peer(e), g))
    BY <1>7, <1>8, <1>9, AlikeFacts
  <2>2. Sound(e, x, Cut(hist, e, g), Cut(hist, Peer(e), g))
    <3>1. Sound(e, c, Cut(hist, e, g), Cut(hist, Peer(e), g))
      BY <1>7 DEF Known
    <3> HIDE DEF c, g
    <3> QED BY <3>1, <1>1, <1>9 DEF Sound, Alike
  <2>3. Sound(e, x, Cut(hist', e, g), Cut(hist', Peer(e), g))
    BY <2>2, <1>6
  <2>4. 1 + Unsent(e, c) <= Unsent(e, x) + 0 /\ Unread(e, c) + 0 <= 0 + Unread(e, x)
    BY <1>9, <1>c DEF Unsent, Unread, Channel
  <2>5. Change(chan, hist, hist', e, c, x, x, ks, 0, 0, "none")
    BY <2>1, <2>3, <2>4, <1>6, <1>7, LoudChange
  <2>6. net' = Sent(net, Peer(e), i, Res(x, <<>>))
    <3> DEFINE r == Res(x, <<>>)
    <3>1. r.out = <<>> /\ r.c = x /\ x \in Channel
      BY <1>9, ResFacts DEF Alike
    <3> HIDE DEF r
    <3>2. Sent(net, Peer(e), i, r) = net
      BY <3>1, <1>2, PeerFacts, OutgoingFacts
    <3> QED BY <3>2, <1>1 DEF r
  <2> QED BY <2>5, <2>6, <1>8, <1>9, SentBytes
<1>10. CASE e = "S" /\ c.efd /\ chan' = Held(chan, e, i, x1)
  <2>1. Alike(c, x1) /\ x1.efd = c.efd /\ x1.input = c.input /\ x1.output = c.output /\ x1.ext = c.ext
        /\ x1.pipe = c.pipe /\ x1.epipe = c.epipe + 1
    BY <1>c DEF Alike, Channel
  <2> HIDE DEF x1
  <2> QED BY <2>1, <1>9, <1>10
<1>11. CASE c.istate = "OPEN" /\ chan' = Held(chan, e, i, x2)
  <2>1. Alike(c, x2) /\ x2.efd = c.efd /\ x2.input = c.input /\ x2.output = c.output /\ x2.ext = c.ext
        /\ x2.pipe = c.pipe + 1 /\ x2.epipe = c.epipe
    BY <1>c DEF Alike, Channel
  <2> HIDE DEF x2
  <2> QED BY <2>1, <1>9, <1>11
<1> QED BY ZenonT(30), <1>1, <1>10, <1>11

\* channel_pre_open: an output half that is drained closes.
LEMMA HandlerPreBytes ==
  ASSUME IInv, BInv(chan, net, hist), NEW e \in Ends, NEW i \in Ids, HandlerPre(e, i)
  PROVE  BInv(chan', net', hist')
<1> DEFINE c == chan[e][i]
           y == [c EXCEPT !.ostate = "CLOSED"]
           ks == {}
<1>1. /\ c # Free /\ hist' = hist
      /\ \/ UpdateAndCollect(e, i, On(c))
         \/ /\ UpdateAndCollect(e, i, ObufEmpty(On(c)))
            /\ c.type = "OPEN" /\ c.ostate = "WAIT_DRAIN" /\ c.output = 0 /\ ~EfdOutputActive(e, c)
  BY DEF HandlerPre
<1>7. Known(e, c)
  BY <1>1, KnownFacts
<1>c. c \in Channel
  BY <1>7 DEF Known
<1>4. On(c) = Res(c, <<>>) /\ On(c).c = c
  BY ResFacts
<1>8. Mild(ks) /\ Notes(<<>>, ks, 0)
  BY NotesFacts DEF Mild
<1> HIDE DEF ks
<1>9. ASSUME NEW x, Calm(e, c, x), x.EOF_RCVD = c.EOF_RCVD, UpdateAndCollect(e, i, Res(x, <<>>))
      PROVE  BInv(chan', net', hist')
  <2>1. Change(chan, hist, hist', e, c, x, x, ks, 0, 0, "none")
    BY <1>1, <1>7, <1>8, <1>9, CalmChange
  <2>2. x.EOF_SENT => c.EOF_SENT
    BY <1>9 DEF Calm
  <2> QED BY <2>1, <2>2, <1>8, <1>9, CollectBytes
<1>5. CASE UpdateAndCollect(e, i, On(c))
  <2>1. Calm(e, c, c)
    BY <1>7, SameCalm
  <2> QED BY <2>1, <1>4, <1>5, <1>9
<1>6. CASE /\ UpdateAndCollect(e, i, ObufEmpty(On(c)))
           /\ c.type = "OPEN" /\ c.ostate = "WAIT_DRAIN" /\ c.output = 0 /\ ~EfdOutputActive(e, c)
  <2>1. /\ y \in Channel /\ y.type = c.type /\ y.ctype = c.ctype /\ y.gen = c.gen
        /\ y.istate = c.istate /\ y.ostate = "CLOSED"
        /\ y.EOF_SENT = c.EOF_SENT /\ y.EOF_RCVD = c.EOF_RCVD /\ y.rwin = c.rwin
        /\ y.pipe = c.pipe /\ y.epipe = c.epipe /\ y.input = c.input /\ y.output = c.output
        /\ y.efd = c.efd /\ y.ext = c.ext /\ c.ext \in Nat
    BY <1>c DEF Channel, Halves
  <2>2. ObufEmpty(On(c)) = Set(On(c), y)
    BY <1>4, Zenon DEF ObufEmpty
  <2> HIDE DEF y
  <2>3. UpdateAndCollect(e, i, Res(y, <<>>))
    BY <2>2, <1>4, <1>6, ResFacts
  <2>4. Sound(e, c, Cut(hist, e, c.gen), Cut(hist, Peer(e), c.gen))
    BY <1>7 DEF Known
  <2>5. e = "S" \/ ~c.efd \/ c.ext = 0
    BY <2>1, <1>6 DEF EfdOutputActive, Ends
  <2>6. e = "S" \/ c.ext = 0 \/ Cut(hist, Peer(e), c.gen)
    <3>1. c.ext > 0 => c.ctype = "session" /\ Stderr
      BY <2>4 DEF Sound
    <3>2. e = "C" /\ c.ctype = "session" /\ Stderr => c.efd \/ Cut(hist, Peer(e), c.gen)
      BY <2>4 DEF Sound
    <3> QED BY <2>1, <2>5, <3>1, <3>2 DEF Ends
  <2>7. Sound(e, y, Cut(hist, e, c.gen), Cut(hist, Peer(e), c.gen))
    <3> HIDE DEF c
    <3> QED BY <2>1, <2>4, <2>6, <1>6 DEF Sound
  <2>8. Becomes(c, y, y)
    BY <1>7, <2>1, UsedFacts DEF Becomes, Known
  <2>9. Unsent(e, c) <= Unsent(e, y) /\ Unread(e, c) <= Unread(e, y)
    <3>1. Unread(e, y) = Unread(e, c) /\ Unsent(e, y) = Unsent(e, c)
      BY <2>1 DEF Unread, Unsent
    <3>2. Unread(e, c) \in Nat /\ Unsent(e, c) \in Nat
      BY <1>7, HeldFacts
    <3> QED BY <3>1, <3>2
  <2>10. Calm(e, c, y)
    BY <2>1, <2>7, <2>8, <2>9 DEF Calm
  <2> QED BY <2>1, <2>3, <2>10, <1>9
<1> QED BY <1>1, <1>5, <1>6

-----------------------------------------------------------------------------
(* The streams of a channel that fails.                                    *)

\* Both streams of channel g are cut.
LEMMA CutBoth ==
  ASSUME IInv, NEW g \in Gens, NEW e \in Ends, hist' = [f \in Ends |-> [hist[f] EXCEPT ![g].cut = TRUE]]
  PROVE  Records(e, g, 0, 0) /\ \A f \in Ends : Cut(hist', f, g)
<1>1. hist \in [Ends -> [Gens -> Log]]
  BY DEF IInv, SInv
<1>2. \A f \in Ends, h \in Gens :
        hist'[f][h] = IF h = g THEN [hist[f][h] EXCEPT !.cut = TRUE] ELSE hist[f][h]
  BY <1>1
<1>3. \A f \in Ends, h \in Gens : hist[f][h] \in Log
  BY <1>1
<1>4. \A l \in Log : /\ [l EXCEPT !.cut = TRUE] \in Log /\ [l EXCEPT !.cut = TRUE].cut
                     /\ [l EXCEPT !.cut = TRUE].wrote = l.wrote /\ [l EXCEPT !.cut = TRUE].read = l.read
  <2> SUFFICES ASSUME NEW l \in Log
               PROVE  LET k == [l EXCEPT !.cut = TRUE] IN
                      k \in Log /\ k.cut /\ k.wrote = l.wrote /\ k.read = l.read
    BY Zenon
  <2> DEFINE k == [l EXCEPT !.cut = TRUE]
  <2>1. k \in Log /\ k.wrote = l.wrote /\ k.read = l.read
    BY DEF Log
  <2>2. k.cut
    BY DEF Log
  <2> QED BY <2>1, <2>2
<1>n. \A l \in Log : l.wrote \in Nat /\ l.read \in Nat
  BY DEF Log
<1>5. \A f \in Ends, h \in Gens :
        /\ hist'[f][h] \in Log /\ hist'[f][h].wrote = hist[f][h].wrote /\ hist'[f][h].read = hist[f][h].read
        /\ hist'[f][h].cut \/ hist'[f][h] = hist[f][h]
  BY <1>2, <1>3, <1>4
<1>6. hist' = [f \in Ends |-> hist'[f]] /\ \A f \in Ends : hist'[f] = [h \in Gens |-> hist'[f][h]]
  BY <1>1
<1>7. hist' \in [Ends -> [Gens -> Log]]
  BY ZenonT(40), <1>5, <1>6
<1>8. \A f \in Ends : Cut(hist', f, g)
  <2> SUFFICES ASSUME NEW f \in Ends PROVE hist'[f][g].cut
    BY DEF Cut
  <2> DEFINE l == hist[f][g]
             k == [l EXCEPT !.cut = TRUE]
  <2>1. hist'[f][g] = k /\ l \in Log
    BY <1>2, <1>3
  <2>2. k.cut
    BY <2>1, <1>4
  <2> HIDE DEF k
  <2> QED BY <2>1, <2>2
<1>9. \A f \in Ends, h \in Gens : Cut(hist, f, h) => Cut(hist', f, h)
  BY <1>5 DEF Cut
<1>10. Logs(hist, hist', e, g)
  BY <1>1, <1>5, <1>7, <1>9 DEF Logs
<1>11. hist'[e][g].wrote = hist[e][g].wrote + 0 /\ hist'[e][g].read = hist[e][g].read + 0
  BY <1>3, <1>n, <1>5
<1> QED BY <1>8, <1>10, <1>11 DEF Records

\* EOW, or nothing, is said by a channel whose output is given up.
LEMMA EowNotes ==
  ASSUME NEW q, q = <<>> \/ q = Append(<<>>, Word("EOW"))
  PROVE  \E ks : /\ Notes(q, ks, 0) /\ ks \subseteq {"EOW"} /\ (q = <<>> => ks = {})
                 /\ q = <<>> \/ \E w : q = <<w>>
<1>1. CASE q = <<>>
  BY <1>1, NotesFacts
<1>2. CASE q = Append(<<>>, Word("EOW"))
  <2>1. q = <<Word("EOW")>>
    BY <1>2
  <2>2. Notes(<<Word("EOW")>>, {"EOW"}, 0)
    BY WordNotes DEF Kinds
  <2>3. q # <<>>
    BY SMTT(30), <2>1
  <2> QED BY <2>1, <2>2, <2>3
<1> QED BY <1>1, <1>2

\* channel_input_status_confirm: a mux session whose program cannot be run is given up.
LEMMA InputStatusConfirmBytes ==
  ASSUME IInv, BInv(chan, net, hist), InputStatusConfirm
  PROVE  BInv(chan', net', hist')
<1> DEFINE m == net["C"][1]
           c == chan["C"][m.to]
           x == [c EXCEPT !.confirm = FALSE]
<1>0. "C" \in Ends
  BY DEF Ends
<1>1. PICK kind \in {"SUCCESS", "FAILURE"} : Incoming("C", kind)
  BY Zenon DEF InputStatusConfirm
<1>2. /\ net["C"] # <<>> /\ Head(net["C"]) = m /\ m.kind = kind /\ m \in Packet
      /\ NInv(chan, net, opens)
  BY <1>0, <1>1, IncomingFacts
<1>3. Found("C") /\ m.to \in Ids /\ c # Free /\ c.gen = m.gen
  BY SMTT(30), <1>0, <1>1, OwnFacts
<1>5. \/ Ignore("C") /\ UNCHANGED hist
      \/ Answer("C", m.to, On(x)) /\ UNCHANGED hist
      \/ /\ Answer("C", m.to, WriteFailed(ReadFailed(On(x))))
         /\ hist' = [e \in Ends |-> [hist[e] EXCEPT ![c.gen].cut = TRUE]]
  <2> HIDE DEF x
  <2> QED BY Zenon, <1>2 DEF InputStatusConfirm, Disconnect, x
<1>k. kind \notin {"DATA", "EXTENDED_DATA", "EOF"}
  BY <1>1
<1>7. Known("C", c)
  BY SMTT(30), <1>0, <1>3, KnownFacts
<1>c. c \in Channel /\ c.gen \in Gens
  BY ZenonT(30), <1>7 DEF Known
<1>8. /\ x \in Channel /\ x.type = c.type /\ x.ctype = c.ctype /\ x.gen = c.gen
      /\ x.istate = c.istate /\ x.ostate = c.ostate
      /\ x.EOF_SENT = c.EOF_SENT /\ x.EOF_RCVD = c.EOF_RCVD /\ x.rwin = c.rwin
      /\ x.pipe = c.pipe /\ x.epipe = c.epipe /\ x.input = c.input /\ x.output = c.output
      /\ x.efd = c.efd /\ x.ext = c.ext
  BY <1>c DEF Channel
<1> HIDE DEF x
<1>4. On(x) = Res(x, <<>>)
  BY ResFacts
<1>a. CASE Ignore("C") /\ UNCHANGED hist
  BY <1>0, <1>1, <1>k, <1>a, IgnoredBytes
<1>b. CASE Answer("C", m.to, On(x)) /\ UNCHANGED hist
  <2>1. Becomes(c, x, x)
    BY ZenonT(30), <1>7, <1>8, UsedFacts DEF Becomes, Known
  <2>2. Sound("C", x, Cut(hist, "C", c.gen), Cut(hist, Peer("C"), c.gen))
    BY ZenonT(40), <1>7, <1>8 DEF Known, Sound
  <2>3. Unsent("C", c) <= Unsent("C", x) /\ Unread("C", c) <= Unread("C", x)
    <3>1. Unread("C", x) = Unread("C", c) /\ Unsent("C", x) = Unsent("C", c)
      BY <1>8 DEF Unread, Unsent
    <3>2. Unread("C", c) \in Nat /\ Unsent("C", c) \in Nat
      BY <1>0, <1>7, HeldFacts
    <3> QED BY <3>1, <3>2
  <2>4. Calm("C", c, x)
    BY Zenon, <1>8, <2>1, <2>2, <2>3 DEF Calm
  <2>5. Answer("C", m.to, Res(x, <<>>)) /\ hist' = hist
    BY <1>4, <1>b
  <2> QED BY Zenon, <2>4, <2>5, <1>0, <1>1, <1>k, <1>3, CalmAnswer
<1>d. CASE /\ Answer("C", m.to, WriteFailed(ReadFailed(On(x))))
           /\ hist' = [e \in Ends |-> [hist[e] EXCEPT ![c.gen].cut = TRUE]]
  <2>1. Records("C", c.gen, 0, 0) /\ \A f \in Ends : Cut(hist', f, c.gen)
    <3> DEFINE g == c.gen
    <3>1. hist' = [f \in Ends |-> [hist[f] EXCEPT ![g].cut = TRUE]] /\ g \in Gens
      BY Zenon, <1>d, <1>c
    <3> HIDE DEF g
    <3>2. Records("C", g, 0, 0) /\ \A f \in Ends : Cut(hist', f, g)
      BY <3>1, <1>0, CutBoth
    <3> QED BY <3>2 DEF g
  <2>2. Cut(hist', "C", c.gen) /\ Cut(hist', Peer("C"), c.gen)
    BY <2>1, <1>0, PeerFacts
  <2>3. PICK y : ReadFailed(Res(x, <<>>)) = Res(y, <<>>) /\ Proceeds(x, y) /\ ReadStops(x, y)
    BY <1>8, ReadFailedFacts
  <2>4. PICK z, q : /\ WriteFailed(Res(y, <<>>)) = Res(z, q) /\ Proceeds(y, z) /\ WriteStops(y, z)
                    /\ q = <<>> \/ (q = Append(<<>>, Word("EOW")) /\ y.ostate # "CLOSED")
    <3>1. y \in Channel
      BY <2>3 DEF Proceeds
    <3> QED BY <3>1, WriteFailedFacts
  <2>5. PICK ks : Notes(q, ks, 0) /\ ks \subseteq {"EOW"}
    BY SMTT(30), <2>4, EowNotes
  <2>6. /\ z \in Channel /\ z.type = c.type /\ z.ctype = c.ctype /\ z.gen = c.gen
        /\ z.EOF_SENT = c.EOF_SENT /\ z.EOF_RCVD = c.EOF_RCVD
    BY SMTT(30), <2>3, <2>4, <1>8 DEF Proceeds
  <2>7. /\ z.ostate = "CLOSED" /\ (z.output = 0 \/ (c.ostate = "CLOSED" /\ z.output = c.output))
        /\ z.pipe = c.pipe /\ z.epipe = c.epipe /\ z.input = c.input
        /\ z.efd = c.efd /\ z.ext = c.ext /\ z.rwin = c.rwin
    BY ZenonT(30), <2>3, <2>4, <1>8 DEF ReadStops, WriteStops, SameBuffers
  <2>8. Becomes(c, z, z)
    BY Zenon, <1>7, <2>6, UsedFacts DEF Becomes, Known
  <2>10. Sound("C", z, Cut(hist', "C", c.gen), Cut(hist', Peer("C"), c.gen))
    <3>1. Sound("C", c, Cut(hist, "C", c.gen), Cut(hist, Peer("C"), c.gen))
      BY ZenonT(30), <1>7 DEF Known
    <3> HIDE DEF c
    <3> QED BY SMTT(30), <3>1, <2>2, <2>6, <2>7 DEF Sound
  <2>11. Announces(chan, "C", c, z, ks, Cut(hist', Peer("C"), c.gen))
    BY ZenonT(30), <2>2, <2>5, <2>6, <2>7 DEF Announces, Kinds
  <2>12. Change(chan, hist, hist', "C", c, z, z, ks, 0, 0, "none")
    BY ZenonT(30), <2>1, <2>2, <2>8, <2>10, <2>11, <1>0, <1>7, LoudChange
  <2>13. Answer("C", m.to, Res(z, q))
    BY Zenon, <1>4, <1>d, <2>3, <2>4
  <2>14. Reads(m, z.gen, 0, "none")
    BY <1>k, <1>2 DEF Reads, Amount, Bytes
  <2> QED BY <2>5, <2>12, <2>13, <2>14, <1>0, <1>2, <1>3, AnswerBytes
<1> QED BY ZenonT(30), <1>5, <1>a, <1>b, <1>d

-----------------------------------------------------------------------------
(* The bytes that are sent.                                                *)

\* What chan_ibuf_empty makes of a channel that drains its input.
IbufEmptyOf(c, y) ==
  /\ y \in Channel /\ y.type = c.type /\ y.ctype = c.ctype /\ y.gen = c.gen
  /\ y.istate = "CLOSED" /\ y.ostate = c.ostate /\ y.EOF_SENT /\ y.EOF_RCVD = c.EOF_RCVD
  /\ SameBuffers(c, y)

\* chan_ibuf_empty sends EOF and closes the input half.
LEMMA IbufEmptyFacts ==
  ASSUME NEW c \in Channel, c.istate = "WAIT_DRAIN", ~c.CLOSE_SENT
  PROVE  \E y : IbufEmpty(On(c)) = Res(y, <<EofNote>>) /\ IbufEmptyOf(c, y)
<1> DEFINE x == [c EXCEPT !.EOF_SENT = TRUE]
           y == [x EXCEPT !.istate = "CLOSED"]
           q == Append(<<>>, EofNote)
<1>0. On(c) = Res(c, <<>>) /\ On(c).c = c
  BY ResFacts
<1>1. SendEof(Res(c, <<>>)) = Res(x, q)
  BY SendEofFacts
<1>2. x \in Channel
  BY DEF Channel
<1>3. y \in Channel /\ y.type = c.type /\ y.ctype = c.ctype /\ y.gen = c.gen
      /\ y.istate = "CLOSED" /\ y.ostate = c.ostate /\ y.EOF_SENT /\ y.EOF_RCVD = c.EOF_RCVD
  BY DEF Channel, Halves
<1>4. SameBuffers(c, y)
  BY DEF Channel, SameBuffers
<1>5. q = <<EofNote>>
  OBVIOUS
<1>6. IbufEmpty(On(c)) = Res(y, q)
  <2>1. ASSUME NEW r, r.c = c
        PROVE  IbufEmpty(r) = Set(SendEof(r), [SendEof(r).c EXCEPT !.istate = "CLOSED"])
    BY <2>1, Zenon DEF IbufEmpty
  <2>2. Res(x, q).c = x
    BY ResFacts
  <2> HIDE DEF x, q
  <2>3. IbufEmpty(On(c)) = Set(Res(x, q), y)
    BY <2>1, <2>2, <1>0, <1>1
  <2> HIDE DEF y
  <2> QED BY <2>3, ResFacts
<1> HIDE DEF x, y, q
<1>7. IbufEmptyOf(c, y)
  BY <1>3, <1>4 DEF IbufEmptyOf
<1> QED BY <1>5, <1>6, <1>7

\* Channel y is channel c of end e without bytes that were sent, d of them.
Sends(e, c, y, d) ==
  /\ Alike(c, y) /\ y.efd = c.efd /\ y.pipe = c.pipe /\ y.epipe = c.epipe /\ y.output = c.output
  /\ y.input = c.input \/ y.input = 0
  /\ y.ext = c.ext \/ (y.ext = 0 /\ e = "S")
  /\ d \in Nat /\ c.input + c.ext <= y.input + y.ext + d

\* Such a channel sends messages of the kinds ks.
LEMMA SendsChange ==
  ASSUME NEW e \in Ends, NEW c, NEW y, NEW ks, NEW d, IInv, hist' = hist, Known(e, c), Sends(e, c, y, d),
         ks \subseteq {"DATA", "EXTENDED_DATA"}, "DATA" \in ks => c.rwin,
         "EXTENDED_DATA" \in ks => e = "S" /\ c.ctype = "session" /\ Stderr
  PROVE  Change(chan, hist, hist', e, c, y, y, ks, d, 0, "none")
<1>1. /\ Alike(c, y) /\ y.efd = c.efd /\ y.pipe = c.pipe /\ y.epipe = c.epipe /\ y.output = c.output
      /\ y.input = c.input \/ y.input = 0
      /\ y.ext = c.ext \/ (y.ext = 0 /\ e = "S")
      /\ d \in Nat /\ c.input + c.ext <= y.input + y.ext + d
  BY DEF Sends
<1>2. /\ y \in Channel /\ y.type = c.type /\ y.ctype = c.ctype /\ y.gen = c.gen
      /\ y.istate = c.istate /\ y.ostate = c.ostate
      /\ y.EOF_SENT = c.EOF_SENT /\ y.EOF_RCVD = c.EOF_RCVD /\ y.rwin = c.rwin
  BY <1>1 DEF Alike
<1>3. c \in Channel /\ Sound(e, c, Cut(hist, e, c.gen), Cut(hist, Peer(e), c.gen))
  BY DEF Known
<1>4. Becomes(c, y, y)
  BY <1>2, UsedFacts DEF Becomes, Known
<1>n. /\ c.input \in Nat /\ c.ext \in Nat /\ c.pipe \in Nat /\ c.epipe \in Nat /\ c.output \in Nat
      /\ y.input \in Nat /\ y.ext \in Nat
  BY <1>2, <1>3 DEF Channel
<1>5. Sound(e, y, Cut(hist, e, c.gen), Cut(hist, Peer(e), c.gen))
  <2>1. y.ext > 0 => c.ext > 0
    BY <1>1, <1>n
  <2> QED BY <2>1, <1>1, <1>2, <1>3 DEF Sound
<1>6. Announces(chan, e, c, y, ks, Cut(hist, Peer(e), c.gen))
  BY <1>2 DEF Announces, Kinds
<1>7. Unsent(e, c) <= Unsent(e, y) + d
  BY SMTT(30), <1>1, <1>n DEF Unsent
<1>8. Unread(e, c) + 0 <= Unread(e, y)
  BY <1>1, <1>n DEF Unread
<1> QED BY <1>1, <1>4, <1>5, <1>6, <1>7, <1>8, QuietChange

\* Two messages of bytes.
LEMMA TwoPayloads ==
  ASSUME NEW a \in Nat, NEW b \in Nat
  PROVE  Notes(<<Payload("DATA", a), Payload("EXTENDED_DATA", b)>>, {"DATA", "EXTENDED_DATA"}, a + b)
<1> DEFINE x == Payload("DATA", a)
           z == Payload("EXTENDED_DATA", b)
<1>1. x \in Note /\ x.kind = "DATA" /\ z \in Note /\ z.kind = "EXTENDED_DATA"
  BY DEF Payload, Note, Kinds
<1>2. Amount(x) = a /\ Amount(z) = b
  BY PayloadNotes
<1> HIDE DEF x, z
<1>3. Notes(<<x, z>>, {x.kind, z.kind}, Amount(x) + Amount(z))
  BY <1>1, NotesFacts
<1> QED BY <1>1, <1>2, <1>3 DEF x, z

\* channel_output_poll.
LEMMA OutputPollBytes ==
  ASSUME IInv, BInv(chan, net, hist), NEW e \in Ends, NEW i \in Ids, OutputPoll(e, i)
  PROVE  BInv(chan', net', hist')
<1> DEFINE c == chan[e][i]
           r1 == IF c.istate \in {"OPEN", "WAIT_DRAIN"} /\ c.input > 0
                 THEN IF c.rwin THEN SendBytes(On([c EXCEPT !.input = 0]), "DATA", c.input) ELSE On(c)
                 ELSE IF c.istate = "WAIT_DRAIN" /\ ~EfdInputActive(e, c) THEN IbufEmpty(On(c))
                 ELSE On(c)
           send == e = "S" /\ ~r1.c.EOF_SENT /\ c.rwin /\ c.ext > 0
           r2 == IF send THEN SendBytes(Set(r1, [r1.c EXCEPT !.ext = 0]), "EXTENDED_DATA", c.ext)
                 ELSE r1
<1>1. c.type = "OPEN" /\ ~c.CLOSE_SENT /\ Update(e, i, r2) /\ hist' = hist
  BY Zenon DEF OutputPoll
<1>2. c # Free
  BY SMTT(30), <1>1 DEF Free
<1>3. Known(e, c)
  BY <1>2, KnownFacts
<1>c. c \in Channel /\ c.input \in Nat /\ c.ext \in Nat
  BY <1>3 DEF Known, Channel
<1>4. c.ext > 0 => c.ctype = "session" /\ Stderr
  BY <1>3 DEF Known, Sound
<1>5. ASSUME NEW y, NEW q, NEW ks, NEW d, r2 = Res(y, q), Notes(q, ks, d), Sends(e, c, y, d),
             ks \subseteq {"DATA", "EXTENDED_DATA"}, "DATA" \in ks => c.rwin,
             "EXTENDED_DATA" \in ks => e = "S" /\ c.ext > 0
      PROVE  BInv(chan', net', hist')
  <2> HIDE DEF r2
  <2>1. Change(chan, hist, hist', e, c, y, y, ks, d, 0, "none")
    BY <1>1, <1>3, <1>4, <1>5, SendsChange
  <2>2. Update(e, i, Res(y, q))
    BY <1>1, <1>5
  <2> QED BY <2>1, <2>2, <1>5, UpdateBytes
\* The first half leaves y and sends the input, or nothing.
<1>6. ASSUME NEW y, NEW q, NEW n \in Nat, r1 = Res(y, q), Alike(c, y), y.efd = c.efd,
             y.pipe = c.pipe, y.epipe = c.epipe, y.output = c.output, y.ext = c.ext,
             \/ q = <<>> /\ y.input = c.input /\ n = 0
             \/ q = <<Payload("DATA", n)>> /\ y.input = 0 /\ n = c.input /\ c.rwin
      PROVE  BInv(chan', net', hist')
  <2> HIDE DEF r1
  <2>1. r1.c = y /\ y \in Channel
    BY <1>6, ResFacts DEF Alike
  <2>2. CASE ~send
    <3>1. r2 = Res(y, q)
      BY <2>2, <1>6
    <3>2. Sends(e, c, y, n)
      BY SMTT(30), <1>6, <1>c DEF Sends
    <3> HIDE DEF r2
    <3>3. CASE q = <<>> /\ n = 0
      <4> DEFINE ks == {}
      <4>1. Notes(q, ks, n) /\ ks \subseteq {"DATA", "EXTENDED_DATA"} /\ "DATA" \notin ks
            /\ "EXTENDED_DATA" \notin ks
        BY <3>3, NotesFacts
      <4> HIDE DEF ks
      <4> QED BY <3>1, <3>2, <4>1, <1>5 DEF r2
    <3>4. CASE q = <<Payload("DATA", n)>> /\ c.rwin
      <4> DEFINE ks == {"DATA"}
      <4>1. Notes(q, ks, n) /\ ks \subseteq {"DATA", "EXTENDED_DATA"} /\ "EXTENDED_DATA" \notin ks
        BY <3>4, PayloadNotes
      <4> HIDE DEF ks
      <4> QED BY <3>1, <3>2, <3>4, <4>1, <1>5 DEF r2
    <3> QED BY <3>3, <3>4, <1>6
  <2>3. CASE send
    <3> DEFINE z == [y EXCEPT !.ext = 0]
               p == Payload("EXTENDED_DATA", c.ext)
               o == Append(q, p)
               d == n + c.ext
    <3>1. e = "S" /\ c.rwin /\ c.ext > 0
      BY <2>3
    <3>2. /\ z \in Channel /\ z.type = y.type /\ z.ctype = y.ctype /\ z.gen = y.gen
          /\ z.istate = y.istate /\ z.ostate = y.ostate
          /\ z.EOF_SENT = y.EOF_SENT /\ z.EOF_RCVD = y.EOF_RCVD /\ z.rwin = y.rwin
          /\ z.pipe = y.pipe /\ z.epipe = y.epipe /\ z.input = y.input /\ z.output = y.output
          /\ z.efd = y.efd /\ z.ext = 0
      BY <2>1 DEF Channel
    <3>3. r2 = SendBytes(Set(r1, z), "EXTENDED_DATA", c.ext)
      BY <2>1, <2>3
    <3> HIDE DEF z, r2
    <3>4. r2 = Res(z, o)
      BY <3>3, <1>6, ResFacts, PayloadFacts
    <3>5. Alike(c, z) /\ z.efd = c.efd
      BY <3>2, <1>6 DEF Alike
    <3>6. Sends(e, c, z, d)
      BY SMTT(30), <3>1, <3>2, <3>5, <1>6, <1>c DEF Sends
    <3> HIDE DEF p
    <3>7. CASE q = <<>> /\ n = 0
      <4> DEFINE ks == {"EXTENDED_DATA"}
      <4>1. o = <<p>> /\ d = c.ext
        BY <3>7, <1>c
      <4> HIDE DEF o, d
      <4>2. Notes(<<p>>, {"EXTENDED_DATA"}, c.ext)
        BY <1>c, PayloadNotes DEF p
      <4>3. Notes(o, ks, d) /\ ks \subseteq {"DATA", "EXTENDED_DATA"} /\ "DATA" \notin ks
        BY <4>1, <4>2
      <4> HIDE DEF ks
      <4> QED BY <3>1, <3>4, <3>6, <4>3, <1>5 DEF r2
    <3>8. CASE q = <<Payload("DATA", n)>>
      <4> DEFINE ks == {"DATA", "EXTENDED_DATA"}
      <4>1. o = <<Payload("DATA", n), p>>
        BY <3>8, AppendOne
      <4> HIDE DEF o
      <4>2. Notes(o, ks, d) /\ ks \subseteq {"DATA", "EXTENDED_DATA"}
        BY <4>1, <1>c, TwoPayloads DEF p
      <4> HIDE DEF ks, d
      <4> QED BY <3>1, <3>4, <3>6, <4>2, <1>5 DEF r2
    <3> QED BY <3>7, <3>8, <1>6
  <2> QED BY <2>2, <2>3
<1>7. On(c) = Res(c, <<>>) /\ Alike(c, c)
  BY <1>c, ResFacts DEF Alike
<1>8. CASE r1 = On(c)
  <2>1. r1 = Res(c, <<>>) /\ 0 \in Nat
    BY <1>7, <1>8
  <2> HIDE DEF r1
  <2> QED BY <2>1, <1>6, <1>7 DEF r1
<1>9. CASE c.istate \in {"OPEN", "WAIT_DRAIN"} /\ c.input > 0 /\ c.rwin
  <2> DEFINE y == [c EXCEPT !.input = 0]
             n == c.input
  <2>1. r1 = SendBytes(On(y), "DATA", n)
    BY <1>9, Zenon
  <2>2. Alike(c, y) /\ y.efd = c.efd
        /\ y.pipe = c.pipe /\ y.epipe = c.epipe /\ y.output = c.output /\ y.ext = c.ext /\ y.input = 0
    BY <1>c DEF Alike, Channel
  <2> HIDE DEF y
  <2>3. On(y) = Res(y, <<>>)
    BY ResFacts
  <2>4. SendBytes(Res(y, <<>>), "DATA", n) = Res(y, Append(<<>>, Payload("DATA", n)))
    <3>1. \A o : SendBytes(Res(y, o), "DATA", n) = Res(y, Append(o, Payload("DATA", n)))
      BY PayloadFacts
    <3> QED BY <3>1, Zenon
  <2>5. Append(<<>>, Payload("DATA", n)) = <<Payload("DATA", n)>>
    OBVIOUS
  <2>6. n \in Nat
    BY <1>c
  <2> HIDE DEF r1
  <2>7. r1 = Res(y, <<Payload("DATA", n)>>)
    BY <2>1, <2>3, <2>4, <2>5
  <2>8. n = c.input
    OBVIOUS
  <2> HIDE DEF n
  <2> QED BY <2>2, <2>6, <2>7, <2>8, <1>6, <1>9 DEF r1
<1>10. CASE c.istate = "WAIT_DRAIN" /\ ~(c.input > 0) /\ ~EfdInputActive(e, c) /\ r1 = IbufEmpty(On(c))
  <2>1. PICK y : IbufEmpty(On(c)) = Res(y, <<EofNote>>) /\ IbufEmptyOf(c, y)
    BY Zenon, <1>1, <1>c, <1>10, IbufEmptyFacts
  <2> DEFINE q == <<EofNote>>
             ks == {"EOF"}
  <2>2. r2 = Res(y, q)
    <3>1. Res(y, q).c = y /\ y.EOF_SENT
      BY <2>1, ResFacts DEF IbufEmptyOf
    <3>2. r1 = Res(y, q)
      BY <1>10, <2>1
    <3>3. ~send
      BY <3>1, <3>2
    <3> HIDE DEF r1, send
    <3> QED BY <3>2, <3>3
  <2>3. EofNote = Word("EOF") /\ "EOF" \in Kinds
    BY DEF EofNote, Word, Kinds
  <2>4. Notes(q, ks, 0) /\ ks = {"EOF"}
    BY <2>3, WordNotes
  <2> HIDE DEF q, ks, r2
  <2>5. /\ y \in Channel /\ y.type = c.type /\ y.ctype = c.ctype /\ y.gen = c.gen
        /\ y.istate = "CLOSED" /\ y.ostate = c.ostate /\ y.EOF_SENT /\ y.EOF_RCVD = c.EOF_RCVD
        /\ y.rwin = c.rwin /\ y.efd = c.efd /\ y.pipe = c.pipe /\ y.epipe = c.epipe
        /\ y.input = c.input /\ y.output = c.output /\ y.ext = c.ext
    BY <2>1 DEF IbufEmptyOf, SameBuffers
  <2>6. Becomes(c, y, y)
    BY <2>5, <1>3, UsedFacts DEF Becomes, Known
  <2>7. Sound(e, y, Cut(hist, e, c.gen), Cut(hist, Peer(e), c.gen))
    <3>1. Sound(e, c, Cut(hist, e, c.gen), Cut(hist, Peer(e), c.gen))
      BY <1>3 DEF Known
    <3>2. c.input = 0
      BY <1>c, <1>10
    <3>3. e = "S" => ~c.efd /\ c.ext = 0
      <4>1. e = "S" /\ c.ctype = "session" => ~c.efd /\ c.ext = 0
        BY <1>c, <1>10 DEF EfdInputActive
      <4>2. c.ext > 0 \/ (e = "S" /\ c.efd) => c.ctype = "session"
        BY <3>1 DEF Sound
      <4> QED BY <4>1, <4>2, <1>c
    <3>4. c.istate = "WAIT_DRAIN" /\ c.type = "OPEN"
      BY <1>1, <1>10
    <3> HIDE DEF c
    <3> QED BY <3>1, <3>2, <3>3, <3>4, <2>5 DEF Sound
  <2>8. Announces(chan, e, c, y, ks, Cut(hist, Peer(e), c.gen))
    BY <2>4, <2>5 DEF Announces, Kinds
  <2>9. Unsent(e, c) <= Unsent(e, y) + 0 /\ Unread(e, c) + 0 <= Unread(e, y)
    <3>1. Unread(e, y) = Unread(e, c) /\ Unsent(e, y) = Unsent(e, c)
      BY <2>5 DEF Unread, Unsent
    <3>2. Unread(e, c) \in Nat /\ Unsent(e, c) \in Nat
      BY <1>3, HeldFacts
    <3> QED BY <3>1, <3>2
  <2>10. Change(chan, hist, hist', e, c, y, y, ks, 0, 0, "none")
    BY <1>1, <1>3, <2>6, <2>7, <2>8, <2>9, QuietChange
  <2>11. Update(e, i, Res(y, q))
    BY <1>1, <2>2
  <2> QED BY SMTT(30), <2>4, <2>10, <2>11, UpdateBytes
<1> QED BY <1>8, <1>9, <1>10

-----------------------------------------------------------------------------
(* The descriptors of a channel are served.                                *)

\* n bytes were read behind end e of channel g; b: what arrives there is given up.
LEMMA ReadLogs ==
  ASSUME IInv, NEW e \in Ends, NEW g \in Gens, NEW n \in Nat, NEW b \in BOOLEAN,
         hist' = [hist EXCEPT ![e][g].read = @ + n, ![Peer(e)][g].cut = @ \/ b]
  PROVE  /\ Records(e, g, 0, n)
         /\ Cut(hist', e, g) <=> Cut(hist, e, g)
         /\ Cut(hist', Peer(e), g) <=> Cut(hist, Peer(e), g) \/ b
<1> DEFINE p == Peer(e)
           l == [hist[e][g] EXCEPT !.read = @ + n]
           h1 == Noted(hist, e, g, l)
           k == [h1[p][g] EXCEPT !.cut = @ \/ b]
<1>1. hist \in [Ends -> [Gens -> Log]]
  BY DEF IInv, SInv
<1>2. p \in Ends /\ p # e
  BY PeerFacts
<1>3. hist' = Noted(h1, p, g, k)
  BY <1>1, <1>2 DEF Noted
<1>4. hist[e][g] \in Log /\ hist[p][g] \in Log
  BY <1>1, <1>2
<1>5. l \in Log /\ l.wrote = hist[e][g].wrote /\ l.read = hist[e][g].read + n /\ l.cut = hist[e][g].cut
      /\ hist[e][g].wrote + 0 = hist[e][g].wrote
  BY <1>4 DEF Log
<1> HIDE DEF l
<1>6. /\ h1 \in [Ends -> [Gens -> Log]] /\ h1[e][g] = l /\ h1[Peer(e)] = hist[Peer(e)]
  BY <1>1, <1>5, NotedFacts
<1>7. Logs(hist, h1, e, g)
  BY <1>1, <1>5, NotedLogs
<1> HIDE DEF h1
<1>8. h1[p][g] = hist[p][g]
  BY <1>6
<1>9. k \in Log /\ k.wrote = h1[p][g].wrote /\ k.read = h1[p][g].read
      /\ (k.cut <=> hist[p][g].cut \/ b)
  <2> DEFINE v == hist[p][g].cut \/ b
  <2>1. v \in BOOLEAN
    BY <1>4 DEF Log
  <2>2. k = [hist[p][g] EXCEPT !.cut = v]
    BY <1>8
  <2> HIDE DEF v, k
  <2>3. k \in Log /\ k.wrote = hist[p][g].wrote /\ k.read = hist[p][g].read /\ k.cut = v
    BY <1>4, <2>1, <2>2 DEF Log
  <2>4. k.cut <=> v
    BY <2>3, Zenon
  <2> QED BY <2>3, <2>4, <1>8 DEF v
<1>10. h1[p][g].cut => k.cut
  BY <1>8, <1>9
<1> HIDE DEF k
<1>11. Logs(h1, Noted(h1, p, g, k), e, g)
  BY <1>2, <1>6, <1>9, <1>10, NotedLogs
<1>12. Logs(hist, hist', e, g)
  BY <1>3, <1>7, <1>11, LogsTrans
<1>13. hist'[p][g] = k /\ hist'[Peer(p)] = h1[Peer(p)]
  <2> HIDE DEF p
  <2>1. Noted(h1, p, g, k)[p][g] = k /\ Noted(h1, p, g, k)[Peer(p)] = h1[Peer(p)]
    BY <1>2, <1>6, <1>9, NotedFacts
  <2> QED BY <2>1, <1>3
<1>14. hist'[e][g] = l
  BY <1>6, <1>13, PeerFacts
<1>15. Records(e, g, 0, n)
  BY <1>5, <1>12, <1>14 DEF Records
<1>16. Cut(hist', e, g) <=> Cut(hist, e, g)
  <2>1. hist'[e][g].cut = hist[e][g].cut
    BY <1>5, <1>14
  <2> QED BY <2>1 DEF Cut
<1>17. Cut(hist', p, g) <=> Cut(hist, p, g) \/ b
  BY <1>9, <1>13 DEF Cut
<1> QED BY <1>15, <1>16, <1>17

\* What the three handlers have done to channel c, which is x now.
RfdDid(c, x, rd) ==
  \/ rd = "data" /\ c.istate = "OPEN" /\ x.istate = "OPEN" /\ x.pipe = 0 /\ x.input = c.input + c.pipe
  \/ /\ rd = "eof" /\ c.istate = "OPEN" /\ x.istate \in {"OPEN", "WAIT_DRAIN"}
     /\ c.pipe = 0 /\ x.pipe = 0 /\ x.input = c.input
  \/ rd = "none" /\ x.istate = c.istate /\ x.pipe = c.pipe /\ x.input = c.input
WfdDid(c, x, wr) ==
  \/ wr = "data" /\ x.ostate = c.ostate /\ x.output = 0
  \/ wr = "fail" /\ x.ostate = "CLOSED" /\ (x.output = 0 \/ (c.ostate = "CLOSED" /\ x.output = c.output))
  \/ wr = "none" /\ x.ostate = c.ostate /\ x.output = c.output
EfdDid(e, c, x, er) ==
  \/ er = "data" /\ e = "C" /\ c.efd /\ x.efd /\ x.ext = 0 /\ x.epipe = c.epipe
  \/ er = "data" /\ e = "S" /\ c.efd /\ x.efd /\ x.ext = c.ext + c.epipe /\ x.epipe = 0
  \/ er = "fail" /\ e = "C" /\ c.efd /\ ~x.efd /\ x.ext = c.ext /\ x.epipe = c.epipe
  \/ er = "eof" /\ e = "S" /\ c.efd /\ ~x.efd /\ c.epipe = 0 /\ x.ext = c.ext /\ x.epipe = c.epipe
  \/ er = "none" /\ (x.efd <=> c.efd) /\ x.ext = c.ext /\ x.epipe = c.epipe

Served(e, c, x, rd, wr, er) ==
  /\ Proceeds(c, x) /\ x.rwin = c.rwin
  /\ RfdDid(c, x, rd) /\ WfdDid(c, x, wr) /\ EfdDid(e, c, x, er)

\* The channel stays sound; out and in: what was cut, in2: what is cut now.
LEMMA ServedSound ==
  ASSUME NEW e \in Ends, NEW c \in Channel, NEW x, NEW rd, NEW wr, NEW er, NEW out, NEW in, NEW in2,
         Served(e, c, x, rd, wr, er), Sound(e, c, out, in), Shape(e, c), c.type = "OPEN",
         in \/ wr = "fail" \/ er = "fail" => in2
  PROVE  Sound(e, x, out, in2)
<1>1. /\ x \in Channel /\ x.type = "OPEN" /\ x.ctype = c.ctype
      /\ x.EOF_SENT = c.EOF_SENT /\ x.EOF_RCVD = c.EOF_RCVD /\ x.rwin = c.rwin
      /\ RfdDid(c, x, rd) /\ WfdDid(c, x, wr) /\ EfdDid(e, c, x, er)
  BY DEF Served, Proceeds
<1>n. c.input \in Nat /\ c.ext \in Nat /\ c.pipe \in Nat /\ c.epipe \in Nat /\ c.output \in Nat
  BY DEF Channel
<1>2. x.istate = "CLOSED" => x.EOF_SENT \/ out
  BY <1>1 DEF RfdDid, Sound
<1>3. x.ostate # "OPEN" => x.EOF_RCVD \/ in2
  BY <1>1 DEF WfdDid, Sound
<1>4. x.istate # "OPEN" => x.pipe = 0 \/ out
  BY <1>1 DEF RfdDid, Sound
<1>5. x.EOF_SENT => x.input = 0 \/ out
  BY <1>1 DEF RfdDid, Sound, Shape
<1>6. x.EOF_SENT /\ e = "S" => (~x.efd /\ x.ext = 0) \/ out
  BY <1>1 DEF EfdDid, Sound
<1>7. x.ostate = "CLOSED" => x.output = 0
  BY <1>1 DEF WfdDid, Sound
<1>8. x.ostate = "CLOSED" => e = "S" \/ x.ext = 0 \/ in2
  BY <1>1 DEF WfdDid, EfdDid, Sound
<1>9. ~x.efd \/ e = "C" => x.epipe = 0
  BY <1>1 DEF EfdDid, Sound
<1>10. x.ext > 0 \/ (e = "S" /\ x.efd) => x.ctype = "session" /\ Stderr
  BY <1>1, <1>n DEF EfdDid, Sound
<1>11. e = "C" /\ x.ctype = "session" /\ Stderr => x.efd \/ in2
  BY <1>1 DEF EfdDid, Sound
<1> QED BY <1>1, <1>2, <1>3, <1>4, <1>5, <1>6, <1>7, <1>8, <1>9, <1>10, <1>11 DEF Sound

\* No byte is lost that is not given up.
LEMMA ServedBytes ==
  ASSUME NEW e \in Ends, NEW c \in Channel, NEW x, NEW rd, NEW wr, NEW er, NEW n,
         Served(e, c, x, rd, wr, er),
         n = (IF wr = "data" THEN c.output ELSE 0) + (IF e = "C" /\ er = "data" THEN c.ext ELSE 0)
  PROVE  /\ n \in Nat /\ Unsent(e, c) <= Unsent(e, x) + 0
         /\ wr # "fail" /\ er # "fail" => Unread(e, c) + 0 <= n + Unread(e, x)
<1>1. x \in Channel /\ RfdDid(c, x, rd) /\ WfdDid(c, x, wr) /\ EfdDid(e, c, x, er)
  BY DEF Served, Proceeds
<1>n. /\ c.input \in Nat /\ c.ext \in Nat /\ c.pipe \in Nat /\ c.epipe \in Nat /\ c.output \in Nat
      /\ x.input \in Nat /\ x.ext \in Nat /\ x.pipe \in Nat /\ x.epipe \in Nat /\ x.output \in Nat
  BY <1>1 DEF Channel
<1>2. n \in Nat
  BY <1>n
<1>3. c.pipe + c.input = x.pipe + x.input
  BY <1>1, <1>n DEF RfdDid
<1>4. c.epipe + (IF e = "S" THEN c.ext ELSE 0) = x.epipe + (IF e = "S" THEN x.ext ELSE 0)
  BY <1>1, <1>n DEF EfdDid
<1>5. Unsent(e, c) <= Unsent(e, x) + 0
  BY <1>3, <1>4, <1>n DEF Unsent
<1>6. wr # "fail" => c.output = (IF wr = "data" THEN c.output ELSE 0) + x.output
  BY <1>1, <1>n DEF WfdDid
<1>7. er # "fail" => (IF e = "C" THEN c.ext ELSE 0) =
          (IF e = "C" /\ er = "data" THEN c.ext ELSE 0) + (IF e = "C" THEN x.ext ELSE 0)
  BY <1>1, <1>n DEF EfdDid
<1>8. wr # "fail" /\ er # "fail" => Unread(e, c) + 0 <= n + Unread(e, x)
  BY <1>6, <1>7, <1>n DEF Unread
<1> QED BY <1>2, <1>5, <1>8

\* channel_post_open.
LEMMA HandlerPostBytes ==
  ASSUME IInv, BInv(chan, net, hist), NEW e \in Ends, NEW i \in Ids,
         NEW rd, NEW wr, NEW er, HandlerPost(e, i, rd, wr, er)
  PROVE  BInv(chan', net', hist')
<1> DEFINE c == chan[e][i]
           n == (IF wr = "data" THEN c.output ELSE 0) + (IF e = "C" /\ er = "data" THEN c.ext ELSE 0)
<1>1. /\ c.type = "OPEN"
      /\ rd \in ReadResults(e, c) /\ wr \in WriteResults(c) /\ er \in EfdResults(e, c)
      /\ UpdateAndCollect(e, i, HandleEfd(e, HandleWfd(HandleRfd(On(c), rd), wr), er))
      /\ hist' = [hist EXCEPT ![e][c.gen].read = @ + n, ![Peer(e)][c.gen].cut = @ \/ "fail" \in {wr, er}]
  BY Zenon DEF HandlerPost
<1>2. c # Free
  <2>1. c.type = "OPEN"
    BY Zenon, <1>1
  <2> QED BY SMTT(30), <2>1 DEF Free
<1>3. Known(e, c)
  BY <1>2, KnownFacts
<1>c. c \in Channel /\ c.gen \in Gens /\ Shape(e, c)
  BY <1>3 DEF Known
<1>n. /\ c.input \in Nat /\ c.ext \in Nat /\ c.pipe \in Nat /\ c.epipe \in Nat /\ c.output \in Nat
  BY <1>c DEF Channel
<1>r. /\ rd \in {"none", "data", "eof"} /\ (rd # "none" => c.istate = "OPEN")
      /\ rd = "eof" => c.pipe = 0
  <2>1. rd \in ReadResults(e, c)
    BY Zenon, <1>1
  <2>2. CASE c.istate # "OPEN" \/ ~c.rwin
    BY <2>1, <2>2 DEF ReadResults
  <2>3. CASE c.istate = "OPEN" /\ c.rwin
    <3>1. CASE c.pipe > 0
      BY <2>1, <2>3, <3>1 DEF ReadResults
    <3>2. CASE ~(c.pipe > 0)
      <4>1. rd \in {"none", "eof"}
        BY SMTT(30), <2>1, <2>3, <3>2 DEF ReadResults
      <4> QED BY <4>1, <2>3, <3>2, <1>n
    <3> QED BY <3>1, <3>2
  <2> QED BY SMTT(30), <2>2, <2>3
<1>w. wr \in {"none", "data", "fail"}
  BY ZenonT(30), <1>1 DEF WriteResults
<1>e. /\ er \in {"none", "data", "fail", "eof"} /\ (er # "none" => c.efd)
      /\ er = "fail" => e = "C"
      /\ er = "eof" => e = "S" /\ c.epipe = 0
  BY Zenon, <1>1, <1>n DEF EfdResults, Ends
<1>5. On(c) = Res(c, <<>>)
  BY ResFacts
<1>6. PICK y : HandleRfd(Res(c, <<>>), rd) = Res(y, <<>>) /\ Proceeds(c, y) /\ FromRfd(c, y, rd)
  BY <1>c, HandleRfdFacts
<1>7. PICK z, q : /\ HandleWfd(Res(y, <<>>), wr) = Res(z, q) /\ Proceeds(y, z) /\ ToWfd(y, z, wr)
                  /\ q = <<>> \/ (q = Append(<<>>, Word("EOW")) /\ y.ostate # "CLOSED" /\ wr = "fail")
  <2>1. y \in Channel
    BY <1>6 DEF Proceeds
  <2> QED BY <2>1, HandleWfdFacts
<1>8. PICK x : HandleEfd(e, Res(z, q), er) = Res(x, q) /\ Proceeds(z, x) /\ OfEfd(e, z, x, er)
  <2>1. z \in Channel
    BY <1>7 DEF Proceeds
  <2> QED BY <2>1, HandleEfdFacts
<1>9. Served(e, c, x, rd, wr, er)
  <2>1. Proceeds(c, x)
    BY <1>6, <1>7, <1>8, ProceedsTrans
  <2>2. x.rwin = c.rwin
    BY <1>6, <1>7, <1>8 DEF FromRfd, ToWfd, OfEfd
  <2>3. x.istate = y.istate /\ x.pipe = y.pipe /\ x.input = y.input
    BY <1>7, <1>8 DEF ToWfd, OfEfd
  <2>4. RfdDid(c, x, rd)
    BY <2>3, <1>6, <1>r DEF FromRfd, RfdDid
  <2>5. x.ostate = z.ostate /\ x.output = z.output /\ y.ostate = c.ostate /\ y.output = c.output
    BY <1>6, <1>8 DEF FromRfd, OfEfd
  <2>6. WfdDid(c, x, wr)
    BY <2>5, <1>7, <1>w DEF ToWfd, WfdDid
  <2>7. z.ext = c.ext /\ z.epipe = c.epipe /\ z.efd = c.efd
    BY <1>6, <1>7 DEF FromRfd, ToWfd
  <2>8. EfdDid(e, c, x, er)
    BY <2>7, <1>8, <1>e DEF OfEfd, EfdDid
  <2> QED BY <2>1, <2>2, <2>4, <2>6, <2>8 DEF Served
<1>10. /\ n \in Nat /\ Unsent(e, c) <= Unsent(e, x) + 0
       /\ wr # "fail" /\ er # "fail" => Unread(e, c) + 0 <= n + Unread(e, x)
  BY <1>9, <1>c, ServedBytes
<1> HIDE DEF n
<1>11. /\ Records(e, c.gen, 0, n)
       /\ Cut(hist', e, c.gen) <=> Cut(hist, e, c.gen)
       /\ Cut(hist', Peer(e), c.gen) <=> Cut(hist, Peer(e), c.gen) \/ wr = "fail" \/ er = "fail"
  <2> DEFINE g == c.gen
  <2>b. ("fail" \in {wr, er}) \in BOOLEAN
    OBVIOUS
  <2>1. PICK b \in BOOLEAN : b = ("fail" \in {wr, er})
    BY <2>b, Zenon
  <2>2. hist' = [hist EXCEPT ![e][g].read = @ + n, ![Peer(e)][g].cut = @ \/ b]
    BY <2>1, <1>1, Zenon
  <2>3. g \in Gens
    BY <1>c
  <2> HIDE DEF g
  <2>4. /\ Records(e, g, 0, n)
        /\ Cut(hist', e, g) <=> Cut(hist, e, g)
        /\ Cut(hist', Peer(e), g) <=> Cut(hist, Peer(e), g) \/ b
    BY <2>2, <2>3, <1>10, ReadLogs
  <2>5. b <=> wr = "fail" \/ er = "fail"
    BY <2>1
  <2> QED BY <2>4, <2>5 DEF g
<1>12. Sound(e, x, Cut(hist', e, c.gen), Cut(hist', Peer(e), c.gen))
  <2>1. Sound(e, c, Cut(hist, e, c.gen), Cut(hist, Peer(e), c.gen))
    BY <1>3 DEF Known
  <2>2. Cut(hist, Peer(e), c.gen) \/ wr = "fail" \/ er = "fail" => Cut(hist', Peer(e), c.gen)
    BY ZenonT(40), <1>11
  <2>3. Sound(e, x, Cut(hist, e, c.gen), Cut(hist', Peer(e), c.gen))
    BY ZenonT(40), <2>1, <2>2, <1>1, <1>c, <1>9, ServedSound
  <2>4. /\ Cut(hist, e, c.gen) => Cut(hist', e, c.gen)
        /\ Cut(hist', Peer(e), c.gen) => Cut(hist', Peer(e), c.gen)
    BY <1>11
  <2> QED BY <2>3, <2>4, SoundMore
<1>13. /\ x \in Channel /\ x.gen = c.gen /\ x.type = c.type /\ x.ctype = c.ctype
       /\ x.EOF_SENT = c.EOF_SENT /\ x.EOF_RCVD = c.EOF_RCVD /\ x.rwin = c.rwin
  BY <1>9 DEF Served, Proceeds
<1>14. Becomes(c, x, x)
  BY <1>3, <1>13, UsedFacts DEF Becomes, Known
<1>15. PICK ks : /\ Notes(q, ks, 0) /\ ks \subseteq {"EOW"} /\ (q = <<>> => ks = {})
                 /\ q = <<>> \/ \E w : q = <<w>>
  BY <1>7, EowNotes
<1>16. Announces(chan, e, c, x, ks, Cut(hist', Peer(e), c.gen))
  <2>1. "EOW" \in ks => Cut(hist', Peer(e), c.gen)
    BY <1>7, <1>11, <1>15
  <2> QED BY <2>1, <1>13, <1>15 DEF Announces, Kinds
<1>17. /\ ~Cut(hist', e, c.gen) => 0 + Unsent(e, c) <= Unsent(e, x) + 0
       /\ ~Cut(hist', Peer(e), c.gen) => Unread(e, c) + 0 <= n + Unread(e, x)
  <2>1. Unsent(e, c) \in Nat /\ 0 + Unsent(e, c) = Unsent(e, c)
    BY <1>3, HeldFacts
  <2> QED BY <2>1, <1>10, <1>11
<1>18. Change(chan, hist, hist', e, c, x, x, ks, 0, 0, "none")
  BY <1>3, <1>11, <1>12, <1>14, <1>16, <1>17, LoudChange
<1>19. UpdateAndCollect(e, i, Res(x, q))
  BY Zenon, <1>1, <1>5, <1>6, <1>7, <1>8
<1> QED BY <1>13, <1>15, <1>18, <1>19, CollectBytes

-----------------------------------------------------------------------------
(* Channels that start.                                                    *)

\* channel_post_connecting: nothing has been held yet.
LEMMA PostConnectingBytes ==
  ASSUME IInv, BInv(chan, net, hist), NEW e \in Ends, NEW i \in Ids, NEW ok \in BOOLEAN,
         PostConnecting(e, i, ok)
  PROVE  BInv(chan', net', hist')
<1> DEFINE c == chan[e][i]
           x1 == [c EXCEPT !.type = "OPEN"]
           x2 == [c EXCEPT !.type = "ZOMBIE"]
<1>1. c.type = "CONNECTING" /\ hist' = hist /\ NInv(chan, net, opens)
  BY DEF PostConnecting, IInv
<1>2. c # Free
  BY <1>1 DEF Free
<1>3. \/ UpdateAndCollect(e, i, Send(On(x1), "CONFIRM"))
      \/ UpdateAndCollect(e, i, Send(On(x2), "OPEN_FAILURE"))
  <2>1. UpdateAndCollect(e, i, IF ok THEN Send(On(x1), "CONFIRM") ELSE Send(On(x2), "OPEN_FAILURE"))
    BY DEF PostConnecting
  <2>2. CASE ok
    BY <2>1, <2>2
  <2>3. CASE ~ok
    BY <2>1, <2>3
  <2> QED BY <2>2, <2>3
<1>7. Known(e, c)
  BY <1>2, KnownFacts
<1>c. c \in Channel
  BY <1>7 DEF Known
<1>4. c.istate = "OPEN" /\ c.ostate = "OPEN" /\ c.ctype = "tcp" /\ ~c.EOF_SENT
  BY <1>1, <1>7 DEF Known, Shape
<1>5. ASSUME NEW x, NEW k \in {"CONFIRM", "OPEN_FAILURE"}, UpdateAndCollect(e, i, Send(On(x), k)),
             x \in Channel, x.type \in {"OPEN", "ZOMBIE"}, x.ctype = c.ctype, x.gen = c.gen,
             x.istate = c.istate, x.ostate = c.ostate, x.EOF_SENT = c.EOF_SENT, x.EOF_RCVD = c.EOF_RCVD,
             x.rwin = c.rwin, x.pipe = c.pipe, x.epipe = c.epipe, x.input = c.input,
             x.output = c.output, x.efd = c.efd, x.ext = c.ext
      PROVE  BInv(chan', net', hist')
  <2> DEFINE ks == {k}
             o == <<Word(k)>>
  <2>1. Notes(o, ks, 0) /\ Mild(ks)
    BY WordNotes DEF Kinds, Mild
  <2>2. Send(On(x), k) = Res(x, o)
    BY WordFacts
  <2>3. \E w : o = <<w>>
    OBVIOUS
  <2> HIDE DEF ks, o
  <2>4. Becomes(c, x, x)
    BY <1>5, <1>7, UsedFacts DEF Becomes, Known
  <2>5. Sound(e, x, Cut(hist, e, c.gen), Cut(hist, Peer(e), c.gen))
    <3>1. Sound(e, c, Cut(hist, e, c.gen), Cut(hist, Peer(e), c.gen))
      BY <1>7 DEF Known
    <3> HIDE DEF c
    <3> QED BY <3>1, <1>1, <1>4, <1>5 DEF Sound
  <2>6. Unsent(e, c) <= Unsent(e, x) /\ Unread(e, c) <= Unread(e, x)
    <3>1. Unread(e, x) = Unread(e, c) /\ Unsent(e, x) = Unsent(e, c)
      BY <1>5 DEF Unread, Unsent
    <3>2. Unread(e, c) \in Nat /\ Unsent(e, c) \in Nat
      BY <1>7, HeldFacts
    <3> QED BY <3>1, <3>2
  <2>7. Calm(e, c, x)
    BY <1>5, <2>4, <2>5, <2>6 DEF Calm
  <2>8. Change(chan, hist, hist', e, c, x, x, ks, 0, 0, "none")
    BY <1>1, <1>7, <2>1, <2>7, CalmChange
  <2>9. UpdateAndCollect(e, i, Res(x, o))
    BY <1>5, <2>2
  <2> QED BY <1>5, <2>1, <2>3, <2>8, <2>9, CollectBytes
<1>6. CASE UpdateAndCollect(e, i, Send(On(x1), "CONFIRM"))
  <2>1. /\ x1 \in Channel /\ x1.type = "OPEN" /\ x1.ctype = c.ctype /\ x1.gen = c.gen
        /\ x1.istate = c.istate /\ x1.ostate = c.ostate
        /\ x1.EOF_SENT = c.EOF_SENT /\ x1.EOF_RCVD = c.EOF_RCVD /\ x1.rwin = c.rwin
        /\ x1.pipe = c.pipe /\ x1.epipe = c.epipe /\ x1.input = c.input /\ x1.output = c.output
        /\ x1.efd = c.efd /\ x1.ext = c.ext
    BY <1>c DEF Channel, Types
  <2> HIDE DEF x1
  <2> QED BY <2>1, <1>5, <1>6
<1>8. CASE UpdateAndCollect(e, i, Send(On(x2), "OPEN_FAILURE"))
  <2>1. /\ x2 \in Channel /\ x2.type = "ZOMBIE" /\ x2.ctype = c.ctype /\ x2.gen = c.gen
        /\ x2.istate = c.istate /\ x2.ostate = c.ostate
        /\ x2.EOF_SENT = c.EOF_SENT /\ x2.EOF_RCVD = c.EOF_RCVD /\ x2.rwin = c.rwin
        /\ x2.pipe = c.pipe /\ x2.epipe = c.epipe /\ x2.input = c.input /\ x2.output = c.output
        /\ x2.efd = c.efd /\ x2.ext = c.ext
    BY <1>c DEF Channel, Types
  <2> HIDE DEF x2
  <2> QED BY <2>1, <1>5, <1>8
<1> QED BY <1>3, <1>6, <1>8

\* A message leaves the queue that says nothing of bytes.
LEMMA PoppedWire ==
  ASSUME NEW nt \in [Ends -> Seq(Packet)], NEW e \in Ends, NEW ch, NEW hi, BInv(ch, nt, hi),
         nt[e] # <<>>, ~Bytes(nt[e][1]), nt[e][1].kind # "EOF"
  PROVE  BInv(ch, Popped(nt, e), hi)
<1> DEFINE nt2 == Popped(nt, e)
           ks == {}
<1>1. nt2[Peer(e)] = nt[Peer(e)] /\ nt[Peer(e)] \in Seq(Packet)
  BY PeerFacts, PopFacts DEF Popped
<1>2. Reads(nt[e][1], 0, 0, "none")
  BY DEF Reads, Amount
<1>3. Takes(nt[e], nt2[e], 0, 0, "none")
  BY <1>2, PoppedTakes
<1> HIDE DEF nt2
<1>4. Emits(nt[Peer(e)], nt2[Peer(e)], 0, {}, 0)
  BY <1>1, EmitsNone
<1>5. /\ ks \cap {"EOW", "CLOSE", "EXTENDED_DATA", "ADJUST", "DATA"} = {}
      /\ "OPEN_session" \in ks => \A l \in Ids : ~About(ch, "C", l, 0)
      /\ Emits(nt[Peer(e)], nt2[Peer(e)], 0, ks, 0)
  BY <1>4
<1> HIDE DEF ks
<1>6. BInv(ch, nt2, hi)
  BY <1>3, <1>5, WireBytes
<1> QED BY <1>6 DEF nt2

\* A message enters it.
LEMMA SentWire ==
  ASSUME NEW nt \in [Ends -> Seq(Packet)], NEW e \in Ends, NEW i \in Ids, NEW ch, NEW hi, BInv(ch, nt, hi),
         NEW y \in Channel, NEW k \in {"OPEN_session", "OPEN_tcp", "CONFIRM", "OPEN_FAILURE"},
         k = "OPEN_session" => \A l \in Ids : ~About(ch, "C", l, y.gen)
  PROVE  BInv(ch, Sent(nt, Peer(e), i, Res(y, <<Word(k)>>)), hi)
<1> DEFINE o == <<Word(k)>>
           ks == {k}
           nt2 == Sent(nt, Peer(e), i, Res(y, o))
<1>1. Notes(o, ks, 0)
  BY WordNotes DEF Kinds
<1>2. /\ ks \cap {"EOW", "CLOSE", "EXTENDED_DATA", "ADJUST", "DATA"} = {}
      /\ "OPEN_session" \in ks => \A l \in Ids : ~About(ch, "C", l, y.gen)
  OBVIOUS
<1> HIDE DEF o, ks
<1>3. Peer(e) \in Ends /\ Peer(e) # e
  BY PeerFacts
<1>4. Emits(nt[Peer(e)], nt2[Peer(e)], y.gen, ks, 0) /\ \A h \in Ends : h # Peer(e) => nt2[h] = nt[h]
  BY <1>1, <1>3, SentEmits
<1> HIDE DEF nt2
<1>5. nt2[e] = nt[e] /\ nt[e] \in Seq(Packet)
  BY <1>3, <1>4
<1>6. Takes(nt[e], nt2[e], y.gen, 0, "none")
  BY <1>5, TakesNone
<1>7. BInv(ch, nt2, hi)
  BY <1>2, <1>4, <1>6, WireBytes
<1> QED BY <1>7 DEF nt2, o

\* A channel as channel_new makes it.
Fresh(c) ==
  /\ c \in Channel /\ c.istate = "OPEN" /\ c.ostate = "OPEN" /\ ~c.EOF_SENT /\ ~c.EOF_RCVD
  /\ c.pipe = 0 /\ c.epipe = 0 /\ c.input = 0 /\ c.output = 0 /\ c.ext = 0

\* channel_new makes a fresh channel.
LEMMA NewFresh ==
  ASSUME NEW type \in Types, NEW ctype \in {"session", "tcp"}, NEW rid \in Ids \cup {-1}, NEW g \in Nat
  PROVE  LET c == NewChannel(type, ctype, rid, g) IN
         /\ Fresh(c) /\ c.type = type /\ c.ctype = ctype /\ c.rid = rid /\ c.gen = g /\ ~c.efd
         /\ c.rwin => type # "OPENING"
<1> DEFINE c == NewChannel(type, ctype, rid, g)
<1>1. /\ c \in Channel /\ c.type = type /\ c.ctype = ctype /\ c.rid = rid /\ c.gen = g
      /\ c.istate = "OPEN" /\ c.ostate = "OPEN" /\ ~c.EOF_SENT /\ ~c.EOF_RCVD
  BY NewFacts
<1>2. c.pipe = 0 /\ c.epipe = 0 /\ c.input = 0 /\ c.output = 0 /\ c.ext = 0
  BY DEF NewChannel
<1>3. ~c.efd
  BY DEF NewChannel
<1>4. c.rwin => type # "OPENING"
  BY DEF NewChannel
<1> HIDE DEF c
<1>5. Fresh(c)
  BY <1>1, <1>2 DEF Fresh
<1> QED BY <1>1, <1>3, <1>4, <1>5 DEF c

\* A channel that is marked is fresh.
LEMMA MarkFresh ==
  ASSUME NEW n \in Channel, NEW u \in BOOLEAN, NEW d \in BOOLEAN, NEW f \in BOOLEAN, Fresh(n)
  PROVE  LET c == Marked(n, u, d, f) IN
         /\ Fresh(c) /\ c.type = n.type /\ c.ctype = n.ctype /\ c.gen = n.gen /\ c.rid = n.rid
         /\ c.rwin = n.rwin /\ (c.efd <=> f)
<1> DEFINE c == Marked(n, u, d, f)
<1>1. n \in Channel
  BY DEF Fresh
<1>2. c \in Channel /\ c.type = n.type /\ c.ctype = n.ctype /\ c.rid = n.rid /\ c.gen = n.gen
      /\ c.istate = n.istate /\ c.ostate = n.ostate
      /\ (c.EOF_SENT <=> n.EOF_SENT) /\ (c.EOF_RCVD <=> n.EOF_RCVD)
  BY <1>1, MarkFacts
<1>3. c.pipe = n.pipe /\ c.epipe = n.epipe /\ c.input = n.input /\ c.output = n.output /\ c.ext = n.ext
  BY <1>1 DEF Channel, Marked
<1>4. c.rwin = n.rwin /\ c.efd = f
  BY <1>1 DEF Channel, Marked
<1> HIDE DEF c
<1>5. Fresh(c)
  BY <1>2, <1>3 DEF Fresh
<1> QED BY <1>2, <1>4, <1>5 DEF c

\* A fresh channel is sound.
LEMMA FreshSound ==
  ASSUME NEW e, NEW c, Fresh(c), e = "S" => ~c.efd,
         e = "C" /\ c.ctype = "session" /\ Stderr => c.efd, c.type = "OPENING" => ~c.rwin
  PROVE  Sound(e, c, FALSE, FALSE)
BY DEF Fresh, Sound

\* The channel that takes the offer at the head starts.
LEMMA AcceptStarts ==
  ASSUME IInv, BInv(chan, net, hist), NEW e \in Ends, net[e] # <<>>, Offer(net[e][1]),
         NEW c, Fresh(c), c.gen = net[e][1].gen, c.type # "OPENING", ~c.efd,
         c.ctype = "session" => e = "S" /\ net[e][1].kind = "OPEN_session"
  PROVE  Starts(chan, Popped(net, e), e, c)
<1> DEFINE m == net[e][1]
           nt2 == Popped(net, e)
<1>1. NInv(chan, net, opens) /\ net \in [Ends -> Seq(Packet)] /\ opens <= MaxOpens
  BY DEF IInv, NInv, Typed
<1>2. /\ Answerable(chan, nt2, e, m.gen, m.sid) /\ Absent(chan, e, m.gen)
  BY <1>1, HeadOffer
<1>3. c \in Channel /\ ~c.EOF_SENT
  BY DEF Fresh
<1>4. Sound(e, c, FALSE, FALSE)
  <2>1. e = "C" => c.ctype # "session"
    OBVIOUS
  <2> QED BY <2>1, FreshSound
<1>5. 1 \in DOMAIN net[e] /\ m \in Packet
  BY <1>1, PopFacts
<1>6. c.gen \in Gens
  <2>1. m.gen \in 1..opens /\ opens \in Nat
    BY <1>1, <1>5 DEF NInv, Typed
  <2> QED BY <2>1, <1>1, ChannelsAssumption DEF Gens
<1> HIDE DEF nt2
<1>7. /\ \A k \in DOMAIN nt2[e] : nt2[e][k].gen = c.gen =>
           nt2[e][k].kind \notin {"CLOSE", "OPEN_session", "EXTENDED_DATA", "DATA"}
      /\ \A k \in DOMAIN nt2[Peer(e)] : nt2[Peer(e)][k].gen = c.gen =>
           nt2[Peer(e)][k].kind \notin {"ADJUST", "OPEN_session"}
  BY <1>2 DEF Answerable, Quiet, Noise
<1>8. ASSUME NEW l \in Ids, About(chan, Peer(e), l, c.gen)
      PROVE  /\ chan[Peer(e)][l].type = "OPENING"
             /\ e = "S" /\ c.ctype = "session" => chan[Peer(e)][l].ctype = "session"
  <2>1. l = m.sid
    <3>1. OneEach(chan) /\ Peer(e) \in Ends
      BY <1>1, PeerFacts DEF NInv
    <3> QED BY <3>1, <1>2, <1>8 DEF OneEach, Answerable, About
  <2>2. chan[Peer(e)][l].type = "OPENING"
    BY <2>1, <1>2 DEF Answerable
  <2>3. ASSUME e = "S", c.ctype = "session" PROVE chan[Peer(e)][l].ctype = "session"
    <3>1. Peer(e) = "C" /\ m.kind = "OPEN_session"
      BY <2>3 DEF Peer
    <3>2. About(chan, "C", l, m.gen) /\ 1 \in DOMAIN net["S"] /\ net["S"][1] = m
      BY <3>1, <2>3, <1>5, <1>8
    <3>3. SameType(chan, net)
      BY DEF BInv
    <3>4. chan["C"][l].ctype = "session"
      BY <3>1, <3>2, <3>3 DEF SameType
    <3> QED BY <3>1, <3>4
  <2> QED BY <2>2, <2>3
<1>9. e = "C" => \A k \in DOMAIN nt2["S"] :
        nt2["S"][k].gen = c.gen /\ nt2["S"][k].kind = "OPEN_session" => c.ctype = "session"
  <2>1. e = "C" => Peer(e) = "S"
    BY DEF Peer
  <2> QED BY <2>1, <1>7
<1>10. Starts(chan, nt2, e, c)
  <2>1. Absent(chan, e, c.gen)
    BY <1>2
  <2> QED BY <2>1, <1>3, <1>4, <1>6, <1>7, <1>8, <1>9 DEF Starts
<1> QED BY <1>10 DEF nt2

\* ... and is in the table.
LEMMA AcceptBytes ==
  ASSUME IInv, BInv(chan, net, hist), NEW e \in Ends, net[e] # <<>>, Offer(net[e][1]),
         NEW i \in Ids, chan[e][i] = Free,
         NEW c, Fresh(c), c.gen = net[e][1].gen, c.type # "OPENING", ~c.efd,
         c.ctype = "session" => e = "S" /\ net[e][1].kind = "OPEN_session"
  PROVE  BInv(Held(chan, e, i, c), Popped(net, e), hist)
<1>1. /\ net \in [Ends -> Seq(Packet)] /\ chan \in [Ends -> [Ids -> Channel \cup {Free}]] /\ Shaped(chan)
      /\ hist \in [Ends -> [Gens -> Log]]
  BY DEF IInv, NInv, Typed, SInv
<1>2. ~Bytes(net[e][1]) /\ net[e][1].kind # "EOF"
  BY DEF Offer, Bytes
<1>3. BInv(chan, Popped(net, e), hist)
  BY <1>1, <1>2, PoppedWire
<1>4. Starts(chan, Popped(net, e), e, c)
  BY AcceptStarts
<1> QED BY <1>1, <1>3, <1>4, StartBytes

\* The offer at the head is refused.
LEMMA RefuseBytes ==
  ASSUME IInv, BInv(chan, net, hist), NEW e \in Ends, net[e] # <<>>, Offer(net[e][1]),
         NEW i \in Ids, NEW c \in Channel,
         net' = [net EXCEPT ![e] = Tail(@),
                   ![Peer(e)] = Append(@, Message(c, i, [kind |-> "OPEN_FAILURE", n |-> 0]))],
         UNCHANGED <<chan, hist>>
  PROVE  BInv(chan', net', hist')
<1> DEFINE w == Word("OPEN_FAILURE")
           m == Message(c, i, w)
           nt2 == Popped(net, e)
<1>1. net \in [Ends -> Seq(Packet)] /\ Peer(e) \in Ends
  BY PeerFacts DEF IInv, NInv, Typed
<1>2. ~Bytes(net[e][1]) /\ net[e][1].kind # "EOF"
  BY DEF Offer, Bytes
<1>3. BInv(chan, nt2, hist)
  BY <1>1, <1>2, PoppedWire
<1>4. nt2 \in [Ends -> Seq(Packet)]
  BY <1>1, PopFacts DEF Popped
<1>5. net' = Told(nt2, Peer(e), m)
  <2>1. net' = [net EXCEPT ![e] = Tail(@), ![Peer(e)] = Append(@, m)]
    BY DEF Word
  <2> HIDE DEF m
  <2> QED BY <2>1, <1>1, ToldPopped DEF nt2
<1>6. w \in Note
  BY WordFacts DEF Kinds
<1> HIDE DEF nt2
<1>7. Told(nt2, Peer(e), m) = Sent(nt2, Peer(e), i, Res(c, <<w>>))
  <2> HIDE DEF w
  <2> QED BY <1>1, <1>4, <1>6, SaidOne
<1>8. BInv(chan, Sent(nt2, Peer(e), i, Res(c, <<w>>)), hist)
  BY <1>3, <1>4, SentWire
<1> QED BY <1>5, <1>7, <1>8

\* server_request_direct_tcpip, and its like in the client.
LEMMA InputOpenTcpBytes ==
  ASSUME IInv, BInv(chan, net, hist), NEW e \in Ends, NEW accept \in BOOLEAN, InputOpenTcp(e, accept)
  PROVE  BInv(chan', net', hist')
<1> DEFINE m == net[e][1]
           i == LowestFree(e)
           c == NewChannel("CONNECTING", "tcp", m.sid, m.gen)
<1>1. Incoming(e, "OPEN_tcp") /\ FreeIds(e) # {} /\ hist' = hist
  BY DEF InputOpenTcp
<1>2. /\ net[e] # <<>> /\ Head(net[e]) = m /\ m.kind = "OPEN_tcp" /\ NInv(chan, net, opens)
  BY <1>1, IncomingFacts
<1>3. IF accept THEN Answer(e, i, On(c))
      ELSE /\ net' = [net EXCEPT ![e] = Tail(@),
                        ![Peer(e)] = Append(@, Message(c, i, [kind |-> "OPEN_FAILURE", n |-> 0]))]
           /\ UNCHANGED chan
  BY <1>2 DEF InputOpenTcp
<1>4. net \in [Ends -> Seq(Packet)] /\ Peer(e) \in Ends
  BY PeerFacts DEF IInv, NInv, Typed
<1>5. Offer(m)
  BY <1>2 DEF Offer
<1>6. m.sid \in Ids /\ m.gen \in Nat
  BY <1>2, <1>5, HeadOffer
<1>7. i \in Ids /\ chan[e][i] = Free
  BY <1>1, LowestFacts
<1> HIDE DEF i
<1>8. Fresh(c) /\ c.type = "CONNECTING" /\ c.ctype = "tcp" /\ c.gen = m.gen /\ ~c.efd
  <2>1. "CONNECTING" \in Types /\ m.sid \in Ids \cup {-1}
    BY <1>6 DEF Types
  <2> QED BY <2>1, <1>6, NewFresh
<1> HIDE DEF c
<1>c. c \in Channel
  BY <1>8 DEF Fresh
<1>9. CASE accept
  <2>1. BInv(Held(chan, e, i, c), Popped(net, e), hist)
    BY <1>2, <1>5, <1>7, <1>8, AcceptBytes
  <2>2. Answer(e, i, Res(c, <<>>))
    <3>1. On(c) = Res(c, <<>>)
      BY ResFacts
    <3> QED BY <3>1, <1>3, <1>9
  <2>3. chan' = Held(chan, e, i, c) /\ net' = Sent(Popped(net, e), Peer(e), i, Res(c, <<>>))
    BY <2>2, <1>4, <1>7, AnswerFacts
  <2>4. Popped(net, e) \in [Ends -> Seq(Packet)]
    BY <1>2, <1>4, PopFacts DEF Popped
  <2>5. Sent(Popped(net, e), Peer(e), i, Res(c, <<>>)) = Popped(net, e)
    BY <2>4, <1>4, <1>7, <1>c, SaidNone
  <2> QED BY <2>1, <2>3, <2>5, <1>1
<1>10. CASE ~accept
  BY <1>1, <1>2, <1>3, <1>5, <1>7, <1>c, <1>10, RefuseBytes
<1> QED BY <1>9, <1>10

\* server_request_session.
LEMMA InputOpenSessionBytes ==
  ASSUME IInv, BInv(chan, net, hist), InputOpenSession
  PROVE  BInv(chan', net', hist')
<1> DEFINE m == net["S"][1]
           i == LowestFree("S")
           n == NewChannel("LARVAL", "session", m.sid, m.gen)
           c == [n EXCEPT !.user = TRUE]
           q == <<Word("CONFIRM")>>
<1>0. "S" \in Ends /\ Peer("S") = "C" /\ "C" \in Ends
  BY DEF Ends, Peer
<1>1. Incoming("S", "OPEN_session") /\ FreeIds("S") # {} /\ hist' = hist
  BY DEF InputOpenSession
<1>2. /\ net["S"] # <<>> /\ Head(net["S"]) = m /\ m.kind = "OPEN_session" /\ NInv(chan, net, opens)
  BY <1>0, <1>1, IncomingFacts
<1>3. \/ Answer("S", i, Send(On(c), "CONFIRM"))
      \/ /\ net' = [net EXCEPT !["S"] = Tail(@),
                      !["C"] = Append(@, Message(c, i, [kind |-> "OPEN_FAILURE", n |-> 0]))]
         /\ UNCHANGED chan
  BY <1>2 DEF InputOpenSession
<1>4. net \in [Ends -> Seq(Packet)]
  BY DEF IInv, NInv, Typed
<1>5. Offer(m)
  BY <1>2 DEF Offer
<1>6. m.sid \in Ids /\ m.gen \in Nat
  BY <1>0, <1>2, <1>5, HeadOffer
<1>7. i \in Ids /\ chan["S"][i] = Free
  BY <1>1, LowestFacts
<1> HIDE DEF i
<1>8. Fresh(n) /\ n.type = "LARVAL" /\ n.ctype = "session" /\ n.gen = m.gen /\ ~n.efd
  <2>1. "LARVAL" \in Types /\ m.sid \in Ids \cup {-1}
    BY <1>6 DEF Types
  <2> QED BY <2>1, <1>6, NewFresh
<1> HIDE DEF n
<1>n. n \in Channel
  BY <1>8 DEF Fresh
<1>f. c \in Channel /\ c.type = n.type /\ c.ctype = n.ctype /\ c.gen = n.gen
      /\ c.istate = n.istate /\ c.ostate = n.ostate /\ c.EOF_SENT = n.EOF_SENT /\ c.EOF_RCVD = n.EOF_RCVD
      /\ c.efd = n.efd
      /\ c.pipe = n.pipe /\ c.epipe = n.epipe /\ c.input = n.input /\ c.output = n.output /\ c.ext = n.ext
  BY <1>n DEF Channel
<1> HIDE DEF c
<1>9. Fresh(c) /\ c.type = "LARVAL" /\ c.ctype = "session" /\ c.gen = m.gen /\ ~c.efd
  BY <1>8, <1>f DEF Fresh
<1>10. CASE Answer("S", i, Send(On(c), "CONFIRM"))
  <2>1. BInv(Held(chan, "S", i, c), Popped(net, "S"), hist)
    BY <1>0, <1>2, <1>5, <1>7, <1>9, AcceptBytes
  <2>2. Answer("S", i, Res(c, q))
    <3>1. Send(On(c), "CONFIRM") = Res(c, q)
      BY WordFacts
    <3> QED BY <3>1, <1>10
  <2>3. chan' = Held(chan, "S", i, c) /\ net' = Sent(Popped(net, "S"), Peer("S"), i, Res(c, q))
    BY <2>2, <1>0, <1>4, <1>7, AnswerFacts
  <2>4. Popped(net, "S") \in [Ends -> Seq(Packet)]
    BY <1>0, <1>2, <1>4, PopFacts DEF Popped
  <2>5. BInv(Held(chan, "S", i, c), Sent(Popped(net, "S"), Peer("S"), i, Res(c, <<Word("CONFIRM")>>)), hist)
    BY <2>1, <2>4, <1>0, <1>7, <1>f, SentWire
  <2> QED BY <2>3, <2>5, <1>1
<1>11. CASE /\ net' = [net EXCEPT !["S"] = Tail(@),
                        !["C"] = Append(@, Message(c, i, [kind |-> "OPEN_FAILURE", n |-> 0]))]
            /\ UNCHANGED chan
  BY <1>0, <1>1, <1>2, <1>5, <1>7, <1>f, <1>11, RefuseBytes
<1> QED BY <1>3, <1>10, <1>11

\* channel_connect_stdio_fwd, client_session2_setup, mux_new_session: a channel is asked for.
LEMMA OpenChannelBytes ==
  ASSUME IInv, BInv(chan, net, hist), NEW e \in Ends, NEW ctype \in CTypes, NEW mux \in BOOLEAN,
         OpenChannel(e, ctype, mux)
  PROVE  BInv(chan', net', hist')
<1> DEFINE i == LowestFree(e)
           n == NewChannel("OPENING", ctype, -1, opens + 1)
           u == ctype = "session"
           f == ctype = "session" /\ Stderr
           c == Marked(n, u, mux, f)
           k == OpenKind(ctype)
           ks == {k}
           o == <<Word(k)>>
           p == Peer(e)
           nt2 == Sent(net, Peer(e), i, Res(c, o))
<1>1. /\ opens < MaxOpens /\ FreeIds(e) # {} /\ (ctype = "session" => e = "C")
      /\ Update(e, i, Send(On(c), k)) /\ hist' = hist
  BY DEF OpenChannel, Marked
<1>2. i \in Ids /\ chan[e][i] = Free
  BY <1>1, LowestFacts
<1> HIDE DEF i
<1>3. /\ Typed(chan, net, opens) /\ opens \in Nat /\ Shaped(chan) /\ hist \in [Ends -> [Gens -> Log]]
      /\ chan \in [Ends -> [Ids -> Channel \cup {Free}]] /\ net \in [Ends -> Seq(Packet)]
  BY DEF IInv, NInv, Typed, SInv
<1>4. Fresh(n) /\ n.type = "OPENING" /\ n.ctype = ctype /\ n.gen = opens + 1 /\ ~n.rwin
  <2>1. "OPENING" \in Types /\ ctype \in {"session", "tcp"} /\ -1 \in Ids \cup {-1} /\ opens + 1 \in Nat
    BY <1>3, ChannelsAssumption DEF Types
  <2> QED BY <2>1, NewFresh
<1>5. u \in BOOLEAN /\ f \in BOOLEAN
  BY ChannelsAssumption
<1> HIDE DEF n, u, f
<1>6. Fresh(c) /\ c.type = n.type /\ c.ctype = n.ctype /\ c.gen = n.gen /\ c.rwin = n.rwin /\ (c.efd <=> f)
  <2>1. \A a, d, b \in BOOLEAN :
          LET y == Marked(n, a, d, b) IN
          /\ Fresh(y) /\ y.type = n.type /\ y.ctype = n.ctype /\ y.gen = n.gen
          /\ y.rwin = n.rwin /\ (y.efd <=> b)
    <3>1. n \in Channel
      BY <1>4 DEF Fresh
    <3> QED BY <3>1, <1>4, MarkFresh
  <2>3. PICK a \in BOOLEAN : a = u
    BY <1>5, Zenon
  <2>4. PICK b \in BOOLEAN : b = f
    BY <1>5, Zenon
  <2>5. c = Marked(n, a, mux, b)
    BY <2>3, <2>4, Zenon
  <2> HIDE DEF c
  <2>6. Fresh(c) /\ c.type = n.type /\ c.ctype = n.ctype /\ c.gen = n.gen /\ c.rwin = n.rwin /\ (c.efd <=> b)
    BY <2>1, <2>5
  <2> QED BY <2>4, <2>6, Zenon
<1> HIDE DEF c
<1>f. c.efd <=> (ctype = "session" /\ Stderr)
  BY <1>6, Zenon DEF f
<1>c. c \in Channel /\ ~c.EOF_SENT /\ c.gen = opens + 1 /\ c.type = "OPENING" /\ c.ctype = ctype
  BY <1>4, <1>6 DEF Fresh
<1>7. Sound(e, c, FALSE, FALSE)
  <2>1. ~c.rwin
    BY <1>4, <1>6
  <2>2. e = "S" => ~c.efd
    BY <1>1, <1>f
  <2>3. e = "C" /\ c.ctype = "session" /\ Stderr => c.efd
    BY <1>c, <1>f
  <2> QED BY <2>1, <2>2, <2>3, <1>6, FreshSound
<1>8. k \in {"OPEN_session", "OPEN_tcp"} /\ (k = "OPEN_session" => ctype = "session")
  BY DEF OpenKind
<1>9. Send(On(c), k) = Res(c, o) /\ Notes(o, ks, 0)
  <2>1. k \in Kinds /\ k \notin {"DATA", "EXTENDED_DATA"}
    BY <1>8 DEF Kinds
  <2> HIDE DEF k
  <2> QED BY <2>1, WordFacts, WordNotes
<1> HIDE DEF k
<1>10. chan' = Held(chan, e, i, c) /\ net' = nt2
  <2> HIDE DEF o
  <2>1. Res(c, o).c = c
    BY ResFacts
  <2>2. Update(e, i, Res(c, o))
    BY <1>1, <1>9
  <2> QED BY <2>1, <2>2 DEF Update, Held, Sent
<1>11. /\ p \in Ends /\ p # e /\ Peer(e) = p
       /\ \A f2 \in Ends, j \in Ids : ~About(chan, f2, j, c.gen)
       /\ \A f2 \in Ends : \A l \in DOMAIN net[f2] : net[f2][l].gen # c.gen
  <2>1. p \in Ends /\ p # e /\ Peer(e) = p
    BY PeerFacts
  <2>2. \A g \in 1..opens : g # c.gen
    BY <1>3, <1>c
  <2> QED BY <2>1, <2>2, <1>3 DEF Typed, About
<1>12. BInv(chan, nt2, hist)
  <2>1. \A l \in Ids : ~About(chan, "C", l, c.gen)
    BY <1>11 DEF Ends
  <2> QED BY <2>1, <1>2, <1>3, <1>8, <1>c, SentWire
<1>13. Emits(net[p], nt2[p], c.gen, ks, 0) /\ nt2[e] = net[e]
  <2> HIDE DEF o, ks
  <2>1. Peer(e) \in Ends /\ Peer(e) # e /\ c \in Channel
    BY <1>11, <1>c
  <2>2. Emits(net[Peer(e)], nt2[Peer(e)], c.gen, ks, 0) /\ \A h \in Ends : h # Peer(e) => nt2[h] = net[h]
    BY <2>1, <1>2, <1>3, <1>9, SentEmits
  <2> QED BY <2>1, <2>2
<1> HIDE DEF nt2
<1>14. \A l \in DOMAIN nt2[p] : nt2[p][l].gen = c.gen => nt2[p][l].kind = k
  <2>1. \A l \in DOMAIN nt2[p] : l \in DOMAIN net[p] \/ nt2[p][l].kind \in ks
    BY <1>13 DEF Emits
  <2>2. \A l \in DOMAIN net[p] : nt2[p][l] = net[p][l]
    BY <1>13 DEF Emits
  <2> QED BY <2>1, <2>2, <1>11
<1>15. Starts(chan, nt2, e, c)
  <2>1. Absent(chan, e, c.gen) /\ \A l \in Ids : ~About(chan, Peer(e), l, c.gen)
    BY <1>11 DEF Absent, About
  <2>2. c.gen \in Gens
    BY <1>1, <1>3, <1>c, ChannelsAssumption DEF Gens
  <2>3. \A l \in DOMAIN nt2[e] : nt2[e][l].gen # c.gen
    BY <1>11, <1>13
  <2>4. \A l \in DOMAIN nt2[Peer(e)] : nt2[Peer(e)][l].gen = c.gen => nt2[Peer(e)][l].kind # "ADJUST"
    BY <1>8, <1>11, <1>14
  <2>5. e = "C" => \A l \in DOMAIN nt2["S"] :
          nt2["S"][l].gen = c.gen /\ nt2["S"][l].kind = "OPEN_session" => c.ctype = "session"
    <3>1. e = "C" => p = "S"
      BY DEF Peer
    <3> QED BY <3>1, <1>8, <1>14, <1>c
  <2> QED BY <2>1, <2>2, <2>3, <2>4, <2>5, <1>7, <1>c DEF Starts
<1>16. BInv(Held(chan, e, i, c), nt2, hist)
  BY <1>2, <1>3, <1>12, <1>15, StartBytes
<1> QED BY <1>1, <1>10, <1>16

\* CONFIRM changes nothing that is held.
LEMMA GrantBytes ==
  ASSUME NEW c \in Channel, NEW j \in Ids, NEW w \in BOOLEAN
  PROVE  LET y == Granted(c, j, w)
             z == Asking(y)
         IN  /\ y.pipe = c.pipe /\ y.epipe = c.epipe /\ y.input = c.input /\ y.output = c.output
             /\ y.efd = c.efd /\ y.ext = c.ext /\ y.rwin = w
             /\ z.pipe = c.pipe /\ z.epipe = c.epipe /\ z.input = c.input /\ z.output = c.output
             /\ z.efd = c.efd /\ z.ext = c.ext /\ z.rwin = w
BY DEF Granted, Asking, Channel

\* Channel c that asked to be opened is open as y, with window w.
GrantOf(c, y, w) ==
  /\ y \in Channel /\ y.type = "OPEN" /\ y.ctype = c.ctype /\ y.gen = c.gen
  /\ y.istate = c.istate /\ y.ostate = c.ostate
  /\ y.EOF_SENT = c.EOF_SENT /\ y.EOF_RCVD = c.EOF_RCVD
  /\ y.pipe = c.pipe /\ y.epipe = c.epipe /\ y.input = c.input /\ y.output = c.output
  /\ y.efd = c.efd /\ y.ext = c.ext
  /\ y.rwin => w

\* A confirmed channel: only its number and its window are new.
LEMMA GrantChange ==
  ASSUME NEW e \in Ends, NEW i \in Ids, NEW y, NEW w, NEW ks, IInv, hist' = hist,
         Known(e, chan[e][i]), GrantOf(chan[e][i], y, w), chan[e][i].type = "OPENING", Mild(ks),
         w => \A j \in Ids : About(chan, "S", j, y.gen) => chan["S"][j].type # "LARVAL"
  PROVE  Change(chan, hist, hist', e, chan[e][i], y, y, ks, 0, 0, "none")
<1> DEFINE c == chan[e][i]
<1>1. Sound(e, c, Cut(hist, e, c.gen), Cut(hist, Peer(e), c.gen)) /\ Known(e, c)
  BY DEF Known
<1>s. c.istate = "OPEN" /\ c.ostate = "OPEN"
  BY DEF Known, Shape
<1>2. /\ c.type = "OPENING" /\ GrantOf(c, y, w)
  OBVIOUS
<1> HIDE DEF c
<1>3. Becomes(c, y, y)
  BY <1>1, <1>2, UsedFacts DEF Becomes, Known, GrantOf
<1>4. Sound(e, y, Cut(hist, e, c.gen), Cut(hist, Peer(e), c.gen))
  BY <1>1, <1>2, <1>s DEF Sound, GrantOf
<1>5. Announces(chan, e, c, y, ks, Cut(hist, Peer(e), c.gen))
  BY <1>2 DEF Announces, Mild, GrantOf
<1>6. Unsent(e, c) <= Unsent(e, y) + 0 /\ Unread(e, c) + 0 <= Unread(e, y)
  <2>1. Unread(e, y) = Unread(e, c) /\ Unsent(e, y) = Unsent(e, c)
    BY <1>2 DEF Unread, Unsent, GrantOf
  <2>2. Unread(e, c) \in Nat /\ Unsent(e, c) \in Nat
    BY <1>1, HeldFacts
  <2> QED BY <2>1, <2>2
<1>7. Change(chan, hist, hist', e, c, y, y, ks, 0, 0, "none")
  BY <1>1, <1>3, <1>4, <1>5, <1>6, QuietChange
<1> QED BY <1>7 DEF c

\* channel_input_open_confirmation.
LEMMA InputOpenConfirmationBytes ==
  ASSUME IInv, BInv(chan, net, hist), NEW e \in Ends, InputOpenConfirmation(e)
  PROVE  BInv(chan', net', hist')
<1> DEFINE m == net[e][1]
           i == m.to
           c == chan[e][i]
           w == c.ctype = "tcp"
           y == Granted(c, m.sid, w)
           z == Asking(y)
           q == <<Word("EXEC")>>
           k0 == {}
           k1 == {"EXEC"}
<1>1. Incoming(e, "CONFIRM") /\ hist' = hist
  BY DEF InputOpenConfirmation
<1>2. /\ net[e] # <<>> /\ Head(net[e]) = m /\ m.kind = "CONFIRM" /\ m \in Packet
      /\ NInv(chan, net, opens)
  BY <1>1, IncomingFacts
<1>3. /\ Found(e) /\ Delivers(chan, e, m) /\ i \in Ids /\ c # Free /\ c \in Channel /\ c.gen = m.gen
      /\ Shape(e, c)
  BY <1>1, OwnFacts
<1>4. c.type = "OPENING"
  BY SMTT(30), <1>2, <1>3 DEF Delivers, Reply
<1>5. Answer(e, i, IF c.ctype = "session" THEN Send(On(z), "EXEC") ELSE On(y))
  BY <1>2, <1>3, <1>4 DEF InputOpenConfirmation, Granted, Asking
<1>6. m.sid \in Ids
  BY <1>2 DEF Packet
<1>k. Known(e, c)
  BY <1>3, KnownFacts
<1>7. PICK v \in BOOLEAN : v = w
  BY Zenon
<1>8. y = Granted(c, m.sid, v)
  BY <1>7, Zenon
<1>v. v <=> c.ctype = "tcp"
  BY <1>7, Zenon
<1>n. Mild(k0) /\ Notes(<<>>, k0, 0) /\ Mild(k1) /\ Notes(q, k1, 0)
  BY NotesFacts, WordNotes DEF Mild, Kinds
<1>m. Reads(m, c.gen, 0, "none")
  BY SMTT(30), <1>2 DEF Reads, Amount, Bytes
<1> HIDE DEF w, y
<1>9. /\ y \in Channel /\ y.type = "OPEN" /\ y.gen = c.gen /\ y.ctype = c.ctype
      /\ y.istate = c.istate /\ y.ostate = c.ostate
      /\ y.EOF_SENT = c.EOF_SENT /\ y.EOF_RCVD = c.EOF_RCVD
  BY SMTT(30), <1>3, <1>6, <1>8, GrantFacts
<1>10. /\ z \in Channel /\ z.type = y.type /\ z.gen = y.gen /\ z.ctype = y.ctype
       /\ z.istate = y.istate /\ z.ostate = y.ostate
       /\ z.EOF_SENT = y.EOF_SENT /\ z.EOF_RCVD = y.EOF_RCVD
  BY <1>9, AskFacts
<1>11. /\ y.pipe = c.pipe /\ y.epipe = c.epipe /\ y.input = c.input /\ y.output = c.output
       /\ y.efd = c.efd /\ y.ext = c.ext /\ y.rwin = v
       /\ z.pipe = c.pipe /\ z.epipe = c.epipe /\ z.input = c.input /\ z.output = c.output
       /\ z.efd = c.efd /\ z.ext = c.ext /\ z.rwin = v
  <2> DEFINE a == Granted(c, m.sid, v)
             b == Asking(a)
  <2>1. /\ a.pipe = c.pipe /\ a.epipe = c.epipe /\ a.input = c.input /\ a.output = c.output
        /\ a.efd = c.efd /\ a.ext = c.ext /\ a.rwin = v
        /\ b.pipe = c.pipe /\ b.epipe = c.epipe /\ b.input = c.input /\ b.output = c.output
        /\ b.efd = c.efd /\ b.ext = c.ext /\ b.rwin = v
    BY SMTT(30), <1>3, <1>6, GrantBytes
  <2>2. a = y /\ b = z
    BY <1>8
  <2> HIDE DEF a, b, z
  <2> QED BY SMTT(30), <2>1, <2>2
<1> HIDE DEF z
<1>12. GrantOf(c, y, v) /\ GrantOf(c, z, v)
  BY <1>9, <1>10, <1>11 DEF GrantOf
<1>13. ASSUME v, NEW j \in Ids, About(chan, "S", j, c.gen) PROVE chan["S"][j].type # "LARVAL"
  <2>1. c.ctype = "tcp" /\ chan["S"][j] # Free /\ chan["S"][j].gen = c.gen
    BY <1>v, <1>13 DEF About
  <2>2. CASE e = "S"
    <3>1. OneEach(chan)
      BY <1>2 DEF NInv
    <3>2. j = i
      BY <3>1, <2>1, <2>2, <1>3 DEF OneEach
    <3> QED BY <3>2, <2>2, <1>4
  <2>3. CASE e = "C"
    <3>1. Shape("S", chan["S"][j])
      BY <2>1, <1>2 DEF NInv, Shaped, Ends
    <3>2. ASSUME chan["S"][j].type = "LARVAL" PROVE FALSE
      <4>1. chan["S"][j].ctype = "session"
        BY <3>1, <3>2 DEF Shape
      <4>2. SameType(chan, net)
        BY DEF BInv
      <4>3. c = chan["C"][i]
        BY <2>3
      <4>4. c.ctype = "session"
        BY <4>1, <4>2, <4>3, <1>3, <1>13 DEF SameType
      <4> QED BY <4>4, <2>1
    <3> QED BY <3>2
  <2> QED BY <2>2, <2>3 DEF Ends
<1>14. CASE c.ctype = "session"
  <2>1. Answer(e, i, Res(z, q))
    <3>1. Send(On(z), "EXEC") = Res(z, q)
      BY WordFacts
    <3> QED BY <3>1, <1>5, <1>14
  <2> HIDE DEF k1, q
  <2>2. z.gen = c.gen
    BY <1>9, <1>10
  <2>3. v => \A j \in Ids : About(chan, "S", j, z.gen) => chan["S"][j].type # "LARVAL"
    BY SMTT(30), <2>2, <1>13
  <2>4. Change(chan, hist, hist', e, chan[e][i], z, z, k1, 0, 0, "none")
    BY <2>3, <1>1, <1>3, <1>4, <1>k, <1>12, <1>n, GrantChange
  <2>5. Reads(net[e][1], z.gen, 0, "none")
    BY <2>2, <1>m
  <2> QED BY <2>1, <2>4, <2>5, <1>2, <1>3, <1>n, AnswerBytes
<1>15. CASE c.ctype # "session"
  <2>1. Answer(e, i, Res(y, <<>>))
    <3>1. On(y) = Res(y, <<>>)
      BY ResFacts
    <3> QED BY <3>1, <1>5, <1>15
  <2> HIDE DEF k0
  <2>2. y.gen = c.gen
    BY SMTT(30), <1>9
  <2>3. v => \A j \in Ids : About(chan, "S", j, y.gen) => chan["S"][j].type # "LARVAL"
    BY <2>2, <1>13
  <2>4. Change(chan, hist, hist', e, chan[e][i], y, y, k0, 0, 0, "none")
    BY Zenon, <2>3, <1>1, <1>3, <1>4, <1>k, <1>12, <1>n, GrantChange
  <2>5. Reads(net[e][1], y.gen, 0, "none")
    BY <2>2, <1>m
  <2> QED BY <2>1, <2>4, <2>5, <1>2, <1>3, <1>n, AnswerBytes
<1> QED BY <1>14, <1>15

-----------------------------------------------------------------------------
(* The children.                                                           *)

\* The child dies behind its pipes.
LEMMA ChildExitBytes ==
  ASSUME BInv(chan, net, hist), NEW s \in Sids, ChildExit(s)
  PROVE  BInv(chan', net', hist')
<1>1. chan' = chan /\ net' = net /\ hist' = hist
  BY DEF ChildExit
<1> QED BY <1>1

\* Recording a child leaves the bytes alone.
LEMMA ChildLogs ==
  ASSUME NEW hi \in [Ends -> [Gens -> Log]], NEW e \in Ends, NEW f \in Ends, NEW g \in Gens,
         NEW k \in {"none", "started", "reported"}
  PROVE  LET h == Childed(hi, f, g, k) IN
         /\ Logs(hi, h, e, g)
         /\ h[e][g].wrote = hi[e][g].wrote /\ h[e][g].read = hi[e][g].read
         /\ \A d \in Ends : Cut(h, d, g) = Cut(hi, d, g)
<1> DEFINE a == hi[f][g]
           b == [a EXCEPT !.child = k]
           h == Noted(hi, f, g, b)
<1>1. a \in Log
  OBVIOUS
<1>2. b \in Log /\ b.wrote = a.wrote /\ b.read = a.read
  BY <1>1 DEF Log
<1>b. b.cut = a.cut
  BY <1>1 DEF Log
<1>3. Childed(hi, f, g, k) = h
  BY DEF Noted, Childed
<1> HIDE DEF b
<1>4. Logs(hi, h, e, g)
  BY <1>2, <1>b, NotedLogs
<1>5. h[f][g] = b /\ h[Peer(f)] = hi[Peer(f)]
  BY <1>2, NotedFacts
<1> HIDE DEF h
<1>6. \A d \in Ends : h[d][g] = IF d = f THEN b ELSE hi[d][g]
  BY <1>5, PeerFacts
<1>7. h[e][g].wrote = hi[e][g].wrote /\ h[e][g].read = hi[e][g].read
  BY <1>2, <1>6
<1>8. \A d \in Ends : Cut(h, d, g) = Cut(hi, d, g)
  BY <1>b, <1>6 DEF Cut
<1> QED BY <1>3, <1>4, <1>7, <1>8

\* The stream to the child is cut and its end recorded.
LEMMA CutChild ==
  ASSUME IInv, NEW g \in Gens, hist' = Childed(CutStream("C", g), "S", g, "reported")
  PROVE  Records("S", g, 0, 0) /\ Cut(hist', "C", g) /\ Cut(hist', "S", g) = Cut(hist, "S", g)
<1> DEFINE a == hist["C"][g]
           b == [a EXCEPT !.cut = TRUE]
           h == CutStream("C", g)
<1>0. "S" \in Ends /\ "C" \in Ends /\ Peer("C") = "S" /\ "S" # "C" /\ "reported" \in {"none", "started", "reported"}
  BY DEF Ends, Peer
<1>1. hist \in [Ends -> [Gens -> Log]]
  BY DEF IInv, SInv
<1>2. a \in Log /\ hist["S"][g] \in Log
  BY <1>0, <1>1
<1>3. b \in Log /\ b.wrote = a.wrote /\ b.read = a.read
  BY <1>2 DEF Log
<1>b. b.cut
  BY <1>2 DEF Log
<1>4. h = Noted(hist, "C", g, b)
  BY DEF CutStream, Noted
<1> HIDE DEF b, h
<1>5. Logs(hist, h, "S", g) /\ h \in [Ends -> [Gens -> Log]] /\ h["C"][g] = b /\ h["S"] = hist["S"]
  <2>1. Logs(hist, Noted(hist, "C", g, b), "S", g)
    <3>1. hist["C"][g].cut => b.cut
      BY <1>b
    <3>2. "C" # "S" => b.wrote = hist["C"][g].wrote /\ b.read = hist["C"][g].read
      BY <1>3
    <3>3. b \in Log
      BY <1>3
    <3> HIDE DEF a
    <3> QED BY <3>1, <3>2, <3>3, <1>0, <1>1, NotedLogs
  <2>2. /\ Noted(hist, "C", g, b) \in [Ends -> [Gens -> Log]] /\ Noted(hist, "C", g, b)["C"][g] = b
        /\ Noted(hist, "C", g, b)[Peer("C")] = hist[Peer("C")]
    <3>1. "C" \in Ends /\ b \in Log
      BY <1>0, <1>3
    <3> HIDE DEF a
    <3>2. \A e \in Ends : /\ Noted(hist, e, g, b) \in [Ends -> [Gens -> Log]] /\ Noted(hist, e, g, b)[e][g] = b
                          /\ Noted(hist, e, g, b)[Peer(e)] = hist[Peer(e)]
      BY <3>1, <1>1, NotedFacts
    <3> QED BY <3>1, <3>2
  <2> QED BY <2>1, <2>2, <1>0, <1>4
<1>6. /\ Logs(h, hist', "S", g)
      /\ hist'["S"][g].wrote = h["S"][g].wrote /\ hist'["S"][g].read = h["S"][g].read
      /\ \A d \in Ends : Cut(hist', d, g) = Cut(h, d, g)
  <2>1. LET k == Childed(h, "S", g, "reported") IN
        /\ Logs(h, k, "S", g)
        /\ k["S"][g].wrote = h["S"][g].wrote /\ k["S"][g].read = h["S"][g].read
        /\ \A d \in Ends : Cut(k, d, g) = Cut(h, d, g)
    BY <1>0, <1>5, ChildLogs
  <2>2. hist' = Childed(h, "S", g, "reported")
    BY DEF h
  <2> QED BY <2>1, <2>2
<1>7. Logs(hist, hist', "S", g)
  BY <1>5, <1>6, LogsTrans
<1>8. hist'["S"][g].wrote = hist["S"][g].wrote + 0 /\ hist'["S"][g].read = hist["S"][g].read + 0
  <2>1. hist["S"][g].wrote \in Nat /\ hist["S"][g].read \in Nat
    BY <1>2 DEF Log
  <2> QED BY <2>1, <1>5, <1>6
<1>9. Cut(h, "C", g) /\ Cut(h, "S", g) = Cut(hist, "S", g)
  BY <1>5, <1>b DEF Cut
<1>10. Cut(hist', "C", g) = Cut(h, "C", g) /\ Cut(hist', "S", g) = Cut(h, "S", g)
  BY <1>0, <1>6
<1> QED BY <1>7, <1>8, <1>9, <1>10 DEF Records

\* session_close_by_pid: the exit status is sent and what the child has not read is lost.
LEMMA CollectChildBytes ==
  ASSUME IInv, BInv(chan, net, hist), NEW s \in Sids, CollectChild(s)
  PROVE  BInv(chan', net', hist')
<1> DEFINE i == sess[s].chanid
           c == chan["S"][i]
           x == Release(c)
           w == Word("EXIT")
           ow == Word("EOW")
<1>0. "S" \in Ends /\ "C" \in Ends /\ Peer("S") = "C"
  BY SMTT(30) DEF Ends, Peer
<1>1. sess[s].pid = "dead"
  BY Zenon DEF CollectChild
<1>2. i \in Ids /\ c # Free /\ c \in Channel /\ c.type = "OPEN" /\ c.ctype = "session" /\ c.gen \in Gens
  BY SMTT(30), <1>1, ChildFacts
<1>3. /\ Update("S", i, WriteFailed(Send(On(x), "EXIT")))
      /\ hist' = [CutStream("C", c.gen) EXCEPT !["S"][c.gen].child = "reported"]
  BY Zenon, <1>2 DEF CollectChild
<1>4. Known("S", c)
  BY <1>0, <1>2, KnownFacts
<1>5. Records("S", c.gen, 0, 0) /\ Cut(hist', "C", c.gen) /\ Cut(hist', "S", c.gen) = Cut(hist, "S", c.gen)
  <2> DEFINE g == c.gen
  <2>1. g \in Gens /\ hist' = Childed(CutStream("C", g), "S", g, "reported")
    BY Zenon, <1>2, <1>3 DEF Childed
  <2> HIDE DEF g
  <2>2. Records("S", g, 0, 0) /\ Cut(hist', "C", g) /\ Cut(hist', "S", g) = Cut(hist, "S", g)
    BY <2>1, CutChild
  <2> QED BY SMTT(30), <2>2 DEF g
<1>6. /\ x \in Channel /\ x.type = c.type /\ x.gen = c.gen /\ x.ctype = c.ctype
      /\ x.istate = c.istate /\ x.ostate = c.ostate
      /\ x.EOF_SENT = c.EOF_SENT /\ x.EOF_RCVD = c.EOF_RCVD /\ SameBuffers(c, x)
  BY <1>2 DEF Release, Channel, SameBuffers
<1> HIDE DEF x
<1>7. Send(On(x), "EXIT") = Res(x, <<w>>)
  BY WordFacts
<1>8. PICK y, q : /\ WriteFailed(Res(x, <<w>>)) = Res(y, q) /\ Proceeds(x, y) /\ WriteStops(x, y)
                  /\ q = <<w>> \/ q = Append(<<w>>, ow)
  <2> DEFINE o == <<w>>
  <2> HIDE DEF o
  <2>1. \E y, q : /\ WriteFailed(Res(x, o)) = Res(y, q) /\ Proceeds(x, y) /\ WriteStops(x, y)
                  /\ q = o \/ (q = Append(o, Word("EOW")) /\ x.ostate # "CLOSED")
    BY <1>6, WriteFailedFacts
  <2> QED BY <2>1 DEF o
<1>9. /\ w \in Note /\ w.kind = "EXIT" /\ Amount(w) = 0
      /\ ow \in Note /\ ow.kind = "EOW" /\ Amount(ow) = 0
  BY WordFacts, WordNotes DEF Kinds
<1> HIDE DEF w, ow
<1>10. PICK ks : Notes(q, ks, 0) /\ ks \subseteq {"EXIT", "EOW"}
  <2>1. CASE q = <<w>>
    BY <2>1, <1>9, NotesFacts
  <2>2. CASE q = Append(<<w>>, ow)
    <3>1. q = <<w, ow>>
      BY <2>2, AppendOne
    <3>2. Notes(<<w, ow>>, {w.kind, ow.kind}, Amount(w) + Amount(ow))
      BY <1>9, NotesFacts
    <3>3. Notes(q, {"EXIT", "EOW"}, 0)
      BY <3>1, <3>2, <1>9
    <3> QED BY <3>3
  <2> QED BY <2>1, <2>2, <1>8
<1>11. Update("S", i, Res(y, q))
  BY Zenon, <1>3, <1>7, <1>8
<1>12. /\ y \in Channel /\ y.type = c.type /\ y.ctype = c.ctype /\ y.gen = c.gen
       /\ y.EOF_SENT = c.EOF_SENT /\ y.EOF_RCVD = c.EOF_RCVD
  BY <1>6, <1>8 DEF Proceeds
<1>13. /\ y.istate = c.istate /\ y.ostate = "CLOSED"
       /\ y.output = 0 \/ (c.ostate = "CLOSED" /\ y.output = c.output)
       /\ y.pipe = c.pipe /\ y.epipe = c.epipe /\ y.input = c.input
       /\ y.efd = c.efd /\ y.ext = c.ext /\ y.rwin = c.rwin
  BY SMTT(30), <1>6, <1>8 DEF WriteStops, SameBuffers
<1>14. Becomes(c, y, y)
  BY Zenon, <1>4, <1>12, UsedFacts DEF Becomes, Known
<1>15. Sound("S", y, Cut(hist', "S", c.gen), Cut(hist', Peer("S"), c.gen))
  <2>1. Sound("S", c, Cut(hist, "S", c.gen), Cut(hist, Peer("S"), c.gen))
    BY <1>4 DEF Known
  <2>2. Sound("S", c, Cut(hist', "S", c.gen), Cut(hist, Peer("S"), c.gen)) /\ Cut(hist', Peer("S"), c.gen)
    BY SMTT(30), <2>1, <1>0, <1>5
  <2> HIDE DEF c
  <2> QED BY SMTT(30), <2>2, <1>2, <1>12, <1>13 DEF Sound
<1>16. Announces(chan, "S", c, y, ks, Cut(hist', Peer("S"), c.gen))
  BY Zenon, <1>0, <1>5, <1>10, <1>12, <1>13 DEF Announces, Kinds
<1>17. 0 + Unsent("S", c) <= Unsent("S", y) + 0 /\ Cut(hist', Peer("S"), c.gen)
  <2>1. Unsent("S", y) = Unsent("S", c)
    BY <1>13 DEF Unsent
  <2>2. Unsent("S", c) \in Nat
    BY SMTT(30), <1>0, <1>4, HeldFacts
  <2> QED BY <2>1, <2>2, <1>0, <1>5
<1>18. Change(chan, hist, hist', "S", c, y, y, ks, 0, 0, "none")
  BY Zenon, <1>0, <1>4, <1>5, <1>14, <1>15, <1>16, <1>17, LoudChange
<1> QED BY <1>0, <1>2, <1>10, <1>11, <1>18, UpdateBytes

\* session_input_channel_req, shell and exec.
LEMMA InputExecBytes ==
  ASSUME IInv, BInv(chan, net, hist), NEW ok \in BOOLEAN, InputExec(ok)
  PROVE  BInv(chan', net', hist')
<1> DEFINE m == net["S"][1]
           i == m.to
           c == chan["S"][i]
           started == ok /\ c.type = "LARVAL" /\ SessionsOf(i) # {}
           x == Started(c)
<1>0. "S" \in Ends
  BY SMTT(30) DEF Ends
<1>1. Incoming("S", "EXEC")
  BY Zenon DEF InputExec
<1>2. /\ net["S"] # <<>> /\ Head(net["S"]) = m /\ m.kind = "EXEC" /\ NInv(chan, net, opens)
  BY <1>0, <1>1, IncomingFacts
<1>3. /\ Found("S") /\ Delivers(chan, "S", m) /\ i \in Ids /\ c \in Channel /\ c # Free
      /\ Shape("S", c) /\ c.gen = m.gen /\ m.gen \in Gens
  BY <1>0, <1>1, OwnFacts
<1>4. Known("S", c)
  BY <1>0, <1>3, KnownFacts
<1>5. hist \in [Ends -> [Gens -> Log]]
  BY DEF IInv, SInv
<1>6. CASE started
  <2> DEFINE w == Word("ADJUST")
             v == Word("SUCCESS")
             q == <<w, v>>
             ks == {"ADJUST", "SUCCESS"}
  <2>1. ~c.CLOSE_SENT /\ c.type = "LARVAL"
    <3>1. ~c.CLOSE_RCVD
      BY SMTT(30), <1>3 DEF Delivers
    <3> QED BY <3>1, <1>3, <1>6 DEF Shape
  <2>2. /\ Answer("S", i, Send(Send(On(x), "ADJUST"), "SUCCESS"))
        /\ hist' = [hist EXCEPT !["S"][c.gen].child = "started"]
    BY ZenonT(30), <2>1, <1>2, <1>3, <1>6 DEF InputExec, Started
  <2>3. Records("S", c.gen, 0, 0) /\ \A d \in Ends : Cut(hist', d, c.gen) = Cut(hist, d, c.gen)
    <3> DEFINE g == c.gen
    <3>1. hist' = Childed(hist, "S", g, "started") /\ g \in Gens
      BY <2>2, <1>3 DEF Childed
    <3>2. "started" \in {"none", "started", "reported"}
      OBVIOUS
    <3> HIDE DEF g
    <3>3. /\ Logs(hist, hist', "S", g)
          /\ hist'["S"][g].wrote = hist["S"][g].wrote /\ hist'["S"][g].read = hist["S"][g].read
          /\ \A d \in Ends : Cut(hist', d, g) = Cut(hist, d, g)
      <4>1. LET h == Childed(hist, "S", g, "started") IN
            /\ Logs(hist, h, "S", g)
            /\ h["S"][g].wrote = hist["S"][g].wrote /\ h["S"][g].read = hist["S"][g].read
            /\ \A d \in Ends : Cut(h, d, g) = Cut(hist, d, g)
        BY <3>1, <3>2, <1>0, <1>5, ChildLogs
      <4> QED BY <4>1, <3>1
    <3>4. hist["S"][g].wrote \in Nat /\ hist["S"][g].read \in Nat
      BY <3>1, <1>0, <1>5 DEF Log
    <3>5. Records("S", g, 0, 0)
      BY SMTT(30), <3>3, <3>4 DEF Records
    <3> QED BY ZenonT(30), <3>3, <3>5 DEF g
  <2>4. /\ x \in Channel /\ x.type = "OPEN" /\ x.gen = c.gen /\ x.ctype = c.ctype
        /\ x.istate = c.istate /\ x.ostate = c.ostate
        /\ x.EOF_SENT = c.EOF_SENT /\ x.EOF_RCVD = c.EOF_RCVD
    BY ZenonT(30), <1>3, StartedFacts
  <2>5. /\ x.pipe = c.pipe /\ x.epipe = c.epipe /\ x.input = c.input /\ x.output = c.output
        /\ x.ext = c.ext /\ x.rwin = c.rwin
    BY <1>3 DEF Started, Channel
  <2>6. x.efd <=> Stderr
    <3>1. Stderr \in BOOLEAN
      BY SMTT(30), ChannelsAssumption
    <3>2. x.efd = Stderr
      BY <1>3 DEF Started, Channel
    <3> HIDE DEF x
    <3> QED BY <3>1, <3>2, Zenon
  <2> HIDE DEF x
  <2>7. Send(Send(On(x), "ADJUST"), "SUCCESS") = Res(x, q)
    <3>1. Send(On(x), "ADJUST") = Res(x, <<w>>)
      BY WordFacts
    <3>2. Send(Res(x, <<w>>), "SUCCESS") = Res(x, Append(<<w>>, v))
      BY WordFacts
    <3>3. Append(<<w>>, v) = <<w, v>>
      BY SMTT(30), AppendOne
    <3> QED BY <3>1, <3>2, <3>3
  <2>8. Answer("S", i, Res(x, q))
    BY Zenon, <2>2, <2>7
  <2>9. Notes(q, ks, 0)
    <3>1. /\ w \in Note /\ w.kind = "ADJUST" /\ Amount(w) = 0
          /\ v \in Note /\ v.kind = "SUCCESS" /\ Amount(v) = 0
      BY WordFacts, WordNotes DEF Kinds
    <3> HIDE DEF w, v
    <3>2. Notes(<<w, v>>, {w.kind, v.kind}, Amount(w) + Amount(v))
      BY ZenonT(30), <3>1, NotesFacts
    <3> QED BY <3>1, <3>2
  <2>10. ks \subseteq {"ADJUST", "SUCCESS"}
    OBVIOUS
  <2> HIDE DEF q, ks
  <2>11. Becomes(c, x, x)
    BY Zenon, <2>4, <1>4, UsedFacts DEF Becomes, Known
  <2>12. Cut(hist', "S", c.gen) = Cut(hist, "S", c.gen) /\ Cut(hist', Peer("S"), c.gen) = Cut(hist, Peer("S"), c.gen)
    BY <2>3, <1>0, PeerFacts
  <2>13. Sound("S", x, Cut(hist, "S", c.gen), Cut(hist, Peer("S"), c.gen))
    <3>1. Sound("S", c, Cut(hist, "S", c.gen), Cut(hist, Peer("S"), c.gen))
      BY ZenonT(30), <1>4 DEF Known
    <3>2. c.ctype = "session"
      BY <2>1, <1>3 DEF Shape
    <3> HIDE DEF c
    <3>3. ~c.EOF_SENT /\ c.pipe = 0 /\ c.epipe = 0 /\ c.input = 0 /\ c.output = 0 /\ c.ext = 0
      BY SMTT(30), <3>1, <2>1 DEF Sound
    <3> QED BY SMTT(30), <3>1, <3>2, <3>3, <2>4, <2>5, <2>6 DEF Sound
  <2>14. Announces(chan, "S", c, x, ks, Cut(hist', Peer("S"), c.gen))
    BY Zenon, <2>4, <2>5, <2>10 DEF Announces, Kinds
  <2>15. 0 + Unsent("S", c) <= Unsent("S", x) + 0 /\ Unread("S", c) + 0 <= 0 + Unread("S", x)
    <3>1. Unread("S", x) = Unread("S", c) /\ Unsent("S", x) = Unsent("S", c)
      BY <2>5 DEF Unread, Unsent
    <3>2. Unread("S", c) \in Nat /\ Unsent("S", c) \in Nat
      BY SMTT(30), <1>0, <1>4, HeldFacts
    <3> QED BY <3>1, <3>2
  <2>16. Sound("S", x, Cut(hist', "S", c.gen), Cut(hist', Peer("S"), c.gen))
    BY ZenonT(30), <2>12, <2>13
  <2>17. Change(chan, hist, hist', "S", c, x, x, ks, 0, 0, "none")
    BY Zenon, <2>3, <2>11, <2>14, <2>15, <2>16, <1>0, <1>4, LoudChange
  <2>18. Reads(net["S"][1], x.gen, 0, "none")
    BY <1>2 DEF Reads, Amount, Bytes
  <2> QED BY <2>8, <2>9, <2>17, <2>18, <1>0, <1>2, <1>3, AnswerBytes
<1>7. CASE ~started
  <2>1. /\ Answer("S", i, IF c.CLOSE_SENT THEN On(c) ELSE Send(On(c), "FAILURE"))
        /\ hist' = hist
    BY ZenonT(30), <1>2, <1>3, <1>7 DEF InputExec
  <2>2. CASE c.CLOSE_SENT
    <3>1. Calm("S", c, c)
      BY <1>0, <1>4, SameCalm
    <3>2. Answer("S", i, Res(c, <<>>))
      BY SMTT(30), <2>1, <2>2, ResFacts
    <3> QED BY Zenon, <3>1, <3>2, <2>1, <1>0, <1>1, <1>3, CalmAnswer
  <2>3. CASE ~c.CLOSE_SENT
    <3>1. Answer("S", i, Send(On(chan["S"][i]), "FAILURE"))
      BY <2>1, <2>3
    <3> QED BY Zenon, <3>1, <2>1, <1>0, <1>1, <1>3, ReplyBytes
  <2> QED BY SMTT(30), <2>2, <2>3
<1> QED BY <1>6, <1>7

-----------------------------------------------------------------------------
(* The byte invariant is inductive.                                        *)

\* The initial state.
LEMMA InitBytes ==
  ASSUME Init
  PROVE  BInv(chan, net, hist)
<1>1. /\ chan = [e \in Ends |-> [i \in Ids |-> Free]] /\ net = [e \in Ends |-> <<>>]
      /\ hist = [e \in Ends |-> [g \in Gens |-> [wrote |-> 0, read |-> 0, cut |-> FALSE,
                                                    child |-> "none"]]]
  BY DEF Init
<1>2. /\ \A e \in Ends, i \in Ids : chan[e][i] = Free
      /\ \A e \in Ends : net[e] = <<>> /\ DOMAIN net[e] = {}
      /\ \A e \in Ends, g \in Gens : hist[e][g].wrote = 0 /\ hist[e][g].read = 0
  BY <1>1
<1>3. "C" \in Ends /\ "S" \in Ends /\ \A e \in Ends : Peer(e) \in Ends
  BY PeerFacts DEF Ends
<1>4. Sounds(chan, hist) /\ Stopped(chan, net, hist)
  BY <1>2 DEF Sounds, Stopped
<1>5. EofArrives(chan, net) /\ SameType(chan, net) /\ LarvalQuiet(chan, net)
  BY <1>2, <1>3 DEF EofArrives, SameType, LarvalQuiet
<1>6. Accounts(chan, net, hist)
  <2> SUFFICES ASSUME NEW e \in Ends, NEW g \in Gens
               PROVE  \E a, b \in Nat : Stream(net[Peer(e)], g, a, b) /\ Account(chan, hist, e, g, a, b)
    BY DEF Accounts
  <2>1. Stream(net[Peer(e)], g, 0, 0)
    BY <1>2, <1>3, StreamEmpty
  <2>2. Account(chan, hist, e, g, 0, 0)
    BY <1>2, <1>3 DEF Account, About
  <2> QED BY <2>1, <2>2
<1> QED BY <1>4, <1>5, <1>6 DEF BInv

\* Every action leads from a state of both invariants to one of the second.
LEMMA NextBytes ==
  ASSUME IInv, IInv', BInv(chan, net, hist), Next
  PROVE  BInv(chan', net', hist')
<1> DEFINE Goal == BInv(chan', net', hist')
<1> SUFFICES Goal
  OBVIOUS
<1>1. CASE \E e \in Ends, ctype \in CTypes, mux \in BOOLEAN : OpenChannel(e, ctype, mux)
  <2>1. PICK e \in Ends, ctype \in CTypes, mux \in BOOLEAN : OpenChannel(e, ctype, mux)
    BY <1>1
  <2> QED BY <2>1, OpenChannelBytes
<1>2. ASSUME NEW e \in Ends, Receive(e)
      PROVE  Goal
  <2>1. ASSUME NEW accept \in BOOLEAN, InputOpenTcp(e, accept) PROVE Goal
    BY <2>1, InputOpenTcpBytes
  <2>2. CASE InputOpenConfirmation(e)
    BY <2>2, InputOpenConfirmationBytes
  <2>3. CASE InputOpenFailure(e)
    BY <2>3, InputOpenFailureBytes
  <2>4. CASE InputData(e)
    BY <2>4, InputDataBytes
  <2>5. CASE InputEof(e)
    BY <2>5, InputEofBytes
  <2>6. CASE InputClose(e)
    BY <2>6, InputCloseBytes
  <2>7. CASE InputEow(e)
    BY <2>7, InputEowBytes
  <2> HIDE DEF Goal
  <2> QED BY <1>2, <2>1, <2>2, <2>3, <2>4, <2>5, <2>6, <2>7 DEF Receive
<1>3. CASE ReceiveClient
  <2>1. CASE InputAdjust
    BY <2>1, InputAdjustBytes
  <2>2. CASE InputStatusConfirm
    BY <2>2, InputStatusConfirmBytes
  <2>3. CASE InputExit
    BY <2>3, InputExitBytes
  <2>4. CASE InputKeepAlive
    BY <2>4, InputKeepAliveBytes
  <2>5. CASE InputExtendedData
    BY <2>5, InputExtendedDataBytes
  <2> HIDE DEF Goal
  <2> QED BY <1>3, <2>1, <2>2, <2>3, <2>4, <2>5 DEF ReceiveClient
<1>4. CASE ReceiveServer
  <2>1. CASE InputOpenSession
    BY <2>1, InputOpenSessionBytes
  <2>2. CASE \E ok \in BOOLEAN : InputExec(ok)
    <3>1. PICK ok \in BOOLEAN : InputExec(ok)
      BY <2>2
    <3> QED BY <3>1, InputExecBytes
  <2>3. CASE InputKeepAliveReply
    BY <2>3, InputKeepAliveReplyBytes
  <2>4. CASE InputWindowChange
    BY <2>4, InputWindowChangeBytes
  <2> HIDE DEF Goal
  <2> QED BY <1>4, <2>1, <2>2, <2>3, <2>4 DEF ReceiveServer
<1>5. ASSUME NEW e \in Ends, NEW i \in Ids,
             \/ OutputPoll(e, i) \/ Handlers(e, i) \/ WriterCloses(e, i)
             \/ \E err \in BOOLEAN : Produce(e, i, err)
      PROVE  Goal
  <2>1. CASE OutputPoll(e, i)
    BY <2>1, OutputPollBytes
  <2>2. CASE Handlers(e, i)
    <3>1. CASE HandlerPre(e, i)
      BY <3>1, HandlerPreBytes
    <3>2. ASSUME NEW rd, NEW wr, NEW er, HandlerPost(e, i, rd, wr, er) PROVE Goal
      BY <3>2, HandlerPostBytes
    <3>3. ASSUME NEW ok \in BOOLEAN, PostConnecting(e, i, ok) PROVE Goal
      BY <3>3, PostConnectingBytes
    <3> HIDE DEF Goal
    <3> QED BY <2>2, <3>1, <3>2, <3>3 DEF Handlers
  <2>3. CASE WriterCloses(e, i)
    BY <2>3, WriterClosesBytes
  <2>4. ASSUME NEW err \in BOOLEAN, Produce(e, i, err) PROVE Goal
    BY <2>4, ProduceBytes
  <2> HIDE DEF Goal
  <2> QED BY <1>5, <2>1, <2>2, <2>3, <2>4
<1>6. ASSUME NEW s \in Sids, ChildExit(s) \/ CollectChild(s)
      PROVE  Goal
  <2>1. CASE ChildExit(s)
    BY <2>1, ChildExitBytes
  <2>2. CASE CollectChild(s)
    BY <2>2, CollectChildBytes
  <2> QED BY <1>6, <2>1, <2>2
<1>7. CASE KeepAlive
  BY <1>7, KeepAliveBytes
<1>8. ASSUME NEW i \in Ids, WindowChange(i)
      PROVE  Goal
  BY <1>8, WindowChangeBytes
<1> HIDE DEF Goal
<1> QED BY <1>1, <1>2, <1>3, <1>4, <1>5, <1>6, <1>7, <1>8 DEF Next

\* The byte invariant of the connection: every byte that was written and is not cut is read,
\* held by one of the two channels, or in flight.
BytesInv == BInv(chan, net, hist)

\* The buffers of channels.c, the queues between the ends and what the programs have read
\* account for every byte, whatever the order in which messages arrive and halves close.
THEOREM BytesInductive == Spec => []BytesInv
<1>1. Init => BytesInv
  BY InitBytes DEF BytesInv
<1>2. IInv /\ IInv' /\ BytesInv /\ [Next]_vars => BytesInv'
  <2>1. ASSUME IInv, IInv', BytesInv, Next PROVE BytesInv'
    <3>1. BInv(chan', net', hist')
      BY <2>1, NextBytes DEF BytesInv
    <3> QED BY <3>1 DEF BytesInv
  <2>2. ASSUME BytesInv, UNCHANGED vars PROVE BytesInv'
    BY <2>2 DEF BytesInv, vars
  <2> QED BY <2>1, <2>2
<1> QED BY <1>1, <1>2, ChannelsInductive, PTL DEF Spec

\* Where the output end of the receiver is gone, nothing of the stream is on its way, held
\* there or held by the sender.
LEMMA NothingLeft ==
  ASSUME IInv, BytesInv, NEW e \in Ends, NEW g \in Gens, ~Cut(hist, e, g),
         \A i \in Ids : About(chan, Peer(e), i, g) => chan[Peer(e)][i].ostate = "CLOSED"
  PROVE  /\ \A k \in DOMAIN net[Peer(e)] : ~Carries(net[Peer(e)][k], g)
         /\ \A i \in Ids : About(chan, Peer(e), i, g) => Unread(Peer(e), chan[Peer(e)][i]) = 0
         /\ \A j \in Ids : About(chan, e, j, g) => Unsent(e, chan[e][j]) = 0
<1> DEFINE p == Peer(e)
<1>0. p \in Ends /\ Peer(p) = e /\ Peer(e) = p /\ (p = "C" \/ p = "S")
  BY PeerFacts DEF Ends
<1>1. NInv(chan, net, opens) /\ chan \in [Ends -> [Ids -> Channel \cup {Free}]]
  BY DEF IInv, NInv, Typed
<1>b. BInv(chan, net, hist)
  BY DEF BytesInv
<1> HIDE DEF p
\* The receiver has had EOF, and all before it.
<1>2. ASSUME NEW i \in Ids, About(chan, p, i, g)
      PROVE  chan[p][i].EOF_RCVD /\ Unread(p, chan[p][i]) = 0
  <2> DEFINE c == chan[p][i]
  <2>1. c # Free /\ c.gen = g /\ c.ostate = "CLOSED"
    BY <1>0, <1>2 DEF About
  <2>2. Known(p, c)
    BY <2>1, <1>0, <1>b, KnownFacts
  <2>3. Sound(p, c, Cut(hist, p, g), Cut(hist, e, g)) /\ c \in Channel
    BY <2>1, <2>2, <1>0 DEF Known
  <2> HIDE DEF c
  <2>4. c.EOF_RCVD /\ c.output = 0 /\ (p = "S" \/ c.ext = 0)
    BY <2>1, <2>3 DEF Sound
  <2>5. Unread(p, c) = 0
    BY <2>4, <1>0 DEF Unread
  <2> QED BY <2>4, <2>5 DEF c
\* The sender of what has ended, or of what nobody reads, has nothing left.
<1>3. ASSUME NEW j \in Ids, About(chan, e, j, g)
      PROVE  Unsent(e, chan[e][j]) = 0
  <2> DEFINE d == chan[e][j]
  <2>1. d # Free /\ d.gen = g
    BY <1>3 DEF About
  <2>2. Known(e, d)
    BY <2>1, <1>b, KnownFacts
  <2>3. Sound(e, d, Cut(hist, e, g), Cut(hist, p, g)) /\ d \in Channel /\ Shape(e, d)
    BY <2>1, <2>2, <1>0 DEF Known
  <2>4. CASE \E i \in Ids : About(chan, p, i, g)
    <3>1. PICK i \in Ids : About(chan, p, i, g)
      BY <2>4
    <3>2. chan[p][i].EOF_RCVD /\ chan[p][i] # Free /\ chan[p][i].gen = g
      BY <3>1, <1>2 DEF About
    <3>3. d.EOF_SENT
      <4>1. Ended(chan, net)
        BY <1>1 DEF NInv
      <4>2. ~d.EOF_SENT => NoEof(chan, net, p, g)
        BY <4>1, <2>1, <1>0 DEF Ended
      <4> QED BY <3>2, <4>2 DEF NoEof
    <3> HIDE DEF d
    <3>4. d.istate = "CLOSED"
      BY <3>3, <2>3 DEF Shape
    <3>5. d.pipe = 0 /\ d.input = 0 /\ (e = "S" => ~d.efd /\ d.ext = 0)
      BY <3>3, <3>4, <2>3 DEF Sound
    <3>6. d.epipe = 0
      BY <3>5, <2>3 DEF Sound, Ends
    <3> QED BY <3>5, <3>6 DEF Unsent, d
  <2>5. CASE \A i \in Ids : ~About(chan, p, i, g)
    <3>1. CASE d.type # "OPEN"
      <4> HIDE DEF d
      <4>1. d.pipe = 0 /\ d.epipe = 0 /\ d.input = 0 /\ d.ext = 0
        BY <3>1, <2>3 DEF Sound
      <4> QED BY <4>1 DEF Unsent, d
    <3>2. CASE d.type = "OPEN"
      <4>1. d.CLOSE_SENT
        <5>1. Linked(chan, net)
          BY <1>1 DEF NInv
        <5>2. ~d.CLOSE_SENT => Reaches(chan, net, e, d)
          BY <5>1, <3>2, <2>1 DEF Linked
        <5>3. Reaches(chan, net, e, d) => About(chan, p, d.rid, g) /\ d.rid \in Ids
          <6> HIDE DEF d
          <6> QED BY <2>1, <1>0 DEF Reaches, About
        <5> QED BY <5>2, <5>3, <2>5
      <4> HIDE DEF d
      <4>2. BothClosed(d)
        BY <4>1, <2>3 DEF Shape
      <4>3. ~Cut(hist, e, g) => Unsent(e, d) = 0
        BY <4>2, <2>3, Drained
      <4> QED BY <4>3 DEF d
    <3> QED BY <3>1, <3>2
  <2> QED BY <2>4, <2>5
<1>4. ASSUME NEW k \in DOMAIN net[p], Carries(net[p][k], g)
      PROVE  FALSE
  <2>1. Bytes(net[p][k]) /\ net[p][k].gen = g
    BY <1>4 DEF Carries
  <2>2. ~Noise(p, net[p][k]) /\ ~Offer(net[p][k])
    BY <2>1 DEF Bytes, Noise, Offer
  <2>3. Delivers(chan, p, net[p][k])
    BY <2>2, <1>0, <1>1 DEF NInv, Addressed
  <2>4. net[p][k].to \in Ids /\ About(chan, p, net[p][k].to, g)
    BY <2>1, <2>3 DEF Delivers, About
  <2>5. chan[p][net[p][k].to].EOF_RCVD
    BY <2>4, <1>2
  <2> QED BY <2>1, <2>4, <2>5, <1>0, <1>1 DEF NInv, Ended, About
<1> QED BY <1>0, <1>2, <1>3, <1>4

\* chan_send_eof2(), chan_ibuf_empty(), chan_obuf_empty() and chan_is_dead() close a half
\* only when it is drained: no close in order loses what a program wrote.
THEOREM NoTruncationAlways == Spec => []NoTruncation
<1>1. ASSUME IInv, BytesInv PROVE NoTruncation
  <2> SUFFICES ASSUME NEW e \in Ends, NEW g \in Gens, hist[e][g].wrote > hist[Peer(e)][g].read,
                      ~hist[e][g].cut,
                      \A i \in Ids : ~(chan[Peer(e)][i] # Free /\ chan[Peer(e)][i].gen = g
                                         /\ chan[Peer(e)][i].ostate # "CLOSED")
               PROVE  FALSE
    BY DEF NoTruncation
  <2> DEFINE p == Peer(e)
             w == hist[e][g].wrote
             r == hist[p][g].read
  <2>0. p \in Ends /\ Peer(e) = p /\ net[p] \in Seq(Packet) /\ hist \in [Ends -> [Gens -> Log]]
    BY <1>1, PeerFacts DEF IInv, NInv, Typed, SInv
  <2>1. ~Cut(hist, e, g) /\ w > r /\ w \in Nat /\ r \in Nat
    BY <2>0 DEF Cut, Log
  <2>2. \A i \in Ids : About(chan, Peer(e), i, g) => chan[Peer(e)][i].ostate = "CLOSED"
    BY DEF About
  <2>3. /\ \A k \in DOMAIN net[p] : ~Carries(net[p][k], g)
        /\ \A i \in Ids : About(chan, p, i, g) => Unread(p, chan[p][i]) = 0
        /\ \A j \in Ids : About(chan, e, j, g) => Unsent(e, chan[e][j]) = 0
    BY <1>1, <2>1, <2>2, NothingLeft
  <2>4. PICK a, b \in Nat : Stream(net[p], g, a, b) /\ Account(chan, hist, e, g, a, b)
    BY <1>1, <2>1 DEF BytesInv, BInv, Accounts
  <2>5. a = b
    BY <2>0, <2>3, <2>4, StreamIdle
  <2>6. w <= b
    <3>1. CASE \E j \in Ids : About(chan, e, j, g)
      <4>1. PICK j \in Ids : About(chan, e, j, g)
        BY <3>1
      <4>2. w <= b + Unsent(e, chan[e][j]) /\ Unsent(e, chan[e][j]) = 0
        BY <4>1, <2>3, <2>4 DEF Account
      <4> QED BY <4>2
    <3>2. CASE \A j \in Ids : ~About(chan, e, j, g)
      <4>1. Absent(chan, e, g)
        BY <3>2 DEF Absent, About
      <4> QED BY <4>1, <2>4 DEF Account
    <3> QED BY <3>1, <3>2
  <2>7. a <= r
    <3>1. CASE \E i \in Ids : About(chan, p, i, g)
      <4>1. PICK i \in Ids : About(chan, p, i, g)
        BY <3>1
      <4>2. a <= r + Unread(p, chan[p][i]) /\ Unread(p, chan[p][i]) = 0
        BY <4>1, <2>3, <2>4 DEF Account
      <4> QED BY <4>2, <2>1
    <3>2. CASE \A i \in Ids : ~About(chan, p, i, g)
      <4>1. Absent(chan, p, g)
        BY <3>2 DEF Absent, About
      <4> QED BY <4>1, <2>4 DEF Account
    <3> QED BY <3>1, <3>2
  <2> HIDE DEF w, r
  <2> QED BY <2>1, <2>5, <2>6, <2>7
<1> QED BY <1>1, ChannelsInductive, BytesInductive, PTL

=============================================================================
