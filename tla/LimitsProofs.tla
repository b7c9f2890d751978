---------------------------- MODULE LimitsProofs ----------------------------
(***************************************************************************)
(* Proofs about the two limits of the program: the window of a channel     *)
(* (FlowControl) and the number of unauthenticated connections (Startups). *)
(* The two modules share no variable; each part of this one is about one   *)
(* of them.                                                                *)
(*                                                                         *)
(* The window, for every window, packet size and amount of data: the       *)
(* messages on the wire are intervals of the byte stream, and the          *)
(* inductive invariant says that they follow one another without gap or    *)
(* overlap from what was received to what was sent (Chain), so no sum over *)
(* a sequence is needed.                                                   *)
(*                                                                         *)
(* The connections, for every number of slots, connections and listening   *)
(* sockets: the counter of server_accept_loop() counts its slots, and a    *)
(* connection that was accepted keeps its slot until the last of its       *)
(* processes has closed the pipe; so no more connections can be            *)
(* unauthenticated than there are slots.                                   *)
(***************************************************************************)
EXTENDS FlowControl, Startups, FiniteSetTheorems, WellFoundedInduction, TLAPS

-----------------------------------------------------------------------------
(* The window of a channel.                                                *)

\* q is a chain of intervals that begins at lo and ends at hi.
Chain(q, lo, hi) ==
  /\ lo <= hi
  /\ q = <<>> => lo = hi
  /\ q # <<>> => q[1].start = lo /\ q[Len(q)].start + q[Len(q)].len = hi
  /\ \A i \in 1..Len(q) : q[i].start + q[i].len <= hi
  /\ \A i \in 1..(Len(q) - 1) : q[i + 1].start = q[i].start + q[i].len

\* Every byte and every credit is accounted for: the sender's window is what
\* it was given less what it sent, the receiver's window covers what it gave
\* less what it received.
Ledger ==
  /\ remote_window = got - sent
  /\ granted - rcvd <= local_window
  /\ local_window + local_consumed + output + rext <= WindowMax

\* Before channel_set_fds() nothing was granted and nothing can have been sent.
Larval ==
  rtype = "LARVAL" =>
    /\ granted = 0 /\ rcvd = 0 /\ data = <<>> /\ remote_window = 0
    /\ local_window = 0 /\ local_consumed = 0 /\ output = 0 /\ rext = 0

\* The inductive invariant.
IInv ==
  /\ TypeOK
  /\ Ledger
  /\ Larval
  /\ Chain(data, rcvd, sent)
  /\ Chain(adj, got, granted)

Interval(e) == e.start \in Nat /\ e.len \in Nat \ {0}

\* Appending the interval that begins where the chain ends extends the chain.
LEMMA ChainAppend ==
  ASSUME NEW S, \A e \in S : Interval(e),
         NEW q \in Seq(S), NEW lo \in Nat, NEW hi \in Nat, NEW e \in S,
         Chain(q, lo, hi), e.start = hi
  PROVE  Chain(Append(q, e), lo, hi + e.len)
<1> DEFINE r == Append(q, e)
<1>1. /\ Len(q) \in Nat
      /\ Len(r) = Len(q) + 1
      /\ r # <<>>
      /\ r[Len(r)] = e
      /\ \A i \in 1..Len(q) : r[i] = q[i] /\ q[i] \in S
  OBVIOUS
<1>2. e.len \in Nat \ {0} /\ e.start \in Nat
  BY DEF Interval
<1>3. \A i \in 1..Len(q) : q[i].start \in Nat /\ q[i].len \in Nat
  BY <1>1 DEF Interval
<1>4. r[1].start = lo
  <2>1. CASE q = <<>>
    BY <2>1, <1>1 DEF Chain
  <2>2. CASE q # <<>>
    <3>1. Len(q) >= 1
      BY <2>2
    <3> QED BY <2>2, <3>1, <1>1 DEF Chain
  <2> QED BY <2>1, <2>2
<1>5. r[Len(r)].start + r[Len(r)].len = hi + e.len
  BY <1>1
<1>6. ASSUME NEW i \in 1..Len(r) PROVE r[i].start + r[i].len <= hi + e.len
  <2>1. CASE i \in 1..Len(q)
    <3>1. q[i].start + q[i].len <= hi
      BY <2>1 DEF Chain
    <3> QED BY <2>1, <3>1, <1>1, <1>2, <1>3
  <2>2. CASE i = Len(r)
    BY <2>2, <1>1, <1>2
  <2> QED BY <2>1, <2>2, <1>1
<1>7. ASSUME NEW i \in 1..(Len(r) - 1) PROVE r[i + 1].start = r[i].start + r[i].len
  <2>1. CASE i + 1 \in 1..Len(q)
    <3>1. i \in 1..(Len(q) - 1) /\ i \in 1..Len(q)
      BY <2>1, <1>1
    <3>2. q[i + 1].start = q[i].start + q[i].len
      BY <3>1 DEF Chain
    <3> QED BY <2>1, <3>1, <3>2, <1>1
  <2>2. CASE i = Len(q)
    <3>1. q # <<>> /\ i \in 1..Len(q)
      BY <2>2, <1>1
    <3>2. q[Len(q)].start + q[Len(q)].len = hi
      BY <3>1 DEF Chain
    <3>3. r[i + 1] = e /\ r[i] = q[Len(q)]
      BY <2>2, <3>1, <1>1
    <3> QED BY <3>2, <3>3
  <2> QED BY <2>1, <2>2, <1>1
<1>8. lo <= hi + e.len
  BY <1>2 DEF Chain
<1> QED BY <1>1, <1>4, <1>5, <1>6, <1>7, <1>8 DEF Chain

\* Taking the first interval off a chain advances its beginning.
LEMMA ChainTail ==
  ASSUME NEW S, \A e \in S : Interval(e),
         NEW q \in Seq(S), NEW lo \in Nat, NEW hi \in Nat,
         Chain(q, lo, hi), q # <<>>
  PROVE  /\ Head(q).start = lo
         /\ lo + Head(q).len <= hi
         /\ Chain(Tail(q), lo + Head(q).len, hi)
<1> DEFINE r == Tail(q)
<1>1. /\ Len(q) \in Nat /\ Len(q) >= 1
      /\ Head(q) = q[1]
      /\ r \in Seq(S)
      /\ Len(r) = Len(q) - 1
      /\ \A i \in 1..Len(r) : r[i] = q[i + 1]
      /\ \A i \in 1..Len(q) : q[i] \in S
  OBVIOUS
<1>2. \A i \in 1..Len(q) : q[i].start \in Nat /\ q[i].len \in Nat \ {0}
  BY <1>1 DEF Interval
<1>3. Head(q).start = lo /\ lo + Head(q).len <= hi
  BY <1>1 DEF Chain
<1>4. q[Len(q)].start + q[Len(q)].len = hi
  BY DEF Chain
<1>5. r = <<>> => lo + Head(q).len = hi
  <2> SUFFICES ASSUME r = <<>> PROVE lo + Head(q).len = hi
    OBVIOUS
  <2>1. Len(q) = 1
    BY <1>1
  <2> QED BY <2>1, <1>1, <1>3, <1>4
<1>6. r # <<>> => r[1].start = lo + Head(q).len /\ r[Len(r)].start + r[Len(r)].len = hi
  <2> SUFFICES ASSUME r # <<>>
               PROVE  r[1].start = lo + Head(q).len /\ r[Len(r)].start + r[Len(r)].len = hi
    OBVIOUS
  <2>1. Len(r) >= 1 /\ 1 \in 1..Len(r) /\ Len(r) \in 1..Len(r)
    BY <1>1
  <2>2. r[1] = q[2] /\ r[Len(r)] = q[Len(q)]
    BY <2>1, <1>1
  <2>3. 1 \in 1..(Len(q) - 1)
    BY <2>1, <1>1
  <2>4. q[1 + 1].start = q[1].start + q[1].len
    BY <2>3 DEF Chain
  <2> QED BY <2>2, <2>4, <1>1, <1>3, <1>4
<1>7. \A i \in 1..Len(r) : r[i].start + r[i].len <= hi
  BY <1>1 DEF Chain
<1>8. ASSUME NEW i \in 1..(Len(r) - 1) PROVE r[i + 1].start = r[i].start + r[i].len
  <2>1. i \in 1..Len(r) /\ i + 1 \in 1..Len(r) /\ i + 1 \in 1..(Len(q) - 1)
    BY <1>1
  <2>2. r[i] = q[i + 1] /\ r[i + 1] = q[(i + 1) + 1]
    BY <2>1, <1>1
  <2>3. q[(i + 1) + 1].start = q[i + 1].start + q[i + 1].len
    BY <2>1 DEF Chain
  <2> QED BY <2>2, <2>3
<1> QED BY <1>3, <1>5, <1>6, <1>7, <1>8 DEF Chain

\* Arithmetic of the window: a sum of naturals bounds its terms, ...
LEMMA SumBound ==
  ASSUME NEW w \in Nat, NEW c \in Nat, NEW o \in Nat, NEW r \in Nat, NEW max \in Nat,
         w + c + o + r <= max
  PROVE  w \in 0..max /\ c \in 0..max
OBVIOUS

\* ... writing moves bytes from the buffers to local_consumed, ...
LEMMA SumWrite ==
  ASSUME NEW w \in Nat, NEW c \in Nat, NEW o \in Nat, NEW r \in Nat, NEW max \in Nat,
         NEW n \in Nat, NEW k \in Nat, NEW left \in Nat,
         n <= o, k <= r, left <= o - n,
         w + c + o + r <= max
  PROVE  w + (c + n + k) + left + (r - k) <= max
OBVIOUS

\* ... and an adjust moves local_consumed to the window.
LEMMA SumAdjust ==
  ASSUME NEW w \in Nat, NEW c \in Nat, NEW o \in Nat, NEW r \in Nat, NEW max \in Nat,
         NEW g \in Nat, NEW d \in Nat,
         w + c + o + r <= max, g - d <= w
  PROVE  /\ w + c \in 0..max
         /\ (w + c) + 0 + o + r <= max
         /\ (g + c) - d <= w + c
OBVIOUS

\* Messages are intervals.
LEMMA WireIntervals ==
  /\ \A e \in Message : Interval(e)
  /\ \A e \in Credit : Interval(e)
BY DEF Message, Credit, Interval

\* The initial states satisfy the inductive invariant.
LEMMA InitIInv == Init => IInv
BY FlowAssumption DEF Init, InitialWindow, AllKinds, IInv, TypeOK, Ledger, Larval, Chain

\* What the receiver does with a data message never exceeds its window.
LEMMA HeadFits ==
  ASSUME IInv, data # <<>>
  PROVE  /\ Head(data) \in Message
         /\ rcvd + Head(data).len <= sent
         /\ Head(data).len <= local_window
<1>0. data \in Seq(Message)
  BY DEF IInv, TypeOK
<1>1. Head(data) \in Message /\ Head(data).len \in Nat
  <2>1. Head(data) \in Message
    BY <1>0
  <2> QED BY <2>1 DEF Message
<1>2. rcvd + Head(data).len <= sent
  BY ChainTail, WireIntervals DEF IInv, TypeOK
<1>3. got <= granted
  BY DEF IInv, Chain
<1> QED BY <1>1, <1>2, <1>3 DEF IInv, Ledger, TypeOK

\* channel_handle_rfd() and channel_handle_efd() on the sending end preserve it:
\* only the sender's buffers grow.
LEMMA ReadInputIInv ==
  ASSUME IInv, NEW n \in 1..MaxBytes, ReadInput(n) \/ ReadExtended(n)
  PROVE  IInv'
<1>1. /\ UNCHANGED <<kind, istate, remote_window, sent, got, data, adj, eow, rcvVars>>
      /\ input' \in Nat /\ sext' \in Nat /\ produced' \in Nat
  BY FlowAssumption DEF IInv, TypeOK, ReadInput, ReadExtended
<1>2. TypeOK'
  BY <1>1 DEF IInv, TypeOK, rcvVars
<1>3. Ledger' /\ Larval'
  BY <1>1 DEF IInv, Ledger, Larval, rcvVars
<1>4. Chain(data, rcvd, sent)' /\ Chain(adj, got, granted)'
  BY <1>1 DEF IInv, Chain, rcvVars
<1> QED BY <1>2, <1>3, <1>4 DEF IInv

\* The packet size of the stream is positive.
LEMMA PacketPositive ==
  ASSUME TypeOK
  PROVE  MaxPacket \in Nat \ {0}
BY FlowAssumption DEF TypeOK, MaxPacket

\* channel_output_poll() preserves it: what it sends leaves remote_window and
\* becomes the last interval on the wire.
LEMMA OutputPollIInv ==
  ASSUME IInv, OutputPoll
  PROVE  IInv'
<1> DEFINE n  == IF istate = "OPEN" THEN Sendable(input, remote_window) ELSE 0
           w  == remote_window - n
           m  == Sendable(sext, w)
           e1 == [type |-> "DATA", start |-> sent, len |-> n]
           e2 == [type |-> "EXTENDED", start |-> sent + n, len |-> m]
           d1 == IF n > 0 THEN Append(data, e1) ELSE data
           d2 == IF m > 0 THEN Append(d1, e2) ELSE d1
<1>1. /\ n + m > 0 /\ data' = d2 /\ input' = input - n /\ sext' = sext - m
      /\ remote_window' = w - m /\ sent' = sent + n + m
      /\ UNCHANGED <<kind, istate, produced, got, adj, eow, rcvVars>>
  BY DEF OutputPoll
<1>2. n \in Nat /\ n <= input /\ n <= remote_window /\ w \in Nat
  BY PacketPositive DEF IInv, TypeOK, Sendable, Least
<1>3. m \in Nat /\ m <= sext /\ m <= w
  BY <1>2, PacketPositive DEF IInv, TypeOK, Sendable, Least
<1>4. d1 \in Seq(Message) /\ Chain(d1, rcvd, sent + n)
  <2>1. CASE n > 0
    <3>1. e1 \in Message
      BY <2>1, <1>2 DEF Message, IInv, TypeOK
    <3>2. Chain(Append(data, e1), rcvd, sent + e1.len)
      BY <3>1, ChainAppend, WireIntervals DEF IInv, TypeOK
    <3> QED BY <2>1, <3>1, <3>2 DEF IInv, TypeOK
  <2>2. CASE n = 0
    BY <2>2 DEF IInv, TypeOK
  <2> QED BY <2>1, <2>2, <1>2
<1>5. d2 \in Seq(Message) /\ Chain(d2, rcvd, sent + n + m)
  <2> HIDE DEF d1, n, m
  <2>1. CASE m > 0
    <3>1. e2 \in Message /\ sent + n \in Nat /\ rcvd \in Nat
      BY <2>1, <1>2, <1>3 DEF Message, IInv, TypeOK
    <3>2. Chain(Append(d1, e2), rcvd, (sent + n) + e2.len)
      BY <3>1, <1>4, ChainAppend, WireIntervals
    <3> QED BY <2>1, <3>1, <3>2, <1>4
  <2>2. CASE m = 0
    <3>1. sent + n + m = sent + n
      BY <2>2, <1>2 DEF IInv, TypeOK
    <3> QED BY <2>2, <3>1, <1>4
  <2> QED BY <2>1, <2>2, <1>3
<1> HIDE DEF d2, n, m
<1>6. TypeOK'
  BY <1>1, <1>2, <1>3, <1>5, FlowAssumption DEF IInv, TypeOK, rcvVars
<1>7. Ledger'
  BY <1>1, <1>2, <1>3 DEF IInv, TypeOK, Ledger, rcvVars
<1>8. Larval'
  BY <1>1, <1>2, <1>3 DEF IInv, TypeOK, Larval, rcvVars
<1>9. Chain(data, rcvd, sent)'
  BY <1>1, <1>5 DEF Chain, rcvVars
<1>10. Chain(adj, got, granted)'
  BY <1>1 DEF IInv, Chain, rcvVars
<1> QED BY <1>6, <1>7, <1>8, <1>9, <1>10 DEF IInv

\* channel_input_window_adjust() preserves it: the oldest credit on the wire
\* becomes remote_window.
LEMMA InputWindowAdjustIInv ==
  ASSUME IInv, InputWindowAdjust
  PROVE  IInv'
<1>1. adj # <<>> /\ adj \in Seq(Credit) /\ got \in Nat /\ granted \in Nat
  BY DEF IInv, TypeOK, InputWindowAdjust
<1>2. /\ got + Head(adj).len <= granted
      /\ Chain(Tail(adj), got + Head(adj).len, granted)
  BY <1>1, ChainTail, WireIntervals DEF IInv
<1>3. Head(adj) \in Credit /\ Head(adj).len \in Nat /\ Tail(adj) \in Seq(Credit)
  <2>1. Head(adj) \in Credit /\ Tail(adj) \in Seq(Credit)
    BY <1>1
  <2> QED BY <2>1 DEF Credit
<1>4. rcvd <= sent
  BY DEF IInv, Chain
<1>5. remote_window + Head(adj).len \in 0..WindowMax
  BY <1>2, <1>3, <1>4, FlowAssumption DEF IInv, TypeOK, Ledger
<1>6. TypeOK'
  BY <1>3, <1>5 DEF IInv, TypeOK, InputWindowAdjust, rcvVars
<1>7. Ledger'
  BY <1>3 DEF IInv, TypeOK, Ledger, InputWindowAdjust, rcvVars
<1>8. Larval'
  BY <1>2, <1>3 DEF IInv, TypeOK, Larval, InputWindowAdjust, rcvVars
<1>9. Chain(data, rcvd, sent)'
  BY DEF IInv, Chain, InputWindowAdjust, rcvVars
<1>10. Chain(adj, got, granted)'
  BY <1>2 DEF InputWindowAdjust, rcvVars
<1> QED BY <1>6, <1>7, <1>8, <1>9, <1>10 DEF IInv

\* chan_rcvd_eow() preserves it: no window changes.
LEMMA InputEowIInv ==
  ASSUME IInv, InputEow
  PROVE  IInv'
BY DEF IInv, TypeOK, Ledger, Larval, Chain, InputEow, rcvVars

\* channel_set_fds() preserves it: the first credit is granted when nothing is
\* in flight.
LEMMA SetFdsIInv ==
  ASSUME IInv, SetFds
  PROVE  IInv'
<1> DEFINE e == [start |-> granted, len |-> WindowMax]
<1>1. e \in Credit /\ granted \in Nat /\ got \in Nat /\ adj \in Seq(Credit)
  BY FlowAssumption DEF Credit, IInv, TypeOK
<1>2. Chain(Append(adj, e), got, granted + e.len)
  BY <1>1, ChainAppend, WireIntervals DEF IInv
<1>3. TypeOK'
  BY <1>1, FlowAssumption DEF IInv, TypeOK, SetFds, sndVars
<1>4. Ledger'
  BY FlowAssumption DEF IInv, TypeOK, Ledger, Larval, SetFds, sndVars
<1>5. Larval'
  BY DEF SetFds, Larval
<1>6. Chain(data, rcvd, sent)'
  BY DEF IInv, Chain, SetFds, sndVars
<1>7. Chain(adj, got, granted)'
  BY <1>2 DEF SetFds, sndVars
<1> QED BY <1>3, <1>4, <1>5, <1>6, <1>7 DEF IInv

\* channel_input_data() and channel_input_extended_data() preserve it: the
\* oldest data on the wire leaves local_window.
LEMMA InputDataIInv ==
  ASSUME IInv, InputData \/ InputExtendedData
  PROVE  IInv'
<1>1. data # <<>> /\ data \in Seq(Message) /\ rcvd \in Nat /\ sent \in Nat
  BY DEF InputData, InputExtendedData, IInv, TypeOK
<1> DEFINE len == Head(data).len
<1>2. /\ len \in Nat \ {0} /\ len <= local_window /\ rcvd + len <= sent
      /\ Tail(data) \in Seq(Message)
  BY <1>1, HeadFits DEF Message
<1>3. Chain(Tail(data), rcvd + len, sent)
  BY <1>1, ChainTail, WireIntervals DEF IInv
<1>4. data' = Tail(data) /\ rcvd' = rcvd + len
  BY DEF InputData, InputExtendedData
<1>5. rtype = "OPEN"
  BY <1>1 DEF IInv, TypeOK, Larval
<1> HIDE DEF len
<1>6. UNCHANGED <<kind, sndVars, adj, eow, rtype, ostate, efd, granted>>
  BY DEF InputData, InputExtendedData
<1>7. \/ UNCHANGED <<local_window, local_consumed, output, rext>>
      \/ /\ local_window' = local_window - len
         /\ \/ local_consumed' = local_consumed + len /\ UNCHANGED <<output, rext>>
            \/ output' = output + len /\ UNCHANGED <<local_consumed, rext>>
            \/ rext' = rext + len /\ UNCHANGED <<local_consumed, output>>
  BY <1>5 DEF InputData, InputExtendedData, len
<1>8a. /\ local_window \in Nat /\ local_consumed \in Nat /\ output \in Nat /\ rext \in Nat
       /\ WindowMax \in Nat /\ granted \in Nat
       /\ local_window + local_consumed + output + rext <= WindowMax
       /\ granted - rcvd <= local_window
  BY FlowAssumption DEF IInv, TypeOK, Ledger
<1>8b. /\ local_window' \in Nat /\ local_consumed' \in Nat /\ output' \in Nat /\ rext' \in Nat
       /\ local_window' + local_consumed' + output' + rext' <= WindowMax
       /\ granted - rcvd' <= local_window'
  BY <1>1, <1>2, <1>4, <1>7, <1>8a
<1>8c. local_window' \in 0..WindowMax /\ local_consumed' \in 0..WindowMax
  BY <1>8a, <1>8b, SumBound
<1>8. TypeOK'
  BY <1>2, <1>4, <1>6, <1>8b, <1>8c DEF IInv, TypeOK, sndVars
<1>9. Ledger'
  BY <1>4, <1>6, <1>8b DEF IInv, Ledger, sndVars
<1>10. Larval'
  BY <1>5, <1>6 DEF Larval
<1>11. Chain(data, rcvd, sent)'
  BY <1>3, <1>4, <1>6 DEF sndVars
<1>12. Chain(adj, got, granted)'
  BY <1>6 DEF IInv, Chain, sndVars
<1> QED BY <1>8, <1>9, <1>10, <1>11, <1>12 DEF IInv

\* channel_post_open() preserves it: what is written is consumed, and
\* channel_check_window() turns consumption into new credit.
LEMMA PostOpenIInv ==
  ASSUME IInv,
         NEW n \in Nat, NEW k \in Nat,
         NEW wres \in {"ok", "failed"}, NEW eres \in {"ok", "failed"},
         PostOpen(n, k, wres, eres)
  PROVE  IInv'
<1> DEFINE c == local_consumed + n + k
           e == [start |-> granted, len |-> c]
<1>1. /\ rtype = "OPEN" /\ n <= output /\ k <= rext
      /\ output' \in Nat /\ output' <= output - n
      /\ rext' = rext - k
      /\ ostate' \in {"OPEN", "CLOSED"} /\ efd' \in {"OPEN", "CLOSED"}
      /\ eow' \in {"none", "sent"}
      /\ UNCHANGED <<kind, sndVars, data, rtype, rcvd>>
  BY FlowAssumption DEF PostOpen, IInv, TypeOK
<1>2. /\ c \in Nat
      /\ local_window + c + output' + rext' <= WindowMax
  <2>1. /\ local_window \in Nat /\ local_consumed \in Nat /\ output \in Nat /\ rext \in Nat
        /\ n \in Nat /\ k \in Nat /\ WindowMax \in Nat
        /\ local_window + local_consumed + output + rext <= WindowMax
    BY FlowAssumption DEF IInv, TypeOK, Ledger
  <2>2. n <= output /\ k <= rext /\ output' \in Nat /\ output' <= output - n /\ rext' = rext - k
    BY <1>1
  <2>3. rext' \in Nat /\ c \in Nat
    BY <2>1, <2>2
  <2>4. local_window + (local_consumed + n + k) + output' + (rext - k) <= WindowMax
    BY <2>1, <2>2, SumWrite
  <2> QED BY <2>2, <2>3, <2>4
<1>3. CheckWindow(c)
  BY DEF PostOpen
<1>3a. /\ local_window \in Nat /\ output' \in Nat /\ rext' \in Nat /\ rcvd \in Nat
       /\ WindowMax \in Nat /\ granted \in Nat /\ granted - rcvd <= local_window
  BY <1>1, FlowAssumption DEF IInv, TypeOK, Ledger
<1> HIDE DEF c
<1>4. CASE NeedsAdjust(local_window, c)
  <2>1. /\ adj' = Append(adj, e) /\ granted' = granted + c
        /\ local_window' = local_window + c /\ local_consumed' = 0
        /\ c > 0
    BY <1>3, <1>4 DEF CheckWindow, NeedsAdjust
  <2>2. e \in Credit /\ adj \in Seq(Credit) /\ got \in Nat /\ granted \in Nat
    BY <1>2, <2>1 DEF Credit, IInv, TypeOK
  <2>3. Chain(Append(adj, e), got, granted + e.len)
    BY <2>2, ChainAppend, WireIntervals DEF IInv
  <2>9. /\ local_window' \in 0..WindowMax /\ local_consumed' \in 0..WindowMax
        /\ local_window' + local_consumed' + output' + rext' <= WindowMax
        /\ granted' \in Nat /\ granted' - rcvd <= local_window'
    <3>1. /\ local_window + c \in 0..WindowMax
          /\ (local_window + c) + 0 + output' + rext' <= WindowMax
          /\ (granted + c) - rcvd <= local_window + c
      BY <1>2, <1>3a, SumAdjust
    <3>2. 0 \in 0..WindowMax /\ granted + c \in Nat
      BY <1>2, <1>3a
    <3> QED BY <2>1, <3>1, <3>2
  <2>4. TypeOK'
    BY <1>1, <1>3a, <2>1, <2>2, <2>9 DEF IInv, TypeOK, sndVars
  <2>5. Ledger'
    BY <1>1, <2>9 DEF IInv, Ledger, sndVars
  <2>6. Larval'
    BY <1>1 DEF Larval
  <2>7. Chain(data, rcvd, sent)'
    BY <1>1 DEF IInv, Chain, sndVars
  <2>8. Chain(adj, got, granted)'
    BY <1>1, <2>1, <2>3 DEF sndVars
  <2> QED BY <2>4, <2>5, <2>6, <2>7, <2>8 DEF IInv
<1>5. CASE ~NeedsAdjust(local_window, c)
  <2>1. local_consumed' = c /\ UNCHANGED <<adj, granted, local_window>>
    BY <1>3, <1>5 DEF CheckWindow
  <2>2. TypeOK'
    <3>1. local_window' \in 0..WindowMax /\ local_consumed' \in 0..WindowMax
      BY <1>2, <1>3a, <2>1, SumBound
    <3> QED BY <1>1, <1>3a, <2>1, <3>1 DEF IInv, TypeOK, sndVars
  <2>3. Ledger'
    BY <1>1, <1>2, <2>1, FlowAssumption DEF IInv, TypeOK, Ledger, sndVars
  <2>4. Larval'
    BY <1>1 DEF Larval
  <2>5. Chain(data, rcvd, sent)' /\ Chain(adj, got, granted)'
    BY <1>1, <2>1 DEF IInv, Chain, sndVars
  <2> QED BY <2>2, <2>3, <2>4, <2>5 DEF IInv
<1> QED BY <1>4, <1>5

\* IInv is an invariant of the specification.
THEOREM Inductive == Spec => []IInv
<1>1. ASSUME IInv, [Next]_vars PROVE IInv'
  <2>1. CASE \E n \in 1..MaxBytes : ReadInput(n) \/ ReadExtended(n)
    BY <1>1, <2>1, ReadInputIInv
  <2>2. CASE OutputPoll
    BY <1>1, <2>2, OutputPollIInv
  <2>3. CASE InputWindowAdjust
    BY <1>1, <2>3, InputWindowAdjustIInv
  <2>4. CASE InputEow
    BY <1>1, <2>4, InputEowIInv
  <2>5. CASE SetFds
    BY <1>1, <2>5, SetFdsIInv
  <2>6. CASE InputData \/ InputExtendedData
    BY <1>1, <2>6, InputDataIInv
  <2>7. CASE ChannelPost
    <3>1. output \in Nat /\ rext \in Nat
      BY <1>1 DEF IInv, TypeOK
    <3>2. PICK n \in 0..output, k \in 0..rext, wres, eres \in {"ok", "failed"} :
            PostOpen(n, k, wres, eres)
      BY <2>7 DEF ChannelPost
    <3> QED BY <1>1, <3>1, <3>2, PostOpenIInv
  <2>8. CASE UNCHANGED vars
    BY <1>1, <2>8 DEF vars, IInv, TypeOK, Ledger, Larval, Chain
  <2> QED BY <1>1, <2>1, <2>2, <2>3, <2>4, <2>5, <2>6, <2>7, <2>8 DEF Next
<1> QED BY <1>1, InitIInv, PTL DEF Spec

\* The windows of both ends stay within 0..local_window_max in every
\* behaviour: the unsigned window arithmetic of channels.c never wraps.
THEOREM TypeCorrect == Spec => []TypeOK
<1>1. IInv => TypeOK
  BY DEF IInv
<1> QED BY <1>1, Inductive, PTL

\* For every window and packet size, channel_input_data() and
\* channel_input_extended_data() never receive more than the window they have.
THEOREM NeverOverrun == Spec => []NoOverrun
<1>1. IInv => NoOverrun
  BY HeadFits DEF NoOverrun
<1> QED BY <1>1, Inductive, PTL

\* For every window and packet size, the credit in the system never exceeds
\* the receiver's window, and the window never exceeds its maximum.
THEOREM CreditBounded == Spec => []CreditBound
<1>1. IInv => CreditBound
  BY DEF IInv, TypeOK, Ledger, CreditBound
<1> QED BY <1>1, Inductive, PTL

\* No data is ever sent to a session channel before channel_set_fds().
THEOREM NoEarlyData == Spec => []NoDataWhileLarval
<1>1. IInv => NoDataWhileLarval
  BY DEF IInv, Larval, NoDataWhileLarval
<1> QED BY <1>1, Inductive, PTL

-----------------------------------------------------------------------------
(* The unauthenticated connections.                                        *)

\* A connection waits in one queue only, and only before it was accepted.
Queued ==
  /\ \A s \in Socks : \A c \in queue[s] : conn[c] = "queued"
  /\ \A s, t \in Socks : s # t => queue[s] \cap queue[t] = {}

\* Every unauthenticated connection of this daemon has a slot.
SlotsHeld == \A c \in Unauthenticated \cap ours : \E j \in Slots : pipes[j] = c

\* The inductive invariant.
DaemonInv == DaemonTypeOK /\ CountExact /\ Queued /\ SlotsHeld

\* The slots in use are a finite set, no larger than the table.
LEMMA UsedFinite ==
  ASSUME NEW p
  PROVE  /\ IsFiniteSet(Slots) /\ Cardinality(Slots) = MaxStartups
         /\ IsFiniteSet(Used(p)) /\ Cardinality(Used(p)) \in 0..MaxStartups
         /\ Cardinality(Used(p)) < MaxStartups => Used(p) # Slots
<1>1. MaxStartups \in Nat
  BY StartupsAssumption
<1>2. IsFiniteSet(Slots) /\ Cardinality(Slots) = MaxStartups
  BY <1>1, FS_Interval DEF Slots
<1>3. Used(p) \in SUBSET Slots
  BY DEF Used
<1>4. IsFiniteSet(Used(p)) /\ Cardinality(Used(p)) <= Cardinality(Slots)
  BY <1>2, <1>3, FS_Subset
<1>5. Cardinality(Used(p)) \in Nat
  BY <1>4, FS_CardinalityType
<1> QED BY <1>1, <1>2, <1>4, <1>5

\* A set of natural numbers that is not empty has a least element.
LEMMA LeastElement ==
  ASSUME NEW T, T \subseteq Nat, T # {}
  PROVE  \E j \in T : \A k \in T : j <= k
<1> DEFINE R == {p \in Nat \X Nat : p[1] < p[2]}
<1>1. OpToRel(<, Nat) = R
  BY Zenon DEF OpToRel
<1>2. IsWellFoundedOn(R, Nat)
  BY <1>1, NatLessThanWellFounded, Zenon
<1>3. PICK x \in T : \A y \in T : ~ (<<y, x>> \in R)
  BY <1>2, WFMin, Zenon
<1>4. \A y \in T : y < x => <<y, x>> \in R
  BY <1>3
<1> HIDE DEF R
<1>5. \A y \in T : ~ (y < x)
  BY <1>3, <1>4, Zenon
<1>6. \A y \in T : x <= y
  BY <1>5
<1> QED BY <1>6

\* drop_connection() lets nobody in when all slots are taken.
LEMMA DropWhenFull ==
  ASSUME NEW n \in Nat, FALSE \in DropConnection(n)
  PROVE  n < MaxStartups
<1>1. MaxStartups \in Nat /\ Begin \in Nat /\ Begin <= MaxStartups
  BY StartupsAssumption
<1>2. SUFFICES ASSUME n >= MaxStartups PROVE FALSE
  BY <1>1
<1>3. ~(n < Begin)
  BY <1>1, <1>2
<1>4. DropConnection(n) = {TRUE}
  BY <1>2, <1>3, Zenon DEF DropConnection
<1> QED BY <1>4, Zenon

\* The daemon starts with an empty table.
LEMMA DaemonInitInv == DaemonInit => DaemonInv
<1> SUFFICES ASSUME DaemonInit PROVE DaemonInv
  OBVIOUS
<1>1. Used(pipes) = {}
  BY DEF DaemonInit, Used
<1>2. CountExact
  BY <1>1, FS_EmptySet DEF CountExact, DaemonInit
<1>3. DaemonTypeOK
  BY StartupsAssumption DEF DaemonInit, DaemonTypeOK
<1> QED BY <1>2, <1>3 DEF DaemonInv, DaemonInit, Queued, SlotsHeld, Unauthenticated

\* Steps that leave the table alone and let no connection become
\* unauthenticated preserve what is said of the slots.
LEMMA SlotsKept ==
  ASSUME DaemonInv, UNCHANGED <<pipes, startups, ours>>,
         Unauthenticated' \subseteq Unauthenticated
  PROVE  CountExact' /\ SlotsHeld'
BY DEF DaemonInv, CountExact, SlotsHeld, Used

\* A client connects.
LEMMA ArriveIInv ==
  ASSUME DaemonInv, NEW c \in Conns, NEW s \in Socks, Arrive(c, s)
  PROVE  DaemonInv'
<1>1. DaemonTypeOK'
  BY DEF DaemonInv, DaemonTypeOK, Arrive, loopVars, sigVars
<1>2. Queued'
  BY DEF DaemonInv, DaemonTypeOK, Queued, Arrive
<1>3. Unauthenticated' \subseteq Unauthenticated
  BY DEF DaemonInv, DaemonTypeOK, Unauthenticated, Arrive
<1> QED BY <1>1, <1>2, <1>3, SlotsKept DEF DaemonInv, Arrive, loopVars

\* sighup_handler() and sigterm_handler() only set flags.
LEMMA SignalIInv ==
  ASSUME DaemonInv, Sighup \/ Sigterm
  PROVE  DaemonInv'
<1>1. /\ signals' \in 0..MaxSignals /\ intr' \in {"yes", "no"}
      /\ sighup' \in {"none", "received"} /\ sigterm' \in {"none", "received"}
      /\ UNCHANGED <<loopVars, queue, conn, holders>>
  BY StartupsAssumption DEF DaemonInv, DaemonTypeOK, Sighup, Sigterm
<1>2. DaemonTypeOK'
  BY <1>1 DEF DaemonInv, DaemonTypeOK, loopVars
<1>3. Queued' /\ Unauthenticated' = Unauthenticated
  BY DEF DaemonInv, Queued, Unauthenticated, Sighup, Sigterm
<1> QED BY <1>1, <1>2, <1>3, SlotsKept DEF DaemonInv, loopVars

\* close_listen_socks() leaves nobody waiting.
LEMMA CloseKeeps ==
  ASSUME DaemonInv, CloseListenSocks, UNCHANGED holders
  PROVE  /\ Queued' /\ Unauthenticated' \subseteq Unauthenticated
         /\ queue' \in [Socks -> SUBSET Conns]
         /\ conn' \in [Conns -> {"idle", "queued", "preauth", "privsep", "authenticated", "gone"}]
         /\ \A c \in Conns : holders'[c] # {} <=> conn'[c] \in {"preauth", "privsep"}
BY DEF DaemonInv, DaemonTypeOK, Queued, CloseListenSocks, Unauthenticated

\* sighup_restart() starts with an empty table, as DaemonInit does.
LEMMA TopIInv ==
  ASSUME DaemonInv, NEW ok \in BOOLEAN, Top(ok)
  PROVE  DaemonInv'
<1>1. CASE sighup = "received"
  <2>1. /\ pipes' = [j \in Slots |-> NoConn] /\ startups' = 0 /\ ours' = {}
        /\ CloseListenSocks /\ UNCHANGED <<todo, holders, intr, signals>>
    BY <1>1 DEF Top
  <2>2. Used(pipes') = {}
    BY <2>1 DEF Used
  <2>3. CountExact'
    BY <2>1, <2>2, FS_EmptySet DEF CountExact
  <2>4. DaemonTypeOK'
    BY <1>1, <2>1, CloseKeeps, StartupsAssumption DEF DaemonInv, DaemonTypeOK, Top
  <2> QED BY <2>1, <2>3, <2>4, CloseKeeps DEF DaemonInv, SlotsHeld
<1>2. CASE sighup # "received"
  <2>1. /\ pc' = "prepare"
        /\ UNCHANGED <<pipes, startups, queue, conn, ours, sighup, sigterm, todo, holders, intr, signals>>
    BY <1>2 DEF Top
  <2>2. DaemonTypeOK' /\ Queued' /\ Unauthenticated' = Unauthenticated
    BY <2>1 DEF DaemonInv, DaemonTypeOK, Queued, Unauthenticated
  <2> QED BY <2>1, <2>2, SlotsKept DEF DaemonInv
<1> QED BY <1>1, <1>2

\* select() reports the pipes that all processes have closed: their slots are
\* given back, and their connections are not unauthenticated any more.
LEMMA SelectReturnsIInv ==
  ASSUME DaemonInv, SelectReturns
  PROVE  DaemonInv'
<1>1. /\ pipes' = [j \in Slots |-> IF j \in Ready THEN NoConn ELSE pipes[j]]
      /\ startups' = startups - Cardinality(Ready)
      /\ UNCHANGED <<queue, conn, holders, ours, sighup, sigterm, signals>>
  BY DEF SelectReturns, Reap
<1>2. Used(pipes') = Used(pipes) \ Ready /\ Used(pipes) \cap Ready = Ready
  BY <1>1 DEF Used, Ready
<1>3. Cardinality(Used(pipes')) = Cardinality(Used(pipes)) - Cardinality(Ready)
  BY <1>2, UsedFinite, FS_Difference
<1>4. CountExact'
  BY <1>1, <1>3 DEF DaemonInv, CountExact
<1>5. startups' \in 0..MaxStartups
  BY <1>4, UsedFinite DEF CountExact
<1>6. DaemonTypeOK'
  <2>1. pipes' \in [Slots -> Conns \cup {NoConn}]
    BY <1>1 DEF DaemonInv, DaemonTypeOK
  <2>2. todo' \subseteq Socks /\ pc' \in {"top", "accept"} /\ intr' = "no"
    BY DEF SelectReturns, Waiting
  <2> QED BY <1>1, <1>5, <2>1, <2>2 DEF DaemonInv, DaemonTypeOK
<1>7. SlotsHeld'
  <2> SUFFICES ASSUME NEW c \in Unauthenticated \cap ours
               PROVE  \E j \in Slots : pipes'[j] = c
    BY <1>1 DEF SlotsHeld, Unauthenticated
  <2>1. PICK j \in Slots : pipes[j] = c
    BY DEF DaemonInv, SlotsHeld
  <2>2. holders[c] # {}
    BY DEF DaemonInv, DaemonTypeOK, Unauthenticated
  <2>3. j \notin Ready
    BY <2>1, <2>2 DEF Ready
  <2> QED BY <1>1, <2>1, <2>3
<1>8. Queued'
  BY <1>1 DEF DaemonInv, Queued
<1> QED BY <1>4, <1>6, <1>7, <1>8 DEF DaemonInv

\* The loop goes on, or ends, without touching the table.
LEMMA LoopIInv ==
  ASSUME DaemonInv, EnterSelect \/ SelectInterrupted \/ Terminate
  PROVE  DaemonInv'
<1>1. CASE EnterSelect \/ SelectInterrupted
  <2>1. DaemonTypeOK' /\ Queued' /\ Unauthenticated' = Unauthenticated
    BY <1>1 DEF DaemonInv, DaemonTypeOK, Queued, Unauthenticated, EnterSelect, SelectInterrupted, sigVars
  <2> QED BY <1>1, <2>1, SlotsKept DEF DaemonInv, EnterSelect, SelectInterrupted
<1>2. CASE Terminate
  <2>1. CloseListenSocks /\ UNCHANGED <<pipes, startups, todo, holders, ours, sigVars>> /\ pc' = "exited"
    BY <1>2 DEF Terminate
  <2>2. DaemonTypeOK'
    BY <2>1, CloseKeeps DEF DaemonInv, DaemonTypeOK, sigVars
  <2> QED BY <2>1, <2>2, CloseKeeps, SlotsKept DEF DaemonInv
<1> QED BY <1>1, <1>2

\* Taking a connection out of its queue.
LEMMA AcceptedKeeps ==
  ASSUME DaemonInv, NEW s \in Socks, NEW c \in Conns, NEW state, Accepts(s, c), Accepted(s, c, state)
  PROVE  /\ Queued' /\ conn[c] = "queued" /\ holders[c] = {}
         /\ queue' \in [Socks -> SUBSET Conns] /\ todo' \subseteq Socks
         /\ pc' \in {"top", "accept"}
         /\ conn' = [conn EXCEPT ![c] = state]
<1>1. conn[c] = "queued"
  BY DEF DaemonInv, Queued, Accepts
<1>2. holders[c] = {}
  BY <1>1 DEF DaemonInv, DaemonTypeOK
<1>3. Queued'
  BY DEF DaemonInv, DaemonTypeOK, Queued, Accepts, Accepted
<1> QED BY <1>1, <1>2, <1>3 DEF DaemonInv, DaemonTypeOK, Accepted, NextSocket

\* A connection that stays in the queue changes nothing but where the loop is.
LEMMA AcceptFailsIInv ==
  ASSUME DaemonInv, NEW s \in Socks, NEW c \in Conns, AcceptFails(s, c)
  PROVE  DaemonInv'
<1>1. UNCHANGED <<pipes, startups, queue, conn, holders, ours, sigVars>>
  BY DEF AcceptFails
<1>2. todo' \subseteq Socks /\ pc' \in {"top", "accept"}
  BY DEF DaemonInv, DaemonTypeOK, AcceptFails, NextSocket
<1>3. DaemonTypeOK' /\ Queued' /\ Unauthenticated' = Unauthenticated
  BY <1>1, <1>2 DEF DaemonInv, DaemonTypeOK, Queued, Unauthenticated, sigVars
<1> QED BY <1>1, <1>3, SlotsKept DEF DaemonInv

\* A connection that is refused never had a slot.
LEMMA RefuseIInv ==
  ASSUME DaemonInv, NEW s \in Socks, NEW c \in Conns, NEW why, Refuse(s, c, why)
  PROVE  DaemonInv'
<1>1. Accepts(s, c) /\ Accepted(s, c, "gone") /\ UNCHANGED <<pipes, startups, holders, ours, sigVars>>
  BY DEF Refuse
<1>2. DaemonTypeOK'
  BY <1>1, AcceptedKeeps DEF DaemonInv, DaemonTypeOK, sigVars
<1>3. Unauthenticated' \subseteq Unauthenticated
  BY <1>1, AcceptedKeeps DEF DaemonInv, DaemonTypeOK, Unauthenticated
<1> QED BY <1>1, <1>2, <1>3, AcceptedKeeps, SlotsKept DEF DaemonInv

\* A connection that is let in finds a free slot, because the counter is exact.
LEMMA ForkIInv ==
  ASSUME DaemonInv, NEW s \in Socks, NEW c \in Conns, NEW ok \in BOOLEAN, Fork(s, c, ok)
  PROVE  DaemonInv'
<1> DEFINE state == IF ok THEN "preauth" ELSE "gone"
           F == FirstFree
<1>1. Accepts(s, c) /\ Accepted(s, c, state)
      /\ holders' = [holders EXCEPT ![c] = IF ok THEN {"monitor"} ELSE {}]
      /\ ours' = ours \cup {c} /\ UNCHANGED sigVars
  BY DEF Fork
<1>2. startups \in Nat /\ startups < MaxStartups
  <2>1. startups \in Nat
    BY StartupsAssumption DEF DaemonInv, DaemonTypeOK
  <2>2. FALSE \in DropConnection(startups)
    BY Zenon DEF Fork
  <2> QED BY <2>1, <2>2, DropWhenFull
<1>3. Used(pipes) # Slots
  BY <1>2, UsedFinite DEF DaemonInv, CountExact
<1>4. F \in Slots /\ pipes[F] = NoConn
  <2> DEFINE Fr == {j \in Slots : pipes[j] = NoConn}
  <2>1. Fr # {} /\ Fr \subseteq Nat
    BY <1>3, StartupsAssumption DEF Used, Slots
  <2>2. \E j \in Fr : \A k \in Fr : j <= k
    BY <2>1, LeastElement
  <2> QED BY <2>2 DEF FirstFree
<1>5. pipes' = [pipes EXCEPT ![F] = c] /\ startups' = startups + 1
  BY <1>3 DEF Fork
<1>6. CountExact'
  <2>1. c # NoConn
    BY StartupsAssumption
  <2>2. Used(pipes') = Used(pipes) \cup {F} /\ F \notin Used(pipes)
    BY <1>4, <1>5, <2>1 DEF Used, DaemonInv, DaemonTypeOK
  <2>3. Cardinality(Used(pipes')) = Cardinality(Used(pipes)) + 1
    BY <2>2, UsedFinite, FS_AddElement
  <2> QED BY <1>5, <2>3 DEF DaemonInv, CountExact
<1>7. DaemonTypeOK'
  <2>1. pipes' \in [Slots -> Conns \cup {NoConn}] /\ startups' \in 0..MaxStartups
    BY <1>2, <1>4, <1>5, StartupsAssumption DEF DaemonInv, DaemonTypeOK
  <2>3. \/ state = "preauth" /\ holders' = [holders EXCEPT ![c] = {"monitor"}]
        \/ state = "gone" /\ holders' = [holders EXCEPT ![c] = {}]
    BY <1>1, Zenon
  <2>4. conn' = [conn EXCEPT ![c] = state]
    BY <1>1, AcceptedKeeps
  <2> HIDE DEF state
  <2>2. /\ conn' \in [Conns -> {"idle", "queued", "preauth", "privsep", "authenticated", "gone"}]
        /\ holders' \in [Conns -> SUBSET {"monitor", "net"}]
        /\ \A d \in Conns : holders'[d] # {} <=> conn'[d] \in {"preauth", "privsep"}
    BY <2>3, <2>4 DEF DaemonInv, DaemonTypeOK
  <2> QED BY <1>1, <2>1, <2>2, AcceptedKeeps DEF DaemonInv, DaemonTypeOK, sigVars
<1>8. SlotsHeld'
  <2> SUFFICES ASSUME NEW d \in Unauthenticated' \cap ours'
               PROVE  \E j \in Slots : pipes'[j] = d
    BY DEF SlotsHeld
  <2>1. CASE d = c
    BY <1>4, <1>5, <2>1 DEF DaemonInv, DaemonTypeOK
  <2>2. CASE d # c
    <3>1. d \in Unauthenticated \cap ours
      BY <1>1, <2>2, AcceptedKeeps DEF Unauthenticated, DaemonInv, DaemonTypeOK
    <3>2. PICK j \in Slots : pipes[j] = d
      BY <3>1 DEF DaemonInv, SlotsHeld
    <3>3. j # F
      BY <1>4, <3>1, <3>2, StartupsAssumption DEF Unauthenticated
    <3> QED BY <1>5, <3>2, <3>3 DEF DaemonInv, DaemonTypeOK
  <2> QED BY <2>1, <2>2
<1> QED BY <1>1, <1>6, <1>7, <1>8, AcceptedKeeps DEF DaemonInv

\* The connection's own processes: they keep the pipe until all have ended.
LEMMA ProcessIInv ==
  ASSUME DaemonInv, NEW c \in Conns,
         PrivsepPreauth(c) \/ Authenticated(c) \/ Disconnects(c) \/ \E p \in {"monitor", "net"} : Dies(c, p)
  PROVE  DaemonInv'
<1>1. UNCHANGED <<loopVars, queue, sighup, sigterm, signals>> /\ intr' \in {"yes", "no"}
  BY DEF DaemonInv, DaemonTypeOK, PrivsepPreauth, Authenticated, Disconnects, Dies, Sigchld, sigVars
<1>2. /\ conn' \in [Conns -> {"idle", "queued", "preauth", "privsep", "authenticated", "gone"}]
      /\ holders' \in [Conns -> SUBSET {"monitor", "net"}]
      /\ \A d \in Conns : holders'[d] # {} <=> conn'[d] \in {"preauth", "privsep"}
  BY DEF DaemonInv, DaemonTypeOK, PrivsepPreauth, Authenticated, Disconnects, Dies
<1>3. DaemonTypeOK'
  BY <1>1, <1>2 DEF DaemonInv, DaemonTypeOK, loopVars, sigVars
<1>4. /\ conn[c] \in {"preauth", "privsep", "authenticated"}
      /\ conn[c] = "authenticated" => conn'[c] = "gone"
      /\ \A d \in Conns : d # c => conn'[d] = conn[d]
  BY DEF DaemonInv, DaemonTypeOK, PrivsepPreauth, Authenticated, Disconnects, Dies
<1>5. Queued'
  BY <1>1, <1>4 DEF DaemonInv, DaemonTypeOK, Queued
<1>6. Unauthenticated' \subseteq Unauthenticated
  BY <1>4 DEF Unauthenticated
<1> QED BY <1>1, <1>3, <1>5, <1>6, SlotsKept DEF DaemonInv, loopVars

\* DaemonInv is an invariant of the specification.
THEOREM DaemonInductive == DaemonSpec => []DaemonInv
<1>1. DaemonInit => DaemonInv
  BY DaemonInitInv
<1>2. DaemonInv /\ [DaemonNext]_daemonVars => DaemonInv'
  <2> SUFFICES ASSUME DaemonInv, [DaemonNext]_daemonVars PROVE DaemonInv'
    OBVIOUS
  <2>1. CASE UNCHANGED daemonVars
    BY <2>1 DEF DaemonInv, DaemonTypeOK, CountExact, Queued, SlotsHeld, Unauthenticated, Used, daemonVars
  <2>2. CASE Loop
    BY <2>2, TopIInv, SelectReturnsIInv, LoopIInv, AcceptFailsIInv, RefuseIInv, ForkIInv DEF Loop
  <2>3. CASE Sighup \/ Sigterm
    BY <2>3, SignalIInv
  <2>4. ASSUME NEW c \in Conns, \E s \in Socks : Arrive(c, s) PROVE DaemonInv'
    BY <2>4, ArriveIInv
  <2>5. ASSUME NEW c \in Conns,
               PrivsepPreauth(c) \/ Authenticated(c) \/ Disconnects(c) \/ \E p \in {"monitor", "net"} : Dies(c, p)
        PROVE DaemonInv'
    BY <2>5, ProcessIInv
  <2> QED BY <2>1, <2>2, <2>3, <2>4, <2>5 DEF DaemonNext
<1> QED BY <1>1, <1>2, PTL DEF DaemonSpec

\* The counter startups of server_accept_loop() always equals the number of
\* startup_pipes in use, for every MaxStartups and every number of clients.
THEOREM StartupsCounted == DaemonSpec => []CountExact
<1>1. DaemonInv => CountExact
  BY DEF DaemonInv
<1> QED BY <1>1, DaemonInductive, PTL

\* For every MaxStartups, a daemon never has more unauthenticated connections
\* of its own than that, and each of them holds a slot.
THEOREM StartupsBounded == DaemonSpec => []PreauthBounded
<1>1. DaemonInv => PreauthBounded
  <2> SUFFICES ASSUME DaemonInv PROVE Cardinality(Unauthenticated \cap ours) <= MaxStartups
    BY DEF DaemonInv, PreauthBounded, SlotsHeld
  <2> DEFINE U == Unauthenticated \cap ours
             f == [c \in U |-> CHOOSE j \in Slots : pipes[j] = c]
  <2>1. \A c \in U : f[c] \in Slots /\ pipes[f[c]] = c
    BY DEF DaemonInv, SlotsHeld
  <2>2. f \in Injection(U, Slots)
    BY <2>1 DEF Injection, IsInjective
  <2> HIDE DEF f, U
  <2>3. Cardinality(U) <= Cardinality(Slots)
    BY <2>2, UsedFinite, FS_Injection
  <2> QED BY <2>3, UsedFinite DEF U
<1> QED BY <1>1, DaemonInductive, PTL

=============================================================================
