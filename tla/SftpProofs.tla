----------------------------- MODULE SftpProofs -----------------------------
(***************************************************************************)
(* Proofs about Sftp, for every size of file, buffer length and number of  *)
(* requests under way, and any number of commands, faults and interrupts.  *)
(*                                                                         *)
(* The inductive invariant describes the loop of a transfer at get_msg:    *)
(* the requests under way and the client's queue belong to each other      *)
(* (Matched), the ranges asked for are disjoint and lie past the highest   *)
(* contiguous point (Ranges), and every block up to the next offset is     *)
(* written or asked for (Covered).                                         *)
(***************************************************************************)
EXTENDS Sftp, SequenceTheorems, WellFoundedInduction, TLAPS

Wanted == [id : Nat, off : Nat, len : Nat \ {0}]
ReadReq == [type : {"READ"}, id : Nat, h : Nat, off : Nat, len : Nat \ {0}]
WriteReq == [type : {"WRITE"}, id : Nat, h : Nat, off : Nat, data : Seq(Nat)]
Reply == [id : Nat, type : {"DATA", "EOF", "FAILURE", "OK"}, data : Seq(Nat)]
GetType ==
  [h : Nat, offset : Nat, highwater : Nat, buflen : Nat \ {0}, num_req : Nat,
   max_req : Nat, requests : Seq(Wanted), reordered : BOOLEAN,
   read_error : BOOLEAN, write_error : BOOLEAN, id : Nat, send : Seq(Wanted),
   done : BOOLEAN]
Posted == [id : Nat]
PutType ==
  [h : Nat, id : Nat, startid : Nat, ackid : Nat, requests : Seq(Posted),
   offset : Nat, status : {"OK", "FAILURE"}, len : Nat, waiting : BOOLEAN]

Shape ==
  /\ op \in {"idle", "fail", "get", "done", "closing", "put"}
  /\ interrupted \in BOOLEAN /\ failed \in BOOLEAN /\ uncut \in BOOLEAN
  /\ op \notin {"get", "put"} => reqs = <<>> /\ reps = <<>>
  /\ op \in {"fail", "get", "done", "closing"} => cmd \in {"get", "reget"}
  /\ op = "put" => cmd \in {"put", "reput"}
  /\ msg_id \in Nat /\ disk \in Nat
  /\ local \in Seq(Nat) /\ remote \in Seq(Nat)
  /\ reps \in Seq(Reply)

\* At most 1 when one write of the local file failed at most, and no ftruncate.
Doubt == IF uncut THEN disk + 2 ELSE disk

-----------------------------------------------------------------------------
(* The server's handles.                                                   *)

OpenHandles == {i \in DOMAIN handles : handles[i] # "unused"}
Table ==
  /\ handles \in Seq({"unused", "read", "write", "append"})
  /\ unused \in Seq(Nat)
  /\ \A k \in DOMAIN unused : unused[k] \in DOMAIN handles /\ handles[unused[k]] = "unused"
  /\ \A k, l \in DOMAIN unused : unused[k] = unused[l] => k = l
Handles ==
  /\ Table
  /\ op = "idle" => OpenHandles = {}
  /\ op \in {"fail", "get", "done", "closing"} => OpenHandles = {g.h} /\ handles[g.h] = "read"
  /\ op = "put" => OpenHandles = {u.h} /\ handles[u.h] \in {"write", "append"}

-----------------------------------------------------------------------------
(* Requests and answers.                                                   *)

\* Entries of q and r with the same number.
Distinct(q) == \A i, j \in DOMAIN q : q[i].id = q[j].id => i = j
Apart(q, r) == \A i \in DOMAIN q, j \in DOMAIN r : q[i].id # r[j].id
Within(q, r) == \A i \in DOMAIN q : \E j \in DOMAIN r : r[j].id = q[i].id

\* What is under way belongs to one entry of the client's queue each.
Matched(queue, rq, rp) ==
  /\ Distinct(queue) /\ Distinct(rq) /\ Distinct(rp) /\ Apart(rq, rp)
  /\ Within(rq, queue) /\ Within(rp, queue)

-----------------------------------------------------------------------------
(* do_download, its local variables being s, the file f.                   *)

\* The answer rep to the request q.
Fits(q, rep) ==
  /\ rep.type \in {"DATA", "EOF", "FAILURE"}
  /\ rep.type = "EOF" => q.off >= Size
  /\ rep.type = "DATA" =>
       /\ Len(rep.data) \in 1..q.len /\ q.off + Len(rep.data) <= Size
       /\ \A k \in DOMAIN rep.data : rep.data[k] = q.off + k

\* The queue, the next number and the handle against what is under way.
Asked(queue, id, h, rq, rp) ==
  /\ rq \in Seq(ReadReq)
  /\ Matched(queue, rq, rp)
  /\ \A i \in DOMAIN queue : queue[i].id < id
  /\ \A k \in DOMAIN rq : \A i \in DOMAIN queue :
       queue[i].id = rq[k].id => rq[k].off = queue[i].off /\ rq[k].len = queue[i].len
  /\ \A k \in DOMAIN rq : rq[k].h = h
  /\ \A k \in DOMAIN rp : \A i \in DOMAIN queue :
       queue[i].id = rp[k].id => Fits(queue[i], rp[k])

\* What is asked for is disjoint and between the highest contiguous point hw
\* and the next offset.
EndOf(q) == q.off + q.len
Ranges(queue, hw, offset) ==
  /\ hw <= offset
  /\ \A i \in DOMAIN queue : hw <= queue[i].off /\ EndOf(queue[i]) <= offset
  /\ \A i, j \in DOMAIN queue : i # j =>
       EndOf(queue[i]) <= queue[j].off \/ EndOf(queue[j]) <= queue[i].off

\* Block i has been written.
There(f, i) == i \in DOMAIN f /\ f[i] = i
\* Block i has been asked for.
Coming(queue, i) == \E k \in DOMAIN queue : queue[k].off < i /\ i <= EndOf(queue[k])

Covered(s, f, stop) ==
  ~s.read_error /\ ~s.write_error =>
    /\ \A i \in 1..Size : i <= s.offset => There(f, i) \/ Coming(s.requests, i)
    /\ s.max_req = 0 /\ ~stop => Size <= s.offset

\* The file f is a beginning of the source.
Begins(f) == Len(f) <= Size /\ \A i \in DOMAIN f : f[i] = i

Contiguous(s, f) == s.highwater <= Size /\ \A i \in 1..s.highwater : There(f, i)

\* The loop at get_msg; d writes have failed, and stop: interrupted.
Loop(s, f, rq, rp, d, stop) ==
  /\ s \in GetType /\ f \in Seq(Nat) /\ Len(f) <= Size
  /\ s.num_req = Len(s.requests)
  /\ Asked(s.requests, s.id, s.h, rq, rp) /\ Ranges(s.requests, s.highwater, s.offset)
  /\ s.write_error => d >= 1
  /\ d <= 1 => Covered(s, f, stop) /\ Contiguous(s, f)

Getting ==
  op \in {"get", "done"} =>
    /\ Loop(g, local, reqs, reps, Doubt, interrupted) /\ g.send = <<>> /\ g.id = msg_id
    /\ op = "done" => g.requests = <<>> /\ g.max_req = 0

\* Behind the loop without an error or an interrupt: the file is complete.
Closing ==
  op = "closing" /\ Doubt <= 1 /\ ~g.read_error /\ ~g.write_error /\ ~interrupted =>
    Begins(local) /\ Len(local) = Size

-----------------------------------------------------------------------------
(* do_upload                                                               *)

\* The writes under way continue the file without a gap, up to block n.
Continues(f, rq, n) ==
  /\ rq = <<>> => Len(f) = n
  /\ rq # <<>> => Len(f) = rq[1].off /\ rq[Len(rq)].off + Len(rq[Len(rq)].data) = n
  /\ \A k \in DOMAIN rq : rq[k].off + Len(rq[k].data) <= n
  /\ \A k \in 1..(Len(rq) - 1) : rq[k].off + Len(rq[k].data) = rq[k + 1].off
  /\ \A k \in DOMAIN rq : \A i \in DOMAIN rq[k].data : rq[k].data[i] = rq[k].off + i

Sent == IF u.waiting THEN u.offset + u.len ELSE u.offset
Putting ==
  op = "put" =>
    /\ u \in PutType /\ reqs \in Seq(WriteReq)
    /\ Matched(u.requests, reqs, reps)
    /\ \A i \in DOMAIN u.requests : u.requests[i].id <= u.id
    /\ \A k \in DOMAIN reps : reps[k].type \in {"OK", "FAILURE"}
    /\ \A k \in DOMAIN reqs : reqs[k].h = u.h
    /\ Sent <= Size
    /\ ~failed => Continues(remote, reqs, Sent)

-----------------------------------------------------------------------------
\* Between transfers the local file is a beginning of the source, or the
\* one that was there and is too long for a reget.
Between == op \notin {"get", "done"} /\ Doubt <= 1 => Begins(local) \/ Len(local) > Size

\* As long as no write has failed the remote file is one, too.
Remote == ~failed => Begins(remote)

\* What the last command reported.
Results ==
  op = "idle" =>
    /\ last.cmd \in {"get", "reget"} /\ last.ok /\ Doubt <= 1 => Begins(local) /\ Len(local) = Size
    /\ last.cmd \in {"put", "reput"} /\ last.ok /\ ~failed =>
         Begins(remote) /\ (Len(remote) = Size \/ last.interrupted)

\* The inductive invariant.
IInv ==
  /\ Shape /\ Handles /\ Getting /\ Closing /\ Putting /\ Between /\ Remote /\ Results

-----------------------------------------------------------------------------
(* Sequences.                                                              *)

LEMMA ConcatFacts ==
  ASSUME NEW S, NEW q \in Seq(S), NEW r \in Seq(S)
  PROVE  /\ q \o r \in Seq(S) /\ Len(q \o r) = Len(q) + Len(r)
         /\ \A k \in DOMAIN q : k \in DOMAIN (q \o r) /\ (q \o r)[k] = q[k]
         /\ \A k \in DOMAIN r : Len(q) + k \in DOMAIN (q \o r) /\ (q \o r)[Len(q) + k] = r[k]
         /\ \A k \in DOMAIN (q \o r) : k \in DOMAIN q \/ \E l \in DOMAIN r : k = Len(q) + l
<1>1. ASSUME NEW k \in DOMAIN (q \o r), k \notin DOMAIN q
      PROVE  \E l \in DOMAIN r : k = Len(q) + l
  <2>1. k - Len(q) \in DOMAIN r /\ k = Len(q) + (k - Len(q))
    BY <1>1
  <2> QED BY <2>1
<1> QED BY <1>1

\* A place of the sequence without entry i, in the sequence with it.
Shift(k, i) == IF k < i THEN k ELSE k + 1

LEMMA RemoveAtFacts ==
  ASSUME NEW S, NEW q \in Seq(S), NEW i \in DOMAIN q
  PROVE  /\ RemoveAt(q, i) \in Seq(S) /\ Len(RemoveAt(q, i)) = Len(q) - 1
         /\ \A k \in DOMAIN RemoveAt(q, i) :
              Shift(k, i) \in DOMAIN q \ {i} /\ RemoveAt(q, i)[k] = q[Shift(k, i)]
         /\ \A k, l \in DOMAIN RemoveAt(q, i) : Shift(k, i) = Shift(l, i) => k = l
         /\ \A l \in DOMAIN q \ {i} : \E k \in DOMAIN RemoveAt(q, i) : l = Shift(k, i)
<1>1. i \in 1..Len(q) /\ Len(q) \in Nat
  OBVIOUS
<1> DEFINE a == SubSeq(q, 1, i - 1)
           b == SubSeq(q, i + 1, Len(q))
<1>a. /\ a \in Seq(S) /\ Len(a) = i - 1
      /\ \A k \in 1..(i - 1) : a[k] = q[k]
  <2>1. i - 1 \in Nat /\ i - 1 <= Len(q) /\ \A k \in 1..(i - 1) : q[k] \in S
    BY <1>1
  <2>2. /\ a = [k \in 1..(i - 1) |-> q[k]]
    BY <1>1, <2>1
  <2>3. a \in Seq(S)
    BY <1>1, <2>1
  <2> QED BY <2>1, <2>2, <2>3
<1>b. /\ b \in Seq(S) /\ Len(b) = Len(q) - i
      /\ \A k \in 1..(Len(q) - i) : b[k] = q[i + k]
  <2>1. Len(q) - i \in Nat /\ i + 1 \in Nat
    BY <1>1
  <2>2. b = [k \in 1..(Len(q) - i) |-> q[i + k]]
    BY <1>1, <2>1
  <2>3. b \in Seq(S)
    BY <1>1, <2>1
  <2> QED BY <2>1, <2>2, <2>3
<1> DEFINE r == RemoveAt(q, i)
<1>c. r = a \o b
  BY DEF RemoveAt
<1> HIDE DEF a, b, r
<1>d. /\ r \in Seq(S) /\ Len(r) = Len(a) + Len(b)
      /\ \A k \in DOMAIN a : r[k] = a[k]
      /\ \A k \in DOMAIN b : r[Len(a) + k] = b[k]
  <2>1. a \in Seq(S) /\ b \in Seq(S)
    BY <1>a, <1>b
  <2> QED BY <2>1, <1>c, ConcatFacts
<1>e. DOMAIN a = 1..(i - 1) /\ DOMAIN b = 1..(Len(q) - i)
  BY <1>a, <1>b
<1>2. r \in Seq(S) /\ Len(r) = Len(q) - 1
  <2>2. (i - 1) + (Len(q) - i) = Len(q) - 1
    BY <1>1
  <2> QED BY <1>a, <1>b, <1>d, <2>2
<1>3. DOMAIN r = 1..(Len(q) - 1) /\ DOMAIN q = 1..Len(q)
  BY <1>2
<1>4. ASSUME NEW k \in DOMAIN r
      PROVE  Shift(k, i) \in DOMAIN q \ {i} /\ r[k] = q[Shift(k, i)]
  <2>1. CASE k < i
    <3>1. k \in 1..(i - 1) /\ r[k] = a[k]
      BY <2>1, <1>1, <1>3, <1>d, <1>e
    <3> QED BY <2>1, <3>1, <1>1, <1>3, <1>a DEF Shift
  <2>2. CASE ~(k < i)
    <3>1. k - (i - 1) \in 1..(Len(q) - i) /\ k \in Nat
      BY <2>2, <1>1, <1>3
    <3>2. r[k] = b[k - (i - 1)]
      <4>1. (i - 1) + (k - (i - 1)) = k
        BY <3>1, <1>1
      <4> QED BY <3>1, <4>1, <1>a, <1>d, <1>e
    <3>3. b[k - (i - 1)] = q[i + (k - (i - 1))] /\ i + (k - (i - 1)) = k + 1
      BY <3>1, <1>1, <1>b
    <3> QED BY <2>2, <3>1, <3>2, <3>3, <1>1, <1>3 DEF Shift
  <2> QED BY <2>1, <2>2
<1>5. \A k, l \in DOMAIN r : Shift(k, i) = Shift(l, i) => k = l
  BY <1>1, <1>3 DEF Shift
<1>6. ASSUME NEW l \in DOMAIN q \ {i}
      PROVE  \E k \in DOMAIN r : l = Shift(k, i)
  <2>1. CASE l < i
    BY <2>1, <1>1, <1>3 DEF Shift
  <2>2. CASE ~(l < i)
    <3>1. l - 1 \in DOMAIN r /\ l = Shift(l - 1, i)
      BY <2>2, <1>1, <1>3 DEF Shift
    <3> QED BY <3>1
  <2> QED BY <2>1, <2>2
<1> QED BY <1>2, <1>4, <1>5, <1>6 DEF r

LEMMA TailFacts ==
  ASSUME NEW S, NEW q \in Seq(S), q # <<>>
  PROVE  /\ 1 \in DOMAIN q /\ Head(q) = q[1] /\ q[1] \in S
         /\ Tail(q) \in Seq(S) /\ Len(Tail(q)) = Len(q) - 1
         /\ \A k \in DOMAIN Tail(q) : k + 1 \in DOMAIN q \ {1} /\ Tail(q)[k] = q[k + 1]
<1>1. Len(q) \in Nat /\ Len(q) # 0
  OBVIOUS
<1> QED BY <1>1

LEMMA AppendFacts ==
  ASSUME NEW S, NEW q \in Seq(S), NEW e \in S
  PROVE  /\ Append(q, e) \in Seq(S) /\ Len(Append(q, e)) = Len(q) + 1
         /\ \A k \in DOMAIN q : k \in DOMAIN Append(q, e) /\ Append(q, e)[k] = q[k]
         /\ Len(q) + 1 \in DOMAIN Append(q, e) /\ Append(q, e)[Len(q) + 1] = e
         /\ \A k \in DOMAIN Append(q, e) : k \in DOMAIN q \/ k = Len(q) + 1
OBVIOUS

-----------------------------------------------------------------------------
(* Requests and answers.                                                   *)

\* A request is answered.
LEMMA MatchedProcess ==
  ASSUME NEW S, NEW queue, NEW rq \in Seq(S), NEW rp \in Seq(Reply), NEW rep \in Reply,
         rq # <<>>, rep.id = rq[1].id, Matched(queue, rq, rp)
  PROVE  Matched(queue, Tail(rq), Append(rp, rep))
<1> DEFINE t == Tail(rq)
           p == Append(rp, rep)
<1>1. \A k \in DOMAIN t : k + 1 \in DOMAIN rq \ {1} /\ t[k] = rq[k + 1]
  BY TailFacts
<1>2. 1 \in DOMAIN rq /\ t \in Seq(S)
  BY TailFacts
<1>3. /\ \A k \in DOMAIN p : k \in DOMAIN rp \/ k = Len(rp) + 1
      /\ \A k \in DOMAIN rp : p[k] = rp[k]
      /\ p[Len(rp) + 1] = rep
  BY AppendFacts
<1> HIDE DEF p
<1>4. Distinct(t)
  <2>1. \A k, l \in DOMAIN t : k + 1 = l + 1 => k = l
    BY <1>2
  <2> QED BY <1>1, <2>1 DEF Matched, Distinct
<1> HIDE DEF t
<1>5. Distinct(p)
  BY <1>2, <1>3 DEF Matched, Distinct, Apart
<1>6. Apart(t, p)
  <2>1. \A k \in DOMAIN t : t[k].id # rep.id /\ \A l \in DOMAIN rp : t[k].id # rp[l].id
    BY <1>1, <1>2 DEF Matched, Distinct, Apart
  <2> QED BY <2>1, <1>3 DEF Apart
<1>7. Within(t, queue) /\ Within(p, queue)
  <2>1. Within(t, queue)
    BY <1>1 DEF Matched, Within
  <2>2. \E j \in DOMAIN queue : queue[j].id = rep.id
    BY <1>2 DEF Matched, Within
  <2> QED BY <2>1, <2>2, <1>3 DEF Matched, Within
<1>8. Matched(queue, t, p)
  BY <1>4, <1>5, <1>6, <1>7 DEF Matched
<1> QED BY <1>8 DEF t, p

\* The answer to entry i of the queue is taken: nothing else is under way for it.
LEMMA MatchedTaken ==
  ASSUME NEW queue, NEW rq, NEW rp \in Seq(Reply), NEW a \in DOMAIN rp,
         NEW i \in DOMAIN queue, queue[i].id = rp[a].id, Matched(queue, rq, rp)
  PROVE  /\ Distinct(queue) /\ Distinct(rq) /\ Distinct(RemoveAt(rp, a)) /\ Apart(rq, RemoveAt(rp, a))
         /\ \A k \in DOMAIN rq :
              \E j \in DOMAIN queue \ {i} : queue[j].id = rq[k].id
         /\ \A k \in DOMAIN RemoveAt(rp, a) :
              \E j \in DOMAIN queue \ {i} : queue[j].id = RemoveAt(rp, a)[k].id
<1> DEFINE p == RemoveAt(rp, a)
<1>1. /\ \A k \in DOMAIN p : Shift(k, a) \in DOMAIN rp \ {a} /\ p[k] = rp[Shift(k, a)]
      /\ \A k, l \in DOMAIN p : Shift(k, a) = Shift(l, a) => k = l
  BY RemoveAtFacts
<1> HIDE DEF p
<1>2. Distinct(p) /\ Apart(rq, p)
  BY <1>1 DEF Matched, Distinct, Apart
<1>3. \A k \in DOMAIN rq : \E j \in DOMAIN queue \ {i} : queue[j].id = rq[k].id
  BY DEF Matched, Within, Apart
<1>4. \A k \in DOMAIN p : \E j \in DOMAIN queue \ {i} : queue[j].id = p[k].id
  BY <1>1 DEF Matched, Within, Distinct
<1> QED BY <1>2, <1>3, <1>4 DEF Matched, p

\* The entry is done with.
LEMMA MatchedReceive ==
  ASSUME NEW S, NEW queue \in Seq(S), NEW rq, NEW rp \in Seq(Reply), NEW a \in DOMAIN rp,
         NEW i \in DOMAIN queue, queue[i].id = rp[a].id, Matched(queue, rq, rp)
  PROVE  Matched(RemoveAt(queue, i), rq, RemoveAt(rp, a))
<1> DEFINE p == RemoveAt(rp, a)
           q == RemoveAt(queue, i)
<1>1. /\ \A k \in DOMAIN q : Shift(k, i) \in DOMAIN queue \ {i} /\ q[k] = queue[Shift(k, i)]
      /\ \A k, l \in DOMAIN q : Shift(k, i) = Shift(l, i) => k = l
      /\ \A l \in DOMAIN queue \ {i} : \E k \in DOMAIN q : l = Shift(k, i)
  BY RemoveAtFacts
<1>2. /\ Distinct(queue) /\ Distinct(rq) /\ Distinct(p) /\ Apart(rq, p)
      /\ \A k \in DOMAIN rq : \E j \in DOMAIN queue \ {i} : queue[j].id = rq[k].id
      /\ \A k \in DOMAIN p : \E j \in DOMAIN queue \ {i} : queue[j].id = p[k].id
  BY MatchedTaken
<1> HIDE DEF p, q
<1>3. Distinct(q)
  BY <1>1, <1>2 DEF Distinct
<1>4. Within(rq, q) /\ Within(p, q)
  BY <1>1, <1>2 DEF Within
<1>5. Matched(q, rq, p)
  BY <1>2, <1>3, <1>4 DEF Matched
<1> QED BY <1>5 DEF p, q

\* The entry is asked for again, as e with a new number, by the request x.
LEMMA MatchedAgain ==
  ASSUME NEW S, NEW queue \in Seq(S), NEW R, NEW rq \in Seq(R), NEW rp \in Seq(Reply),
         NEW a \in DOMAIN rp, NEW i \in DOMAIN queue, queue[i].id = rp[a].id,
         Matched(queue, rq, rp),
         NEW e \in S, NEW x \in R, x.id = e.id, \A j \in DOMAIN queue : queue[j].id # e.id
  PROVE  Matched(ReplaceAt(queue, i, e), rq \o <<x>>, RemoveAt(rp, a))
<1> DEFINE p == RemoveAt(rp, a)
           q == ReplaceAt(queue, i, e)
           w == rq \o <<x>>
<1>1. /\ DOMAIN q = DOMAIN queue /\ q[i] = e
      /\ \A j \in DOMAIN queue \ {i} : q[j] = queue[j]
  BY DEF ReplaceAt
<1>2. /\ Distinct(queue) /\ Distinct(rq) /\ Distinct(p) /\ Apart(rq, p)
      /\ \A k \in DOMAIN rq : \E j \in DOMAIN queue \ {i} : queue[j].id = rq[k].id
      /\ \A k \in DOMAIN p : \E j \in DOMAIN queue \ {i} : queue[j].id = p[k].id
  BY MatchedTaken
<1>3. /\ \A k \in DOMAIN rq : w[k] = rq[k]
      /\ w[Len(rq) + 1] = x
      /\ \A k \in DOMAIN w : k \in DOMAIN rq \/ k = Len(rq) + 1
  <2>1. <<x>> \in Seq(R) /\ DOMAIN <<x>> = {1} /\ <<x>>[1] = x
    OBVIOUS
  <2> QED BY <2>1, ConcatFacts
<1> HIDE DEF p, q, w
<1>4. \A k \in DOMAIN rq : rq[k].id # x.id
  BY <1>2
<1>5. \A k \in DOMAIN p : p[k].id # x.id
  BY <1>2
<1>6. Distinct(q)
  BY <1>1, <1>2 DEF Distinct
<1>7. Distinct(w)
  BY <1>2, <1>3, <1>4 DEF Distinct
<1>8. Apart(w, p)
  <2>1. \A k \in DOMAIN rq, l \in DOMAIN p : rq[k].id # p[l].id
    BY <1>2 DEF Apart
  <2>2. \A k \in DOMAIN w : (k \in DOMAIN rq /\ w[k] = rq[k]) \/ w[k] = x
    BY <1>3
  <2> QED BY <2>1, <2>2, <1>5, Zenon DEF Apart
<1>9. Within(p, q)
  BY <1>1, <1>2 DEF Within
<1>10. Within(w, q)
  <2>1. \A k \in DOMAIN rq : \E j \in DOMAIN q : q[j].id = rq[k].id
    BY <1>1, <1>2
  <2>2. i \in DOMAIN q /\ q[i].id = x.id
    BY <1>1
  <2> QED BY <2>1, <2>2, <1>3 DEF Within
<1>11. Matched(q, w, p)
  BY <1>2, <1>6, <1>7, <1>8, <1>9, <1>10 DEF Matched
<1> QED BY <1>11 DEF p, q, w

\* New entries are asked for, by the requests x.
LEMMA MatchedSend ==
  ASSUME NEW S, NEW queue \in Seq(S), NEW new \in Seq(S), NEW R, NEW rq \in Seq(R),
         NEW x \in Seq(R), NEW rp, Matched(queue, rq, rp),
         DOMAIN x = DOMAIN new, \A k \in DOMAIN new : x[k].id = new[k].id,
         Distinct(new), Apart(queue, new)
  PROVE  Matched(queue \o new, rq \o x, rp)
<1> DEFINE q == queue \o new
           w == rq \o x
<1>1. /\ \A k \in DOMAIN queue : k \in DOMAIN q /\ q[k] = queue[k]
      /\ \A k \in DOMAIN new : Len(queue) + k \in DOMAIN q /\ q[Len(queue) + k] = new[k]
      /\ \A k \in DOMAIN q : k \in DOMAIN queue \/ \E l \in DOMAIN new : k = Len(queue) + l
  BY ConcatFacts
<1>2. /\ \A k \in DOMAIN rq : k \in DOMAIN w /\ w[k] = rq[k]
      /\ \A k \in DOMAIN x : Len(rq) + k \in DOMAIN w /\ w[Len(rq) + k] = x[k]
      /\ \A k \in DOMAIN w : k \in DOMAIN rq \/ \E l \in DOMAIN x : k = Len(rq) + l
  BY ConcatFacts
<1> HIDE DEF q, w
<1>3. \A k \in DOMAIN rq, l \in DOMAIN x : rq[k].id # x[l].id
  BY DEF Matched, Within, Apart
<1>4. \A k \in DOMAIN rp, l \in DOMAIN x : rp[k].id # x[l].id
  BY DEF Matched, Within, Apart
<1>5. Distinct(x)
  BY DEF Distinct
<1>6. Distinct(q)
  BY <1>1 DEF Matched, Distinct, Apart
<1>7. Distinct(w)
  BY <1>2, <1>3, <1>5 DEF Matched, Distinct
<1>8. Apart(w, rp)
  BY <1>2, <1>4 DEF Matched, Apart
<1>9. Within(rp, q)
  BY <1>1 DEF Matched, Within
<1>10. Within(w, q)
  <2>1. \A k \in DOMAIN rq : \E j \in DOMAIN q : q[j].id = rq[k].id
    BY <1>1 DEF Matched, Within
  <2>2. \A k \in DOMAIN x : \E j \in DOMAIN q : q[j].id = x[k].id
    BY <1>1
  <2>3. ASSUME NEW k \in DOMAIN w PROVE \E j \in DOMAIN q : q[j].id = w[k].id
    <3>1. CASE k \in DOMAIN rq
      BY <3>1, <2>1, <1>2
    <3>2. CASE k \notin DOMAIN rq
      <4>1. PICK l \in DOMAIN x : k = Len(rq) + l
        BY <3>2, <1>2
      <4>2. w[k] = x[l]
        BY <4>1, <1>2
      <4> QED BY <4>2, <2>2
    <3> QED BY <3>1, <3>2
  <2> QED BY <2>3 DEF Within
<1>11. Matched(q, w, rp)
  BY <1>6, <1>7, <1>8, <1>9, <1>10 DEF Matched
<1> QED BY <1>11 DEF q, w

-----------------------------------------------------------------------------
(* The server's handles.                                                   *)

\* handle_new() takes a handle that is not in use.
LEMMA OpenKeeps ==
  ASSUME Table, OpenHandles = {}, NEW flags \in {"read", "write", "append"}, NEW i \in Nat,
         ProcessOpen(flags, i)
  PROVE  Table' /\ OpenHandles' = {i} /\ handles'[i] = flags
<1> DEFINE S == {"unused", "read", "write", "append"}
<1>1. handles \in Seq(S) /\ unused \in Seq(Nat) /\ \A k \in DOMAIN handles : handles[k] = "unused"
  BY DEF Table, OpenHandles
<1>2. CASE unused = <<>>
  <2>1. handles' = Append(handles, flags) /\ unused' = <<>> /\ i = Len(handles) + 1
    BY <1>2 DEF ProcessOpen, HandleNew
  <2>2. /\ handles' \in Seq(S)
        /\ \A k \in DOMAIN handles : handles'[k] = handles[k]
        /\ i \in DOMAIN handles' /\ handles'[i] = flags
        /\ \A k \in DOMAIN handles' : k \in DOMAIN handles \/ k = i
    BY <1>1, <2>1, AppendFacts
  <2>3. OpenHandles' = {i} /\ handles'[i] = flags
    BY <2>2, <1>1 DEF OpenHandles
  <2>4. Table'
    BY <2>1, <2>2 DEF Table
  <2> QED BY <2>3, <2>4
<1>3. CASE unused # <<>>
  <2>1. handles' = [handles EXCEPT ![Head(unused)] = flags] /\ unused' = Tail(unused) /\ i = Head(unused)
    BY <1>3 DEF ProcessOpen, HandleNew
  <2>2. /\ 1 \in DOMAIN unused /\ i = unused[1] /\ Tail(unused) \in Seq(Nat)
        /\ \A k \in DOMAIN Tail(unused) : k + 1 \in DOMAIN unused \ {1} /\ Tail(unused)[k] = unused[k + 1]
    BY <1>1, <1>3, <2>1, TailFacts
  <2>3. i \in DOMAIN handles
    BY <2>2 DEF Table
  <2>4. /\ DOMAIN handles' = DOMAIN handles /\ handles' \in Seq(S) /\ handles'[i] = flags
        /\ \A k \in DOMAIN handles \ {i} : handles'[k] = handles[k]
    BY <1>1, <2>1, <2>3
  <2>5. OpenHandles' = {i} /\ handles'[i] = flags
    BY <2>3, <2>4, <1>1 DEF OpenHandles
  <2> DEFINE t == Tail(unused)
  <2>6. \A k, l \in DOMAIN t : k + 1 = l + 1 => k = l
    BY <2>2
  <2> HIDE DEF t
  <2>7. \A k \in DOMAIN t : t[k] \in DOMAIN handles' /\ handles'[t[k]] = "unused"
    BY <2>2, <2>3, <2>4 DEF Table, t
  <2>8. \A k, l \in DOMAIN t : t[k] = t[l] => k = l
    BY <2>2, <2>6 DEF Table, t
  <2>9. Table'
    BY <2>1, <2>2, <2>4, <2>7, <2>8 DEF Table, t
  <2> QED BY <2>5, <2>9
<1> QED BY <1>2, <1>3

\* process_close() frees the only handle.
LEMMA CloseKeeps ==
  ASSUME Table, NEW i, OpenHandles = {i}, ProcessClose(i)
  PROVE  Table' /\ OpenHandles' = {}
<1> DEFINE S == {"unused", "read", "write", "append"}
<1>1. handles \in Seq(S) /\ unused \in Seq(Nat)
  BY DEF Table
<1>2. i \in DOMAIN handles /\ handles[i] # "unused" /\ i \in Nat
  BY <1>1 DEF OpenHandles
<1>3. handles' = [handles EXCEPT ![i] = "unused"] /\ unused' = <<i>> \o unused
  BY <1>2 DEF ProcessClose, HandleIsOk
<1>4. /\ DOMAIN handles' = DOMAIN handles /\ handles' \in Seq(S) /\ handles'[i] = "unused"
      /\ \A k \in DOMAIN handles \ {i} : handles'[k] = handles[k]
  BY <1>1, <1>2, <1>3
<1>5. OpenHandles' = {}
  BY <1>4 DEF OpenHandles
<1>6. \A k \in DOMAIN handles : handles'[k] = "unused"
  BY <1>4, <1>5 DEF OpenHandles
<1>7. /\ unused' \in Seq(Nat)
      /\ unused'[1] = i
      /\ \A k \in DOMAIN unused : unused'[1 + k] = unused[k]
      /\ \A k \in DOMAIN unused' : k = 1 \/ \E l \in DOMAIN unused : k = 1 + l
  <2>1. <<i>> \in Seq(Nat) /\ DOMAIN <<i>> = {1} /\ <<i>>[1] = i /\ Len(<<i>>) = 1
    BY <1>2
  <2>2. \A q, r \in Seq(Nat) :
          /\ q \o r \in Seq(Nat)
          /\ \A k \in DOMAIN q : (q \o r)[k] = q[k]
          /\ \A k \in DOMAIN r : (q \o r)[Len(q) + k] = r[k]
          /\ \A k \in DOMAIN (q \o r) : k \in DOMAIN q \/ \E l \in DOMAIN r : k = Len(q) + l
    BY ConcatFacts
  <2>3. /\ unused' \in Seq(Nat)
        /\ \A k \in DOMAIN <<i>> : unused'[k] = <<i>>[k]
        /\ \A k \in DOMAIN unused : unused'[Len(<<i>>) + k] = unused[k]
        /\ \A k \in DOMAIN unused' : k \in DOMAIN <<i>> \/ \E l \in DOMAIN unused : k = Len(<<i>>) + l
    BY <2>1, <2>2, <1>1, <1>3, Zenon
  <2> QED BY <2>1, <2>3
<1>8. \A k \in DOMAIN unused : unused[k] # i /\ unused[k] \in DOMAIN handles
  BY <1>2 DEF Table
<1>9. \A k \in DOMAIN unused' : unused'[k] \in DOMAIN handles' /\ handles'[unused'[k]] = "unused"
  BY <1>2, <1>4, <1>6, <1>7, <1>8
<1>10. \A k, l \in DOMAIN unused' : unused'[k] = unused'[l] => k = l
  <2>1. \A k, l \in DOMAIN unused : unused[k] = unused[l] => k = l
    BY DEF Table
  <2>2. \A k \in DOMAIN unused' :
          \/ k = 1 /\ unused'[k] = i
          \/ \E m \in DOMAIN unused : k = 1 + m /\ unused'[k] = unused[m] /\ unused[m] # i
    BY <1>7, <1>8, Zenon
  <2> QED BY <2>1, <2>2, Zenon
<1> QED BY <1>4, <1>5, <1>7, <1>9, <1>10 DEF Table

-----------------------------------------------------------------------------
(* do_download: the top of the loop.                                       *)

\* A set of natural numbers that is not empty has a least element.
LEMMA LeastElement ==
  ASSUME NEW T, T \subseteq Nat, T # {}
  PROVE  \E j \in T : \A k \in T : j <= k
<1> DEFINE R == {p \in Nat \X Nat : p[1] < p[2]}
<1>1. OpToRel(<, Nat) = R
  BY Zenon DEF OpToRel
<1>2. IsWellFoundedOn(R, Nat)
  BY <1>1, NatLessThanWellFounded, Zenon
<1>3. PICK x \in T : \A y \in T : ~ (<<y, x>> \in R)
  BY <1>2, WFMin, Zenon
<1>4. \A y \in T : y < x => <<y, x>> \in R
  BY <1>3
<1> HIDE DEF R
<1>5. \A y \in T : ~ (y < x)
  BY <1>3, <1>4, Zenon
<1>6. \A y \in T : x <= y
  BY <1>5
<1> QED BY <1>6

\* The offset of the request that follows k new ones.
Place(s, k) == s.offset + k * s.buflen

LEMMA PlaceFacts ==
  ASSUME NEW s \in GetType
  PROVE  /\ Place(s, 0) = s.offset
         /\ \A k \in Nat : Place(s, k) \in Nat /\ Place(s, k + 1) = Place(s, k) + s.buflen
         /\ \A k \in Nat : s.offset <= Place(s, k)
         /\ \A j, k \in Nat : j < k => Place(s, j) + s.buflen <= Place(s, k)
<1>1. PICK o, b \in Nat : o = s.offset /\ b = s.buflen
  BY DEF GetType
<1>2. \A k \in Nat : k * b \in Nat /\ (k + 1) * b = k * b + b
  BY <1>1
<1>3. \A j, k \in Nat : j < k => j * b + b <= k * b
  <2> SUFFICES ASSUME NEW j \in Nat, NEW k \in Nat, j < k PROVE j * b + b <= k * b
    OBVIOUS
  <2>1. PICK m \in Nat : k = j + 1 + m
    <3>1. k - (j + 1) \in Nat /\ k = j + 1 + (k - (j + 1))
      OBVIOUS
    <3> QED BY <3>1
  <2>2. k * b = j * b + b + m * b /\ m * b \in Nat /\ j * b \in Nat
    BY <1>1, <2>1
  <2> QED BY <1>1, <2>2
<1>4. 0 * b = 0
  BY <1>1
<1>5. \A k \in Nat : Place(s, k) = o + k * b
  BY <1>1 DEF Place
<1>6. Place(s, 0) = s.offset
  BY <1>1, <1>4, <1>5
<1>7. \A k \in Nat : Place(s, k) \in Nat /\ s.offset <= Place(s, k)
  <2> SUFFICES ASSUME NEW k \in Nat PROVE Place(s, k) \in Nat /\ s.offset <= Place(s, k)
    OBVIOUS
  <2>1. PICK m \in Nat : m = k * b
    BY <1>2
  <2>2. Place(s, k) = o + m
    BY <1>5, <2>1
  <2> QED BY <1>1, <2>2
<1>8. \A k \in Nat : Place(s, k + 1) = Place(s, k) + s.buflen
  <2> SUFFICES ASSUME NEW k \in Nat PROVE Place(s, k + 1) = Place(s, k) + s.buflen
    OBVIOUS
  <2>1. PICK m \in Nat : m = k * b
    BY <1>2
  <2>2. (k + 1) * b = m + b
    BY <1>2, <2>1
  <2>3. Place(s, k) = o + m /\ Place(s, k + 1) = o + (m + b)
    BY <1>5, <2>1, <2>2
  <2> QED BY <1>1, <2>3
<1>9. \A j, k \in Nat : j < k => Place(s, j) + s.buflen <= Place(s, k)
  <2> SUFFICES ASSUME NEW j \in Nat, NEW k \in Nat, j < k
               PROVE  Place(s, j) + s.buflen <= Place(s, k)
    OBVIOUS
  <2>1. Place(s, j) = o + j * b /\ Place(s, k) = o + k * b /\ j * b + b <= k * b
    BY <1>3, <1>5
  <2>2. j * b \in Nat /\ k * b \in Nat
    BY <1>2
  <2> QED BY <1>1, <2>1, <2>2
<1> QED BY <1>6, <1>7, <1>8, <1>9

\* t is s after the top of the loop, with n new requests.
Topped(s, t, n, new) ==
  /\ t \in GetType /\ n \in Nat /\ new \in Seq(Wanted) /\ Len(new) = n
  /\ \A j \in 1..n :
       new[j].id = s.id + j - 1 /\ new[j].off = Place(s, j - 1) /\ new[j].len = s.buflen
  /\ t.requests = s.requests \o new /\ t.send = s.send \o new
  /\ t.num_req = s.num_req + n /\ t.offset = Place(s, n) /\ t.id = s.id + n
  /\ t.h = s.h /\ t.highwater = s.highwater
  /\ t.read_error = s.read_error /\ t.write_error = s.write_error
  /\ t.max_req = 0 /\ ~interrupted => s.max_req = 0
  /\ t.max_req = 0 => n = 0
  /\ t.done => t.max_req = 0 /\ s.num_req = 0

LEMMA TopFields ==
  ASSUME NEW s \in GetType, interrupted \in BOOLEAN
  PROVE  \E n, new : Topped(s, DownloadTop(s), n, new)
<1> DEFINE max == IF interrupted THEN 0 ELSE s.max_req
           n == Larger(max - s.num_req, 0)
           new == [j \in 1..n |-> [id |-> s.id + j - 1, len |-> s.buflen,
                                   off |-> s.offset + (j - 1) * s.buflen]]
           rs == s.requests \o new
           se == s.send \o new
           nr == s.num_req + n
           of == s.offset + n * s.buflen
           id == s.id + n
           dn == max = 0 /\ s.num_req = 0
           t == [s EXCEPT !.max_req = max, !.requests = rs, !.send = se,
                          !.num_req = nr, !.offset = of, !.id = id, !.done = dn]
<1>1. DownloadTop(s) = t
  BY DEF DownloadTop
<1>2. /\ s.max_req \in Nat /\ s.num_req \in Nat /\ s.id \in Nat /\ s.offset \in Nat
      /\ s.buflen \in Nat \ {0} /\ s.requests \in Seq(Wanted) /\ s.send \in Seq(Wanted)
  BY DEF GetType
<1>3. max \in Nat /\ n \in Nat /\ (max = 0 => n = 0)
  BY <1>2 DEF Larger
<1>4. max = 0 /\ ~interrupted => s.max_req = 0
  OBVIOUS
<1>5. dn \in BOOLEAN /\ (dn => max = 0 /\ s.num_req = 0)
  OBVIOUS
<1> HIDE DEF max, n, dn
<1>p. \A k \in Nat : Place(s, k) \in Nat
  BY PlaceFacts
<1>6. of = Place(s, n) /\ of \in Nat /\ nr \in Nat /\ id \in Nat
  <2>1. of = Place(s, n)
    BY DEF Place
  <2> HIDE DEF of
  <2>2. of \in Nat
    BY <1>3, <1>p, <2>1
  <2>3. nr \in Nat /\ id \in Nat
    BY <1>2, <1>3
  <2> QED BY <2>1, <2>2, <2>3
<1>7. \A j \in 1..n : Place(s, j - 1) \in Nat /\ s.id + j - 1 \in Nat
  <2>1. \A j \in 1..n : j - 1 \in Nat /\ s.id + j - 1 \in Nat
    BY <1>2, <1>3
  <2> QED BY <1>p, <2>1
<1>8. new \in Seq(Wanted)
  <2>1. \A j \in 1..n : new[j] \in Wanted
    BY <1>2, <1>7 DEF Wanted, Place
  <2> QED BY <1>3, <2>1
<1>9. /\ Len(new) = n
      /\ \A j \in 1..n :
           new[j].id = s.id + j - 1 /\ new[j].off = Place(s, j - 1) /\ new[j].len = s.buflen
  BY <1>3 DEF Place
<1> HIDE DEF new, nr, of, id
<1>10. rs \in Seq(Wanted) /\ se \in Seq(Wanted)
  BY <1>2, <1>8
<1> HIDE DEF rs, se
<1>11. t \in GetType
  BY <1>3, <1>5, <1>6, <1>10 DEF GetType
<1>12. /\ t.requests = rs /\ t.send = se /\ t.num_req = nr /\ t.offset = of /\ t.id = id
       /\ t.max_req = max /\ t.done = dn /\ t.h = s.h /\ t.highwater = s.highwater
       /\ t.read_error = s.read_error /\ t.write_error = s.write_error
  BY DEF GetType
<1> HIDE DEF t
<1>13. Topped(s, t, n, new)
  BY <1>3, <1>4, <1>5, <1>6, <1>8, <1>9, <1>11, <1>12 DEF Topped, rs, se, nr, id
<1> QED BY <1>1, <1>13

LEMMA ReadsFacts ==
  ASSUME NEW h \in Nat, NEW q \in Seq(Wanted)
  PROVE  /\ Reads(h, q) \in Seq(ReadReq) /\ Len(Reads(h, q)) = Len(q)
         /\ DOMAIN Reads(h, q) = DOMAIN q
         /\ \A k \in DOMAIN q : /\ Reads(h, q)[k].id = q[k].id /\ Reads(h, q)[k].h = h
                                /\ Reads(h, q)[k].off = q[k].off /\ Reads(h, q)[k].len = q[k].len
<1>1. DOMAIN q = 1..Len(q) /\ Len(q) \in Nat
  OBVIOUS
<1>2. \A k \in DOMAIN q : Reads(h, q)[k] \in ReadReq
  <2>1. \A k \in DOMAIN q : q[k] \in Wanted
    OBVIOUS
  <2> QED BY <2>1 DEF Reads, Wanted, ReadReq
<1>3. DOMAIN Reads(h, q) = DOMAIN q
  BY DEF Reads
<1>4. Reads(h, q) = [k \in 1..Len(q) |-> Reads(h, q)[k]]
  BY <1>1 DEF Reads
<1>5. Reads(h, q) \in Seq(ReadReq) /\ Len(Reads(h, q)) = Len(q)
  BY <1>1, <1>2, <1>3, <1>4
<1>6. \A k \in DOMAIN q : /\ Reads(h, q)[k].id = q[k].id /\ Reads(h, q)[k].h = h
                          /\ Reads(h, q)[k].off = q[k].off /\ Reads(h, q)[k].len = q[k].len
  BY DEF Reads
<1> QED BY <1>3, <1>5, <1>6

LEMMA ReadsConcat ==
  ASSUME NEW h \in Nat, NEW q \in Seq(Wanted), NEW r \in Seq(Wanted)
  PROVE  Reads(h, q \o r) = Reads(h, q) \o Reads(h, r)
<1> DEFINE a == Reads(h, q)
           b == Reads(h, r)
           c == Reads(h, q \o r)
           E(e) == [type |-> "READ", id |-> e.id, h |-> h, off |-> e.off, len |-> e.len]
<1>1. /\ a \in Seq(ReadReq) /\ Len(a) = Len(q) /\ DOMAIN a = DOMAIN q
      /\ b \in Seq(ReadReq) /\ Len(b) = Len(r) /\ DOMAIN b = DOMAIN r
  BY ReadsFacts
<1>2. /\ q \o r \in Seq(Wanted) /\ Len(q \o r) = Len(q) + Len(r)
      /\ \A k \in DOMAIN q : k \in DOMAIN (q \o r) /\ (q \o r)[k] = q[k]
      /\ \A k \in DOMAIN r : Len(q) + k \in DOMAIN (q \o r) /\ (q \o r)[Len(q) + k] = r[k]
      /\ \A k \in DOMAIN (q \o r) : k \in DOMAIN q \/ \E l \in DOMAIN r : k = Len(q) + l
  BY ConcatFacts
<1>3. c \in Seq(ReadReq) /\ Len(c) = Len(q) + Len(r) /\ DOMAIN c = DOMAIN (q \o r)
  BY <1>2, ReadsFacts
<1>4. /\ \A k \in DOMAIN q : a[k] = E(q[k])
      /\ \A k \in DOMAIN r : b[k] = E(r[k])
      /\ \A k \in DOMAIN (q \o r) : c[k] = E((q \o r)[k])
  BY DEF Reads
<1> HIDE DEF a, b, c, E
<1>5. /\ a \o b \in Seq(ReadReq) /\ Len(a \o b) = Len(a) + Len(b)
      /\ \A k \in DOMAIN a : (a \o b)[k] = a[k]
      /\ \A k \in DOMAIN b : (a \o b)[Len(a) + k] = b[k]
  <2>1. a \in Seq(ReadReq) /\ b \in Seq(ReadReq)
    BY <1>1
  <2> QED BY <2>1, ConcatFacts
<1>6. ASSUME NEW k \in DOMAIN c PROVE c[k] = (a \o b)[k]
  <2>1. CASE k \in DOMAIN q
    BY <2>1, <1>1, <1>2, <1>4, <1>5
  <2>2. CASE k \notin DOMAIN q
    <3>1. PICK l \in DOMAIN r : k = Len(q) + l
      BY <2>2, <1>2, <1>3
    <3>2. c[k] = E(r[l])
      BY <3>1, <1>2, <1>4
    <3>3. (a \o b)[k] = b[l]
      BY <3>1, <1>1, <1>5
    <3> QED BY <3>2, <3>3, <1>4
  <2> QED BY <2>1, <2>2
<1>7. c = a \o b
  <2> DEFINE d == a \o b
  <2>a. d \in Seq(ReadReq) /\ Len(d) = Len(a) + Len(b)
    BY <1>5, Zenon
  <2>1. Len(c) = Len(d) /\ c \in Seq(ReadReq) /\ d \in Seq(ReadReq)
    BY <2>a, <1>1, <1>3, Zenon
  <2>b. \A k \in DOMAIN c : c[k] = d[k]
    BY <1>6, Zenon
  <2> HIDE DEF d
  <2>2. \A k \in 1..Len(c) : c[k] = d[k]
    BY <2>1, <2>b
  <2>3. c = d
    BY <2>1, <2>2, SeqEqual
  <2> QED BY <2>3 DEF d
<1> QED BY <1>7 DEF a, b, c

\* New requests, with new numbers, are queued and sent.
LEMMA AskedSend ==
  ASSUME NEW p \in Seq(Wanted), NEW id \in Nat, NEW h \in Nat, NEW rq, NEW rp \in Seq(Reply),
         Asked(p, id, h, rq, rp), NEW new \in Seq(Wanted),
         \A j \in DOMAIN new : new[j].id = id + j - 1
  PROVE  Asked(p \o new, id + Len(new), h, rq \o Reads(h, new), rp)
<1> DEFINE x == Reads(h, new)
           w == rq \o x
           q == p \o new
           next == id + Len(new)
<1>2. rq \in Seq(ReadReq)
  BY DEF Asked
<1>3. /\ x \in Seq(ReadReq) /\ DOMAIN x = DOMAIN new
      /\ \A k \in DOMAIN new :
           x[k].id = new[k].id /\ x[k].h = h /\ x[k].off = new[k].off /\ x[k].len = new[k].len
  BY ReadsFacts
<1>4. \A j \in DOMAIN new : new[j].id \in Nat /\ id <= new[j].id /\ new[j].id < next
  OBVIOUS
<1>5. Distinct(new)
  <2>1. \A i, j \in DOMAIN new : id + i - 1 = id + j - 1 => i = j
    OBVIOUS
  <2> QED BY <2>1 DEF Distinct
<1>6. next \in Nat /\ id <= next
  OBVIOUS
<1> HIDE DEF x, next
<1>7. /\ w \in Seq(ReadReq)
      /\ \A k \in DOMAIN rq : k \in DOMAIN w /\ w[k] = rq[k]
      /\ \A k \in DOMAIN x : Len(rq) + k \in DOMAIN w /\ w[Len(rq) + k] = x[k]
      /\ \A k \in DOMAIN w : k \in DOMAIN rq \/ \E l \in DOMAIN x : k = Len(rq) + l
  <2>1. x \in Seq(ReadReq)
    BY <1>3
  <2> QED BY <1>2, <2>1, ConcatFacts
<1>8. /\ q \in Seq(Wanted)
      /\ \A k \in DOMAIN p : k \in DOMAIN q /\ q[k] = p[k]
      /\ \A k \in DOMAIN new : Len(p) + k \in DOMAIN q /\ q[Len(p) + k] = new[k]
      /\ \A k \in DOMAIN q : k \in DOMAIN p \/ \E l \in DOMAIN new : k = Len(p) + l
  BY ConcatFacts
<1>11. \A j \in DOMAIN p : p[j].id < id /\ p[j].id \in Nat
  <2>1. \A j \in DOMAIN p : p[j] \in Wanted
    OBVIOUS
  <2> QED BY <2>1 DEF Asked, Wanted
<1>a. Apart(p, new)
  BY <1>4, <1>11 DEF Apart
<1>b. Matched(q, w, rp)
  <2>1. /\ x \in Seq(ReadReq) /\ DOMAIN x = DOMAIN new
        /\ \A k \in DOMAIN new : x[k].id = new[k].id
    BY <1>3
  <2> QED BY <1>2, <2>1, <1>5, <1>a, MatchedSend DEF Asked
<1> HIDE DEF w, q
<1>9. \A i \in DOMAIN q : (\E j \in DOMAIN p : q[i] = p[j]) \/ (\E j \in DOMAIN new : q[i] = new[j])
  <2> SUFFICES ASSUME NEW i \in DOMAIN q, i \notin DOMAIN p
               PROVE  \E j \in DOMAIN new : q[i] = new[j]
    BY <1>8
  <2>1. PICK l \in DOMAIN new : i = Len(p) + l
    BY <1>8
  <2> QED BY <2>1, <1>8
<1>10. \A k \in DOMAIN w : (\E j \in DOMAIN rq : w[k] = rq[j]) \/ (\E j \in DOMAIN x : w[k] = x[j])
  <2> SUFFICES ASSUME NEW i \in DOMAIN w, i \notin DOMAIN rq
               PROVE  \E j \in DOMAIN x : w[i] = x[j]
    BY <1>7
  <2>1. PICK l \in DOMAIN x : i = Len(rq) + l
    BY <1>7
  <2> QED BY <2>1, <1>7
<1>12. \A k \in DOMAIN rq : rq[k].id < id /\ rq[k].id \in Nat
  BY <1>11, Zenon DEF Asked, Matched, Within
<1>13. \A k \in DOMAIN rp : rp[k].id < id /\ rp[k].id \in Nat
  BY <1>11, Zenon DEF Asked, Matched, Within
<1>14. \A i \in DOMAIN q : q[i].id < next
  <2>1. \A j \in DOMAIN p : p[j].id < next
    BY <1>6, <1>11
  <2> QED BY <2>1, <1>4, <1>9, Zenon
<1>15. ASSUME NEW k \in DOMAIN w, NEW i \in DOMAIN q, q[i].id = w[k].id
       PROVE  w[k].off = q[i].off /\ w[k].len = q[i].len
  <2>1. CASE \E j \in DOMAIN rq : w[k] = rq[j]
    <3>1. PICK j \in DOMAIN rq : w[k] = rq[j]
      BY <2>1
    <3>2. \A l \in DOMAIN new : rq[j].id # new[l].id
      BY <1>4, <1>12
    <3>3. PICK l \in DOMAIN p : q[i] = p[l]
      BY <3>1, <3>2, <1>9, <1>15, Zenon
    <3>4. p[l].id = rq[j].id
      BY <3>1, <3>3, <1>15, Zenon
    <3>5. rq[j].off = p[l].off /\ rq[j].len = p[l].len
      BY <3>4, Zenon DEF Asked
    <3> QED BY <3>1, <3>3, <3>5, Zenon
  <2>2. CASE \E j \in DOMAIN x : w[k] = x[j]
    <3>1. PICK j \in DOMAIN new : w[k] = x[j]
      BY <2>2, <1>3
    <3>2. \A l \in DOMAIN p : p[l].id # new[j].id
      BY <1>4, <1>11
    <3>3. q[i].id = new[j].id
      BY <3>1, <1>3, <1>15, Zenon
    <3>4. PICK l \in DOMAIN new : q[i] = new[l]
      BY <3>2, <3>3, <1>9, Zenon
    <3>5. l = j
      BY <3>3, <3>4, <1>5, Zenon DEF Distinct
    <3> QED BY <3>1, <3>4, <3>5, <1>3, Zenon
  <2> QED BY <2>1, <2>2, <1>10
<1>16. \A k \in DOMAIN w : w[k].h = h
  <2>1. \A j \in DOMAIN x : x[j].h = h
    BY <1>3
  <2>2. \A j \in DOMAIN rq : rq[j].h = h
    BY DEF Asked
  <2> QED BY <2>1, <2>2, <1>10, Zenon
<1>17. ASSUME NEW k \in DOMAIN rp, NEW i \in DOMAIN q, q[i].id = rp[k].id
       PROVE  Fits(q[i], rp[k])
  <2>1. \A l \in DOMAIN new : rp[k].id # new[l].id
    BY <1>4, <1>13
  <2>2. PICK l \in DOMAIN p : q[i] = p[l]
    BY <2>1, <1>9, <1>17, Zenon
  <2> QED BY <2>2, <1>17, Zenon DEF Asked
<1>18. Asked(q, next, h, w, rp)
  BY <1>b, <1>7, <1>14, <1>15, <1>16, <1>17, Zenon DEF Asked
<1> QED BY <1>18 DEF w, x, q, next

\* The new requests lie past all others and touch one another.
LEMMA RangesSend ==
  ASSUME NEW s \in GetType, NEW t, NEW n, NEW new, Topped(s, t, n, new),
         Ranges(s.requests, s.highwater, s.offset)
  PROVE  Ranges(t.requests, t.highwater, t.offset)
<1> DEFINE p == s.requests
           q == t.requests
<1>1. /\ p \in Seq(Wanted) /\ new \in Seq(Wanted) /\ q = p \o new /\ Len(new) = n /\ n \in Nat
      /\ s.offset \in Nat /\ s.buflen \in Nat \ {0} /\ s.highwater \in Nat
      /\ t.highwater = s.highwater /\ t.offset = Place(s, n)
      /\ \A j \in 1..n : new[j].off = Place(s, j - 1) /\ new[j].len = s.buflen
  BY DEF GetType, Topped
<1>2. \A k \in DOMAIN q : \/ k \in DOMAIN p /\ q[k] = p[k]
                          \/ \E j \in DOMAIN new : k = Len(p) + j /\ q[k] = new[j]
  <2> HIDE DEF p, q
  <2>1. p \in Seq(Wanted) /\ new \in Seq(Wanted) /\ q = p \o new
    BY <1>1
  <2>2. /\ \A k \in DOMAIN p : (p \o new)[k] = p[k]
        /\ \A k \in DOMAIN new : (p \o new)[Len(p) + k] = new[k]
        /\ \A k \in DOMAIN (p \o new) : k \in DOMAIN p \/ \E l \in DOMAIN new : k = Len(p) + l
    BY <2>1, ConcatFacts
  <2> QED BY <2>1, <2>2, Zenon
<1>3. DOMAIN new = 1..n /\ \A j \in 1..n : j - 1 \in Nat /\ j \in Nat
  BY <1>1
<1>4. \A j \in 1..n : /\ s.offset <= new[j].off /\ EndOf(new[j]) = Place(s, j)
                      /\ EndOf(new[j]) \in Nat /\ new[j].off \in Nat
  <2> SUFFICES ASSUME NEW j \in 1..n
               PROVE  /\ s.offset <= new[j].off /\ EndOf(new[j]) = Place(s, j)
                      /\ EndOf(new[j]) \in Nat /\ new[j].off \in Nat
    OBVIOUS
  <2>1. Place(s, (j - 1) + 1) = Place(s, j - 1) + s.buflen /\ (j - 1) + 1 = j
    <3>1. j - 1 \in Nat
      BY <1>3
    <3>2. Place(s, (j - 1) + 1) = Place(s, j - 1) + s.buflen
      BY <3>1, PlaceFacts, Zenon
    <3>3. (j - 1) + 1 = j
      BY <1>1
    <3> QED BY <3>2, <3>3
  <2>2. Place(s, j - 1) \in Nat /\ s.offset <= Place(s, j - 1) /\ Place(s, j) \in Nat
    BY <1>3, PlaceFacts
  <2> QED BY <2>1, <2>2, <1>1 DEF EndOf
<1>5. \A j, k \in 1..n : j < k => EndOf(new[j]) <= new[k].off
  <2> SUFFICES ASSUME NEW j \in 1..n, NEW k \in 1..n, j < k PROVE EndOf(new[j]) <= new[k].off
    OBVIOUS
  <2>1. EndOf(new[j]) = Place(s, j - 1) + s.buflen /\ new[k].off = Place(s, k - 1)
    BY <1>1 DEF EndOf
  <2>2. j - 1 \in Nat /\ k - 1 \in Nat /\ j - 1 < k - 1
    BY <1>1
  <2> QED BY <2>1, <2>2, PlaceFacts
<1>6. \A j \in 1..n : EndOf(new[j]) <= t.offset
  <2> SUFFICES ASSUME NEW j \in 1..n PROVE EndOf(new[j]) <= t.offset
    OBVIOUS
  <2>1. CASE j = n
    BY <2>1, <1>1, <1>4
  <2>2. CASE j < n
    <3>1. Place(s, j) + s.buflen <= Place(s, n) /\ Place(s, j) \in Nat /\ Place(s, n) \in Nat
      BY <2>2, <1>1, <1>3, PlaceFacts
    <3> QED BY <3>1, <1>1, <1>4
  <2> QED BY <2>1, <2>2, <1>1
<1>7. s.offset <= t.offset /\ t.offset \in Nat
  BY <1>1, PlaceFacts
<1>8. \A i \in DOMAIN p : /\ p[i].off \in Nat /\ EndOf(p[i]) \in Nat
                          /\ s.highwater <= p[i].off /\ EndOf(p[i]) <= s.offset
  <2>1. \A i \in DOMAIN p : p[i] \in Wanted
    BY <1>1
  <2> QED BY <2>1 DEF Wanted, EndOf, Ranges
<1> DEFINE hw == s.highwater
<1> HIDE DEF p, q
<1>9. hw <= t.offset
  BY <1>1, <1>7 DEF Ranges
<1>10. \A i \in DOMAIN q : hw <= q[i].off /\ EndOf(q[i]) <= t.offset
  <2>1. \A i \in DOMAIN p : hw <= p[i].off /\ EndOf(p[i]) <= t.offset
    BY <1>1, <1>7, <1>8
  <2>2. \A j \in DOMAIN new : hw <= new[j].off /\ EndOf(new[j]) <= t.offset
    BY <1>1, <1>3, <1>4, <1>6 DEF Ranges
  <2> QED BY <2>1, <2>2, <1>2, Zenon
<1>11. ASSUME NEW i \in DOMAIN q, NEW j \in DOMAIN q, i # j
       PROVE  EndOf(q[i]) <= q[j].off \/ EndOf(q[j]) <= q[i].off
  <2>1. \A k, l \in DOMAIN p : k # l => EndOf(p[k]) <= p[l].off \/ EndOf(p[l]) <= p[k].off
    BY DEF Ranges, p
  <2>2. \A k \in DOMAIN p, l \in DOMAIN new : EndOf(p[k]) <= new[l].off
    BY <1>1, <1>3, <1>4, <1>8
  <2>3. \A k, l \in DOMAIN new : k # l => EndOf(new[k]) <= new[l].off \/ EndOf(new[l]) <= new[k].off
    BY <1>3, <1>5
  <2> QED BY <2>1, <2>2, <2>3, <1>2, <1>11, Zenon
<1>12. Ranges(q, hw, t.offset)
  BY <1>9, <1>10, <1>11 DEF Ranges
<1> QED BY <1>12, <1>1 DEF q

\* Every block up to the new offset is in the file or asked for.
LEMMA CoveredSend ==
  ASSUME NEW s \in GetType, NEW t, NEW n, NEW new, Topped(s, t, n, new), NEW f,
         Covered(s, f, interrupted)
  PROVE  Covered(t, f, interrupted)
<1> DEFINE p == s.requests
           q == t.requests
<1>1. /\ p \in Seq(Wanted) /\ new \in Seq(Wanted) /\ q = p \o new /\ Len(new) = n /\ n \in Nat
      /\ s.offset \in Nat /\ s.buflen \in Nat \ {0} /\ t.offset = Place(s, n)
      /\ \A j \in 1..n : new[j].off = Place(s, j - 1) /\ new[j].len = s.buflen
      /\ t.read_error = s.read_error /\ t.write_error = s.write_error
      /\ t.max_req = 0 /\ ~interrupted => s.max_req = 0
  BY DEF GetType, Topped
<1>2. /\ \A k \in DOMAIN p : k \in DOMAIN q /\ q[k] = p[k]
      /\ \A k \in DOMAIN new : Len(p) + k \in DOMAIN q /\ q[Len(p) + k] = new[k]
  <2> HIDE DEF p, q
  <2>1. p \in Seq(Wanted) /\ new \in Seq(Wanted) /\ q = p \o new
    BY <1>1
  <2>2. /\ \A k \in DOMAIN p : k \in DOMAIN (p \o new) /\ (p \o new)[k] = p[k]
        /\ \A k \in DOMAIN new : Len(p) + k \in DOMAIN (p \o new) /\ (p \o new)[Len(p) + k] = new[k]
    BY <2>1, ConcatFacts
  <2> QED BY <2>1, <2>2, Zenon
<1>3. \A i : Coming(p, i) => Coming(q, i)
  BY <1>2 DEF Coming
<1>4. ASSUME NEW i \in 1..Size, s.offset < i, i <= t.offset PROVE Coming(q, i)
  <2> DEFINE T == {k \in Nat : i <= Place(s, k)}
  <2>1. n \in T
    BY <1>1, <1>4
  <2>2. PICK m \in T : \A k \in T : m <= k
    <3>1. T \subseteq Nat /\ T # {}
      BY <2>1
    <3> QED BY <3>1, LeastElement
  <2>3. m \in Nat /\ i <= Place(s, m) /\ m <= n /\ i \in Int
    BY <2>1, <2>2, SftpAssumption
  <2>4. m # 0
    <3>1. Place(s, 0) = s.offset
      BY PlaceFacts
    <3> QED BY <3>1, <2>3, <1>1, <1>4
  <2>5. m - 1 \in Nat /\ m \in 1..n /\ m - 1 \notin T
    BY <2>2, <2>3, <2>4, <1>1
  <2>6. Place(s, m - 1) \in Nat /\ Place(s, (m - 1) + 1) = Place(s, m - 1) + s.buflen
    BY <2>5, PlaceFacts
  <2>7. Place(s, m - 1) < i
    BY <2>3, <2>5, <2>6
  <2>8. new[m].off = Place(s, m - 1) /\ EndOf(new[m]) = Place(s, m)
    <3>1. (m - 1) + 1 = m
      BY <2>3
    <3>2. new[m].off = Place(s, m - 1) /\ new[m].len = s.buflen
      BY <1>1, <2>5
    <3> QED BY <3>1, <3>2, <2>6 DEF EndOf
  <2>9. m \in DOMAIN new
    BY <1>1, <2>5
  <2>10. Len(p) + m \in DOMAIN q /\ q[Len(p) + m] = new[m]
    BY <1>2, <2>9
  <2> QED BY <2>3, <2>7, <2>8, <2>10, Zenon DEF Coming
<1>5. s.offset <= t.offset /\ t.offset \in Nat
  BY <1>1, PlaceFacts
<1> HIDE DEF p, q
<1>6. SUFFICES ASSUME ~s.read_error, ~s.write_error
               PROVE  /\ \A i \in 1..Size : i <= t.offset => There(f, i) \/ Coming(q, i)
                      /\ t.max_req = 0 /\ ~interrupted => Size <= t.offset
  BY <1>1 DEF Covered, q
<1>7. \A i \in 1..Size : i <= s.offset => There(f, i) \/ Coming(p, i)
  BY <1>6 DEF Covered, p
<1>8. \A i \in 1..Size : i <= t.offset => There(f, i) \/ Coming(q, i)
  <2>1. \A i \in 1..Size : i <= s.offset \/ s.offset < i
    BY <1>1, SftpAssumption
  <2> QED BY <2>1, <1>3, <1>4, <1>7, Zenon
<1>9. t.max_req = 0 /\ ~interrupted => Size <= t.offset
  <2>1. t.max_req = 0 /\ ~interrupted => Size <= s.offset
    BY <1>1, <1>6 DEF Covered
  <2> QED BY <2>1, <1>1, <1>5, SftpAssumption
<1> QED BY <1>8, <1>9

\* The turn before its requests are sent.
Sending(s, f, rq, rp, d) ==
  /\ rq \in Seq(ReadReq) /\ rp \in Seq(Reply) /\ interrupted \in BOOLEAN
  /\ Loop(s, f, rq \o Reads(s.h, s.send), rp, d, interrupted)

\* The loop ends with nothing under way.
Emptied(t) == t.done => t.requests = <<>> /\ t.max_req = 0

\* The loop's condition and the requests it sends.
LEMMA TopKeeps ==
  ASSUME NEW s, NEW f, NEW rq, NEW rp, NEW d, NEW t,
         Sending(s, f, rq, rp, d), t = DownloadTop(s)
  PROVE  Sending(t, f, rq, rp, d) /\ t.h = s.h /\ Emptied(t)
<1>0. /\ rq \in Seq(ReadReq) /\ rp \in Seq(Reply) /\ interrupted \in BOOLEAN
      /\ Loop(s, f, rq \o Reads(s.h, s.send), rp, d, interrupted)
  BY DEF Sending
<1>1. s \in GetType /\ s.num_req = Len(s.requests)
  BY <1>0 DEF Loop
<1>2. PICK n, new : Topped(s, t, n, new)
  BY <1>0, <1>1, TopFields
<1>3. /\ s.requests \in Seq(Wanted) /\ s.send \in Seq(Wanted) /\ new \in Seq(Wanted)
      /\ s.id \in Nat /\ s.h \in Nat /\ n \in Nat /\ Len(new) = n
      /\ t \in GetType /\ t.requests = s.requests \o new /\ t.send = s.send \o new
      /\ t.id = s.id + n /\ t.h = s.h /\ t.num_req = s.num_req + n
      /\ t.highwater = s.highwater /\ t.write_error = s.write_error
  BY <1>1, <1>2 DEF Topped, GetType
<1>4. \A j \in DOMAIN new : new[j].id = s.id + j - 1
  BY <1>2, <1>3 DEF Topped
<1>5. rq \o Reads(t.h, t.send) = (rq \o Reads(s.h, s.send)) \o Reads(s.h, new)
  <2>1. Reads(s.h, s.send \o new) = Reads(s.h, s.send) \o Reads(s.h, new)
    BY <1>3, ReadsConcat
  <2>2. Reads(s.h, s.send) \in Seq(ReadReq) /\ Reads(s.h, new) \in Seq(ReadReq)
    BY <1>3, ReadsFacts
  <2>3. (rq \o Reads(s.h, s.send)) \o Reads(s.h, new) = rq \o (Reads(s.h, s.send) \o Reads(s.h, new))
    <3>1. rq \in Seq(ReadReq)
      BY <1>0
    <3> QED BY <3>1, <2>2, ConcatAssociative
  <2> QED BY <2>1, <2>3, <1>3
<1>6. Asked(t.requests, t.id, t.h, rq \o Reads(t.h, t.send), rp)
  <2>1. Asked(s.requests, s.id, s.h, rq \o Reads(s.h, s.send), rp)
    BY <1>0 DEF Loop
  <2>2. Asked(s.requests \o new, s.id + Len(new), s.h,
              (rq \o Reads(s.h, s.send)) \o Reads(s.h, new), rp)
    BY <2>1, <1>0, <1>3, <1>4, AskedSend
  <2> QED BY <2>2, <1>3, <1>5, Zenon
<1>7. Ranges(t.requests, t.highwater, t.offset)
  BY <1>0, <1>1, <1>2, RangesSend DEF Loop
<1>8. d <= 1 => Covered(t, f, interrupted) /\ Contiguous(t, f)
  BY <1>0, <1>1, <1>2, <1>3, CoveredSend DEF Loop, Contiguous
<1>9. t.num_req = Len(t.requests)
  <2>1. Len(s.requests \o new) = Len(s.requests) + Len(new)
    <3>1. s.requests \in Seq(Wanted) /\ new \in Seq(Wanted)
      BY <1>3
    <3> QED BY <3>1, ConcatFacts
  <2> QED BY <2>1, <1>1, <1>3, Zenon
<1>10. Emptied(t)
  <2>1. t.done => s.num_req = 0 /\ n = 0 /\ t.max_req = 0
    BY <1>2 DEF Topped
  <2> QED BY <2>1, <1>1, <1>3 DEF Emptied
<1>11. Loop(t, f, rq \o Reads(t.h, t.send), rp, d, interrupted)
  BY <1>0, <1>3, <1>6, <1>7, <1>8, <1>9 DEF Loop
<1> QED BY <1>0, <1>3, <1>10, <1>11 DEF Sending

-----------------------------------------------------------------------------
(* do_download: an answer.                                                 *)

\* The answer to entry i is taken and the entry removed.
LEMMA AskedReceive ==
  ASSUME NEW p \in Seq(Wanted), NEW id \in Nat, NEW h, NEW rq, NEW rp \in Seq(Reply),
         Asked(p, id, h, rq, rp), NEW a \in DOMAIN rp, NEW i \in DOMAIN p, p[i].id = rp[a].id
  PROVE  Asked(RemoveAt(p, i), id, h, rq, RemoveAt(rp, a))
<1> DEFINE q == RemoveAt(p, i)
           r == RemoveAt(rp, a)
<1>1. \A k \in DOMAIN q : \E j \in DOMAIN p : q[k] = p[j]
  BY RemoveAtFacts
<1>2. \A k \in DOMAIN r : \E j \in DOMAIN rp : r[k] = rp[j]
  BY RemoveAtFacts
<1>3. Matched(q, rq, r)
  BY MatchedReceive DEF Asked
<1> HIDE DEF q, r
<1>4. \A k \in DOMAIN q : q[k].id < id
  BY <1>1, Zenon DEF Asked
<1>5. \A k \in DOMAIN rq : \A j \in DOMAIN q :
        q[j].id = rq[k].id => rq[k].off = q[j].off /\ rq[k].len = q[j].len
  <2>1. \A k \in DOMAIN rq : \A j \in DOMAIN p :
          p[j].id = rq[k].id => rq[k].off = p[j].off /\ rq[k].len = p[j].len
    BY DEF Asked
  <2> SUFFICES ASSUME NEW k \in DOMAIN rq, NEW j \in DOMAIN q, q[j].id = rq[k].id
               PROVE  rq[k].off = q[j].off /\ rq[k].len = q[j].len
    OBVIOUS
  <2>2. PICK m \in DOMAIN p : q[j] = p[m]
    BY <1>1
  <2> QED BY <2>1, <2>2
<1>6. \A k \in DOMAIN r : \A j \in DOMAIN q : q[j].id = r[k].id => Fits(q[j], r[k])
  BY <1>1, <1>2, Zenon DEF Asked
<1>7. Asked(q, id, h, rq, r)
  BY <1>3, <1>4, <1>5, <1>6, Zenon DEF Asked
<1> QED BY <1>7 DEF q, r

\* The answer to entry i is taken and the rest asked for, as e.
LEMMA AskedAgain ==
  ASSUME NEW p \in Seq(Wanted), NEW id \in Nat, NEW h \in Nat, NEW rq, NEW rp \in Seq(Reply),
         Asked(p, id, h, rq, rp), NEW a \in DOMAIN rp, NEW i \in DOMAIN p, p[i].id = rp[a].id,
         NEW e \in Wanted, e.id = id
  PROVE  Asked(ReplaceAt(p, i, e), id + 1, h, rq \o Reads(h, <<e>>), RemoveAt(rp, a))
<1> DEFINE q == ReplaceAt(p, i, e)
           r == RemoveAt(rp, a)
           x == [type |-> "READ", id |-> e.id, h |-> h, off |-> e.off, len |-> e.len]
           w == rq \o <<x>>
<1>1. Reads(h, <<e>>) = <<x>>
  BY DEF Reads
<1>2. x \in ReadReq /\ x.id = id /\ x.off = e.off /\ x.len = e.len /\ x.h = h
  BY DEF Wanted, ReadReq
<1>3. rq \in Seq(ReadReq)
  BY DEF Asked
<1> HIDE DEF x
<1>4. \A j \in DOMAIN p : p[j].id < id /\ p[j].id \in Nat
  <2>1. \A j \in DOMAIN p : p[j] \in Wanted
    OBVIOUS
  <2> QED BY <2>1 DEF Asked, Wanted
<1>5. \A j \in DOMAIN p : p[j].id # e.id
  BY <1>4
<1>6. Matched(q, w, r)
  BY <1>2, <1>3, <1>5, MatchedAgain DEF Asked
<1>7. \A k \in DOMAIN r : \E j \in DOMAIN rp : r[k] = rp[j]
  BY RemoveAtFacts
<1>8. DOMAIN q = DOMAIN p /\ q[i] = e /\ \A j \in DOMAIN p : j # i => q[j] = p[j]
  BY DEF ReplaceAt
<1>9. \A k \in DOMAIN q : q[k] = e \/ \E j \in DOMAIN p : q[k] = p[j]
  BY <1>8
<1>10. w \in Seq(ReadReq) /\ \A k \in DOMAIN w : w[k] = x \/ \E j \in DOMAIN rq : w[k] = rq[j]
  <2>1. <<x>> \in Seq(ReadReq) /\ DOMAIN <<x>> = {1} /\ <<x>>[1] = x
    BY <1>2
  <2>2. /\ w \in Seq(ReadReq)
        /\ \A k \in DOMAIN rq : w[k] = rq[k]
        /\ \A k \in DOMAIN <<x>> : w[Len(rq) + k] = <<x>>[k]
        /\ \A k \in DOMAIN w : k \in DOMAIN rq \/ \E l \in DOMAIN <<x>> : k = Len(rq) + l
    BY <2>1, <1>3, ConcatFacts
  <2> QED BY <2>1, <2>2, Zenon
<1> HIDE DEF q, r, w
<1>11. \A k \in DOMAIN q : q[k].id < id + 1
  <2>1. e.id < id + 1 /\ \A j \in DOMAIN p : p[j].id < id + 1
    BY <1>4
  <2> QED BY <2>1, <1>9, Zenon
<1>12. \A k \in DOMAIN rq : rq[k].id # id
  <2>1. \A j \in DOMAIN p : p[j].id # id
    BY <1>5
  <2> QED BY <2>1, Zenon DEF Asked, Matched, Within
<1>13. \A k \in DOMAIN rp : rp[k].id # id
  <2>1. \A j \in DOMAIN p : p[j].id # id
    BY <1>5
  <2> QED BY <2>1, Zenon DEF Asked, Matched, Within
<1>14. \A k \in DOMAIN w : \A j \in DOMAIN q :
         q[j].id = w[k].id => w[k].off = q[j].off /\ w[k].len = q[j].len
  <2> SUFFICES ASSUME NEW k \in DOMAIN w, NEW j \in DOMAIN q, q[j].id = w[k].id
               PROVE  w[k].off = q[j].off /\ w[k].len = q[j].len
    OBVIOUS
  <2>1. CASE w[k] = x
    <3>1. q[j] = e
      BY <2>1, <1>2, <1>5, <1>9, Zenon
    <3> QED BY <2>1, <3>1, <1>2, Zenon
  <2>2. CASE \E l \in DOMAIN rq : w[k] = rq[l]
    <3>1. PICK l \in DOMAIN rq : w[k] = rq[l]
      BY <2>2
    <3>2. PICK m \in DOMAIN p : q[j] = p[m]
      BY <3>1, <1>9, <1>12, Zenon
    <3> QED BY <3>1, <3>2, Zenon DEF Asked
  <2> QED BY <2>1, <2>2, <1>10
<1>15. \A k \in DOMAIN w : w[k].h = h
  BY <1>2, <1>10, Zenon DEF Asked
<1>16. \A k \in DOMAIN r : \A j \in DOMAIN q : q[j].id = r[k].id => Fits(q[j], r[k])
  <2> SUFFICES ASSUME NEW k \in DOMAIN r, NEW j \in DOMAIN q, q[j].id = r[k].id
               PROVE  Fits(q[j], r[k])
    OBVIOUS
  <2>1. PICK l \in DOMAIN rp : r[k] = rp[l]
    BY <1>7
  <2>2. PICK m \in DOMAIN p : q[j] = p[m]
    BY <2>1, <1>9, <1>13, Zenon
  <2> QED BY <2>1, <2>2, Zenon DEF Asked
<1>17. Asked(q, id + 1, h, w, r)
  BY <1>6, <1>10, <1>11, <1>14, <1>15, <1>16, Zenon DEF Asked
<1> QED BY <1>17, <1>1 DEF q, r, w

\* q is p with len blocks of entry i taken off, all of them or the first.
Narrowed(p, i, len, q) ==
  \/ len = p[i].len /\ q = RemoveAt(p, i)
  \/ \E e \in Wanted : /\ e.off = p[i].off + len /\ e.len = p[i].len - len
                       /\ q = ReplaceAt(p, i, e)

LEMMA NarrowedFacts ==
  ASSUME NEW p \in Seq(Wanted), NEW i \in DOMAIN p, NEW len \in 1..p[i].len, NEW q,
         Narrowed(p, i, len, q)
  PROVE  /\ \A k \in DOMAIN q : \E j \in DOMAIN p :
              /\ q[k].off \in Nat /\ EndOf(q[k]) = EndOf(p[j])
              /\ q[k].off = IF j = i THEN p[i].off + len ELSE p[j].off
         /\ \A k, l \in DOMAIN q : k # l => \E j, m \in DOMAIN p :
              /\ j # m /\ EndOf(q[k]) = EndOf(p[j]) /\ EndOf(q[l]) = EndOf(p[m])
              /\ q[k].off >= p[j].off /\ q[l].off >= p[m].off
         /\ \A b \in Nat : Coming(p, b) =>
              Coming(q, b) \/ (p[i].off < b /\ b <= p[i].off + len)
<1>1. \A j \in DOMAIN p : /\ p[j] \in Wanted /\ p[j].off \in Nat /\ p[j].len \in Nat \ {0}
                          /\ EndOf(p[j]) \in Nat
  <2>1. \A j \in DOMAIN p : p[j] \in Wanted
    OBVIOUS
  <2> QED BY <2>1 DEF Wanted, EndOf
<1>2. CASE len = p[i].len /\ q = RemoveAt(p, i)
  <2>1. /\ \A k \in DOMAIN q : Shift(k, i) \in DOMAIN p /\ Shift(k, i) # i /\ q[k] = p[Shift(k, i)]
        /\ \A k, l \in DOMAIN q : Shift(k, i) = Shift(l, i) => k = l
        /\ \A l \in DOMAIN p \ {i} : \E k \in DOMAIN q : l = Shift(k, i)
    BY <1>2, RemoveAtFacts
  <2>2. \A k \in DOMAIN q : \E j \in DOMAIN p :
          /\ q[k].off \in Nat /\ EndOf(q[k]) = EndOf(p[j])
          /\ q[k].off = IF j = i THEN p[i].off + len ELSE p[j].off
    BY <2>1, <1>1
  <2>3. ASSUME NEW k \in DOMAIN q, NEW l \in DOMAIN q, k # l
        PROVE  \E j, m \in DOMAIN p :
                 /\ j # m /\ EndOf(q[k]) = EndOf(p[j]) /\ EndOf(q[l]) = EndOf(p[m])
                 /\ q[k].off >= p[j].off /\ q[l].off >= p[m].off
    <3>1. /\ Shift(k, i) \in DOMAIN p /\ q[k] = p[Shift(k, i)]
          /\ Shift(l, i) \in DOMAIN p /\ q[l] = p[Shift(l, i)] /\ Shift(k, i) # Shift(l, i)
      BY <2>1, <2>3
    <3>2. q[k].off >= p[Shift(k, i)].off /\ q[l].off >= p[Shift(l, i)].off
      BY <3>1, <1>1
    <3> QED BY <3>1, <3>2
  <2>4. ASSUME NEW b \in Nat, Coming(p, b)
        PROVE  Coming(q, b) \/ (p[i].off < b /\ b <= p[i].off + len)
    <3>1. PICK j \in DOMAIN p : p[j].off < b /\ b <= EndOf(p[j])
      BY <2>4 DEF Coming
    <3>2. CASE j = i
      BY <3>1, <3>2, <1>2 DEF EndOf
    <3>3. CASE j # i
      <4>1. PICK k \in DOMAIN q : j = Shift(k, i)
        BY <3>3, <2>1
      <4> QED BY <4>1, <3>1, <2>1 DEF Coming
    <3> QED BY <3>2, <3>3
  <2> QED BY <2>2, <2>3, <2>4
<1>3. ASSUME NEW e \in Wanted, e.off = p[i].off + len, e.len = p[i].len - len,
             q = ReplaceAt(p, i, e)
      PROVE  /\ \A k \in DOMAIN q : \E j \in DOMAIN p :
                  /\ q[k].off \in Nat /\ EndOf(q[k]) = EndOf(p[j])
                  /\ q[k].off = IF j = i THEN p[i].off + len ELSE p[j].off
             /\ \A k, l \in DOMAIN q : k # l => \E j, m \in DOMAIN p :
                  /\ j # m /\ EndOf(q[k]) = EndOf(p[j]) /\ EndOf(q[l]) = EndOf(p[m])
                  /\ q[k].off >= p[j].off /\ q[l].off >= p[m].off
             /\ \A b \in Nat : Coming(p, b) =>
                  Coming(q, b) \/ (p[i].off < b /\ b <= p[i].off + len)
  <2>1. DOMAIN q = DOMAIN p /\ q[i] = e /\ \A j \in DOMAIN p : j # i => q[j] = p[j]
    BY <1>3 DEF ReplaceAt
  <2>2. EndOf(e) = EndOf(p[i]) /\ e.off \in Nat /\ e.off >= p[i].off
    <3>1. p[i].off \in Nat /\ p[i].len \in Nat /\ len \in Nat
      BY <1>1
    <3>2. (p[i].off + len) + (p[i].len - len) = p[i].off + p[i].len
      BY <3>1
    <3> QED BY <3>1, <3>2, <1>3 DEF EndOf
  <2>3. \A k \in DOMAIN q :
          /\ q[k].off \in Nat /\ EndOf(q[k]) = EndOf(p[k]) /\ q[k].off >= p[k].off
          /\ q[k].off = IF k = i THEN p[i].off + len ELSE p[k].off
    BY <2>1, <2>2, <1>1, <1>3
  <2>4. ASSUME NEW b \in Nat, Coming(p, b)
        PROVE  Coming(q, b) \/ (p[i].off < b /\ b <= p[i].off + len)
    <3>1. PICK j \in DOMAIN p : p[j].off < b /\ b <= EndOf(p[j])
      BY <2>4 DEF Coming
    <3>2. CASE j = i
      <4>1. b <= e.off \/ e.off < b
        BY <2>2
      <4> QED BY <4>1, <3>1, <3>2, <2>1, <2>2, <1>3 DEF Coming
    <3>3. CASE j # i
      BY <3>1, <3>3, <2>1 DEF Coming
    <3> QED BY <3>2, <3>3
  <2> QED BY <2>1, <2>3, <2>4
<1> QED BY <1>2, <1>3 DEF Narrowed

\* The highest contiguous point moves past what entry i has received, if that
\* is where it stood.
LEMMA RangesNarrow ==
  ASSUME NEW p \in Seq(Wanted), NEW i \in DOMAIN p, NEW len \in 1..p[i].len, NEW q,
         Narrowed(p, i, len, q), NEW hw \in Nat, NEW new \in Nat, NEW offset \in Nat,
         Ranges(p, hw, offset), new = hw \/ (p[i].off = hw /\ new = hw + len)
  PROVE  Ranges(q, new, offset)
<1>1. \A j \in DOMAIN p : /\ p[j].off \in Nat /\ p[j].len \in Nat \ {0} /\ EndOf(p[j]) \in Nat
                          /\ p[j].off < EndOf(p[j])
  <2> SUFFICES ASSUME NEW j \in DOMAIN p
               PROVE  /\ p[j].off \in Nat /\ p[j].len \in Nat \ {0} /\ EndOf(p[j]) \in Nat
                      /\ p[j].off < EndOf(p[j])
    OBVIOUS
  <2>1. p[j] \in Wanted
    OBVIOUS
  <2>2. p[j].off \in Nat /\ p[j].len \in Nat \ {0}
    BY <2>1 DEF Wanted
  <2> QED BY <2>2 DEF EndOf
<1>2. \A j \in DOMAIN p : /\ hw <= p[j].off /\ EndOf(p[j]) <= offset
                          /\ (j # i => new <= p[j].off) /\ new <= p[i].off + len
  <2> SUFFICES ASSUME NEW j \in DOMAIN p
               PROVE  /\ hw <= p[j].off /\ EndOf(p[j]) <= offset
                      /\ (j # i => new <= p[j].off) /\ new <= p[i].off + len
    OBVIOUS
  <2>1. hw <= p[j].off /\ EndOf(p[j]) <= offset /\ hw <= p[i].off
    BY DEF Ranges
  <2>2. new <= p[i].off + len
    BY <2>1, <1>1
  <2>3. ASSUME j # i PROVE new <= p[j].off
    <3>1. EndOf(p[i]) <= p[j].off \/ EndOf(p[j]) <= p[i].off
      BY <2>3 DEF Ranges
    <3>2. p[i].off + len <= EndOf(p[i])
      BY <1>1 DEF EndOf
    <3> QED BY <3>1, <3>2, <2>1, <1>1
  <2> QED BY <2>1, <2>2, <2>3
<1>3. new <= offset
  BY <1>1, <1>2 DEF EndOf
<1>4. \A k \in DOMAIN q : new <= q[k].off /\ EndOf(q[k]) <= offset
  <2> SUFFICES ASSUME NEW k \in DOMAIN q PROVE new <= q[k].off /\ EndOf(q[k]) <= offset
    OBVIOUS
  <2>1. PICK j \in DOMAIN p : /\ q[k].off \in Nat /\ EndOf(q[k]) = EndOf(p[j])
                              /\ q[k].off = IF j = i THEN p[i].off + len ELSE p[j].off
    BY NarrowedFacts
  <2> QED BY <2>1, <1>2
<1>5. \A k, l \in DOMAIN q : k # l => EndOf(q[k]) <= q[l].off \/ EndOf(q[l]) <= q[k].off
  <2> SUFFICES ASSUME NEW k \in DOMAIN q, NEW l \in DOMAIN q, k # l
               PROVE  EndOf(q[k]) <= q[l].off \/ EndOf(q[l]) <= q[k].off
    OBVIOUS
  <2>1. PICK j, m \in DOMAIN p :
               /\ j # m /\ EndOf(q[k]) = EndOf(p[j]) /\ EndOf(q[l]) = EndOf(p[m])
               /\ q[k].off >= p[j].off /\ q[l].off >= p[m].off
    BY NarrowedFacts
  <2>2. q[k].off \in Nat /\ q[l].off \in Nat
    BY NarrowedFacts
  <2>3. EndOf(p[j]) <= p[m].off \/ EndOf(p[m]) <= p[j].off
    BY <2>1 DEF Ranges
  <2> QED BY <2>1, <2>2, <2>3, <1>1
<1> QED BY <1>3, <1>4, <1>5 DEF Ranges

\* lseek() and write() of blocks of the source.
LEMMA WriteAtFacts ==
  ASSUME NEW f \in Seq(Nat), Len(f) <= Size, NEW off \in Nat, NEW data \in Seq(Nat),
         off + Len(data) <= Size, \A k \in DOMAIN data : data[k] = off + k
  PROVE  /\ WriteAt(f, off, data) \in Seq(Nat) /\ Len(WriteAt(f, off, data)) <= Size
         /\ \A b \in Nat : There(f, b) => There(WriteAt(f, off, data), b)
         /\ \A b \in Nat : off < b /\ b <= off + Len(data) => There(WriteAt(f, off, data), b)
<1> DEFINE n == Larger(Len(f), off + Len(data))
           w == WriteAt(f, off, data)
<1>1. n \in Nat /\ n <= Size /\ Len(f) <= n /\ off + Len(data) <= n /\ Len(data) \in Nat /\ Len(f) \in Nat
  BY SftpAssumption DEF Larger
<1>2. w = [i \in 1..n |-> IF i > off /\ i <= off + Len(data) THEN data[i - off]
                          ELSE IF i <= Len(f) THEN f[i] ELSE 0]
  BY DEF WriteAt
<1> HIDE DEF n, w
<1>3. \A i \in 1..n : i > off /\ i <= off + Len(data) => i - off \in DOMAIN data /\ w[i] = i
  BY <1>1, <1>2
<1>4. \A i \in 1..n : ~(i > off /\ i <= off + Len(data)) /\ i <= Len(f) => w[i] = f[i] /\ f[i] \in Nat
  BY <1>1, <1>2
<1>5. \A i \in 1..n : w[i] \in Nat
  BY <1>1, <1>2, <1>3, <1>4
<1>6. w \in Seq(Nat) /\ DOMAIN w = 1..n /\ Len(w) = n
  BY <1>1, <1>2, <1>5
<1>7. \A b \in Nat : off < b /\ b <= off + Len(data) => There(w, b)
  BY <1>1, <1>3, <1>6 DEF There
<1>8. \A b \in Nat : There(f, b) => There(w, b)
  <2> SUFFICES ASSUME NEW b \in Nat, There(f, b) PROVE There(w, b)
    OBVIOUS
  <2>1. b \in 1..n /\ b <= Len(f) /\ f[b] = b
    BY <1>1 DEF There
  <2> QED BY <2>1, <1>3, <1>4, <1>6 DEF There
<1> QED BY <1>1, <1>6, <1>7, <1>8 DEF w

LEMMA EmptyReads ==
  ASSUME NEW h, NEW rq \in Seq(ReadReq)
  PROVE  rq \o Reads(h, <<>>) = rq
<1>1. Reads(h, <<>>) = <<>>
  BY DEF Reads
<1> QED BY <1>1

\* case SSH2_FXP_STATUS
LEMMA StatusKeeps ==
  ASSUME NEW s, NEW f, NEW rq, NEW rp \in Seq(Reply), NEW d, NEW stop,
         Loop(s, f, rq, rp, d, stop), s.send = <<>>,
         NEW a \in DOMAIN rp, NEW i \in DOMAIN s.requests, s.requests[i].id = rp[a].id,
         rp[a].type # "DATA"
  PROVE  LET t == GotStatus(s, i, rp[a])
         IN  Loop(t, f, rq \o Reads(t.h, t.send), RemoveAt(rp, a), d, stop)
<1>1. s \in GetType /\ rq \in Seq(ReadReq)
  BY DEF Loop, Asked
<1> DEFINE q == RemoveAt(s.requests, i)
           re == s.read_error \/ rp[a].type # "EOF"
           t == [s EXCEPT !.read_error = re, !.max_req = 0, !.requests = q, !.num_req = s.num_req - 1]
<1>2. GotStatus(s, i, rp[a]) = t
  BY DEF GotStatus
<1>3. /\ s.requests \in Seq(Wanted) /\ s.num_req = Len(s.requests) /\ s.id \in Nat /\ s.h \in Nat
      /\ s.offset \in Nat /\ s.highwater \in Nat /\ s.read_error \in BOOLEAN
  BY <1>1 DEF GetType, Loop
<1>4. /\ q \in Seq(Wanted) /\ Len(q) = Len(s.requests) - 1
  BY <1>3, RemoveAtFacts
<1>5. s.num_req - 1 = Len(q) /\ s.num_req - 1 \in Nat
  BY <1>3, <1>4
<1>6. re \in BOOLEAN /\ (~re => ~s.read_error /\ rp[a].type = "EOF")
  BY <1>3
<1>7. Fits(s.requests[i], rp[a])
  BY DEF Loop, Asked
<1>8. s.requests[i] \in Wanted
  BY <1>3
<1>9. s.requests[i].off \in Nat /\ s.requests[i].len \in Nat \ {0}
  BY <1>8 DEF Wanted
<1>10. Narrowed(s.requests, i, s.requests[i].len, q)
  BY DEF Narrowed
<1>11. Ranges(q, s.highwater, s.offset)
  <2>1. s.requests[i].len \in 1..s.requests[i].len
    BY <1>9
  <2>2. Ranges(s.requests, s.highwater, s.offset)
    BY DEF Loop
  <2> HIDE DEF q
  <2> QED BY <2>1, <2>2, <1>3, <1>10, RangesNarrow
<1>12. Asked(q, s.id, s.h, rq, RemoveAt(rp, a))
  BY <1>3, AskedReceive DEF Loop
<1>13. \A b \in 1..Size : rp[a].type = "EOF" /\ Coming(s.requests, b) => Coming(q, b)
  <2> SUFFICES ASSUME NEW b \in 1..Size, rp[a].type = "EOF", Coming(s.requests, b) PROVE Coming(q, b)
    OBVIOUS
  <2>1. s.requests[i].off >= Size /\ b \in Nat
    BY <1>7, SftpAssumption DEF Fits
  <2>2. s.requests[i].len \in 1..s.requests[i].len
    BY <1>9
  <2> HIDE DEF q
  <2>3. Coming(q, b) \/ s.requests[i].off < b
    BY <2>1, <2>2, <1>3, <1>10, NarrowedFacts
  <2> QED BY <2>1, <2>3, <1>9, SftpAssumption
<1>14. rp[a].type = "EOF" => Size <= s.offset
  <2>1. EndOf(s.requests[i]) <= s.offset
    BY DEF Loop, Ranges
  <2> QED BY <2>1, <1>3, <1>7, <1>9, SftpAssumption DEF Fits, EndOf
<1> HIDE DEF q, re
<1>15. t \in GetType
  BY <1>1, <1>4, <1>5, <1>6 DEF GetType
<1>16. /\ t.requests = q /\ t.read_error = re /\ t.max_req = 0 /\ t.num_req = Len(q)
       /\ t.send = <<>> /\ t.h = s.h /\ t.id = s.id /\ t.offset = s.offset
       /\ t.highwater = s.highwater /\ t.write_error = s.write_error
  BY <1>1, <1>5 DEF GetType
<1> HIDE DEF t
<1>17. rq \o Reads(t.h, t.send) = rq
  BY <1>1, <1>16, EmptyReads
<1>18. Covered(s, f, stop) => Covered(t, f, stop)
  <2> SUFFICES ASSUME Covered(s, f, stop), ~re, ~s.write_error
               PROVE  /\ \A b \in 1..Size : b <= s.offset => There(f, b) \/ Coming(q, b)
                      /\ Size <= s.offset
    BY <1>16 DEF Covered
  <2>1. \A b \in 1..Size : b <= s.offset => There(f, b) \/ Coming(s.requests, b)
    BY <1>6 DEF Covered
  <2> QED BY <2>1, <1>6, <1>13, <1>14, Zenon
<1>19. Contiguous(s, f) => Contiguous(t, f)
  BY <1>16 DEF Contiguous
<1>20. Loop(t, f, rq, RemoveAt(rp, a), d, stop)
  BY <1>11, <1>12, <1>15, <1>16, <1>18, <1>19 DEF Loop
<1> QED BY <1>2, <1>17, <1>20

\* What GotData() makes of the local variables; more: what is asked for again.
Got(s, t, i, len, bad, more) ==
  /\ t \in GetType /\ t.h = s.h /\ t.offset = s.offset /\ t.read_error = s.read_error
  /\ t.write_error = (s.write_error \/ bad)
  /\ t.highwater = Highwater(s, s.requests[i], len, bad)
  /\ t.num_req = Len(t.requests)
  /\ \/ /\ len = s.requests[i].len /\ t.requests = RemoveAt(s.requests, i)
        /\ t.send = <<>> /\ t.id = s.id
     \/ /\ more \in Wanted /\ more.id = s.id /\ more.off = s.requests[i].off + len
        /\ more.len = s.requests[i].len - len /\ t.requests = ReplaceAt(s.requests, i, more)
        /\ t.send = <<more>> /\ t.id = s.id + 1
  /\ t.max_req = 0 => bad \/ s.max_req = 0

LEMMA GotFields ==
  ASSUME NEW s \in GetType, s.num_req = Len(s.requests), NEW i \in DOMAIN s.requests,
         NEW rep \in Reply, NEW ok \in BOOLEAN, Len(rep.data) \in 1..s.requests[i].len
  PROVE  \E more : Got(s, GotData(s, i, rep, ok), i, Len(rep.data), ~ok /\ ~s.write_error, more)
<1> DEFINE p == s.requests
           req == p[i]
           len == Len(rep.data)
           bad == ~ok /\ ~s.write_error
           whole == Whole(req, len)
           max == IF bad THEN 0 ELSE s.max_req
           more == [id |-> s.id, off |-> req.off + len, len |-> req.len - len]
           we == s.write_error \/ bad
           hw == Highwater(s, req, len, bad)
           ro == s.reordered \/ (~bad /\ req.off > s.highwater)
           rs == IF whole THEN RemoveAt(p, i) ELSE ReplaceAt(p, i, more)
           se == IF whole THEN <<>> ELSE <<more>>
           nr == IF whole THEN s.num_req - 1 ELSE s.num_req
           id == IF whole THEN s.id ELSE s.id + 1
           bl == IF ~whole /\ len < s.buflen THEN len ELSE s.buflen
           mr == IF max = 0 THEN 0
                 ELSE IF Size > 0 /\ s.offset > Size THEN 1
                 ELSE IF max <= NumRequests THEN max + 1 ELSE max
           t == [s EXCEPT !.write_error = we, !.highwater = hw, !.reordered = ro, !.requests = rs,
                          !.send = se, !.num_req = nr, !.id = id, !.buflen = bl, !.max_req = mr]
<1>1. GotData(s, i, rep, ok) = t
  BY DEF GotData
<1>2. /\ p \in Seq(Wanted) /\ s.id \in Nat /\ s.num_req \in Nat /\ s.max_req \in Nat
      /\ s.highwater \in Nat /\ s.buflen \in Nat \ {0} /\ s.offset \in Nat
      /\ s.write_error \in BOOLEAN /\ s.reordered \in BOOLEAN
  BY DEF GetType
<1>3. req \in Wanted
  BY <1>2
<1>4. req.off \in Nat /\ req.len \in Nat \ {0} /\ len \in Nat \ {0} /\ len <= req.len
  BY <1>3 DEF Wanted
<1>5. bad \in BOOLEAN /\ we \in BOOLEAN /\ ro \in BOOLEAN /\ whole \in BOOLEAN
  BY <1>2 DEF Whole
<1>6. whole <=> len = req.len
  BY DEF Whole
<1>7. ~whole => /\ more \in Wanted /\ more.id = s.id /\ more.off = req.off + len
                /\ more.len = req.len - len
  <2> HIDE DEF whole
  <2>1. ~whole => req.len - len \in Nat \ {0}
    BY <1>4, <1>6
  <2>2. req.off + len \in Nat
    BY <1>4
  <2> QED BY <2>1, <2>2, <1>2 DEF Wanted
<1> HIDE DEF bad, whole, more
<1>8. hw \in Nat
  BY <1>2, <1>4 DEF Highwater
<1>9. bl \in Nat \ {0} /\ id \in Nat
  BY <1>2, <1>4
<1>10. mr \in Nat /\ (mr = 0 => bad \/ s.max_req = 0)
  BY <1>2
<1>11. rs \in Seq(Wanted) /\ nr = Len(rs) /\ nr \in Nat
  <2>1. CASE whole
    <3>1. RemoveAt(p, i) \in Seq(Wanted) /\ Len(RemoveAt(p, i)) = Len(p) - 1
      BY <1>2, RemoveAtFacts
    <3> QED BY <2>1, <3>1
  <2>2. CASE ~whole
    <3>1. ReplaceAt(p, i, more) \in Seq(Wanted) /\ Len(ReplaceAt(p, i, more)) = Len(p)
      BY <2>2, <1>2, <1>7 DEF ReplaceAt
    <3> QED BY <2>2, <3>1
  <2> QED BY <2>1, <2>2, <1>5
<1>12. se \in Seq(Wanted)
  BY <1>7
<1>a. \/ len = req.len /\ rs = RemoveAt(p, i) /\ se = <<>> /\ id = s.id
      \/ /\ more \in Wanted /\ more.id = s.id /\ more.off = req.off + len
         /\ more.len = req.len - len /\ rs = ReplaceAt(p, i, more)
         /\ se = <<more>> /\ id = s.id + 1
  BY <1>6, <1>7
<1> HIDE DEF we, hw, ro, rs, se, nr, id, bl, mr
<1>13. t \in GetType
  BY <1>5, <1>8, <1>9, <1>10, <1>11, <1>12 DEF GetType
<1>14. /\ t.write_error = we /\ t.highwater = hw /\ t.requests = rs /\ t.send = se
       /\ t.num_req = nr /\ t.id = id /\ t.max_req = mr /\ t.h = s.h /\ t.offset = s.offset
       /\ t.read_error = s.read_error
  BY DEF GetType
<1> HIDE DEF t
<1>15. Got(s, t, i, len, bad, more)
  BY <1>10, <1>11, <1>13, <1>14, <1>a DEF Got, we, hw
<1> QED BY <1>1, <1>15 DEF bad

\* case SSH2_FXP_DATA
LEMMA DataKeeps ==
  ASSUME NEW s, NEW f, NEW rq, NEW rp \in Seq(Reply), NEW d \in Nat, NEW stop,
         Loop(s, f, rq, rp, d, stop), s.send = <<>>,
         NEW a \in DOMAIN rp, NEW i \in DOMAIN s.requests, s.requests[i].id = rp[a].id,
         rp[a].type = "DATA", NEW ok \in BOOLEAN
  PROVE  LET t == GotData(s, i, rp[a], ok)
             w == IF ok THEN WriteAt(f, s.requests[i].off, rp[a].data) ELSE f
         IN  Loop(t, w, rq \o Reads(t.h, t.send), RemoveAt(rp, a), IF ok THEN d ELSE d + 1, stop)
<1> DEFINE p == s.requests
           data == rp[a].data
           off == p[i].off
           len == Len(data)
           bad == ~ok /\ ~s.write_error
           w == IF ok THEN WriteAt(f, off, data) ELSE f
           e == IF ok THEN d ELSE d + 1
<1>1. s \in GetType /\ rq \in Seq(ReadReq) /\ s.num_req = Len(p) /\ f \in Seq(Nat) /\ Len(f) <= Size
  BY DEF Loop, Asked
<1>2. /\ p \in Seq(Wanted) /\ s.id \in Nat /\ s.h \in Nat /\ s.offset \in Nat /\ s.highwater \in Nat
      /\ s.write_error \in BOOLEAN
  BY <1>1 DEF GetType
<1>3. rp[a] \in Reply /\ p[i] \in Wanted
  BY <1>2
<1>4. data \in Seq(Nat) /\ off \in Nat /\ p[i].len \in Nat \ {0}
  BY <1>3 DEF Reply, Wanted
<1>5. len \in 1..p[i].len /\ off + len <= Size /\ \A k \in DOMAIN data : data[k] = off + k
  BY DEF Loop, Asked, Fits
<1>6. PICK t, more : t = GotData(s, i, rp[a], ok) /\ Got(s, t, i, len, bad, more)
  BY <1>1, <1>3, <1>5, GotFields
<1>7. e \in Nat /\ d <= e /\ (bad => e >= 1) /\ (s.write_error /\ ~ok /\ d >= 1 => e >= 2)
  OBVIOUS
<1>8. /\ w \in Seq(Nat) /\ Len(w) <= Size
      /\ \A b \in Nat : There(f, b) => There(w, b)
      /\ \A b \in Nat : ok /\ off < b /\ b <= off + len => There(w, b)
  BY <1>1, <1>4, <1>5, WriteAtFacts
<1> HIDE DEF w, e, len
<1>9. s.write_error => d >= 1
  BY DEF Loop
<1>10. e <= 1 /\ ~bad => ok
  BY <1>2, <1>7, <1>9
<1>11. bad \in BOOLEAN
  BY <1>2
<1> HIDE DEF bad
<1>12. Asked(t.requests, t.id, t.h, rq \o Reads(t.h, t.send), RemoveAt(rp, a))
  <2>0. Asked(p, s.id, s.h, rq, rp)
    BY DEF Loop
  <2>1. CASE t.requests = RemoveAt(p, i) /\ t.send = <<>> /\ t.id = s.id
    <3>1. Asked(RemoveAt(p, i), s.id, s.h, rq, RemoveAt(rp, a))
      BY <2>0, <1>2, AskedReceive
    <3>2. rq \o Reads(t.h, t.send) = rq
      BY <2>1, <1>1, EmptyReads
    <3> QED BY <2>1, <3>1, <3>2, <1>6, Zenon DEF Got
  <2>2. CASE /\ t.requests = ReplaceAt(p, i, more) /\ t.send = <<more>> /\ t.id = s.id + 1
             /\ more \in Wanted /\ more.id = s.id
    <3>1. Asked(ReplaceAt(p, i, more), s.id + 1, s.h, rq \o Reads(s.h, <<more>>), RemoveAt(rp, a))
      BY <2>0, <2>2, <1>2, AskedAgain
    <3> QED BY <2>2, <3>1, <1>6, Zenon DEF Got
  <2> QED BY <2>1, <2>2, <1>6 DEF Got
<1>13. Narrowed(p, i, len, t.requests)
  BY <1>6 DEF Got, Narrowed
<1>14. t.highwater \in Nat /\ t \in GetType
  BY <1>6 DEF Got, GetType
<1>15. \/ t.highwater = s.highwater
       \/ t.highwater = off + len /\ off = s.highwater /\ ~bad
  <2>1. s.highwater <= off
    BY DEF Loop, Ranges
  <2>2. t.highwater = Highwater(s, p[i], len, bad)
    BY <1>6 DEF Got
  <2> QED BY <2>1, <2>2, <1>2, <1>4 DEF Highwater
<1>16. Ranges(t.requests, t.highwater, t.offset)
  <2>1. Ranges(p, s.highwater, s.offset) /\ t.offset = s.offset
    BY <1>6 DEF Loop, Got
  <2>2. t.highwater = s.highwater \/ (p[i].off = s.highwater /\ t.highwater = s.highwater + len)
    BY <1>15
  <2> QED BY <2>1, <2>2, <1>2, <1>5, <1>13, <1>14, RangesNarrow
<1>17. t.write_error => e >= 1
  BY <1>2, <1>6, <1>7, <1>9 DEF Got
<1>18. e <= 1 => Covered(t, w, stop)
  <2> SUFFICES ASSUME e <= 1, ~t.read_error, ~t.write_error
               PROVE  /\ \A b \in 1..Size : b <= s.offset => There(w, b) \/ Coming(t.requests, b)
                      /\ t.max_req = 0 /\ ~stop => Size <= s.offset
    BY <1>6 DEF Covered, Got
  <2>1. ~s.read_error /\ ~s.write_error /\ ~bad /\ ok
    BY <1>6, <1>10 DEF Got
  <2>2. Covered(s, f, stop)
    BY <1>7 DEF Loop
  <2>3. \A b \in 1..Size : b <= s.offset => There(f, b) \/ Coming(p, b)
    BY <2>1, <2>2 DEF Covered
  <2>4. \A b \in Nat : Coming(p, b) => Coming(t.requests, b) \/ (off < b /\ b <= off + len)
    BY <1>2, <1>5, <1>13, NarrowedFacts
  <2>5. \A b \in 1..Size : b \in Nat
    BY SftpAssumption
  <2>6. \A b \in 1..Size : b <= s.offset => There(w, b) \/ Coming(t.requests, b)
    BY <2>1, <2>3, <2>4, <2>5, <1>8, Zenon
  <2>7. t.max_req = 0 /\ ~stop => Size <= s.offset
    BY <2>1, <2>2, <1>6 DEF Covered, Got
  <2> QED BY <2>6, <2>7
<1>19. e <= 1 => Contiguous(t, w)
  <2> SUFFICES ASSUME e <= 1 PROVE Contiguous(t, w)
    OBVIOUS
  <2>1. Contiguous(s, f)
    BY <1>7 DEF Loop
  <2>2. \A b \in 1..s.highwater : There(w, b) /\ b \in Nat
    BY <2>1, <1>2, <1>8 DEF Contiguous
  <2>3. CASE t.highwater = s.highwater
    BY <2>1, <2>2, <2>3 DEF Contiguous
  <2>4. CASE t.highwater = off + len /\ off = s.highwater /\ ~bad
    <3>1. ok
      BY <2>4, <1>10
    <3>2. ASSUME NEW b \in 1..t.highwater PROVE There(w, b)
      <4>1. b \in Nat /\ (b \in 1..s.highwater \/ (off < b /\ b <= off + len))
        BY <2>4, <1>2, <1>14
      <4> QED BY <4>1, <3>1, <2>2, <1>8
    <3> QED BY <2>4, <3>2, <1>5 DEF Contiguous
  <2> QED BY <2>3, <2>4, <1>15
<1>20. Loop(t, w, rq \o Reads(t.h, t.send), RemoveAt(rp, a), e, stop)
  <2>1. t.num_req = Len(t.requests)
    BY <1>6 DEF Got
  <2> QED BY <2>1, <1>8, <1>12, <1>14, <1>16, <1>17, <1>18, <1>19 DEF Loop
<1> QED BY <1>6, <1>20 DEF w, e

-----------------------------------------------------------------------------
(* do_download: its end.                                                   *)

LEMMA NothingLeft ==
  ASSUME NEW rq, NEW S, rq \in Seq(S), Within(rq, <<>>)
  PROVE  rq = <<>>
<1>1. DOMAIN <<>> = {}
  OBVIOUS
<1>2. \A i \in DOMAIN rq : FALSE
  BY <1>1, Zenon DEF Within
<1>3. Len(rq) = 0
  BY <1>2
<1> QED BY <1>3

\* ftruncate() at the highest contiguous point
LEMMA FtruncateFacts ==
  ASSUME NEW f \in Seq(Nat), NEW n \in Nat
  PROVE  /\ Ftruncate(f, n) \in Seq(Nat) /\ Len(Ftruncate(f, n)) = n
         /\ (\A b \in 1..n : There(f, b)) /\ n <= Size => Begins(Ftruncate(f, n))
<1> DEFINE t == Ftruncate(f, n)
<1>1. t = [i \in 1..n |-> IF i <= Len(f) THEN f[i] ELSE 0]
  BY DEF Ftruncate
<1>2. \A i \in 1..n : t[i] \in Nat
  BY <1>1
<1>3. t \in Seq(Nat) /\ Len(t) = n /\ DOMAIN t = 1..n
  BY <1>1, <1>2
<1>4. ASSUME \A b \in 1..n : There(f, b) PROVE \A i \in 1..n : t[i] = i
  BY <1>1, <1>4 DEF There
<1> HIDE DEF t
<1>5. (\A b \in 1..n : There(f, b)) /\ n <= Size => Begins(t)
  BY <1>3, <1>4 DEF Begins
<1> QED BY <1>3, <1>5 DEF t

\* Nothing is left to ask for: the file is complete.
LEMMA CompleteFile ==
  ASSUME NEW s, NEW f \in Seq(Nat), Len(f) <= Size, Covered(s, f, FALSE), s.requests = <<>>,
         ~s.read_error, ~s.write_error, s.max_req = 0, s \in GetType
  PROVE  Begins(f) /\ Len(f) = Size
<1>1. Size <= s.offset /\ s.offset \in Nat /\ Size \in Nat
  BY SftpAssumption DEF Covered, GetType
<1>2. \A b \in 1..Size : There(f, b)
  <2>1. \A b : ~Coming(<<>>, b)
    BY DEF Coming
  <2>2. \A b \in 1..Size : b <= s.offset
    BY <1>1
  <2> QED BY <2>1, <2>2 DEF Covered
<1>3. \A b \in 1..Size : b \in DOMAIN f /\ f[b] = b
  BY <1>2 DEF There
<1>4. Len(f) \in Nat /\ DOMAIN f = 1..Len(f)
  OBVIOUS
<1>5. Len(f) = Size
  <2>1. CASE Size = 0
    BY <2>1, <1>4
  <2>2. CASE Size # 0
    <3>1. Size \in DOMAIN f
      BY <2>2, <1>1, <1>3
    <3> QED BY <3>1, <1>1, <1>4
  <2> QED BY <2>1, <2>2
<1> QED BY <1>3, <1>4, <1>5 DEF Begins

\* The end of a turn: the loop goes on or is left with nothing under way.
LEMMA TurnKeeps ==
  ASSUME IInv, op = "get", NEW t, NEW file, NEW left \in Seq(Reply), reps' = left, disk' \in Nat,
         interrupted' = interrupted, cmd' = cmd, remote' = remote, failed' = failed, uncut' = uncut,
         Loop(t, file, reqs \o Reads(t.h, t.send), left, Doubt', interrupted), t.h = g.h,
         t.done => t.requests = <<>> /\ t.max_req = 0, DownloadTurn(t, file)
  PROVE  IInv'
<1> DEFINE rq == reqs \o Reads(t.h, t.send)
<1>1. /\ t \in GetType /\ file \in Seq(Nat) /\ Len(file) <= Size /\ rq \in Seq(ReadReq)
      /\ Asked(t.requests, t.id, t.h, rq, left)
  BY DEF Loop, Asked
<1>2. t.id \in Nat /\ t.h \in Nat /\ t.done \in BOOLEAN
  BY <1>1 DEF GetType
<1>3. /\ cmd \in {"get", "reget"} /\ interrupted \in BOOLEAN /\ failed \in BOOLEAN /\ uncut \in BOOLEAN
      /\ remote \in Seq(Nat) /\ Table /\ OpenHandles = {g.h} /\ handles[g.h] = "read"
  BY DEF IInv, Shape, Handles
<1>4. Remote'
  BY DEF IInv, Remote
<1>5. /\ g' = [t EXCEPT !.send = <<>>] /\ local' = file /\ msg_id' = t.id /\ reqs' = rq
      /\ op' = (IF t.done THEN "done" ELSE "get") /\ handles' = handles /\ unused' = unused
  BY DEF DownloadTurn, svars
<1>6. ASSUME t.done PROVE rq = <<>> /\ left = <<>>
  <2>1. Within(rq, <<>>) /\ Within(left, <<>>)
    BY <1>1, <1>6 DEF Asked, Matched
  <2> HIDE DEF rq
  <2> QED BY <2>1, <1>1, NothingLeft
<1>7. Loop(t, file, rq, left, Doubt', interrupted)
  OBVIOUS
<1> HIDE DEF rq
<1>8. g' \in GetType
  <2> DEFINE r == [t EXCEPT !.send = <<>>]
  <2>0. t \in GetType /\ <<>> \in Seq(Wanted)
    BY <1>1
  <2>1. r \in GetType
    BY <2>0 DEF GetType
  <2> HIDE DEF r
  <2>2. g' = r
    BY <1>5 DEF r
  <2> QED BY <2>1, <2>2
<1>9. /\ g'.send = <<>> /\ g'.h = t.h /\ g'.id = t.id /\ g'.offset = t.offset
      /\ g'.highwater = t.highwater /\ g'.num_req = t.num_req /\ g'.max_req = t.max_req
      /\ g'.requests = t.requests /\ g'.read_error = t.read_error
      /\ g'.write_error = t.write_error
  BY <1>1, <1>5 DEF GetType
<1>10. Loop(g', file, rq, left, Doubt', interrupted)
  <2>1. Covered(t, file, interrupted) => Covered(g', file, interrupted)
    BY <1>9 DEF Covered
  <2>2. Contiguous(t, file) => Contiguous(g', file)
    BY <1>9 DEF Contiguous
  <2> QED BY <1>7, <1>8, <1>9, <2>1, <2>2 DEF Loop
<1>11. op' \in {"get", "done"} /\ (op' = "done" => t.done)
  BY <1>2, <1>5
<1>12. Shape'
  <2>1. op' \notin {"get", "put"} => reqs' = <<>> /\ reps' = <<>>
    BY <1>5, <1>6, <1>11
  <2> QED BY <2>1, <1>1, <1>2, <1>3, <1>5, <1>11 DEF Shape
<1>13. Handles'
  BY <1>3, <1>5, <1>9, <1>11 DEF Handles, Table, OpenHandles
<1>14. Getting'
  <2>1. Loop(g', local', reqs', reps', Doubt', interrupted')
    BY <1>5, <1>10
  <2>2. op' = "done" => g'.requests = <<>> /\ g'.max_req = 0
    BY <1>9, <1>11
  <2> QED BY <2>1, <2>2, <1>5, <1>9 DEF Getting
<1>15. Closing' /\ Putting' /\ Between' /\ Results'
  BY <1>11 DEF Closing, Putting, Between, Results
<1> QED BY <1>4, <1>12, <1>13, <1>14, <1>15 DEF IInv

\* The cut of the file: complete without an error, else a beginning of the
\* source, unless ftruncate fails.
LEMMA TruncateKeeps ==
  ASSUME IInv, GetTruncate
  PROVE  IInv'
<1> DEFINE broken == g.read_error \/ g.write_error \/ interrupted
<1>1. Shape /\ Handles /\ Getting /\ Remote
  BY DEF IInv
<1>2. /\ op = "done" /\ cmd' = cmd /\ g' = g /\ u' = u /\ msg_id' = msg_id
      /\ interrupted' = interrupted /\ reqs' = reqs /\ reps' = reps /\ handles' = handles
      /\ unused' = unused /\ remote' = remote /\ failed' = failed
  BY DEF GetTruncate, svars
<1>3. /\ Loop(g, local, reqs, reps, Doubt, interrupted) /\ g.requests = <<>> /\ g.max_req = 0
  BY <1>1, <1>2 DEF Getting
<1>4. /\ g \in GetType /\ local \in Seq(Nat) /\ Len(local) <= Size
      /\ Doubt <= 1 => Covered(g, local, interrupted) /\ Contiguous(g, local)
  BY <1>3 DEF Loop
<1>5. g.highwater \in Nat
  BY <1>4 DEF GetType
<1>6. /\ op' = "closing"
      /\ \/ broken /\ local' = Ftruncate(local, g.highwater) /\ disk' = disk /\ uncut' = uncut
         \/ broken /\ disk' = disk + 1 /\ uncut' = TRUE /\ local' = local
         \/ ~broken /\ local' = local /\ disk' = disk /\ uncut' = uncut
  BY <1>3, Zenon DEF GetTruncate
<1>7. disk \in Nat /\ uncut \in BOOLEAN /\ disk' \in Nat /\ uncut' \in BOOLEAN /\ local' \in Seq(Nat)
  <2>1. disk \in Nat /\ uncut \in BOOLEAN
    BY <1>1 DEF Shape
  <2>2. uncut' \in BOOLEAN
    BY <2>1, <1>6, Zenon
  <2>3. disk' \in Nat
    BY <2>1, <1>6
  <2>4. local' \in Seq(Nat)
    BY <1>4, <1>5, <1>6, FtruncateFacts
  <2> QED BY <2>1, <2>2, <2>3, <2>4
<1>8. ASSUME Doubt' <= 1
      PROVE  Begins(local') /\ (~broken => Len(local') = Size)
  <2>0. ~uncut'
    <3>1. uncut' => Doubt' = disk' + 2
      BY Zenon DEF Doubt
    <3>2. \A n \in Nat : ~(n + 2 <= 1)
      OBVIOUS
    <3> QED BY <3>1, <3>2, <1>7, <1>8, Zenon
  <2>1. uncut' = uncut /\ disk' = disk /\ ~uncut'
    BY <2>0, <1>6, Zenon
  <2>2. Covered(g, local, interrupted) /\ Contiguous(g, local)
    BY <2>1, <1>4, <1>8 DEF Doubt
  <2>3. CASE broken
    <3>1. g.highwater <= Size /\ \A b \in 1..g.highwater : There(local, b)
      BY <2>2 DEF Contiguous
    <3>2. Begins(Ftruncate(local, g.highwater))
      BY <3>1, <1>4, <1>5, FtruncateFacts
    <3>3. local' = Ftruncate(local, g.highwater)
      BY <2>1, <2>3, <1>6
    <3> QED BY <3>2, <3>3, <2>3
  <2>4. CASE ~broken
    <3>1. Covered(g, local, FALSE) /\ ~g.read_error /\ ~g.write_error
      BY <2>2, <2>4 DEF Covered
    <3>2. Begins(local) /\ Len(local) = Size
      BY <3>1, <1>3, <1>4, CompleteFile
    <3>3. local' = local
      BY <2>4, <1>6
    <3> QED BY <3>2, <3>3
  <2> QED BY <2>3, <2>4
<1>9. Shape'
  BY <1>1, <1>2, <1>6, <1>7 DEF Shape
<1>10. Handles'
  BY <1>1, <1>2, <1>6 DEF Handles, Table, OpenHandles
<1>11. Closing'
  BY <1>2, <1>8 DEF Closing
<1>12. Between'
  BY <1>8 DEF Between
<1>13. Getting' /\ Putting' /\ Results'
  BY <1>6 DEF Getting, Putting, Results
<1>14. Remote'
  BY <1>1, <1>2 DEF Remote
<1> QED BY <1>9, <1>10, <1>11, <1>12, <1>13, <1>14 DEF IInv

\* do_close() with nothing under way; what is left to show is the outcome.
LEMMA CloseEnds ==
  ASSUME IInv, op # "idle", reqs = <<>>, reps = <<>>, NEW h, OpenHandles = {h}, NEW ok, DoClose(h, ok),
         local' = local, disk' = disk,
         op # "get" /\ op # "done",
         cmd \in {"get", "reget"} /\ ok /\ Doubt <= 1 => Begins(local) /\ Len(local) = Size,
         cmd \in {"put", "reput"} /\ ok /\ ~failed =>
           Begins(remote) /\ (Len(remote) = Size \/ interrupted)
  PROVE  IInv'
<1>1. Shape /\ Handles /\ Between /\ Remote
  BY DEF IInv
<1>2. /\ op' = "idle" /\ msg_id' = msg_id + 1 /\ ProcessClose(h) /\ last' = Outcome(ok)
      /\ cmd' = cmd /\ interrupted' = interrupted /\ reqs' = reqs /\ reps' = reps
      /\ remote' = remote /\ failed' = failed /\ uncut' = uncut
  BY DEF DoClose
<1>3. Table' /\ OpenHandles' = {}
  BY <1>1, <1>2, CloseKeeps DEF Handles
<1>4. Shape'
  <2>1. msg_id' \in Nat
    BY <1>1, <1>2 DEF Shape
  <2> QED BY <2>1, <1>1, <1>2 DEF Shape
<1>5. Handles' /\ Getting' /\ Closing' /\ Putting'
  BY <1>2, <1>3 DEF Handles, Getting, Closing, Putting
<1>6. Doubt' = Doubt
  BY <1>2 DEF Doubt
<1>7. Between' /\ Remote'
  BY <1>1, <1>2, <1>6 DEF Between, Remote
<1>8. last'.cmd = cmd /\ last'.interrupted = interrupted /\ last'.ok = ok
  BY <1>2 DEF Outcome
<1>9. Results'
  BY <1>2, <1>6, <1>8 DEF Results
<1> QED BY <1>4, <1>5, <1>7, <1>9 DEF IInv

\* The label fail.
LEMMA GetFailKeeps ==
  ASSUME IInv, GetFail
  PROVE  IInv'
<1>1. op = "fail" /\ DoClose(g.h, FALSE) /\ local' = local /\ disk' = disk
  BY DEF GetFail
<1>2. reqs = <<>> /\ reps = <<>> /\ OpenHandles = {g.h}
  BY <1>1 DEF IInv, Shape, Handles
<1> QED BY <1>1, <1>2, CloseEnds

\* The three ends behind the loop.
LEMMA GetEndKeeps ==
  ASSUME IInv, GetEnd
  PROVE  IInv'
<1>1. op = "closing" /\ local' = local /\ disk' = disk
  BY DEF GetEnd
<1>2. reqs = <<>> /\ reps = <<>> /\ OpenHandles = {g.h} /\ cmd \in {"get", "reget"} /\ Closing
  BY <1>1 DEF IInv, Shape, Handles
<1>3. ASSUME DoClose(g.h, FALSE) PROVE IInv'
  BY <1>1, <1>2, <1>3, CloseEnds
<1>4. ASSUME ~g.read_error, ~g.write_error, NEW c \in BOOLEAN, DoClose(g.h, c /\ ~interrupted)
      PROVE  IInv'
  <2>1. PICK ok \in BOOLEAN : ok = (c /\ ~interrupted)
    BY Zenon
  <2>2. DoClose(g.h, ok)
    BY <2>1, <1>4, Zenon
  <2>3. ok /\ Doubt <= 1 => Begins(local) /\ Len(local) = Size
    BY <2>1, <1>1, <1>2, <1>4 DEF Closing
  <2>4. cmd \notin {"put", "reput"}
    BY <1>2
  <2> QED BY <2>2, <2>3, <2>4, <1>1, <1>2, CloseEnds
<1> QED BY <1>3, <1>4 DEF GetEnd

LEMMA GetBeginKeeps ==
  ASSUME IInv, GetBegin
  PROVE  IInv'
<1>1. /\ op = "get" /\ DownloadTurn(DownloadTop(g), local) /\ cmd' = cmd
      /\ interrupted' = interrupted /\ reps' = reps /\ disk' = disk /\ remote' = remote
      /\ failed' = failed /\ uncut' = uncut
  BY DEF GetBegin
<1>0. PICK d : d = Doubt
  OBVIOUS
<1>2. /\ Loop(g, local, reqs, reps, d, interrupted) /\ g.send = <<>> /\ Doubt' = d
      /\ reps \in Seq(Reply) /\ disk \in Nat /\ interrupted \in BOOLEAN
  <2>1. Loop(g, local, reqs, reps, Doubt, interrupted) /\ g.send = <<>>
    BY <1>1 DEF IInv, Getting
  <2>2. Doubt' = Doubt
    BY <1>1 DEF Doubt
  <2>3. reps \in Seq(Reply) /\ disk \in Nat /\ interrupted \in BOOLEAN
    BY DEF IInv, Shape
  <2> QED BY <2>1, <2>2, <2>3, <1>0
<1>3. reqs \in Seq(ReadReq)
  BY <1>2 DEF Loop, Asked
<1>4. reqs \o Reads(g.h, g.send) = reqs
  BY <1>2, <1>3, EmptyReads
<1>5. PICK t : t = DownloadTop(g)
  OBVIOUS
<1>6. Sending(t, local, reqs, reps, d) /\ t.h = g.h /\ Emptied(t)
  <2>1. Loop(g, local, reqs \o Reads(g.h, g.send), reps, d, interrupted)
    BY <1>2, <1>4, Zenon
  <2>2. Sending(g, local, reqs, reps, d)
    BY <2>1, <1>2, <1>3 DEF Sending
  <2> QED BY <2>2, <1>5, TopKeeps
<1>7. /\ Loop(t, local, reqs \o Reads(t.h, t.send), reps, Doubt', interrupted)
      /\ t.done => t.requests = <<>> /\ t.max_req = 0
  BY <1>2, <1>6 DEF Sending, Emptied
<1> QED BY <1>1, <1>2, <1>5, <1>6, <1>7, TurnKeeps

LEMMA GetReceiveKeeps ==
  ASSUME IInv, GetReceive
  PROVE  IInv'
<1>1. /\ op = "get" /\ cmd' = cmd /\ interrupted' = interrupted
      /\ remote' = remote /\ failed' = failed /\ uncut' = uncut
  <2>1. op = "get" /\ UNCHANGED <<cmd, interrupted, remote, ops, shorts, faults, intr, failed, uncut>>
    BY Zenon DEF GetReceive
  <2> QED BY <2>1
<1>0. PICK d : d = Doubt
  OBVIOUS
<1>2. /\ Loop(g, local, reqs, reps, d, interrupted) /\ g.send = <<>> /\ d \in Nat
      /\ reps \in Seq(Reply) /\ disk \in Nat /\ interrupted \in BOOLEAN /\ uncut \in BOOLEAN
  <2>1. Loop(g, local, reqs, reps, Doubt, interrupted) /\ g.send = <<>>
    BY <1>1 DEF IInv, Getting
  <2>2. reps \in Seq(Reply) /\ disk \in Nat /\ interrupted \in BOOLEAN /\ uncut \in BOOLEAN
    BY DEF IInv, Shape
  <2>3. Doubt \in Nat
    BY <2>2 DEF Doubt
  <2> QED BY <2>1, <2>2, <2>3, <1>0
<1>3. reqs \in Seq(ReadReq) /\ Within(reps, g.requests)
  BY <1>2 DEF Loop, Asked, Matched
<1>4. PICK a \in Answers :
           /\ reps' = RemoveAt(reps, a)
           /\ IF Pending(g.requests, reps[a]) = {}
              THEN Fatal /\ UNCHANGED disk
              ELSE \E i \in Pending(g.requests, reps[a]), ok \in BOOLEAN :
                     /\ ok \/ (reps[a].type = "DATA" /\ disk < MaxDisk)
                     /\ disk' = IF ok THEN disk ELSE disk + 1
                     /\ DownloadTurn(DownloadTop(IF reps[a].type = "DATA"
                                                 THEN GotData(g, i, reps[a], ok)
                                                 ELSE GotStatus(g, i, reps[a])),
                                     IF reps[a].type = "DATA" /\ ok
                                     THEN WriteAt(local, g.requests[i].off, reps[a].data)
                                     ELSE local)
  BY Zenon DEF GetReceive
<1>5. a \in DOMAIN reps
  BY <1>4 DEF Answers
<1>6. Pending(g.requests, reps[a]) # {}
  BY <1>3, <1>5 DEF Within, Pending
<1>7. PICK i \in Pending(g.requests, reps[a]), ok \in BOOLEAN :
           /\ ok \/ (reps[a].type = "DATA" /\ disk < MaxDisk)
           /\ disk' = IF ok THEN disk ELSE disk + 1
           /\ DownloadTurn(DownloadTop(IF reps[a].type = "DATA"
                                       THEN GotData(g, i, reps[a], ok)
                                       ELSE GotStatus(g, i, reps[a])),
                           IF reps[a].type = "DATA" /\ ok
                           THEN WriteAt(local, g.requests[i].off, reps[a].data)
                           ELSE local)
  BY <1>4, <1>6, Zenon
<1>8. i \in DOMAIN g.requests /\ g.requests[i].id = reps[a].id
  BY DEF Pending
<1>9. PICK s : s = IF reps[a].type = "DATA" THEN GotData(g, i, reps[a], ok)
                   ELSE GotStatus(g, i, reps[a])
  OBVIOUS
<1>10. PICK file : file = IF reps[a].type = "DATA" /\ ok
                          THEN WriteAt(local, g.requests[i].off, reps[a].data) ELSE local
  OBVIOUS
<1>11. PICK left : left = RemoveAt(reps, a)
  OBVIOUS
<1>12. left \in Seq(Reply)
  BY <1>2, <1>5, <1>11, RemoveAtFacts
<1>13. disk' \in Nat /\ Doubt' = IF ok THEN d ELSE d + 1
  BY <1>0, <1>1, <1>2, <1>7 DEF Doubt
<1>14. Loop(s, file, reqs \o Reads(s.h, s.send), left, Doubt', interrupted)
  <2>1. CASE reps[a].type = "DATA"
    <3>1. s = GotData(g, i, reps[a], ok)
      BY <2>1, <1>9
    <3>2. file = IF ok THEN WriteAt(local, g.requests[i].off, reps[a].data) ELSE local
      BY <2>1, <1>10
    <3> QED BY <2>1, <3>1, <3>2, <1>2, <1>5, <1>7, <1>8, <1>11, <1>13, DataKeeps
  <2>2. CASE reps[a].type # "DATA"
    <3>1. s = GotStatus(g, i, reps[a]) /\ file = local /\ Doubt' = d
      BY <2>2, <1>7, <1>9, <1>10, <1>13
    <3> QED BY <2>2, <3>1, <1>2, <1>5, <1>8, <1>11, StatusKeeps
  <2> QED BY <2>1, <2>2
<1>15. s.h = g.h
  BY <1>9 DEF GotData, GotStatus
<1>16. PICK t : t = DownloadTop(s)
  OBVIOUS
<1>17. /\ Loop(t, file, reqs \o Reads(t.h, t.send), left, Doubt', interrupted)
       /\ t.h = g.h /\ (t.done => t.requests = <<>> /\ t.max_req = 0)
  <2>1. Sending(s, file, reqs, left, Doubt')
    BY <1>2, <1>3, <1>12, <1>14 DEF Sending
  <2>2. Sending(t, file, reqs, left, Doubt') /\ t.h = s.h /\ Emptied(t)
    BY <2>1, <1>16, TopKeeps
  <2> QED BY <2>2, <1>15 DEF Sending, Emptied
<1>18. DownloadTurn(t, file) /\ reps' = left
  BY <1>4, <1>7, <1>9, <1>10, <1>11, <1>16, Zenon
<1> QED BY <1>1, <1>12, <1>13, <1>17, <1>18, TurnKeeps

-----------------------------------------------------------------------------
(* The beginning of a command.                                             *)

\* What does not depend on the transfer.
LEMMA Refusal ==
  ASSUME IInv, op = "idle", NEW r, Refused(r), interrupted' = FALSE,
         reqs' = reqs, reps' = reps, disk' = disk, failed' = failed
  PROVE  IInv'
<1>1. /\ last' = [cmd |-> r, ok |-> FALSE, interrupted |-> FALSE] /\ msg_id' = msg_id + 1
      /\ op' = op /\ handles' = handles /\ unused' = unused /\ local' = local /\ remote' = remote
      /\ uncut' = uncut
  BY DEF Refused, svars
<1>2. Shape'
  <2>1. Shape
    BY DEF IInv
  <2>2. msg_id' \in Nat /\ op' = "idle"
    BY <2>1, <1>1 DEF Shape
  <2>3. interrupted' \in BOOLEAN
    BY Zenon
  <2> QED BY <2>1, <2>2, <2>3, <1>1 DEF Shape
<1>3. Handles'
  BY <1>1 DEF IInv, Handles, Table, OpenHandles
<1>4. Getting' /\ Putting' /\ Closing'
  BY <1>1 DEF Getting, Putting, Closing
<1>5. Between' /\ Remote'
  BY <1>1 DEF IInv, Between, Remote, Doubt
<1>6. Results'
  BY <1>1 DEF Results
<1> QED BY <1>2, <1>3, <1>4, <1>5, <1>6 DEF IInv

LEMMA StartGetKeeps ==
  ASSUME IInv, NEW r, StartGet(r)
  PROVE  IInv'
<1>1. /\ r \in {"get", "reget"} /\ op = "idle" /\ cmd' = r /\ interrupted' = FALSE
      /\ reqs' = reqs /\ reps' = reps /\ disk' = disk /\ failed' = failed
  BY DEF StartGet, Start
<1> DEFINE file == IF r = "reget" THEN local ELSE <<>>
<1>2. CASE Refused(r)
  BY <1>1, <1>2, Refusal
<1>3. ASSUME NEW i \in 1..(Len(handles) + 1), ProcessOpen("read", i), Len(file) <= Size,
             g' = [h |-> i, offset |-> Len(file), highwater |-> Len(file),
                   buflen |-> BufLen, num_req |-> 0, max_req |-> 1,
                   requests |-> <<>>, reordered |-> FALSE,
                   read_error |-> FALSE, write_error |-> FALSE,
                   id |-> msg_id + 1, send |-> <<>>, done |-> FALSE],
             op' = "get", local' = file, uncut' = (uncut /\ r = "reget"),
             msg_id' = msg_id + 1, remote' = remote
      PROVE  IInv'
  <2>1. /\ reqs = <<>> /\ reps = <<>> /\ msg_id \in Nat /\ disk \in Nat /\ local \in Seq(Nat)
        /\ remote \in Seq(Nat) /\ failed \in BOOLEAN /\ uncut \in BOOLEAN /\ Table /\ OpenHandles = {}
    BY <1>1 DEF IInv, Shape, Handles
  <2>2. file \in Seq(Nat) /\ Len(file) \in Nat
    BY <2>1
  <2>3. i \in Nat
    BY <2>1 DEF Table
  <2>4. Table' /\ OpenHandles' = {i} /\ handles'[i] = "read"
    BY <2>1, <2>3, <1>3, OpenKeeps
  <2>5. Doubt' <= 1 => Begins(file)
    <3>1. Doubt <= 1 => Begins(local) \/ Len(local) > Size
      BY <1>1 DEF IInv, Between
    <3>2. Begins(<<>>)
      BY SftpAssumption DEF Begins
    <3>3. CASE r = "get"
      BY <3>2, <3>3
    <3>4. CASE r = "reget"
      <4>1. uncut' = uncut /\ disk' = disk
        BY <3>4, <2>1, <1>1, <1>3
      <4>2. Doubt' = Doubt
        BY <4>1 DEF Doubt
      <4> QED BY <3>1, <3>4, <4>2, <2>1, <1>3, SftpAssumption
    <3> QED BY <3>3, <3>4, <1>1
  <2> DEFINE n == Len(file)
  <2> HIDE DEF file
  <2>6. n \in Nat /\ n <= Size
    BY <2>2, <1>3
  <2> HIDE DEF n
  <2>7. g' = [h |-> i, offset |-> n, highwater |-> n,
              buflen |-> BufLen, num_req |-> 0, max_req |-> 1,
              requests |-> <<>>, reordered |-> FALSE,
              read_error |-> FALSE, write_error |-> FALSE,
              id |-> msg_id + 1, send |-> <<>>, done |-> FALSE]
    BY <1>3 DEF n
  <2>8. g' \in GetType
    <3>1. <<>> \in Seq(Wanted) /\ BufLen \in Nat \ {0} /\ msg_id + 1 \in Nat
      BY <2>1, SftpAssumption
    <3> QED BY <3>1, <2>3, <2>6, <2>7 DEF GetType
  <2>9. /\ g'.h = i /\ g'.offset = n /\ g'.highwater = n /\ g'.num_req = 0 /\ g'.max_req = 1
        /\ g'.requests = <<>> /\ g'.read_error = FALSE /\ g'.write_error = FALSE
        /\ g'.id = msg_id + 1 /\ g'.send = <<>>
    BY <2>7
  <2>10. Asked(<<>>, msg_id + 1, i, <<>>, <<>>) /\ Ranges(<<>>, n, n)
    <3>1. DOMAIN <<>> = {} /\ <<>> \in Seq(ReadReq)
      OBVIOUS
    <3>2. Matched(<<>>, <<>>, <<>>)
      BY <3>1 DEF Matched, Distinct, Apart, Within
    <3>3. n <= n
      BY <2>6
    <3> QED BY <3>1, <3>2, <3>3 DEF Asked, Ranges
  <2>11. Doubt' <= 1 => \A b \in 1..n : There(file, b)
    BY <2>2, <2>5 DEF Begins, There, n
  <2>12. Doubt' <= 1 => Covered(g', file, FALSE) /\ Contiguous(g', file)
    <3>1. \A b \in 1..Size : b <= n => b \in 1..n
      BY <2>6, SftpAssumption
    <3> QED BY <3>1, <2>6, <2>9, <2>11 DEF Covered, Contiguous
  <2>13. Loop(g', file, <<>>, <<>>, Doubt', FALSE)
    <3>1. Len(file) <= Size
      BY <2>6 DEF n
    <3>2. g'.num_req = Len(g'.requests)
      BY <2>9
    <3> QED BY <3>1, <3>2, <2>2, <2>8, <2>9, <2>10, <2>12 DEF Loop
  <2>14. Getting'
    BY <2>1, <2>9, <2>13, <1>1, <1>3 DEF Getting
  <2>15. Shape'
    <3>1. msg_id' \in Nat /\ op' = "get" /\ local' \in Seq(Nat) /\ cmd' \in {"get", "reget"}
      BY <2>1, <2>2, <1>1, <1>3
    <3>2. interrupted' \in BOOLEAN /\ failed' \in BOOLEAN /\ uncut' \in BOOLEAN
      BY <2>1, <1>1, <1>3, Zenon
    <3>3. reps' \in Seq(Reply)
      BY <2>1, <1>1
    <3> QED BY <3>1, <3>2, <3>3, <2>1, <1>1, <1>3 DEF Shape
  <2>16. Handles'
    BY <2>4, <2>9, <1>3 DEF Handles
  <2>17. Putting' /\ Between' /\ Results' /\ Closing'
    BY <1>3 DEF Putting, Between, Results, Closing
  <2>18. Remote'
    BY <1>1, <1>3 DEF IInv, Remote
  <2> QED BY <2>14, <2>15, <2>16, <2>17, <2>18 DEF IInv
<1>4. ASSUME NEW i \in 1..(Len(handles) + 1), ProcessOpen("read", i), op' = "fail",
             g' = [NoTransfer EXCEPT !.h = i], local' = local, uncut' = uncut,
             msg_id' = msg_id + 1, remote' = remote
      PROVE  IInv'
  <2>1. Shape /\ Table /\ OpenHandles = {} /\ Between /\ Remote
    BY <1>1 DEF IInv, Handles
  <2>2. i \in Nat
    BY <2>1 DEF Table
  <2>3. Table' /\ OpenHandles' = {i} /\ handles'[i] = "read"
    BY <2>1, <2>2, <1>4, OpenKeeps
  <2>4. g'.h = i
    BY <1>4 DEF NoTransfer
  <2>5. Handles'
    BY <2>3, <2>4, <1>4 DEF Handles
  <2>6. Shape'
    <3>1. interrupted' \in BOOLEAN
      BY <1>1, Zenon
    <3>2. msg_id' \in Nat
      BY <2>1, <1>4 DEF Shape
    <3> QED BY <3>1, <3>2, <2>1, <1>1, <1>4 DEF Shape
  <2>7. Between' /\ Remote'
    BY <2>1, <1>1, <1>4 DEF Between, Remote, Doubt
  <2>8. Getting' /\ Putting' /\ Results' /\ Closing'
    BY <1>4 DEF Getting, Putting, Results, Closing
  <2> QED BY <2>5, <2>6, <2>7, <2>8 DEF IInv
<1> QED BY <1>2, <1>3, <1>4 DEF StartGet

LEMMA StartPutKeeps ==
  ASSUME IInv, NEW r, StartPut(r)
  PROVE  IInv'
<1>1. /\ r \in {"put", "reput"} /\ op = "idle" /\ cmd' = r /\ interrupted' = FALSE
      /\ reqs' = reqs /\ reps' = reps /\ disk' = disk /\ uncut' = uncut
  BY DEF StartPut, Start
<1> DEFINE start == IF r = "reput" THEN Len(remote) ELSE 0
           flags == IF r = "reput" THEN "append" ELSE "write"
<1>2. ASSUME Refused(r), failed' = failed PROVE IInv'
  <2>1. /\ op = "idle" /\ interrupted' = FALSE /\ reqs' = reqs /\ reps' = reps /\ disk' = disk
    BY <1>1
  <2> QED BY <1>2, <2>1, Refusal, Zenon
<1>3. ASSUME NEW i \in 1..(Len(handles) + 1), ProcessOpen(flags, i), r = "reput" => start < Size,
             u' = [h |-> i, id |-> msg_id, startid |-> msg_id + 1,
                   ackid |-> msg_id + 1, requests |-> <<>>,
                   offset |-> start, status |-> "OK", len |-> 0, waiting |-> FALSE],
             op' = "put", remote' = IF r = "put" THEN <<>> ELSE remote,
             failed' = (failed /\ r = "reput"), msg_id' = msg_id + 1, local' = local
      PROVE  IInv'
  <2>1. /\ reqs = <<>> /\ reps = <<>> /\ msg_id \in Nat /\ disk \in Nat /\ local \in Seq(Nat)
        /\ remote \in Seq(Nat) /\ failed \in BOOLEAN /\ uncut \in BOOLEAN /\ Table /\ OpenHandles = {}
    BY <1>1 DEF IInv, Shape, Handles
  <2>2. start \in Nat /\ start <= Size /\ remote' \in Seq(Nat) /\ Len(remote') = start
    BY <2>1, <1>1, <1>3, SftpAssumption
  <2>3. i \in Nat
    BY <2>1 DEF Table
  <2>4. Table' /\ OpenHandles' = {i} /\ handles'[i] \in {"write", "append"}
    <3>1. flags \in {"write", "append"} /\ flags \in {"read", "write", "append"}
      OBVIOUS
    <3> HIDE DEF flags
    <3> QED BY <3>1, <2>1, <2>3, <1>3, OpenKeeps
  <2>5. ~failed' => Begins(remote')
    <3>1. CASE r = "put"
      <4>1. Begins(<<>>)
        BY SftpAssumption DEF Begins
      <4> QED BY <4>1, <3>1, <1>3
    <3>2. CASE r = "reput"
      <4>1. failed' = failed /\ remote' = remote
        BY <2>1, <3>2, <1>3
      <4> QED BY <4>1 DEF IInv, Remote
    <3> QED BY <3>1, <3>2, <1>1
  <2> HIDE DEF start
  <2>6. u' \in PutType
    <3>1. <<>> \in Seq(Posted)
      OBVIOUS
    <3> QED BY <3>1, <2>1, <2>2, <2>3, <1>3 DEF PutType
  <2>7. /\ u'.h = i /\ u'.requests = <<>> /\ u'.offset = start /\ u'.waiting = FALSE
    BY <1>3
  <2>8. Sent' = start
    BY <2>7 DEF Sent
  <2>9. Putting'
    <3>1. DOMAIN <<>> = {} /\ <<>> \in Seq(WriteReq)
      OBVIOUS
    <3>2. Matched(<<>>, <<>>, <<>>)
      BY <3>1 DEF Matched, Distinct, Apart, Within
    <3>3. Continues(remote', <<>>, start)
      BY <3>1, <2>2 DEF Continues
    <3>4. reqs' = <<>> /\ reps' = <<>>
      BY <2>1, <1>1
    <3> QED BY <3>1, <3>2, <3>3, <3>4, <2>2, <2>6, <2>7, <2>8 DEF Putting
  <2>10. Shape'
    <3>1. msg_id' \in Nat /\ op' = "put" /\ local' \in Seq(Nat) /\ cmd' \in {"put", "reput"}
      BY <2>1, <1>1, <1>3
    <3>2. interrupted' \in BOOLEAN /\ failed' \in BOOLEAN
      BY <2>1, <1>1, <1>3, Zenon
    <3>3. reps' \in Seq(Reply)
      BY <2>1, <1>1
    <3> QED BY <3>1, <3>2, <3>3, <2>1, <2>2, <1>1, <1>3 DEF Shape
  <2>11. Handles'
    BY <2>4, <2>7, <1>3 DEF Handles
  <2>12. Getting' /\ Results' /\ Closing'
    BY <1>3 DEF Getting, Results, Closing
  <2>13. Between'
    BY <1>1, <1>3 DEF IInv, Between, Doubt
  <2> QED BY <2>5, <2>9, <2>10, <2>11, <2>12, <2>13 DEF IInv, Remote
<1> QED BY <1>2, <1>3 DEF StartPut

-----------------------------------------------------------------------------
(* The server answers a request.                                           *)

LEMMA FullData ==
  ASSUME NEW off \in Nat, NEW n \in Nat, off + n <= Size
  PROVE  /\ SubSeq(Full, off + 1, off + n) \in Seq(Nat)
         /\ Len(SubSeq(Full, off + 1, off + n)) = n
         /\ \A k \in 1..n : SubSeq(Full, off + 1, off + n)[k] = off + k
<1>1. Size \in Nat
  BY SftpAssumption
<1>2. \A i \in 1..Size : i \in Nat
  BY <1>1
<1>3. Full \in Seq(Nat) /\ Len(Full) = Size /\ \A i \in 1..Size : Full[i] = i
  BY <1>1, <1>2 DEF Full
<1> DEFINE d == SubSeq(Full, off + 1, off + n)
<1>4. d = [k \in 1..n |-> Full[off + k]]
  BY <1>1, <1>3
<1>5. \A k \in 1..n : off + k \in 1..Size /\ off + k \in Nat
  BY <1>1
<1>6. \A k \in 1..n : d[k] = off + k /\ d[k] \in Nat
  BY <1>3, <1>4, <1>5
<1> HIDE DEF d
<1>7. d \in Seq(Nat) /\ Len(d) = n
  BY <1>4, <1>6
<1> QED BY <1>6, <1>7 DEF d

\* process_read()
LEMMA ReadAnswer ==
  ASSUME NEW r \in ReadReq, HandleIsOk(r.h), ProcessRead(r)
  PROVE  /\ remote' = remote /\ failed' = failed
         /\ \E rep \in Reply : reps' = Append(reps, rep) /\ rep.id = r.id /\ Fits(r, rep)
<1> DEFINE got == Smaller(r.len, Size - r.off)
           Data(n) == SubSeq(Full, r.off + 1, r.off + n)
<1>1. r.id \in Nat /\ r.off \in Nat /\ r.len \in Nat \ {0} /\ Size \in Nat
  BY SftpAssumption DEF ReadReq
<1>2. /\ remote' = remote /\ failed' = failed
      /\ \/ got <= 0 /\ Answer(r, "EOF", <<>>)
         \/ got > 0 /\ Answer(r, "DATA", Data(got))
         \/ \E n \in 1..(got - 1) : Answer(r, "DATA", Data(n))
         \/ Answer(r, "FAILURE", <<>>)
  BY DEF ProcessRead
<1>3. got \in Int /\ got <= r.len /\ got <= Size - r.off /\ (got <= 0 => Size <= r.off)
  BY <1>1 DEF Smaller
<1> HIDE DEF got
<1>4. <<>> \in Seq(Nat)
  OBVIOUS
<1>5. CASE got <= 0 /\ Answer(r, "EOF", <<>>)
  <2> DEFINE rep == [id |-> r.id, type |-> "EOF", data |-> <<>>]
  <2>1. rep \in Reply /\ rep.id = r.id /\ rep.type = "EOF"
    BY <1>1, <1>4 DEF Reply
  <2>2. reps' = Append(reps, rep)
    BY <1>5 DEF Answer
  <2> HIDE DEF rep
  <2>3. Fits(r, rep)
    BY <2>1, <1>1, <1>3, <1>5 DEF Fits
  <2> QED BY <2>1, <2>2, <2>3, <1>2
<1>6. ASSUME NEW n \in Nat, n >= 1, n <= got, Answer(r, "DATA", Data(n))
      PROVE  \E rep \in Reply : reps' = Append(reps, rep) /\ rep.id = r.id /\ Fits(r, rep)
  <2>1. r.off + n <= Size /\ n <= r.len
    BY <1>1, <1>3, <1>6
  <2>2. Data(n) \in Seq(Nat) /\ Len(Data(n)) = n /\ \A k \in 1..n : Data(n)[k] = r.off + k
    BY <2>1, <1>1, FullData
  <2>3. PICK d : d = Data(n)
    OBVIOUS
  <2>4. d \in Seq(Nat) /\ Len(d) = n /\ DOMAIN d = 1..n /\ \A k \in 1..n : d[k] = r.off + k
    BY <2>2, <2>3
  <2> DEFINE rep == [id |-> r.id, type |-> "DATA", data |-> d]
  <2>5. rep \in Reply /\ rep.id = r.id /\ rep.type = "DATA" /\ rep.data = d
    BY <2>4, <1>1 DEF Reply
  <2>6. reps' = Append(reps, rep)
    BY <2>3, <1>6 DEF Answer
  <2> HIDE DEF rep
  <2>7. Fits(r, rep)
    BY <2>1, <2>4, <2>5, <1>1, <1>6 DEF Fits
  <2> QED BY <2>5, <2>6, <2>7
<1>7. CASE got > 0 /\ Answer(r, "DATA", Data(got))
  <2>1. got \in Nat /\ got >= 1 /\ got <= got
    BY <1>3, <1>7
  <2> QED BY <2>1, <1>2, <1>6, <1>7
<1>8. CASE \E n \in 1..(got - 1) : Answer(r, "DATA", Data(n))
  <2>1. PICK n \in 1..(got - 1) : Answer(r, "DATA", Data(n))
    BY <1>8
  <2>2. n \in Nat /\ n >= 1 /\ n <= got
    BY <1>3
  <2> QED BY <2>1, <2>2, <1>2, <1>6
<1>9. CASE Answer(r, "FAILURE", <<>>)
  <2> DEFINE rep == [id |-> r.id, type |-> "FAILURE", data |-> <<>>]
  <2>1. rep \in Reply /\ rep.id = r.id /\ rep.type = "FAILURE"
    BY <1>1, <1>4 DEF Reply
  <2>2. reps' = Append(reps, rep)
    BY <1>9 DEF Answer
  <2> HIDE DEF rep
  <2>3. Fits(r, rep)
    BY <2>1 DEF Fits
  <2> QED BY <2>1, <2>2, <2>3, <1>2
<1> QED BY <1>2, <1>5, <1>7, <1>8, <1>9

LEMMA AskedProcess ==
  ASSUME NEW queue \in Seq(Wanted), NEW id, NEW h, NEW rq, NEW rp \in Seq(Reply),
         NEW rep \in Reply, rq # <<>>, rep.id = rq[1].id, Fits(rq[1], rep),
         Asked(queue, id, h, rq, rp)
  PROVE  Asked(queue, id, h, Tail(rq), Append(rp, rep))
<1> DEFINE t == Tail(rq)
           p == Append(rp, rep)
<1>1. rq \in Seq(ReadReq) /\ Matched(queue, rq, rp)
  BY DEF Asked
<1>2. /\ 1 \in DOMAIN rq /\ t \in Seq(ReadReq)
      /\ \A k \in DOMAIN t : k + 1 \in DOMAIN rq /\ t[k] = rq[k + 1]
  BY <1>1, TailFacts
<1>3. /\ \A k \in DOMAIN rp : p[k] = rp[k]
      /\ p[Len(rp) + 1] = rep
      /\ \A k \in DOMAIN p : k \in DOMAIN rp \/ k = Len(rp) + 1
  BY AppendFacts
<1>4. Matched(queue, t, p)
  BY <1>1, MatchedProcess
<1> HIDE DEF t, p
<1>5. ASSUME NEW i \in DOMAIN queue, queue[i].id = rep.id PROVE Fits(queue[i], rep)
  <2>1. rq[1].off = queue[i].off /\ rq[1].len = queue[i].len
    BY <1>2, <1>5 DEF Asked
  <2> QED BY <2>1 DEF Fits
<1>6. \A k \in DOMAIN p : \A i \in DOMAIN queue : queue[i].id = p[k].id => Fits(queue[i], p[k])
  BY <1>3, <1>5 DEF Asked
<1>7. /\ \A k \in DOMAIN t : \A i \in DOMAIN queue :
           queue[i].id = t[k].id => t[k].off = queue[i].off /\ t[k].len = queue[i].len
      /\ \A k \in DOMAIN t : t[k].h = h
  <2>1. \A l \in DOMAIN rq : rq[l].h = h
    BY DEF Asked
  <2>2. \A l \in DOMAIN rq : \A i \in DOMAIN queue :
          queue[i].id = rq[l].id => rq[l].off = queue[i].off /\ rq[l].len = queue[i].len
    BY DEF Asked
  <2>3. \A k \in DOMAIN t : \E l \in DOMAIN rq : t[k] = rq[l]
    BY <1>2, Zenon
  <2> QED BY <2>1, <2>2, <2>3
<1>8. Asked(queue, id, h, t, p)
  <2>1. \A i \in DOMAIN queue : queue[i].id < id
    BY DEF Asked
  <2>2. t \in Seq(ReadReq) /\ Matched(queue, t, p)
    BY <1>2, <1>4
  <2> QED BY <2>1, <2>2, <1>6, <1>7 DEF Asked
<1> QED BY <1>8 DEF t, p

\* lseek() and write() of any data
LEMMA WriteAtType ==
  ASSUME NEW f \in Seq(Nat), NEW off \in Nat, NEW data \in Seq(Nat)
  PROVE  WriteAt(f, off, data) \in Seq(Nat)
<1> DEFINE n == Larger(Len(f), off + Len(data))
           w == WriteAt(f, off, data)
<1>1. n \in Nat /\ Len(data) \in Nat /\ Len(f) \in Nat
  BY DEF Larger
<1>2. w = [i \in 1..n |-> IF i > off /\ i <= off + Len(data) THEN data[i - off]
                          ELSE IF i <= Len(f) THEN f[i] ELSE 0]
  BY DEF WriteAt
<1> HIDE DEF n, w
<1>3. \A i \in 1..n : i > off /\ i <= off + Len(data) => i - off \in DOMAIN data
  BY <1>1
<1>4. \A i \in 1..n : w[i] \in Nat
  BY <1>1, <1>2, <1>3
<1>5. w \in Seq(Nat)
  BY <1>1, <1>2, <1>4
<1> QED BY <1>5 DEF w

\* Writing the first request of those under way leaves the others to continue.
LEMMA ContinuesWrite ==
  ASSUME NEW f \in Seq(Nat), Begins(f), NEW rq \in Seq(WriteReq), rq # <<>>,
         NEW n \in Nat, n <= Size, Continues(f, rq, n)
  PROVE  LET w == WriteAt(f, Len(f), rq[1].data)
         IN w \in Seq(Nat) /\ Begins(w) /\ Continues(w, Tail(rq), n)
<1> DEFINE m == Len(f)
           d == rq[1].data
           w == WriteAt(f, m, d)
           t == Tail(rq)
<1>1. /\ 1 \in DOMAIN rq /\ rq[1] \in WriteReq /\ t \in Seq(WriteReq) /\ Len(t) = Len(rq) - 1
      /\ \A k \in DOMAIN t : k + 1 \in DOMAIN rq /\ t[k] = rq[k + 1]
  BY TailFacts
<1>2. d \in Seq(Nat) /\ m \in Nat /\ Len(d) \in Nat /\ rq[1].off = m /\ m + Len(d) <= n
  <2>1. d \in Seq(Nat) /\ rq[1].off \in Nat
    BY <1>1 DEF WriteReq
  <2>2. rq[1].off = m /\ rq[1].off + Len(d) <= n
    BY <1>1 DEF Continues
  <2> QED BY <2>1, <2>2
<1>3. \A i \in DOMAIN d : d[i] = m + i
  BY <1>1, <1>2 DEF Continues
<1>4. Size \in Nat /\ \A i \in 1..m : f[i] = i
  BY SftpAssumption DEF Begins
<1>5. w = [i \in 1..(m + Len(d)) |-> IF i > m /\ i <= m + Len(d) THEN d[i - m]
                                     ELSE IF i <= m THEN f[i] ELSE 0]
  <2>1. Larger(m, m + Len(d)) = m + Len(d)
    BY <1>2 DEF Larger
  <2> QED BY <2>1 DEF WriteAt
<1>6. w \in Seq(Nat)
  BY <1>2, WriteAtType
<1> HIDE DEF m, d, w, t
<1>7. \A i \in 1..(m + Len(d)) : w[i] = i
  <2>1. ASSUME NEW i \in 1..(m + Len(d)) PROVE w[i] = i
    <3>1. CASE i > m
      <4>1. i - m \in DOMAIN d /\ m + (i - m) = i
        BY <3>1, <1>2
      <4>2. w[i] = d[i - m]
        BY <3>1, <1>2, <1>5
      <4> QED BY <4>1, <4>2, <1>3
    <3>2. CASE ~(i > m)
      BY <3>2, <1>2, <1>4, <1>5
    <3> QED BY <3>1, <3>2
  <2> QED BY <2>1
<1>8. Len(w) = m + Len(d) /\ DOMAIN w = 1..(m + Len(d))
  BY <1>2, <1>5, <1>6
<1>9. Begins(w)
  BY <1>2, <1>4, <1>7, <1>8 DEF Begins
<1>10. Continues(w, t, n)
  <2>0. Len(rq) \in Nat /\ Len(t) \in Nat /\ DOMAIN rq = 1..Len(rq) /\ DOMAIN t = 1..Len(t)
    BY <1>1
  <2>1. t = <<>> => Len(w) = n
    <3>1. t = <<>> => Len(rq) = 1
      <4>1. t = <<>> => Len(t) = 0
        OBVIOUS
      <4> QED BY <4>1, <2>0, <1>1
    <3>2. rq[Len(rq)].off + Len(rq[Len(rq)].data) = n
      BY DEF Continues
    <3> QED BY <3>1, <3>2, <1>2, <1>8 DEF d
  <2>2. t # <<>> => Len(w) = t[1].off /\ t[Len(t)].off + Len(t[Len(t)].data) = n
    <3> SUFFICES ASSUME t # <<>> PROVE Len(w) = t[1].off /\ t[Len(t)].off + Len(t[Len(t)].data) = n
      OBVIOUS
    <3>1. Len(t) # 0
      BY <1>1
    <3>2. 1 \in DOMAIN t /\ Len(t) \in DOMAIN t /\ Len(t) + 1 = Len(rq) /\ 1 \in 1..(Len(rq) - 1)
      BY <3>1, <2>0, <1>1
    <3>3. t[1] = rq[1 + 1] /\ t[Len(t)] = rq[Len(rq)]
      BY <3>2, <1>1
    <3>4. rq[1].off + Len(rq[1].data) = rq[1 + 1].off
      BY <3>2 DEF Continues
    <3>5. rq[Len(rq)].off + Len(rq[Len(rq)].data) = n
      BY DEF Continues
    <3> QED BY <3>3, <3>4, <3>5, <1>2, <1>8 DEF d
  <2>3. \A k \in 1..(Len(t) - 1) : t[k].off + Len(t[k].data) = t[k + 1].off
    <3> SUFFICES ASSUME NEW k \in 1..(Len(t) - 1) PROVE t[k].off + Len(t[k].data) = t[k + 1].off
      OBVIOUS
    <3>1. k \in DOMAIN t /\ k + 1 \in DOMAIN t /\ k + 1 \in 1..(Len(rq) - 1)
      BY <2>0, <1>1
    <3>2. t[k] = rq[k + 1] /\ t[k + 1] = rq[(k + 1) + 1]
      BY <3>1, <1>1
    <3>3. rq[k + 1].off + Len(rq[k + 1].data) = rq[(k + 1) + 1].off
      BY <3>1 DEF Continues
    <3> QED BY <3>2, <3>3
  <2>4. \A k \in DOMAIN t : t[k].off + Len(t[k].data) <= n
    BY <1>1 DEF Continues
  <2>5. \A k \in DOMAIN t : \A i \in DOMAIN t[k].data : t[k].data[i] = t[k].off + i
    <3>1. \A l \in DOMAIN rq : \A i \in DOMAIN rq[l].data : rq[l].data[i] = rq[l].off + i
      BY DEF Continues
    <3> QED BY <3>1, <1>1
  <2> QED BY <2>1, <2>2, <2>3, <2>4, <2>5 DEF Continues
<1> QED BY <1>6, <1>9, <1>10 DEF m, d, w, t

\* process_write()
LEMMA WriteAnswer ==
  ASSUME NEW r \in WriteReq, HandleIsOk(r.h), ProcessWrite(r), remote \in Seq(Nat), failed \in BOOLEAN
  PROVE  /\ \E rep \in Reply : /\ reps' = Append(reps, rep) /\ rep.id = r.id
                               /\ rep.type \in {"OK", "FAILURE"}
         /\ failed' \in BOOLEAN /\ remote' \in Seq(Nat)
         /\ ~failed' => ~failed /\ (remote' = WriteAt(remote, r.off, r.data)
                                    \/ remote' = WriteAt(remote, Len(remote), r.data))
<1> DEFINE off == IF handles[r.h] = "append" THEN Len(remote) ELSE r.off
<1>1. r.id \in Nat /\ r.off \in Nat /\ r.data \in Seq(Nat) /\ off \in Nat /\ <<>> \in Seq(Nat)
  BY DEF WriteReq
<1>2. ASSUME NEW type \in {"OK", "FAILURE"}, Answer(r, type, <<>>)
      PROVE  \E rep \in Reply : /\ reps' = Append(reps, rep) /\ rep.id = r.id
                                /\ rep.type \in {"OK", "FAILURE"}
  <2> DEFINE rep == [id |-> r.id, type |-> type, data |-> <<>>]
  <2>1. rep \in Reply /\ rep.id = r.id /\ rep.type = type
    BY <1>1 DEF Reply
  <2>2. reps' = Append(reps, rep)
    BY <1>2 DEF Answer
  <2> HIDE DEF rep
  <2> QED BY <2>1, <2>2
<1>3. \/ /\ remote' = WriteAt(remote, off, r.data) /\ Answer(r, "OK", <<>>) /\ failed' = failed
      \/ /\ failed' = TRUE /\ Answer(r, "FAILURE", <<>>)
         /\ \E n \in 0..(Len(r.data) - 1) :
              remote' = IF n = 0 THEN remote ELSE WriteAt(remote, off, SubSeq(r.data, 1, n))
  BY DEF ProcessWrite
<1>4. off = r.off \/ off = Len(remote)
  OBVIOUS
<1> HIDE DEF off
<1>5. CASE /\ remote' = WriteAt(remote, off, r.data) /\ Answer(r, "OK", <<>>) /\ failed' = failed
  <2>1. remote' \in Seq(Nat)
    BY <1>1, <1>5, WriteAtType
  <2>2. remote' = WriteAt(remote, r.off, r.data) \/ remote' = WriteAt(remote, Len(remote), r.data)
    BY <1>4, <1>5
  <2>3. failed' \in BOOLEAN
    BY <1>5, Zenon
  <2> QED BY <2>1, <2>2, <2>3, <1>2, <1>5
<1>6. CASE /\ failed' = TRUE /\ Answer(r, "FAILURE", <<>>)
           /\ \E n \in 0..(Len(r.data) - 1) :
                remote' = IF n = 0 THEN remote ELSE WriteAt(remote, off, SubSeq(r.data, 1, n))
  <2>1. PICK n \in 0..(Len(r.data) - 1) :
             remote' = IF n = 0 THEN remote ELSE WriteAt(remote, off, SubSeq(r.data, 1, n))
    BY <1>6
  <2>2. remote' \in Seq(Nat)
    <3>1. CASE n = 0
      BY <3>1, <2>1
    <3>2. CASE n # 0
      <4>1. SubSeq(r.data, 1, n) \in Seq(Nat)
        <5>1. n \in Nat /\ n >= 1 /\ n <= Len(r.data)
          BY <3>2, <1>1
        <5> QED BY <5>1, <1>1
      <4>2. remote' = WriteAt(remote, off, SubSeq(r.data, 1, n))
        BY <3>2, <2>1
      <4> QED BY <4>1, <4>2, <1>1, WriteAtType
    <3> QED BY <3>1, <3>2
  <2>3. failed' \in BOOLEAN
    BY <1>6, Zenon
  <2> QED BY <2>2, <2>3, <1>2, <1>6
<1> QED BY <1>3, <1>5, <1>6

LEMMA ProcessKeeps ==
  ASSUME IInv, Process
  PROVE  IInv'
<1>1. /\ reqs # <<>> /\ reqs' = Tail(reqs)
      /\ ProcessRead(Head(reqs)) \/ ProcessWrite(Head(reqs))
      /\ op' = op /\ cmd' = cmd /\ g' = g /\ u' = u /\ msg_id' = msg_id
      /\ interrupted' = interrupted /\ handles' = handles /\ unused' = unused
      /\ local' = local /\ disk' = disk /\ last' = last /\ uncut' = uncut
  BY DEF Process, cvars, svars
<1>2. Shape /\ Handles /\ Getting /\ Closing /\ Putting /\ Between /\ Remote /\ Results
  BY DEF IInv
<1>3. op \in {"get", "put"} /\ reps \in Seq(Reply)
  BY <1>1, <1>2 DEF Shape
<1>4. Handles' /\ Between' /\ Closing'
  BY <1>1, <1>2 DEF Handles, Table, OpenHandles, Between, Closing, Doubt
<1>5. CASE op = "get"
  <2>1. /\ Loop(g, local, reqs, reps, Doubt, interrupted) /\ g.send = <<>> /\ g.id = msg_id
    BY <1>2, <1>5 DEF Getting
  <2>2. /\ reqs \in Seq(ReadReq) /\ g.requests \in Seq(Wanted)
        /\ Asked(g.requests, g.id, g.h, reqs, reps)
    BY <2>1 DEF Loop, Asked, GetType
  <2>3. 1 \in DOMAIN reqs /\ Head(reqs) = reqs[1] /\ reqs[1] \in ReadReq
    BY <2>2, <1>1, TailFacts
  <2>4. PICK r : r = reqs[1]
    OBVIOUS
  <2>5. r \in ReadReq /\ r.type = "READ" /\ r.h = g.h
    BY <2>2, <2>3, <2>4 DEF ReadReq, Asked
  <2>6. ProcessRead(r)
    <3>1. ~ProcessWrite(r)
      BY <2>5 DEF ProcessWrite
    <3> QED BY <3>1, <2>3, <2>4, <1>1
  <2>7. HandleIsOk(r.h)
    <3>1. OpenHandles = {g.h}
      BY <1>2, <1>5 DEF Handles
    <3> QED BY <3>1, <2>5 DEF OpenHandles, HandleIsOk
  <2>8. /\ remote' = remote /\ failed' = failed
        /\ \E rep \in Reply : reps' = Append(reps, rep) /\ rep.id = r.id /\ Fits(r, rep)
    BY <2>5, <2>6, <2>7, ReadAnswer
  <2>9. PICK rep \in Reply : reps' = Append(reps, rep) /\ rep.id = r.id /\ Fits(r, rep)
    BY <2>8
  <2>10. Asked(g.requests, g.id, g.h, reqs', reps')
    <3>1. Asked(g.requests, g.id, g.h, Tail(reqs), Append(reps, rep))
      BY <2>2, <2>4, <2>9, <1>1, <1>3, AskedProcess
    <3> QED BY <3>1, <2>9, <1>1, Zenon
  <2>11. reps' \in Seq(Reply)
    BY <2>9, <1>3, AppendFacts
  <2>12. Shape'
    BY <2>8, <2>11, <1>1, <1>2, <1>3, <1>5 DEF Shape
  <2>13. Getting'
    <3>1. Loop(g, local, reqs', reps', Doubt, interrupted)
      BY <2>1, <2>10 DEF Loop
    <3>2. Doubt' = Doubt
      BY <1>1 DEF Doubt
    <3> QED BY <3>1, <3>2, <2>1, <1>1, <1>5 DEF Getting
  <2>14. Putting' /\ Remote' /\ Results'
    BY <2>8, <1>1, <1>2, <1>5 DEF Putting, Remote, Results
  <2> QED BY <2>12, <2>13, <2>14, <1>4 DEF IInv
<1>6. CASE op = "put"
  <2>1. /\ u \in PutType /\ reqs \in Seq(WriteReq) /\ Matched(u.requests, reqs, reps)
        /\ \A i \in DOMAIN u.requests : u.requests[i].id <= u.id
        /\ \A k \in DOMAIN reps : reps[k].type \in {"OK", "FAILURE"}
        /\ \A k \in DOMAIN reqs : reqs[k].h = u.h
        /\ Sent <= Size /\ (~failed => Continues(remote, reqs, Sent))
    BY <1>2, <1>6 DEF Putting
  <2>2. /\ 1 \in DOMAIN reqs /\ Head(reqs) = reqs[1] /\ reqs[1] \in WriteReq
        /\ Tail(reqs) \in Seq(WriteReq)
        /\ \A k \in DOMAIN Tail(reqs) : k + 1 \in DOMAIN reqs /\ Tail(reqs)[k] = reqs[k + 1]
    BY <2>1, <1>1, TailFacts
  <2>3. PICK r : r = reqs[1]
    OBVIOUS
  <2>4. r \in WriteReq /\ r.type = "WRITE" /\ r.h = u.h
    BY <2>1, <2>2, <2>3 DEF WriteReq
  <2>5. ProcessWrite(r)
    <3>1. ~ProcessRead(r)
      BY <2>4 DEF ProcessRead
    <3> QED BY <3>1, <2>2, <2>3, <1>1
  <2>6. HandleIsOk(r.h)
    <3>1. OpenHandles = {u.h}
      BY <1>2, <1>6 DEF Handles
    <3> QED BY <3>1, <2>4 DEF OpenHandles, HandleIsOk
  <2>7. remote \in Seq(Nat) /\ failed \in BOOLEAN
    BY <1>2 DEF Shape
  <2>8. /\ \E rep \in Reply : /\ reps' = Append(reps, rep) /\ rep.id = r.id
                              /\ rep.type \in {"OK", "FAILURE"}
        /\ failed' \in BOOLEAN /\ remote' \in Seq(Nat)
        /\ ~failed' => ~failed /\ (remote' = WriteAt(remote, r.off, r.data)
                                   \/ remote' = WriteAt(remote, Len(remote), r.data))
    BY <2>4, <2>5, <2>6, <2>7, WriteAnswer
  <2>9. PICK rep \in Reply : /\ reps' = Append(reps, rep) /\ rep.id = r.id
                             /\ rep.type \in {"OK", "FAILURE"}
    BY <2>8
  <2>10. /\ reps' \in Seq(Reply)
         /\ \A k \in DOMAIN reps : reps'[k] = reps[k]
         /\ reps'[Len(reps) + 1] = rep
         /\ \A k \in DOMAIN reps' : k \in DOMAIN reps \/ k = Len(reps) + 1
    BY <2>9, <1>3, AppendFacts
  <2>11. Matched(u.requests, reqs', reps')
    <3>1. Matched(u.requests, Tail(reqs), Append(reps, rep))
      BY <2>1, <2>3, <2>9, <1>1, <1>3, MatchedProcess
    <3> QED BY <3>1, <2>9, <1>1, Zenon
  <2>12. \A k \in DOMAIN reps' : reps'[k].type \in {"OK", "FAILURE"}
    BY <2>1, <2>9, <2>10
  <2>13. \A k \in DOMAIN reqs' : reqs'[k].h = u.h
    BY <2>1, <2>2, <1>1
  <2>14. Sent' = Sent /\ Sent \in Nat
    BY <2>1, <1>1 DEF Sent, PutType
  <2>15. ASSUME ~failed' PROVE Begins(remote') /\ Continues(remote', reqs', Sent)
    <3>1. ~failed /\ Continues(remote, reqs, Sent) /\ Begins(remote)
      BY <2>1, <2>8, <2>15, <1>2 DEF Remote
    <3>2. Len(remote) = r.off
      BY <3>1, <2>3, <1>1 DEF Continues
    <3>3. remote' = WriteAt(remote, Len(remote), reqs[1].data)
      BY <3>2, <2>3, <2>8, <2>15
    <3>4. Begins(WriteAt(remote, Len(remote), reqs[1].data))
          /\ Continues(WriteAt(remote, Len(remote), reqs[1].data), Tail(reqs), Sent)
      BY <3>1, <2>1, <2>7, <2>14, <1>1, ContinuesWrite
    <3> QED BY <3>3, <3>4, <1>1, Zenon
  <2>16. Putting'
    <3>1. reqs' \in Seq(WriteReq)
      BY <2>2, <1>1
    <3> QED BY <3>1, <2>1, <2>11, <2>12, <2>13, <2>14, <2>15, <1>1 DEF Putting
  <2>17. Remote'
    BY <2>15 DEF Remote
  <2>18. Shape'
    BY <2>8, <2>10, <1>1, <1>2, <1>6 DEF Shape
  <2>19. Getting' /\ Results'
    BY <1>1, <1>6 DEF Getting, Results
  <2> QED BY <2>16, <2>17, <2>18, <2>19, <1>4 DEF IInv
<1> QED BY <1>3, <1>5, <1>6

-----------------------------------------------------------------------------
(* do_upload.                                                              *)

\* A new write continues those under way.
LEMMA ContinuesSend ==
  ASSUME NEW f \in Seq(Nat), NEW rq \in Seq(WriteReq), NEW n \in Nat, Continues(f, rq, n),
         NEW x \in WriteReq, x.off = n, \A i \in DOMAIN x.data : x.data[i] = n + i
  PROVE  Continues(f, Append(rq, x), n + Len(x.data))
<1> DEFINE w == Append(rq, x)
           m == Len(rq)
<1>1. /\ w \in Seq(WriteReq) /\ Len(w) = m + 1
      /\ \A k \in DOMAIN rq : k \in DOMAIN w /\ w[k] = rq[k]
      /\ m + 1 \in DOMAIN w /\ w[m + 1] = x
      /\ \A k \in DOMAIN w : k \in DOMAIN rq \/ k = m + 1
  BY AppendFacts
<1>2. m \in Nat /\ Len(f) \in Nat /\ Len(x.data) \in Nat /\ DOMAIN rq = 1..m
  BY DEF WriteReq
<1>3. \A k \in DOMAIN rq : rq[k].off \in Nat /\ Len(rq[k].data) \in Nat
  <2>1. \A k \in DOMAIN rq : rq[k] \in WriteReq
    OBVIOUS
  <2>2. \A y \in WriteReq : y.off \in Nat /\ y.data \in Seq(Nat)
    BY DEF WriteReq
  <2>3. \A d \in Seq(Nat) : Len(d) \in Nat
    OBVIOUS
  <2> QED BY <2>1, <2>2, <2>3, Zenon
<1>4. m = 0 <=> rq = <<>>
  OBVIOUS
<1> HIDE DEF w, m
<1>5. w # <<>>
  <2>1. w = <<>> => Len(w) = 0
    OBVIOUS
  <2> QED BY <2>1, <1>1, <1>2
<1>6. Len(f) = w[1].off
  <2>1. CASE m = 0
    BY <2>1, <1>1, <1>4 DEF Continues
  <2>2. CASE m # 0
    <3>1. 1 \in DOMAIN rq /\ rq # <<>>
      BY <2>2, <1>2, <1>4
    <3> QED BY <3>1, <1>1 DEF Continues
  <2> QED BY <2>1, <2>2
<1>7. w[Len(w)].off + Len(w[Len(w)].data) = n + Len(x.data)
  BY <1>1
<1>8. \A k \in DOMAIN w : w[k].off + Len(w[k].data) <= n + Len(x.data)
  <2>1. \A k \in DOMAIN rq : rq[k].off + Len(rq[k].data) <= n
    BY DEF Continues
  <2>2. \A k \in DOMAIN rq : rq[k].off + Len(rq[k].data) <= n + Len(x.data)
    BY <2>1, <1>2, <1>3
  <2>3. x.off + Len(x.data) <= n + Len(x.data)
    BY <1>2
  <2> QED BY <2>2, <2>3, <1>1
<1>9. \A k \in 1..(Len(w) - 1) : w[k].off + Len(w[k].data) = w[k + 1].off
  <2> SUFFICES ASSUME NEW k \in 1..m PROVE w[k].off + Len(w[k].data) = w[k + 1].off
    BY <1>1, <1>2
  <2>1. w[k] = rq[k]
    BY <1>1, <1>2
  <2>2. CASE k = m
    <3>1. rq # <<>>
      BY <2>2, <1>2, <1>4
    <3>2. rq[m].off + Len(rq[m].data) = n
      BY <3>1 DEF Continues, m
    <3> QED BY <3>2, <2>1, <2>2, <1>1
  <2>3. CASE k # m
    <3>1. k \in 1..(m - 1) /\ k + 1 \in DOMAIN rq
      BY <2>3, <1>2
    <3>2. rq[k].off + Len(rq[k].data) = rq[k + 1].off
      BY <3>1 DEF Continues, m
    <3> QED BY <3>1, <3>2, <2>1, <1>1
  <2> QED BY <2>2, <2>3
<1>10. \A k \in DOMAIN w : \A i \in DOMAIN w[k].data : w[k].data[i] = w[k].off + i
  <2>1. \A k \in DOMAIN rq : \A i \in DOMAIN rq[k].data : rq[k].data[i] = rq[k].off + i
    BY DEF Continues
  <2> QED BY <2>1, <1>1
<1>11. Continues(f, w, n + Len(x.data))
  BY <1>5, <1>6, <1>7, <1>8, <1>9, <1>10 DEF Continues
<1> QED BY <1>11 DEF w

\* A new entry of the queue and its request.
LEMMA MatchedAppend ==
  ASSUME NEW queue \in Seq(Posted), NEW rq \in Seq(WriteReq), NEW rp,
         Matched(queue, rq, rp), NEW e \in Posted, NEW x \in WriteReq, x.id = e.id,
         \A i \in DOMAIN queue : queue[i].id < e.id
  PROVE  Matched(Append(queue, e), Append(rq, x), rp)
<1>1. <<e>> \in Seq(Posted) /\ <<x>> \in Seq(WriteReq)
  OBVIOUS
<1>2. DOMAIN <<e>> = {1} /\ DOMAIN <<x>> = {1} /\ <<e>>[1] = e /\ <<x>>[1] = x
  OBVIOUS
<1>3. Distinct(<<e>>)
  BY <1>2 DEF Distinct
<1>4. Apart(queue, <<e>>)
  <2>0. \A y \in Posted : y.id \in Nat
    BY DEF Posted
  <2>1. e.id \in Nat /\ \A i \in DOMAIN queue : queue[i].id \in Nat
    <3>1. \A i \in DOMAIN queue : queue[i] \in Posted
      OBVIOUS
    <3> QED BY <3>1, <2>0, Zenon
  <2>2. \A i \in DOMAIN queue : queue[i].id # e.id
    BY <2>1
  <2> QED BY <2>2, <1>2 DEF Apart
<1>5. Matched(queue \o <<e>>, rq \o <<x>>, rp)
  BY <1>1, <1>2, <1>3, <1>4, MatchedSend
<1>6. Append(queue, e) = queue \o <<e>> /\ Append(rq, x) = rq \o <<x>>
  BY AppendIsConcat
<1> QED BY <1>5, <1>6, Zenon

LEMMA PutSendKeeps ==
  ASSUME IInv, PutSend
  PROVE  IInv'
<1>1. PICK len : len = ReadLen
  OBVIOUS
<1>2. PICK id : id = IF len > 0 THEN u.id + 1 ELSE u.id
  OBVIOUS
<1>3. PICK wait : wait = MustWait(id, len)
  OBVIOUS
<1>4. PICK data : data = SubSeq(Full, u.offset + 1, u.offset + len)
  OBVIOUS
<1>5. /\ op = "put" /\ ~u.waiting
      /\ u' = [u EXCEPT !.id = id, !.len = len, !.waiting = wait,
                 !.offset = IF wait THEN @ ELSE @ + len,
                 !.requests = IF len > 0 THEN Append(@, [id |-> id]) ELSE @]
      /\ reqs' = IF len > 0
                 THEN Append(reqs, [type |-> "WRITE", id |-> id, h |-> u.h,
                                    off |-> u.offset, data |-> data])
                 ELSE reqs
      /\ UNCHANGED <<op, g, msg_id, svars, last, cmd, interrupted, reps, local, disk,
                     remote, ops, shorts, faults, intr, failed, uncut>>
  BY <1>1, <1>2, <1>3, <1>4, Zenon DEF PutSend
<1>6. /\ cmd' = cmd /\ interrupted' = interrupted /\ reps' = reps /\ local' = local
      /\ disk' = disk /\ remote' = remote /\ failed' = failed /\ uncut' = uncut
  BY <1>5
<1>7. Shape /\ Handles /\ Putting /\ Between /\ Remote
  BY DEF IInv
<1>8. /\ u \in PutType /\ reqs \in Seq(WriteReq) /\ Matched(u.requests, reqs, reps)
      /\ \A i \in DOMAIN u.requests : u.requests[i].id <= u.id
      /\ \A k \in DOMAIN reps : reps[k].type \in {"OK", "FAILURE"}
      /\ \A k \in DOMAIN reqs : reqs[k].h = u.h
      /\ Sent <= Size /\ (~failed => Continues(remote, reqs, Sent))
  BY <1>5, <1>7 DEF Putting
<1>9. /\ u.h \in Nat /\ u.id \in Nat /\ u.offset \in Nat /\ u.requests \in Seq(Posted)
      /\ u.status \in {"OK", "FAILURE"} /\ Sent = u.offset
  BY <1>5, <1>8 DEF PutType, Sent
<1>10. /\ reps \in Seq(Reply) /\ remote \in Seq(Nat) /\ msg_id \in Nat /\ local \in Seq(Nat)
       /\ disk \in Nat /\ interrupted \in BOOLEAN /\ failed \in BOOLEAN /\ cmd \in {"put", "reput"}
  BY <1>5, <1>7 DEF Shape
<1>11. /\ len \in Nat /\ u.offset + len <= Size
  BY <1>1, <1>8, <1>9, SftpAssumption DEF Smaller, ReadLen
<1>12. Remote' /\ Between'
  BY <1>5, <1>6, <1>7 DEF Remote, Between, Doubt
<1>14. ASSUME u' = [u EXCEPT !.id = id, !.len = len, !.waiting = wait,
                      !.offset = IF wait THEN @ ELSE @ + len,
                      !.requests = IF len > 0 THEN Append(@, [id |-> id]) ELSE @],
              reqs' = IF len > 0
                      THEN Append(reqs, [type |-> "WRITE", id |-> id, h |-> u.h,
                                         off |-> u.offset, data |-> data])
                      ELSE reqs,
              op' = op, g' = g, msg_id' = msg_id, handles' = handles, unused' = unused, last' = last
       PROVE  IInv'
  <2>1. PICK e : e = [id |-> id]
    OBVIOUS
  <2>2. PICK x : x = [type |-> "WRITE", id |-> id, h |-> u.h, off |-> u.offset, data |-> data]
    OBVIOUS
  <2>3. PICK q : q = IF len > 0 THEN Append(u.requests, e) ELSE u.requests
    OBVIOUS
  <2>4. PICK off : off = IF wait THEN u.offset ELSE u.offset + len
    OBVIOUS
  <2>5. id \in Nat /\ u.id <= id /\ (len > 0 => u.id < id)
    BY <1>2, <1>9
  <2>6. e \in Posted /\ e.id = id
    BY <2>1, <2>5 DEF Posted
  <2>7. q \in Seq(Posted) /\ off \in Nat
    BY <2>3, <2>4, <2>6, <1>9, <1>11, AppendFacts
  <2>8. wait \in BOOLEAN
    BY <1>3, Zenon DEF MustWait
  <2>9. data \in Seq(Nat) /\ Len(data) = len /\ \A k \in 1..len : data[k] = u.offset + k
    BY <1>4, <1>9, <1>11, FullData
  <2>10. x \in WriteReq /\ x.id = id /\ x.h = u.h /\ x.off = u.offset /\ x.data = data
    BY <2>2, <2>5, <2>9, <1>9 DEF WriteReq
  <2>11. u' = [u EXCEPT !.id = id, !.len = len, !.waiting = wait, !.offset = off, !.requests = q]
    BY <2>1, <2>3, <2>4, <1>14
  <2>12. reqs' = IF len > 0 THEN Append(reqs, x) ELSE reqs
    BY <2>2, <1>14
  <2>13. u' \in PutType
    BY <2>5, <2>7, <2>8, <2>11, <1>8, <1>11 DEF PutType
  <2>14. /\ u'.h = u.h /\ u'.id = id /\ u'.len = len /\ u'.waiting = wait /\ u'.offset = off
         /\ u'.requests = q
    BY <2>11, <1>8 DEF PutType
  <2>15. Sent' = u.offset + len
    BY <2>4, <2>8, <2>14 DEF Sent
  <2>16. /\ reqs' \in Seq(WriteReq) /\ Matched(q, reqs', reps)
         /\ \A i \in DOMAIN q : q[i].id <= id
         /\ \A k \in DOMAIN reqs' : reqs'[k].h = u.h
         /\ ~failed => Continues(remote, reqs', u.offset + len)
    <3>1. CASE len > 0
      <4>1. q = Append(u.requests, e) /\ reqs' = Append(reqs, x)
        BY <3>1, <2>3, <2>12
      <4>2. \A i \in DOMAIN u.requests : u.requests[i].id < e.id /\ u.requests[i].id <= id
        <5>1. \A i \in DOMAIN u.requests : u.requests[i].id \in Nat
          <6>1. \A y \in Posted : y.id \in Nat
            BY DEF Posted
          <6>2. \A i \in DOMAIN u.requests : u.requests[i] \in Posted
            BY <1>9
          <6> QED BY <6>1, <6>2, Zenon
        <5> QED BY <5>1, <3>1, <2>5, <2>6, <1>8, <1>9
      <4>3. Matched(q, reqs', reps)
        <5>1. Matched(Append(u.requests, e), Append(reqs, x), reps)
          BY <4>2, <2>6, <2>10, <1>8, <1>9, MatchedAppend
        <5> QED BY <5>1, <4>1, Zenon
      <4>4. /\ \A i \in DOMAIN u.requests : q[i] = u.requests[i]
            /\ q[Len(u.requests) + 1] = e
            /\ \A i \in DOMAIN q : i \in DOMAIN u.requests \/ i = Len(u.requests) + 1
        BY <4>1, <2>6, <1>9, AppendFacts
      <4>5. /\ reqs' \in Seq(WriteReq)
            /\ \A k \in DOMAIN reqs : reqs'[k] = reqs[k]
            /\ reqs'[Len(reqs) + 1] = x
            /\ \A k \in DOMAIN reqs' : k \in DOMAIN reqs \/ k = Len(reqs) + 1
        BY <4>1, <2>10, <1>8, AppendFacts
      <4>6. \A i \in DOMAIN q : q[i].id <= id
        <5>1. id <= id
          BY <2>5
        <5> QED BY <5>1, <4>2, <4>4, <2>6
      <4>7. \A k \in DOMAIN reqs' : reqs'[k].h = u.h
        BY <4>5, <2>10, <1>8
      <4>8. ASSUME ~failed PROVE Continues(remote, reqs', u.offset + len)
        <5>1. Continues(remote, reqs, u.offset)
          BY <4>8, <1>8, <1>9
        <5>2. \A i \in DOMAIN x.data : x.data[i] = u.offset + i
          BY <2>9, <2>10
        <5>3. Continues(remote, Append(reqs, x), u.offset + Len(x.data))
          BY <5>1, <5>2, <2>10, <1>8, <1>9, <1>10, ContinuesSend
        <5> QED BY <5>3, <4>1, <2>9, <2>10
      <4> QED BY <4>3, <4>5, <4>6, <4>7, <4>8
    <3>2. CASE ~(len > 0)
      <4>1. q = u.requests /\ reqs' = reqs /\ id = u.id /\ u.offset + len = u.offset
        BY <3>2, <2>3, <2>12, <1>2, <1>9, <1>11
      <4> QED BY <4>1, <1>8, <1>9
    <3> QED BY <3>1, <3>2
  <2>17. Putting'
    <3>1. Sent' <= Size /\ (~failed' => Continues(remote', reqs', Sent'))
      BY <2>15, <2>16, <1>6, <1>11
    <3>2. \A k \in DOMAIN reps' : reps'[k].type \in {"OK", "FAILURE"}
      BY <1>6, <1>8
    <3>3. /\ reqs' \in Seq(WriteReq) /\ Matched(u'.requests, reqs', reps')
          /\ \A i \in DOMAIN u'.requests : u'.requests[i].id <= u'.id
          /\ \A k \in DOMAIN reqs' : reqs'[k].h = u'.h
      BY <2>14, <2>16, <1>6
    <3> QED BY <3>1, <3>2, <3>3, <2>13, Zenon DEF Putting
  <2>18. Shape'
    BY <1>5, <1>6, <1>7, <1>10, <1>14 DEF Shape
  <2>19. Handles'
    BY <2>14, <1>5, <1>7, <1>14 DEF Handles, Table, OpenHandles
  <2>20. Getting' /\ Results' /\ Closing'
    BY <1>5, <1>14 DEF Getting, Results, Closing
  <2> QED BY <2>17, <2>18, <2>19, <2>20, <1>12 DEF IInv
<1> QED BY <1>5, <1>14 DEF svars

\* do_upload leaves its loop: what it sent is there.
LEMMA PutEndKeeps ==
  ASSUME IInv, PutEnd
  PROVE  IInv'
<1>1. /\ op = "put" /\ ~u.waiting /\ ReadLen = 0 /\ u.requests = <<>>
      /\ local' = local /\ disk' = disk
  BY DEF PutEnd
<1>2. PICK c \in BOOLEAN : DoClose(u.h, u.status = "OK" /\ c)
  BY DEF PutEnd
<1>3. PICK ok \in BOOLEAN : ok = (u.status = "OK" /\ c)
  BY Zenon
<1>4. DoClose(u.h, ok)
  BY <1>2, <1>3, Zenon
<1>5. /\ u \in PutType /\ reqs \in Seq(WriteReq) /\ Matched(<<>>, reqs, reps)
      /\ Sent <= Size /\ (~failed => Continues(remote, reqs, Sent))
  BY <1>1 DEF IInv, Putting
<1>6. reps \in Seq(Reply) /\ cmd \in {"put", "reput"} /\ OpenHandles = {u.h} /\ Remote
  BY <1>1 DEF IInv, Shape, Handles
<1>7. reqs = <<>> /\ reps = <<>>
  <2>1. Within(reqs, <<>>) /\ Within(reps, <<>>)
    BY <1>5 DEF Matched
  <2> QED BY <2>1, <1>5, <1>6, NothingLeft
<1>8. Sent = u.offset /\ u.offset \in Nat
  BY <1>1, <1>5 DEF Sent, PutType
<1>9. u.status = "OK" /\ ~interrupted => u.offset = Size
  BY <1>1, <1>5, <1>8, SftpAssumption DEF ReadLen, Smaller
<1>10. ok /\ ~failed => Begins(remote) /\ (Len(remote) = Size \/ interrupted)
  <2>1. ~failed => Begins(remote) /\ Len(remote) = u.offset
    BY <1>5, <1>6, <1>7, <1>8 DEF Remote, Continues
  <2> QED BY <2>1, <1>3, <1>9
<1>11. cmd \notin {"get", "reget"}
  BY <1>6
<1> QED BY <1>1, <1>4, <1>6, <1>7, <1>10, <1>11, CloseEnds

LEMMA PutReceiveKeeps ==
  ASSUME IInv, PutReceive
  PROVE  IInv'
<1>1. Shape /\ Handles /\ Putting /\ Between /\ Remote
  BY DEF IInv
<1>2. PICK a \in Answers :
           /\ op = "put" /\ u.waiting
           /\ reps' = RemoveAt(reps, a)
           /\ IF Pending(u.requests, reps[a]) = {}
              THEN Fatal
              ELSE \E i \in Pending(u.requests, reps[a]) :
                   /\ u' = [u EXCEPT !.status = reps[a].type, !.ackid = @ + 1,
                                     !.requests = RemoveAt(@, i),
                                     !.offset = @ + u.len, !.waiting = FALSE]
                   /\ UNCHANGED <<op, cmd, g, msg_id, interrupted, reqs, svars,
                                  local, remote, faults, last>>
           /\ UNCHANGED <<disk, ops, shorts, intr, failed, uncut>>
  BY Zenon DEF PutReceive
<1>3. /\ u \in PutType /\ reqs \in Seq(WriteReq) /\ Matched(u.requests, reqs, reps)
      /\ \A i \in DOMAIN u.requests : u.requests[i].id <= u.id
      /\ \A k \in DOMAIN reps : reps[k].type \in {"OK", "FAILURE"}
      /\ \A k \in DOMAIN reqs : reqs[k].h = u.h
      /\ Sent <= Size /\ (~failed => Continues(remote, reqs, Sent))
  BY <1>1, <1>2 DEF Putting
<1>4. a \in DOMAIN reps /\ reps \in Seq(Reply)
  BY <1>1, <1>2 DEF Answers, Shape
<1>5. Pending(u.requests, reps[a]) # {}
  BY <1>3, <1>4 DEF Matched, Within, Pending
<1>6. PICK i \in Pending(u.requests, reps[a]) :
           /\ u' = [u EXCEPT !.status = reps[a].type, !.ackid = @ + 1,
                             !.requests = RemoveAt(@, i),
                             !.offset = @ + u.len, !.waiting = FALSE]
           /\ UNCHANGED <<op, cmd, g, msg_id, interrupted, reqs, svars,
                          local, remote, faults, last>>
  BY <1>2, <1>5, Zenon
<1>7. /\ op' = op /\ cmd' = cmd /\ msg_id' = msg_id /\ interrupted' = interrupted
      /\ reqs' = reqs /\ handles' = handles /\ unused' = unused /\ local' = local
      /\ remote' = remote /\ disk' = disk /\ failed' = failed /\ uncut' = uncut
  <2>1. UNCHANGED <<disk, ops, shorts, intr, failed, uncut>>
    BY <1>2
  <2> QED BY <2>1, <1>6 DEF svars
<1>8. i \in DOMAIN u.requests /\ u.requests[i].id = reps[a].id
  BY DEF Pending
<1>9. /\ u.requests \in Seq(Posted) /\ u.offset \in Nat /\ u.len \in Nat /\ u.ackid \in Nat
  BY <1>3 DEF PutType
<1>10. PICK q : q = RemoveAt(u.requests, i)
  OBVIOUS
<1>11. PICK type : type = reps[a].type
  OBVIOUS
<1>12. type \in {"OK", "FAILURE"}
  BY <1>3, <1>4, <1>11
<1>13. /\ q \in Seq(Posted)
       /\ \A k \in DOMAIN q : \E l \in DOMAIN u.requests : q[k] = u.requests[l]
  BY <1>8, <1>9, <1>10, RemoveAtFacts
<1>14. u' = [u EXCEPT !.status = type, !.ackid = u.ackid + 1, !.requests = q,
                      !.offset = u.offset + u.len, !.waiting = FALSE]
  BY <1>6, <1>10, <1>11
<1>15. u' \in PutType
  <2>1. u.ackid + 1 \in Nat /\ u.offset + u.len \in Nat
    BY <1>9
  <2> QED BY <2>1, <1>3, <1>12, <1>13, <1>14 DEF PutType
<1>16. /\ u'.h = u.h /\ u'.id = u.id /\ u'.waiting = FALSE /\ u'.offset = u.offset + u.len
       /\ u'.requests = q
  BY <1>3, <1>14 DEF PutType
<1>17. Sent' = Sent
  BY <1>2, <1>16 DEF Sent
<1>18. reps' \in Seq(Reply) /\ \A k \in DOMAIN reps' : \E l \in DOMAIN reps : reps'[k] = reps[l]
  <2>1. PICK p : p = RemoveAt(reps, a)
    OBVIOUS
  <2>2. p \in Seq(Reply) /\ \A k \in DOMAIN p : \E l \in DOMAIN reps : p[k] = reps[l]
    BY <2>1, <1>4, RemoveAtFacts
  <2>3. reps' = p
    BY <2>1, <1>2, Zenon
  <2> QED BY <2>2, <2>3, Zenon
<1>19. Matched(q, reqs, reps')
  <2>1. Matched(RemoveAt(u.requests, i), reqs, RemoveAt(reps, a))
    BY <1>3, <1>4, <1>8, <1>9, MatchedReceive
  <2> QED BY <2>1, <1>2, <1>10, Zenon
<1>20. Putting'
  <2>1. \A k \in DOMAIN q : q[k].id <= u.id
    BY <1>3, <1>13
  <2>2. \A k \in DOMAIN reps' : reps'[k].type \in {"OK", "FAILURE"}
    BY <1>3, <1>18
  <2> QED BY <2>1, <2>2, <1>3, <1>7, <1>15, <1>16, <1>17, <1>19 DEF Putting
<1>21. Shape'
  BY <1>1, <1>2, <1>7, <1>18 DEF Shape
<1>22. Handles'
  BY <1>1, <1>2, <1>7, <1>16 DEF Handles, Table, OpenHandles
<1>23. Getting' /\ Results' /\ Closing' /\ Between' /\ Remote'
  <2>1. op = "put"
    BY <1>2
  <2> QED BY <2>1, <1>1, <1>7 DEF Getting, Results, Closing, Between, Remote, Doubt
<1> QED BY <1>20, <1>21, <1>22, <1>23 DEF IInv

-----------------------------------------------------------------------------
(* The invariant.                                                          *)

\* cmd_interrupt() asks less of the loop: it may end before the last block.
LEMMA InterruptKeeps ==
  ASSUME IInv, Interrupt
  PROVE  IInv'
<1>1. /\ op # "idle" /\ interrupted' = TRUE /\ op' = op /\ cmd' = cmd /\ g' = g /\ u' = u
      /\ msg_id' = msg_id /\ reqs' = reqs /\ reps' = reps /\ handles' = handles
      /\ unused' = unused /\ local' = local /\ disk' = disk /\ remote' = remote
      /\ last' = last /\ failed' = failed /\ uncut' = uncut
  BY DEF Interrupt, svars
<1>2. Shape /\ Handles /\ Getting /\ Putting /\ Between /\ Remote
  BY DEF IInv
<1>3. Shape'
  <2>1. interrupted' \in BOOLEAN
    BY <1>1, Zenon
  <2> QED BY <2>1, <1>1, <1>2 DEF Shape
<1>0. Doubt' = Doubt
  BY <1>1 DEF Doubt
<1>4. Handles' /\ Putting' /\ Closing' /\ Between' /\ Remote'
  BY <1>0, <1>1, <1>2 DEF Handles, Table, OpenHandles, Putting, Sent, Closing, Between, Remote
<1>5. Getting'
  <2>1. \A s, f : Covered(s, f, interrupted) => Covered(s, f, TRUE)
    BY DEF Covered
  <2>2. ASSUME Loop(g, local, reqs, reps, Doubt, interrupted)
        PROVE  Loop(g, local, reqs, reps, Doubt, TRUE)
    BY <2>1, <2>2 DEF Loop
  <2> QED BY <2>2, <1>0, <1>1, <1>2 DEF Getting
<1>6. Results'
  BY <1>1 DEF Results
<1> QED BY <1>3, <1>4, <1>5, <1>6 DEF IInv

LEMMA InitHolds ==
  ASSUME Init
  PROVE  IInv
<1>1. /\ op = "idle" /\ interrupted = FALSE /\ reqs = <<>> /\ reps = <<>> /\ msg_id = 1
      /\ handles = <<>> /\ unused = <<>> /\ remote = <<>> /\ disk = 0 /\ failed = FALSE /\ uncut = FALSE
      /\ local \in {<<>>, Append(Full, 0)} /\ last.ok = FALSE
  BY DEF Init
<1>2. <<>> \in Seq(Nat) /\ <<>> \in Seq(Reply) /\ <<>> \in Seq({"unused", "read", "write", "append"})
      /\ DOMAIN <<>> = {}
  OBVIOUS
<1>3. Size \in Nat
  BY SftpAssumption
<1>4. Full \in Seq(Nat) /\ Len(Full) = Size
  <2>1. \A i \in 1..Size : i \in Nat
    BY <1>3
  <2> QED BY <2>1, <1>3 DEF Full
<1>5. local \in Seq(Nat) /\ (local = <<>> \/ Len(local) > Size)
  <2>1. Append(Full, 0) \in Seq(Nat) /\ Len(Append(Full, 0)) = Size + 1 /\ Size + 1 > Size
    BY <1>3, <1>4
  <2> QED BY <2>1, <1>1, <1>2
<1>6. Begins(<<>>)
  BY <1>2, <1>3 DEF Begins
<1>7. Shape
  <2>1. interrupted \in BOOLEAN /\ failed \in BOOLEAN /\ uncut \in BOOLEAN
    BY <1>1, Zenon
  <2> QED BY <2>1, <1>1, <1>2, <1>5 DEF Shape
<1>8. Handles
  BY <1>1, <1>2 DEF Handles, Table, OpenHandles
<1>9. Getting /\ Closing /\ Putting /\ Results
  BY <1>1 DEF Getting, Closing, Putting, Results
<1>10. Between /\ Remote
  BY <1>1, <1>5, <1>6 DEF Between, Remote
<1> QED BY <1>7, <1>8, <1>9, <1>10 DEF IInv

LEMMA NextKeeps ==
  ASSUME IInv, [Next]_vars
  PROVE  IInv'
<1>1. CASE Next
  <2>1. \A r \in Commands : StartGet(r) => IInv'
    BY StartGetKeeps
  <2>2. \A r \in Commands : StartPut(r) => IInv'
    BY StartPutKeeps
  <2>3. Client => IInv'
    BY GetFailKeeps, GetBeginKeeps, GetReceiveKeeps, TruncateKeeps, GetEndKeeps, PutSendKeeps,
       PutReceiveKeeps, PutEndKeeps DEF Client
  <2>4. Process => IInv'
    BY ProcessKeeps
  <2>5. Interrupt => IInv'
    BY InterruptKeeps
  <2> QED BY <1>1, <2>1, <2>2, <2>3, <2>4, <2>5, Zenon DEF Next
<1>2. CASE UNCHANGED vars
  <2>1. /\ op' = op /\ cmd' = cmd /\ g' = g /\ u' = u /\ interrupted' = interrupted
        /\ msg_id' = msg_id /\ reqs' = reqs /\ reps' = reps /\ handles' = handles
        /\ unused' = unused /\ local' = local /\ disk' = disk /\ remote' = remote
        /\ last' = last /\ failed' = failed /\ uncut' = uncut
    BY <1>2 DEF vars, cvars, svars
  <2>0. Doubt' = Doubt
    BY <2>1 DEF Doubt
  <2>2. Shape' /\ Handles' /\ Between' /\ Remote' /\ Results'
    BY <2>0, <2>1 DEF IInv, Shape, Handles, Table, OpenHandles, Between, Remote, Results
  <2>3. Getting' /\ Closing' /\ Putting'
    BY <2>0, <2>1 DEF IInv, Getting, Closing, Putting, Sent
  <2> QED BY <2>2, <2>3 DEF IInv
<1> QED BY <1>1, <1>2

LEMMA SftpInvariant == Spec => []IInv
<1>1. Init => IInv
  BY InitHolds
<1>2. IInv /\ [Next]_vars => IInv'
  BY NextKeeps
<1> QED BY <1>1, <1>2, PTL DEF Spec

-----------------------------------------------------------------------------
(* A beginning of the source.                                              *)

LEMMA BeginsIsPrefix ==
  ASSUME NEW f \in Seq(Nat), Begins(f)
  PROVE  IsPrefix(f, Full) /\ (Len(f) = Size => f = Full)
<1>1. Size \in Nat /\ Len(f) \in Nat /\ Len(f) <= Size /\ DOMAIN f = 1..Len(f)
      /\ \A i \in 1..Len(f) : f[i] = i
  BY SftpAssumption DEF Begins
<1>2. \A i \in 1..Size : i \in Nat
  BY <1>1
<1>3. Full \in Seq(Nat) /\ Len(Full) = Size /\ \A i \in 1..Size : Full[i] = i
  BY <1>1, <1>2 DEF Full
<1>4. SubSeq(f, 1, Len(f)) = [i \in 1..Len(f) |-> f[i]]
  BY <1>1
<1>5. SubSeq(Full, 1, Len(f)) = [i \in 1..Len(f) |-> Full[i]]
  BY <1>1, <1>3
<1>6. \A i \in 1..Len(f) : f[i] = Full[i]
  BY <1>1, <1>3
<1>7. IsPrefix(f, Full)
  BY <1>1, <1>3, <1>4, <1>5, <1>6 DEF IsPrefix
<1>8. ASSUME Len(f) = Size PROVE f = Full
  <2>1. f = [i \in 1..Size |-> f[i]]
    BY <1>1, <1>8
  <2> QED BY <2>1, <1>1, <1>8 DEF Full
<1> QED BY <1>7, <1>8

-----------------------------------------------------------------------------
(* The theorems.                                                           *)

\* No answer of the server meets fatal("Unexpected reply") or fatal("ID mismatch")
\* in do_download, do_upload or get_status: each belongs to one entry of the
\* queue, and a transfer is closed only when nothing is under way.
THEOREM AnswersExpected == Spec => []EveryAnswerExpected
<1>1. IInv => EveryAnswerExpected
  BY DEF IInv, Shape, EveryAnswerExpected
<1> QED BY <1>1, SftpInvariant, PTL

\* After a get or reget, complete, failed or interrupted, the local file is a
\* beginning of the source without holes as long as one of its writes failed at
\* most and ftruncate did not: do_download cuts it at the highest contiguous point.
THEOREM GetsLeavePrefix == Spec => []GetLeavesPrefix
<1>1. IInv => GetLeavesPrefix
  <2> SUFFICES ASSUME IInv, disk <= 1, ~uncut, op = "idle", Len(local) <= Size
               PROVE  IsPrefix(local, Full)
    BY DEF GetLeavesPrefix, NoHoles, Transferred
  <2>1. local \in Seq(Nat) /\ (Begins(local) \/ Len(local) > Size)
    BY DEF IInv, Shape, Between, Doubt
  <2>2. Begins(local)
    BY <2>1, SftpAssumption
  <2> QED BY <2>1, <2>2, BeginsIsPrefix
<1> QED BY <1>1, SftpInvariant, PTL

\* A get or reget that reports success has copied every block of the source:
\* what do_download's loop leaves is empty only when each one was written.
THEOREM GetsComplete == Spec => []GetComplete
<1>1. IInv => GetComplete
  <2> SUFFICES ASSUME IInv, disk <= 1, ~uncut, op = "idle", last.cmd \in {"get", "reget"}, last.ok
               PROVE  local = Full
    BY DEF GetComplete, Transferred
  <2>1. local \in Seq(Nat) /\ Begins(local) /\ Len(local) = Size
    BY DEF IInv, Shape, Results, Doubt
  <2> QED BY <2>1, BeginsIsPrefix
<1> QED BY <1>1, SftpInvariant, PTL

\* A put or reput that reports success has copied every block unless a write
\* failed in the server or the user interrupted it; then what it left is a
\* beginning of the source, to which a reput can append.
THEOREM PutsComplete == Spec => []PutComplete
<1>1. IInv => PutComplete
  <2> SUFFICES ASSUME IInv, op = "idle", last.cmd \in {"put", "reput"}, last.ok, ~failed
               PROVE  remote = Full \/ (last.interrupted /\ IsPrefix(remote, Full))
    BY DEF PutComplete
  <2>1. /\ remote \in Seq(Nat) /\ Begins(remote)
        /\ Len(remote) = Size \/ last.interrupted
    BY DEF IInv, Shape, Results
  <2> QED BY <2>1, BeginsIsPrefix
<1> QED BY <1>1, SftpInvariant, PTL

\* Between commands no handle is open in the server: handle_new gives a free
\* entry of the table, and each way out of do_download and do_upload behind the
\* open, the label fail included, closes the handle that is still the transfer's.
THEOREM HandlesClosed == Spec => []NoHandleLeft
<1>1. IInv => NoHandleLeft
  BY DEF IInv, Handles, OpenHandles, NoHandleLeft
<1> QED BY <1>1, SftpInvariant, PTL
=============================================================================
