--------------------------- MODULE UserAuthProofs ---------------------------
(***************************************************************************)
(* Proofs about UserAuth, for every set of keys and methods, every number  *)
(* of tries and every AuthenticationMethods.                               *)
(*                                                                         *)
(* The child and the monitor evaluate each answer with different code and  *)
(* at different times.  The inductive invariant says, for each place the   *)
(* child can be in, what is on the two sockets and how far the monitor's   *)
(* Authctxt may be ahead of the child's (Phase).                           *)
(***************************************************************************)
EXTENDS UserAuth, SequenceTheorems, WellFoundedInduction, TLAPS

Request == [method : Methods, key : Keys \cup {"none"}, sig : {"none", "wrong", "right"},
            pass : {"none", "right", "wrong", "empty", "change"}]
Messages == [type : {"PWNAM", "AUTHSERV", "KEYEXPORT"} \cup AuthRequests, req : Request]
ReplyType == [type : {"PWNAM"} \cup AuthRequests, ok : BOOLEAN, forced : BOOLEAN]
Lists == Seq(Seq(Enabled \cup {"none"}))

ChildType ==
  [pc : {"idle", "pwnam", "wait", "export", "done"}, req : Request, attempt : Nat,
   failures : Nat, lists : Lists, valid : BOOLEAN, none_enabled : BOOLEAN,
   used : SUBSET Keys, forced : BOOLEAN]
KeyState == {NoKey} \cup [type : {"publickey", "hostbased"}, key : Keys]
Permits == SUBSET ({"PWNAM", "AUTHSERV"} \cup AuthRequests)
MonType ==
  [pc : {"loop", "keystate", "done"}, permit : Permits,
   attempt : Nat, failures : Nat, lists : Lists, valid : BOOLEAN, calls : Nat,
   key : KeyState, used : SUBSET Keys, forced : BOOLEAN, cut : BOOLEAN]

Shape ==
  /\ conf \in Configs /\ known \in BOOLEAN
  /\ child \in ChildType /\ mon \in MonType
  /\ toMon \in Seq(Messages) /\ toChild \in Seq(ReplyType)
  /\ proofs \in Seq([method : Methods, key : Keys \cup {"none"}])
  /\ wrong \in Nat /\ requests \in Nat

Bounds ==
  /\ Len(toMon) <= 2 /\ Len(toChild) <= 1
  /\ child.failures <= MaxTries /\ child.attempt <= requests /\ requests <= MaxRequests
  /\ mon.attempt <= 1 /\ ("PWNAM" \in mon.permit => mon.attempt = 0)

-----------------------------------------------------------------------------
(* The two processes.                                                      *)

Listed(lists, m) == \E i \in DOMAIN lists : StartsWith(lists[i], m)

\* The monitor has n requests to read, perhaps after AUTHSERV.
Unread(n) ==
  \/ mon.permit = AuthRequests /\ Len(toMon) = n
  \/ mon.permit = {"AUTHSERV"} /\ Len(toMon) = n + 1 /\ toMon[1].type = "AUTHSERV"

\* The monitor has evaluated all that the child has.
InStep == child.lists = mon.lists /\ mon.pc = "loop"

\* The child asks requests of this type for the method it tries.
Fits(type) ==
  IF type = "AUTHPASSWORD"
  THEN \/ child.req.method = "password"
       \/ child.req.method = "none" /\ conf.empty /\ ~child.none_enabled
  ELSE child.req.method \in {"publickey", "hostbased"} /\ child.req.key \in Keys

OfferedKey == [type |-> child.req.method, key |-> child.req.key]

\* A request of this type is on its way to the monitor.
Underway(type) ==
  /\ toChild = <<>> /\ InStep /\ Unread(1)
  /\ toMon[Len(toMon)] = Message(type, child.req)
  /\ type = "KEYVERIFY" => mon.key = OfferedKey /\ child.forced = mon.forced

\* What the monitor did when it answered ok: what the child is going to do.
Decided(ok) ==
  LET m == child.req.method
  IN  /\ mon.lists = IF ok /\ conf.lists # <<>> THEN UpdateLists(child.lists, m)
                     ELSE child.lists
      /\ mon.pc = IF /\ ok /\ RootAllowed(m, child.forced)
                     /\ conf.lists = <<>> \/ Completed(child.lists, m) # {}
                  THEN "keystate" ELSE "loop"
      /\ ok /\ conf.lists # <<>> => RootAllowed(m, child.forced)

\* The answer to a request of this type is on its way to the child.
Returning(type) ==
  /\ toMon = <<>> /\ Len(toChild) = 1 /\ toChild[1].type = type
  /\ mon.permit = AuthRequests
  /\ IF type = "KEYALLOWED"
     THEN /\ InStep /\ toChild[1].forced = mon.forced
          /\ toChild[1].ok => mon.key = OfferedKey
     ELSE Decided(toChild[1].ok)

Waiting ==
  /\ child.attempt > 0
  /\ conf.lists # <<>> => Listed(child.lists, child.req.method)
  /\ \E type \in AuthRequests : Fits(type) /\ (Underway(type) \/ Returning(type))

Looking ==
  /\ child.attempt = 1 /\ child.req \in Requests /\ mon.pc = "loop"
  /\ \/ /\ toChild = <<>> /\ mon.permit = {"PWNAM"}
        /\ Len(toMon) = 1 /\ toMon[1].type = "PWNAM"
     \/ /\ toMon = <<>> /\ mon.permit = {"AUTHSERV"} /\ mon.lists = SetupLists
        /\ Len(toChild) = 1 /\ toChild[1].type = "PWNAM"

Phase ==
  /\ child.pc = "idle" /\ child.attempt = 0 =>
       toMon = <<>> /\ toChild = <<>> /\ mon.permit = {"PWNAM"} /\ mon.pc = "loop"
  /\ child.pc = "idle" /\ child.attempt > 0 => toChild = <<>> /\ InStep /\ Unread(0)
  /\ child.pc = "pwnam" => Looking
  /\ child.pc = "wait" => Waiting
  /\ child.pc = "export" => toMon = <<>> /\ toChild = <<>> /\ mon.pc = "keystate"
  /\ child.pc = "done" =>
       /\ toChild = <<>>
       /\ \/ mon.pc = "done" /\ toMon = <<>>
          \/ mon.pc = "keystate" /\ Len(toMon) = 1 /\ toMon[1].type = "KEYEXPORT"

\* A wrong proof that the child has not heard of.
Owed == IF /\ child.pc = "wait" /\ Len(toChild) = 1
           /\ toChild[1].type # "KEYALLOWED" /\ ~toChild[1].ok
        THEN 1 ELSE 0

Tries ==
  /\ child.failures < MaxTries
  /\ wrong <= child.failures + Owed + (IF child.none_enabled THEN 0 ELSE 1)
  /\ child.attempt = 0 \/ child.pc = "pwnam" \/ (child.attempt = 1 /\ child.pc = "wait")
       => wrong = Owed

\* The first part of Agreement: no request and no method is a surprise.
Expected ==
  over \notin {"unpermitted_request", "unexpected_request", "key_not_previously_allowed",
               "method_not_in_AuthenticationMethods"}

\* The inductive invariant: what holds while the connection is up, and what
\* is true at its end.
IInv == /\ Shape /\ Bounds /\ Expected /\ TriesBounded
        /\ over = "no" => Phase /\ Tries

\* The configurations in which the two processes use the same rules: with
\* AuthenticationMethods, PermitRootLogin does not depend on a forced command
\* and empty passwords are refused, so that no password is taken for "none".
Agreeing ==
  \A c \in Configs : c.lists # <<>> => c.root \in {"yes", "without-password"} /\ ~c.empty

-----------------------------------------------------------------------------
(* The operators of the model.                                             *)

\* A set of natural numbers that is not empty has a least element.
LEMMA LeastElement ==
  ASSUME NEW T, T \subseteq Nat, T # {}
  PROVE  \E j \in T : \A k \in T : j <= k
<1> DEFINE R == {p \in Nat \X Nat : p[1] < p[2]}
<1>1. OpToRel(<, Nat) = R
  BY Zenon DEF OpToRel
<1>2. IsWellFoundedOn(R, Nat)
  BY <1>1, NatLessThanWellFounded, Zenon
<1>3. PICK x \in T : \A y \in T : ~ (<<y, x>> \in R)
  BY <1>2, WFMin, Zenon
<1>4. \A y \in T : y < x => <<y, x>> \in R
  BY <1>3
<1> HIDE DEF R
<1>5. \A y \in T : ~ (y < x)
  BY <1>3, <1>4, Zenon
<1>6. \A y \in T : x <= y
  BY <1>5
<1> QED BY <1>6

\* g is the table that auth2_setup_methods_lists() has built after n lists.
KeptUpTo(g, n) ==
  g = [i \in 0..n |-> IF i = 0 THEN <<>>
                      ELSE IF Usable(conf.lists[i]) THEN Append(g[i - 1], conf.lists[i])
                      ELSE g[i - 1]]

\* The table can be continued by one list.
LEMMA KeptNext ==
  ASSUME NEW n \in Nat, NEW g, KeptUpTo(g, n)
  PROVE  \E h : KeptUpTo(h, n + 1)
<1> DEFINE l == conf.lists[n + 1]
           h == [i \in 0..(n + 1) |-> IF i <= n THEN g[i]
                   ELSE IF Usable(l) THEN Append(g[n], l) ELSE g[n]]
<1>1. \A i \in 0..n : h[i] = g[i]
  BY Z3
<1>2. h[n + 1] = IF Usable(l) THEN Append(g[n], l) ELSE g[n]
  BY Z3
<1>3. h = [i \in 0..(n + 1) |-> h[i]]
  BY Z3
<1> HIDE DEF h
<1>4. \A i \in 0..n : g[i] = IF i = 0 THEN <<>>
                      ELSE IF Usable(conf.lists[i]) THEN Append(g[i - 1], conf.lists[i])
                      ELSE g[i - 1]
  <2> DEFINE b(i) == IF i = 0 THEN <<>>
                     ELSE IF Usable(conf.lists[i]) THEN Append(g[i - 1], conf.lists[i])
                     ELSE g[i - 1]
  <2>1. g = [i \in 0..n |-> b(i)]
    BY Zenon DEF KeptUpTo
  <2> HIDE DEF b
  <2>2. \A i \in 0..n : g[i] = b(i)
    BY <2>1, Zenon
  <2> QED BY <2>2, Zenon DEF b
<1>5. ASSUME NEW i \in 0..(n + 1)
      PROVE  h[i] = IF i = 0 THEN <<>>
                    ELSE IF Usable(conf.lists[i]) THEN Append(h[i - 1], conf.lists[i])
                    ELSE h[i - 1]
  <2>1. CASE i = n + 1
    <3>1. h[i - 1] = g[n] /\ i # 0
      BY <1>1, <2>1
    <3> QED BY <3>1, <2>1, <1>2
  <2>2. CASE i = 0
    BY <2>2, <1>1, <1>4
  <2>3. CASE i \in 1..n
    <3>1. h[i] = g[i] /\ h[i - 1] = g[i - 1] /\ i # 0 /\ i \in 0..n
      BY <1>1, <2>3
    <3> QED BY <3>1, <1>4
  <2> QED BY <2>1, <2>2, <2>3
<1>6. KeptUpTo(h, n + 1)
  BY <1>3, <1>5, Z3 DEF KeptUpTo
<1> QED BY <1>6

\* Each list that is kept is one of the lists of the configuration, and usable.
LEMMA SetupKeeps ==
  ASSUME conf \in Configs
  PROVE  /\ SetupLists \in Lists
         /\ \A i \in DOMAIN SetupLists : \E j \in DOMAIN conf.lists :
              SetupLists[i] = conf.lists[j]
<1>1. conf.lists \in Seq(Seq(Methods)) /\ Len(conf.lists) \in Nat
  BY AuthAssumption
<1> DEFINE T == {n \in Nat : ~ \E g : KeptUpTo(g, n)}
<1>2. T = {}
  <2> SUFFICES ASSUME T # {} PROVE FALSE
    OBVIOUS
  <2>1. PICK j \in T : \A k \in T : j <= k
    BY LeastElement, Zenon
  <2>2. j # 0
    <3> DEFINE g == [i \in 0..0 |-> <<>>]
    <3>1. KeptUpTo(g, 0)
      BY Z3 DEF KeptUpTo
    <3> QED BY <3>1, <2>1
  <2>3. j - 1 \in Nat /\ (j - 1) + 1 = j /\ ~(j <= j - 1)
    BY <2>1, <2>2
  <2>4. \E g : KeptUpTo(g, j - 1)
    BY <2>1, <2>3
  <2>5. \E h : KeptUpTo(h, (j - 1) + 1)
    BY <2>3, <2>4, KeptNext
  <2> QED BY <2>1, <2>3, <2>5
<1>3. \E g : KeptUpTo(g, Len(conf.lists))
  BY <1>1, <1>2, Zenon
<1>4. KeptUpTo(KeptLists, Len(conf.lists))
  BY <1>3 DEF KeptLists, KeptUpTo
<1> DEFINE Good(s) == /\ s \in Lists
                      /\ \A i \in DOMAIN s : \E j \in DOMAIN conf.lists : s[i] = conf.lists[j]
           U == {n \in 0..Len(conf.lists) : ~Good(KeptLists[n])}
<1>5. U = {}
  <2> SUFFICES ASSUME U # {} PROVE FALSE
    OBVIOUS
  <2>1. U \subseteq Nat
    BY <1>1
  <2>2. PICK j \in U : \A k \in U : j <= k
    BY <2>1, LeastElement, Zenon
  <2>3. CASE j = 0
    <3>1. KeptLists[0] = <<>>
      BY <1>1, <1>4 DEF KeptUpTo
    <3>2. Good(<<>>)
      BY DEF Lists
    <3> QED BY <2>2, <2>3, <3>1, <3>2
  <2>4. CASE j # 0
    <3> DEFINE s == KeptLists[j - 1]
               l == conf.lists[j]
    <3>1. j - 1 \in 0..Len(conf.lists) /\ j \in DOMAIN conf.lists /\ ~(j <= j - 1)
      BY <1>1, <2>2, <2>4
    <3>2. Good(s)
      BY <2>2, <3>1
    <3>3. KeptLists[j] = IF Usable(l) THEN Append(s, l) ELSE s
      BY <1>1, <1>4, <2>2, <2>4, <3>1 DEF KeptUpTo
    <3>4. ASSUME Usable(l) PROVE l \in Seq(Enabled \cup {"none"})
      <4>1. l \in Seq(Methods)
        BY <1>1, <3>1
      <4> QED BY <3>4, <4>1 DEF Usable
    <3> HIDE DEF l, s
    <3>5. ASSUME Usable(l) PROVE Good(Append(s, l))
      <4>1. Append(s, l) \in Lists
        BY <3>2, <3>4, <3>5 DEF Lists
      <4>2. ASSUME NEW i \in DOMAIN Append(s, l)
            PROVE  \E k \in DOMAIN conf.lists : Append(s, l)[i] = conf.lists[k]
        <5>1. s \in Lists
          BY <3>2
        <5>2. CASE i \in DOMAIN s
          BY <5>1, <5>2, <3>2 DEF Lists
        <5>3. CASE i \notin DOMAIN s
          <6>1. Append(s, l)[i] = l
            BY <5>1, <5>3 DEF Lists
          <6> QED BY <6>1, <3>1 DEF l
        <5> QED BY <5>2, <5>3
      <4> QED BY <4>1, <4>2
    <3> QED BY <2>2, <3>2, <3>3, <3>5
  <2> QED BY <2>3, <2>4
<1>6. Good(KeptLists[Len(conf.lists)])
  BY <1>1, <1>5
<1> QED BY <1>6 DEF SetupLists

\* Removing a method from the start of lists leaves lists.
LEMMA UpdateTyped ==
  ASSUME NEW lists \in Lists, NEW m
  PROVE  /\ UpdateLists(lists, m) \in Lists
         /\ DOMAIN UpdateLists(lists, m) = DOMAIN lists
<1> DEFINE S == Seq(Enabled \cup {"none"})
           new(i) == IF StartsWith(lists[i], m) /\ \A j \in Completed(lists, m) : i <= j
                     THEN Tail(lists[i]) ELSE lists[i]
<1>1. \A i \in DOMAIN lists : lists[i] \in S
  BY DEF Lists
<1>2. \A i \in DOMAIN lists : StartsWith(lists[i], m) => Tail(lists[i]) \in S
  BY <1>1 DEF StartsWith
<1>3. \A i \in DOMAIN lists : new(i) \in S
  BY <1>1, <1>2, Zenon
<1>4. DOMAIN lists = 1..Len(lists) /\ Len(lists) \in Nat
  BY DEF Lists
<1>5. UpdateLists(lists, m) = [i \in 1..Len(lists) |-> new(i)]
  BY <1>4, Zenon DEF UpdateLists
<1> HIDE DEF new
<1>6. [i \in 1..Len(lists) |-> new(i)] \in Seq(S)
  BY <1>3, <1>4, IsASeq
<1> QED BY <1>4, <1>5, <1>6 DEF Lists

\* The connection ends when the child has counted too many failures.
Ends(full) == IF full THEN over' = "too_many_failures" ELSE over' = over

\* The two outcomes of Ends while the connection is up.
LEMMA EndsCases ==
  ASSUME NEW full, Ends(full), over = "no"
  PROVE  (~full /\ over' = "no") \/ (full /\ over' = "too_many_failures")
BY Zenon DEF Ends

\* userauth_finish() after a refusal, or after PK_OK.
LEMMA FinishRefused ==
  ASSUME NEW c \in ChildType, NEW m, NEW postponed \in BOOLEAN,
         Finish(c, m, FALSE, postponed)
  PROVE  /\ child' \in ChildType /\ child'.pc = "idle" /\ child'.attempt = c.attempt
         /\ child'.lists = c.lists /\ child'.none_enabled = c.none_enabled
         /\ child'.failures = IF postponed \/ ~(c.attempt > 1 \/ m # "none")
                              THEN c.failures ELSE c.failures + 1
         /\ Ends(~postponed /\ child'.failures >= MaxTries)
<1>1. NoRequest \in Request
  BY DEF NoRequest, Request, Methods
<1> DEFINE c1 == [c EXCEPT !.pc = "idle", !.req = NoRequest, !.lists = c.lists]
           counted == ~postponed /\ (c.attempt > 1 \/ m # "none")
           c2 == IF counted THEN [c1 EXCEPT !.failures = @ + 1] ELSE c1
<1>2. /\ c1 \in ChildType /\ c1.pc = "idle" /\ c1.attempt = c.attempt
      /\ c1.lists = c.lists /\ c1.none_enabled = c.none_enabled /\ c1.failures = c.failures
  BY <1>1 DEF ChildType
<1>3. /\ child' = c2
      /\ Ends(~postponed /\ c2.failures >= MaxTries)
  BY DEF Finish, Counts, Ends
<1> HIDE DEF c1
<1>4. /\ c2 \in ChildType /\ c2.pc = c1.pc /\ c2.lists = c1.lists
      /\ c2.attempt = c1.attempt /\ c2.none_enabled = c1.none_enabled
      /\ c2.failures = IF counted THEN c1.failures + 1 ELSE c1.failures
  <2>1. CASE counted
    BY <1>2, <2>1 DEF ChildType
  <2>2. CASE ~counted
    BY <1>2, <2>2
  <2> QED BY <2>1, <2>2, Zenon
<1> HIDE DEF c2
<1> QED BY <1>2, <1>3, <1>4

\* userauth_finish() after a method that authenticated.
LEMMA FinishAccepted ==
  ASSUME NEW c \in ChildType, NEW m, Finish(c, m, TRUE, FALSE),
         conf.lists # <<>> => RootAllowed(m, c.forced) /\ Listed(c.lists, m)
  PROVE  \/ over' = "authenticated_invalid_user" /\ child' = child
         \/ /\ child' \in ChildType /\ child'.attempt = c.attempt
            /\ child'.none_enabled = c.none_enabled
            /\ child'.pc = IF /\ RootAllowed(m, c.forced)
                              /\ conf.lists = <<>> \/ Completed(c.lists, m) # {}
                           THEN "export" ELSE "idle"
            /\ child'.lists = IF conf.lists # <<>> THEN UpdateLists(c.lists, m) ELSE c.lists
            /\ child'.failures \in {c.failures, c.failures + 1}
            /\ child'.pc = "export" => child'.failures = c.failures
            /\ Ends(child'.pc = "idle" /\ child'.failures >= MaxTries)
<1>1. NoRequest \in Request
  BY DEF NoRequest, Request, Methods
<1>2. c.lists \in Lists /\ UpdateLists(c.lists, m) \in Lists
  BY UpdateTyped DEF ChildType
<1> DEFINE lists == conf.lists # <<>>
           auth == RootAllowed(m, c.forced) /\ (~lists \/ Completed(c.lists, m) # {})
           c1 == [c EXCEPT !.pc = IF auth THEN "export" ELSE "idle", !.req = NoRequest,
                           !.lists = IF lists THEN UpdateLists(c.lists, m) ELSE c.lists]
           c2 == [c1 EXCEPT !.failures = @ + 1]
<1>3. /\ c1 \in ChildType /\ c1.pc = IF auth THEN "export" ELSE "idle"
      /\ c1.lists = IF lists THEN UpdateLists(c.lists, m) ELSE c.lists
      /\ c1.attempt = c.attempt /\ c1.none_enabled = c.none_enabled /\ c1.failures = c.failures
  BY <1>1, <1>2 DEF ChildType
<1>4. \/ over' = "authenticated_invalid_user" /\ child' = child
      \/ /\ child' = c1 \/ (~auth /\ child' = c2)
         /\ Ends(~auth /\ child'.failures >= MaxTries)
  BY DEF Finish, Listed, Ends
<1> HIDE DEF c1, auth, lists
<1>5. /\ c2 \in ChildType /\ c2.pc = c1.pc /\ c2.lists = c1.lists
      /\ c2.attempt = c1.attempt /\ c2.none_enabled = c1.none_enabled
      /\ c2.failures = c1.failures + 1 /\ c1.failures \in Nat
  BY <1>3 DEF ChildType
<1> HIDE DEF c2
<1> QED BY <1>3, <1>4, <1>5 DEF auth, lists

\* A client's requests, and the sequences on the sockets.
LEMMA RequestsTyped == Requests \subseteq Request
BY DEF Requests, Request, Methods

\* A socket with one message.
LEMMA OneElement ==
  ASSUME NEW S, NEW s \in Seq(S), Len(s) = 1
  PROVE  s # <<>> /\ Head(s) = s[1] /\ Tail(s) = <<>> /\ s[1] \in S
<1>1. s # <<>> /\ Head(s) = s[1] /\ s[1] \in S
  OBVIOUS
<1>2. Tail(s) \in Seq(S) /\ Len(Tail(s)) = 0
  BY <1>1, HeadTailProperties
<1> QED BY <1>1, <1>2, EmptySeq

\* A socket with two messages.
LEMMA TwoElements ==
  ASSUME NEW S, NEW s \in Seq(S), Len(s) = 2
  PROVE  /\ s # <<>> /\ Head(s) = s[1] /\ Len(Tail(s)) = 1 /\ Tail(s)[1] = s[2]
         /\ Tail(s) \in Seq(S)
BY HeadTailProperties

\* A message is appended to a socket.
LEMMA OneMore ==
  ASSUME NEW S, NEW s \in Seq(S), NEW x \in S
  PROVE  /\ Append(s, x) \in Seq(S) /\ Len(Append(s, x)) = Len(s) + 1
         /\ Append(s, x)[Len(s) + 1] = x
         /\ Len(s) > 0 => Append(s, x)[1] = s[1]
         /\ \A i \in 1..Len(s) : Append(s, x)[i] = s[i]
BY AppendProperties

\* Both processes start with nothing decided.
LEMMA InitIInv == Init => IInv
<1> SUFFICES ASSUME Init PROVE IInv
  OBVIOUS
<1>1. /\ NoRequest \in Request /\ <<>> \in Lists
      /\ <<>> \in Seq(Messages) /\ <<>> \in Seq(ReplyType)
      /\ <<>> \in Seq([method : Methods, key : Keys \cup {"none"}])
  BY DEF NoRequest, Request, Methods, Lists
<1>2. Shape
  BY <1>1 DEF Init, Shape, ChildType, MonType, KeyState, Permits
<1>3. Bounds /\ Expected /\ TriesBounded
  BY AuthAssumption DEF Init, Bounds, Expected, TriesBounded
<1>4. Phase /\ Tries
  BY AuthAssumption DEF Init, Phase, Tries, Owed
<1> QED BY <1>2, <1>3, <1>4 DEF IInv

\* The child c1 asks the monitor about request q.
Asks(c1, q, queue) ==
  \E type \in {"AUTHPASSWORD", "KEYALLOWED"} :
    /\ IF type = "AUTHPASSWORD"
       THEN q.method = "password" \/ (q.method = "none" /\ conf.empty /\ ~c1.none_enabled)
       ELSE q.method \in {"publickey", "hostbased"} /\ q.key \in Keys
    /\ conf.lists # <<>> => Listed(c1.lists, q.method)
    /\ child' = [c1 EXCEPT !.pc = "wait", !.req = q]
    /\ toMon' = Append(queue, Message(type, q))
    /\ over' = over

\* What the authentication methods ask of the monitor, if anything.
LEMMA TryAsks ==
  ASSUME NEW c \in ChildType, NEW q \in Requests, NEW queue, TryMethod(c, q, queue)
  PROVE  \E c1 \in ChildType :
           /\ c1.attempt = c.attempt /\ c1.failures = c.failures /\ c1.lists = c.lists
           /\ c1.none_enabled => c.none_enabled
           /\ \/ Finish(c1, q.method, FALSE, FALSE) /\ toMon' = queue
              \/ Asks(c1, q, queue)
<1> DEFINE m     == q.method
           found == /\ IF m = "none" THEN c.none_enabled ELSE m \in Enabled
                    /\ MethodAllowed(c.lists, m)
                    /\ c.failures < MaxTries
           c1    == IF found /\ m = "none" THEN [c EXCEPT !.none_enabled = FALSE] ELSE c
           asks  == found /\ CASE m = "none"      -> conf.empty /\ "password" \in Enabled
                               [] m = "password"  -> q.pass # "change"
                               [] m = "publickey" -> c.valid /\ ~AlreadyUsed(c, q.key)
                               [] m = "hostbased" -> c.valid
                               [] OTHER           -> FALSE
           type  == IF m \in {"none", "password"} THEN "AUTHPASSWORD" ELSE "KEYALLOWED"
<1>1. /\ c1 \in ChildType /\ c1.attempt = c.attempt /\ c1.failures = c.failures
      /\ c1.lists = c.lists /\ (c1.none_enabled => c.none_enabled)
  BY DEF ChildType
<1>2. IF asks THEN /\ child' = [c1 EXCEPT !.pc = "wait", !.req = q]
                   /\ toMon' = Append(queue, Message(type, q))
                   /\ over' = over
              ELSE Finish(c1, m, FALSE, FALSE) /\ toMon' = queue
  BY Zenon DEF TryMethod
<1>3. asks /\ conf.lists # <<>> => Listed(c1.lists, m)
  BY <1>1 DEF MethodAllowed, Listed
<1>4. asks => IF type = "AUTHPASSWORD"
              THEN q.method = "password" \/ (q.method = "none" /\ conf.empty /\ ~c1.none_enabled)
              ELSE q.method \in {"publickey", "hostbased"} /\ q.key \in Keys
  BY DEF Requests, ChildType
<1>5. type \in {"AUTHPASSWORD", "KEYALLOWED"}
  OBVIOUS
<1> HIDE DEF c1, asks, type, found
<1>6. CASE asks
  <2>1. Asks(c1, q, queue)
    BY <1>2, <1>3, <1>4, <1>5, <1>6, Zenon DEF Asks
  <2> QED BY <1>1, <2>1, Zenon
<1>7. CASE ~asks
  BY <1>1, <1>2, <1>7, Zenon
<1> QED BY <1>6, <1>7

\* The monitor is in step with a child c that is about to try a method, with the
\* requests of queue before it.
ReadyPlace(c) == /\ over = "no" /\ conf' = conf /\ toChild' = <<>>
                 /\ mon'.pc = "loop" /\ mon'.lists = c.lists
ReadyQueue(queue) ==
  \/ mon'.permit = AuthRequests /\ Len(queue) = 0
  \/ mon'.permit = {"AUTHSERV"} /\ Len(queue) = 1 /\ queue[1].type = "AUTHSERV"
ReadyCount(c) ==
  /\ c.attempt > 0 /\ c.failures < MaxTries
  /\ wrong' \in Nat /\ wrong' <= c.failures + (IF c.none_enabled THEN 0 ELSE 1)
  /\ c.attempt = 1 => wrong' = 0
Ready(c, queue) == ReadyPlace(c) /\ ReadyQueue(queue) /\ ReadyCount(c)

Kept(c) ==
  /\ child' \in ChildType /\ child'.attempt = c.attempt /\ child'.failures <= MaxTries
  /\ toMon' \in Seq(Messages) /\ Len(toMon') <= 2
  /\ Expected' /\ TriesBounded' /\ (over' = "no" => Phase' /\ Tries')

\* The child refuses: it is idle again, or the connection ends.
LEMMA RefusalKeeps ==
  ASSUME NEW c \in ChildType, NEW m, NEW postponed \in BOOLEAN, NEW queue \in Seq(Messages), Ready(c, queue),
         Finish(c, m, FALSE, postponed), toMon' = queue
  PROVE  Kept(c)
<1>1. /\ child' \in ChildType /\ child'.pc = "idle" /\ child'.attempt = c.attempt
      /\ child'.lists = c.lists /\ child'.none_enabled = c.none_enabled
      /\ child'.failures = IF postponed \/ ~(c.attempt > 1 \/ m # "none")
                           THEN c.failures ELSE c.failures + 1
  BY FinishRefused
<1>10. \/ (postponed \/ ~(child'.failures >= MaxTries)) /\ over' = "no"
       \/ child'.failures >= MaxTries /\ over' = "too_many_failures"
  BY FinishRefused, EndsCases DEF Ready, ReadyPlace
<1>2. /\ c.failures \in Nat /\ c.attempt \in Nat /\ MaxTries \in Nat
      /\ c.none_enabled \in BOOLEAN
  BY AuthAssumption DEF ChildType
<1>3. Unread(0)'
  BY DEF Ready, ReadyQueue, Unread, AuthRequests
<1>4. Phase'
  <2>1. toChild' = <<>> /\ InStep'
    BY <1>1 DEF Ready, ReadyPlace, InStep
  <2>2. c.attempt > 0
    BY Zenon DEF Ready, ReadyCount
  <2>3. child'.attempt > 0 /\ child'.attempt # 0
    BY <1>1, <1>2, <2>2
  <2> QED BY <1>1, <1>3, <2>1, <2>3 DEF Phase
<1>5. Owed' = 0
  BY <1>1 DEF Owed
<1>6. over' = "no" => Tries'
  BY <1>1, <1>2, <1>5, <1>10 DEF Ready, ReadyCount, Tries
<1>7. TriesBounded' /\ child'.failures <= MaxTries
  <2>1. /\ c.failures < MaxTries /\ wrong' \in Nat
        /\ wrong' <= c.failures + (IF c.none_enabled THEN 0 ELSE 1)
    BY Zenon DEF Ready, ReadyCount
  <2> QED BY <1>1, <1>2, <2>1 DEF TriesBounded
<1>8. Expected'
  BY <1>10 DEF Expected
<1>9. Len(toMon') <= 2
  <2>1. Len(queue) = 0 \/ Len(queue) = 1
    BY Zenon DEF Ready, ReadyQueue
  <2> QED BY <2>1
<1> QED BY <1>1, <1>4, <1>6, <1>7, <1>8, <1>9 DEF Kept

\* The child asks the monitor.
LEMMA QuestionKeeps ==
  ASSUME NEW c \in ChildType, NEW q \in Requests, NEW queue \in Seq(Messages),
         Ready(c, queue), Asks(c, q, queue)
  PROVE  Kept(c)
<1>1. PICK type \in {"AUTHPASSWORD", "KEYALLOWED"} :
         /\ IF type = "AUTHPASSWORD"
            THEN q.method = "password" \/ (q.method = "none" /\ conf.empty /\ ~c.none_enabled)
            ELSE q.method \in {"publickey", "hostbased"} /\ q.key \in Keys
         /\ conf.lists # <<>> => Listed(c.lists, q.method)
         /\ child' = [c EXCEPT !.pc = "wait", !.req = q]
         /\ toMon' = Append(queue, Message(type, q))
         /\ over' = over
  BY Zenon DEF Asks
<1>2. q \in Request
  BY RequestsTyped
<1>3. /\ child' \in ChildType /\ child'.pc = "wait" /\ child'.req = q
      /\ child'.attempt = c.attempt /\ child'.failures = c.failures
      /\ child'.lists = c.lists /\ child'.none_enabled = c.none_enabled
  BY <1>1, <1>2 DEF ChildType
<1>4. Message(type, q) \in Messages
  BY <1>1, <1>2 DEF Message, Messages, AuthRequests
<1>5. /\ toMon' \in Seq(Messages) /\ Len(toMon') = Len(queue) + 1
      /\ toMon'[Len(toMon')] = Message(type, q)
      /\ Len(queue) > 0 => toMon'[1] = queue[1]
  BY <1>1, <1>4, OneMore
<1>6. Unread(1)' /\ Len(toMon') <= 2
  BY <1>5 DEF Ready, ReadyQueue, Unread, AuthRequests
<1>7. Underway(type)'
  BY <1>1, <1>3, <1>5, <1>6 DEF Ready, ReadyPlace, Underway, InStep
<1>8. Fits(type)' /\ type \in AuthRequests
  BY <1>1, <1>3 DEF Ready, ReadyPlace, Fits, AuthRequests
<1>9. conf'.lists # <<>> => Listed(child'.lists, child'.req.method)
  BY <1>1, <1>3 DEF Ready, ReadyPlace
<1>10. Waiting'
  BY <1>3, <1>7, <1>8, <1>9 DEF Ready, ReadyCount, Waiting
<1>11. Phase'
  BY <1>3, <1>10 DEF Phase
<1>12. Owed' = 0
  BY EmptySeq DEF Ready, ReadyPlace, Owed
<1>13. /\ c.failures \in Nat /\ c.attempt \in Nat /\ MaxTries \in Nat
       /\ c.none_enabled \in BOOLEAN
  BY AuthAssumption DEF ChildType
<1>14. Tries' /\ TriesBounded' /\ child'.failures <= MaxTries
  BY <1>3, <1>12, <1>13 DEF Ready, ReadyCount, Tries, TriesBounded
<1>15. Expected'
  BY <1>1 DEF Ready, ReadyPlace, Expected
<1> QED BY <1>3, <1>5, <1>6, <1>11, <1>14, <1>15 DEF Kept

\* The child tries a method while the monitor is in step with it.
LEMMA TryKeeps ==
  ASSUME NEW c \in ChildType, NEW q \in Requests, NEW queue \in Seq(Messages),
         TryMethod(c, q, queue), Ready(c, queue)
  PROVE  Kept(c)
<1>1. PICK c1 \in ChildType :
           /\ c1.attempt = c.attempt /\ c1.failures = c.failures /\ c1.lists = c.lists
           /\ c1.none_enabled => c.none_enabled
           /\ \/ Finish(c1, q.method, FALSE, FALSE) /\ toMon' = queue
              \/ Asks(c1, q, queue)
  BY TryAsks, Zenon
<1>2. c1.failures \in Nat /\ c1.none_enabled \in BOOLEAN /\ c.none_enabled \in BOOLEAN
  BY DEF ChildType
<1>3. Ready(c1, queue)
  BY <1>1, <1>2 DEF Ready, ReadyPlace, ReadyCount
<1>4. Kept(c1)
  BY <1>1, <1>3, RefusalKeeps, QuestionKeeps, Zenon
<1> QED BY <1>1, <1>4, Zenon DEF Kept

-----------------------------------------------------------------------------
(* The steps of the child.                                                 *)

\* A step of the child does not touch the monitor.
ChildStep ==
  /\ conf' = conf /\ known' = known /\ mon' = mon /\ proofs' = proofs /\ wrong' = wrong

\* What a step of the child has to keep of the invariant.
LEMMA ChildFrame ==
  ASSUME IInv, ChildStep,
         requests' \in {requests, requests + 1}, requests' <= MaxRequests,
         toChild' \in Seq(ReplyType), Len(toChild') <= 1,
         NEW c, Kept(c), c.attempt <= requests'
  PROVE  IInv'
<1>1. /\ child' \in ChildType /\ child'.attempt <= requests' /\ child'.failures <= MaxTries
      /\ toMon' \in Seq(Messages) /\ Len(toMon') <= 2
      /\ Expected' /\ TriesBounded' /\ (over' = "no" => Phase' /\ Tries')
  BY DEF Kept
<1>2. Shape'
  BY <1>1 DEF IInv, Shape, ChildStep
<1>3. Bounds'
  BY <1>1 DEF IInv, Bounds, ChildStep
<1> QED BY <1>1, <1>2, <1>3, Zenon DEF IInv

\* The connection ends, for none of the reasons that Expected excludes.
LEMMA EndKeeps ==
  ASSUME IInv, over' # "no", Expected', TriesBounded', Shape', Bounds'
  PROVE  IInv'
BY DEF IInv

\* The connection ends and nothing else changes.
LEMMA EndFrame ==
  ASSUME IInv, over' # "no", Expected', ChildStep, child' = child, toMon' = toMon,
         toChild' = toChild, requests' \in {requests, requests + 1}, requests' <= MaxRequests
  PROVE  IInv'
<1>1. Shape' /\ requests \in Nat
  BY DEF IInv, Shape, ChildStep
<1>2. Bounds'
  <2>1. child.attempt \in Nat
    BY DEF IInv, Shape, ChildType
  <2>2. child.attempt <= requests'
    BY <1>1, <2>1 DEF IInv, Bounds
  <2> QED BY <2>2 DEF IInv, Bounds, ChildStep
<1>3. TriesBounded'
  BY DEF IInv, TriesBounded, ChildStep
<1> QED BY <1>1, <1>2, <1>3, EndKeeps

\* input_userauth_request()
LEMMA UserauthRequestKeeps ==
  ASSUME IInv, NEW q \in Requests, NEW same \in BOOLEAN, UserauthRequest(q, same)
  PROVE  IInv'
<1> DEFINE c == [child EXCEPT !.attempt = @ + 1]
<1>1. /\ over = "no" /\ child.pc = "idle" /\ requests < MaxRequests
      /\ requests' = requests + 1 /\ toChild' = toChild /\ ChildStep
  BY DEF UserauthRequest, ChildStep
<1>2. /\ child \in ChildType /\ toMon \in Seq(Messages) /\ toChild \in Seq(ReplyType)
      /\ requests \in Nat /\ MaxRequests \in Nat /\ wrong \in Nat /\ MaxTries \in Nat
      /\ Len(toChild) <= 1 /\ child.attempt <= requests
  BY AuthAssumption DEF IInv, Shape, Bounds
<1>3. /\ c \in ChildType /\ c.attempt = child.attempt + 1 /\ c.failures = child.failures
      /\ c.lists = child.lists /\ c.none_enabled = child.none_enabled /\ c.pc = child.pc
      /\ child.attempt \in Nat /\ child.failures \in Nat /\ child.none_enabled \in BOOLEAN
  BY <1>2 DEF ChildType
<1>4. Phase /\ Tries /\ Owed = 0
  BY <1>1 DEF IInv, Owed
<1>5. c.attempt <= requests' /\ requests' <= MaxRequests
  BY <1>1, <1>2, <1>3
<1>6. CASE child.attempt = 0
  <2>1. /\ child' = [c EXCEPT !.pc = "pwnam", !.req = q]
        /\ toMon' = Append(toMon, Message("PWNAM", q)) /\ over' = over
    BY <1>6, Zenon DEF UserauthRequest
  <2>2. q \in Request
    BY RequestsTyped
  <2> HIDE DEF c
  <2>3. /\ child' \in ChildType /\ child'.pc = "pwnam" /\ child'.attempt = 1 /\ child'.req = q
        /\ child'.failures = child.failures /\ child'.none_enabled = child.none_enabled
    <3>1. c \in ChildType
      BY <1>3
    <3>2. /\ child' \in ChildType /\ child'.pc = "pwnam" /\ child'.attempt = c.attempt /\ child'.req = q
          /\ child'.failures = c.failures /\ child'.none_enabled = c.none_enabled
      BY <3>1, <2>1, <2>2 DEF ChildType
    <3> QED BY <1>3, <1>6, <3>2
  <2>4. /\ toMon = <<>> /\ toChild = <<>> /\ mon.permit = {"PWNAM"} /\ mon.pc = "loop"
    BY <1>1, <1>4, <1>6 DEF Phase
  <2>5. Message("PWNAM", q) \in Messages /\ Message("PWNAM", q).type = "PWNAM"
    BY <2>2 DEF Message, Messages
  <2>6. toMon' \in Seq(Messages) /\ Len(toMon') = 1 /\ toMon'[1].type = "PWNAM"
    BY <1>2, <2>1, <2>4, <2>5, OneMore
  <2>7. Looking'
    BY <1>1, <2>3, <2>4, <2>6 DEF Looking, ChildStep
  <2>8. Phase'
    BY <2>3, <2>7 DEF Phase
  <2>9. Owed' = 0 /\ wrong' = 0
    BY <1>1, <1>4, <1>6, <2>3 DEF Owed, Tries, ChildStep
  <2>10. Tries' /\ TriesBounded' /\ child'.failures <= MaxTries
    BY <1>2, <1>3, <1>4, <2>3, <2>9 DEF Tries, TriesBounded
  <2>11. Expected'
    BY <2>1 DEF IInv, Expected
  <2>12. Kept(c)
    BY <1>3, <1>6, <2>3, <2>6, <2>8, <2>10, <2>11 DEF Kept
  <2> QED BY <1>1, <1>2, <1>5, <2>12, ChildFrame
<1>7. CASE child.attempt # 0 /\ same
  <2>1. TryMethod(c, q, toMon)
    BY <1>7, Zenon DEF UserauthRequest
  <2> HIDE DEF c
  <2>2. toChild = <<>> /\ InStep /\ Unread(0)
    BY <1>1, <1>3, <1>4, <1>7 DEF Phase
  <2>3. ReadyPlace(c)
    BY <1>1, <1>3, <2>2 DEF ReadyPlace, InStep, ChildStep
  <2>4. ReadyQueue(toMon)
    BY <1>1, <2>2 DEF ReadyQueue, Unread, ChildStep, AuthRequests
  <2>5. ReadyCount(c)
    BY <1>1, <1>2, <1>3, <1>4, <1>7 DEF ReadyCount, Tries, ChildStep
  <2>6. Kept(c)
    BY <1>2, <1>3, <2>1, <2>3, <2>4, <2>5, TryKeeps DEF Ready
  <2> QED BY <1>1, <1>2, <1>5, <2>6, ChildFrame
<1>8. CASE child.attempt # 0 /\ ~same
  <2>1. over' = "change_of_username_or_service" /\ child' = child /\ toMon' = toMon
    BY <1>8 DEF UserauthRequest
  <2>2. Expected' /\ over' # "no"
    BY <2>1 DEF Expected
  <2> QED BY <1>1, <1>5, <2>1, <2>2, EndFrame
<1> QED BY <1>6, <1>7, <1>8

\* Nothing is left on a socket.
LEMMA NothingLeft ==
  ASSUME NEW s, s = <<>>
  PROVE  s \in Seq(ReplyType) /\ s \in Seq(Messages) /\ Len(s) = 0 /\ Len(s) <= 1
OBVIOUS

\* The answer the child waits for, and what it goes with.
LEMMA AnswerComes ==
  ASSUME IInv, NEW type \in AuthRequests, Answered("wait", type)
  PROVE  /\ over = "no" /\ child.pc = "wait" /\ child.attempt > 0
         /\ conf.lists # <<>> => Listed(child.lists, child.req.method)
         /\ Fits(type) /\ Returning(type) /\ Phase /\ Tries
         /\ Answer = toChild[1] /\ Answer \in ReplyType /\ Tail(toChild) = <<>>
<1>1. /\ over = "no" /\ child.pc = "wait" /\ toChild # <<>> /\ Answer.type = type
      /\ toChild \in Seq(ReplyType)
  BY DEF Answered, IInv, Shape
<1>2. Phase /\ Tries /\ Waiting
  BY <1>1 DEF IInv, Phase
<1>3. PICK t \in AuthRequests : Fits(t) /\ (Underway(t) \/ Returning(t))
  BY <1>2, Zenon DEF Waiting
<1>4. Returning(t)
  BY <1>1, <1>3, Zenon DEF Underway
<1>5. Len(toChild) = 1 /\ toChild[1].type = t
  BY <1>4, Zenon DEF Returning
<1>6. Answer = toChild[1] /\ Tail(toChild) = <<>> /\ toChild[1] \in ReplyType
  BY <1>1, <1>5, OneElement DEF Answer
<1>7. t = type
  BY <1>1, <1>5, <1>6
<1> QED BY <1>1, <1>2, <1>3, <1>4, <1>6, <1>7, Zenon DEF Waiting

\* c is the child but for the fields that do not matter to userauth_finish().
SameChild(c) ==
  /\ c \in ChildType /\ c.lists = child.lists /\ c.attempt = child.attempt
  /\ c.failures = child.failures /\ c.none_enabled = child.none_enabled

\* The child evaluates a refusal that the monitor has counted.
LEMMA RefusedKeeps ==
  ASSUME IInv, NEW type \in {"AUTHPASSWORD", "KEYVERIFY"}, Answered("wait", type),
         ~Answer.ok, NEW c, SameChild(c), Finish(c, child.req.method, FALSE, FALSE),
         ChildStep, toMon' = toMon, toChild' = Tail(toChild), requests' = requests
  PROVE  IInv'
<1>1. /\ over = "no" /\ child.pc = "wait" /\ child.attempt > 0 /\ Fits(type) /\ Returning(type)
      /\ Tries /\ Answer = toChild[1] /\ toChild' = <<>> /\ type # "KEYALLOWED"
  BY AnswerComes DEF AuthRequests
<1>2. /\ toMon = <<>> /\ Len(toChild) = 1 /\ toChild[1].type = type
      /\ mon.permit = AuthRequests /\ Decided(toChild[1].ok)
  BY <1>1, Zenon DEF Returning
<1>3. mon.lists = child.lists /\ mon.pc = "loop"
  BY <1>1, <1>2, Zenon DEF Decided
<1>4. /\ wrong \in Nat /\ MaxTries \in Nat /\ requests \in Nat /\ MaxRequests \in Nat
      /\ child.attempt \in Nat /\ child.failures \in Nat /\ child.none_enabled \in BOOLEAN
      /\ child.attempt <= requests /\ requests <= MaxRequests /\ toMon \in Seq(Messages)
  BY AuthAssumption DEF IInv, Shape, Bounds, ChildType
<1>5. Owed = 1
  BY <1>1, <1>2, Zenon DEF Owed
<1>6. /\ child' \in ChildType /\ child'.pc = "idle" /\ child'.attempt = child.attempt
      /\ child'.lists = child.lists /\ child'.none_enabled = child.none_enabled
      /\ child'.failures = IF ~(child.attempt > 1 \/ child.req.method # "none")
                           THEN child.failures ELSE child.failures + 1
  BY FinishRefused DEF SameChild
<1>7. \/ ~(child'.failures >= MaxTries) /\ over' = "no"
      \/ child'.failures >= MaxTries /\ over' = "too_many_failures"
  BY <1>1, FinishRefused, EndsCases DEF SameChild
<1>8. child.req.method = "none" => ~child.none_enabled
  BY <1>1 DEF Fits
<1>9. /\ wrong <= child.failures + 1 + (IF child.none_enabled THEN 0 ELSE 1)
      /\ child.failures < MaxTries
      /\ child.attempt = 1 => wrong = 1
  BY <1>1, <1>5 DEF Tries
<1>10. wrong <= child'.failures + (IF child'.none_enabled THEN 0 ELSE 1)
  BY <1>1, <1>4, <1>6, <1>8, <1>9
<1>11. child'.failures \in Nat /\ child'.failures <= MaxTries
  BY <1>4, <1>6, <1>9
<1>12. TriesBounded'
  BY <1>4, <1>6, <1>10, <1>11 DEF TriesBounded, ChildStep
<1>13. Owed' = 0
  BY <1>6 DEF Owed
<1>14. over' = "no" => Tries'
  BY <1>1, <1>4, <1>6, <1>7, <1>10, <1>11, <1>13 DEF Tries, ChildStep
<1>15. Phase'
  <2>1. InStep' /\ Unread(0)'
    BY <1>2, <1>3, <1>6, EmptySeq DEF InStep, Unread, ChildStep, AuthRequests
  <2> QED BY <1>1, <1>4, <1>6, <2>1 DEF Phase
<1>16. Expected'
  BY <1>7 DEF Expected
<1>17. Kept(c) /\ c.attempt <= requests'
  BY <1>2, <1>4, <1>6, <1>11, <1>12, <1>14, <1>15, <1>16, EmptySeq DEF Kept, SameChild
<1>18. toChild' \in Seq(ReplyType) /\ Len(toChild') <= 1 /\ requests' <= MaxRequests
  BY <1>1, <1>4, NothingLeft
<1> QED BY <1>17, <1>18, ChildFrame

\* The child evaluates a proof that the monitor has accepted.
LEMMA AcceptedKeeps ==
  ASSUME IInv, NEW type \in {"AUTHPASSWORD", "KEYVERIFY"}, Answered("wait", type),
         Answer.ok, NEW c, SameChild(c), c.forced = child.forced,
         Finish(c, child.req.method, TRUE, FALSE),
         ChildStep, toMon' = toMon, toChild' = Tail(toChild), requests' = requests
  PROVE  IInv'
<1>1. /\ over = "no" /\ child.pc = "wait" /\ child.attempt > 0 /\ Returning(type)
      /\ conf.lists # <<>> => Listed(child.lists, child.req.method)
      /\ Tries /\ Answer = toChild[1] /\ toChild' = <<>> /\ type # "KEYALLOWED"
  BY AnswerComes DEF AuthRequests
<1>2. /\ toMon = <<>> /\ mon.permit = AuthRequests /\ Decided(toChild[1].ok)
  BY <1>1, Zenon DEF Returning
<1> DEFINE m == child.req.method
           won == RootAllowed(m, child.forced) /\ (conf.lists = <<>> \/ Completed(child.lists, m) # {})
<1>3. /\ mon.lists = IF conf.lists # <<>> THEN UpdateLists(child.lists, m) ELSE child.lists
      /\ mon.pc = IF won THEN "keystate" ELSE "loop"
      /\ conf.lists # <<>> => RootAllowed(m, child.forced)
  <2>1. toChild[1].ok
    BY <1>1
  <2> QED BY <1>2, <2>1, Zenon DEF Decided
<1>4. /\ wrong \in Nat /\ MaxTries \in Nat /\ requests \in Nat /\ MaxRequests \in Nat
      /\ child.attempt \in Nat /\ child.failures \in Nat /\ child.none_enabled \in BOOLEAN
      /\ child.attempt <= requests /\ requests <= MaxRequests /\ toMon \in Seq(Messages)
      /\ child \in ChildType
  BY AuthAssumption DEF IInv, Shape, Bounds, ChildType
<1>5. Owed = 0
  BY <1>1 DEF Owed
<1>6. \/ over' = "authenticated_invalid_user" /\ child' = child
      \/ /\ child' \in ChildType /\ child'.attempt = child.attempt
         /\ child'.none_enabled = child.none_enabled
         /\ child'.pc = IF won THEN "export" ELSE "idle"
         /\ child'.lists = mon.lists
         /\ child'.failures \in {child.failures, child.failures + 1}
         /\ child'.pc = "export" => child'.failures = child.failures
         /\ Ends(child'.pc = "idle" /\ child'.failures >= MaxTries)
  BY <1>1, <1>3, FinishAccepted, Zenon DEF SameChild
<1> HIDE DEF won, m
<1>7. requests' <= MaxRequests /\ toChild' \in Seq(ReplyType) /\ Len(toChild') <= 1
  BY <1>1, <1>4, NothingLeft
<1>8. wrong <= child.failures + (IF child.none_enabled THEN 0 ELSE 1) /\ child.failures < MaxTries
  BY <1>1, <1>4, <1>5 DEF Tries
<1>9. Len(toMon') <= 2 /\ toMon' \in Seq(Messages)
  BY <1>2, NothingLeft
<1>10. CASE over' = "authenticated_invalid_user" /\ child' = child
  <2>1. Expected' /\ over' # "no"
    BY <1>10 DEF Expected
  <2>2. TriesBounded'
    BY <1>4, <1>8, <1>10 DEF TriesBounded, ChildStep
  <2>3. Kept(c) /\ c.attempt <= requests'
    BY <1>4, <1>8, <1>9, <1>10, <2>1, <2>2 DEF Kept, SameChild
  <2> QED BY <1>7, <2>3, ChildFrame
<1>11. CASE /\ child' \in ChildType /\ child'.attempt = child.attempt
            /\ child'.none_enabled = child.none_enabled
            /\ child'.pc = IF won THEN "export" ELSE "idle"
            /\ child'.lists = mon.lists
            /\ child'.failures \in {child.failures, child.failures + 1}
            /\ child'.pc = "export" => child'.failures = child.failures
            /\ Ends(child'.pc = "idle" /\ child'.failures >= MaxTries)
  <2>1. \/ ~(child'.pc = "idle" /\ child'.failures >= MaxTries) /\ over' = "no"
        \/ over' = "too_many_failures"
    BY <1>1, <1>11, EndsCases
  <2>2. Expected'
    BY <2>1 DEF Expected
  <2>3. child'.failures \in Nat /\ child'.failures <= MaxTries
    BY <1>4, <1>8, <1>11
  <2>4. wrong <= child'.failures + (IF child'.none_enabled THEN 0 ELSE 1)
    BY <1>4, <1>8, <1>11
  <2>5. TriesBounded'
    BY <1>4, <1>11, <2>3, <2>4 DEF TriesBounded, ChildStep
  <2>6. Owed' = 0
    BY <1>11 DEF Owed
  <2>7. over' = "no" => Tries'
    BY <1>1, <1>4, <1>8, <1>11, <2>1, <2>3, <2>4, <2>6 DEF Tries, ChildStep
  <2>8. CASE won
    <3>1. Phase'
      BY <1>1, <1>2, <1>3, <1>11, <2>8 DEF Phase, ChildStep
    <3>2. Kept(c) /\ c.attempt <= requests'
      BY <1>4, <1>9, <1>11, <2>2, <2>3, <2>5, <2>7, <3>1 DEF Kept, SameChild
    <3> QED BY <1>7, <3>2, ChildFrame
  <2>9. CASE ~won
    <3>1. InStep' /\ Unread(0)'
      BY <1>2, <1>3, <1>11, <2>9, EmptySeq DEF InStep, Unread, ChildStep, AuthRequests
    <3>2. Phase'
      BY <1>1, <1>4, <1>11, <2>9, <3>1 DEF Phase
    <3>3. Kept(c) /\ c.attempt <= requests'
      BY <1>4, <1>9, <1>11, <2>2, <2>3, <2>5, <2>7, <3>2 DEF Kept, SameChild
    <3> QED BY <1>7, <3>3, ChildFrame
  <2> QED BY <2>8, <2>9
<1> QED BY <1>6, <1>10, <1>11

\* mm_getpwnamallow() returns.
LEMMA PwnamAnswerKeeps ==
  ASSUME IInv, NEW ok \in BOOLEAN, PwnamAnswer(ok)
  PROVE  IInv'
<1> DEFINE c     == [child EXCEPT !.pc = "idle", !.valid = Answer.ok /\ ok, !.lists = SetupLists]
           queue == Append(toMon, Message("AUTHSERV", child.req))
<1>1. /\ over = "no" /\ child.pc = "pwnam" /\ toChild # <<>> /\ toChild' = Tail(toChild)
      /\ requests' = requests /\ ChildStep
  BY DEF PwnamAnswer, Answered, ChildStep
<1>2. /\ child \in ChildType /\ toMon \in Seq(Messages) /\ toChild \in Seq(ReplyType)
      /\ requests \in Nat /\ MaxRequests \in Nat /\ wrong \in Nat /\ MaxTries \in Nat
      /\ child.attempt <= requests /\ conf \in Configs /\ requests <= MaxRequests
  BY AuthAssumption DEF IInv, Shape, Bounds
<1>3. Phase /\ Tries /\ Owed = 0
  BY <1>1 DEF IInv, Owed
<1>4. Looking
  BY <1>1, <1>3 DEF Phase
<1>5. /\ child.attempt = 1 /\ child.req \in Requests /\ mon.pc = "loop" /\ toMon = <<>>
      /\ mon.permit = {"AUTHSERV"} /\ mon.lists = SetupLists /\ Len(toChild) = 1
  BY <1>1, <1>4, Zenon DEF Looking
<1>6. toChild' = <<>>
  BY <1>1, <1>2, <1>5, OneElement
<1>7. SetupLists \in Lists
  BY <1>2, SetupKeeps
<1>8. child.req \in Request
  BY <1>2 DEF ChildType
<1>9. /\ c \in ChildType /\ c.attempt = child.attempt /\ c.failures = child.failures
      /\ c.lists = SetupLists /\ c.none_enabled = child.none_enabled
      /\ child.attempt \in Nat /\ child.failures \in Nat /\ child.none_enabled \in BOOLEAN
  BY <1>2, <1>7 DEF ChildType
<1>10. /\ Message("AUTHSERV", child.req) \in Messages
       /\ Message("AUTHSERV", child.req).type = "AUTHSERV"
  BY <1>8 DEF Message, Messages
<1>11. queue \in Seq(Messages) /\ Len(queue) = 1 /\ queue[1].type = "AUTHSERV"
  BY <1>2, <1>5, <1>10, OneMore
<1>12. IF conf.lists # <<>> /\ SetupLists = <<>>
       THEN over' = "no_authentication_methods_enabled" /\ child' = c /\ toMon' = queue
       ELSE TryMethod(c, child.req, queue)
  BY Zenon DEF PwnamAnswer
<1> HIDE DEF c, queue
<1>13. wrong = 0 /\ child.failures < MaxTries
  BY <1>1, <1>3 DEF Tries
<1>14. ASSUME conf.lists # <<>> /\ SetupLists = <<>>
       PROVE  Kept(c)
  <2>1. over' = "no_authentication_methods_enabled" /\ child' = c /\ toMon' = queue
    BY <1>12, <1>14, Zenon
  <2>2. Expected' /\ over' # "no"
    BY <2>1 DEF Expected
  <2>3. TriesBounded'
    BY <1>1, <1>2, <1>9, <1>13, <2>1 DEF TriesBounded, ChildStep
  <2>4. /\ child' \in ChildType /\ child'.attempt = c.attempt /\ toMon' \in Seq(Messages)
        /\ Len(toMon') = 1 /\ child'.failures = child.failures
    BY <1>9, <1>11, <2>1, Zenon
  <2>5. child'.failures <= MaxTries /\ Len(toMon') <= 2
    BY <1>2, <1>9, <1>13, <2>4
  <2> QED BY <2>2, <2>3, <2>4, <2>5, Zenon DEF Kept
<1>15. ASSUME ~(conf.lists # <<>> /\ SetupLists = <<>>)
       PROVE  Kept(c)
  <2>1. TryMethod(c, child.req, queue)
    BY <1>12, <1>15, Zenon
  <2>2. ReadyPlace(c)
    BY <1>1, <1>5, <1>6, <1>9 DEF ReadyPlace, ChildStep
  <2>3. ReadyQueue(queue)
    BY <1>1, <1>5, <1>11 DEF ReadyQueue, ChildStep
  <2>4. ReadyCount(c)
    BY <1>1, <1>2, <1>5, <1>9, <1>13 DEF ReadyCount, ChildStep
  <2> QED BY <1>5, <1>9, <1>11, <2>1, <2>2, <2>3, <2>4, TryKeeps DEF Ready
<1>16. Kept(c) /\ c.attempt <= requests'
  BY <1>1, <1>2, <1>9, <1>14, <1>15
<1> QED BY <1>1, <1>2, <1>6, <1>16, NothingLeft, ChildFrame

\* mm_auth_password() returns.
LEMMA PasswordAnswerKeeps ==
  ASSUME IInv, PasswordAnswer
  PROVE  IInv'
<1>1. /\ Answered("wait", "AUTHPASSWORD") /\ toChild' = Tail(toChild) /\ toMon' = toMon
      /\ Finish(child, child.req.method, Answer.ok, FALSE)
      /\ requests' = requests /\ ChildStep
  BY DEF PasswordAnswer, ChildStep
<1>2. SameChild(child)
  BY DEF IInv, Shape, SameChild
<1>3. Answer.ok \in BOOLEAN
  BY <1>1, AnswerComes DEF ReplyType, AuthRequests
<1>4. CASE Answer.ok
  <2>1. Finish(child, child.req.method, TRUE, FALSE)
    BY <1>1, <1>3, <1>4
  <2> QED BY <1>1, <1>2, <1>4, <2>1, AcceptedKeeps
<1>5. CASE ~Answer.ok
  <2>1. Finish(child, child.req.method, FALSE, FALSE)
    BY <1>1, <1>3, <1>5
  <2> QED BY <1>1, <1>2, <1>5, <2>1, RefusedKeeps
<1> QED BY <1>4, <1>5

\* mm_key_verify() returns.
LEMMA KeyVerifyAnswerKeeps ==
  ASSUME IInv, KeyVerifyAnswer
  PROVE  IInv'
<1> DEFINE m == child.req.method
           c == IF ~Answer.ok THEN ClearOptions(child)
                ELSE IF m = "publickey" THEN [child EXCEPT !.used = @ \cup {child.req.key}]
                ELSE child
<1>1. /\ Answered("wait", "KEYVERIFY") /\ toChild' = Tail(toChild) /\ toMon' = toMon
      /\ Finish(c, m, Answer.ok, FALSE) /\ requests' = requests /\ ChildStep
  BY DEF KeyVerifyAnswer, ChildStep
<1>2. child \in ChildType /\ child.req.key \in Keys
  BY <1>1, AnswerComes DEF IInv, Shape, Fits, AuthRequests
<1>3. Answer.ok \in BOOLEAN
  BY <1>1, AnswerComes DEF ReplyType, AuthRequests
<1>4. SameChild(c) /\ (Answer.ok => c.forced = child.forced)
  BY <1>2 DEF SameChild, ChildType, ClearOptions
<1> HIDE DEF c
<1>5. CASE Answer.ok
  <2>1. Finish(c, child.req.method, TRUE, FALSE)
    BY <1>1, <1>3, <1>5
  <2> QED BY <1>1, <1>4, <1>5, <2>1, AcceptedKeeps
<1>6. CASE ~Answer.ok
  <2>1. Finish(c, child.req.method, FALSE, FALSE)
    BY <1>1, <1>3, <1>6
  <2> QED BY <1>1, <1>4, <1>6, <2>1, RefusedKeeps
<1> QED BY <1>5, <1>6

\* mm_key_allowed() returns.
LEMMA KeyAllowedAnswerKeeps ==
  ASSUME IInv, KeyAllowedAnswer
  PROVE  IInv'
<1> DEFINE c == [child EXCEPT !.forced = Answer.forced]
           d == ClearOptions(c)
           m == child.req.method
<1>1. /\ Answered("wait", "KEYALLOWED") /\ toChild' = Tail(toChild)
      /\ requests' = requests /\ ChildStep
  BY DEF KeyAllowedAnswer, ChildStep
<1>2. /\ over = "no" /\ child.pc = "wait" /\ child.attempt > 0
      /\ conf.lists # <<>> => Listed(child.lists, m)
      /\ Fits("KEYALLOWED") /\ Returning("KEYALLOWED") /\ Phase /\ Tries
      /\ Answer = toChild[1] /\ Answer \in ReplyType /\ toChild' = <<>>
  BY <1>1, AnswerComes DEF AuthRequests
<1>3. /\ toMon = <<>> /\ mon.permit = AuthRequests /\ InStep /\ Answer.forced = mon.forced
      /\ toChild[1].type = "KEYALLOWED" /\ (Answer.ok => mon.key = OfferedKey)
  BY <1>2 DEF Returning
<1>4. /\ wrong \in Nat /\ MaxTries \in Nat /\ requests \in Nat /\ MaxRequests \in Nat
      /\ child.attempt <= requests /\ requests <= MaxRequests /\ toMon \in Seq(Messages)
      /\ child \in ChildType /\ Answer.ok \in BOOLEAN /\ Answer.forced \in BOOLEAN
  BY <1>2, AuthAssumption DEF IInv, Shape, Bounds, ReplyType
<1>5. /\ c \in ChildType /\ c.req = child.req /\ c.pc = child.pc /\ c.lists = child.lists
      /\ c.attempt = child.attempt /\ c.failures = child.failures
      /\ c.none_enabled = child.none_enabled /\ c.forced = Answer.forced
      /\ child.attempt \in Nat /\ child.failures \in Nat /\ child.none_enabled \in BOOLEAN
      /\ child.req \in Request
  BY <1>4 DEF ChildType
<1>6. IF Answer.ok /\ c.req.sig # "none"
      THEN /\ child' = c /\ toMon' = Append(toMon, Message("KEYVERIFY", c.req)) /\ over' = over
      ELSE Finish(d, c.req.method, FALSE, Answer.ok) /\ toMon' = toMon
  BY Zenon DEF KeyAllowedAnswer
<1> HIDE DEF c
<1>7. /\ d \in ChildType /\ d.lists = c.lists /\ d.attempt = c.attempt
      /\ d.failures = c.failures /\ d.none_enabled = c.none_enabled
  BY <1>5 DEF ChildType, ClearOptions
<1>8. Owed = 0
  BY <1>2, <1>3 DEF Owed
<1>9. /\ wrong <= child.failures + (IF child.none_enabled THEN 0 ELSE 1)
      /\ child.failures < MaxTries /\ (child.attempt = 1 => wrong = 0)
  BY <1>2, <1>4, <1>5, <1>8 DEF Tries
<1> HIDE DEF d, m
<1>10. ASSUME Answer.ok, c.req.sig # "none"
       PROVE  Kept(c)
  <2>1. child' = c /\ toMon' = Append(toMon, Message("KEYVERIFY", c.req)) /\ over' = over
    BY <1>6, <1>10, Zenon
  <2>2. Message("KEYVERIFY", c.req) \in Messages
    BY <1>5 DEF Message, Messages, AuthRequests
  <2>3. /\ toMon' \in Seq(Messages) /\ Len(toMon') = 1
        /\ toMon'[1] = Message("KEYVERIFY", c.req)
    BY <1>3, <1>4, <2>1, <2>2, OneMore
  <2>4. Underway("KEYVERIFY")'
    <3>1. InStep' /\ Unread(1)'
      BY <1>1, <1>3, <1>5, <2>1, <2>3 DEF InStep, Unread, ChildStep, AuthRequests
    <3>2. mon'.key = OfferedKey' /\ child'.forced = mon'.forced
      BY <1>1, <1>3, <1>5, <1>10, <2>1 DEF OfferedKey, ChildStep
    <3> QED BY <1>2, <2>1, <2>3, <3>1, <3>2 DEF Underway
  <2>5. Fits("KEYVERIFY")'
    BY <1>2, <1>5, <2>1 DEF Fits
  <2>6. conf'.lists # <<>> => Listed(child'.lists, child'.req.method)
    BY <1>1, <1>2, <1>5, <2>1 DEF ChildStep, m
  <2>7. Waiting'
    BY <1>2, <1>5, <2>1, <2>4, <2>5, <2>6 DEF Waiting, AuthRequests
  <2>8. Phase'
    BY <1>2, <1>5, <2>1, <2>7 DEF Phase
  <2>9. Owed' = 0
    BY <1>2, EmptySeq DEF Owed
  <2>10. Tries' /\ TriesBounded' /\ child'.failures <= MaxTries
    BY <1>1, <1>2, <1>4, <1>5, <1>9, <2>1, <2>9 DEF Tries, TriesBounded, ChildStep
  <2>11. Expected'
    BY <1>2, <2>1 DEF Expected
  <2> QED BY <1>5, <2>1, <2>3, <2>8, <2>10, <2>11 DEF Kept
<1>11. ASSUME ~(Answer.ok /\ c.req.sig # "none")
       PROVE  Kept(d)
  <2>1. Finish(d, c.req.method, FALSE, Answer.ok) /\ toMon' = toMon
    BY <1>6, <1>11, Zenon
  <2>2. ReadyPlace(d)
    BY <1>1, <1>2, <1>3, <1>5, <1>7 DEF ReadyPlace, InStep, ChildStep
  <2>3. ReadyQueue(toMon)
    BY <1>1, <1>3, EmptySeq DEF ReadyQueue, ChildStep, AuthRequests
  <2>4. ReadyCount(d)
    BY <1>1, <1>2, <1>4, <1>5, <1>7, <1>9 DEF ReadyCount, ChildStep
  <2> QED BY <1>4, <1>7, <2>1, <2>2, <2>3, <2>4, RefusalKeeps DEF Ready
<1>12. requests' <= MaxRequests /\ toChild' \in Seq(ReplyType) /\ Len(toChild') <= 1
  BY <1>1, <1>2, <1>4, NothingLeft
<1>13. c.attempt <= requests' /\ d.attempt <= requests'
  BY <1>1, <1>4, <1>5, <1>7
<1> QED BY <1>1, <1>10, <1>11, <1>12, <1>13, ChildFrame

\* The child sends its state after SUCCESS.
LEMMA SendKeystateKeeps ==
  ASSUME IInv, SendKeystate
  PROVE  IInv'
<1>1. /\ over = "no" /\ child.pc = "export" /\ child' = [child EXCEPT !.pc = "done"]
      /\ toMon' = Append(toMon, Message("KEYEXPORT", NoRequest)) /\ toChild' = toChild
      /\ requests' = requests /\ over' = over /\ ChildStep
  BY DEF SendKeystate, ChildStep
<1>2. /\ wrong \in Nat /\ MaxTries \in Nat /\ requests \in Nat /\ MaxRequests \in Nat
      /\ child.attempt <= requests /\ requests <= MaxRequests /\ toMon \in Seq(Messages)
      /\ child \in ChildType
  BY AuthAssumption DEF IInv, Shape, Bounds
<1>3. /\ child' \in ChildType /\ child'.pc = "done" /\ child'.attempt = child.attempt
      /\ child'.failures = child.failures /\ child'.none_enabled = child.none_enabled
      /\ child.attempt \in Nat /\ child.failures \in Nat /\ child.none_enabled \in BOOLEAN
  BY <1>1, <1>2 DEF ChildType
<1>4. Phase /\ Tries /\ Owed = 0 /\ TriesBounded /\ Expected
  BY <1>1 DEF IInv, Owed
<1>5. toMon = <<>> /\ toChild = <<>> /\ mon.pc = "keystate"
  BY <1>1, <1>4 DEF Phase
<1>6. Message("KEYEXPORT", NoRequest) \in Messages /\ Message("KEYEXPORT", NoRequest).type = "KEYEXPORT"
  BY DEF Message, Messages, NoRequest, Request, Methods
<1>7. toMon' \in Seq(Messages) /\ Len(toMon') = 1 /\ toMon'[1].type = "KEYEXPORT"
  BY <1>1, <1>2, <1>5, <1>6, OneMore
<1>8. Phase'
  BY <1>1, <1>3, <1>5, <1>7 DEF Phase, ChildStep
<1>9. Owed' = 0
  BY <1>3 DEF Owed
<1>10. Tries' /\ TriesBounded' /\ child'.failures <= MaxTries
  BY <1>1, <1>2, <1>3, <1>4, <1>9 DEF Tries, TriesBounded, ChildStep
<1>11. Expected'
  BY <1>1, <1>4 DEF Expected
<1>12. Kept(child) /\ child.attempt <= requests'
  BY <1>1, <1>2, <1>3, <1>7, <1>8, <1>10, <1>11 DEF Kept
<1> QED BY <1>1, <1>2, <1>5, <1>12, NothingLeft, ChildFrame

-----------------------------------------------------------------------------
(* The steps of the monitor.                                               *)

MonStep == conf' = conf /\ known' = known /\ child' = child /\ requests' = requests

\* What a step of the monitor has to keep of the invariant.
LEMMA MonFrame ==
  ASSUME IInv, MonStep, mon' \in MonType, mon'.attempt <= 1,
         "PWNAM" \in mon'.permit => mon'.attempt = 0,
         toMon' \in Seq(Messages), Len(toMon') <= 2,
         toChild' \in Seq(ReplyType), Len(toChild') <= 1,
         proofs' \in Seq([method : Methods, key : Keys \cup {"none"}]),
         wrong' \in Nat, Expected', TriesBounded', over' = "no" => Phase' /\ Tries'
  PROVE  IInv'
<1>1. Shape'
  BY DEF IInv, Shape, MonStep
<1>2. Bounds'
  BY DEF IInv, Bounds, MonStep
<1> QED BY <1>1, <1>2, Zenon DEF IInv

\* The request at the head.
Oldest == Head(toMon)
\* The request at the head tells where the two processes are.
LEMMA HeadTells ==
  ASSUME IInv, over = "no", toMon # <<>>
  PROVE  /\ toChild = <<>> /\ Oldest = toMon[1]
         /\ \/ /\ Oldest.type = "PWNAM" /\ child.pc = "pwnam" /\ mon.permit = {"PWNAM"}
               /\ Len(toMon) = 1 /\ child.attempt = 1 /\ child.req \in Requests /\ mon.pc = "loop"
            \/ /\ Oldest.type = "AUTHSERV" /\ mon.permit = {"AUTHSERV"} /\ child.attempt > 0 /\ InStep
               /\ \/ child.pc = "idle" /\ Len(toMon) = 1
                  \/ child.pc = "wait" /\ Len(toMon) = 2 /\ Waiting
            \/ /\ Oldest.type \in AuthRequests /\ child.pc = "wait" /\ mon.permit = AuthRequests
               /\ Len(toMon) = 1 /\ Waiting /\ Fits(Oldest.type) /\ Underway(Oldest.type)
            \/ /\ Oldest.type = "KEYEXPORT" /\ child.pc = "done" /\ mon.pc = "keystate"
               /\ Len(toMon) = 1
<1>1. /\ Phase /\ child \in ChildType /\ toMon \in Seq(Messages) /\ Len(toMon) \in Nat
  BY DEF IInv, Shape
<1>2. Oldest = toMon[1] /\ Len(toMon) # 0
  BY <1>1, EmptySeq DEF Oldest
<1>3. child.pc \in {"idle", "pwnam", "wait", "export", "done"} /\ child.attempt \in Nat
  BY <1>1 DEF ChildType
<1>4. CASE child.pc = "idle"
  <2>1. child.attempt > 0 /\ toChild = <<>> /\ InStep /\ Unread(0)
    BY <1>1, <1>3, <1>4 DEF Phase
  <2> QED BY <1>2, <1>4, <2>1 DEF Unread
<1>5. CASE child.pc = "pwnam"
  <2>1. Looking
    BY <1>1, <1>5 DEF Phase
  <2> QED BY <1>2, <1>5, <2>1, Zenon DEF Looking
<1>6. CASE child.pc = "wait"
  <2>1. Waiting
    BY <1>1, <1>6 DEF Phase
  <2>2. PICK t \in AuthRequests : Fits(t) /\ (Underway(t) \/ Returning(t))
    BY <2>1, Zenon DEF Waiting
  <2>3. Underway(t) /\ child.attempt > 0
    BY <2>1, <2>2, Zenon DEF Returning, Waiting
  <2>4. toChild = <<>> /\ InStep /\ Unread(1) /\ toMon[Len(toMon)] = Message(t, child.req)
    BY <2>3, Zenon DEF Underway
  <2>5. CASE mon.permit = AuthRequests /\ Len(toMon) = 1
    <3>1. Oldest.type = t
      BY <1>2, <2>4, <2>5 DEF Message
    <3> QED BY <1>2, <1>6, <2>1, <2>2, <2>3, <2>4, <2>5, <3>1, Zenon
  <2>6. CASE mon.permit = {"AUTHSERV"} /\ Len(toMon) = 1 + 1 /\ toMon[1].type = "AUTHSERV"
    BY <1>2, <1>6, <2>1, <2>3, <2>4, <2>6
  <2> QED BY <2>4, <2>5, <2>6, Zenon DEF Unread
<1>7. CASE child.pc = "export"
  BY <1>1, <1>7 DEF Phase
<1>8. CASE child.pc = "done"
  BY <1>1, <1>2, <1>8 DEF Phase
<1> QED BY <1>3, <1>4, <1>5, <1>6, <1>7, <1>8

\* What is left after the request at the head was read.
LEMMA TailLeft ==
  ASSUME IInv, toMon # <<>>
  PROVE  /\ Tail(toMon) \in Seq(Messages) /\ Len(Tail(toMon)) = Len(toMon) - 1 /\ Len(toMon) \in Nat
         /\ Len(toMon) = 1 => Tail(toMon) = <<>>
         /\ Len(toMon) = 2 => Tail(toMon)[1] = toMon[2]
         /\ Len(Tail(toMon)) <= 2
<1>1. toMon \in Seq(Messages) /\ Len(toMon) <= 2
  BY DEF IInv, Shape, Bounds
<1>2. /\ Tail(toMon) \in Seq(Messages) /\ Len(Tail(toMon)) = Len(toMon) - 1 /\ Len(toMon) \in Nat
      /\ Len(toMon) = 2 => Tail(toMon)[1] = toMon[2]
  BY <1>1, HeadTailProperties
<1>3. Len(toMon) = 1 => Tail(toMon) = <<>>
  BY <1>1, OneElement
<1> QED BY <1>1, <1>2, <1>3

\* The lists that are set up do not change with anything but the configuration.
LEMMA SetupSame == conf' = conf => SetupLists' = SetupLists
BY DEF SetupLists, KeptLists, Usable

\* mm_answer_pwnamallow()
LEMMA AnswerPwnamKeeps ==
  ASSUME IInv, NEW name \in Names, AnswerPwnam(name)
  PROVE  IInv'
<1>1. /\ over = "no" /\ toMon # <<>> /\ Oldest.type = "PWNAM" /\ toMon' = Tail(toMon) /\ MonStep
  BY DEF AnswerPwnam, Asked, MonStep, Oldest
<1>2. /\ toChild = <<>> /\ child.pc = "pwnam" /\ mon.permit = {"PWNAM"} /\ Len(toMon) = 1
      /\ child.attempt = 1 /\ child.req \in Requests /\ mon.pc = "loop"
  BY <1>1, HeadTells DEF AuthRequests
<1>3. toMon' = <<>> /\ toMon' \in Seq(Messages) /\ Len(toMon') <= 2
  BY <1>1, <1>2, TailLeft
<1>4. /\ mon \in MonType /\ known \in BOOLEAN /\ conf \in Configs /\ wrong \in Nat
      /\ toChild \in Seq(ReplyType) /\ mon.attempt <= 1 /\ mon.attempt = 0
      /\ proofs \in Seq([method : Methods, key : Keys \cup {"none"}])
      /\ TriesBounded /\ Expected /\ Tries /\ child.none_enabled \in BOOLEAN
  BY <1>1, <1>2 DEF IInv, Shape, Bounds, ChildType
<1>5. CASE name # "plain"
  <2>1. /\ mon' = [mon EXCEPT !.permit = (@ \ {"PWNAM"}) \cup {"AUTHSERV"},
                              !.attempt = @ + 1, !.valid = known, !.lists = SetupLists,
                              !.cut = (name = "user--asset")]
        /\ Reply("PWNAM", known, FALSE) /\ proofs' = proofs /\ wrong' = wrong /\ over' = over
    BY <1>2, <1>5 DEF AnswerPwnam, Permitted
  <2>2. SetupLists \in Lists
    BY <1>4, SetupKeeps
  <2>3. /\ mon' \in MonType /\ mon'.permit = (mon.permit \ {"PWNAM"}) \cup {"AUTHSERV"}
        /\ mon'.attempt = mon.attempt + 1 /\ mon'.lists = SetupLists /\ mon'.pc = mon.pc
    <3> DEFINE P == (mon.permit \ {"PWNAM"}) \cup {"AUTHSERV"}
    <3>1. P \in Permits /\ mon.attempt \in Nat
      BY <1>4 DEF MonType, Permits
    <3>9. PICK cut \in BOOLEAN : cut = (name = "user--asset")
      BY Zenon
    <3>2. mon' = [mon EXCEPT !.permit = P, !.attempt = mon.attempt + 1, !.valid = known,
                             !.lists = SetupLists, !.cut = cut]
      BY <2>1, <3>9, Zenon
    <3> HIDE DEF P
    <3>3. mon \in MonType /\ known \in BOOLEAN /\ mon.attempt + 1 \in Nat
      BY <1>4, <3>1
    <3>4. mon' \in MonType
      BY <2>2, <3>1, <3>2, <3>3 DEF MonType
    <3>5. /\ mon'.permit = P /\ mon'.attempt = mon.attempt + 1
          /\ mon'.lists = SetupLists /\ mon'.pc = mon.pc
      BY <3>2, <3>3 DEF MonType
    <3> QED BY <3>4, <3>5 DEF P
  <2>4. mon'.permit = {"AUTHSERV"} /\ mon'.attempt = 1
    BY <1>2, <1>4, <2>3
  <2>5. [type |-> "PWNAM", ok |-> known, forced |-> FALSE] \in ReplyType
    BY <1>4 DEF ReplyType
  <2>6. toChild' \in Seq(ReplyType) /\ Len(toChild') = 1 /\ toChild'[1].type = "PWNAM"
    BY <1>2, <1>4, <2>1, <2>5, OneMore DEF Reply
  <2>7. Looking'
    <3>1. mon'.lists = SetupLists'
      BY <1>1, <2>3, SetupSame DEF MonStep
    <3> QED BY <1>1, <1>2, <1>3, <2>3, <2>4, <2>6, <3>1 DEF Looking, MonStep
  <2>8. Phase'
    BY <1>1, <1>2, <2>7 DEF Phase, MonStep
  <2>9. Tries' /\ TriesBounded' /\ Expected'
    BY <1>1, <1>2, <1>4, <2>1 DEF Tries, Owed, TriesBounded, Expected, MonStep
  <2> QED BY <1>1, <1>3, <1>4, <2>1, <2>3, <2>4, <2>6, <2>8, <2>9, MonFrame
<1>6. CASE name = "plain"
  <2>1. /\ over' = "no_asset_in_the_user_name" /\ mon' = mon /\ toChild' = toChild
        /\ proofs' = proofs /\ wrong' = wrong
    BY <1>2, <1>6 DEF AnswerPwnam, Permitted, GiveUp
  <2>2. Expected' /\ over' # "no"
    BY <2>1 DEF Expected
  <2>3. TriesBounded'
    BY <1>1, <1>4, <2>1 DEF TriesBounded, MonStep
  <2>4. toChild' \in Seq(ReplyType) /\ Len(toChild') <= 1
    BY <1>2, <2>1, NothingLeft
  <2> QED BY <1>1, <1>3, <1>4, <2>1, <2>2, <2>3, <2>4, MonFrame
<1> QED BY <1>5, <1>6

\* mm_answer_authserv()
LEMMA AnswerAuthservKeeps ==
  ASSUME IInv, AnswerAuthserv
  PROVE  IInv'
<1>1. /\ over = "no" /\ toMon # <<>> /\ Oldest.type = "AUTHSERV" /\ toMon' = Tail(toMon) /\ MonStep
  BY DEF AnswerAuthserv, Asked, MonStep, Oldest
<1>2. /\ toChild = <<>> /\ mon.permit = {"AUTHSERV"} /\ child.attempt > 0 /\ InStep
      /\ \/ child.pc = "idle" /\ Len(toMon) = 1
         \/ child.pc = "wait" /\ Len(toMon) = 2 /\ Waiting
  BY <1>1, HeadTells DEF AuthRequests
<1>3. /\ toMon' \in Seq(Messages) /\ Len(toMon') = Len(toMon) - 1 /\ Len(toMon') <= 2
      /\ (Len(toMon) = 2 => toMon'[1] = toMon[2])
  BY <1>1, TailLeft
<1>4. /\ mon \in MonType /\ wrong \in Nat /\ toChild \in Seq(ReplyType) /\ mon.attempt <= 1
      /\ proofs \in Seq([method : Methods, key : Keys \cup {"none"}])
      /\ TriesBounded /\ Expected /\ Phase /\ Tries /\ child.none_enabled \in BOOLEAN
      /\ child.attempt \in Nat /\ mon.attempt \in Nat
  BY <1>1, <1>2 DEF IInv, Shape, Bounds, ChildType, MonType
<1>5. /\ mon' = [mon EXCEPT !.permit = (@ \ {"AUTHSERV"}) \cup AuthRequests]
      /\ toChild' = toChild /\ proofs' = proofs /\ wrong' = wrong /\ over' = over
  BY <1>2 DEF AnswerAuthserv, Permitted
<1>6. /\ mon' \in MonType /\ mon'.permit = (mon.permit \ {"AUTHSERV"}) \cup AuthRequests
      /\ mon'.attempt = mon.attempt /\ mon'.lists = mon.lists /\ mon'.pc = mon.pc
      /\ mon'.key = mon.key /\ mon'.forced = mon.forced
  BY <1>4, <1>5 DEF MonType, Permits
<1>7. mon'.permit = AuthRequests /\ "PWNAM" \notin mon'.permit
  BY <1>2, <1>6 DEF AuthRequests
<1>8. InStep'
  BY <1>1, <1>2, <1>6 DEF InStep, MonStep
<1>9. CASE child.pc = "idle" /\ Len(toMon) = 1
  <2>1. Unread(0)'
    BY <1>3, <1>7, <1>9 DEF Unread, AuthRequests
  <2> QED
    <3>1. Phase'
      BY <1>1, <1>2, <1>4, <1>5, <1>8, <1>9, <2>1 DEF Phase, MonStep
    <3>2. Tries' /\ TriesBounded' /\ Expected'
      BY <1>1, <1>4, <1>5 DEF Tries, Owed, TriesBounded, Expected, MonStep
    <3>3. Len(toChild') <= 1
      BY <1>2, <1>5, NothingLeft
    <3> QED BY <1>1, <1>3, <1>4, <1>5, <1>6, <1>7, <3>1, <3>2, <3>3, MonFrame
<1>10. CASE child.pc = "wait" /\ Len(toMon) = 2 /\ Waiting
  <2>1. Unread(1)' /\ Len(toMon') = 1
    BY <1>3, <1>7, <1>10 DEF Unread, AuthRequests
  <2>2. PICK t \in AuthRequests : Fits(t) /\ (Underway(t) \/ Returning(t))
    BY <1>10, Zenon DEF Waiting
  <2>3. Underway(t)
    BY <1>1, <2>2, Zenon DEF Returning
  <2>4. /\ toMon[2] = Message(t, child.req)
        /\ t = "KEYVERIFY" => mon.key = OfferedKey /\ child.forced = mon.forced
    BY <1>10, <2>3 DEF Underway
  <2>5. Underway(t)'
    <3>1. toMon'[Len(toMon')] = Message(t, child'.req)
      BY <1>1, <1>3, <1>10, <2>1, <2>4 DEF MonStep
    <3>2. t = "KEYVERIFY" => mon'.key = OfferedKey' /\ child'.forced = mon'.forced
      BY <1>1, <1>6, <2>4 DEF MonStep, OfferedKey
    <3> QED BY <1>2, <1>5, <1>8, <2>1, <3>1, <3>2 DEF Underway
  <2>6. Fits(t)'
    BY <1>1, <2>2 DEF Fits, MonStep
  <2>7. Waiting'
    <3>1. conf'.lists # <<>> => Listed(child'.lists, child'.req.method)
      BY <1>1, <1>10 DEF Waiting, MonStep
    <3>2. t \in AuthRequests' /\ child'.attempt > 0
      BY <1>1, <1>2, <2>2 DEF AuthRequests, MonStep
    <3> QED BY <2>5, <2>6, <3>1, <3>2, Zenon DEF Waiting
  <2>8. Phase'
    BY <1>1, <1>10, <2>7 DEF Phase, MonStep
  <2>9. Tries' /\ TriesBounded' /\ Expected'
    BY <1>1, <1>4, <1>5 DEF Tries, Owed, TriesBounded, Expected, MonStep
  <2>10. Len(toChild') <= 1
    BY <1>2, <1>5, NothingLeft
  <2> QED BY <1>1, <1>3, <1>4, <1>5, <1>6, <1>7, <2>8, <2>9, <2>10, MonFrame
<1> QED BY <1>2, <1>9, <1>10

\* mm_answer_keyallowed()
LEMMA AnswerKeyAllowedKeeps ==
  ASSUME IInv, AnswerKeyAllowed
  PROVE  IInv'
<1>1. /\ over = "no" /\ toMon # <<>> /\ Oldest.type = "KEYALLOWED" /\ toMon' = Tail(toMon) /\ MonStep
  BY DEF AnswerKeyAllowed, Asked, MonStep, Oldest
<1>2. /\ toChild = <<>> /\ child.pc = "wait" /\ mon.permit = AuthRequests /\ Len(toMon) = 1
      /\ Waiting /\ Fits("KEYALLOWED") /\ Underway("KEYALLOWED") /\ Oldest = toMon[1]
  BY <1>1, HeadTells DEF AuthRequests
<1>3. toMon' = <<>> /\ toMon' \in Seq(Messages) /\ Len(toMon') <= 2
  BY <1>1, <1>2, TailLeft
<1>4. /\ mon \in MonType /\ wrong \in Nat /\ toChild \in Seq(ReplyType) /\ mon.attempt <= 1
      /\ proofs \in Seq([method : Methods, key : Keys \cup {"none"}])
      /\ TriesBounded /\ Expected /\ Tries /\ child.none_enabled \in BOOLEAN
  BY <1>1, <1>2 DEF IInv, Shape, Bounds, ChildType
<1>5. Question = child.req /\ InStep
  BY <1>1, <1>2 DEF Question, Oldest, Underway, Message
<1> DEFINE q      == child.req
           user   == q.method = "publickey"
           ok     == /\ mon.valid /\ q.method \in Enabled /\ q.key \in Authorized
                     /\ user => ~AlreadyUsed(mon, q.key)
           forced == IF user /\ mon.valid THEN ok /\ q.sig # "none" /\ q.key \in ForcedKeys
                     ELSE mon.forced
           key    == IF ok THEN [type |-> q.method, key |-> q.key] ELSE NoKey
<1>6. /\ mon' = [mon EXCEPT !.key = key, !.forced = forced]
      /\ Reply("KEYALLOWED", ok, forced) /\ proofs' = proofs /\ wrong' = wrong /\ over' = over
  BY <1>2, <1>5 DEF AnswerKeyAllowed, Permitted, AuthRequests
<1>7. ok \in BOOLEAN /\ forced \in BOOLEAN
  BY <1>4 DEF MonType
<1>8. key \in KeyState
  BY <1>2 DEF Fits, KeyState
<1>9. ok => key = OfferedKey
  BY DEF OfferedKey
<1> HIDE DEF ok, forced, key
<1>10. /\ mon' \in MonType /\ mon'.key = key /\ mon'.forced = forced /\ mon'.lists = mon.lists
       /\ mon'.pc = mon.pc /\ mon'.permit = mon.permit /\ mon'.attempt = mon.attempt
  <2>1. mon \in MonType
    BY <1>4
  <2> QED BY <1>6, <1>7, <1>8, <2>1 DEF MonType
<1>11. [type |-> "KEYALLOWED", ok |-> ok, forced |-> forced] \in ReplyType
  BY <1>7 DEF ReplyType, AuthRequests
<1>12. /\ toChild' \in Seq(ReplyType) /\ Len(toChild') = 1
       /\ toChild'[1] = [type |-> "KEYALLOWED", ok |-> ok, forced |-> forced]
  BY <1>2, <1>4, <1>6, <1>11, OneMore DEF Reply
<1>13. Returning("KEYALLOWED")'
  <2>1. mon'.permit = AuthRequests' /\ InStep'
    BY <1>1, <1>2, <1>5, <1>10 DEF AuthRequests, InStep, MonStep
  <2>2. toChild'[1].forced = mon'.forced /\ (toChild'[1].ok => mon'.key = OfferedKey')
    BY <1>1, <1>9, <1>10, <1>12 DEF MonStep, OfferedKey
  <2> QED BY <1>3, <1>12, <2>1, <2>2 DEF Returning
<1>14. Waiting'
  BY <1>1, <1>2, <1>13 DEF Waiting, Fits, MonStep, AuthRequests
<1>15. Phase'
  BY <1>1, <1>2, <1>14 DEF Phase, MonStep
<1>16. Owed = 0 /\ Owed' = 0
  BY <1>2, <1>12, EmptySeq DEF Owed
<1>17. Tries' /\ TriesBounded' /\ Expected'
  BY <1>1, <1>4, <1>6, <1>16 DEF Tries, TriesBounded, Expected, MonStep
<1>18. "PWNAM" \notin mon'.permit
  BY <1>2, <1>10 DEF AuthRequests
<1> QED BY <1>1, <1>3, <1>4, <1>6, <1>10, <1>12, <1>15, <1>17, <1>18, MonFrame

\* The loop of monitor_child_preauth() comes to the conclusion that the child
\* will come to.
LEMMA DecideKeeps ==
  ASSUME IInv, over = "no", MonStep, toMon # <<>>, toMon' = Tail(toMon),
         NEW type \in {"AUTHPASSWORD", "KEYVERIFY"}, Oldest.type = type,
         NEW n \in MonType, n.permit = mon.permit, n.lists = mon.lists, n.attempt = mon.attempt,
         n.pc = mon.pc,
         NEW m \in Methods, NEW ret \in BOOLEAN,
         NEW proof \in [method : Methods, key : Keys \cup {"none"}],
         Decide(n, m, ret, proof), Reply(type, ret, FALSE),
         ret => RootAllowed(m, n.forced) = RootAllowed(child.req.method, child.forced),
         ret /\ conf.lists # <<>> => m = child.req.method /\ RootAllowed(m, n.forced)
  PROVE  IInv'
<1>1. /\ toChild = <<>> /\ child.pc = "wait" /\ mon.permit = AuthRequests /\ Len(toMon) = 1
      /\ Waiting /\ Fits(type) /\ Underway(type)
  BY HeadTells DEF AuthRequests
<1>2. toMon' = <<>> /\ toMon' \in Seq(Messages) /\ Len(toMon') <= 2
  BY <1>1, TailLeft
<1>3. /\ mon \in MonType /\ wrong \in Nat /\ toChild \in Seq(ReplyType) /\ mon.attempt <= 1
      /\ proofs \in Seq([method : Methods, key : Keys \cup {"none"}])
      /\ child.failures \in Nat /\ MaxTries \in Nat /\ child.attempt \in Nat
      /\ TriesBounded /\ Expected /\ Tries /\ child.none_enabled \in BOOLEAN
  BY AuthAssumption DEF IInv, Shape, Bounds, ChildType
<1>4. n.lists = child.lists /\ n.pc = "loop"
  BY <1>1 DEF Underway, InStep
<1> DEFINE lists   == conf.lists # <<>> /\ ret
           partial == lists /\ Completed(n.lists, m) = {}
           auth    == ret /\ ~partial /\ RootAllowed(m, n.forced)
           newpc   == IF auth THEN "keystate" ELSE "loop"
           newl    == IF lists THEN UpdateLists(n.lists, m) ELSE n.lists
           newf    == IF partial \/ auth THEN n.failures ELSE n.failures + 1
<1>5. lists => Listed(n.lists, m)
  BY <1>1, <1>4 DEF Waiting
<1>6. /\ mon' = [n EXCEPT !.pc = newpc, !.lists = newl, !.failures = newf]
      /\ proofs' = IF ret THEN Append(proofs, proof) ELSE proofs
      /\ wrong' = IF ret THEN wrong ELSE wrong + 1
      /\ over' = CASE lists /\ ~Listed(n.lists, m) -> "method_not_in_AuthenticationMethods"
                   [] auth /\ ~n.valid -> "authenticated_invalid_user"
                   [] OTHER -> over
  BY Zenon DEF Decide, Listed
<1>7. newpc \in {"loop", "keystate"} /\ newl \in Lists /\ newf \in Nat
  <2>1. n.lists \in Lists /\ n.failures \in Nat
    BY DEF MonType
  <2>2. UpdateLists(n.lists, m) \in Lists
    BY <2>1, UpdateTyped
  <2> QED BY <2>1, <2>2
<1>8. /\ newl = IF ret /\ conf.lists # <<>> THEN UpdateLists(child.lists, child.req.method)
                ELSE child.lists
      /\ newpc = IF /\ ret /\ RootAllowed(child.req.method, child.forced)
                    /\ conf.lists = <<>> \/ Completed(child.lists, child.req.method) # {}
                 THEN "keystate" ELSE "loop"
      /\ ret /\ conf.lists # <<>> => RootAllowed(child.req.method, child.forced)
  BY <1>4
<1>9. over' = "no" \/ (over' = "authenticated_invalid_user" /\ ret)
  BY <1>5, <1>6
<1> HIDE DEF newpc, newl, newf, lists, partial, auth
<1>10. /\ mon' \in MonType /\ mon'.pc = newpc /\ mon'.lists = newl /\ mon'.permit = n.permit
       /\ mon'.attempt = n.attempt
  BY <1>6, <1>7 DEF MonType
<1>11. [type |-> type, ok |-> ret, forced |-> FALSE] \in ReplyType
  BY DEF ReplyType, AuthRequests
<1>12. /\ toChild' \in Seq(ReplyType) /\ Len(toChild') = 1
       /\ toChild'[1] = [type |-> type, ok |-> ret, forced |-> FALSE]
  BY <1>1, <1>3, <1>11, OneMore DEF Reply
<1>13. Decided(ret)'
  <2> DEFINE U == UpdateLists(child.lists, child.req.method)
             C == Completed(child.lists, child.req.method)
             R == RootAllowed(child.req.method, child.forced)
  <2>1. U' = U /\ C' = C /\ R' = R /\ child' = child /\ conf' = conf
    BY DEF MonStep, UpdateLists, Completed, RootAllowed, StartsWith
  <2>2. /\ mon'.lists = IF ret /\ conf.lists # <<>> THEN U ELSE child.lists
        /\ mon'.pc = IF ret /\ R /\ (conf.lists = <<>> \/ C # {}) THEN "keystate" ELSE "loop"
        /\ ret /\ conf.lists # <<>> => R
    BY <1>8, <1>10, Zenon
  <2> HIDE DEF U, C, R
  <2>3. /\ mon'.lists = IF ret /\ conf'.lists # <<>> THEN U' ELSE child'.lists
        /\ mon'.pc = IF ret /\ R' /\ (conf'.lists = <<>> \/ C' # {}) THEN "keystate" ELSE "loop"
        /\ ret /\ conf'.lists # <<>> => R'
    BY <2>1, <2>2
  <2> USE DEF U, C, R
  <2> QED BY <2>3, Zenon DEF Decided
<1>14. Returning(type)'
  <2>1. mon'.permit = AuthRequests'
    BY <1>1, <1>10 DEF AuthRequests
  <2>2. (Decided(toChild[1].ok))'
    <3>1. toChild'[1].ok = ret
      BY <1>12
    <3> QED BY <1>13, <3>1
  <2>3. toChild'[1].type = type
    BY <1>12
  <2> QED BY <1>2, <1>12, <2>1, <2>2, <2>3, Zenon DEF Returning
<1>15. Waiting'
  BY <1>1, <1>14 DEF Waiting, Fits, MonStep, AuthRequests
<1>16. Phase'
  BY <1>1, <1>15 DEF Phase, MonStep
<1>17. Owed = 0 /\ Owed' = IF ret THEN 0 ELSE 1
  BY <1>1, <1>12, EmptySeq DEF Owed, MonStep
<1>18. /\ wrong <= child.failures + (IF child.none_enabled THEN 0 ELSE 1)
       /\ child.failures < MaxTries /\ (child.attempt = 0 \/ child.attempt = 1 => wrong = 0)
  BY <1>1, <1>3, <1>17 DEF Tries
<1>19. wrong' = wrong + Owed' /\ wrong' \in Nat
  BY <1>3, <1>6, <1>17
<1>20. Tries' /\ TriesBounded'
  BY <1>1, <1>3, <1>17, <1>18, <1>19 DEF Tries, TriesBounded, MonStep
<1>21. Expected'
  BY <1>9 DEF Expected
<1>22. "PWNAM" \notin mon'.permit /\ mon'.attempt <= 1
  BY <1>1, <1>3, <1>10 DEF AuthRequests
<1>23. proofs' \in Seq([method : Methods, key : Keys \cup {"none"}])
  BY <1>3, <1>6, OneMore
<1> QED BY <1>2, <1>10, <1>12, <1>16, <1>19, <1>20, <1>21, <1>22, <1>23, MonFrame

\* mm_answer_authpassword(): the monitor may take an empty password for "none",
\* but never where there are lists.
LEMMA AnswerPasswordKeeps ==
  ASSUME Agreeing, IInv, AnswerPassword
  PROVE  IInv'
<1> DEFINE n == [mon EXCEPT !.calls = @ + 1]
           q == child.req
           m == PasswordMethod(n, q)
           ret == PasswordOk(q)
<1>1. /\ over = "no" /\ toMon # <<>> /\ Oldest.type = "AUTHPASSWORD" /\ toMon' = Tail(toMon) /\ MonStep
  BY DEF AnswerPassword, Asked, MonStep, Oldest
<1>2. /\ mon.permit = AuthRequests /\ Len(toMon) = 1
      /\ Fits("AUTHPASSWORD") /\ Underway("AUTHPASSWORD") /\ Oldest = toMon[1]
  BY <1>1, HeadTells DEF AuthRequests
<1>3. Question = child.req
  BY <1>1, <1>2 DEF Question, Oldest, Underway, Message
<1>4. /\ Decide(n, m, ret, [method |-> m, key |-> "none"]) /\ Reply("AUTHPASSWORD", ret, FALSE)
  BY <1>2, <1>3 DEF AnswerPassword, Permitted, AuthRequests
<1>5. mon \in MonType /\ conf \in Configs /\ child.req \in Request
  BY DEF IInv, Shape, ChildType
<1>6. /\ n \in MonType /\ n.permit = mon.permit /\ n.lists = mon.lists /\ n.attempt = mon.attempt
      /\ n.pc = mon.pc
  BY <1>5 DEF MonType
<1>7. m \in Methods /\ m \in {"none", "password"} /\ (q.pass # "empty" => m = "password")
  BY DEF PasswordMethod, Methods
<1>8. ret \in BOOLEAN /\ (ret => conf.root = "yes" /\ (q.pass = "right" \/ conf.empty))
  BY DEF PasswordOk
<1>9. ret => RootAllowed(m, n.forced) = RootAllowed(q.method, child.forced) /\ RootAllowed(m, n.forced)
  BY <1>8 DEF RootAllowed
<1>10. ret /\ conf.lists # <<>> => m = q.method
  <2> SUFFICES ASSUME ret, conf.lists # <<>> PROVE m = q.method
    OBVIOUS
  <2>1. ~conf.empty
    BY <1>5 DEF Agreeing
  <2> QED BY <1>2, <1>7, <1>8, <2>1 DEF Fits
<1>11. [method |-> m, key |-> "none"] \in [method : Methods, key : Keys \cup {"none"}]
  BY <1>7
<1> HIDE DEF n, m, ret
<1> QED BY <1>1, <1>4, <1>6, <1>7, <1>8, <1>9, <1>10, <1>11, DecideKeeps

\* The monitor ends the connection, for a reason that is not a surprise.
LEMMA MonitorEnds ==
  ASSUME IInv, over = "no", toMon # <<>>, toMon' = Tail(toMon), MonStep,
         over' = "bad_signature_data_blob", mon' = mon, toChild' = toChild,
         proofs' = proofs, wrong' = wrong
  PROVE  IInv'
<1>1. toMon' \in Seq(Messages) /\ Len(toMon') <= 2
  BY TailLeft
<1>2. Expected' /\ over' # "no"
  BY DEF Expected
<1>3. TriesBounded'
  BY DEF IInv, TriesBounded, MonStep
<1>4. /\ mon \in MonType /\ wrong \in Nat /\ mon.attempt <= 1
      /\ "PWNAM" \in mon.permit => mon.attempt = 0
      /\ proofs \in Seq([method : Methods, key : Keys \cup {"none"}])
      /\ toChild \in Seq(ReplyType) /\ Len(toChild) <= 1
  BY DEF IInv, Shape, Bounds
<1> QED BY <1>1, <1>2, <1>3, <1>4, MonFrame

\* mm_answer_keyverify(): the key is the one that mm_answer_keyallowed() allowed.
LEMMA AnswerKeyVerifyKeeps ==
  ASSUME Agreeing, IInv, AnswerKeyVerify
  PROVE  IInv'
<1> DEFINE q == child.req
           ok == q.sig = "right"
           m  == mon.key.type
           n  == [mon EXCEPT !.key = NoKey,
                             !.used = IF ok /\ m = "publickey" THEN @ \cup {q.key} ELSE @]
<1>1. /\ over = "no" /\ toMon # <<>> /\ Oldest.type = "KEYVERIFY" /\ toMon' = Tail(toMon) /\ MonStep
  BY DEF AnswerKeyVerify, Asked, MonStep, Oldest
<1>2. /\ mon.permit = AuthRequests /\ Len(toMon) = 1 /\ toChild = <<>>
      /\ Fits("KEYVERIFY") /\ Underway("KEYVERIFY") /\ Oldest = toMon[1]
  BY <1>1, HeadTells DEF AuthRequests
<1>3. Question = child.req /\ mon.key = OfferedKey /\ child.forced = mon.forced
  BY <1>1, <1>2 DEF Question, Oldest, Underway, Message
<1>4. mon.key.key = q.key /\ m = q.method /\ q.key \in Keys /\ m \in {"publickey", "hostbased"}
  BY <1>2, <1>3 DEF OfferedKey, Fits
<1>12. CASE ~ValidData(m)
  <2>1. /\ over' = "bad_signature_data_blob" /\ mon' = mon /\ toChild' = toChild
        /\ proofs' = proofs /\ wrong' = wrong
    BY <1>2, <1>3, <1>4, <1>12 DEF AnswerKeyVerify, Permitted, AuthRequests, GiveUp
  <2> QED BY <1>1, <2>1, MonitorEnds
<1> SUFFICES ASSUME ValidData(m) PROVE IInv'
  BY <1>12
<1>5. /\ Decide(n, m, ok, [method |-> m, key |-> q.key]) /\ Reply("KEYVERIFY", ok, FALSE)
  BY <1>2, <1>3, <1>4 DEF AnswerKeyVerify, Permitted, AuthRequests
<1>6. mon \in MonType /\ conf \in Configs /\ NoKey \in KeyState
  BY DEF IInv, Shape, KeyState
<1>7. /\ n \in MonType /\ n.permit = mon.permit /\ n.lists = mon.lists /\ n.attempt = mon.attempt
      /\ n.pc = mon.pc /\ n.forced = mon.forced
  BY <1>4, <1>6 DEF MonType
<1>8. conf.lists # <<>> => RootAllowed(m, n.forced)
  BY <1>4, <1>6 DEF Agreeing, RootAllowed
<1>9. RootAllowed(m, n.forced) = RootAllowed(q.method, child.forced)
  BY <1>3, <1>4, <1>7
<1>10. [method |-> m, key |-> q.key] \in [method : Methods, key : Keys \cup {"none"}] /\ m \in Methods
  BY <1>4 DEF Methods
<1> HIDE DEF n, m, ok
<1>11. ok \in BOOLEAN
  BY DEF ok
<1> QED BY <1>1, <1>4, <1>5, <1>7, <1>8, <1>9, <1>10, <1>11, DecideKeeps

\* mm_get_keystate()
LEMMA GetKeystateKeeps ==
  ASSUME IInv, GetKeystate
  PROVE  IInv'
<1>1. /\ over = "no" /\ toMon # <<>> /\ toMon' = Tail(toMon) /\ MonStep
      /\ mon.pc = "keystate" \/ Oldest.type = "KEYEXPORT"
  BY DEF GetKeystate, MonStep, Oldest
<1>2. /\ toChild = <<>> /\ child.pc = "done" /\ mon.pc = "keystate" /\ Oldest.type = "KEYEXPORT"
      /\ Len(toMon) = 1
  <2>1. Underway(Oldest.type) => mon.pc = "loop"
    BY DEF Underway, InStep
  <2> QED BY <1>1, <2>1, HeadTells DEF AuthRequests, InStep
<1>3. toMon' = <<>> /\ toMon' \in Seq(Messages) /\ Len(toMon') <= 2
  BY <1>1, <1>2, TailLeft
<1>4. /\ mon' = [mon EXCEPT !.pc = "done"]
      /\ toChild' = toChild /\ proofs' = proofs /\ wrong' = wrong /\ over' = over
  BY <1>2 DEF GetKeystate, Oldest
<1>5. /\ mon \in MonType /\ wrong \in Nat /\ mon.attempt <= 1
      /\ "PWNAM" \in mon.permit => mon.attempt = 0
      /\ proofs \in Seq([method : Methods, key : Keys \cup {"none"}])
      /\ TriesBounded /\ Expected /\ Tries
  BY <1>1 DEF IInv, Shape, Bounds
<1>6. /\ mon' \in MonType /\ mon'.pc = "done" /\ mon'.attempt = mon.attempt
      /\ mon'.permit = mon.permit
  BY <1>4, <1>5 DEF MonType
<1>7. Phase'
  BY <1>1, <1>2, <1>3, <1>4, <1>6 DEF Phase, MonStep
<1>8. Tries' /\ TriesBounded' /\ Expected'
  BY <1>1, <1>4, <1>5 DEF Tries, Owed, TriesBounded, Expected, MonStep
<1>9. toChild' \in Seq(ReplyType) /\ Len(toChild') <= 1
  BY <1>2, <1>4, NothingLeft
<1> QED BY <1>1, <1>3, <1>4, <1>5, <1>6, <1>7, <1>8, <1>9, MonFrame

\* Every step keeps the invariant.
LEMMA NextKeeps ==
  ASSUME Agreeing, IInv, [Next]_vars
  PROVE  IInv'
<1>1. ASSUME NEW q \in Requests, NEW same \in BOOLEAN, UserauthRequest(q, same)
      PROVE  IInv'
  BY <1>1, UserauthRequestKeeps
<1>2. ASSUME Monitor PROVE IInv'
  BY <1>2, AnswerPwnamKeeps, AnswerAuthservKeeps, AnswerPasswordKeeps, AnswerKeyAllowedKeeps,
     AnswerKeyVerifyKeeps, GetKeystateKeeps, Zenon DEF Monitor
<1>3. ASSUME ChildReturns PROVE IInv'
  BY <1>3, PwnamAnswerKeeps, PasswordAnswerKeeps, KeyAllowedAnswerKeeps, KeyVerifyAnswerKeeps,
     SendKeystateKeeps, Zenon DEF ChildReturns
<1>4. ASSUME NoDestination \/ GraceAlarm PROVE IInv'
  <2>1. /\ over' # "no" /\ Expected' /\ ChildStep /\ child' = child /\ toMon' = toMon
        /\ toChild' = toChild /\ requests' = requests
    BY <1>4 DEF NoDestination, GraceAlarm, Expected, ChildStep
  <2>2. requests' <= MaxRequests
    BY <2>1 DEF IInv, Bounds
  <2> QED BY <2>1, <2>2, EndFrame
<1>5. ASSUME UNCHANGED vars PROVE IInv'
  <2>1. SetupLists' = SetupLists
    BY <1>5, SetupSame DEF vars
  <2>2. Shape' /\ Bounds' /\ Expected' /\ TriesBounded'
    BY <1>5 DEF vars, IInv, Shape, Bounds, Expected, TriesBounded
  <2>3. InStep' = InStep /\ Unread(0)' = Unread(0) /\ Looking' = Looking
    BY <1>5, <2>1 DEF vars, InStep, Unread, Looking, AuthRequests
  <2>4. ASSUME NEW t
        PROVE  Fits(t)' = Fits(t) /\ Underway(t)' = Underway(t) /\ Returning(t)' = Returning(t)
    <3>1. Fits(t)' = Fits(t)
      BY <1>5 DEF vars, Fits
    <3>2. Unread(1)' = Unread(1) /\ OfferedKey' = OfferedKey
      BY <1>5 DEF vars, Unread, AuthRequests, OfferedKey
    <3>3. Underway(t)' = Underway(t)
      BY <1>5, <2>3, <3>2 DEF vars, Underway
    <3>4. Decided(toChild[1].ok)' = Decided(toChild[1].ok)
      BY <1>5 DEF vars, Decided, UpdateLists, Completed, StartsWith, RootAllowed
    <3>5. Returning(t)' = Returning(t)
      BY <1>5, <2>3, <3>2, <3>4 DEF vars, Returning, AuthRequests
    <3> QED BY <3>1, <3>3, <3>5
  <2>5. Waiting => Waiting'
    <3>1. \A t : Fits(t)' = Fits(t) /\ Underway(t)' = Underway(t) /\ Returning(t)' = Returning(t)
      BY <2>4
    <3>2. Listed(child.lists, child.req.method)' = Listed(child.lists, child.req.method)
      BY <1>5 DEF vars, Listed, StartsWith
    <3> QED BY <1>5, <3>1, <3>2 DEF vars, Waiting, AuthRequests
  <2>6. Phase => Phase'
    BY <1>5, <2>3, <2>5 DEF vars, Phase
  <2>7. Tries => Tries'
    BY <1>5 DEF vars, Tries, Owed
  <2>8. over' = over
    BY <1>5 DEF vars
  <2> QED BY <2>2, <2>6, <2>7, <2>8, Zenon DEF IInv
<1> QED BY <1>1, <1>2, <1>3, <1>4, <1>5 DEF Next

\* In the configurations in which both processes use the same rules the type
\* invariant holds: among others no list holds a disabled method, the sockets
\* hold at most two requests and one answer, and the child's count of failures
\* (userauth_finish()) stays within max_authtries.
THEOREM AuthTypeCorrect ==
  ASSUME Agreeing
  PROVE  Spec => []TypeOK
<1>1. IInv => TypeOK
  <2> SUFFICES ASSUME IInv PROVE TypeOK
    OBVIOUS
  <2>1. /\ conf \in Configs /\ known \in BOOLEAN /\ child \in ChildType /\ mon \in MonType
        /\ requests \in Nat /\ Bounds
    BY DEF IInv, Shape
  <2>2. /\ child.pc \in {"idle", "pwnam", "wait", "export", "done"} /\ child.failures \in Nat
        /\ child.attempt \in Nat /\ child.lists \in Lists /\ child.used \subseteq Keys
    BY <2>1 DEF ChildType
  <2>3. /\ mon.pc \in {"loop", "keystate", "done"} /\ mon.lists \in Lists
        /\ mon.attempt \in Nat /\ mon.used \subseteq Keys
        /\ mon.permit \subseteq {"PWNAM", "AUTHSERV"} \cup AuthRequests
    BY <2>1 DEF MonType, Permits
  <2>4. /\ \A i \in DOMAIN mon.lists : mon.lists[i] \in Seq(Enabled \cup {"none"})
        /\ \A i \in DOMAIN child.lists : child.lists[i] \in Seq(Enabled \cup {"none"})
    BY <2>2, <2>3 DEF Lists
  <2>5. /\ child.failures \in 0..MaxTries /\ child.attempt \in 0..MaxRequests
        /\ mon.attempt \in 0..1 /\ requests \in 0..MaxRequests
        /\ Len(toMon) <= 2 /\ Len(toChild) <= 1
    BY <2>1, <2>2, <2>3, AuthAssumption DEF Bounds
  <2> QED BY <2>1, <2>2, <2>3, <2>4, <2>5 DEF TypeOK
<1> QED BY <1>1, InitIInv, NextKeeps, PTL DEF Spec

\* The monitor looks at no more wrong proofs than max_authtries allows, though
\* only the child counts (userauth_finish()).
THEOREM WrongProofsBounded ==
  ASSUME Agreeing
  PROVE  Spec => []TriesBounded
<1>1. IInv => TriesBounded
  BY DEF IInv
<1> QED BY <1>1, InitIInv, NextKeeps, PTL DEF Spec

-----------------------------------------------------------------------------
(* The two fatal() calls that are met.                                     *)

\* What the monitor proved is of a user that is valid there; and the reasons of
\* the two fatal() calls.
Reasons ==
  /\ over = "authenticated_invalid_user" => mon.valid /\ ~child.valid
  /\ over = "bad_signature_data_blob" => child.req.method = "hostbased" /\ mon.cut
VInv ==
  /\ "PWNAM" \in mon.permit => ~mon.valid
  /\ mon.key # NoKey => mon.valid
  /\ toChild # <<>> /\ Answer.ok => mon.valid
  /\ Reasons

\* userauth_finish() ends with "authenticated invalid user" only after a proof.
LEMMA FinishInvalid ==
  ASSUME NEW c, NEW m, NEW a, NEW p, Finish(c, m, a, p), over = "no"
  PROVE  /\ over' # "bad_signature_data_blob"
         /\ over' = "authenticated_invalid_user" => a /\ ~c.valid /\ child' = child
BY Zenon DEF Finish

\* The same after TryMethod, which asks or refuses.
LEMMA TryInvalid ==
  ASSUME NEW c, NEW q, NEW queue, TryMethod(c, q, queue), over = "no"
  PROVE  over' \notin {"bad_signature_data_blob", "authenticated_invalid_user"}
<1>1. ASSUME NEW c1, NEW m, Finish(c1, m, FALSE, FALSE)
      PROVE  over' \notin {"bad_signature_data_blob", "authenticated_invalid_user"}
  BY <1>1, FinishInvalid, Zenon
<1>2. over' = over \/ \E c1, m : Finish(c1, m, FALSE, FALSE)
  BY Zenon DEF TryMethod
<1> QED BY <1>1, <1>2, Zenon

\* The steps of the child read an answer or leave it, and end the connection
\* with "authenticated invalid user" only after an answer that says so.
LEMMA ChildReasons ==
  ASSUME IInv, VInv, over = "no", mon' = mon,
         toChild' = toChild \/ toChild' = <<>>,
         over' # "bad_signature_data_blob",
         over' = "authenticated_invalid_user" => mon.valid /\ ~child'.valid
  PROVE  VInv'
BY DEF VInv, Reasons, Answer

\* The steps of the monitor.
LEMMA MonReasons ==
  ASSUME IInv, VInv, over = "no",
         "PWNAM" \in mon'.permit => ~mon'.valid,
         mon'.key # NoKey => mon'.valid,
         toChild' # <<>> /\ Answer'.ok => mon'.valid,
         over' \notin {"bad_signature_data_blob", "authenticated_invalid_user"}
  PROVE  VInv'
BY DEF VInv, Reasons

\* There is one answer at a time.
LEMMA OnlyAnswer ==
  ASSUME IInv, toChild # <<>>
  PROVE  Tail(toChild) = <<>>
<1>1. toChild \in Seq(ReplyType) /\ Len(toChild) <= 1
  BY DEF IInv, Shape, Bounds
<1>2. Len(toChild) \in Nat \ {0}
  BY <1>1, EmptySeq, Zenon
<1>3. \A x \in Nat \ {0} : x <= 1 => x = 1
  OBVIOUS
<1>4. Len(toChild) = 1
  BY <1>1, <1>2, <1>3, Zenon
<1> QED BY <1>1, <1>4, OneElement

\* The steps of the child keep it.
LEMMA ChildKeepsReasons ==
  ASSUME IInv, VInv, over = "no",
         \/ \E q \in Requests, same \in BOOLEAN : UserauthRequest(q, same)
         \/ ChildReturns
  PROVE  VInv'
<1>1. ASSUME NEW q \in Requests, NEW same \in BOOLEAN, UserauthRequest(q, same) PROVE VInv'
  <2>1. mon' = mon /\ toChild' = toChild
    BY <1>1 DEF UserauthRequest
  <2>2. \/ over' = over \/ over' = "change_of_username_or_service"
        \/ \E c : TryMethod(c, q, toMon)
    BY <1>1, Zenon DEF UserauthRequest
  <2>3. over' \notin {"bad_signature_data_blob", "authenticated_invalid_user"}
    BY <2>2, TryInvalid, Zenon
  <2> QED BY <2>1, <2>3, ChildReasons
<1>2. ASSUME NEW ok \in BOOLEAN, PwnamAnswer(ok) PROVE VInv'
  <2>1. mon' = mon /\ toChild' = Tail(toChild) /\ toChild # <<>>
    BY <1>2 DEF PwnamAnswer, Answered
  <2>2. \/ over' = "no_authentication_methods_enabled"
        \/ \E c, queue : TryMethod(c, child.req, queue)
    BY <1>2, Zenon DEF PwnamAnswer
  <2>3. over' \notin {"bad_signature_data_blob", "authenticated_invalid_user"}
    BY <2>2, TryInvalid, Zenon
  <2>4. toChild' = <<>>
    BY <2>1, OnlyAnswer
  <2> QED BY <2>1, <2>3, <2>4, ChildReasons
<1>3. ASSUME PasswordAnswer PROVE VInv'
  <2>1. /\ mon' = mon /\ toChild' = Tail(toChild) /\ toChild # <<>>
        /\ Finish(child, child.req.method, Answer.ok, FALSE)
    BY <1>3 DEF PasswordAnswer, Answered
  <2>2. /\ over' # "bad_signature_data_blob"
        /\ over' = "authenticated_invalid_user" => Answer.ok /\ ~child.valid /\ child' = child
    BY <2>1, FinishInvalid, Zenon
  <2>3. over' = "authenticated_invalid_user" => mon.valid /\ ~child'.valid
    BY <2>1, <2>2, Zenon DEF VInv
  <2>4. toChild' = <<>>
    BY <2>1, OnlyAnswer
  <2> QED BY <2>1, <2>2, <2>3, <2>4, ChildReasons
<1>4. ASSUME KeyAllowedAnswer PROVE VInv'
  <2>1. /\ mon' = mon /\ toChild' = Tail(toChild) /\ toChild # <<>>
    BY <1>4 DEF KeyAllowedAnswer, Answered
  <2>2. over' = over \/ \E c, m, p : Finish(c, m, FALSE, p)
    BY <1>4, Zenon DEF KeyAllowedAnswer
  <2>3. over' \notin {"bad_signature_data_blob", "authenticated_invalid_user"}
    BY <2>2, FinishInvalid, Zenon
  <2>4. toChild' = <<>>
    BY <2>1, OnlyAnswer
  <2> QED BY <2>1, <2>3, <2>4, ChildReasons
<1>5. ASSUME KeyVerifyAnswer PROVE VInv'
  <2> DEFINE m == child.req.method
             c == IF ~Answer.ok THEN ClearOptions(child)
                  ELSE IF m = "publickey" THEN [child EXCEPT !.used = @ \cup {child.req.key}]
                  ELSE child
  <2>1. /\ mon' = mon /\ toChild' = Tail(toChild) /\ toChild # <<>>
        /\ Finish(c, m, Answer.ok, FALSE)
    BY <1>5 DEF KeyVerifyAnswer, Answered
  <2>2. c.valid = child.valid
    <3>1. child \in ChildType
      BY DEF IInv, Shape
    <3> QED BY <3>1 DEF ClearOptions, ChildType
  <2> HIDE DEF c, m
  <2>3. /\ over' # "bad_signature_data_blob"
        /\ over' = "authenticated_invalid_user" => Answer.ok /\ ~c.valid /\ child' = child
    BY <2>1, FinishInvalid, Zenon
  <2>4. over' = "authenticated_invalid_user" => mon.valid /\ ~child'.valid
    BY <2>1, <2>2, <2>3, Zenon DEF VInv
  <2>5. toChild' = <<>>
    BY <2>1, OnlyAnswer
  <2> QED BY <2>1, <2>3, <2>4, <2>5, ChildReasons
<1>6. ASSUME SendKeystate PROVE VInv'
  BY <1>6, ChildReasons DEF SendKeystate
<1> QED BY <1>1, <1>2, <1>3, <1>4, <1>5, <1>6, Zenon DEF ChildReturns

\* A request is answered when no other answer is on its way.
LEMMA FirstAnswer ==
  ASSUME IInv, toChild = <<>>, NEW type, NEW ok, NEW forced, Reply(type, ok, forced)
  PROVE  toChild' # <<>> /\ Answer'.ok = ok
<1>1. toChild' = Append(<<>>, [type |-> type, ok |-> ok, forced |-> forced])
  BY DEF Reply
<1>2. toChild' # <<>> /\ Head(toChild') = [type |-> type, ok |-> ok, forced |-> forced]
  BY <1>1
<1> QED BY <1>2 DEF Answer

\* The monitor gives up: only over changes.
LEMMA GiveUpReasons ==
  ASSUME IInv, VInv, over = "no", NEW why, GiveUp(why),
         why \notin {"bad_signature_data_blob", "authenticated_invalid_user"}
  PROVE  VInv'
<1>1. mon' = mon /\ toChild' = toChild /\ over' = why
  BY DEF GiveUp
<1>2. Answer' = Answer
  BY <1>1 DEF Answer
<1> QED BY <1>1, <1>2, MonReasons DEF VInv

\* The loop of monitor_child_preauth() after an answer about a valid user.
LEMMA DecideReasons ==
  ASSUME IInv, VInv, over = "no", toChild = <<>>, mon.permit = AuthRequests,
         NEW n \in MonType, NEW m, NEW ret \in BOOLEAN, NEW proof, NEW type,
         n.permit = mon.permit, n.valid = mon.valid, n.key \in {mon.key, NoKey},
         Decide(n, m, ret, proof), Reply(type, ret, FALSE), ret => mon.valid
  PROVE  VInv'
<1>1. toChild' # <<>> /\ Answer'.ok = ret
  BY FirstAnswer
<1> DEFINE pc == mon'.pc
           lists == mon'.lists
           failures == mon'.failures
<1>2. mon'.permit = n.permit /\ mon'.valid = n.valid /\ mon'.key = n.key
  BY DEF Decide, MonType
<1>3. over' \notin {"bad_signature_data_blob", "authenticated_invalid_user"}
  BY DEF Decide
<1>4. "PWNAM" \notin mon'.permit
  BY <1>2 DEF AuthRequests
<1>5. mon'.key # NoKey => mon'.valid
  BY <1>2 DEF VInv
<1> QED BY <1>1, <1>2, <1>3, <1>4, <1>5, MonReasons

\* The steps of the monitor keep it.
LEMMA MonitorKeepsReasons ==
  ASSUME IInv, VInv, over = "no", Monitor
  PROVE  VInv'
<1>0. mon \in MonType /\ known \in BOOLEAN
  BY DEF IInv, Shape
<1>1. ASSUME NEW name \in Names, AnswerPwnam(name) PROVE VInv'
  <2>1. toMon # <<>> /\ Oldest.type = "PWNAM"
    BY <1>1 DEF AnswerPwnam, Asked, Oldest
  <2>2. toChild = <<>> /\ mon.permit = {"PWNAM"}
    BY <2>1, HeadTells DEF AuthRequests
  <2>3. CASE name = "plain"
    <3>1. GiveUp("no_asset_in_the_user_name")
      BY <1>1, <2>2, <2>3 DEF AnswerPwnam, Permitted
    <3> QED BY <3>1, GiveUpReasons
  <2>4. CASE name # "plain"
    <3>1. /\ mon' = [mon EXCEPT !.permit = (@ \ {"PWNAM"}) \cup {"AUTHSERV"},
                                !.attempt = @ + 1, !.valid = known, !.lists = SetupLists,
                                !.cut = (name = "user--asset")]
          /\ Reply("PWNAM", known, FALSE) /\ over' = over
      BY <1>1, <2>2, <2>4 DEF AnswerPwnam, Permitted
    <3>2. toChild' # <<>> /\ Answer'.ok = known
      BY <2>2, <3>1, FirstAnswer
    <3>3. mon'.valid = known /\ mon'.key = mon.key /\ "PWNAM" \notin mon'.permit
      BY <1>0, <3>1 DEF MonType
    <3>4. mon.key = NoKey
      BY <1>0, <2>2 DEF VInv, MonType
    <3> QED BY <1>0, <3>1, <3>2, <3>3, <3>4, MonReasons
  <2> QED BY <2>3, <2>4
<1>2. ASSUME AnswerAuthserv PROVE VInv'
  <2>1. toMon # <<>> /\ Oldest.type = "AUTHSERV"
    BY <1>2 DEF AnswerAuthserv, Asked, Oldest
  <2>2. toChild = <<>> /\ mon.permit = {"AUTHSERV"}
    BY <2>1, HeadTells DEF AuthRequests
  <2>3. /\ mon' = [mon EXCEPT !.permit = (@ \ {"AUTHSERV"}) \cup AuthRequests]
        /\ toChild' = toChild /\ over' = over
    BY <1>2, <2>2 DEF AnswerAuthserv, Permitted
  <2>4. mon'.valid = mon.valid /\ mon'.key = mon.key /\ "PWNAM" \notin mon'.permit
    BY <1>0, <2>2, <2>3 DEF MonType, AuthRequests
  <2> QED BY <2>2, <2>3, <2>4, MonReasons DEF VInv
<1>3. ASSUME AnswerPassword PROVE VInv'
  <2> DEFINE n == [mon EXCEPT !.calls = @ + 1]
             m == PasswordMethod(n, Question)
             ret == PasswordOk(Question)
  <2>1. toMon # <<>> /\ Oldest.type = "AUTHPASSWORD"
    BY <1>3 DEF AnswerPassword, Asked, Oldest
  <2>2. toChild = <<>> /\ mon.permit = AuthRequests
    BY <2>1, HeadTells DEF AuthRequests
  <2>3. Decide(n, m, ret, [method |-> m, key |-> "none"]) /\ Reply("AUTHPASSWORD", ret, FALSE)
    BY <1>3, <2>2 DEF AnswerPassword, Permitted, AuthRequests
  <2>4. n \in MonType /\ n.permit = mon.permit /\ n.valid = mon.valid /\ n.key = mon.key
    BY <1>0 DEF MonType
  <2>5. ret \in BOOLEAN /\ (ret => mon.valid)
    BY DEF PasswordOk
  <2> HIDE DEF n, m, ret
  <2> QED BY <2>2, <2>3, <2>4, <2>5, DecideReasons
<1>4. ASSUME AnswerKeyAllowed PROVE VInv'
  <2> DEFINE q == Question
             user == q.method = "publickey"
             ok == /\ mon.valid /\ q.method \in Enabled /\ q.key \in Authorized
                   /\ user => ~AlreadyUsed(mon, q.key)
             forced == IF user /\ mon.valid THEN ok /\ q.sig # "none" /\ q.key \in ForcedKeys
                       ELSE mon.forced
             key == IF ok THEN [type |-> q.method, key |-> q.key] ELSE NoKey
  <2>1. toMon # <<>> /\ Oldest.type = "KEYALLOWED"
    BY <1>4 DEF AnswerKeyAllowed, Asked, Oldest
  <2>2. toChild = <<>> /\ mon.permit = AuthRequests
    BY <2>1, HeadTells DEF AuthRequests
  <2>3. /\ mon' = [mon EXCEPT !.key = key, !.forced = forced]
        /\ Reply("KEYALLOWED", ok, forced) /\ over' = over
    BY <1>4, <2>2, Zenon DEF AnswerKeyAllowed, Permitted, AuthRequests
  <2>4. (ok => mon.valid) /\ (key # NoKey => ok)
    BY Zenon
  <2> HIDE DEF ok, forced, key
  <2>5. toChild' # <<>> /\ Answer'.ok = ok
    BY <2>2, <2>3, FirstAnswer
  <2>6. mon'.valid = mon.valid /\ mon'.key = key /\ mon'.permit = mon.permit
    BY <1>0, <2>3 DEF MonType
  <2>7. "PWNAM" \notin mon'.permit
    BY <2>2, <2>6 DEF AuthRequests
  <2> QED BY <2>3, <2>4, <2>5, <2>6, <2>7, MonReasons
<1>5. ASSUME AnswerKeyVerify PROVE VInv'
  <2> DEFINE q  == child.req
             ok == q.sig = "right"
             m  == mon.key.type
             n  == [mon EXCEPT !.key = NoKey,
                               !.used = IF ok /\ m = "publickey" THEN @ \cup {q.key} ELSE @]
  <2>1. toMon # <<>> /\ Oldest.type = "KEYVERIFY"
    BY <1>5 DEF AnswerKeyVerify, Asked, Oldest
  <2>2. /\ toChild = <<>> /\ mon.permit = AuthRequests /\ Len(toMon) = 1
        /\ Fits("KEYVERIFY") /\ Underway("KEYVERIFY") /\ Oldest = toMon[1]
    BY <2>1, HeadTells DEF AuthRequests
  <2>3. Question = child.req /\ mon.key = OfferedKey
    BY <2>1, <2>2 DEF Question, Oldest, Underway, Message
  <2>4. mon.key.key = q.key /\ m = q.method /\ q.key \in Keys /\ m \in {"publickey", "hostbased"}
    BY <2>2, <2>3 DEF OfferedKey, Fits
  <2>5. mon.valid
    BY <2>4 DEF VInv, NoKey
  <2>6. CASE ~ValidData(m)
    <3>1. GiveUp("bad_signature_data_blob") /\ child' = child
      BY <1>5, <2>2, <2>3, <2>4, <2>6 DEF AnswerKeyVerify, Permitted, AuthRequests
    <3>2. mon' = mon /\ toChild' = toChild /\ over' = "bad_signature_data_blob"
      BY <3>1 DEF GiveUp
    <3>3. child.req.method = "hostbased" /\ mon.cut
      BY <2>4, <2>6 DEF ValidData
    <3>4. Reasons'
      BY <3>1, <3>2, <3>3 DEF Reasons
    <3> QED BY <2>2, <3>2, <3>4 DEF VInv
  <2>7. CASE ValidData(m)
    <3>1. Decide(n, m, ok, [method |-> m, key |-> q.key]) /\ Reply("KEYVERIFY", ok, FALSE)
      BY <1>5, <2>2, <2>3, <2>4, <2>7 DEF AnswerKeyVerify, Permitted, AuthRequests
    <3>2. n \in MonType /\ n.permit = mon.permit /\ n.valid = mon.valid /\ n.key = NoKey
      BY <1>0, <2>4 DEF MonType, KeyState
    <3>3. ok \in BOOLEAN
      OBVIOUS
    <3> HIDE DEF n, m, ok
    <3> QED BY <2>2, <2>5, <3>1, <3>2, <3>3, DecideReasons
  <2> QED BY <2>6, <2>7
<1>6. ASSUME GetKeystate PROVE VInv'
  <2>1. \/ GiveUp("unexpected_request")
        \/ /\ mon' = [mon EXCEPT !.pc = "done"]
           /\ toChild' = toChild /\ over' = over
    BY <1>6 DEF GetKeystate
  <2>2. CASE GiveUp("unexpected_request")
    BY <2>2, GiveUpReasons
  <2>3. CASE mon' = [mon EXCEPT !.pc = "done"] /\ toChild' = toChild /\ over' = over
    <3>1. mon'.valid = mon.valid /\ mon'.key = mon.key /\ mon'.permit = mon.permit
      BY <1>0, <2>3 DEF MonType
    <3>2. Answer' = Answer
      BY <2>3 DEF Answer
    <3> QED BY <2>3, <3>1, <3>2, MonReasons DEF VInv
  <2> QED BY <2>1, <2>2, <2>3
<1> QED BY <1>1, <1>2, <1>3, <1>4, <1>5, <1>6, Zenon DEF Monitor

\* Every step keeps it.
LEMMA NextKeepsReasons ==
  ASSUME IInv, VInv, [Next]_vars
  PROVE  VInv'
<1>1. ASSUME UNCHANGED vars PROVE VInv'
  BY <1>1 DEF vars, VInv, Reasons, Answer
<1>2. ASSUME Next PROVE VInv'
  <2>1. over = "no"
    BY <1>2, Zenon DEF Next, Monitor, ChildReturns, UserauthRequest, PwnamAnswer, PasswordAnswer,
       KeyAllowedAnswer, KeyVerifyAnswer, SendKeystate, NoDestination, GraceAlarm, AnswerPwnam,
       AnswerAuthserv, AnswerPassword, AnswerKeyAllowed, AnswerKeyVerify, GetKeystate, Asked, Answered
  <2>2. ASSUME NoDestination \/ GraceAlarm PROVE VInv'
    BY <2>1, <2>2, ChildReasons DEF NoDestination, GraceAlarm
  <2> QED BY <1>2, <2>1, <2>2, ChildKeepsReasons, MonitorKeepsReasons, Zenon DEF Next
<1> QED BY <1>1, <1>2

\* The child and the monitor always come to the same conclusion: neither is asked
\* something it does not expect, nor ends in one of the fatal() calls of
\* auth2_update_methods_lists() and monitor_read().  "authenticated invalid user"
\* is met only when the child has not validated the service, and "bad signature
\* data blob" only by a host key with a name the monitor has cut.
THEOREM ProcessesAgree ==
  ASSUME Agreeing
  PROVE  Spec => []Agreement
<1>1. Init => VInv
  BY DEF Init, VInv, Reasons
<1>2. IInv /\ VInv => Agreement
  BY DEF IInv, VInv, Expected, Reasons, Agreement
<1> QED BY <1>1, <1>2, InitIInv, NextKeeps, NextKeepsReasons, PTL DEF Spec

-----------------------------------------------------------------------------
(* AuthenticationMethods: what the monitor alone guarantees, whatever the  *)
(* child asks of it and in every configuration.                            *)

Proof == [method : Methods, key : Keys \cup {"none"}]
MonitorType ==
  [pc : {"loop", "keystate", "done"}, permit : Permits,
   attempt : Nat, failures : Nat, lists : Lists, valid : BOOLEAN, calls : Nat,
   key : {NoKey} \cup [type : Enabled, key : Keys],
   used : SUBSET Keys, forced : BOOLEAN, cut : BOOLEAN]

\* No user key served twice, and the key that was allowed did not serve before.
OwnKeys ==
  /\ \A a, b \in DOMAIN proofs :
       a < b /\ proofs[a].method = "publickey" /\ proofs[b].method = "publickey"
         => proofs[a].key # proofs[b].key
  /\ \A a \in DOMAIN proofs : proofs[a].method = "publickey" => proofs[a].key \in mon.used
  /\ mon.key.type = "publickey" => mon.key.key \notin mon.used

\* The proofs f[1] < ... < f[n] are of the first n methods of l.
Matches(l, n, f) ==
  /\ \A i \in 1..n : proofs[f[i]].method = l[i]
  /\ \A i, j \in 1..n : i < j => f[i] < f[j]

\* What is left in the list r is what was not yet proved of the list l.
LeftOf(r, l) ==
  \E n \in 0..Len(l) :
    /\ Len(r) + n = Len(l) /\ \A k \in 1..Len(r) : r[k] = l[n + k]
    /\ \E f \in [1..n -> DOMAIN proofs] : Matches(l, n, f)

Remains == \A i \in DOMAIN mon.lists : \E j \in DOMAIN conf.lists : LeftOf(mon.lists[i], conf.lists[j])

LInv == /\ conf \in Configs /\ known \in BOOLEAN /\ mon \in MonitorType /\ proofs \in Seq(Proof)
        /\ OwnKeys /\ Remains /\ ListProved

\* The steps that keep the monitor's Authctxt and the proofs.
LEMMA Idle ==
  ASSUME LInv, conf' = conf, known' = known, mon' = mon, proofs' = proofs
  PROVE  LInv'
<1>1. ListProved'
  BY DEF LInv, ListProved, Proved
<1>2. OwnKeys'
  BY DEF LInv, OwnKeys
<1>3. Remains'
  <2>1. ASSUME NEW r, NEW l, LeftOf(r, l) PROVE LeftOf(r, l)'
    BY <2>1 DEF LeftOf, Matches
  <2> QED BY <2>1 DEF LInv, Remains
<1> QED BY <1>1, <1>2, <1>3 DEF LInv

\* Nothing of a list was proved when it is set up.
LEMMA SetupLeft ==
  ASSUME NEW l \in Seq(Methods)
  PROVE  LeftOf(l, l)
<1> DEFINE f == [i \in 1..0 |-> 1]
<1>1. Len(l) \in Nat /\ 0 \in 0..Len(l) /\ Len(l) + 0 = Len(l)
  OBVIOUS
<1>2. \A k \in 1..Len(l) : l[k] = l[0 + k]
  BY <1>1
<1>3. f \in [1..0 -> DOMAIN proofs] /\ Matches(l, 0, f)
  BY DEF Matches
<1> QED BY <1>1, <1>2, <1>3 DEF LeftOf

\* Another proof does not undo what was proved.
LEMMA LeftStays ==
  ASSUME proofs \in Seq(Proof), NEW proof \in Proof, proofs' = Append(proofs, proof),
         NEW r, NEW l, LeftOf(r, l)
  PROVE  LeftOf(r, l)'
<1>1. PICK n \in 0..Len(l) :
        /\ Len(r) + n = Len(l) /\ \A k \in 1..Len(r) : r[k] = l[n + k]
        /\ \E f \in [1..n -> DOMAIN proofs] : Matches(l, n, f)
  BY Zenon DEF LeftOf
<1>2. PICK f \in [1..n -> DOMAIN proofs] : Matches(l, n, f)
  BY <1>1
<1>3. /\ DOMAIN proofs \subseteq DOMAIN proofs' /\ \A a \in DOMAIN proofs : proofs'[a] = proofs[a]
  BY AppendProperties
<1>4. f \in [1..n -> DOMAIN proofs'] /\ Matches(l, n, f)'
  BY <1>2, <1>3 DEF Matches
<1> QED BY <1>1, <1>4, Zenon DEF LeftOf

\* A proof of the next method of a list.
LEMMA LeftShrinks ==
  ASSUME proofs \in Seq(Proof), NEW proof \in Proof, proofs' = Append(proofs, proof),
         NEW r \in Seq(Methods), NEW l \in Seq(Methods), LeftOf(r, l), StartsWith(r, proof.method)
  PROVE  LeftOf(Tail(r), l)'
<1>1. PICK n \in 0..Len(l) :
        /\ Len(r) + n = Len(l) /\ \A k \in 1..Len(r) : r[k] = l[n + k]
        /\ \E f \in [1..n -> DOMAIN proofs] : Matches(l, n, f)
  BY Zenon DEF LeftOf
<1>2. PICK f \in [1..n -> DOMAIN proofs] : Matches(l, n, f)
  BY <1>1
<1>3. /\ DOMAIN proofs = 1..Len(proofs) /\ Len(proofs) \in Nat
      /\ DOMAIN proofs' = 1..(Len(proofs) + 1)
      /\ \A a \in DOMAIN proofs : proofs'[a] = proofs[a]
      /\ proofs'[Len(proofs) + 1] = proof
  BY AppendProperties
<1>4. r # <<>> /\ r[1] = proof.method /\ Len(r) \in Nat /\ Len(l) \in Nat /\ Len(r) > 0
  BY EmptySeq DEF StartsWith
<1>5. /\ Tail(r) \in Seq(Methods) /\ Len(Tail(r)) = Len(r) - 1
      /\ \A k \in 1..Len(Tail(r)) : Tail(r)[k] = r[k + 1]
  BY <1>4, HeadTailProperties
<1>6. n + 1 \in 0..Len(l) /\ Len(Tail(r)) + (n + 1) = Len(l)
  BY <1>1, <1>4, <1>5
<1>7. ASSUME NEW k \in 1..Len(Tail(r)) PROVE Tail(r)[k] = l[(n + 1) + k]
  <2>1. k + 1 \in 1..Len(r) /\ n + (k + 1) = (n + 1) + k
    BY <1>4, <1>5
  <2> QED BY <1>1, <1>5, <2>1
<1> DEFINE g == [i \in 1..(n + 1) |-> IF i = n + 1 THEN Len(proofs) + 1 ELSE f[i]]
<1>8. g \in [1..(n + 1) -> DOMAIN proofs']
  BY <1>3
<1>9. /\ g[n + 1] = Len(proofs) + 1 /\ \A i \in 1..n : g[i] = f[i]
  OBVIOUS
<1>13. PICK h : h = g
  OBVIOUS
<1> HIDE DEF g
<1>10. ASSUME NEW i \in 1..(n + 1) PROVE proofs'[g[i]].method = l[i]
  <2>1. CASE i = n + 1
    <3>1. l[n + 1] = proof.method
      BY <1>1, <1>4
    <3> QED BY <1>3, <1>9, <2>1, <3>1
  <2>2. CASE i # n + 1
    <3>1. i \in 1..n
      BY <2>2
    <3>2. f[i] \in DOMAIN proofs /\ proofs[f[i]].method = l[i]
      BY <1>2, <3>1 DEF Matches
    <3> QED BY <1>3, <1>9, <3>1, <3>2
  <2> QED BY <2>1, <2>2
<1>11. ASSUME NEW i \in 1..(n + 1), NEW j \in 1..(n + 1), i < j PROVE g[i] < g[j]
  <2>1. i \in 1..n /\ f[i] \in DOMAIN proofs /\ f[i] \in Nat
    BY <1>2, <1>3, <1>11
  <2>2. CASE j = n + 1
    BY <1>3, <1>9, <2>1, <2>2
  <2>3. CASE j # n + 1
    <3>1. j \in 1..n
      BY <2>3
    <3> QED BY <1>2, <1>9, <1>11, <2>1, <3>1 DEF Matches
  <2> QED BY <2>2, <2>3
<1>12. h \in [1..(n + 1) -> DOMAIN proofs'] /\ Matches(l, n + 1, h)'
  BY <1>8, <1>10, <1>11, <1>13 DEF Matches
<1> QED BY <1>6, <1>7, <1>12 DEF LeftOf

\* A list of which nothing is left was proved.
LEMMA NothingLeftProved ==
  \A l \in Seq(Methods) : OwnKeys /\ LeftOf(<<>>, l) => Proved(l)
<1> SUFFICES ASSUME OwnKeys, NEW l \in Seq(Methods), LeftOf(<<>>, l)
             PROVE  Proved(l)
  OBVIOUS
<1>1. PICK n \in 0..Len(l) :
        /\ 0 + n = Len(l) /\ \E f \in [1..n -> DOMAIN proofs] : Matches(l, n, f)
  BY Zenon, NothingLeft DEF LeftOf
<1>2. PICK f \in [1..n -> DOMAIN proofs] : Matches(l, n, f)
  BY <1>1
<1>3. n = Len(l) /\ DOMAIN l = 1..n
  BY <1>1
<1>4. /\ \A i \in DOMAIN l : proofs[f[i]].method = l[i] /\ f[i] \in DOMAIN proofs
      /\ \A i, j \in DOMAIN l : i < j => f[i] < f[j]
  BY <1>2, <1>3 DEF Matches
<1>5. ASSUME NEW i \in DOMAIN l, NEW j \in DOMAIN l, i < j, l[i] = "publickey", l[j] = "publickey"
      PROVE  proofs[f[i]].key # proofs[f[j]].key
  <2>1. f[i] \in DOMAIN proofs /\ f[j] \in DOMAIN proofs /\ f[i] < f[j]
    BY <1>4, <1>5
  <2>2. proofs[f[i]].method = "publickey" /\ proofs[f[j]].method = "publickey"
    BY <1>4, <1>5
  <2> QED BY <2>1, <2>2, Zenon DEF OwnKeys
<1>6. f \in [DOMAIN l -> DOMAIN proofs]
  BY <1>3
<1> QED BY <1>4, <1>5, <1>6 DEF Proved

\* The loop of monitor_child_preauth() after a proof of method m: each list
\* that m starts is one method shorter, and a list that is completed was proved.
LEMMA DecideProves ==
  ASSUME LInv, mon.pc = "loop", conf' = conf, known' = known,
         NEW n \in MonitorType, n.lists = mon.lists, NEW ret \in BOOLEAN,
         NEW proof \in Proof, Decide(n, proof.method, ret, proof),
         ~ret => n.used = mon.used,
         ret /\ proof.method = "publickey" => proof.key \notin mon.used /\ proof.key \in n.used,
         mon.used \subseteq n.used, n.key.type = "publickey" => n.key.key \notin n.used
  PROVE  LInv'
<1> DEFINE m       == proof.method
           lists   == conf.lists # <<>> /\ ret
           partial == lists /\ Completed(n.lists, m) = {}
           auth    == ret /\ ~partial /\ RootAllowed(m, n.forced)
           newpc   == IF auth THEN "keystate" ELSE "loop"
           newl    == IF lists THEN UpdateLists(n.lists, m) ELSE n.lists
           newf    == IF partial \/ auth THEN n.failures ELSE n.failures + 1
<1>1. /\ mon' = [n EXCEPT !.pc = newpc, !.lists = newl, !.failures = newf]
      /\ proofs' = IF ret THEN Append(proofs, proof) ELSE proofs
  BY Zenon DEF Decide
<1>2. n.lists \in Lists /\ UpdateLists(n.lists, m) \in Lists /\ n.failures \in Nat
  BY UpdateTyped DEF MonitorType
<1>3. newpc \in {"loop", "keystate"} /\ newl \in Lists /\ newf \in Nat
  BY <1>2
<1> HIDE DEF newpc, newl, newf
<1>4. /\ mon' \in MonitorType /\ mon'.pc = newpc /\ mon'.lists = newl /\ mon'.used = n.used
      /\ mon'.key = n.key
  BY <1>1, <1>3 DEF MonitorType
<1>5. proofs \in Seq(Proof) /\ OwnKeys /\ Remains /\ ListProved /\ conf \in Configs /\ known \in BOOLEAN
  BY DEF LInv
<1>6. proofs' \in Seq(Proof)
  BY <1>1, <1>5, OneMore
<1>7. /\ ret => /\ DOMAIN proofs' = 1..(Len(proofs) + 1) /\ DOMAIN proofs = 1..Len(proofs)
                /\ Len(proofs) \in Nat /\ proofs'[Len(proofs) + 1] = proof
                /\ \A a \in 1..Len(proofs) : proofs'[a] = proofs[a]
  BY <1>1, <1>5, AppendProperties
<1>8. OwnKeys'
  <2>1. CASE ~ret
    BY <1>1, <1>4, <1>5, <2>1 DEF OwnKeys
  <2>2. CASE ret
    <3>1. ASSUME NEW a \in DOMAIN proofs', proofs'[a].method = "publickey"
          PROVE  proofs'[a].key \in mon'.used
      <4>1. CASE a = Len(proofs) + 1
        BY <1>4, <1>7, <2>2, <3>1, <4>1
      <4>2. CASE a # Len(proofs) + 1
        <5>1. a \in DOMAIN proofs /\ proofs'[a] = proofs[a]
          BY <1>7, <2>2, <4>2
        <5>2. proofs[a].key \in mon.used
          BY <1>5, <3>1, <5>1, Zenon DEF OwnKeys
        <5> QED BY <1>4, <5>1, <5>2
      <4> QED BY <4>1, <4>2
    <3>2. ASSUME NEW a \in DOMAIN proofs', NEW b \in DOMAIN proofs', a < b,
                 proofs'[a].method = "publickey", proofs'[b].method = "publickey"
          PROVE  proofs'[a].key # proofs'[b].key
      <4>1. a \in DOMAIN proofs /\ proofs'[a] = proofs[a]
        BY <1>7, <2>2, <3>2
      <4>2. CASE b = Len(proofs) + 1
        <5>1. proofs[a].key \in mon.used
          BY <1>5, <3>2, <4>1, Zenon DEF OwnKeys
        <5>2. proofs'[b] = proof /\ proof.key \notin mon.used
          BY <1>7, <2>2, <3>2, <4>2
        <5> QED BY <4>1, <5>1, <5>2
      <4>3. CASE b # Len(proofs) + 1
        <5>1. b \in DOMAIN proofs /\ proofs'[b] = proofs[b]
          BY <1>7, <2>2, <4>3
        <5> QED BY <1>5, <3>2, <4>1, <5>1, Zenon DEF OwnKeys
      <4> QED BY <4>2, <4>3
    <3> QED BY <1>4, <3>1, <3>2, Zenon DEF OwnKeys
  <2> QED BY <2>1, <2>2
<1>9. \A r \in Lists : \A i \in DOMAIN r : r[i] \in Seq(Methods)
  <2>1. Enabled \cup {"none"} \subseteq Methods
    BY AuthAssumption DEF Methods
  <2> QED BY <2>1 DEF Lists
<1>10. \A j \in DOMAIN conf.lists : conf.lists[j] \in Seq(Methods)
  BY <1>5, AuthAssumption
<1>11. ASSUME NEW r, NEW l, LeftOf(r, l) PROVE LeftOf(r, l)'
  <2>1. CASE ret
    <3>1. proofs' = Append(proofs, proof)
      BY <1>1, <2>1
    <3> QED BY <1>5, <1>11, <3>1, LeftStays
  <2>2. CASE ~ret
    <3>1. proofs' = proofs
      BY <1>1, <2>2
    <3> QED BY <1>11, <3>1 DEF LeftOf, Matches
  <2> QED BY <2>1, <2>2
<1>12. ASSUME lists, NEW r \in Seq(Methods), NEW l \in Seq(Methods), LeftOf(r, l), StartsWith(r, m)
       PROVE  LeftOf(Tail(r), l)'
  <2>1. proofs' = Append(proofs, proof)
    BY <1>1, <1>12
  <2> QED BY <1>5, <1>12, <2>1, LeftShrinks
<1>13. PICK L, C : L = newl /\ C = conf.lists
  OBVIOUS
<1>14. ASSUME NEW i \in DOMAIN L
       PROVE  \E j \in DOMAIN C : LeftOf(L[i], C[j])'
  <2>1. i \in DOMAIN n.lists
    BY <1>2, <1>13, UpdateTyped DEF newl
  <2>2. L[i] = n.lists[i] \/ (lists /\ StartsWith(n.lists[i], m) /\ L[i] = Tail(n.lists[i]))
    BY <1>13, <2>1 DEF newl, UpdateLists
  <2>3. PICK j \in DOMAIN C : LeftOf(n.lists[i], C[j])
    BY <1>5, <1>13, <2>1 DEF Remains
  <2>4. n.lists[i] \in Seq(Methods) /\ C[j] \in Seq(Methods)
    BY <1>2, <1>9, <1>10, <1>13, <2>1
  <2>5. CASE L[i] = n.lists[i]
    <3>1. LeftOf(L[i], C[j])'
      BY <1>11, <2>3, <2>5
    <3> QED BY <3>1
  <2>6. CASE lists /\ StartsWith(n.lists[i], m) /\ L[i] = Tail(n.lists[i])
    <3>1. LeftOf(Tail(n.lists[i]), C[j])'
      BY <1>12, <2>3, <2>4, <2>6
    <3> QED BY <2>6, <3>1
  <2> QED BY <2>2, <2>5, <2>6
<1>15. Remains'
  <2>1. mon'.lists = L /\ conf'.lists = C
    BY <1>4, <1>13
  <2> QED BY <1>14, <2>1 DEF Remains
<1>16. OwnKeys' /\ conf' \in Configs /\ known' \in BOOLEAN
  BY <1>5, <1>8
<1>17. ListProved'
  <2> SUFFICES ASSUME auth
               PROVE  /\ proofs' # <<>>
                      /\ C # <<>> => \E j \in DOMAIN C : Proved(C[j])'
    <3>1. mon'.pc \in {"keystate", "done"} => auth
      BY <1>4 DEF newpc
    <3>2. conf'.lists = C
      BY <1>13
    <3> QED BY <3>1, <3>2 DEF ListProved
  <2>1. ret /\ proofs' # <<>>
    BY <1>1, <1>5, AppendProperties
  <2>2. ASSUME C # <<>>
        PROVE  \E j \in DOMAIN C : Proved(C[j])'
    <3>1. lists /\ Completed(n.lists, m) # {}
      BY <1>13, <2>1, <2>2
    <3>2. PICK i \in DOMAIN n.lists : n.lists[i] = <<m>>
      BY <3>1 DEF Completed
    <3>3. PICK j \in DOMAIN C : LeftOf(n.lists[i], C[j])
      BY <1>5, <1>13, <3>2 DEF Remains
    <3>4. n.lists[i] \in Seq(Methods) /\ C[j] \in Seq(Methods)
      BY <1>2, <1>9, <1>10, <1>13, <3>2
    <3>5. StartsWith(n.lists[i], m) /\ Tail(n.lists[i]) = <<>>
      BY <3>2 DEF StartsWith
    <3>6. LeftOf(Tail(n.lists[i]), C[j])'
      BY <1>12, <3>1, <3>3, <3>4, <3>5
    <3>7. LeftOf(<<>>, C[j])'
      BY <3>5, <3>6
    <3>8. (\A l \in Seq(Methods) : OwnKeys /\ LeftOf(<<>>, l) => Proved(l))'
      BY NothingLeftProved, PTL
    <3>9. \A l \in Seq(Methods) : OwnKeys' /\ LeftOf(<<>>, l)' => Proved(l)'
      BY <3>8 DEF Methods
    <3>10. Proved(C[j])'
      BY <1>8, <3>4, <3>7, <3>9
    <3> QED BY <3>10
  <2> QED BY <2>1, <2>2
<1> QED BY <1>4, <1>6, <1>15, <1>16, <1>17 DEF LInv

\* A step that keeps the lists, the key state and the proofs.
LEMMA SameLists ==
  ASSUME LInv, conf' = conf, known' = known, proofs' = proofs, mon' \in MonitorType,
         mon'.lists = mon.lists, mon'.used = mon.used,
         mon'.key.type = "publickey" => mon'.key.key \notin mon.used,
         mon'.pc \in {"keystate", "done"} => mon.pc \in {"keystate", "done"}
  PROVE  LInv'
<1>1. ListProved'
  BY DEF LInv, ListProved, Proved
<1>2. OwnKeys'
  BY DEF LInv, OwnKeys
<1>3. Remains'
  <2>1. ASSUME NEW r, NEW l, LeftOf(r, l) PROVE LeftOf(r, l)'
    BY <2>1 DEF LeftOf, Matches
  <2> QED BY <2>1 DEF LInv, Remains
<1> QED BY <1>1, <1>2, <1>3 DEF LInv

\* mm_answer_pwnamallow(): the lists are those of the configuration.
LEMMA AnswerPwnamProves ==
  ASSUME LInv, NEW name, AnswerPwnam(name)
  PROVE  LInv'
<1>1. conf' = conf /\ known' = known /\ proofs' = proofs
  BY DEF AnswerPwnam, GiveUp
<1> DEFINE P == (mon.permit \ {"PWNAM"}) \cup {"AUTHSERV"}
           A == mon.attempt + 1
<1>8. PICK cut \in BOOLEAN : cut = (name = "user--asset")
  BY Zenon
<1>2. \/ mon' = mon
      \/ mon' = [mon EXCEPT !.permit = P, !.attempt = A, !.valid = known, !.lists = SetupLists,
                            !.cut = cut]
  BY <1>8, Zenon DEF AnswerPwnam, GiveUp
<1>3. mon \in MonitorType /\ known \in BOOLEAN /\ conf \in Configs
  BY DEF LInv
<1>4. P \in Permits /\ A \in Nat
  BY <1>3 DEF MonitorType, Permits
<1>5. SetupLists \in Lists /\ \A i \in DOMAIN SetupLists : \E j \in DOMAIN conf.lists : SetupLists[i] = conf.lists[j]
  BY <1>3, SetupKeeps
<1>6. CASE mon' = mon
  BY <1>1, <1>6, Idle
<1>7. CASE mon' = [mon EXCEPT !.permit = P, !.attempt = A, !.valid = known, !.lists = SetupLists,
                              !.cut = cut]
  <2> HIDE DEF P, A
  <2>1. mon' \in MonitorType
    BY <1>3, <1>4, <1>5, <1>7 DEF MonitorType
  <2>2. mon'.lists = SetupLists /\ mon'.pc = mon.pc /\ mon'.key = mon.key /\ mon'.used = mon.used
    BY <1>3, <1>7 DEF MonitorType
  <2>3. ListProved'
    BY <1>1, <2>2 DEF LInv, ListProved, Proved
  <2>4. OwnKeys'
    BY <1>1, <2>2 DEF LInv, OwnKeys
  <2>5. PICK L, C : L = SetupLists /\ C = conf.lists
    OBVIOUS
  <2>6. ASSUME NEW i \in DOMAIN L PROVE \E j \in DOMAIN C : LeftOf(L[i], C[j])'
    <3>1. PICK j \in DOMAIN C : L[i] = C[j]
      BY <1>5, <2>5
    <3>2. C[j] \in Seq(Methods)
      BY <1>3, <2>5, AuthAssumption
    <3>3. LeftOf(C[j], C[j])
      BY <3>2, SetupLeft
    <3>4. LeftOf(C[j], C[j])'
      BY <1>1, <3>3 DEF LeftOf, Matches
    <3> QED BY <3>1, <3>4
  <2>7. Remains'
    <3>1. mon'.lists = L /\ conf'.lists = C
      BY <1>1, <2>2, <2>5
    <3> QED BY <2>6, <3>1 DEF Remains
  <2> QED BY <1>1, <1>3, <2>1, <2>3, <2>4, <2>7 DEF LInv
<1> QED BY <1>2, <1>6, <1>7

\* mm_answer_authpassword(): a proof without a key.
LEMMA AnswerPasswordProves ==
  ASSUME LInv, AnswerPassword
  PROVE  LInv'
<1> DEFINE n == [mon EXCEPT !.calls = @ + 1]
           m == PasswordMethod(n, Question)
           ret == PasswordOk(Question)
           proof == [method |-> m, key |-> "none"]
<1>1. /\ mon.pc = "loop" /\ conf' = conf /\ known' = known
      /\ \/ mon' = mon /\ proofs' = proofs
         \/ Decide(n, m, ret, proof)
  BY DEF AnswerPassword, GiveUp
<1>2. mon \in MonitorType /\ mon.calls \in Nat
  BY DEF LInv, MonitorType
<1>3. /\ n \in MonitorType /\ n.lists = mon.lists /\ n.used = mon.used /\ n.key = mon.key
  BY <1>2 DEF MonitorType
<1>4. m \in {"none", "password"} /\ ret \in BOOLEAN
  BY DEF PasswordMethod, PasswordOk
<1>5. proof \in Proof /\ proof.method = m
  BY <1>4 DEF Proof, Methods
<1>6. n.key.type = "publickey" => n.key.key \notin n.used
  BY <1>3 DEF LInv, OwnKeys
<1> HIDE DEF n, m, ret, proof
<1> QED BY <1>1, <1>3, <1>4, <1>5, <1>6, Idle, DecideProves

\* mm_answer_keyallowed(): a user key that served is not allowed again.
LEMMA AnswerKeyAllowedProves ==
  ASSUME LInv, AnswerKeyAllowed
  PROVE  LInv'
<1> DEFINE q      == Question
           user   == q.method = "publickey"
           ok     == /\ mon.valid /\ q.method \in Enabled /\ q.key \in Authorized
                     /\ user => ~AlreadyUsed(mon, q.key)
           forced == IF user /\ mon.valid THEN ok /\ q.sig # "none" /\ q.key \in ForcedKeys
                     ELSE mon.forced
           key    == IF ok THEN [type |-> q.method, key |-> q.key] ELSE NoKey
<1>1. /\ conf' = conf /\ known' = known /\ proofs' = proofs
      /\ mon' = mon \/ mon' = [mon EXCEPT !.key = key, !.forced = forced]
  BY DEF AnswerKeyAllowed, GiveUp
<1>2. mon \in MonitorType
  BY DEF LInv
<1>3. forced \in BOOLEAN
  BY <1>2 DEF MonitorType
<1>4. key \in {NoKey} \cup [type : Enabled, key : Keys]
  BY AuthAssumption
<1>5. key.type = "publickey" => key.key \notin mon.used
  BY DEF AlreadyUsed, NoKey
<1> HIDE DEF key, forced
<1>6. CASE mon' = mon
  BY <1>1, <1>6, Idle
<1>7. CASE mon' = [mon EXCEPT !.key = key, !.forced = forced]
  <2>1. /\ mon' \in MonitorType /\ mon'.lists = mon.lists /\ mon'.used = mon.used
        /\ mon'.key = key /\ mon'.pc = mon.pc
    BY <1>2, <1>3, <1>4, <1>7 DEF MonitorType
  <2> QED BY <1>1, <1>5, <2>1, SameLists
<1> QED BY <1>1, <1>6, <1>7

\* mm_answer_keyverify(): the key was allowed, so that it did not serve before.
LEMMA AnswerKeyVerifyProves ==
  ASSUME LInv, AnswerKeyVerify
  PROVE  LInv'
<1> DEFINE q  == Question
           ok == q.sig = "right"
           m  == mon.key.type
           used == IF ok /\ m = "publickey" THEN mon.used \cup {q.key} ELSE mon.used
           n  == [mon EXCEPT !.key = NoKey, !.used = used]
           proof == [method |-> m, key |-> q.key]
<1>1. /\ mon.pc = "loop" /\ conf' = conf /\ known' = known
      /\ \/ mon' = mon /\ proofs' = proofs
         \/ mon.key.key = q.key /\ Decide(n, m, ok, proof)
  BY DEF AnswerKeyVerify, GiveUp
<1>2. CASE mon' = mon /\ proofs' = proofs
  BY <1>1, <1>2, Idle
<1>3. CASE mon.key.key = q.key /\ Decide(n, m, ok, proof)
  <2>1. mon \in MonitorType /\ mon.key \in {NoKey} \cup [type : Enabled, key : Keys] /\ mon.used \subseteq Keys
    BY DEF LInv, MonitorType
  <2>2. proof \in Proof /\ proof.method = m /\ proof.key = q.key
    BY <1>3, <2>1, AuthAssumption DEF Proof, NoKey, Methods
  <2>3. m = "publickey" => q.key \in Keys /\ q.key \notin mon.used
    <3>1. m = "publickey" => mon.key.key \notin mon.used
      BY DEF LInv, OwnKeys
    <3>2. m = "publickey" => mon.key.key \in Keys
      BY <2>1 DEF NoKey
    <3> QED BY <1>3, <3>1, <3>2
  <2>4. used \in SUBSET Keys /\ mon.used \subseteq used /\ (~ok => used = mon.used)
    BY <2>1, <2>3
  <2>5. ok /\ m = "publickey" => q.key \in used
    OBVIOUS
  <2> HIDE DEF used
  <2>6. /\ n \in MonitorType /\ n.lists = mon.lists /\ n.used = used /\ n.key = NoKey
    BY <2>1, <2>4 DEF MonitorType
  <2>7. n.key.type # "publickey" /\ ok \in BOOLEAN
    BY <2>6 DEF NoKey
  <2> HIDE DEF n, ok, m, proof
  <2> QED BY <1>1, <1>3, <2>2, <2>3, <2>4, <2>5, <2>6, <2>7, DecideProves
<1> QED BY <1>1, <1>2, <1>3

\* A connection is authenticated only after all methods of one of the
\* AuthenticationMethods lists were proved in order, each with a key of its own:
\* in every configuration, and whatever the child asks of the monitor.
THEOREM ListsAreProved == Spec => []ListProved
<1>1. Init => LInv
  <2> SUFFICES ASSUME Init PROVE LInv
    OBVIOUS
  <2>1. /\ conf \in Configs /\ known \in BOOLEAN /\ mon.pc = "loop" /\ mon.lists = <<>>
        /\ mon.key = NoKey /\ proofs = <<>>
    BY DEF Init
  <2>2. <<>> \in Lists /\ <<>> \in Seq(Proof) /\ {"PWNAM"} \in Permits
    BY DEF Lists, Permits
  <2>3. mon \in MonitorType
    BY <2>2 DEF Init, MonitorType
  <2> QED BY <2>1, <2>2, <2>3 DEF LInv, OwnKeys, Remains, ListProved, NoKey
<1>2. LInv /\ [Next]_vars => LInv'
  <2> SUFFICES ASSUME LInv, [Next]_vars PROVE LInv'
    OBVIOUS
  <2>1. ASSUME AnswerAuthserv PROVE LInv'
    <3> DEFINE P == (mon.permit \ {"AUTHSERV"}) \cup AuthRequests
    <3>1. /\ conf' = conf /\ known' = known /\ proofs' = proofs
          /\ mon' = mon \/ mon' = [mon EXCEPT !.permit = P]
      BY <2>1 DEF AnswerAuthserv, GiveUp
    <3>2. mon \in MonitorType
      BY DEF LInv
    <3>3. P \in Permits
      BY <3>2 DEF MonitorType, Permits
    <3> HIDE DEF P
    <3>4. CASE mon' = [mon EXCEPT !.permit = P]
      <4>1. /\ mon' \in MonitorType /\ mon'.lists = mon.lists /\ mon'.used = mon.used
            /\ mon'.key = mon.key /\ mon'.pc = mon.pc
        BY <3>2, <3>3, <3>4 DEF MonitorType
      <4>2. mon'.key.type = "publickey" => mon'.key.key \notin mon.used
        BY <4>1 DEF LInv, OwnKeys
      <4> QED BY <3>1, <4>1, <4>2, SameLists
    <3> QED BY <3>1, <3>4, Idle
  <2>2. ASSUME GetKeystate PROVE LInv'
    <3>1. /\ conf' = conf /\ known' = known /\ proofs' = proofs
          /\ mon' = mon \/ (mon.pc = "keystate" /\ mon' = [mon EXCEPT !.pc = "done"])
      BY <2>2 DEF GetKeystate, GiveUp
    <3>2. mon \in MonitorType
      BY DEF LInv
    <3>3. CASE mon.pc = "keystate" /\ mon' = [mon EXCEPT !.pc = "done"]
      <4>1. /\ mon' \in MonitorType /\ mon'.lists = mon.lists /\ mon'.used = mon.used
            /\ mon'.key = mon.key
        BY <3>2, <3>3 DEF MonitorType
      <4>2. mon'.key.type = "publickey" => mon'.key.key \notin mon.used
        BY <4>1 DEF LInv, OwnKeys
      <4> QED BY <3>1, <3>3, <4>1, <4>2, SameLists
    <3> QED BY <3>1, <3>3, Idle
  <2>3. ASSUME Monitor PROVE LInv'
    BY <2>1, <2>2, <2>3, AnswerPwnamProves, AnswerPasswordProves, AnswerKeyAllowedProves,
       AnswerKeyVerifyProves DEF Monitor
  <2>4. ASSUME ~Monitor
        PROVE  conf' = conf /\ known' = known /\ mon' = mon /\ proofs' = proofs
    BY <2>4 DEF Next, vars, ChildReturns, UserauthRequest, PwnamAnswer, PasswordAnswer,
       KeyAllowedAnswer, KeyVerifyAnswer, SendKeystate, NoDestination, GraceAlarm
  <2> QED BY <2>3, <2>4, Idle
<1>3. LInv => ListProved
  BY DEF LInv
<1> QED BY <1>1, <1>2, <1>3, PTL DEF Spec
=============================================================================
