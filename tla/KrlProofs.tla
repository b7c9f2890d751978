------------------------------ MODULE KrlProofs ------------------------------
(***************************************************************************)
(* Canonical, CheckExact and LoadsBack of Krl for every number of serial   *)
(* numbers, keys, CAs and lines.  The inductive invariant follows a serial *)
(* number from the line that names it through the tree, the sections, the  *)
(* file and back: at every step of every loop it is in exactly the places  *)
(* that still stand for it.                                                *)
(***************************************************************************)
EXTENDS Krl, WellFoundedInduction, TLAPS

-----------------------------------------------------------------------------
\* A range or a section stands for a serial number.
In(n, r) == r.lo <= n /\ n <= r.hi
InSection(n, x) ==
  \/ x.type = "LIST" /\ n \in x.nums
  \/ x.type = "RANGE" /\ \E a, b \in x.nums : a <= n /\ n <= b
  \/ x.type = "BITMAP" /\ (n - x.base) \in x.nums
InSections(s, n, T) == \E x \in T : x.scope = s /\ InSection(n, x)

Inserting == pc \in {"pred", "succ"}
InMemory(s, n) ==
  \/ \E r \in serials[s] : In(n, r)
  \/ Inserting /\ rt = s /\ In(n, ers)
  \/ InSections(s, n, todo)
InWriting(s, n) ==
  \/ \E x \in left : x[1] = s /\ In(n, x[2])
  \/ gen.scope = s /\ InSection(n, Section(gen))
  \/ InSections(s, n, out)

Serials == 1..MaxSerial

\* The parts of the invariant: the trees, the insertion, the sections, the loop
\* that writes them, and what all of them stand for.
Ordered == \A s \in Scopes : \A r \in serials[s] : r.lo <= r.hi
Insertion == Inserting =>
  /\ rt \in Scopes /\ ers.lo <= at /\ at <= ers.hi
  /\ \A c \in serials[rt] : c.hi < at \/ at < c.lo
  /\ pc = "succ" => \A c \in serials[rt] : c.lo < at => c.hi + 1 < ers.lo

GoodSection(x) ==
  /\ x.type \in {"LIST", "RANGE"} => x.nums \subseteq Serials
  /\ x.type = "BITMAP" => x.base # 0 /\ \A n \in x.nums : x.base + n <= MaxSerial
GoodSections == /\ \A x \in todo : GoodSection(x)
                /\ \A x \in out : GoodSection(x)
                /\ \A x \in file.sections : GoodSection(x)
                /\ gen.scope # None => GoodSection(Section(gen))

Writing ==
  /\ gen.scope = None => gen = NoSection
  /\ gen.scope # None => /\ gen.state # "0" /\ gen.base <= gen.last
                         /\ \A x \in left : x[1] = gen.scope => gen.last < x[2].lo
  /\ \A x \in left : x[2] \in serials[x[1]]
  /\ pc # "gen" => left = {} /\ gen = NoSection
  /\ pc \notin {"gen", "write"} => out = {}
Parsing == pc \in {"idle", "lines", "gen", "write"} => todo = {}

\* At rest there is nothing in memory.
Resting == pc = "idle" => serials = NoSerials /\ asked = NoSerials

MemoryExact == pc \notin {"gen", "write"} =>
  \A s \in Scopes, n \in Serials : n \in asked[s] <=> InMemory(s, n)
WritingExact == pc \in {"gen", "write"} =>
  \A s \in Scopes, n \in Serials : n \in asked[s] <=> InWriting(s, n)
SameOthers(l, o) == l.key_ids = o.key_ids /\ l.revoked_keys \cup l.revoked_sha1s = o.keys
FileExact == fstate = "whole" =>
  /\ \A s \in Scopes, n \in Serials : n \in saved.serials[s] <=> InSections(s, n, file.sections)
  /\ SameOthers(file.listed, saved.others)
OthersExact == SameOthers(listed, others)

IInv == /\ TypeOK /\ Canonical /\ Ordered /\ Insertion /\ GoodSections /\ Writing /\ Parsing
        /\ Resting /\ MemoryExact /\ WritingExact /\ FileExact /\ OthersExact

-----------------------------------------------------------------------------
(***************************************************************************)
(* A nonempty set of ranges has a first and a last one.                    *)
(***************************************************************************)
LEMMA LeastNat ==
  ASSUME NEW L, L \subseteq Nat, L # {}
  PROVE  \E n \in L : \A m \in L : n <= m
<1> DEFINE R == OpToRel(<, Nat)
<1>1. IsWellFoundedOn(R, Nat)
  BY NatLessThanWellFounded
<1>2. \A x, y \in Nat : <<x, y>> \in R <=> x < y
  BY DEF OpToRel
<1> HIDE DEF R
<1>3. PICK n \in L : \A m \in L : ~ (<<m, n>> \in R)
  BY <1>1, WFMin
<1>4. ASSUME NEW m \in L PROVE n <= m
  <2>1. m \in Nat /\ n \in Nat
    OBVIOUS
  <2>2. ~ (<<m, n>> \in R)
    BY <1>3
  <2>3. ~ (m < n)
    BY <1>2, <2>1, <2>2
  <2> QED BY <2>1, <2>3
<1> QED BY <1>4

LEMMA LeastLo ==
  ASSUME NEW S \in SUBSET RevokedSerial, S # {}
  PROVE  \E c \in S : \A d \in S : c.lo <= d.lo
<1> DEFINE L == {c.lo : c \in S}
<1>1. L \subseteq Nat /\ L # {}
  BY KrlAssumption DEF RevokedSerial
<1>2. PICK n \in L : \A m \in L : n <= m
  BY <1>1, LeastNat
<1> QED BY <1>2

LEMMA GreatestLo ==
  ASSUME NEW S \in SUBSET RevokedSerial, S # {}
  PROVE  \E c \in S : \A d \in S : d.lo <= c.lo
<1> DEFINE L == {MaxSerial - c.lo : c \in S}
<1>1. L \subseteq Nat /\ L # {}
  BY KrlAssumption DEF RevokedSerial
<1>2. PICK n \in L : \A m \in L : n <= m
  BY <1>1, LeastNat
<1>3. PICK c \in S : n = MaxSerial - c.lo
  OBVIOUS
<1>4. \A d \in S : c.lo \in Int /\ d.lo \in Int /\ MaxSerial \in Int
  BY KrlAssumption DEF RevokedSerial
<1>5. \A d \in S : MaxSerial - c.lo <= MaxSerial - d.lo
  BY <1>2, <1>3
<1>6. \A d \in S : d.lo <= c.lo
  BY <1>4, <1>5
<1> QED BY <1>6

-----------------------------------------------------------------------------
(***************************************************************************)
(* The beginning of an insertion of r into the tree of s.                  *)
(***************************************************************************)
LEMMA InsertStarts ==
  ASSUME TypeOK, Canonical, Ordered,
         NEW s \in Scopes, NEW r \in [lo : 0..MaxSerial, hi : 0..MaxSerial],
         Insert(s, r)
  PROVE  /\ pc' = "pred" /\ rt' = s
         /\ serials' \in [Scopes -> SUBSET RevokedSerial] /\ ers' \in RevokedSerial /\ at' \in 1..MaxSerial
         /\ Canonical' /\ Ordered' /\ Insertion'
         /\ \A t \in Scopes, n \in Serials :
              ((\E q \in serials'[t] : In(n, q)) \/ (t = s /\ In(n, ers')))
                <=> ((\E q \in serials[t] : In(n, q)) \/ (t = s /\ In(n, r)))
<1>1. r \in RevokedSerial /\ r.lo <= r.hi
  BY KrlAssumption DEF Insert, Invalid, RevokedSerial
<1>2. serials \in [Scopes -> SUBSET RevokedSerial] /\ pc' = "pred" /\ rt' = s
  BY DEF TypeOK, Insert
<1>3. CASE /\ \A e \in serials[s] : ~Overlap(e, r)
           /\ ers' = r /\ at' = r.lo
           /\ serials' = serials
  <2>1. \A c \in serials[s] : c.hi < r.lo \/ r.lo < c.lo
    <3> SUFFICES ASSUME NEW c \in serials[s] PROVE c.hi < r.lo \/ r.lo < c.lo
      OBVIOUS
    <3>1. c \in RevokedSerial /\ ~Overlap(c, r)
      BY <1>2, <1>3
    <3> QED BY <1>1, <3>1, KrlAssumption DEF Overlap, RevokedSerial
  <2>2. Insertion'
    BY <1>1, <1>2, <1>3, <2>1, KrlAssumption DEF Insertion, Inserting, RevokedSerial
  <2>3. Canonical' /\ Ordered'
    BY <1>3 DEF Canonical, Ordered
  <2> QED BY <1>1, <1>2, <1>3, <2>2, <2>3 DEF RevokedSerial
<1>4. ASSUME NEW e \in serials[s], Overlap(e, r),
             ers' = [lo |-> Smaller(e.lo, r.lo), hi |-> Larger(e.hi, r.hi)],
             at' = e.lo,
             serials' = [serials EXCEPT ![s] = @ \ {e}]
      PROVE  /\ serials' \in [Scopes -> SUBSET RevokedSerial] /\ ers' \in RevokedSerial /\ at' \in 1..MaxSerial
             /\ Canonical' /\ Ordered' /\ Insertion'
             /\ \A t \in Scopes, n \in Serials :
                  ((\E q \in serials'[t] : In(n, q)) \/ (t = s /\ In(n, ers')))
                    <=> ((\E q \in serials[t] : In(n, q)) \/ (t = s /\ In(n, r)))
  <2>1. e \in RevokedSerial /\ e.lo <= e.hi
    BY <1>2, <1>4 DEF Ordered
  <2>2. /\ serials' \in [Scopes -> SUBSET RevokedSerial]
        /\ \A t \in Scopes : serials'[t] = IF t = s THEN serials[s] \ {e} ELSE serials[t]
    BY <1>2, <1>4
  <2>3. ers' \in RevokedSerial /\ ers'.lo <= e.lo /\ e.lo <= ers'.hi
    BY <1>1, <1>4, <2>1, KrlAssumption DEF Smaller, Larger, RevokedSerial
  <2>4. ASSUME NEW n \in Serials PROVE In(n, ers') <=> (In(n, e) \/ In(n, r))
    BY <1>1, <1>4, <2>1, KrlAssumption DEF Overlap, Smaller, Larger, RevokedSerial, In, Serials
  <2>5. \A c \in serials[s] \ {e} : c.hi < e.lo \/ e.lo < c.lo
    <3> SUFFICES ASSUME NEW c \in serials[s], c # e PROVE c.hi < e.lo \/ e.lo < c.lo
      OBVIOUS
    <3>1. c \in RevokedSerial /\ (c.hi + 1 < e.lo \/ e.hi + 1 < c.lo)
      BY <1>2 DEF Canonical
    <3> QED BY <2>1, <3>1, KrlAssumption DEF RevokedSerial
  <2>6. Insertion'
    BY <1>2, <1>4, <2>2, <2>3, <2>5 DEF Insertion, Inserting
  <2>7. Canonical' /\ Ordered'
    BY <2>2 DEF Canonical, Ordered
  <2>8. ASSUME NEW t \in Scopes, NEW n \in Serials
        PROVE  ((\E q \in serials'[t] : In(n, q)) \/ (t = s /\ In(n, ers')))
                 <=> ((\E q \in serials[t] : In(n, q)) \/ (t = s /\ In(n, r)))
    <3>1. CASE t = s
      BY <2>2, <2>4, <3>1
    <3>2. CASE t # s
      BY <2>2, <3>2
    <3> QED BY <3>1, <3>2
  <2>9. at' \in 1..MaxSerial
    BY <1>4, <2>1 DEF RevokedSerial
  <2> QED BY <2>2, <2>3, <2>6, <2>7, <2>8, <2>9
<1> QED BY <1>2, <1>3, <1>4 DEF Insert

-----------------------------------------------------------------------------
(***************************************************************************)
(* The steps of an insertion.                                              *)
(***************************************************************************)
LEMMA MergePredStep ==
  ASSUME IInv, MergePred PROVE IInv'
<1> USE DEF IInv
<1>1. PICK c \in Preds :
        /\ \A d \in Preds : d.lo <= c.lo
        /\ ~PredApart(c)
        /\ ers' = [lo |-> Smaller(c.lo, ers.lo), hi |-> ers.hi]
        /\ serials' = [serials EXCEPT ![rt] = @ \ {c}]
  BY DEF MergePred
<1>2. /\ pc = "pred"
      /\ UNCHANGED <<pc, listed, rt, at, todo, left, gen, out, file, fstate, saved, failed, lines,
                     asked, others>>
  BY DEF MergePred, writing, disk, history
<1>3. /\ rt \in Scopes /\ c \in serials[rt] /\ c.lo < at /\ c \in RevokedSerial /\ ers \in RevokedSerial
      /\ c.lo <= c.hi /\ at \in 1..MaxSerial /\ ers.lo <= at /\ at <= ers.hi
      /\ serials \in [Scopes -> SUBSET RevokedSerial]
  BY <1>1, <1>2 DEF TypeOK, Insertion, Inserting, Preds, Ordered
<1>4. /\ serials' \in [Scopes -> SUBSET RevokedSerial]
      /\ \A t \in Scopes : serials'[t] = IF t = rt THEN serials[rt] \ {c} ELSE serials[t]
  BY <1>1, <1>3
<1>5. /\ ers' \in RevokedSerial /\ ers'.lo <= at /\ at <= ers'.hi
      /\ \A n \in Serials : In(n, ers') <=> (In(n, ers) \/ In(n, c))
  <2>1. ers'.lo = Smaller(c.lo, ers.lo) /\ ers'.hi = ers.hi
    BY <1>1
  <2>2. c.hi >= ers.lo - 1
    BY <1>1, <1>3, KrlAssumption DEF PredApart, Dec, RevokedSerial
  <2>3. c.hi < at
    BY <1>2, <1>3, KrlAssumption DEF Insertion, Inserting, RevokedSerial
  <2>4. ers' \in RevokedSerial /\ ers'.lo <= at /\ at <= ers'.hi
    BY <1>1, <1>3, <2>1, KrlAssumption DEF Smaller, RevokedSerial
  <2>5. ASSUME NEW n \in Serials PROVE In(n, ers') <=> (In(n, ers) \/ In(n, c))
    BY <1>3, <2>1, <2>2, <2>3, KrlAssumption DEF Smaller, RevokedSerial, In, Serials
  <2> QED BY <2>4, <2>5
<1>6. TypeOK'
  BY <1>2, <1>4, <1>5 DEF TypeOK
<1>7. Canonical' /\ Ordered'
  BY <1>4 DEF Canonical, Ordered
<1>8. Insertion'
  BY <1>2, <1>3, <1>4, <1>5 DEF Insertion, Inserting
<1>9. MemoryExact'
  <2> SUFFICES ASSUME NEW t \in Scopes, NEW n \in Serials
               PROVE  n \in asked[t] <=> InMemory(t, n)'
    BY <1>2 DEF MemoryExact
  <2>1. n \in asked[t] <=> InMemory(t, n)
    BY <1>2 DEF MemoryExact
  <2>2. InSections(t, n, todo)' <=> InSections(t, n, todo)
    BY <1>2
  <2>3. CASE t = rt
    BY <1>2, <1>3, <1>4, <1>5, <2>1, <2>2, <2>3 DEF InMemory, Inserting
  <2>4. CASE t # rt
    BY <1>2, <1>4, <2>1, <2>2, <2>4 DEF InMemory, Inserting
  <2> QED BY <2>3, <2>4
<1>10. /\ GoodSections' /\ Parsing' /\ Resting' /\ WritingExact' /\ FileExact' /\ OthersExact'
  BY <1>2 DEF GoodSections, Parsing, Resting, WritingExact, FileExact, OthersExact
<1>11. Writing'
  BY <1>2 DEF Writing
<1> QED BY <1>6, <1>7, <1>8, <1>9, <1>10, <1>11

LEMMA PredsDoneStep ==
  ASSUME IInv, PredsDone PROVE IInv'
<1> USE DEF IInv
<1>1. /\ pc = "pred" /\ pc' = "succ"
      /\ UNCHANGED <<serials, listed, rt, ers, at, todo, left, gen, out, file, fstate, saved, failed,
                     lines, asked, others>>
  BY DEF PredsDone, memory, insertion, writing, disk, history
<1>2. rt \in Scopes /\ serials[rt] \in SUBSET RevokedSerial /\ ers \in RevokedSerial
  BY <1>1 DEF TypeOK, Insertion, Inserting
<1>3. ASSUME NEW d \in serials[rt], d.lo < at PROVE d.hi + 1 < ers.lo
  <2>1. d \in Preds /\ Preds \in SUBSET RevokedSerial /\ Preds # {}
    BY <1>2, <1>3 DEF Preds
  <2>2. PICK c \in Preds : \A e \in Preds : e.lo <= c.lo
    BY <2>1, GreatestLo
  <2>3. PredApart(c)
    BY <2>2 DEF PredsDone
  <2>4. c \in RevokedSerial /\ d \in RevokedSerial /\ c.lo <= c.hi /\ d.lo <= d.hi /\ d.lo <= c.lo
    BY <1>2, <1>3, <2>1, <2>2 DEF Ordered, Preds
  <2>5. c = d \/ c.hi + 1 < d.lo \/ d.hi + 1 < c.lo
    BY <1>2, <1>3, <2>2 DEF Canonical, Preds
  <2>6. d.hi <= c.hi
    BY <2>4, <2>5, KrlAssumption DEF RevokedSerial
  <2> QED BY <1>2, <2>3, <2>4, <2>6, KrlAssumption DEF PredApart, Dec, RevokedSerial
<1>4. Insertion'
  BY <1>1, <1>3 DEF Insertion, Inserting
<1>5. MemoryExact'
  BY <1>1 DEF MemoryExact, InMemory, Inserting
<1>6. TypeOK' /\ Canonical' /\ Ordered'
  BY <1>1 DEF TypeOK, Canonical, Ordered
<1>7. /\ GoodSections' /\ Parsing' /\ Resting' /\ WritingExact' /\ FileExact' /\ OthersExact'
  BY <1>1 DEF GoodSections, Parsing, Resting, WritingExact, FileExact, OthersExact
<1>8. Writing'
  BY <1>1 DEF Writing
<1> QED BY <1>4, <1>5, <1>6, <1>7, <1>8

LEMMA MergeSuccStep ==
  ASSUME IInv, MergeSucc PROVE IInv'
<1> USE DEF IInv
<1>1. PICK c \in Succs :
        /\ \A d \in Succs : c.lo <= d.lo
        /\ ~SuccApart(c)
        /\ ers' = [lo |-> ers.lo, hi |-> Larger(c.hi, ers.hi)]
        /\ serials' = [serials EXCEPT ![rt] = @ \ {c}]
  BY DEF MergeSucc
<1>2. /\ pc = "succ"
      /\ UNCHANGED <<pc, listed, rt, at, todo, left, gen, out, file, fstate, saved, failed, lines,
                     asked, others>>
  BY DEF MergeSucc, writing, disk, history
<1>3. /\ rt \in Scopes /\ c \in serials[rt] /\ at < c.lo /\ c \in RevokedSerial /\ ers \in RevokedSerial
      /\ c.lo <= c.hi /\ at \in 1..MaxSerial /\ ers.lo <= at /\ at <= ers.hi
      /\ serials \in [Scopes -> SUBSET RevokedSerial]
  BY <1>1, <1>2, KrlAssumption DEF TypeOK, Insertion, Inserting, Succs, Ordered, RevokedSerial
<1>4. /\ serials' \in [Scopes -> SUBSET RevokedSerial]
      /\ \A t \in Scopes : serials'[t] = IF t = rt THEN serials[rt] \ {c} ELSE serials[t]
  BY <1>1, <1>3
<1>5. /\ ers' \in RevokedSerial /\ ers'.lo = ers.lo /\ at <= ers'.hi
      /\ \A n \in Serials : In(n, ers') <=> (In(n, ers) \/ In(n, c))
  <2>1. ers'.lo = ers.lo /\ ers'.hi = Larger(c.hi, ers.hi)
    BY <1>1
  <2>2. c.lo <= ers.hi + 1
    BY <1>1, <1>3, KrlAssumption DEF SuccApart, Inc, RevokedSerial
  <2>3. ers' \in RevokedSerial /\ at <= ers'.hi
    BY <1>1, <1>3, <2>1, KrlAssumption DEF Larger, RevokedSerial
  <2>4. ASSUME NEW n \in Serials PROVE In(n, ers') <=> (In(n, ers) \/ In(n, c))
    BY <1>3, <2>1, <2>2, KrlAssumption DEF Larger, RevokedSerial, In, Serials
  <2> QED BY <2>1, <2>3, <2>4
<1>6. TypeOK'
  BY <1>2, <1>4, <1>5 DEF TypeOK
<1>7. Canonical' /\ Ordered'
  BY <1>4 DEF Canonical, Ordered
<1>8. Insertion'
  BY <1>2, <1>3, <1>4, <1>5 DEF Insertion, Inserting
<1>9. MemoryExact'
  <2> SUFFICES ASSUME NEW t \in Scopes, NEW n \in Serials
               PROVE  n \in asked[t] <=> InMemory(t, n)'
    BY <1>2 DEF MemoryExact
  <2>1. n \in asked[t] <=> InMemory(t, n)
    BY <1>2 DEF MemoryExact
  <2>2. InSections(t, n, todo)' <=> InSections(t, n, todo)
    BY <1>2
  <2>3. CASE t = rt
    BY <1>2, <1>3, <1>4, <1>5, <2>1, <2>2, <2>3 DEF InMemory, Inserting
  <2>4. CASE t # rt
    BY <1>2, <1>4, <2>1, <2>2, <2>4 DEF InMemory, Inserting
  <2> QED BY <2>3, <2>4
<1>10. /\ GoodSections' /\ Parsing' /\ Resting' /\ WritingExact' /\ FileExact' /\ OthersExact'
  BY <1>2 DEF GoodSections, Parsing, Resting, WritingExact, FileExact, OthersExact
<1>11. Writing'
  BY <1>2 DEF Writing
<1> QED BY <1>6, <1>7, <1>8, <1>9, <1>10, <1>11

LEMMA SuccsDoneStep ==
  ASSUME IInv, SuccsDone PROVE IInv'
<1> USE DEF IInv
<1>1. /\ pc = "succ" /\ pc' = IF todo = {} THEN "lines" ELSE "parse"
      /\ serials' = [serials EXCEPT ![rt] = @ \cup {ers}]
      /\ rt' = None /\ ers' = NoRange /\ at' = 1
      /\ UNCHANGED <<listed, todo, left, gen, out, file, fstate, saved, failed, lines, asked, others>>
  BY DEF SuccsDone, writing, disk, history
<1>2. /\ rt \in Scopes /\ serials \in [Scopes -> SUBSET RevokedSerial] /\ ers \in RevokedSerial
      /\ at \in 1..MaxSerial /\ ers.lo <= at /\ at <= ers.hi
      /\ \A c \in serials[rt] : c.hi < at \/ at < c.lo
      /\ \A c \in serials[rt] : c.lo < at => c.hi + 1 < ers.lo
  BY <1>1 DEF TypeOK, Insertion, Inserting
<1>3. ASSUME NEW d \in serials[rt], at < d.lo PROVE ers.hi + 1 < d.lo
  <2>1. d \in Succs /\ Succs \in SUBSET RevokedSerial /\ Succs # {}
    BY <1>2, <1>3, KrlAssumption DEF Succs, RevokedSerial
  <2>2. PICK c \in Succs : \A e \in Succs : c.lo <= e.lo
    BY <2>1, LeastLo
  <2>3. SuccApart(c) /\ c \in RevokedSerial /\ d \in RevokedSerial /\ c.lo <= d.lo
    BY <1>2, <2>1, <2>2 DEF SuccsDone
  <2> QED BY <1>2, <2>3, KrlAssumption DEF SuccApart, Inc, RevokedSerial
<1>4. ASSUME NEW c \in serials[rt] PROVE c.hi + 1 < ers.lo \/ ers.hi + 1 < c.lo
  <2>1. c \in RevokedSerial /\ c.lo <= c.hi
    BY <1>2 DEF Ordered
  <2> QED BY <1>2, <1>3, <2>1, KrlAssumption DEF RevokedSerial
<1>5. /\ serials' \in [Scopes -> SUBSET RevokedSerial]
      /\ \A t \in Scopes : serials'[t] = IF t = rt THEN serials[rt] \cup {ers} ELSE serials[t]
  BY <1>1, <1>2
<1>6. Canonical'
  <2> SUFFICES ASSUME NEW t \in Scopes, NEW a \in serials'[t], NEW b \in serials'[t]
               PROVE  a = b \/ a.hi + 1 < b.lo \/ b.hi + 1 < a.lo
    BY DEF Canonical
  <2>1. CASE t # rt
    BY <1>5, <2>1 DEF Canonical
  <2>2. CASE t = rt
    BY <1>4, <1>5, <2>2 DEF Canonical
  <2> QED BY <2>1, <2>2
<1>7. Ordered'
  <2>1. ers.lo <= ers.hi
    BY <1>2, KrlAssumption DEF RevokedSerial
  <2> QED BY <1>5, <2>1 DEF Ordered
<1>8. TypeOK'
  <2>1. NoRange \in RevokedSerial /\ 1 \in 1..MaxSerial
    BY KrlAssumption DEF NoRange, RevokedSerial
  <2>2. pc' \in {"lines", "parse"}
    BY <1>1
  <2> QED BY <1>1, <1>5, <2>1, <2>2 DEF TypeOK
<1>9. Insertion'
  BY <1>1 DEF Insertion, Inserting
<1>10. MemoryExact'
  <2> SUFFICES ASSUME NEW t \in Scopes, NEW n \in Serials
               PROVE  n \in asked[t] <=> InMemory(t, n)'
    BY <1>1 DEF MemoryExact
  <2>1. n \in asked[t] <=> InMemory(t, n)
    BY <1>1 DEF MemoryExact
  <2>2. InSections(t, n, todo)' <=> InSections(t, n, todo)
    BY <1>1
  <2>3. CASE t = rt
    BY <1>1, <1>5, <2>1, <2>2, <2>3 DEF InMemory, Inserting
  <2>4. CASE t # rt
    BY <1>1, <1>5, <2>1, <2>2, <2>4 DEF InMemory, Inserting
  <2> QED BY <2>3, <2>4
<1>11. /\ GoodSections' /\ Parsing' /\ Resting' /\ WritingExact' /\ FileExact' /\ OthersExact'
  BY <1>1 DEF GoodSections, Parsing, Resting, WritingExact, FileExact, OthersExact
<1>12. Writing'
  BY <1>1 DEF Writing
<1> QED BY <1>6, <1>7, <1>8, <1>9, <1>10, <1>11, <1>12

-----------------------------------------------------------------------------
(***************************************************************************)
(* The runs of ssh-keygen.                                                 *)
(***************************************************************************)
LEMMA InitStep ==
  ASSUME Init PROVE IInv
<1> USE DEF Init
<1>1. TypeOK
  BY KrlAssumption DEF TypeOK, NoSerials, NoneListed, NoOthers, NoRange, NoSection, RevokedSerial,
     Listed, Others, Numbers, Sections, Types
<1>2. Canonical /\ Ordered /\ Resting
  BY DEF Canonical, Ordered, Resting, NoSerials
<1>3. Insertion /\ Parsing /\ Writing /\ GoodSections
  BY KrlAssumption DEF Insertion, Inserting, Parsing, Writing, NoSection, GoodSections
<1>4. MemoryExact /\ WritingExact /\ FileExact
  BY DEF MemoryExact, WritingExact, FileExact, InMemory, Inserting, InSections, NoSerials
<1>5. OthersExact
  BY DEF OthersExact, SameOthers, NoneListed, NoOthers
<1> QED BY <1>1, <1>2, <1>3, <1>4, <1>5 DEF IInv

LEMMA NewListStep ==
  ASSUME IInv, NewList PROVE IInv'
<1> USE DEF IInv
<1>1. /\ pc = "idle" /\ pc' = "lines"
      /\ UNCHANGED <<serials, listed, rt, ers, at, todo, left, gen, out, file, fstate, saved, failed,
                     lines, asked, others>>
  BY DEF NewList, memory, insertion, writing, disk, history
<1>2. TypeOK' /\ Canonical' /\ Ordered'
  BY <1>1 DEF TypeOK, Canonical, Ordered
<1>3. Insertion' /\ MemoryExact'
  BY <1>1 DEF Insertion, MemoryExact, InMemory, Inserting
<1>4. /\ GoodSections' /\ Parsing' /\ Resting' /\ WritingExact' /\ FileExact' /\ OthersExact'
  BY <1>1 DEF GoodSections, Parsing, Resting, WritingExact, FileExact, OthersExact
<1>5. Writing'
  BY <1>1 DEF Writing
<1> QED BY <1>2, <1>3, <1>4, <1>5

LEMMA LoadListStep ==
  ASSUME IInv, LoadList PROVE IInv'
<1> USE DEF IInv
<1>1. /\ pc = "idle" /\ fstate = "whole" /\ pc' = IF file.sections = {} THEN "lines" ELSE "parse"
      /\ listed' = file.listed /\ todo' = file.sections
      /\ asked' = saved.serials /\ others' = saved.others
      /\ UNCHANGED <<serials, rt, ers, at, left, gen, out, file, fstate, saved, failed, lines>>
  BY DEF LoadList, insertion, writing, disk
<1>2. pc' \in {"lines", "parse"} /\ (pc' = "lines" => todo' = {})
  BY <1>1
<1>3. TypeOK'
  BY <1>1, <1>2 DEF TypeOK
<1>4. Canonical' /\ Ordered' /\ Insertion'
  BY <1>1, <1>2 DEF Canonical, Ordered, Insertion, Inserting
<1>5. MemoryExact'
  <2> SUFFICES ASSUME NEW s \in Scopes, NEW n \in Serials
               PROVE  n \in asked'[s] <=> InMemory(s, n)'
    BY DEF MemoryExact
  <2>1. n \in saved.serials[s] <=> InSections(s, n, file.sections)
    BY <1>1 DEF FileExact
  <2>2. serials'[s] = {}
    BY <1>1 DEF Resting, NoSerials
  <2> QED BY <1>1, <1>2, <2>1, <2>2 DEF InMemory, Inserting
<1>6. /\ GoodSections' /\ Parsing' /\ Resting' /\ WritingExact' /\ FileExact'
  BY <1>1, <1>2 DEF GoodSections, Parsing, Resting, WritingExact, FileExact
<1>7. OthersExact'
  BY <1>1 DEF OthersExact, FileExact
<1>8. Writing'
  BY <1>1, <1>2 DEF Writing
<1> QED BY <1>3, <1>4, <1>5, <1>6, <1>7, <1>8

LEMMA LoadRefusedStep ==
  ASSUME IInv, LoadRefused PROVE IInv'
<1> USE DEF IInv
<1>1. /\ failed' = "invalid format"
      /\ UNCHANGED <<pc, serials, listed, rt, ers, at, todo, left, gen, out, file, fstate, saved, lines,
                     asked, others>>
  BY DEF LoadRefused, memory, insertion, writing, disk, history
<1>2. TypeOK'
  BY <1>1 DEF TypeOK
<1>3. Canonical' /\ Ordered' /\ Insertion' /\ GoodSections'
  BY <1>1 DEF Canonical, Ordered, Insertion, Inserting, GoodSections
<1>4. Writing'
  BY <1>1 DEF Writing
<1>5. MemoryExact' /\ WritingExact'
  BY <1>1 DEF MemoryExact, InMemory, Inserting, WritingExact, InWriting
<1>6. Parsing' /\ Resting' /\ FileExact' /\ OthersExact'
  BY <1>1 DEF Parsing, Resting, FileExact, OthersExact
<1> QED BY <1>2, <1>3, <1>4, <1>5, <1>6

LEMMA ExitStep ==
  ASSUME IInv, Exit PROVE IInv'
<1> USE DEF IInv
<1>1. /\ pc' = "idle" /\ serials' = NoSerials /\ listed' = NoneListed
      /\ asked' = NoSerials /\ others' = NoOthers
      /\ rt' = None /\ ers' = NoRange /\ at' = 1
      /\ todo' = {} /\ left' = {} /\ gen' = NoSection /\ out' = {}
      /\ UNCHANGED <<file, fstate, saved, failed, lines>>
  BY DEF Exit, Forget, disk
<1>2. TypeOK'
  <2>1. NoRange \in RevokedSerial /\ 1 \in 1..MaxSerial
    BY KrlAssumption DEF NoRange, RevokedSerial
  <2>2. NoSection \in [scope : Scopes \cup {None}, state : Types \cup {"0"}, last : 0..MaxSerial,
                       base : 0..MaxSerial, nums : SUBSET (0..MaxSerial)]
    BY KrlAssumption DEF NoSection
  <2>3. /\ NoSerials \in [Scopes -> SUBSET RevokedSerial] /\ NoSerials \in Numbers
        /\ NoneListed \in Listed /\ NoOthers \in Others
    BY DEF NoSerials, NoneListed, NoOthers, Numbers, Listed, Others
  <2> QED BY <1>1, <2>1, <2>2, <2>3 DEF TypeOK
<1>3. Canonical' /\ Ordered' /\ Resting'
  BY <1>1 DEF Canonical, Ordered, Resting, NoSerials
<1>4. Insertion' /\ Parsing' /\ Writing' /\ GoodSections'
  BY <1>1, KrlAssumption DEF Insertion, Inserting, Parsing, Writing, NoSection, GoodSections
<1>5. MemoryExact' /\ WritingExact' /\ FileExact'
  BY <1>1 DEF MemoryExact, WritingExact, FileExact, InMemory, Inserting, InSections, NoSerials
<1>6. OthersExact'
  BY <1>1 DEF OthersExact, SameOthers, NoneListed, NoOthers
<1> QED BY <1>2, <1>3, <1>4, <1>5, <1>6

LEMMA SerialLineStep ==
  ASSUME IInv, NEW s \in Scopes, NEW r \in Requests, SerialLine(s, r) PROVE IInv'
<1> USE DEF IInv
<1>1. /\ pc = "lines" /\ lines < MaxLines /\ Insert(s, r)
      /\ asked' = [asked EXCEPT ![s] = @ \cup r.lo..r.hi] /\ lines' = lines + 1
      /\ UNCHANGED <<listed, todo, left, gen, out, file, fstate, saved, failed, others>>
  BY DEF SerialLine, writing, disk
<1>2. r \in [lo : 0..MaxSerial, hi : 0..MaxSerial]
  BY KrlAssumption
<1>3. /\ pc' = "pred" /\ rt' = s
      /\ serials' \in [Scopes -> SUBSET RevokedSerial] /\ ers' \in RevokedSerial /\ at' \in 1..MaxSerial
      /\ Canonical' /\ Ordered' /\ Insertion'
      /\ \A t \in Scopes, n \in Serials :
           ((\E q \in serials'[t] : In(n, q)) \/ (t = s /\ In(n, ers')))
             <=> ((\E q \in serials[t] : In(n, q)) \/ (t = s /\ In(n, r)))
  BY <1>1, <1>2, InsertStarts
<1>4. r.lo # 0 /\ asked \in Numbers
  BY <1>1 DEF Insert, Invalid, TypeOK
<1>5. /\ asked' \in Numbers
      /\ \A t \in Scopes, n \in Serials : n \in asked'[t] <=> (n \in asked[t] \/ (t = s /\ In(n, r)))
  BY <1>1, <1>2, <1>4, KrlAssumption DEF Numbers, In, Serials
<1>6. TypeOK'
  <2>1. lines \in 0..MaxLines
    BY DEF TypeOK
  <2>2. lines' \in 0..MaxLines
    BY <1>1, <2>1, KrlAssumption
  <2> QED BY <1>1, <1>3, <1>5, <2>2 DEF TypeOK
<1>7. MemoryExact'
  <2> SUFFICES ASSUME NEW t \in Scopes, NEW n \in Serials
               PROVE  n \in asked'[t] <=> InMemory(t, n)'
    BY DEF MemoryExact
  <2>1. n \in asked[t] <=> InMemory(t, n)
    BY <1>1 DEF MemoryExact
  <2>2. InSections(t, n, todo)' <=> InSections(t, n, todo)
    BY <1>1
  <2> QED BY <1>1, <1>3, <1>5, <2>1, <2>2 DEF InMemory, Inserting
<1>8. /\ GoodSections' /\ Parsing' /\ Resting' /\ WritingExact' /\ FileExact' /\ OthersExact'
  BY <1>1, <1>3 DEF GoodSections, Parsing, Resting, WritingExact, FileExact, OthersExact
<1>9. Writing'
  BY <1>1, <1>3 DEF Writing
<1> QED BY <1>3, <1>6, <1>7, <1>8, <1>9

LEMMA IdLineStep ==
  ASSUME IInv, NEW s \in Scopes, NEW i \in KeyIds, IdLine(s, i) PROVE IInv'
<1> USE DEF IInv
<1>1. /\ pc = "lines" /\ lines < MaxLines /\ lines' = lines + 1
      /\ listed' = [key_ids |-> [listed.key_ids EXCEPT ![s] = @ \cup {i}],
                    revoked_keys |-> listed.revoked_keys,
                    revoked_sha1s |-> listed.revoked_sha1s]
      /\ others' = [key_ids |-> [others.key_ids EXCEPT ![s] = @ \cup {i}], keys |-> others.keys]
      /\ UNCHANGED <<pc, serials, rt, ers, at, todo, left, gen, out, file, fstate, saved, failed, asked>>
  BY DEF IdLine, insertion, writing, disk
<1>2. listed \in Listed /\ others \in Others /\ lines \in 0..MaxLines
  BY DEF TypeOK
<1>3. listed' \in Listed /\ others' \in Others
  BY <1>1, <1>2 DEF Listed, Others
<1>4. lines' \in 0..MaxLines
  BY <1>1, <1>2, KrlAssumption
<1>5. OthersExact'
  BY <1>1 DEF OthersExact, SameOthers
<1>6. TypeOK'
  BY <1>1, <1>3, <1>4 DEF TypeOK
<1>7. Canonical' /\ Ordered' /\ Insertion' /\ MemoryExact'
  BY <1>1 DEF Canonical, Ordered, Insertion, MemoryExact, InMemory, Inserting
<1>8. GoodSections' /\ Parsing' /\ Resting' /\ WritingExact' /\ FileExact'
  BY <1>1 DEF GoodSections, Parsing, Resting, WritingExact, FileExact
<1>9. Writing'
  BY <1>1 DEF Writing
<1> QED BY <1>5, <1>6, <1>7, <1>8, <1>9

LEMMA KeyLineStep ==
  ASSUME IInv, NEW k \in Keys, NEW how \in {"key", "sha1"}, KeyLine(k, how) PROVE IInv'
<1> USE DEF IInv
<1>1. /\ pc = "lines" /\ lines < MaxLines /\ lines' = lines + 1
      /\ listed' = [key_ids |-> listed.key_ids,
                    revoked_keys |-> listed.revoked_keys \cup (IF how = "key" THEN {k} ELSE {}),
                    revoked_sha1s |-> listed.revoked_sha1s \cup (IF how = "sha1" THEN {k} ELSE {})]
      /\ others' = [key_ids |-> others.key_ids, keys |-> others.keys \cup {k}]
      /\ UNCHANGED <<pc, serials, rt, ers, at, todo, left, gen, out, file, fstate, saved, failed, asked>>
  BY DEF KeyLine, insertion, writing, disk
<1>2. listed \in Listed /\ others \in Others /\ lines \in 0..MaxLines
  BY DEF TypeOK
<1>3. listed' \in Listed /\ others' \in Others
  BY <1>1, <1>2 DEF Listed, Others
<1>4. lines' \in 0..MaxLines
  BY <1>1, <1>2, KrlAssumption
<1>5. OthersExact'
  <2>1. listed.key_ids = others.key_ids /\ listed.revoked_keys \cup listed.revoked_sha1s = others.keys
    BY DEF OthersExact, SameOthers
  <2>2. CASE how = "key"
    BY <1>1, <2>1, <2>2 DEF OthersExact, SameOthers
  <2>3. CASE how = "sha1"
    BY <1>1, <2>1, <2>3 DEF OthersExact, SameOthers
  <2> QED BY <2>2, <2>3
<1>6. TypeOK'
  BY <1>1, <1>3, <1>4 DEF TypeOK
<1>7. Canonical' /\ Ordered' /\ Insertion' /\ MemoryExact'
  BY <1>1 DEF Canonical, Ordered, Insertion, MemoryExact, InMemory, Inserting
<1>8. GoodSections' /\ Parsing' /\ Resting' /\ WritingExact' /\ FileExact'
  BY <1>1 DEF GoodSections, Parsing, Resting, WritingExact, FileExact
<1>9. Writing'
  BY <1>1 DEF Writing
<1> QED BY <1>5, <1>6, <1>7, <1>8, <1>9

-----------------------------------------------------------------------------
(***************************************************************************)
(* Writing a list.                                                         *)
(***************************************************************************)
LEMMA StartGenerateStep ==
  ASSUME IInv, StartGenerate PROVE IInv'
<1> USE DEF IInv
<1>1. /\ pc = "lines" /\ pc' = "gen" /\ left' = UNION {{s} \X serials[s] : s \in Scopes}
      /\ UNCHANGED <<serials, listed, rt, ers, at, todo, gen, out, file, fstate, saved, failed,
                     lines, asked, others>>
  BY DEF StartGenerate, memory, insertion, disk, history
<1>2. serials \in [Scopes -> SUBSET RevokedSerial]
  BY DEF TypeOK
<1>3. /\ left' \in SUBSET (Scopes \X RevokedSerial)
      /\ \A x \in left' : x[2] \in serials[x[1]]
      /\ \A s \in Scopes : \A q \in serials[s] : <<s, q>> \in left'
  BY <1>1, <1>2
<1>4. gen = NoSection /\ out = {} /\ todo = {} /\ gen.scope = None
  BY <1>1 DEF Writing, Parsing, NoSection
<1>5. TypeOK'
  BY <1>1, <1>3 DEF TypeOK
<1>6. Canonical' /\ Ordered' /\ Insertion'
  BY <1>1 DEF Canonical, Ordered, Insertion, Inserting
<1>7. WritingExact'
  <2> SUFFICES ASSUME NEW s \in Scopes, NEW n \in Serials
               PROVE  n \in asked[s] <=> InWriting(s, n)'
    BY <1>1 DEF WritingExact
  <2>1. n \in asked[s] <=> \E q \in serials[s] : In(n, q)
    BY <1>1, <1>4 DEF MemoryExact, InMemory, Inserting, InSections
  <2>2. gen'.scope # s /\ out' = {}
    BY <1>1, <1>4, KrlAssumption
  <2>3. (\E x \in left' : x[1] = s /\ In(n, x[2])) <=> \E q \in serials[s] : In(n, q)
    BY <1>3
  <2> QED BY <2>1, <2>2, <2>3 DEF InWriting, InSections
<1>8. GoodSections' /\ Parsing' /\ Resting' /\ MemoryExact' /\ FileExact' /\ OthersExact'
  BY <1>1, <1>4 DEF GoodSections, Parsing, Resting, MemoryExact, FileExact, OthersExact
<1>9. Writing'
  BY <1>1, <1>3, <1>4 DEF Writing
<1> QED BY <1>5, <1>6, <1>7, <1>8, <1>9

\* A section that has been begun can be written.
LEMMA SectionBegun ==
  ASSUME IInv, gen.scope # None
  PROVE  /\ Section(gen) \in Sections /\ GoodSection(Section(gen))
         /\ Section(gen).scope = gen.scope /\ gen.scope \in Scopes /\ gen.state \in Types
<1>1. /\ gen.scope \in Scopes /\ gen.state \in Types
      /\ gen.base \in 0..MaxSerial /\ gen.nums \in SUBSET (0..MaxSerial)
  BY DEF IInv, TypeOK, Writing
<1>2. gen.base \in Nat
  BY <1>1, KrlAssumption
<1>3. Section(gen) \in Sections /\ Section(gen).scope = gen.scope
  BY <1>1, <1>2 DEF Section, Sections
<1> QED BY <1>1, <1>3 DEF IInv, GoodSections

LEMMA FlushStep ==
  ASSUME IInv, Flush PROVE IInv'
<1> USE DEF IInv
<1>1. /\ pc = "gen" /\ gen.scope # None /\ out' = out \cup {Section(gen)} /\ gen' = NoSection
      /\ UNCHANGED <<pc, serials, listed, rt, ers, at, todo, left, file, fstate, saved, failed,
                     lines, asked, others>>
  BY DEF Flush, memory, insertion, disk, history
<1>2. Section(gen) \in Sections /\ GoodSection(Section(gen)) /\ Section(gen).scope = gen.scope
  BY <1>1, SectionBegun
<1>3. NoSection \in [scope : Scopes \cup {None}, state : Types \cup {"0"}, last : 0..MaxSerial,
                     base : 0..MaxSerial, nums : SUBSET (0..MaxSerial)] /\ NoSection.scope = None
  BY KrlAssumption DEF NoSection
<1>4. TypeOK'
  BY <1>1, <1>2, <1>3 DEF TypeOK
<1>5. Canonical' /\ Ordered' /\ Insertion'
  BY <1>1 DEF Canonical, Ordered, Insertion, Inserting
<1>6. WritingExact'
  <2> SUFFICES ASSUME NEW s \in Scopes, NEW n \in Serials
               PROVE  n \in asked[s] <=> InWriting(s, n)'
    BY <1>1 DEF WritingExact
  <2>1. n \in asked[s] <=> InWriting(s, n)
    BY <1>1 DEF WritingExact
  <2>2. InSections(s, n, out') <=>
          (InSections(s, n, out) \/ (gen.scope = s /\ InSection(n, Section(gen))))
    BY <1>1, <1>2 DEF InSections
  <2>3. gen'.scope # s
    BY <1>1, <1>3, KrlAssumption
  <2> QED BY <1>1, <2>1, <2>2, <2>3 DEF InWriting
<1>7. GoodSections'
  BY <1>1, <1>2, <1>3 DEF GoodSections
<1>8. Parsing' /\ Resting' /\ MemoryExact' /\ FileExact' /\ OthersExact'
  BY <1>1 DEF Parsing, Resting, MemoryExact, FileExact, OthersExact
<1>9. Writing'
  BY <1>1, <1>3 DEF Writing
<1> QED BY <1>4, <1>5, <1>6, <1>7, <1>8, <1>9

\* What an entry adds to a section stands for the entry.
LEMMA ContentsExact ==
  ASSUME NEW r \in RevokedSerial, r.lo <= r.hi, NEW type \in Types, NEW base \in 1..MaxSerial, base <= r.lo
  PROVE  /\ Contents(type, base, r) \in SUBSET (0..MaxSerial)
         /\ type \in {"LIST", "RANGE"} => Contents(type, base, r) \subseteq Serials
         /\ type = "BITMAP" => \A n \in Contents(type, base, r) : base + n <= MaxSerial
         /\ type = "LIST" => \A n \in Serials : n \in Contents(type, base, r) <=> In(n, r)
         /\ type = "RANGE" => Contents(type, base, r) = {r.lo, r.hi}
         /\ type = "BITMAP" => \A n \in Serials : (n - base) \in Contents(type, base, r) <=> In(n, r)
<1>1. r.lo \in 1..MaxSerial /\ r.hi \in 1..MaxSerial
  BY DEF RevokedSerial
<1>2. CASE type = "LIST"
  BY <1>1, <1>2, KrlAssumption DEF Contents, In, Serials
<1>3. CASE type = "RANGE"
  BY <1>1, <1>3, KrlAssumption DEF Contents, In, Serials
<1>4. CASE type = "BITMAP"
  <2>1. Contents(type, base, r) = {n - base : n \in r.lo..r.hi}
    BY <1>4 DEF Contents
  <2>2. ASSUME NEW n \in Serials PROVE (n - base) \in Contents(type, base, r) <=> In(n, r)
    BY <1>1, <2>1, KrlAssumption DEF In, Serials
  <2> QED BY <1>1, <1>4, <2>1, <2>2, KrlAssumption
<1> QED BY <1>2, <1>3, <1>4 DEF Types

LEMMA GenerateEntryStep ==
  ASSUME IInv, NEW x \in left, GenerateEntry(x[1], x[2]) PROVE IInv'
<1> USE DEF IInv
<1> DEFINE s == x[1]
           r == x[2]
           Extended == /\ GoodSection(Section(gen')) /\ gen'.nums \in SUBSET (0..MaxSerial)
                       /\ \A n \in Serials :
                            InSection(n, Section(gen')) <=> (InSection(n, Section(gen)) \/ In(n, r))
           Done == /\ TypeOK' /\ GoodSections' /\ WritingExact' /\ gen'.base <= gen'.last
<1>1. x = <<s, r>> /\ s \in Scopes /\ r \in RevokedSerial /\ r \in serials[s] /\ r.lo <= r.hi
      /\ r.lo \in 1..MaxSerial /\ r.hi \in 1..MaxSerial
  <2>1. left \in SUBSET (Scopes \X RevokedSerial)
    BY DEF TypeOK
  <2>2. x \in Scopes \X RevokedSerial
    BY <2>1
  <2>3. x = <<s, r>> /\ s \in Scopes /\ r \in RevokedSerial
    BY <2>2
  <2>4. r \in serials[s]
    BY DEF Writing
  <2>5. r.lo <= r.hi
    BY <2>3, <2>4 DEF Ordered
  <2>6. r.lo \in 1..MaxSerial /\ r.hi \in 1..MaxSerial
    BY <2>3 DEF RevokedSerial
  <2> QED BY <2>3, <2>4, <2>5, <2>6
<1>2. PICK next \in Types :
        /\ gen' = [scope |-> s, state |-> next, last |-> r.hi, base |-> gen'.base, nums |-> gen'.nums]
        /\ \/ /\ gen'.base = r.lo /\ gen'.nums = Contents(next, r.lo, r)
              /\ out' = IF gen.state # "0" THEN out \cup {Section(gen)} ELSE out
           \/ /\ gen'.base = gen.base /\ gen'.nums = gen.nums \cup Contents(next, gen.base, r)
              /\ out' = out /\ next = gen.state /\ next # "RANGE"
  <2>1. \A c : ChooseNextState(c) \in Types
    BY DEF ChooseNextState, Types
  <2> QED BY <2>1 DEF GenerateEntry
<1>3. /\ pc = "gen" /\ gen.scope \in {None, s} /\ left' = left \ {x}
      /\ \A y \in left : y[1] = s /\ y[2] # r => r.lo < y[2].lo
      /\ UNCHANGED <<pc, serials, listed, rt, ers, at, todo, file, fstate, saved, failed, lines,
                     asked, others>>
  BY <1>1 DEF GenerateEntry, memory, insertion, disk, history
<1> HIDE DEF s, r
<1>4. gen.scope = None => gen.state = "0"
  BY DEF Writing, NoSection
<1>5. gen.scope # None => /\ gen.scope = s /\ gen.base <= gen.last /\ gen.last < r.lo
                          /\ gen.state \in Types /\ gen.state # "0"
  BY <1>1, <1>3, SectionBegun DEF Writing, s, r
<1>6. gen.base \in 0..MaxSerial /\ gen.last \in 0..MaxSerial /\ gen.nums \in SUBSET (0..MaxSerial)
  BY DEF TypeOK
<1>7. /\ gen'.scope = s /\ gen'.state = next /\ gen'.last = r.hi
      /\ Section(gen') = [scope |-> s, type |-> next, base |-> gen'.base, nums |-> gen'.nums]
  <2>1. gen'.scope = s /\ gen'.state = next /\ gen'.last = r.hi
    BY <1>2
  <2> QED BY <2>1 DEF Section
<1>8. ASSUME gen'.base \in 0..MaxSerial, gen'.nums \in SUBSET (0..MaxSerial), out' \in SUBSET Sections
      PROVE  TypeOK'
  <2>1. gen' \in [scope : Scopes \cup {None}, state : Types \cup {"0"}, last : 0..MaxSerial,
                  base : 0..MaxSerial, nums : SUBSET (0..MaxSerial)]
    BY <1>1, <1>2, <1>8
  <2>2. left' \in SUBSET (Scopes \X RevokedSerial)
    BY <1>3 DEF TypeOK
  <2> QED BY <1>3, <1>8, <2>1, <2>2 DEF TypeOK
\* A section stands for what it stood for and for the entry.
<1>9. ASSUME \A t \in Scopes, n \in Serials :
               ((gen'.scope = t /\ InSection(n, Section(gen'))) \/ InSections(t, n, out'))
                 <=> \/ gen.scope = t /\ InSection(n, Section(gen))
                     \/ InSections(t, n, out)
                     \/ s = t /\ In(n, r)
      PROVE  WritingExact'
  <2> SUFFICES ASSUME NEW t \in Scopes, NEW n \in Serials
               PROVE  n \in asked[t] <=> InWriting(t, n)'
    BY <1>3 DEF WritingExact
  <2>1. n \in asked[t] <=> InWriting(t, n)
    BY <1>3 DEF WritingExact
  <2>2. (\E y \in left : y[1] = t /\ In(n, y[2]))
          <=> ((\E y \in left' : y[1] = t /\ In(n, y[2])) \/ (s = t /\ In(n, r)))
    BY <1>3 DEF s, r
  <2> QED BY <1>9, <2>1, <2>2 DEF InWriting
<1>10. ASSUME gen'.base = r.lo, gen'.nums = Contents(next, r.lo, r),
              out' = IF gen.state # "0" THEN out \cup {Section(gen)} ELSE out
       PROVE  Done
  <2>1. /\ gen'.nums \in SUBSET (0..MaxSerial)
        /\ next \in {"LIST", "RANGE"} => gen'.nums \subseteq Serials
        /\ next = "BITMAP" => \A n \in gen'.nums : r.lo + n <= MaxSerial
        /\ next = "LIST" => \A n \in Serials : n \in gen'.nums <=> In(n, r)
        /\ next = "RANGE" => gen'.nums = {r.lo, r.hi}
        /\ next = "BITMAP" => \A n \in Serials : (n - r.lo) \in gen'.nums <=> In(n, r)
    <3>1. r.lo \in 1..MaxSerial /\ r.lo <= r.lo
      BY <1>1
    <3> QED BY <1>1, <1>10, <3>1, ContentsExact
  <2>2. /\ out' \in SUBSET Sections /\ \A y \in out' : GoodSection(y)
        /\ \A t \in Scopes, n \in Serials :
             InSections(t, n, out') <=>
               (InSections(t, n, out) \/ (gen.scope = t /\ InSection(n, Section(gen))))
    <3>1. CASE gen.scope = None
      BY <1>4, <1>10, <3>1, KrlAssumption DEF TypeOK, GoodSections
    <3>2. CASE gen.scope # None
      <4>1. Section(gen) \in Sections /\ GoodSection(Section(gen)) /\ Section(gen).scope = gen.scope
        BY <3>2, SectionBegun
      <4>2. out' = out \cup {Section(gen)}
        BY <1>5, <1>10, <3>2
      <4>3. out \in SUBSET Sections /\ \A y \in out : GoodSection(y)
        BY DEF TypeOK, GoodSections
      <4> QED BY <4>1, <4>2, <4>3 DEF InSections
    <3> QED BY <3>1, <3>2
  <2>3. \A n \in Serials : InSection(n, Section(gen')) <=> In(n, r)
    <3> SUFFICES ASSUME NEW n \in Serials PROVE InSection(n, Section(gen')) <=> In(n, r)
      OBVIOUS
    <3>1. CASE next = "LIST"
      BY <1>7, <2>1, <3>1 DEF InSection
    <3>2. CASE next = "RANGE"
      BY <1>1, <1>7, <2>1, <3>2, KrlAssumption DEF InSection, In, Serials
    <3>3. CASE next = "BITMAP"
      BY <1>7, <1>10, <2>1, <3>3 DEF InSection
    <3> QED BY <1>2, <3>1, <3>2, <3>3 DEF Types
  <2>4. WritingExact'
    BY <1>7, <1>9, <2>2, <2>3
  <2>5. GoodSection(Section(gen'))
    BY <1>1, <1>7, <1>10, <2>1 DEF GoodSection
  <2>6. GoodSections'
    BY <1>3, <2>2, <2>5 DEF GoodSections
  <2>7. r.lo \in 0..MaxSerial
    BY <1>1
  <2>8. TypeOK'
    BY <1>8, <1>10, <2>1, <2>2, <2>7
  <2> QED BY <1>1, <1>7, <1>10, <2>4, <2>6, <2>8
<1>11. ASSUME gen'.base = gen.base, gen'.nums = gen.nums \cup Contents(next, gen.base, r),
              out' = out, next = gen.state, next # "RANGE"
       PROVE  Done
  <2>1. gen.scope = s /\ gen.base <= gen.last /\ gen.last < r.lo
    <3>1. next # "0"
      BY <1>2 DEF Types
    <3> QED BY <1>4, <1>5, <1>11, <3>1
  <2>2. GoodSection(Section(gen)) /\ Section(gen) = [scope |-> s, type |-> next, base |-> gen.base,
                                                      nums |-> gen.nums]
    <3>1. s # None
      BY <1>1, KrlAssumption
    <3> QED BY <1>11, <2>1, <3>1, SectionBegun DEF Section
  <2>3. ASSUME next = "LIST" PROVE Extended
    <3>1. Contents(next, gen.base, r) = r.lo..r.hi
      BY <2>3 DEF Contents
    <3>2. gen.nums \subseteq Serials
      BY <2>2, <2>3 DEF GoodSection
    <3>3. r.lo..r.hi \subseteq Serials /\ r.lo..r.hi \subseteq 0..MaxSerial
      BY <1>1, KrlAssumption DEF Serials
    <3>4. GoodSection(Section(gen'))
      <4>1. Section(gen').type = "LIST" /\ Section(gen').nums = gen'.nums
        BY <1>7, <2>3
      <4>2. gen'.nums \subseteq Serials
        BY <1>11, <3>1, <3>2, <3>3
      <4> QED BY <4>1, <4>2 DEF GoodSection
    <3>5. \A n \in Serials : InSection(n, Section(gen')) <=> (InSection(n, Section(gen)) \/ In(n, r))
      BY <1>1, <1>7, <1>11, <2>2, <2>3, <3>1 DEF InSection, In, Serials
    <3>6. gen'.nums \in SUBSET (0..MaxSerial)
      BY <1>6, <1>11, <3>1, <3>3
    <3> QED BY <3>4, <3>5, <3>6
  <2>4. ASSUME next = "BITMAP" PROVE Extended
    <3>1. gen.base # 0 /\ \A n \in gen.nums : gen.base + n <= MaxSerial
      BY <2>2, <2>4 DEF GoodSection
    <3>2. gen.base \in 1..MaxSerial /\ gen.base <= r.lo
      BY <1>1, <1>6, <2>1, <3>1, KrlAssumption
    <3>3. /\ Contents(next, gen.base, r) \in SUBSET (0..MaxSerial)
          /\ \A n \in Contents(next, gen.base, r) : gen.base + n <= MaxSerial
          /\ \A n \in Serials : (n - gen.base) \in Contents(next, gen.base, r) <=> In(n, r)
      BY <1>1, <2>4, <3>2, ContentsExact
    <3>4. GoodSection(Section(gen'))
      BY <1>7, <1>11, <2>4, <3>1, <3>3 DEF GoodSection
    <3>5. \A n \in Serials : InSection(n, Section(gen')) <=> (InSection(n, Section(gen)) \/ In(n, r))
      BY <1>7, <1>11, <2>2, <2>4, <3>3 DEF InSection
    <3>6. gen'.nums \in SUBSET (0..MaxSerial)
      BY <1>6, <1>11, <3>3
    <3> QED BY <3>4, <3>5, <3>6
  <2>5. Extended
    BY <1>2, <1>11, <2>3, <2>4 DEF Types
  <2>6. WritingExact'
    BY <1>7, <1>9, <1>11, <2>1, <2>5
  <2>7. GoodSections'
    BY <1>3, <1>11, <2>5 DEF GoodSections
  <2>8. out \in SUBSET Sections
    BY DEF TypeOK
  <2>9. TypeOK'
    BY <1>6, <1>8, <1>11, <2>5, <2>8
  <2>10. gen'.base <= gen'.last
    BY <1>1, <1>6, <1>7, <1>11, <2>1
  <2> QED BY <2>6, <2>7, <2>9, <2>10
<1>12. Done
  BY <1>2, <1>10, <1>11
<1>13. Writing'
  <2>1. ASSUME NEW y \in left', y[1] = s PROVE r.hi < y[2].lo
    <3>1. y \in left /\ y # x /\ left \in SUBSET (Scopes \X RevokedSerial)
      BY <1>3, <2>1 DEF TypeOK
    <3>2. y = <<y[1], y[2]>> /\ y[2] \in RevokedSerial
      BY <3>1
    <3>3. y[2] # r
      BY <1>1, <2>1, <3>1, <3>2
    <3>4. r.lo < y[2].lo
      BY <1>3, <2>1, <3>1, <3>3
    <3>5. y[2] \in serials[s]
      BY <2>1, <3>1 DEF Writing
    <3>6. r.hi + 1 < y[2].lo \/ y[2].hi + 1 < r.lo
      BY <1>1, <3>3, <3>5 DEF Canonical
    <3>7. y[2].lo <= y[2].hi
      BY <1>1, <3>5 DEF Ordered
    <3>8. y[2].lo \in 1..MaxSerial /\ y[2].hi \in 1..MaxSerial
      BY <3>2 DEF RevokedSerial
    <3> QED BY <1>1, <3>4, <3>6, <3>7, <3>8
  <2>2. gen'.scope # None /\ gen'.state # "0"
    BY <1>1, <1>2, <1>7, KrlAssumption DEF Types
  <2>3. \A y \in left' : y[2] \in serials[y[1]]
    BY <1>3 DEF Writing
  <2> QED BY <1>3, <1>7, <1>12, <2>1, <2>2, <2>3 DEF Writing
<1>14. Canonical' /\ Ordered' /\ Insertion'
  BY <1>3 DEF Canonical, Ordered, Insertion, Inserting
<1>15. Parsing' /\ Resting' /\ MemoryExact' /\ FileExact' /\ OthersExact'
  BY <1>3 DEF Parsing, Resting, MemoryExact, FileExact, OthersExact
<1> QED BY <1>12, <1>13, <1>14, <1>15

LEMMA TruncateStep ==
  ASSUME IInv, Truncate PROVE IInv'
<1> USE DEF IInv
<1>1. /\ pc = "gen" /\ left = {} /\ gen.scope = None /\ pc' = "write" /\ fstate' = "empty"
      /\ UNCHANGED <<serials, listed, rt, ers, at, todo, left, gen, out, file, saved, failed,
                     lines, asked, others>>
  BY DEF Truncate, memory, insertion, writing, history
<1>2. TypeOK'
  BY <1>1 DEF TypeOK
<1>3. Canonical' /\ Ordered' /\ Insertion'
  BY <1>1 DEF Canonical, Ordered, Insertion, Inserting
<1>4. WritingExact'
  BY <1>1 DEF WritingExact, InWriting
<1>5. GoodSections' /\ Parsing' /\ Resting' /\ MemoryExact' /\ FileExact' /\ OthersExact'
  BY <1>1 DEF GoodSections, Parsing, Resting, MemoryExact, FileExact, OthersExact
<1>6. Writing'
  BY <1>1 DEF Writing
<1> QED BY <1>2, <1>3, <1>4, <1>5, <1>6

LEMMA WriteFileStep ==
  ASSUME IInv, WriteFile PROVE IInv'
<1> USE DEF IInv
<1>1. /\ pc = "write" /\ pc' = "idle" /\ failed' = "no"
      /\ file' = [sections |-> out, listed |-> listed] /\ fstate' = "whole"
      /\ saved' = [serials |-> asked, others |-> others]
      /\ serials' = NoSerials /\ listed' = NoneListed /\ asked' = NoSerials /\ others' = NoOthers
      /\ out' = {}
      /\ UNCHANGED <<rt, ers, at, todo, left, gen, lines>>
  BY DEF WriteFile, Forget, insertion
<1>2. left = {} /\ gen = NoSection /\ gen.scope = None /\ todo = {}
  BY <1>1 DEF Writing, Parsing, NoSection
<1>3. TypeOK'
  <2>1. /\ NoSerials \in [Scopes -> SUBSET RevokedSerial] /\ NoSerials \in Numbers
        /\ NoneListed \in Listed /\ NoOthers \in Others
    BY DEF NoSerials, NoneListed, NoOthers, Numbers, Listed, Others
  <2> QED BY <1>1, <2>1 DEF TypeOK
<1>4. Canonical' /\ Ordered' /\ Resting'
  BY <1>1 DEF Canonical, Ordered, Resting, NoSerials
<1>5. Insertion' /\ Parsing' /\ Writing' /\ WritingExact'
  BY <1>1, <1>2 DEF Insertion, Inserting, Parsing, Writing, WritingExact
<1>6. GoodSections'
  BY <1>1, <1>2 DEF GoodSections
<1>7. MemoryExact'
  BY <1>1, <1>2 DEF MemoryExact, InMemory, Inserting, InSections, NoSerials
<1>8. FileExact'
  <2>1. ASSUME NEW s \in Scopes, NEW n \in Serials
        PROVE  n \in asked[s] <=> InSections(s, n, out)
    <3>1. n \in asked[s] <=> InWriting(s, n)
      BY <1>1 DEF WritingExact
    <3>2. gen.scope # s
      BY <1>2, KrlAssumption
    <3> QED BY <1>2, <3>1, <3>2 DEF InWriting
  <2>2. SameOthers(listed, others)
    BY DEF OthersExact
  <2> QED BY <1>1, <2>1, <2>2 DEF FileExact
<1>9. OthersExact'
  BY <1>1 DEF OthersExact, SameOthers, NoneListed, NoOthers
<1> QED BY <1>3, <1>4, <1>5, <1>6, <1>7, <1>8, <1>9

-----------------------------------------------------------------------------
(***************************************************************************)
(* Reading a list.                                                         *)
(***************************************************************************)
\* A section stands for the range that is read next and for what is left of it,
\* and the range is one that ssh_krl_revoke_cert_by_serial_range() takes.
LEMMA SectionSplit ==
  ASSUME NEW x \in Sections, GoodSection(x), NEW n \in x.nums, NEW m \in x.nums,
         \A i \in x.nums : n <= i /\ i <= m
  PROVE  /\ NextOf(x, n, m) \in [lo : 0..MaxSerial, hi : 0..MaxSerial]
         /\ ~Invalid(NextOf(x, n, m))
         /\ \A y \in RestOf(x, n) : y \in Sections /\ GoodSection(y) /\ y.scope = x.scope
         /\ \A k \in Serials : InSection(k, x) <=> \/ In(k, NextOf(x, n, m))
                                                   \/ \E y \in RestOf(x, n) : InSection(k, y)
<1>1. /\ x.scope \in Scopes /\ x.type \in Types /\ x.base \in Nat /\ x.nums \in SUBSET (0..MaxSerial)
      /\ n \in 0..MaxSerial /\ m \in 0..MaxSerial /\ n <= m
  BY DEF Sections
<1> DEFINE rest == x.nums \ {n}
           y == [scope |-> x.scope, type |-> x.type, base |-> x.base, nums |-> rest]
<1>2. y \in Sections
  BY <1>1 DEF Sections
<1>3. y.scope = x.scope /\ y.type = x.type /\ y.base = x.base /\ y.nums = rest
  OBVIOUS
<1>4. GoodSection(y)
  BY <1>3 DEF GoodSection
<1>5. RestOf(x, n) = IF x.type = "RANGE" \/ rest = {} THEN {} ELSE {y}
  BY DEF RestOf
<1> HIDE DEF y
<1>6. \A z \in RestOf(x, n) : z \in Sections /\ GoodSection(z) /\ z.scope = x.scope
  BY <1>2, <1>3, <1>4, <1>5
<1> DEFINE Split == /\ NextOf(x, n, m) \in [lo : 0..MaxSerial, hi : 0..MaxSerial]
                    /\ ~Invalid(NextOf(x, n, m))
                    /\ \A k \in Serials : InSection(k, x) <=> \/ In(k, NextOf(x, n, m))
                                                              \/ \E z \in RestOf(x, n) : InSection(k, z)
<1>7. ASSUME x.type = "LIST" PROVE Split
  <2>1. NextOf(x, n, m) = [lo |-> n, hi |-> n] /\ n # 0
    BY <1>7, KrlAssumption DEF NextOf, GoodSection, Serials
  <2>2. ASSUME NEW k \in Serials PROVE InSection(k, x) <=> \/ In(k, NextOf(x, n, m))
                                                           \/ \E z \in RestOf(x, n) : InSection(k, z)
    <3>1. InSection(k, x) <=> k \in x.nums
      BY <1>7 DEF InSection
    <3>2. InSection(k, y) <=> k \in rest
      BY <1>3, <1>7 DEF InSection
    <3>3. In(k, NextOf(x, n, m)) <=> k = n
      BY <1>1, <2>1, KrlAssumption DEF In, Serials
    <3>4. (\E z \in RestOf(x, n) : InSection(k, z)) <=> k \in rest
      BY <1>5, <1>7, <3>2
    <3> QED BY <3>1, <3>3, <3>4
  <2> QED BY <1>1, <2>1, <2>2 DEF Invalid
<1>8. ASSUME x.type = "RANGE" PROVE Split
  <2>1. NextOf(x, n, m) = [lo |-> n, hi |-> m] /\ n # 0
    BY <1>8, KrlAssumption DEF NextOf, GoodSection, Serials
  <2>2. ASSUME NEW k \in Serials PROVE InSection(k, x) <=> \/ In(k, NextOf(x, n, m))
                                                           \/ \E z \in RestOf(x, n) : InSection(k, z)
    <3>1. InSection(k, x) <=> \E a, b \in x.nums : a <= k /\ k <= b
      BY <1>8 DEF InSection
    <3>2. \A a, b \in x.nums : a <= k /\ k <= b => n <= k /\ k <= m
      BY <1>1, KrlAssumption DEF Serials
    <3>3. In(k, NextOf(x, n, m)) <=> n <= k /\ k <= m
      BY <2>1 DEF In
    <3> QED BY <1>5, <1>8, <3>1, <3>2, <3>3
  <2>3. ~Invalid(NextOf(x, n, m))
    BY <1>1, <2>1, KrlAssumption DEF Invalid
  <2> QED BY <1>1, <2>1, <2>2, <2>3
<1>9. ASSUME x.type = "BITMAP" PROVE Split
  <2>1. /\ NextOf(x, n, m) = [lo |-> x.base + n, hi |-> x.base + n]
        /\ x.base # 0 /\ x.base + n <= MaxSerial
    BY <1>9 DEF NextOf, GoodSection
  <2>2. x.base + n \in 0..MaxSerial /\ x.base + n # 0
    BY <1>1, <2>1, KrlAssumption
  <2>3. ASSUME NEW k \in Serials PROVE InSection(k, x) <=> \/ In(k, NextOf(x, n, m))
                                                           \/ \E z \in RestOf(x, n) : InSection(k, z)
    <3>1. InSection(k, x) <=> (k - x.base) \in x.nums
      BY <1>9 DEF InSection
    <3>2. InSection(k, y) <=> (k - x.base) \in rest
      BY <1>3, <1>9 DEF InSection
    <3>3. In(k, NextOf(x, n, m)) <=> k - x.base = n
      BY <1>1, <2>1, <2>2, KrlAssumption DEF In, Serials
    <3>4. (\E z \in RestOf(x, n) : InSection(k, z)) <=> (k - x.base) \in rest
      BY <1>5, <1>9, <3>2
    <3> QED BY <3>1, <3>3, <3>4
  <2>4. ~Invalid(NextOf(x, n, m))
    BY <2>1, <2>2 DEF Invalid
  <2> QED BY <2>1, <2>2, <2>3, <2>4
<1>10. Split
  BY <1>1, <1>7, <1>8, <1>9 DEF Types
<1> QED BY <1>6, <1>10

LEMMA ParseStepStep ==
  ASSUME IInv, NEW x \in todo, ParseStep(x) PROVE IInv'
<1> USE DEF IInv
<1>1. PICK n \in x.nums, m \in x.nums :
        /\ \A i \in x.nums : n <= i /\ i <= m
        /\ Insert(x.scope, NextOf(x, n, m))
        /\ todo' = (todo \ {x}) \cup RestOf(x, n)
  BY DEF ParseStep
<1>2. /\ pc = "parse"
      /\ UNCHANGED <<listed, left, gen, out, file, fstate, saved, failed, lines, asked, others>>
  BY DEF ParseStep, writing, disk, history
<1>3. todo \in SUBSET Sections /\ x \in Sections /\ x.scope \in Scopes /\ GoodSection(x)
  BY DEF TypeOK, GoodSections, Sections
<1>4. /\ NextOf(x, n, m) \in [lo : 0..MaxSerial, hi : 0..MaxSerial]
      /\ \A y \in RestOf(x, n) : y \in Sections /\ GoodSection(y) /\ y.scope = x.scope
      /\ \A k \in Serials : InSection(k, x) <=> \/ In(k, NextOf(x, n, m))
                                                \/ \E y \in RestOf(x, n) : InSection(k, y)
  BY <1>1, <1>3, SectionSplit
<1> DEFINE r == NextOf(x, n, m)
           s == x.scope
<1> HIDE DEF r, s
<1>5. s \in Scopes /\ r \in [lo : 0..MaxSerial, hi : 0..MaxSerial] /\ Insert(s, r)
  BY <1>1, <1>3, <1>4 DEF r, s
<1>6. /\ pc' = "pred" /\ rt' = s
      /\ serials' \in [Scopes -> SUBSET RevokedSerial] /\ ers' \in RevokedSerial /\ at' \in 1..MaxSerial
      /\ Canonical' /\ Ordered' /\ Insertion'
      /\ \A t \in Scopes, k \in Serials :
           ((\E q \in serials'[t] : In(k, q)) \/ (t = s /\ In(k, ers')))
             <=> ((\E q \in serials[t] : In(k, q)) \/ (t = s /\ In(k, r)))
  BY <1>5, InsertStarts
<1>7. TypeOK'
  <2>1. todo' \in SUBSET Sections
    BY <1>1, <1>3, <1>4
  <2>2. rt' \in Scopes \cup {None} /\ pc' = "pred"
    BY <1>5, <1>6
  <2>3. serials' \in [Scopes -> SUBSET RevokedSerial] /\ ers' \in RevokedSerial /\ at' \in 1..MaxSerial
    BY <1>6
  <2> QED BY <1>2, <2>1, <2>2, <2>3 DEF TypeOK
<1>8. GoodSections'
  BY <1>1, <1>2, <1>4 DEF GoodSections
<1>9. MemoryExact'
  <2> SUFFICES ASSUME NEW t \in Scopes, NEW k \in Serials
               PROVE  k \in asked[t] <=> InMemory(t, k)'
    BY <1>2 DEF MemoryExact
  <2>1. k \in asked[t] <=> ((\E q \in serials[t] : In(k, q)) \/ InSections(t, k, todo))
    BY <1>2 DEF MemoryExact, InMemory, Inserting
  <2>2. (InSections(t, k, todo') \/ (t = s /\ In(k, r))) <=> InSections(t, k, todo)
    BY <1>1, <1>4 DEF InSections, r, s
  <2>3. InMemory(t, k)' <=> \/ \E q \in serials'[t] : In(k, q)
                            \/ t = s /\ In(k, ers')
                            \/ InSections(t, k, todo')
    BY <1>6 DEF InMemory, Inserting
  <2> QED BY <1>6, <2>1, <2>2, <2>3
<1>10. Parsing' /\ Resting' /\ WritingExact' /\ FileExact' /\ OthersExact'
  BY <1>2, <1>6 DEF Parsing, Resting, WritingExact, FileExact, OthersExact
<1>11. Writing'
  BY <1>2, <1>6 DEF Writing
<1> QED BY <1>6, <1>7, <1>8, <1>9, <1>10, <1>11

LEMMA ParseFailsStep ==
  ASSUME IInv, NEW x \in todo, ParseFails(x) PROVE IInv'
<1> USE DEF IInv
<1>1. /\ pc = "parse" /\ pc' = "idle" /\ todo' = {}
      /\ serials' = NoSerials /\ listed' = NoneListed /\ asked' = NoSerials /\ others' = NoOthers
      /\ UNCHANGED <<rt, ers, at, left, gen, out, file, fstate, saved, lines>>
  BY DEF ParseFails, Forget, insertion, writing, disk
<1>2. x \in Sections /\ GoodSection(x) /\ x.type \in Types
  BY DEF TypeOK, GoodSections, Sections
<1>3. ~Wraps(x)
  BY <1>2, KrlAssumption DEF Wraps, GoodSection, Sections
<1>4. ~Unreadable(x)
  BY <1>2, SectionSplit DEF Unreadable
<1>5. failed' = "bignum is too large"
  BY <1>3, <1>4 DEF ParseFails
<1>6. TypeOK'
  <2>1. /\ NoSerials \in [Scopes -> SUBSET RevokedSerial] /\ NoSerials \in Numbers
        /\ NoneListed \in Listed /\ NoOthers \in Others
    BY DEF NoSerials, NoneListed, NoOthers, Numbers, Listed, Others
  <2> QED BY <1>1, <1>5, <2>1 DEF TypeOK
<1>7. Canonical' /\ Ordered' /\ Resting'
  BY <1>1 DEF Canonical, Ordered, Resting, NoSerials
<1>8. Insertion' /\ Parsing' /\ Writing' /\ WritingExact'
  BY <1>1, <1>5 DEF Insertion, Inserting, Parsing, Writing, WritingExact
<1>9. GoodSections' /\ FileExact'
  BY <1>1 DEF GoodSections, FileExact
<1>10. MemoryExact'
  BY <1>1 DEF MemoryExact, InMemory, Inserting, InSections, NoSerials
<1>11. OthersExact'
  BY <1>1 DEF OthersExact, SameOthers, NoneListed, NoOthers
<1> QED BY <1>6, <1>7, <1>8, <1>9, <1>10, <1>11

-----------------------------------------------------------------------------
LEMMA StutterStep ==
  ASSUME IInv, UNCHANGED vars PROVE IInv'
<1>1. UNCHANGED <<pc, serials, listed, rt, ers, at, todo, left, gen, out, file, fstate, saved, failed,
                  lines, asked, others>>
  BY DEF vars, memory, insertion, writing, disk, history
<1>2. Canonical' /\ Ordered' /\ Insertion' /\ GoodSections'
  BY <1>1 DEF IInv, Canonical, Ordered, Insertion, Inserting, GoodSections
<1>3. Writing'
  BY <1>1 DEF IInv, Writing
<1>4. MemoryExact' /\ WritingExact'
  BY <1>1 DEF IInv, MemoryExact, InMemory, Inserting, WritingExact, InWriting
<1>5. Parsing' /\ Resting' /\ FileExact' /\ OthersExact'
  BY <1>1 DEF IInv, Parsing, Resting, FileExact, OthersExact
<1>6. TypeOK
  BY DEF IInv
<1>7. TypeOK'
  BY <1>1, <1>6 DEF TypeOK
<1> QED BY <1>2, <1>3, <1>4, <1>5, <1>7 DEF IInv

LEMMA IInvStep == IInv /\ [Next]_vars => IInv'
<1> SUFFICES ASSUME IInv, [Next]_vars PROVE IInv'
  OBVIOUS
<1>1. CASE NewList \/ LoadList \/ LoadRefused \/ Exit
  BY <1>1, NewListStep, LoadListStep, LoadRefusedStep, ExitStep
<1>2. CASE \E s \in Scopes : \E r \in Requests : SerialLine(s, r)
  BY <1>2, SerialLineStep
<1>3. CASE \E s \in Scopes, i \in KeyIds : IdLine(s, i)
  BY <1>3, IdLineStep
<1>4. CASE \E k \in Keys, how \in {"key", "sha1"} : KeyLine(k, how)
  BY <1>4, KeyLineStep
<1>5. CASE MergePred \/ PredsDone \/ MergeSucc \/ SuccsDone
  BY <1>5, MergePredStep, PredsDoneStep, MergeSuccStep, SuccsDoneStep
<1>6. CASE StartGenerate \/ Flush \/ Truncate \/ WriteFile
  BY <1>6, StartGenerateStep, FlushStep, TruncateStep, WriteFileStep
<1>7. CASE \E x \in left : GenerateEntry(x[1], x[2])
  BY <1>7, GenerateEntryStep
<1>8. CASE \E x \in todo : ParseStep(x) \/ ParseFails(x)
  BY <1>8, ParseStepStep, ParseFailsStep
<1>9. CASE UNCHANGED vars
  BY <1>9, StutterStep
<1> QED BY <1>1, <1>2, <1>3, <1>4, <1>5, <1>6, <1>7, <1>8, <1>9 DEF Next

\* The invariant answers the question of ssh_krl_check_key().
LEMMA CheckFollows == IInv => CheckExact
<1> SUFFICES ASSUME IInv, pc = "lines", NEW c \in Certs
             PROVE  CheckKey(c) <=>
                      \/ c.key \in others.keys \/ c.ca \in others.keys
                      \/ \E s \in {c.ca, Wild} : \/ c.key_id \in others.key_ids[s]
                                                 \/ c.serial \in asked[s]
  BY DEF CheckExact
<1>1. /\ c.ca \in Scopes /\ Wild \in Scopes /\ c.serial \in 0..MaxSerial
      /\ asked \in Numbers /\ todo = {}
  BY DEF IInv, TypeOK, Certs, Scopes, Parsing
<1>2. listed.key_ids = others.key_ids /\ listed.revoked_keys \cup listed.revoked_sha1s = others.keys
  BY DEF IInv, OthersExact, SameOthers
<1>3. ASSUME NEW s \in Scopes
      PROVE  (c.serial # 0 /\ \E e \in serials[s] : e.lo <= c.serial /\ c.serial <= e.hi)
               <=> c.serial \in asked[s]
  <2>1. CASE c.serial = 0
    BY <1>1, <2>1, KrlAssumption DEF Numbers
  <2>2. CASE c.serial # 0
    <3>1. c.serial \in Serials
      BY <1>1, <2>2, KrlAssumption DEF Serials
    <3>2. c.serial \in asked[s] <=> InMemory(s, c.serial)
      BY <3>1 DEF IInv, MemoryExact
    <3> QED BY <1>1, <2>2, <3>2 DEF InMemory, Inserting, InSections, In
  <2> QED BY <2>1, <2>2
<1>4. ASSUME NEW s \in Scopes
      PROVE  IsCertRevoked(c, s) <=> (c.key_id \in others.key_ids[s] \/ c.serial \in asked[s])
  BY <1>2, <1>3 DEF IsCertRevoked
<1>5. \A k : PlainKeyRevoked(k) <=> k \in others.keys
  BY <1>2 DEF PlainKeyRevoked
<1> QED BY <1>1, <1>4, <1>5 DEF CheckKey

LEMMA IInvHolds == Spec => []IInv
<1> QED BY InitStep, IInvStep, PTL DEF Spec

\* Every variable of krl.c and ssh-keygen.c keeps its type.
THEOREM KrlTypeCorrect == Spec => []TypeOK
<1>1. IInv => TypeOK
  BY DEF IInv
<1> QED BY <1>1, IInvHolds, PTL

\* insert_serial_range() leaves ranges that neither overlap nor abut, whichever
\* overlapping range the search of the tree finds first.
THEOREM RangesCanonical == Spec => []Canonical
<1>1. IInv => Canonical
  BY DEF IInv
<1> QED BY <1>1, IInvHolds, PTL

\* A list that was made, written and read any number of times revokes exactly
\* the keys and certificates that were asked for.
THEOREM RevocationExact == Spec => []CheckExact
<1> QED BY CheckFollows, IInvHolds, PTL

-----------------------------------------------------------------------------
(***************************************************************************)
(* What is left to be parsed is left of a section of the file.             *)
(***************************************************************************)
LeftOf(x, y) == x.type = y.type /\ x.nums \subseteq y.nums
Remains == \A x \in todo : \E y \in file.sections : LeftOf(x, y)
LInv == Remains /\ LoadsBack

LEMMA SameLoad ==
  ASSUME LInv, UNCHANGED <<todo, file, failed>> PROVE LInv'
BY DEF LInv, Remains, LoadsBack

LEMMA NothingLeft ==
  ASSUME todo' = {}, failed' = "no" \/ Outgrown(file)' PROVE LInv'
BY DEF LInv, Remains, LoadsBack

LEMMA LInvParseStep ==
  ASSUME LInv, NEW x \in todo, ParseStep(x) PROVE LInv'
<1>1. PICK n, m \in x.nums : todo' = (todo \ {x}) \cup RestOf(x, n)
  BY DEF ParseStep
<1>2. UNCHANGED <<file, failed>>
  BY DEF ParseStep, disk
<1>3. PICK y \in file.sections : LeftOf(x, y)
  BY DEF LInv, Remains
<1>4. \A z \in RestOf(x, n) : LeftOf(z, y)
  BY <1>3 DEF RestOf, LeftOf
<1>5. Remains'
  BY <1>1, <1>2, <1>3, <1>4 DEF LInv, Remains
<1> QED BY <1>2, <1>5 DEF LInv, LoadsBack

LEMMA LInvParseFails ==
  ASSUME IInv, LInv, NEW x \in todo, ParseFails(x) PROVE LInv'
<1>1. todo' = {} /\ file' = file
  BY DEF ParseFails, disk
<1>2. x \in Sections /\ GoodSection(x)
  BY DEF IInv, TypeOK, GoodSections
<1>3. ~Wraps(x)
  BY <1>2, KrlAssumption DEF Wraps, GoodSection, Sections
<1>4. ~Unreadable(x)
  BY <1>2, SectionSplit DEF Unreadable, Sections
<1>5. TooLarge(x)
  BY <1>3, <1>4 DEF ParseFails
<1>6. PICK y \in file.sections : LeftOf(x, y)
  BY DEF LInv, Remains
<1>7. TooLarge(y)
  BY <1>5, <1>6 DEF LeftOf, TooLarge
<1>8. Outgrown(file)
  BY <1>6, <1>7 DEF Outgrown
<1>9. Outgrown(file)'
  BY <1>1, <1>8 DEF Outgrown
<1> QED BY <1>1, <1>9, NothingLeft

LEMMA LInvStep == IInv /\ LInv /\ [Next]_vars => LInv'
<1> SUFFICES ASSUME IInv, LInv, [Next]_vars PROVE LInv'
  OBVIOUS
<1>1. CASE NewList
  BY <1>1, SameLoad DEF NewList, disk
<1>2. CASE LoadList
  <2>1. todo' = file.sections /\ UNCHANGED <<file, failed>>
    BY <1>2 DEF LoadList, disk
  <2> QED BY <2>1 DEF LInv, Remains, LoadsBack, LeftOf
<1>3. CASE LoadRefused
  <2>1. todo' = todo /\ file' = file /\ Size(file) > MaxFile
    BY <1>3 DEF LoadRefused, disk
  <2>2. Outgrown(file)
    BY <2>1 DEF Outgrown
  <2> QED BY <2>1, <2>2 DEF LInv, Remains, LoadsBack
<1>4. CASE Exit
  <2>1. todo' = {} /\ UNCHANGED <<file, failed>>
    BY <1>4 DEF Exit, disk
  <2> QED BY <2>1 DEF LInv, Remains, LoadsBack
<1>5. CASE \E s \in Scopes : \E r \in Requests : SerialLine(s, r)
  BY <1>5, SameLoad DEF SerialLine, disk
<1>6. CASE \E s \in Scopes, i \in KeyIds : IdLine(s, i)
  BY <1>6, SameLoad DEF IdLine, disk
<1>7. CASE \E k \in Keys, how \in {"key", "sha1"} : KeyLine(k, how)
  BY <1>7, SameLoad DEF KeyLine, disk
<1>8. CASE MergePred \/ PredsDone \/ MergeSucc \/ SuccsDone
  BY <1>8, SameLoad DEF MergePred, PredsDone, MergeSucc, SuccsDone, disk
<1>9. CASE StartGenerate \/ Flush \/ Truncate
  BY <1>9, SameLoad DEF StartGenerate, Flush, Truncate, disk
<1>10. CASE WriteFile
  <2>1. todo = {}
    BY <1>10 DEF WriteFile, IInv, Parsing
  <2> QED BY <1>10, <2>1, NothingLeft DEF WriteFile
<1>11. CASE \E x \in left : GenerateEntry(x[1], x[2])
  BY <1>11, SameLoad DEF GenerateEntry, disk
<1>12. CASE \E x \in todo : ParseStep(x) \/ ParseFails(x)
  BY <1>12, LInvParseStep, LInvParseFails
<1>13. CASE UNCHANGED vars
  BY <1>13, SameLoad DEF vars, disk
<1> QED BY <1>1, <1>2, <1>3, <1>4, <1>5, <1>6, <1>7, <1>8, <1>9, <1>10, <1>11, <1>12, <1>13 DEF Next

\* Every list that ssh-keygen wrote can be read, unless the file is longer than
\* sshkey_load_file() takes or a bitmap longer than a big number may be:
\* parse_revoked_certs() refuses no other section that revoked_certs_generate()
\* wrote.
THEOREM ListsLoadBack == Spec => []LoadsBack
<1>1. Init => LInv
  BY DEF Init, LInv, Remains, LoadsBack
<1>2. LInv => LoadsBack
  BY DEF LInv
<1> QED BY <1>1, <1>2, IInvHolds, LInvStep, PTL DEF Spec
=============================================================================
