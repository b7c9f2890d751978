-------------------------------- MODULE Krl --------------------------------
(***************************************************************************)
(* Key revocation lists (krl.c, bitmap.c) and the ssh-keygen runs that     *)
(* make, update and query them (ssh-keygen.c).                             *)
(*                                                                         *)
(* A list in memory keeps, for each CA and for the wildcard CA, a tree of  *)
(* ranges of serial numbers.  insert_serial_range() searches the tree with *)
(* a comparison that calls overlapping ranges equal, so the tree works     *)
(* only while its ranges are disjoint; what it finds may be any of the     *)
(* ranges that overlap the new one.  revoked_certs_generate() writes the   *)
(* tree as list, range and bitmap sections, whichever it estimates to be   *)
(* shorter, and parse_revoked_certs() builds a tree again by inserting     *)
(* what it reads.  The loops of all three are steps here, one iteration    *)
(* each.  Signed lists are left out: no caller makes or checks them.       *)
(***************************************************************************)
EXTENDS Integers, FiniteSets, FiniteSetsExt

CONSTANTS MaxSerial,   \* 2^64 - 1
          MaxBitmap,   \* 8 * SSHBUF_MAX_BIGNUM, the bits a bitmap may be read with
          MaxFile,     \* MAX_KEY_FILE_SIZE, the bytes a file may be read with
          Length,      \* bytes of a key blob, a key ID and the comment
          Keys,        \* plain public keys
          CAs,         \* those that sign certificates
          Wild,        \* the scope of a section without CA key
          KeyIds,
          None,
          Requests,    \* the ranges that lines of specifications name
          MaxLines     \* bound: lines over all runs

Scopes == CAs \cup {Wild}
RevokedSerial == [lo : 1..MaxSerial, hi : 1..MaxSerial]

ASSUME KrlAssumption ==
  /\ MaxSerial \in Nat \ {0} /\ MaxBitmap \in Nat /\ MaxLines \in Nat
  /\ MaxFile \in Nat /\ Length \in [key : Nat, key_id : Nat, comment : Nat]
  /\ CAs \subseteq Keys /\ Wild \notin CAs /\ None \notin Scopes
  /\ Requests \subseteq [lo : 0..MaxSerial, hi : 0..MaxSerial]

VARIABLES
  pc,       \* what the running ssh-keygen does: "idle" when none runs
  serials,  \* the list in memory: the trees of serial numbers,
  listed,   \* and key IDs, keys and hashes
  rt,       \* insert_serial_range: the tree,
  ers,      \* the range that grows,
  at,       \* and its place in the order of the tree
  todo,     \* sections still to be parsed
  left,     \* entries still to be written
  gen,      \* the section that is being written
  out,      \* the sections that are written
  file,     \* the list on disk,
  fstate,   \* which is missing, truncated or whole
  failed,   \* why a list could not be read
  lines,    \* number of lines read
  asked,    \* history: the serial numbers that the list in memory stands for,
  others,   \* and the key IDs and keys
  saved     \* history: both, for the list on disk

memory == <<serials, listed>>
insertion == <<rt, ers, at>>
writing == <<left, gen, out>>
disk == <<file, fstate, saved>>
history == <<asked, others>>
vars == <<pc, memory, insertion, todo, writing, disk, failed, lines, history>>

\* ssh_krl_init().
NoSerials == [s \in Scopes |-> {}]
NoneListed == [key_ids |-> [s \in Scopes |-> {}], revoked_keys |-> {}, revoked_sha1s |-> {}]
NoOthers == [key_ids |-> [s \in Scopes |-> {}], keys |-> {}]
Forget == /\ serials' = NoSerials /\ listed' = NoneListed
          /\ asked' = NoSerials /\ others' = NoOthers

NoRange == [lo |-> 1, hi |-> 1]
NoSection == [scope |-> None, state |-> "0", last |-> 0, base |-> 0, nums |-> {}]

Init ==
  /\ pc = "idle" /\ serials = NoSerials /\ listed = NoneListed
  /\ rt = None /\ ers = NoRange /\ at = 1
  /\ todo = {} /\ left = {} /\ gen = NoSection /\ out = {}
  /\ file = [sections |-> {}, listed |-> NoneListed] /\ fstate = "none"
  /\ failed = "no" /\ lines = 0
  /\ asked = NoSerials /\ others = NoOthers
  /\ saved = [serials |-> NoSerials, others |-> NoOthers]

-----------------------------------------------------------------------------
(***************************************************************************)
(* insert_serial_range()                                                   *)
(***************************************************************************)
Smaller(a, b) == IF a < b THEN a ELSE b
Larger(a, b) == IF a > b THEN a ELSE b

\* serial_cmp() = 0.
Overlap(a, b) == a.hi >= b.lo /\ a.lo <= b.hi

\* ssh_krl_revoke_cert_by_serial_range() refuses these.
Invalid(r) == r.lo > r.hi \/ r.lo = 0

\* The beginning of an insertion: the new range becomes an entry, or an entry
\* that overlaps it grows.  The entry that changes, ers, is taken out of the set
\* until the insertion ends.
Insert(s, r) ==
  /\ ~Invalid(r)
  /\ pc' = "pred" /\ rt' = s
  /\ \/ /\ \A e \in serials[s] : ~Overlap(e, r)
        /\ ers' = r /\ at' = r.lo
        /\ serials' = serials
     \/ \E e \in serials[s] :
          /\ Overlap(e, r)
          /\ ers' = [lo |-> Smaller(e.lo, r.lo), hi |-> Larger(e.hi, r.hi)]
          /\ at' = e.lo
          /\ serials' = [serials EXCEPT ![s] = @ \ {e}]

\* RB_PREV and RB_NEXT of ers.
Preds == {c \in serials[rt] : c.lo < at}
Succs == {c \in serials[rt] : c.lo > at}

\* Arithmetic of u_int64_t.
Dec(n) == IF n = 0 THEN MaxSerial ELSE n - 1
Inc(n) == IF n = MaxSerial THEN 0 ELSE n + 1

\* "Check predecessors": ers.lo - 1 would wrap when ers.lo is 0.
PredApart(c) == ers.lo # 0 /\ c.hi < Dec(ers.lo)
\* Mutant: ers.hi + 1 wraps when ers.hi is the last serial number.
SuccApartWraps(c) == c.lo > Inc(ers.hi)
\* "Check successors".
SuccApart(c) == ers.hi # MaxSerial /\ c.lo > Inc(ers.hi)

MergePred ==
  /\ pc = "pred"
  /\ \E c \in Preds :
       /\ \A d \in Preds : d.lo <= c.lo
       /\ ~PredApart(c)
       /\ ers' = [lo |-> Smaller(c.lo, ers.lo), hi |-> ers.hi]
       /\ serials' = [serials EXCEPT ![rt] = @ \ {c}]
  /\ UNCHANGED <<pc, listed, rt, at, todo, writing, disk, failed, lines, history>>

PredsDone ==
  /\ pc = "pred"
  /\ \A c \in Preds : (\A d \in Preds : d.lo <= c.lo) => PredApart(c)
  /\ pc' = "succ"
  /\ UNCHANGED <<memory, insertion, todo, writing, disk, failed, lines, history>>

MergeSucc ==
  /\ pc = "succ"
  /\ \E c \in Succs :
       /\ \A d \in Succs : c.lo <= d.lo
       /\ ~SuccApart(c)
       /\ ers' = [lo |-> ers.lo, hi |-> Larger(c.hi, ers.hi)]
       /\ serials' = [serials EXCEPT ![rt] = @ \ {c}]
  /\ UNCHANGED <<pc, listed, rt, at, todo, writing, disk, failed, lines, history>>

SuccsDone ==
  /\ pc = "succ"
  /\ \A c \in Succs : (\A d \in Succs : c.lo <= d.lo) => SuccApart(c)
  /\ serials' = [serials EXCEPT ![rt] = @ \cup {ers}]
  /\ rt' = None /\ ers' = NoRange /\ at' = 1
  /\ pc' = IF todo = {} THEN "lines" ELSE "parse"
  /\ UNCHANGED <<listed, todo, writing, disk, failed, lines, history>>

-----------------------------------------------------------------------------
(***************************************************************************)
(* do_gen_krl() and update_krl_from_file(): a run of ssh-keygen -k.        *)
(***************************************************************************)
\* Without -u the list is new: ssh_krl_init().
NewList ==
  /\ pc = "idle"
  /\ pc' = "lines"
  /\ UNCHANGED <<memory, insertion, todo, writing, disk, failed, lines, history>>

\* The bytes of a file (ssh_krl_to_blob, revoked_certs_generate): the header, a
\* section for every scope in use, with its CA key, the sections of serial
\* numbers in it, and the strings of key IDs, keys and hashes.
Strings(S, len) == IF S = {} THEN 0 ELSE 5 + Cardinality(S) * (4 + len)
SectionSize(x) ==
  CASE x.type = "LIST" -> 5 + 8 * Cardinality(x.nums)
    [] x.type = "RANGE" -> 5 + 16
    [] x.type = "BITMAP" -> 5 + 8 + 4 + 1 + (Max(x.nums) + 1) \div 8
ScopeSize(f, s) ==
  LET own == {x \in f.sections : x.scope = s}
      ids == f.listed.key_ids[s]
  IN IF own = {} /\ ids = {} THEN 0
     ELSE 5 + 4 + (IF s = Wild THEN 0 ELSE Length.key) + 4
            + MapThenSumSet(SectionSize, own) + Strings(ids, Length.key_id)
Size(f) ==
  LET scope(s) == ScopeSize(f, s)
  IN 44 + Length.comment + MapThenSumSet(scope, Scopes)
       + Strings(f.listed.revoked_keys, Length.key) + Strings(f.listed.revoked_sha1s, 20)

\* load_krl(), of an update, of a query (-Q) and of sshd: the sections of keys
\* and key IDs are read here, those of serial numbers by ParseStep.
LoadList ==
  /\ pc = "idle" /\ fstate = "whole" /\ failed = "no" /\ Size(file) <= MaxFile
  /\ listed' = file.listed /\ todo' = file.sections
  /\ asked' = saved.serials /\ others' = saved.others
  /\ pc' = IF file.sections = {} THEN "lines" ELSE "parse"
  /\ UNCHANGED <<serials, insertion, writing, disk, failed, lines>>

\* sshkey_load_file() refuses a large file: "Unable to load KRL" is fatal.
LoadRefused ==
  /\ pc = "idle" /\ fstate = "whole" /\ failed = "no" /\ Size(file) > MaxFile
  /\ failed' = "invalid format"
  /\ UNCHANGED <<pc, memory, insertion, todo, writing, disk, lines, history>>

\* "serial:", and a certificate with a serial number (ssh_krl_revoke_key).
SerialLine(s, r) ==
  /\ pc = "lines" /\ lines < MaxLines
  /\ Insert(s, r)
  /\ asked' = [asked EXCEPT ![s] = @ \cup r.lo..r.hi]
  /\ lines' = lines + 1
  /\ UNCHANGED <<listed, todo, writing, disk, failed, others>>

\* "id:", and a certificate without a serial number.
IdLine(s, i) ==
  /\ pc = "lines" /\ lines < MaxLines
  /\ listed' = [key_ids |-> [listed.key_ids EXCEPT ![s] = @ \cup {i}],
                revoked_keys |-> listed.revoked_keys,
                revoked_sha1s |-> listed.revoked_sha1s]
  /\ others' = [key_ids |-> [others.key_ids EXCEPT ![s] = @ \cup {i}], keys |-> others.keys]
  /\ lines' = lines + 1
  /\ UNCHANGED <<pc, serials, insertion, todo, writing, disk, failed, asked>>

\* "key:" lists the key itself, "sha1:" and a plain key its hash.
KeyLine(k, how) ==
  /\ pc = "lines" /\ lines < MaxLines
  /\ LET new(directive) == IF how = directive THEN {k} ELSE {}
     IN listed' = [key_ids |-> listed.key_ids,
                   revoked_keys |-> listed.revoked_keys \cup new("key"),
                   revoked_sha1s |-> listed.revoked_sha1s \cup new("sha1")]
  /\ others' = [key_ids |-> others.key_ids, keys |-> others.keys \cup {k}]
  /\ lines' = lines + 1
  /\ UNCHANGED <<pc, serials, insertion, todo, writing, disk, failed, asked>>

\* The process ends: it has answered a query, a line is invalid (fatal), the
\* bitmap cannot be allocated, the disk is full, or it is killed.
Exit ==
  /\ pc # "idle"
  /\ pc' = "idle" /\ Forget
  /\ rt' = None /\ ers' = NoRange /\ at' = 1
  /\ todo' = {} /\ left' = {} /\ gen' = NoSection /\ out' = {}
  /\ UNCHANGED <<disk, failed, lines>>

-----------------------------------------------------------------------------
(***************************************************************************)
(* ssh_krl_to_blob() and revoked_certs_generate()                          *)
(***************************************************************************)
Types == {"LIST", "RANGE", "BITMAP"}

\* choose_next_state(): costs in bytes.  The caps of 2^31 that keep the u_int64_t
\* from overflowing do not change which one is least.
Bytes(bits) == (bits + 7) \div 8
Costs(state, contig, final, lastGap, nextGap) ==
  LET more == IF final THEN 0 ELSE 8 + 64
      near == IF final THEN 0 ELSE Smaller(nextGap, 8 + 64)
  IN [list |-> Bytes((IF state = "LIST" THEN 0 ELSE 8) + 64 * contig + more),
      range |-> Bytes(8 + 2 * 64 + more),
      bitmap |-> Bytes((IF state = "BITMAP" THEN 0 ELSE 8 + 64) + lastGap + contig + near),
      restart |-> Bytes(8 + 64 + contig + near)]
ForceNewSection(c) == c.restart < Smaller(c.list, Smaller(c.range, c.bitmap))
ChooseNextState(c) ==
  IF ForceNewSection(c) THEN "BITMAP"
  ELSE IF c.list < Smaller(c.range, c.bitmap) THEN "LIST"
  ELSE IF c.range < c.bitmap THEN "RANGE" ELSE "BITMAP"

\* Mutant: bits are numbered from one.
ContentsShifted(type, base, r) ==
  CASE type = "LIST" -> r.lo..r.hi
    [] type = "RANGE" -> {r.lo, r.hi}
    [] type = "BITMAP" -> {n - base + 1 : n \in r.lo..r.hi}
\* What an entry adds to a section of a type: serial numbers, the two ends of a
\* range, or bit numbers.
Contents(type, base, r) ==
  CASE type = "LIST" -> r.lo..r.hi
    [] type = "RANGE" -> {r.lo, r.hi}
    [] type = "BITMAP" -> {n - base : n \in r.lo..r.hi}

Section(g) == [scope |-> g.scope, type |-> g.state, base |-> g.base, nums |-> g.nums]

StartGenerate ==
  /\ pc = "lines"
  /\ pc' = "gen"
  /\ left' = UNION {{s} \X serials[s] : s \in Scopes}
  /\ UNCHANGED <<memory, insertion, todo, gen, out, disk, failed, lines, history>>

\* One entry of the loop over a tree: the section before it is finished when the
\* type changes, a bitmap starts afresh or a range is complete.
GenerateEntry(s, r) ==
  LET later == {x \in left : x[1] = s /\ x[2] # r}
      final == later = {}
      gap == IF final THEN 0
             ELSE (CHOOSE n \in 1..MaxSerial :
                     /\ \E x \in later : x[2].lo = n
                     /\ \A x \in later : n <= x[2].lo) - r.hi
      costs == Costs(gen.state, 1 + (r.hi - r.lo), final,
                     IF gen.state = "0" THEN 0 ELSE r.lo - gen.last, gap)
      next == ChooseNextState(costs)
      new == next # gen.state \/ ForceNewSection(costs) \/ gen.state = "RANGE"
  IN /\ pc = "gen"
     /\ gen.scope \in {None, s}
     /\ <<s, r>> \in left /\ \A x \in later : r.lo < x[2].lo
     /\ out' = IF new /\ gen.state # "0" THEN out \cup {Section(gen)} ELSE out
     /\ gen' = [scope |-> s, state |-> next, last |-> r.hi,
                base |-> IF new THEN r.lo ELSE gen.base,
                nums |-> IF new THEN Contents(next, r.lo, r)
                         ELSE gen.nums \cup Contents(next, gen.base, r)]
     /\ left' = left \ {<<s, r>>}
     /\ UNCHANGED <<pc, memory, insertion, todo, disk, failed, lines, history>>

\* "Flush the remaining section, if any".
Flush ==
  /\ pc = "gen" /\ gen.scope # None
  /\ \A x \in left : x[1] # gen.scope
  /\ out' = out \cup {Section(gen)}
  /\ gen' = NoSection
  /\ UNCHANGED <<pc, memory, insertion, todo, left, disk, failed, lines, history>>

\* open() with O_TRUNC.
Truncate ==
  /\ pc = "gen" /\ left = {} /\ gen.scope = None
  /\ pc' = "write"
  /\ fstate' = "empty"
  /\ UNCHANGED <<memory, insertion, todo, writing, file, saved, failed, lines, history>>

WriteFile ==
  /\ pc = "write"
  /\ file' = [sections |-> out, listed |-> listed] /\ fstate' = "whole"
  /\ saved' = [serials |-> asked, others |-> others]
  /\ pc' = "idle" /\ Forget /\ out' = {}
  /\ failed' = "no"
  /\ UNCHANGED <<insertion, todo, left, gen, lines>>

-----------------------------------------------------------------------------
(***************************************************************************)
(* parse_revoked_certs(): the sections are read in any order; what is in   *)
(* one, least first.                                                       *)
(***************************************************************************)
\* sshbuf_get_bignum2_bytes_direct() refuses a long bitmap; bits beyond the last
\* serial number wrap.
TooLarge(x) == x.type = "BITMAP" /\ \E n \in x.nums : n >= MaxBitmap
\* Mutant: the last serial number counts as wrapped.
WrapsAtLast(x) == x.type = "BITMAP" /\ \E n \in x.nums : x.base + n >= MaxSerial
Wraps(x) == x.type = "BITMAP" /\ \E n \in x.nums : x.base + n > MaxSerial

\* The range that is inserted next.
NextOf(x, n, m) ==
  CASE x.type = "LIST" -> [lo |-> n, hi |-> n]
    [] x.type = "RANGE" -> [lo |-> n, hi |-> m]
    [] x.type = "BITMAP" -> [lo |-> x.base + n, hi |-> x.base + n]

\* What is left of a section.
RestOf(x, n) ==
  LET rest == x.nums \ {n}
  IN IF x.type = "RANGE" \/ rest = {} THEN {}
     ELSE {[scope |-> x.scope, type |-> x.type, base |-> x.base, nums |-> rest]}

ParseStep(x) ==
  /\ pc = "parse"
  /\ ~TooLarge(x) /\ ~Wraps(x)
  /\ \E n, m \in x.nums :
       /\ \A i \in x.nums : n <= i /\ i <= m
       /\ Insert(x.scope, NextOf(x, n, m))
       /\ todo' = (todo \ {x}) \cup RestOf(x, n)
  /\ UNCHANGED <<listed, writing, disk, failed, lines, history>>

\* "goto out" with an error: load_krl() is fatal.
Unreadable(x) == \E n, m \in x.nums : /\ \A i \in x.nums : n <= i /\ i <= m
                                      /\ Invalid(NextOf(x, n, m))
ParseFails(x) ==
  /\ pc = "parse"
  /\ TooLarge(x) \/ Wraps(x) \/ Unreadable(x)
  /\ failed' = IF TooLarge(x) THEN "bignum is too large"
               ELSE IF Wraps(x) THEN "bitmap wraps u64" ELSE "invalid argument"
  /\ pc' = "idle" /\ Forget /\ todo' = {}
  /\ UNCHANGED <<insertion, writing, disk, lines>>

-----------------------------------------------------------------------------
Next ==
  \/ NewList \/ LoadList \/ LoadRefused \/ Exit
  \/ \E s \in Scopes : \E r \in Requests : SerialLine(s, r)
  \/ \E s \in Scopes, i \in KeyIds : IdLine(s, i)
  \/ \E k \in Keys, how \in {"key", "sha1"} : KeyLine(k, how)
  \/ MergePred \/ PredsDone \/ MergeSucc \/ SuccsDone
  \/ StartGenerate
  \/ \E x \in left : GenerateEntry(x[1], x[2])
  \/ Flush \/ Truncate \/ WriteFile
  \/ \E x \in todo : ParseStep(x) \/ ParseFails(x)

Spec == Init /\ [][Next]_vars

-----------------------------------------------------------------------------
(***************************************************************************)
(* ssh_krl_check_key(): a certificate is a key, its CA, a serial number    *)
(* and a key ID.                                                           *)
(***************************************************************************)
Certs == [key : Keys, ca : CAs, serial : 0..MaxSerial, key_id : KeyIds]

IsCertRevoked(c, s) ==
  \/ c.key_id \in listed.key_ids[s]
  \/ c.serial # 0 /\ \E e \in serials[s] : e.lo <= c.serial /\ c.serial <= e.hi

PlainKeyRevoked(k) == k \in listed.revoked_sha1s \/ k \in listed.revoked_keys

CheckKey(c) ==
  \/ PlainKeyRevoked(c.key)
  \/ IsCertRevoked(c, c.ca) \/ IsCertRevoked(c, Wild)
  \/ PlainKeyRevoked(c.ca)

-----------------------------------------------------------------------------
Sections == [scope : Scopes, type : Types, base : Nat, nums : SUBSET (0..MaxSerial)]
Listed == [key_ids : [Scopes -> SUBSET KeyIds], revoked_keys : SUBSET Keys,
           revoked_sha1s : SUBSET Keys]
Numbers == [Scopes -> SUBSET (1..MaxSerial)]
Others == [key_ids : [Scopes -> SUBSET KeyIds], keys : SUBSET Keys]

TypeOK ==
  /\ pc \in {"idle", "lines", "parse", "pred", "succ", "gen", "write"}
  /\ serials \in [Scopes -> SUBSET RevokedSerial] /\ listed \in Listed
  /\ rt \in Scopes \cup {None} /\ ers \in RevokedSerial /\ at \in 1..MaxSerial
  /\ todo \in SUBSET Sections /\ out \in SUBSET Sections
  /\ left \in SUBSET (Scopes \X RevokedSerial)
  /\ gen \in [scope : Scopes \cup {None}, state : Types \cup {"0"}, last : 0..MaxSerial,
              base : 0..MaxSerial, nums : SUBSET (0..MaxSerial)]
  /\ file \in [sections : SUBSET Sections, listed : Listed]
  /\ fstate \in {"none", "empty", "whole"}
  /\ failed \in {"no", "invalid format", "bignum is too large", "bitmap wraps u64", "invalid argument"}
  /\ lines \in 0..MaxLines /\ asked \in Numbers /\ others \in Others
  /\ saved \in [serials : Numbers, others : Others]

\* Whatever is inserted, read back or merged in whatever order, the ranges of a
\* tree neither overlap nor abut: serial_cmp() is an order on them, and a search
\* that ends at the first overlapping range misses none.
Canonical ==
  \A s \in Scopes : \A a, b \in serials[s] :
    a = b \/ a.hi + 1 < b.lo \/ b.hi + 1 < a.lo

\* A list that has been read, over any number of updates, refuses exactly the
\* keys and certificates that lines of the specifications named since it was
\* new: the choice of sections loses none and adds none.
CheckExact == pc = "lines" => \A c \in Certs :
  CheckKey(c) <=>
    \/ c.key \in others.keys \/ c.ca \in others.keys
    \/ \E s \in {c.ca, Wild} : \/ c.key_id \in others.key_ids[s]
                               \/ c.serial \in asked[s]

\* ssh-keygen and sshd can read every list that ssh-keygen has written, however
\* often it was updated and up to the last serial number, unless the file or a
\* bitmap in it has outgrown what sshkey_load_file() and
\* sshbuf_get_bignum2_bytes_direct() take: no section is written that
\* parse_revoked_certs() finds invalid.
Outgrown(f) == Size(f) > MaxFile \/ \E x \in f.sections : TooLarge(x)
LoadsBack == failed # "no" => Outgrown(file)
=============================================================================
