-------------------------- MODULE RecordingProofs --------------------------
(***************************************************************************)
(* Proofs about Recording, for any number of sessions, seconds and chunks. *)
(*                                                                         *)
(* RecordedWhenAlone rests on what the globals mean while every session    *)
(* has begun alone (Alone): the process's playback_logfile is the one      *)
(* recording that is being written or may still be removed, and those      *)
(* before it have earlier names.                                           *)
(***************************************************************************)
EXTENDS Recording, FiniteSetTheorems, SequenceTheorems, TLAPS

Chunk == [by : Opens, nr : Nat]
Channel ==
  [pc : {"none", "larval", "starting", "running", "stranded", "exited", "closed"},
   kind : {"none"} \cup Kinds, fd : Nat, cname : Seconds \cup {-1},
   ctype : {"none"} \cup Kinds, wrote : Nat,
   failed : BOOLEAN]

Shape ==
  /\ sshtype \in {"none"} \cup Kinds \cup Extra /\ playback \in Seconds \cup {-1} /\ nalloc \in Nat
  /\ chan \in [Opens -> Channel] /\ dir \in [Seconds -> Nat] /\ file \in Seq(Seq(Chunk))
  /\ mount \in {"none", "mounted", "empty", "detached"} /\ calm \in {"yes", "no"}
  /\ over \in BOOLEAN

\* The files that are referred to exist.
Files ==
  /\ \A g \in Opens : chan[g].fd <= Len(file) /\ chan[g].wrote <= MaxChunks
  /\ \A t \in Seconds : dir[t] <= Len(file)

\* A recording is open only while its channel is in use.
OpenFds == \A g \in Opens : chan[g].fd # 0 => ~over /\ g \in InUse

\* session_new() hands out a slot that is free.
Slots == Cardinality(InUse) <= nalloc /\ nalloc <= MaxSessions

\* The mount point serves at most one session.
Serving == {g \in Opens : chan[g].pc = "running" /\ chan[g].kind = "subsystem"}
Lock ==
  /\ \A g \in Serving : mount # "none" /\ \A h \in Serving : h = g
  /\ \A g \in Opens : chan[g].pc = "stranded" => chan[g].kind = "subsystem"

\* The one session in use: its child's copies of the globals are those of the
\* process, and what it shows goes to the recording with the last name.
Current(g) ==
  /\ chan[g].kind # "subsystem" \/ chan[g].pc = "starting" => mount = "none"
  /\ chan[g].pc \in {"starting", "running", "stranded"} => chan[g].cname = playback /\ chan[g].ctype = chan[g].kind
  /\ chan[g].pc = "larval" <=> chan[g].kind = "none"
  /\ chan[g].kind = "shell" => sshtype \in Shellish
  /\ playback \in Seconds
  /\ chan[g].kind \in {"none", "shell"} /\ ~chan[g].failed =>
       /\ dir[playback] # 0 /\ (~over => chan[g].fd = dir[playback])
       /\ Holds(file[dir[playback]], g, chan[g].wrote)

\* The recording of a shell that has ended has a name nobody removes.
Safe(g) ==
  chan[g].kind = "shell" /\ chan[g].wrote > 0 /\ ~chan[g].failed =>
    \E t \in Seconds : /\ dir[t] # 0 /\ Holds(file[dir[t]], g, chan[g].wrote)
                       /\ t <= playback /\ (InUse # {} => t < playback)

Alone ==
  /\ \A g, h \in InUse : g = h
  /\ \A t \in Seconds : t > playback => dir[t] = 0
  /\ \A g \in InUse : Current(g)
  /\ \A g \in Opens \ InUse : Safe(g)

\* The inductive invariant.
IInv == Shape /\ Files /\ OpenFds /\ Slots /\ Lock /\ (calm = "yes" => Alone)

-----------------------------------------------------------------------------
(* What the steps have in common.                                          *)

\* Only the channel g is touched.
Only(g) == chan' \in [Opens -> Channel] /\ \A h \in Opens \ {g} : chan'[h] = chan[h]

\* An assignment to one channel.
LEMMA SetChannel ==
  ASSUME IInv, NEW g \in Opens, NEW c \in Channel, chan' = [chan EXCEPT ![g] = c]
  PROVE  Only(g) /\ chan'[g] = c
<1>1. chan \in [Opens -> Channel]
  BY DEF IInv, Shape
<1> QED BY <1>1 DEF Only

\* The sessions in use are finitely many.
LEMMA InUseFinite == IsFiniteSet(InUse) /\ Cardinality(InUse) \in Nat
<1>1. MaxOpens \in Nat /\ 1 \in Int /\ MaxOpens \in Int
  BY RecordingAssumption
<1>2. IsFiniteSet(Opens)
  BY <1>1, FS_Interval DEF Opens
<1>3. InUse \subseteq Opens
  BY DEF InUse
<1> QED BY <1>2, <1>3, FS_Subset, FS_CardinalityType

\* No slot is taken.
LEMMA SlotsFrame ==
  ASSUME IInv, InUse' \subseteq InUse, nalloc' = nalloc
  PROVE  Slots'
<1>1. Cardinality(InUse') <= Cardinality(InUse) /\ Cardinality(InUse') \in Nat
  BY InUseFinite, FS_Subset, FS_CardinalityType
<1> QED BY <1>1, InUseFinite DEF IInv, Shape, Slots

\* The mount point serves no new session.
LEMMA LockFrame ==
  ASSUME IInv, Serving' \subseteq Serving, mount' = "none" => mount = "none" \/ Serving = {},
         \A g \in Opens : chan'[g].pc = "stranded" => chan'[g].kind = "subsystem"
  PROVE  Lock'
BY DEF IInv, Lock

\* A recording that is not the last one is out of reach of a step of the one
\* session in use.
LEMMA OwnStep ==
  ASSUME IInv, Alone, NEW g \in InUse, Only(g), InUse' \subseteq InUse, playback' = playback,
         dir' \in [Seconds -> Nat], \A t \in Seconds : t # playback => dir'[t] = dir[t],
         \A h \in Opens \ {g} : \A f \in 1..Len(file) :
           Holds(file[f], h, chan[h].wrote) => Holds(file'[f], h, chan[h].wrote),
         g \in InUse' => Current(g)', g \notin InUse' => Safe(g)'
  PROVE  Alone'
<1>1. playback \in Seconds /\ \A h \in InUse : h = g
  BY DEF Alone, Current
<1>2. g \in Opens /\ playback \in Int /\ Seconds \subseteq Int
  BY <1>1, RecordingAssumption DEF InUse, Seconds
<1>3. \A t \in Seconds : t > playback' => dir'[t] = 0
  BY <1>2 DEF Alone
<1>4. \A h, k \in InUse' : h = k
  BY <1>1
<1>5. \A h \in InUse' : Current(h)'
  BY <1>1
<1>6. ASSUME NEW h \in Opens \ InUse, h # g PROVE Safe(h)'
  <2>1. chan'[h] = chan[h]
    BY <1>6 DEF Only
  <2> SUFFICES ASSUME chan[h].kind = "shell" /\ chan[h].wrote > 0 /\ ~chan[h].failed
               PROVE  \E t \in Seconds : /\ dir'[t] # 0 /\ Holds(file'[dir'[t]], h, chan[h].wrote)
                                         /\ t <= playback' /\ (InUse' # {} => t < playback')
    BY <2>1 DEF Safe
  <2>2. PICK t \in Seconds : /\ dir[t] # 0 /\ Holds(file[dir[t]], h, chan[h].wrote)
                             /\ t <= playback /\ (InUse # {} => t < playback)
    BY DEF Alone, Safe
  <2>3. t < playback /\ t # playback
    BY <1>2, <2>2
  <2>4. dir[t] \in 1..Len(file)
    BY <2>2 DEF IInv, Shape, Files
  <2>5. dir'[t] = dir[t] /\ Holds(file'[dir[t]], h, chan[h].wrote)
    BY <1>6, <2>2, <2>3, <2>4
  <2> QED BY <2>2, <2>3, <2>5
<1>7. \A h \in Opens \ InUse' : Safe(h)'
  BY <1>1, <1>6
<1> QED BY <1>3, <1>4, <1>5, <1>7 DEF Alone

\* A step with a channel of its own that leaves the recordings alone.
LEMMA PlainStep ==
  ASSUME IInv, NEW g \in InUse, Only(g), g \in InUse',
         chan'[g].kind = "subsystem" /\ chan'[g].pc = "running" => chan[g].kind = "subsystem" /\ chan[g].pc = "running",
         chan'[g].pc = "stranded" => chan'[g].kind = "subsystem",
         chan'[g].fd = chan[g].fd, chan'[g].wrote = chan[g].wrote,
         playback' = playback, nalloc' = nalloc, dir' = dir, file' = file, mount' = mount, over' = over,
         sshtype' \in {"none"} \cup Kinds \cup Extra, calm' \in {"yes", "no"},
         calm' = "yes" => calm = "yes" /\ (Alone => Current(g)')
  PROVE  IInv'
<1>1. InUse' = InUse
  BY DEF Only, InUse
<1>2. Serving' \subseteq Serving
  BY DEF Only, Serving
<1>3. Shape'
  BY DEF IInv, Shape, Only
<1>4. \A h \in Opens : chan'[h].fd = chan[h].fd /\ chan'[h].wrote = chan[h].wrote
  BY DEF Only
<1>5. Files' /\ OpenFds'
  BY <1>1, <1>4 DEF IInv, Files, OpenFds
<1>6. Slots'
  BY <1>1, SlotsFrame
<1>7. Lock'
  <2>1. \A h \in Opens : chan'[h].pc = "stranded" => chan'[h].kind = "subsystem"
    BY DEF IInv, Lock, Only
  <2> QED BY <1>2, <2>1, LockFrame
<1>8. ASSUME calm' = "yes" PROVE Alone'
  <2>1. Alone /\ Current(g)'
    BY <1>8 DEF IInv
  <2>2. dir' \in [Seconds -> Nat]
    BY DEF IInv, Shape
  <2> QED BY <1>1, <2>1, <2>2, OwnStep
<1> QED BY <1>3, <1>5, <1>6, <1>7, <1>8 DEF IInv

\* do_exec() forks the child of session g.
LEMMA StartRequestKeeps ==
  ASSUME IInv, NEW g \in Opens, NEW k \in Kinds, StartRequest(g, k)
  PROVE  IInv'
<1> DEFINE c == [chan[g] EXCEPT !.pc = "starting", !.kind = k, !.cname = playback, !.ctype = k]
<1>1. /\ chan[g].pc = "larval" /\ sshtype' = k /\ playback' = playback /\ nalloc' = nalloc
      /\ dir' = dir /\ file' = file /\ mount' = mount /\ calm' = calm /\ over' = over
  BY DEF StartRequest
<1>2. chan[g] \in Channel /\ playback \in Seconds \cup {-1} /\ chan \in [Opens -> Channel]
      /\ calm \in {"yes", "no"}
  BY DEF IInv, Shape
<1>3. /\ c \in Channel /\ c.pc = "starting" /\ c.kind = k /\ c.cname = playback /\ c.ctype = k
      /\ c.fd = chan[g].fd /\ c.wrote = chan[g].wrote /\ c.failed = chan[g].failed
  BY <1>2 DEF Channel
<1>4. chan' = [chan EXCEPT ![g] = c]
  BY <1>2 DEF StartRequest
<1> HIDE DEF c
<1>5. Only(g) /\ chan'[g] = c
  BY <1>3, <1>4, SetChannel
<1>6. g \in InUse /\ g \in InUse'
  BY <1>1, <1>3, <1>5 DEF InUse
<1>7. ASSUME Alone PROVE Current(g)'
  <2>1. Current(g)
    BY <1>6, <1>7 DEF Alone
  <2>2. /\ mount = "none" /\ playback \in Seconds
        /\ ~chan[g].failed => /\ dir[playback] # 0 /\ (~over => chan[g].fd = dir[playback])
                             /\ Holds(file[dir[playback]], g, chan[g].wrote)
    BY <1>1, <2>1 DEF Current
  <2>3. k # "none"
    BY RecordingAssumption
  <2> QED BY <1>1, <1>3, <1>5, <2>2, <2>3 DEF Current, Shellish
<1> QED BY <1>1, <1>2, <1>3, <1>5, <1>6, <1>7, PlainStep

\* The other channel requests.
LEMMA OtherRequestKeeps ==
  ASSUME IInv, NEW g \in Opens, NEW k \in Extra, OtherRequest(g, k)
  PROVE  IInv'
<1>1. /\ g \in InUse /\ sshtype' = k /\ playback' = playback /\ nalloc' = nalloc /\ chan' = chan
      /\ dir' = dir /\ file' = file /\ mount' = mount /\ over' = over
      /\ calm' = IF chan[g].pc = "larval" \/ k \in Shellish THEN calm ELSE "no"
  BY DEF OtherRequest
<1>2. Only(g) /\ g \in InUse'
  BY <1>1 DEF IInv, Shape, Only, InUse
<1>3. ASSUME Alone, calm' = "yes" PROVE Current(g)'
  <2>1. Current(g)
    BY <1>1, <1>3 DEF Alone
  <2>2. chan[g].pc = "larval" \/ k \in Shellish
    BY <1>1, <1>3
  <2> QED BY <1>1, <2>1, <2>2 DEF Current
<1>4. calm \in {"yes", "no"} /\ (chan[g].pc = "stranded" => chan[g].kind = "subsystem")
  BY DEF IInv, Shape, Lock
<1> QED BY <1>1, <1>2, <1>3, <1>4, PlainStep

\* runprogram(), or the destination cannot be reached.
LEMMA ChildRunsKeeps ==
  ASSUME IInv, NEW g \in Opens, NEW reached, ChildRuns(g, reached)
  PROVE  IInv'
<1> DEFINE c == IF reached = "yes" THEN [chan[g] EXCEPT !.pc = "running"] ELSE ChildGone(chan[g])
<1>1. /\ chan[g].pc = "starting" /\ chan[g].kind # "subsystem" /\ sshtype' = sshtype
      /\ playback' = playback /\ nalloc' = nalloc
      /\ dir' = dir /\ file' = file /\ mount' = mount /\ calm' = calm /\ over' = over
  BY DEF ChildRuns
<1>2. chan[g] \in Channel /\ sshtype \in {"none"} \cup Kinds \cup Extra /\ calm \in {"yes", "no"}
      /\ chan \in [Opens -> Channel]
  BY DEF IInv, Shape
<1>3. /\ c \in Channel /\ c.pc \in {"running", "exited"} /\ c.kind = chan[g].kind
      /\ c.fd = chan[g].fd /\ c.wrote = chan[g].wrote /\ c.failed = chan[g].failed
      /\ c.pc = "running" => c.cname = chan[g].cname /\ c.ctype = chan[g].ctype
  BY <1>2 DEF Channel, ChildGone
<1>4. chan' = [chan EXCEPT ![g] = c]
  BY <1>2 DEF ChildRuns
<1> HIDE DEF c
<1>5. Only(g) /\ chan'[g] = c
  BY <1>3, <1>4, SetChannel
<1>6. g \in InUse /\ g \in InUse'
  BY <1>1, <1>3, <1>5 DEF InUse
<1>7. ASSUME Alone PROVE Current(g)'
  <2>1. Current(g)
    BY <1>6, <1>7 DEF Alone
  <2> QED BY <1>1, <1>3, <1>5, <2>1 DEF Current
<1> QED BY <1>1, <1>2, <1>3, <1>5, <1>6, <1>7, PlainStep

\* remove(playback_logfile)
LEMMA RemoveOne ==
  ASSUME NEW d \in [Seconds -> Nat], NEW t \in Seconds \cup {-1}
  PROVE  /\ Remove(d, t) \in [Seconds -> Nat]
         /\ \A u \in Seconds : Remove(d, t)[u] = d[u] \/ Remove(d, t)[u] = 0
         /\ \A u \in Seconds : u # t => Remove(d, t)[u] = d[u]
<1>1. \A u \in Seconds : u \in Nat /\ u # -1
  BY RecordingAssumption DEF Seconds
<1>2. CASE t = -1
  BY <1>2 DEF Remove
<1>3. CASE t # -1
  <2>1. t \in Seconds
    BY <1>3
  <2> QED BY <1>3, <2>1 DEF Remove
<1> QED BY <1>2, <1>3

\* session_unused()
LEMMA UnusedOne ==
  ASSUME NEW d \in [Seconds -> Nat], NEW t \in Seconds \cup {-1}
  PROVE  /\ Unused(d, t) \in [Seconds -> Nat]
         /\ \A u \in Seconds : Unused(d, t)[u] = d[u] \/ Unused(d, t)[u] = 0
         /\ \A u \in Seconds : u # t => Unused(d, t)[u] = d[u]
         /\ mount = "none" => Unused(d, t) = d
BY RemoveOne DEF Unused

\* A step of the one session in use that may remove the last recording.
LEMMA RemovingStep ==
  ASSUME IInv, NEW g \in InUse, Only(g), InUse' \subseteq InUse,
         g \in InUse' /\ ~over => chan'[g].fd = chan[g].fd, g \notin InUse' => chan'[g].fd = 0,
         chan'[g].wrote = chan[g].wrote,
         playback' = playback, nalloc' = nalloc, file' = file, over' = over, calm' = calm,
         sshtype' = sshtype, mount' \in {"none", "mounted", "empty", "detached"},
         dir' \in [Seconds -> Nat], \A t \in Seconds : dir'[t] = dir[t] \/ dir'[t] = 0,
         Lock', over => chan'[g].fd = 0,
         Alone => /\ \A t \in Seconds : t # playback => dir'[t] = dir[t]
                  /\ g \in InUse' => Current(g)'
                  /\ g \notin InUse' => Safe(g)'
  PROVE  IInv'
<1>1. Shape'
  BY DEF IInv, Shape, Only
<1>2. Files'
  <2>1. \A h \in Opens : chan'[h].fd \in {0, chan[h].fd} /\ chan'[h].wrote = chan[h].wrote
    BY DEF Only, IInv, OpenFds
  <2>2. \A h \in Opens : chan'[h].fd <= Len(file')
    BY <2>1 DEF IInv, Files, Shape
  <2>3. \A t \in Seconds : dir'[t] <= Len(file')
    BY DEF IInv, Files, Shape
  <2> QED BY <2>1, <2>2, <2>3 DEF IInv, Files
<1>3. OpenFds'
  <2>1. \A h \in Opens \ {g} : chan'[h] = chan[h] /\ (h \in InUse' <=> h \in InUse)
    BY DEF Only, InUse
  <2>2. g \in Opens
    BY DEF InUse
  <2> QED BY <2>1, <2>2 DEF IInv, OpenFds
<1>4. Slots'
  BY SlotsFrame
<1>5. ASSUME calm' = "yes" PROVE Alone'
  <2>1. Alone
    BY <1>5 DEF IInv
  <2> QED BY <2>1, OwnStep
<1> QED BY <1>1, <1>2, <1>3, <1>4, <1>5 DEF IInv

\* sftp: the mount point is the lock.
LEMMA ChildMountsKeeps ==
  ASSUME IInv, NEW g \in Opens, NEW ok \in BOOLEAN, ChildMounts(g, ok)
  PROVE  IInv'
<1>1. /\ chan[g].pc = "starting" /\ chan[g].kind = "subsystem" /\ sshtype' = sshtype
      /\ playback' = playback /\ nalloc' = nalloc /\ file' = file /\ calm' = calm /\ over' = over
  BY DEF ChildMounts
<1>2. /\ chan[g] \in Channel /\ chan \in [Opens -> Channel] /\ dir \in [Seconds -> Nat]
      /\ sshtype \in {"none"} \cup Kinds \cup Extra /\ calm \in {"yes", "no"}
      /\ chan[g].cname \in Seconds \cup {-1}
  BY DEF IInv, Shape, Channel
<1>3. g \in InUse
  BY <1>1 DEF InUse
<1>4. CASE ~MountPointFree
  <2> DEFINE c == ChildGone(chan[g])
  <2>1. /\ c \in Channel /\ c.pc = "exited" /\ c.kind = chan[g].kind
        /\ c.fd = chan[g].fd /\ c.wrote = chan[g].wrote /\ c.failed = chan[g].failed
    BY <1>2 DEF Channel, ChildGone
  <2>2. chan' = [chan EXCEPT ![g] = c] /\ dir' = dir /\ mount' = mount
    BY <1>2, <1>4 DEF ChildMounts
  <2> HIDE DEF c
  <2>3. Only(g) /\ chan'[g] = c
    BY <2>1, <2>2, SetChannel
  <2>4. g \in InUse'
    BY <2>1, <2>3 DEF InUse
  <2>5. ASSUME Alone PROVE Current(g)'
    <3>1. Current(g)
      BY <1>3, <2>5 DEF Alone
    <3> QED BY <1>1, <2>1, <2>2, <2>3, <3>1 DEF Current
  <2> QED BY <1>1, <1>2, <1>3, <2>1, <2>2, <2>3, <2>4, <2>5, PlainStep
<1>5. CASE MountPointFree
  <2> DEFINE c == [chan[g] EXCEPT !.pc = "running"]
  <2>1. /\ c \in Channel /\ c.pc = "running" /\ c.kind = "subsystem"
        /\ c.fd = chan[g].fd /\ c.wrote = chan[g].wrote /\ c.cname = chan[g].cname
        /\ c.ctype = chan[g].ctype
    BY <1>1, <1>2 DEF Channel
  <2>2. /\ chan' = [chan EXCEPT ![g] = c] /\ dir' = Remove(dir, chan[g].cname)
        /\ mount' = IF ok THEN "mounted" ELSE "empty"
    BY <1>2, <1>5 DEF ChildMounts
  <2> HIDE DEF c
  <2>3. Only(g) /\ chan'[g] = c
    BY <2>1, <2>2, SetChannel
  <2>4. g \in InUse' /\ InUse' \subseteq InUse
    BY <1>3, <2>1, <2>3 DEF InUse, Only
  <2>5. Lock'
    <3>1. Serving = {}
      BY <1>5 DEF IInv, Lock, MountPointFree
    <3>2. Serving' \subseteq {g}
      BY <2>3, <3>1 DEF Serving, Only
    <3>3. \A h \in Opens : chan'[h].pc = "stranded" => chan'[h].kind = "subsystem"
      BY <2>1, <2>3 DEF IInv, Lock, Only
    <3> QED BY <2>2, <3>2, <3>3 DEF Lock
  <2>6. /\ dir' \in [Seconds -> Nat] /\ \A t \in Seconds : dir'[t] = dir[t] \/ dir'[t] = 0
        /\ \A t \in Seconds : t # chan[g].cname => dir'[t] = dir[t]
    BY <1>2, <2>2, RemoveOne
  <2>7. ASSUME Alone
        PROVE  (\A t \in Seconds : t # playback => dir'[t] = dir[t]) /\ Current(g)'
    <3>1. Current(g)
      BY <1>3, <2>7 DEF Alone
    <3>2. chan[g].cname = playback /\ chan[g].ctype = chan[g].kind /\ playback \in Seconds
      BY <1>1, <3>1 DEF Current
    <3> QED BY <1>1, <2>1, <2>3, <2>6, <3>2 DEF Current
  <2>8. over => chan'[g].fd = 0
    BY <1>3, <2>1, <2>3 DEF IInv, OpenFds
  <2> QED BY <1>1, <1>3, <2>1, <2>2, <2>3, <2>4, <2>5, <2>6, <2>7, <2>8, RemovingStep
<1> QED BY <1>4, <1>5

\* The child ends; that of a shell keeps the recording.
LEMMA ChildExitsKeeps ==
  ASSUME IInv, NEW g \in Opens, ChildExits(g)
  PROVE  IInv'
<1> DEFINE c == ChildGone(chan[g])
<1>1. /\ chan[g].pc \in {"running", "stranded"} /\ sshtype' = sshtype /\ playback' = playback
      /\ nalloc' = nalloc /\ file' = file /\ mount' = mount /\ calm' = calm /\ over' = over
      /\ dir' = IF KeepsRecording(chan[g]) THEN dir ELSE Remove(dir, chan[g].cname)
  BY DEF ChildExits
<1>2. /\ chan[g] \in Channel /\ chan \in [Opens -> Channel] /\ dir \in [Seconds -> Nat]
      /\ chan[g].cname \in Seconds \cup {-1} /\ mount \in {"none", "mounted", "empty", "detached"}
  BY DEF IInv, Shape, Channel
<1>3. /\ c \in Channel /\ c.pc = "exited" /\ c.kind = chan[g].kind
      /\ c.fd = chan[g].fd /\ c.wrote = chan[g].wrote /\ c.failed = chan[g].failed
  BY <1>2 DEF Channel, ChildGone
<1>4. chan' = [chan EXCEPT ![g] = c]
  BY <1>2 DEF ChildExits
<1> HIDE DEF c
<1>5. Only(g) /\ chan'[g] = c
  BY <1>3, <1>4, SetChannel
<1>6. g \in InUse /\ g \in InUse' /\ InUse' \subseteq InUse
  BY <1>1, <1>3, <1>5 DEF InUse, Only
<1>7. Lock'
  <2>1. Serving' \subseteq Serving
    BY <1>3, <1>5 DEF Serving, Only
  <2>2. \A h \in Opens : chan'[h].pc = "stranded" => chan'[h].kind = "subsystem"
    BY <1>3, <1>5 DEF IInv, Lock, Only
  <2> QED BY <1>1, <2>1, <2>2, LockFrame
<1>8. /\ dir' \in [Seconds -> Nat] /\ \A t \in Seconds : dir'[t] = dir[t] \/ dir'[t] = 0
      /\ \A t \in Seconds : t # chan[g].cname => dir'[t] = dir[t]
  BY <1>1, <1>2, RemoveOne
<1>9. ASSUME Alone
      PROVE  (\A t \in Seconds : t # playback => dir'[t] = dir[t]) /\ Current(g)'
  <2>1. Current(g)
    BY <1>6, <1>9 DEF Alone
  <2>2. /\ chan[g].cname = playback /\ chan[g].ctype = chan[g].kind /\ playback \in Seconds
    BY <1>1, <2>1 DEF Current
  <2>3. chan[g].kind = "shell" => dir' = dir
    BY <1>1, <2>2 DEF KeepsRecording, Shellish
  <2>4. chan[g].kind # "none"
    BY <1>1, <2>1 DEF Current
  <2>5. Current(g)'
    BY <1>1, <1>3, <1>5, <2>1, <2>2, <2>3, <2>4 DEF Current
  <2> QED BY <1>8, <2>2, <2>5
<1>10. over => chan'[g].fd = 0
  BY <1>6, <1>3, <1>5 DEF IInv, OpenFds
<1> QED BY <1>1, <1>2, <1>3, <1>5, <1>6, <1>7, <1>8, <1>9, <1>10, RemovingStep

\* channel_free() and session_close(): session_unused() finds a mount point only
\* where the session was for sftp.
LEMMA CloseSessionKeeps ==
  ASSUME IInv, NEW g \in Opens, CloseSession(g)
  PROVE  IInv'
<1> DEFINE c == FreeChannel(chan[g])
<1>1. /\ ~over /\ chan[g].pc \in {"larval", "exited"} /\ sshtype' = sshtype /\ playback' = playback
      /\ nalloc' = nalloc /\ file' = file /\ calm' = calm /\ over' = over
      /\ dir' = Unused(dir, playback) /\ mount' = Detached
  BY DEF CloseSession
<1>2. /\ chan[g] \in Channel /\ chan \in [Opens -> Channel] /\ dir \in [Seconds -> Nat]
      /\ playback \in Seconds \cup {-1} /\ mount \in {"none", "mounted", "empty", "detached"}
  BY DEF IInv, Shape
<1>3. /\ c \in Channel /\ c.pc = "closed" /\ c.kind = chan[g].kind /\ c.fd = 0
      /\ c.wrote = chan[g].wrote /\ c.failed = chan[g].failed
  BY <1>2 DEF Channel, FreeChannel
<1>4. chan' = [chan EXCEPT ![g] = c]
  BY <1>2 DEF CloseSession
<1> HIDE DEF c
<1>5. Only(g) /\ chan'[g] = c
  BY <1>3, <1>4, SetChannel
<1>6. g \in InUse /\ g \notin InUse' /\ InUse' \subseteq InUse
  BY <1>1, <1>3, <1>5 DEF InUse, Only
<1>7. mount' \in {"none", "mounted", "empty", "detached"} /\ (mount' = "none" => mount = "none")
  BY <1>1, <1>2 DEF Detached
<1>8. Lock'
  <2>1. Serving' \subseteq Serving
    BY <1>3, <1>5 DEF Serving, Only
  <2>2. \A h \in Opens : chan'[h].pc = "stranded" => chan'[h].kind = "subsystem"
    BY <1>3, <1>5 DEF IInv, Lock, Only
  <2> QED BY <1>7, <2>1, <2>2, LockFrame
<1>9. /\ dir' \in [Seconds -> Nat] /\ \A t \in Seconds : dir'[t] = dir[t] \/ dir'[t] = 0
      /\ \A t \in Seconds : t # playback => dir'[t] = dir[t]
      /\ mount = "none" => dir' = dir
  BY <1>1, <1>2, UnusedOne
<1>10. ASSUME Alone PROVE Safe(g)'
  <2>1. Current(g) /\ \A h \in InUse : h = g
    BY <1>6, <1>10 DEF Alone
  <2>2. InUse' = {}
    BY <1>6, <2>1
  <2> SUFFICES ASSUME chan[g].kind = "shell" /\ ~chan[g].failed PROVE Safe(g)'
    BY <1>3, <1>5 DEF Safe
  <2>3. dir' = dir /\ playback \in Seconds /\ dir[playback] # 0
        /\ Holds(file[dir[playback]], g, chan[g].wrote)
    BY <1>9, <2>1 DEF Current
  <2>4. playback <= playback
    BY <2>3, RecordingAssumption DEF Seconds
  <2> QED BY <1>1, <1>3, <1>5, <2>2, <2>3, <2>4 DEF Safe
<1> QED BY <1>1, <1>3, <1>5, <1>6, <1>7, <1>8, <1>9, <1>10, RemovingStep

\* A recording grows by a chunk of session g.
LEMMA HoldsAppend ==
  ASSUME NEW s \in Seq(Chunk), NEW g \in Opens, NEW n \in Nat
  PROVE  LET r == Append(s, [by |-> g, nr |-> n + 1])
         IN  /\ Holds(s, g, n) => Holds(r, g, n + 1)
             /\ \A h \in Opens \ {g} : \A m \in Nat : Holds(s, h, m) => Holds(r, h, m)
<1> DEFINE c == [by |-> g, nr |-> n + 1]
           r == Append(s, c)
<1>1. c \in Chunk /\ c.by = g /\ c.nr = n + 1
  BY DEF Chunk
<1> HIDE DEF c
<1>2. Len(s) \in Nat /\ DOMAIN s = 1..Len(s)
  OBVIOUS
<1>3. /\ DOMAIN r = 1..(Len(s) + 1) /\ r[Len(s) + 1] = c /\ \A k \in 1..Len(s) : r[k] = s[k]
  BY <1>1
<1> HIDE DEF r
<1>4. \A k \in DOMAIN s : s[k].by \in Opens /\ s[k].nr \in Nat
  <2>1. \A k \in DOMAIN s : s[k] \in Chunk
    BY <1>2
  <2> QED BY <2>1 DEF Chunk
<1>5. \A k \in DOMAIN r : k \in DOMAIN s \/ k = Len(s) + 1
  BY <1>2, <1>3
<1>6. \A k \in DOMAIN s : k \in DOMAIN r /\ r[k] = s[k] /\ k < Len(s) + 1
  BY <1>2, <1>3
<1>7. Len(s) + 1 \in DOMAIN r
  BY <1>2, <1>3
<1>8. ASSUME Holds(s, g, n) PROVE Holds(r, g, n + 1)
  <2>1. \A k \in DOMAIN r : r[k].by = g => r[k].nr \in 1..(n + 1)
    BY <1>1, <1>3, <1>5, <1>6, <1>8 DEF Holds
  <2>2. \A nr \in 1..(n + 1) : \E k \in DOMAIN r : r[k].by = g /\ r[k].nr = nr
    <3>1. \A nr \in 1..(n + 1) : nr \in 1..n \/ nr = n + 1
      OBVIOUS
    <3>2. \A nr \in 1..n : \E k \in DOMAIN r : r[k].by = g /\ r[k].nr = nr
      BY <1>6, <1>8 DEF Holds
    <3> QED BY <1>1, <1>3, <1>7, <3>1, <3>2
  <2>3. ASSUME NEW j \in DOMAIN r, NEW k \in DOMAIN r, j < k, r[j].by = g, r[k].by = g
        PROVE  r[j].nr < r[k].nr
    <3>1. j \in DOMAIN s
      BY <1>2, <1>3, <1>5, <2>3
    <3>2. s[j].nr \in 1..n
      BY <1>6, <1>8, <2>3, <3>1 DEF Holds
    <3>3. CASE k = Len(s) + 1
      BY <1>1, <1>3, <1>6, <3>1, <3>2, <3>3
    <3>4. CASE k \in DOMAIN s
      BY <1>6, <1>8, <2>3, <3>1, <3>4 DEF Holds
    <3> QED BY <1>5, <3>3, <3>4
  <2> QED BY <2>1, <2>2, <2>3 DEF Holds
<1>9. ASSUME NEW h \in Opens \ {g}, NEW m \in Nat, Holds(s, h, m) PROVE Holds(r, h, m)
  <2>1. \A k \in DOMAIN r : r[k].by = h => k \in DOMAIN s
    BY <1>1, <1>3, <1>5
  <2> QED BY <1>6, <1>9, <2>1 DEF Holds
<1> QED BY <1>8, <1>9 DEF r, c

\* A chunk of output: that of the one session in use, where it is a shell, goes
\* to the end of its recording.
LEMMA HandleRfdKeeps ==
  ASSUME IInv, NEW g \in Opens, NEW ok \in BOOLEAN, HandleRfd(g, ok)
  PROVE  IInv'
<1> DEFINE c == [chan[g] EXCEPT !.wrote = chan[g].wrote + 1, !.failed = chan[g].failed \/ ~ok]
           n == chan[g].wrote
           f == chan[g].fd
           rec == ok /\ Records(chan[g])
           chunk == [by |-> g, nr |-> n + 1]
<1>1. /\ ~over /\ chan[g].pc \in {"running", "stranded"} /\ n < MaxChunks /\ sshtype' = sshtype /\ playback' = playback
      /\ nalloc' = nalloc /\ dir' = dir /\ mount' = mount /\ calm' = calm /\ over' = over
      /\ file' = IF rec THEN [file EXCEPT ![f] = Append(@, chunk)] ELSE file
  BY DEF HandleRfd
<1>2. /\ chan[g] \in Channel /\ chan \in [Opens -> Channel] /\ dir \in [Seconds -> Nat]
      /\ file \in Seq(Seq(Chunk)) /\ n \in Nat /\ f \in Nat
      /\ \A h \in Opens : chan[h].wrote \in Nat
  BY DEF IInv, Shape, Channel
<1>3. /\ c \in Channel /\ c.pc = chan[g].pc /\ c.kind = chan[g].kind /\ c.fd = f /\ c.wrote = n + 1
      /\ c.cname = chan[g].cname /\ c.ctype = chan[g].ctype
      /\ c.failed = (chan[g].failed \/ ~ok)
  <2>1. chan[g].wrote + 1 \in Nat
    BY <1>1, <1>2
  <2>2. PICK b \in BOOLEAN : b = (chan[g].failed \/ ~ok)
    BY Zenon
  <2> QED BY <1>2, <2>1, <2>2 DEF Channel
<1>4. chan' = [chan EXCEPT ![g] = c]
  BY <1>2 DEF HandleRfd
<1> HIDE DEF c
<1>5. Only(g) /\ chan'[g] = c
  BY <1>3, <1>4, SetChannel
<1>6. g \in InUse /\ g \in InUse' /\ InUse' = InUse
  BY <1>1, <1>3, <1>5 DEF InUse, Only
<1>7. rec => f \in 1..Len(file) /\ f # 0
  BY <1>1, <1>2 DEF IInv, Files, Records
<1>8. chunk \in Chunk
  BY <1>2 DEF Chunk
<1> HIDE DEF chunk
<1>9. rec => file[f] \in Seq(Chunk) /\ Append(file[f], chunk) \in Seq(Chunk)
  BY <1>2, <1>7, <1>8
<1> HIDE DEF rec
<1>10. /\ file' \in Seq(Seq(Chunk)) /\ Len(file') = Len(file)
       /\ \A k \in 1..Len(file) : k # f \/ ~rec => file'[k] = file[k]
       /\ rec => file'[f] = Append(file[f], chunk)
  <2>1. CASE rec
    BY <1>1, <1>2, <1>7, <1>9, <2>1
  <2>2. CASE ~rec
    BY <1>1, <1>2, <2>2
  <2> QED BY <2>1, <2>2
<1>11. ASSUME NEW h \in Opens \ {g}, NEW k \in 1..Len(file), Holds(file[k], h, chan[h].wrote)
       PROVE  Holds(file'[k], h, chan[h].wrote)
  <2>1. CASE k = f /\ rec
    <3>1. file'[k] = Append(file[f], chunk) /\ Holds(file[f], h, chan[h].wrote)
      BY <1>10, <1>11, <2>1
    <3>2. chan[h].wrote \in Nat
      BY <1>2
    <3> HIDE DEF f, n
    <3> QED BY <1>2, <1>9, <2>1, <3>1, <3>2, HoldsAppend DEF chunk
  <2>2. CASE ~(k = f /\ rec)
    BY <1>10, <1>11, <2>2
  <2> QED BY <2>1, <2>2
<1>12. Shape'
  BY <1>1, <1>5, <1>10 DEF IInv, Shape, Only
<1>13. \A h \in Opens : chan'[h].fd = chan[h].fd /\ chan'[h].wrote <= MaxChunks
  <2>1. MaxChunks \in Nat
    BY RecordingAssumption
  <2>2. n + 1 <= MaxChunks
    BY <1>1, <1>2, <2>1
  <2>3. \A h \in Opens \ {g} : chan'[h].fd = chan[h].fd /\ chan'[h].wrote <= MaxChunks
    BY <1>5 DEF IInv, Files, Only
  <2>4. chan'[g].fd = chan[g].fd /\ chan'[g].wrote <= MaxChunks
    BY <1>3, <1>5, <2>2
  <2> QED BY <2>3, <2>4
<1>14. Files' /\ OpenFds'
  BY <1>1, <1>6, <1>10, <1>13 DEF IInv, Files, OpenFds
<1>15. Slots'
  BY <1>1, <1>6, SlotsFrame
<1>16. Lock'
  <2>1. Serving' \subseteq Serving
    BY <1>1, <1>3, <1>5 DEF Serving, Only
  <2>2. \A h \in Opens : chan'[h].pc = "stranded" => chan'[h].kind = "subsystem"
    BY <1>3, <1>5 DEF IInv, Lock, Only
  <2> QED BY <1>1, <2>1, <2>2, LockFrame
<1>17. ASSUME Alone PROVE Current(g)'
  <2>1. Current(g)
    BY <1>6, <1>17 DEF Alone
  <2>2. chan[g].kind # "none"
    BY <1>1, <2>1 DEF Current
  <2>3. ASSUME chan[g].kind = "shell", ~chan[g].failed, ok
        PROVE  dir[playback] # 0 /\ f = dir[playback] /\ Holds(file'[f], g, n + 1)
    <3>1. dir[playback] # 0 /\ f = dir[playback] /\ Holds(file[f], g, n) /\ sshtype \in Shellish
      BY <1>1, <2>1, <2>3 DEF Current
    <3>2. rec
      BY <2>3, <3>1 DEF Records, rec
    <3>3. file'[f] = Append(file[f], chunk)
      BY <1>10, <3>2
    <3> QED BY <1>2, <1>9, <3>1, <3>2, <3>3, HoldsAppend DEF chunk
  <2> QED BY <1>1, <1>3, <1>5, <2>1, <2>2, <2>3 DEF Current
<1>18. ASSUME calm' = "yes" PROVE Alone'
  <2>1. Alone
    BY <1>1, <1>18 DEF IInv
  <2> QED BY <1>1, <1>2, <1>5, <1>6, <1>11, <1>17, <2>1, OwnStep
<1> QED BY <1>12, <1>14, <1>15, <1>16, <1>18 DEF IInv

\* sshfs removes the mount point, and whoever is served from it is stranded.
LEMMA SshfsEndsKeeps ==
  ASSUME IInv, SshfsEnds
  PROVE  IInv'
<1>1. /\ sshtype' = sshtype /\ playback' = playback /\ nalloc' = nalloc /\ dir' = dir
      /\ file' = file /\ calm' = calm /\ over' = over /\ mount # "none" /\ mount' = "none"
  BY DEF SshfsEnds
<1>2. ASSUME NEW g \in Opens
      PROVE  /\ chan'[g] \in Channel /\ chan'[g].kind = chan[g].kind /\ chan'[g].fd = chan[g].fd
             /\ chan'[g].wrote = chan[g].wrote /\ chan'[g].cname = chan[g].cname
             /\ chan'[g].ctype = chan[g].ctype /\ chan'[g].failed = chan[g].failed
             /\ \/ chan'[g].pc = chan[g].pc /\ g \notin Serving
                \/ g \in Serving /\ chan'[g].pc = "stranded"
  <2>1. chan[g] \in Channel
    BY DEF IInv, Shape
  <2>2. chan'[g] = Strand(chan[g])
    BY DEF SshfsEnds
  <2> QED BY <2>1, <2>2 DEF Strand, Serving, Channel
<1>3. chan' \in [Opens -> Channel]
  BY <1>2 DEF SshfsEnds
<1>4. InUse' = InUse /\ Serving' = {}
  BY <1>2 DEF InUse, Serving
<1>5. Shape' /\ Files' /\ OpenFds'
  BY <1>1, <1>2, <1>3, <1>4 DEF IInv, Shape, Files, OpenFds
<1>6. Slots'
  BY <1>1, <1>4, SlotsFrame
<1>7. Lock'
  BY <1>2, <1>4 DEF IInv, Lock, Serving
<1>8. ASSUME Alone PROVE Alone'
  <2>1. ASSUME NEW g \in InUse PROVE Current(g)'
    <3>1. Current(g) /\ g \in Opens
      BY <1>8 DEF Alone, InUse
    <3> QED BY <1>1, <1>2, <3>1 DEF Current, Serving
  <2>2. ASSUME NEW g \in Opens \ InUse PROVE Safe(g)'
    <3>1. Safe(g)
      BY <1>8 DEF Alone
    <3> QED BY <1>1, <1>2, <1>4, <3>1 DEF Safe
  <2> QED BY <1>1, <1>4, <1>8, <2>1, <2>2 DEF Alone
<1> QED BY <1>1, <1>5, <1>6, <1>7, <1>8 DEF IInv

\* The connection ends: every recording is closed, and the channels that have no
\* child are gone.
Ended(c) == [c EXCEPT !.fd = 0, !.pc = IF @ = "larval" THEN "closed" ELSE @]
Ends ==
  /\ ~over /\ over' = TRUE /\ chan' = [g \in Opens |-> Ended(chan[g])]
  /\ sshtype' = sshtype /\ playback' = playback /\ nalloc' = nalloc /\ file' = file /\ calm' = calm
  /\ \/ dir' = dir /\ mount' = mount
     \/ InUse # {} /\ dir' = Unused(dir, playback) /\ mount' = Detached

\* However the connection ends, the recordings of its shells stay.
LEMMA ConnectionEnds ==
  ASSUME IInv, Ends
  PROVE  IInv'
<1>0. /\ over' = TRUE /\ sshtype' = sshtype /\ playback' = playback /\ nalloc' = nalloc
      /\ file' = file /\ calm' = calm
  BY DEF Ends
<1>1. /\ chan \in [Opens -> Channel] /\ dir \in [Seconds -> Nat] /\ playback \in Seconds \cup {-1}
      /\ mount \in {"none", "mounted", "empty", "detached"}
  BY DEF IInv, Shape
<1>2. ASSUME NEW g \in Opens
      PROVE  /\ chan'[g] \in Channel /\ chan'[g].fd = 0 /\ chan'[g].kind = chan[g].kind
             /\ chan'[g].wrote = chan[g].wrote /\ chan'[g].cname = chan[g].cname
             /\ chan'[g].ctype = chan[g].ctype /\ chan'[g].failed = chan[g].failed
             /\ chan'[g].pc = (IF chan[g].pc = "larval" THEN "closed" ELSE chan[g].pc)
  <2>1. chan[g] \in Channel
    BY <1>1
  <2>2. chan'[g] = Ended(chan[g])
    BY DEF Ends
  <2> DEFINE p == IF chan[g].pc = "larval" THEN "closed" ELSE chan[g].pc
  <2>3. chan'[g] = [chan[g] EXCEPT !.fd = 0, !.pc = p]
    BY <2>2 DEF Ended
  <2>4. p \in {"none", "larval", "starting", "running", "stranded", "exited", "closed"}
    BY <2>1 DEF Channel
  <2> HIDE DEF p
  <2> DEFINE c == chan[g]
             e == [c EXCEPT !.fd = 0, !.pc = p]
  <2>5. c \in Channel
    BY <2>1
  <2> HIDE DEF c
  <2>6. e \in Channel
    BY <2>4, <2>5 DEF Channel
  <2>7. /\ e.fd = 0 /\ e.kind = c.kind /\ e.wrote = c.wrote /\ e.cname = c.cname
        /\ e.ctype = c.ctype /\ e.failed = c.failed /\ e.pc = p
    BY <2>5 DEF Channel
  <2> QED BY <2>3, <2>6, <2>7 DEF p, c
<1>3. chan' \in [Opens -> Channel]
  BY <1>2 DEF Ends
<1>4. /\ InUse' \subseteq InUse /\ \A g \in InUse : g \notin InUse' => chan[g].pc = "larval"
      /\ \A g \in InUse' : g \in InUse /\ chan'[g].pc = chan[g].pc
      /\ Serving' \subseteq Serving
  BY <1>2 DEF InUse, Serving
<1>5. /\ dir' \in [Seconds -> Nat] /\ \A t \in Seconds : dir'[t] = dir[t] \/ dir'[t] = 0
      /\ \A t \in Seconds : t # playback => dir'[t] = dir[t]
      /\ mount = "none" => dir' = dir
      /\ InUse = {} => dir' = dir
  BY <1>1, UnusedOne DEF Ends
<1>6. /\ mount' \in {"none", "mounted", "empty", "detached"} /\ (mount' = "none" => mount = "none")
      /\ mount = "none" => mount' = "none"
  BY <1>1 DEF Detached, Ends
<1>7. Shape'
  BY <1>0, <1>3, <1>5, <1>6 DEF IInv, Shape
<1>8. Files'
  <2>1. file' = file /\ Len(file) \in Nat
    BY <1>0 DEF IInv, Shape
  <2>2. \A g \in Opens : chan'[g].fd <= Len(file') /\ chan'[g].wrote <= MaxChunks
    BY <1>2, <2>1 DEF IInv, Files
  <2>3. \A t \in Seconds : dir'[t] <= Len(file')
    BY <1>5, <2>1 DEF IInv, Files
  <2> QED BY <2>2, <2>3 DEF Files
<1>9. OpenFds'
  BY <1>0, <1>2 DEF OpenFds
<1>10. Slots' /\ Lock'
  <2>1. \A h \in Opens : chan'[h].pc = "stranded" => chan'[h].kind = "subsystem"
    BY <1>2 DEF IInv, Lock
  <2> QED BY <1>0, <1>4, <1>6, <2>1, SlotsFrame, LockFrame
<1>11. ASSUME Alone PROVE Alone'
  <2>1. \A t \in Seconds : t > playback' => dir'[t] = 0
    BY <1>0, <1>5, <1>11 DEF Alone
  <2>2. \A g, h \in InUse' : g = h
    BY <1>4, <1>11 DEF Alone
  <2>3. ASSUME NEW g \in InUse' PROVE Current(g)'
    <3>1. Current(g) /\ g \in Opens /\ chan'[g].pc = chan[g].pc /\ chan[g].pc # "larval"
      <4>1. g \in InUse /\ g \in Opens /\ chan'[g].pc = chan[g].pc
        BY <1>4, <2>3 DEF InUse
      <4>2. chan[g].pc # "larval"
        BY <1>2, <4>1
      <4> QED BY <1>11, <4>1, <4>2 DEF Alone
    <3>2. chan'[g].kind = "shell" => dir' = dir
      BY <1>2, <1>5, <3>1 DEF Current
    <3>3. chan[g].kind # "none"
      BY <3>1 DEF Current
    <3> QED BY <1>0, <1>2, <1>6, <3>1, <3>2, <3>3 DEF Current
  <2>4. ASSUME NEW g \in Opens \ InUse' PROVE Safe(g)'
    <3>1. CASE g \in InUse
      <4>1. Current(g) /\ chan[g].pc = "larval"
        BY <1>4, <1>11, <2>4, <3>1 DEF Alone
      <4>2. chan'[g].kind = "none"
        BY <1>2, <4>1 DEF Current
      <4> QED BY <4>2 DEF Safe
    <3>2. CASE g \notin InUse
      <4>1. Safe(g)
        BY <1>11, <2>4, <3>2 DEF Alone
      <4> SUFFICES ASSUME chan[g].kind = "shell" /\ chan[g].wrote > 0 /\ ~chan[g].failed PROVE Safe(g)'
        BY <1>2 DEF Safe
      <4>2. PICK t \in Seconds : /\ dir[t] # 0 /\ Holds(file[dir[t]], g, chan[g].wrote)
                                 /\ t <= playback /\ (InUse # {} => t < playback)
        BY <4>1 DEF Safe
      <4>3. dir'[t] = dir[t]
        <5>1. CASE InUse = {}
          BY <1>5, <5>1
        <5>2. CASE InUse # {}
          <6>1. t # playback
            BY <1>1, <4>2, <5>2, RecordingAssumption DEF Seconds
          <6> QED BY <1>5, <6>1
        <5> QED BY <5>1, <5>2
      <4>4. InUse' # {} => InUse # {}
        BY <1>4
      <4> QED BY <1>0, <1>2, <4>2, <4>3, <4>4 DEF Safe
    <3> QED BY <3>1, <3>2
  <2> QED BY <2>1, <2>2, <2>3, <2>4 DEF Alone
<1> QED BY <1>0, <1>7, <1>8, <1>9, <1>10, <1>11 DEF IInv

\* A new session: its recording has a name of its own where it begins alone.
LEMMA RequestSessionKeeps ==
  ASSUME IInv, NEW g \in Opens, NEW now \in Seconds, NEW ok \in BOOLEAN, RequestSession(g, now, ok)
  PROVE  IInv'
<1> DEFINE new == ok /\ dir[now] = 0
           d == IF new THEN [dir EXCEPT ![now] = Len(file) + 1] ELSE dir
           slot == Cardinality(InUse) < MaxSessions
           fresh == slot /\ Cardinality(InUse) = nalloc
           fd == IF ok THEN d[now] ELSE 0
           c == IF slot THEN [NoChannel EXCEPT !.pc = "larval", !.fd = fd, !.failed = ~ok]
                        ELSE [NoChannel EXCEPT !.pc = "closed"]
<1>1. /\ ~over /\ chan[g].pc = "none" /\ playback <= now /\ playback' = now
      /\ calm' = IF InUse = {} /\ playback # now /\ mount = "none" THEN calm ELSE "no"
      /\ file' = IF new THEN Append(file, <<>>) ELSE file
      /\ dir' = IF fresh THEN Unused(d, now) ELSE d
      /\ mount' = IF fresh THEN Detached ELSE mount
      /\ nalloc' = IF fresh THEN nalloc + 1 ELSE nalloc
      /\ chan' = [chan EXCEPT ![g] = c]
      /\ sshtype' = sshtype /\ over' = over
  BY DEF RequestSession, RecordingName
<1>2. /\ chan \in [Opens -> Channel] /\ dir \in [Seconds -> Nat] /\ playback \in Seconds \cup {-1}
      /\ file \in Seq(Seq(Chunk)) /\ Len(file) \in Nat /\ nalloc \in Nat /\ calm \in {"yes", "no"}
      /\ mount \in {"none", "mounted", "empty", "detached"}
      /\ sshtype \in {"none"} \cup Kinds \cup Extra /\ over \in BOOLEAN
  BY DEF IInv, Shape
<1>3. /\ \A t \in Seconds : dir[t] \in Nat /\ dir[t] <= Len(file)
      /\ \A h \in Opens : chan[h].fd \in Nat /\ chan[h].fd <= Len(file)
  BY <1>2 DEF IInv, Files, Channel
<1>4. /\ d \in [Seconds -> Nat] /\ (ok => d[now] # 0) /\ \A t \in Seconds : t # now => d[t] = dir[t]
      /\ new => d[now] = Len(file) + 1
  BY <1>2
<1>5. /\ file' \in Seq(Seq(Chunk)) /\ Len(file') \in Nat /\ Len(file) <= Len(file')
      /\ \A t \in Seconds : d[t] <= Len(file')
      /\ \A k \in 1..Len(file) : file'[k] = file[k]
      /\ new => Len(file') = Len(file) + 1 /\ file'[Len(file) + 1] = <<>>
  <2>1. <<>> \in Seq(Chunk)
    OBVIOUS
  <2>2. CASE new
    <3>1. file' = Append(file, <<>>)
      BY <1>1, <2>2
    <3>2. /\ file' \in Seq(Seq(Chunk)) /\ Len(file') = Len(file) + 1
          /\ \A k \in 1..Len(file) : file'[k] = file[k]
      BY <1>2, <2>1, <3>1
    <3>3. file'[Len(file) + 1] = <<>>
      BY <1>2, <2>1, <3>1
    <3>4. \A t \in Seconds : d[t] <= Len(file')
      <4>1. \A t \in Seconds : d[t] = dir[t] \/ d[t] = Len(file) + 1
        BY <1>4, <2>2
      <4> HIDE DEF d
      <4>2. Len(file') = Len(file) + 1 /\ \A t \in Seconds : dir[t] \in Nat /\ dir[t] <= Len(file)
        BY <1>3, <3>2
      <4> QED BY <1>2, <4>1, <4>2, SMTT(30)
    <3> HIDE DEF d
    <3> QED BY <1>2, <3>2, <3>3, <3>4
  <2>3. CASE ~new
    BY <1>1, <1>2, <1>3, <2>3
  <2> QED BY <2>2, <2>3
<1> HIDE DEF d
<1>6. /\ c \in Channel /\ c.kind = "none" /\ c.wrote = 0 /\ c.fd \in {0, d[now]}
      /\ slot => c.pc = "larval" /\ c.fd = fd /\ c.failed = ~ok
      /\ ~slot => c.pc = "closed" /\ c.fd = 0
  <2>1. fd \in {0, d[now]} /\ fd \in Nat
    BY <1>4
  <2>2. PICK b \in BOOLEAN : b = ~ok
    BY Zenon
  <2> HIDE DEF fd, slot
  <2> QED BY <1>2, <1>4, <2>1, <2>2 DEF NoChannel, Channel
<1> HIDE DEF c
<1>7. Only(g) /\ chan'[g] = c
  BY <1>1, <1>6, SetChannel
<1>8. /\ g \notin InUse /\ slot => InUse' = InUse \cup {g}
      /\ ~slot => InUse' = InUse
  BY <1>1, <1>6, <1>7 DEF InUse, Only
<1>9. Serving' = Serving
  BY <1>1, <1>6, <1>7 DEF Serving, Only
<1>10. /\ mount' \in {"none", "mounted", "empty", "detached"} /\ (mount' = "none" => mount = "none")
       /\ mount = "none" => mount' = "none"
  BY <1>1, <1>2 DEF Detached
<1>11. /\ dir' \in [Seconds -> Nat] /\ \A t \in Seconds : dir'[t] = d[t] \/ dir'[t] = 0
       /\ mount = "none" => dir' = d
  BY <1>1, <1>4, UnusedOne
<1>12. Shape'
  BY <1>1, <1>2, <1>5, <1>7, <1>10, <1>11 DEF Shape, Only
<1>13. Files'
  <2>1. \A t \in Seconds : dir'[t] <= Len(file')
    BY <1>5, <1>11
  <2>2. \A h \in Opens \ {g} : chan'[h].fd <= Len(file') /\ chan'[h].wrote <= MaxChunks
    <3>1. \A h \in Opens \ {g} : chan'[h].fd = chan[h].fd /\ chan'[h].wrote <= MaxChunks
      BY <1>7 DEF IInv, Files, Only
    <3> QED BY <1>3, <1>5, <3>1
  <2>3. chan'[g].fd <= Len(file') /\ chan'[g].wrote <= MaxChunks
    BY <1>5, <1>6, <1>7, RecordingAssumption
  <2> QED BY <2>1, <2>2, <2>3 DEF Files
<1>14. OpenFds'
  <2>1. \A h \in Opens \ {g} : chan'[h] = chan[h] /\ (h \in InUse' <=> h \in InUse)
    BY <1>7 DEF Only, InUse
  <2>2. chan'[g].fd # 0 => g \in InUse'
    BY <1>4, <1>6, <1>7 DEF InUse
  <2> QED BY <1>1, <2>1, <2>2 DEF IInv, OpenFds
<1>15. Slots'
  <2>1. Cardinality(InUse) \in Nat /\ Cardinality(InUse) <= nalloc /\ nalloc <= MaxSessions
        /\ MaxSessions \in Nat
    BY InUseFinite, RecordingAssumption DEF IInv, Slots
  <2>2. CASE slot
    <3>1. InUse' = InUse \cup {g} /\ g \notin InUse
      BY <1>1, <1>8, <2>2 DEF InUse
    <3>2. Cardinality(InUse') = Cardinality(InUse) + 1
      BY <3>1, InUseFinite, FS_AddElement
    <3> HIDE DEF slot
    <3>3. CASE fresh
      <4>1. nalloc' = nalloc + 1 /\ Cardinality(InUse) = nalloc /\ nalloc < MaxSessions
        BY <1>1, <2>2, <3>3 DEF slot
      <4> QED BY <1>2, <2>1, <3>2, <4>1 DEF Slots
    <3>4. CASE ~fresh
      <4>1. nalloc' = nalloc /\ Cardinality(InUse) # nalloc
        BY <1>1, <2>2, <3>4
      <4> QED BY <1>2, <2>1, <3>2, <4>1 DEF Slots
    <3> QED BY <3>3, <3>4
  <2>3. CASE ~slot
    BY <1>1, <1>8, <2>1, <2>3 DEF Slots
  <2> QED BY <2>2, <2>3
<1>16. Lock'
  <2>1. \A h \in Opens : chan'[h].pc = "stranded" => chan'[h].kind = "subsystem"
    BY <1>6, <1>7 DEF IInv, Lock, Only
  <2> QED BY <1>9, <1>10, <2>1, LockFrame
<1>17. ASSUME calm' = "yes" PROVE Alone'
  <2>1. Alone /\ InUse = {} /\ playback # now /\ mount = "none"
    BY <1>1, <1>17 DEF IInv
  <2>2. /\ now \in Int /\ playback \in Int /\ playback < now /\ \A t \in Seconds : t \in Int
    BY <1>1, <1>2, <2>1, RecordingAssumption DEF Seconds
  <2>3. dir[now] = 0 /\ (ok => new)
    BY <2>1, <2>2 DEF Alone
  <2>4. slot
    BY <2>1, FS_EmptySet, RecordingAssumption
  <2>5. /\ dir' = d /\ mount' = "none" /\ InUse' = {g} /\ chan'[g].pc = "larval"
        /\ chan'[g].failed = ~ok /\ chan'[g].kind = "none" /\ chan'[g].wrote = 0
        /\ ok => d[now] = Len(file) + 1 /\ file'[d[now]] = <<>> /\ chan'[g].fd = d[now]
    BY <1>4, <1>5, <1>6, <1>7, <1>8, <1>10, <1>11, <2>1, <2>3, <2>4
  <2>6. Current(g)'
    <3>1. Holds(<<>>, g, 0)
      BY DEF Holds
    <3> QED BY <1>1, <1>4, <2>5, <3>1 DEF Current
  <2>7. ASSUME NEW h \in Opens \ InUse' PROVE Safe(h)'
    <3>1. h # g /\ h \in Opens \ InUse /\ chan'[h] = chan[h]
      BY <1>7, <2>1, <2>5, <2>7 DEF Only
    <3> SUFFICES ASSUME chan[h].kind = "shell" /\ chan[h].wrote > 0 /\ ~chan[h].failed PROVE Safe(h)'
      BY <3>1 DEF Safe
    <3>2. PICK t \in Seconds : dir[t] # 0 /\ Holds(file[dir[t]], h, chan[h].wrote) /\ t <= playback
      BY <2>1, <3>1 DEF Alone, Safe
    <3>3. t < now /\ t <= now /\ t # now
      BY <2>2, <3>2
    <3>4. dir'[t] = dir[t] /\ dir[t] \in 1..Len(file)
      BY <1>2, <1>3, <1>4, <2>5, <3>2, <3>3
    <3>5. file'[dir'[t]] = file[dir[t]]
      BY <1>5, <3>4
    <3> QED BY <1>1, <3>1, <3>2, <3>3, <3>4, <3>5 DEF Safe
  <2>8. \A t \in Seconds : t > playback' => dir'[t] = 0
    <3>1. \A t \in Seconds : t > now => t > playback /\ t # now
      BY <2>2
    <3> QED BY <1>1, <1>4, <2>1, <2>5, <3>1 DEF Alone
  <2> QED BY <2>5, <2>6, <2>7, <2>8 DEF Alone
<1> QED BY <1>12, <1>13, <1>14, <1>15, <1>16, <1>17 DEF IInv

-----------------------------------------------------------------------------
(* The theorems.                                                           *)

\* The invariant holds before the first session.
LEMMA InitIInv == Init => IInv
<1> SUFFICES ASSUME Init PROVE IInv
  OBVIOUS
<1>1. /\ sshtype = "none" /\ playback = -1 /\ nalloc = 0 /\ chan = [g \in Opens |-> NoChannel]
      /\ dir = [t \in Seconds |-> 0] /\ file = <<>> /\ mount = "none" /\ calm = "yes" /\ over = FALSE
  BY DEF Init
<1>2. /\ NoChannel \in Channel /\ NoChannel.pc = "none" /\ NoChannel.fd = 0 /\ NoChannel.wrote = 0
      /\ NoChannel.kind = "none"
  BY DEF NoChannel, Channel
<1>3. file \in Seq(Seq(Chunk)) /\ Len(file) = 0
  BY <1>1
<1>4. InUse = {} /\ Serving = {}
  BY <1>1, <1>2 DEF InUse, Serving
<1>5. Shape
  BY <1>1, <1>2, <1>3 DEF Shape
<1>6. Files /\ OpenFds
  BY <1>1, <1>2, <1>3, <1>4, RecordingAssumption DEF Files, OpenFds
<1>7. Slots /\ Lock
  <2>1. \A g \in Opens : chan[g].pc # "stranded"
    BY <1>1, <1>2
  <2> QED BY <1>1, <1>4, <2>1, FS_EmptySet, RecordingAssumption DEF Slots, Lock
<1>8. Alone
  BY <1>1, <1>2, <1>4 DEF Alone, Safe
<1> QED BY <1>5, <1>6, <1>7, <1>8 DEF IInv

\* Every step of the process, the children and sshfs keeps the invariant.
LEMMA NextKeeps == IInv /\ [Next]_vars => IInv'
<1> SUFFICES ASSUME IInv, [Next]_vars PROVE IInv'
  OBVIOUS
<1>1. CASE UNCHANGED vars
  BY <1>1 DEF vars, IInv, Shape, Files, OpenFds, Slots, Lock, Serving, Alone, Current, Safe, InUse
<1>2. CASE Next
  <2>1. CASE ConnectionClosed
    <3>1. Ends
      BY <2>1 DEF ConnectionClosed, Ends, Ended
    <3> QED BY <3>1, ConnectionEnds
  <2>2. CASE ConnectionAborted
    <3>1. Ends
      BY <2>2 DEF ConnectionAborted, Ends, Ended
    <3> QED BY <3>1, ConnectionEnds
  <2>3. CASE SshfsEnds
    BY <2>3, SshfsEndsKeeps
  <2>4. ASSUME NEW g \in Opens, NEW ok \in BOOLEAN, HandleRfd(g, ok) PROVE IInv'
    BY <2>4, HandleRfdKeeps
  <2>5. ASSUME NEW g \in Opens, CloseSession(g) PROVE IInv'
    BY <2>5, CloseSessionKeeps
  <2>6. ASSUME NEW g \in Opens, ChildExits(g) PROVE IInv'
    BY <2>6, ChildExitsKeeps
  <2>7. ASSUME NEW g \in Opens, NEW now \in Seconds, NEW ok \in BOOLEAN, RequestSession(g, now, ok) PROVE IInv'
    BY <2>7, RequestSessionKeeps
  <2>8. ASSUME NEW g \in Opens, NEW reached \in {"yes", "no"}, ChildRuns(g, reached) PROVE IInv'
    BY <2>8, ChildRunsKeeps
  <2>9. ASSUME NEW g \in Opens, NEW k \in Kinds, StartRequest(g, k) PROVE IInv'
    BY <2>9, StartRequestKeeps
  <2>10. ASSUME NEW g \in Opens, NEW k \in Extra, OtherRequest(g, k) PROVE IInv'
    BY <2>10, OtherRequestKeeps
  <2>11. ASSUME NEW g \in Opens, NEW ok \in BOOLEAN, ChildMounts(g, ok) PROVE IInv'
    BY <2>11, ChildMountsKeeps
  <2> QED BY <1>2, <2>1, <2>2, <2>3, <2>4, <2>5, <2>6, <2>7, <2>8, <2>9, <2>10, <2>11 DEF Next
<1> QED BY <1>1, <1>2

\* The inductive invariant holds in every reachable state.
LEMMA Invariance == Spec => []IInv
BY InitIInv, NextKeeps, PTL DEF Spec

\* A recording that is open or in the directory exists, and is open only while
\* its channel is in use; no more sessions than slots.
THEOREM RecordingTypeCorrect == Spec => []TypeOK
<1>1. IInv => TypeOK
  <2> SUFFICES ASSUME IInv PROVE TypeOK
    OBVIOUS
  <2>1. Shape /\ Files /\ OpenFds /\ Slots
    BY DEF IInv
  <2>2. /\ playback \in Seconds \cup {-1} /\ sshtype \in {"none"} \cup Kinds \cup Extra
        /\ mount \in {"none", "mounted", "empty", "detached"} /\ calm \in {"yes", "no"}
        /\ Cardinality(InUse) <= nalloc
    BY <2>1 DEF Shape, Slots
  <2>3. nalloc \in 0..MaxSessions
    BY <2>1, RecordingAssumption DEF Shape, Slots
  <2>4. \A t \in Seconds : dir[t] \in 0..Len(file)
    BY <2>1 DEF Shape, Files
  <2>5. ASSUME NEW g \in Opens
        PROVE  /\ chan[g].pc \in {"none", "larval", "starting", "running", "stranded", "exited", "closed"}
               /\ chan[g].fd \in 0..Len(file) /\ chan[g].wrote \in 0..MaxChunks
               /\ (chan[g].fd # 0) => (~over /\ g \in InUse)
    <3>1. chan[g].pc \in {"none", "larval", "starting", "running", "stranded", "exited", "closed"}
          /\ chan[g].fd \in Nat /\ chan[g].wrote \in Nat /\ Len(file) \in Nat
      BY <2>1 DEF Shape, Channel
    <3> QED BY <2>1, <3>1, RecordingAssumption DEF Files, OpenFds
  <2> QED BY <2>2, <2>3, <2>4, <2>5 DEF TypeOK
<1> QED BY <1>1, Invariance, PTL

\* Whatever a shell shows is in a recording that is there, in full and in order,
\* while sessions begin alone and get no request but for their window size,
\* through every removal of session_unused(), do_child() and the ends of the
\* connection.  An open() or write() that fails costs its own session only.
THEOREM RecordedAlone == Spec => []RecordedWhenAlone
<1>1. IInv => RecordedWhenAlone
  <2> SUFFICES ASSUME IInv, calm = "yes", NEW g \in Opens, chan[g].kind = "shell",
                      chan[g].wrote > 0, ~chan[g].failed
               PROVE  \E t \in Seconds : dir[t] # 0 /\ Holds(file[dir[t]], g, chan[g].wrote)
    BY DEF RecordedWhenAlone, Recorded
  <2>1. Alone
    BY DEF IInv
  <2>2. CASE g \in InUse
    BY <2>1, <2>2 DEF Alone, Current
  <2>3. CASE g \notin InUse
    BY <2>1, <2>3 DEF Alone, Safe
  <2> QED BY <2>2, <2>3
<1> QED BY <1>1, Invariance, PTL

\* mkdir() of the mount point in do_child() is the lock of sftp sessions: one is
\* served at a time, and its mount is there, whenever sshfs ends.
THEOREM MountExclusive == Spec => []SftpExclusive
<1>1. IInv => SftpExclusive
  <2> SUFFICES ASSUME IInv PROVE Cardinality(Serving) <= 1 /\ (Serving # {} => mount # "none")
    BY DEF SftpExclusive, Serving, IInv, Lock
  <2>1. Lock
    BY DEF IInv
  <2>2. CASE Serving = {}
    BY <2>2, FS_EmptySet
  <2>3. CASE Serving # {}
    <3>1. PICK g : g \in Serving
      BY <2>3
    <3>2. Serving = {g} /\ mount # "none"
      BY <2>1, <3>1 DEF Lock
    <3>3. Cardinality({g}) = 1
      BY FS_Singleton, Zenon
    <3> QED BY <3>2, <3>3
  <2> QED BY <2>2, <2>3
<1> QED BY <1>1, Invariance, PTL
=============================================================================
