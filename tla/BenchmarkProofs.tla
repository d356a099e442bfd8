---------------------------- MODULE BenchmarkProofs ----------------------------
(***************************************************************************)
(* Proofs about BenchmarkCache, for all processes, objects and any number  *)
(* of calls, failing system calls, kills and power losses, and, at the     *)
(* end, about Benchmark, the commands above it.                            *)
(***************************************************************************)
EXTENDS BenchmarkCache, MCBenchmark, FiniteSetTheorems, FunctionTheorems, TLAPS

-----------------------------------------------------------------------------
(* The invariant.                                                          *)

LinkSteps == {"look", "resync", "link", "unlink", "sync", "observe", "reconcile", "absent"}
SwapSteps == {"preflight", "recheck", "swap", "explain", "reread", "syncroot", "reopen"}
WriteSteps == {"write", "flush"}

Outcome == {"none", "ok", "failed", "kept", "unknown", "refused"}

\* The versions a file can have, that of a torn one included.
Bytes == 0..(MaxCalls + 1) \union {Torn}

Stage == [job : AllJobs \union {"none", "undo"},
          pc : LinkSteps \union SwapSteps \union WriteSteps
                 \union {"idle", "lock", "verify", "remove"},
          name : Name \union {"none"}, ino : 0..MaxInode, seen : 0..MaxInode,
          done : SUBSET Object, prev : [Pair -> Bytes], ver : Bytes,
          out : Outcome]

Prepares(s) == s.job \in {"sources", "evidence"}
Pairs(s) == s.job \in {"annotate", "undo"}

\* Which steps, files and fields go with which job.
Course(s) ==
    /\ s.pc = "idle" => s.ino = None /\ s.job = "none"
    /\ s.pc # "idle" => \/ Prepares(s) /\ s.name \in Refs(MarkerOf(s.job)) \union {MarkerOf(s.job)}
                        \/ Pairs(s) /\ s.name \in Pair
                        \/ s.job = "save" /\ s.name = "review-bundle"
    /\ s.pc \in LinkSteps => s.name \in Object
    /\ s.pc \in SwapSteps \union {"lock", "verify", "remove"} => s.name \notin Object
    /\ s.pc = "verify" => s.name \in Marker
    /\ s.pc = "lock" => s.job = "annotate" /\ s.name = "annotation-universe"
    /\ s.pc = "remove" => s.job = "undo" /\ s.prev[s.name] = None
    /\ s.job = "undo" => s.ver = s.prev[s.name]
    /\ s.name \in Object => s.seen = None

Typed ==
    /\ TypeOK
    /\ st \in [Proc -> Stage] /\ calls \in 0..MaxCalls
    /\ \A p \in Proc : Course(st[p])

\* Only complete files of their own get names.
Links ==
    \A d \in {dir, disk}, n \in Name :
      d.name[n] # None => file[d.name[n]].name = n /\ file[d.name[n]].flushed

\* What was on disk stays, but for the pair, which can be put back.
Lasting == \A n \in Name \ Pair : disk.name[n] # None => Present(n)

\* A file lies in a directory there is.
Housed ==
    \A n \in Name : dir.name[n] # None \/ disk.name[n] # None => Area(n) \in spaces

\* What was reported is in its directory as that is on disk.
Kept == \A n \in acked : disk.name[n] # None

\* Each process has a file of its own.
OwnFiles ==
    \A p \in Proc :
      /\ st[p].ino # None => st[p].ino <= made
      /\ st[p].seen <= made
      /\ \A q \in Proc : p # q /\ st[p].ino # None => st[p].ino # st[q].ino

\* The file a process works on is named for it, and linked when the step before says so.
Working(s) ==
    /\ s.pc \in {"flush", "link", "reconcile", "absent", "recheck", "swap", "explain"} =>
         s.ino # None /\ file[s.ino].name = s.name /\ s.seen # s.ino
    /\ s.pc \in {"link", "recheck", "swap"} => file[s.ino].flushed
    /\ s.pc \in {"flush", "link", "recheck", "swap", "absent"} =>
         \A n \in Name : dir.name[n] # s.ino
    /\ s.pc = "absent" => s.ino \notin dir.temp
    /\ s.pc \in {"write", "flush", "link", "recheck", "swap"} => Area(s.name) \in spaces

\* What a preparation has behind it.
Preparing(s) ==
    /\ s.pc # "idle" /\ Prepares(s) =>
         \A o \in Refs(MarkerOf(s.job)) :
            o \in s.done \/ s.name \in Marker => disk.name[o] # None
    /\ s.pc \in {"resync", "unlink", "sync"} => Present(s.name)
    /\ s.pc = "observe" => disk.name[s.name] # None
    /\ s.pc \in {"reread", "syncroot"} /\ s.name \in Marker => Present(s.name)
    /\ s.pc = "reopen" /\ s.name \in Marker =>
         disk.name[s.name] # None /\ \A o \in Refs(s.name) : Area(o) \in rooted
    /\ s.name = "cache-index" /\ s.pc \notin {"idle", "verify"} => Present("criteria-source-index")
    /\ s.name = "cache-index" /\ s.pc = "reopen" => disk.name["criteria-source-index"] # None

\* What the writer of a pair has behind it.
Pairing(s) ==
    /\ s.job = "annotate" /\ s.name = "annotation-review" =>
         /\ VersionOf("annotation-universe") = s.ver
         /\ disk.name["annotation-universe"] = dir.name["annotation-universe"]
    /\ s.job = "annotate" /\ s.pc = "reopen" => disk.name[s.name] = dir.name[s.name]
    /\ s.job = "undo" /\ s.name = "annotation-review" =>
         VersionOf("annotation-universe") = s.prev["annotation-universe"]

CacheInv ==
    /\ Typed /\ Links /\ Lasting /\ Housed /\ OwnFiles /\ Kept /\ AckedSurvives
    /\ \A p \in Proc : Working(st[p]) /\ Preparing(st[p]) /\ Pairing(st[p])

-----------------------------------------------------------------------------
(* One process moves.                                                      *)

\* s holds the annotation lock.
Holds(s) == Pairs(s) /\ s.pc # "lock"

\* p goes on as s, and the lock goes with it.
Moves(p, s) ==
    /\ s \in Stage /\ Course(s)
    /\ st' = [st EXCEPT ![p] = s]
    /\ \/ lock' = lock /\ (Holds(s) <=> Holds(st[p]))
       \/ lock = "free" /\ lock' = p /\ Holds(s)
       \/ lock' = (IF lock = p THEN "free" ELSE lock) /\ ~Holds(s)

\* What a step of p leaves alone, or changes for its own file alone.
Frame(p) ==
    /\ made' \in {made, made + 1} /\ made' <= MaxInode /\ calls' \in 0..MaxCalls
    /\ {dir', disk'} \subseteq [name : [Name -> 0..made'], temp : SUBSET (1..made')]
    /\ dir'.temp \subseteq dir.temp \union {made + 1}
    /\ \A n \in Name : dir'.name[n] # dir.name[n] =>
         /\ n = st[p].name
         /\ n \in Pair => lock = p
         /\ \/ st[p].pc \in {"link", "swap"} /\ dir'.name[n] = st[p].ino
            \/ n \in Pair /\ dir'.name[n] = None
    /\ \A n \in Name : disk'.name[n] \in {disk.name[n], dir'.name[n]}
    /\ spaces \subseteq spaces' /\ spaces' \subseteq Areas
    /\ rooted \subseteq rooted' /\ rooted' \subseteq spaces'
    /\ file' \in [Inode -> [name : Name \union {"none"}, ver : Bytes, flushed : BOOLEAN]]
    /\ \A i \in 1..made : /\ file'[i].name = file[i].name /\ file'[i].ver = file[i].ver
                          /\ file[i].flushed => file'[i].flushed

\* What p has to show of itself afterwards.
Shows(p, s) ==
    /\ s.ino \in {None, st[p].ino} \/ (made' = made + 1 /\ s.ino = made')
    /\ s.seen <= made
    /\ Working(s)' /\ Preparing(s)' /\ Pairing(s)'

\* What is newly reported is on disk.
Reports ==
    /\ acked \subseteq acked' /\ acked' \subseteq Object \union Marker
    /\ \A n \in acked' \ acked :
         /\ disk'.name[n] # None
         /\ n \in Marker => \A o \in Refs(n) : disk'.name[o] # None /\ Area(o) \in rooted'
         /\ n = "cache-index" => disk'.name["criteria-source-index"] # None

\* Names of objects and of the other files differ.
LEMMA NamesDiffer ==
    /\ Object \subseteq Name /\ Marker \subseteq Name /\ Pair \subseteq Name
    /\ \A n \in Object : n \notin Marker /\ n \notin Pair /\ n # "review-bundle"
    /\ \A n \in Marker : n \notin Pair /\ n # "review-bundle"
    /\ "review-bundle" \notin Pair
    /\ \A n \in Name : n \in Object \/ n \in Marker \/ n \in Pair \/ n = "review-bundle"
    /\ \A n : Refs(n) \subseteq Object /\ Refs(n) # {}
    /\ \A job : MarkerOf(job) \in Marker
  BY CacheAssumption DEF Name, Object, Marker, Pair, Refs, MarkerOf

\* The markers and the pair lie in the root.
LEMMA Directories ==
    /\ \A n : Area(n) \in Areas
    /\ \A n \in Marker \union Pair : Area(n) = "root"
  <1>1. \A n \in Marker \union Pair : n \notin SourceObj /\ n \notin Row /\ n \notin HeadFile
                                      /\ n # "review-bundle"
    BY NamesDiffer DEF Object, EvidenceObj
  <1> QED
    BY <1>1 DEF Area, Areas

\* After a step of p the names lead where they did, or to the file of p.
LEMMA LinksKept ==
    ASSUME CacheInv, NEW p \in Proc, Frame(p)
    PROVE  /\ Links' /\ Lasting' /\ Housed'
           /\ \A n \in Name \ Pair : /\ dir.name[n] # None => dir'.name[n] # None
                                     /\ disk.name[n] # None => disk'.name[n] # None
  <1>1. /\ {dir, disk} \subseteq [name : [Name -> 0..made], temp : SUBSET (1..made)]
        /\ made \in 0..MaxInode /\ st[p] \in Stage
    BY DEF CacheInv, Typed, TypeOK
  <1>2. Working(st[p])
    BY DEF CacheInv
  <1>3. ASSUME NEW n \in Name, dir'.name[n] # None
        PROVE  file'[dir'.name[n]].name = n /\ file'[dir'.name[n]].flushed
    <2>1. CASE dir'.name[n] = dir.name[n]
      <3>1. dir.name[n] \in 1..made
        BY <1>1, <1>3, <2>1 DEF None
      <3> QED
        BY <1>3, <2>1, <3>1 DEF Frame, CacheInv, Links
    <2>2. CASE dir'.name[n] # dir.name[n]
      <3>1. /\ st[p].pc \in {"link", "swap"} /\ dir'.name[n] = st[p].ino /\ n = st[p].name
            /\ st[p].ino # None
        BY <1>3, <2>2 DEF Frame
      <3>2. file[st[p].ino].name = n /\ file[st[p].ino].flushed /\ st[p].ino \in 1..made
        BY <1>1, <1>2, <3>1 DEF Working, CacheInv, OwnFiles, None, Stage
      <3> QED
        BY <3>1, <3>2 DEF Frame
    <2> QED
      BY <2>1, <2>2
  <1>4. ASSUME NEW n \in Name, disk'.name[n] # None
        PROVE  file'[disk'.name[n]].name = n /\ file'[disk'.name[n]].flushed
    <2>1. CASE disk'.name[n] = disk.name[n]
      <3>1. disk.name[n] \in 1..made
        BY <1>1, <1>4, <2>1 DEF None
      <3> QED
        BY <1>4, <2>1, <3>1 DEF Frame, CacheInv, Links
    <2> QED
      BY <1>3, <1>4, <2>1 DEF Frame
  <1>5. \A n \in Name \ Pair : dir.name[n] # None => dir'.name[n] # None
    <2> SUFFICES ASSUME NEW n \in Name \ Pair, dir.name[n] # None, dir'.name[n] = None
                 PROVE  FALSE
      OBVIOUS
    <2>1. st[p].pc \in {"link", "swap"} /\ st[p].ino = None
      BY DEF Frame
    <2> QED
      BY <1>2, <2>1 DEF Working
  <1>6. \A n \in Name \ Pair : disk.name[n] # None => disk'.name[n] # None /\ dir'.name[n] # None
    BY <1>5 DEF Frame, CacheInv, Lasting, Present
  <1>7. Lasting'
    BY <1>5, <1>6 DEF Frame, CacheInv, Lasting, Present
  <1>8. Housed'
    <2>1. ASSUME NEW n \in Name, dir'.name[n] # None PROVE Area(n) \in spaces'
      <3>1. CASE dir'.name[n] = dir.name[n]
        BY <2>1, <3>1 DEF CacheInv, Housed, Frame
      <3>2. CASE dir'.name[n] # dir.name[n]
        BY <1>2, <2>1, <3>2 DEF Frame, Working
      <3> QED
        BY <3>1, <3>2
    <2>2. ASSUME NEW n \in Name, disk'.name[n] # None PROVE Area(n) \in spaces'
      BY <2>1, <2>2 DEF CacheInv, Housed, Frame
    <2> QED
      BY <2>1, <2>2 DEF Housed
  <1> QED
    BY <1>3, <1>4, <1>5, <1>6, <1>7, <1>8 DEF Links

\* The other processes are where they were, with what they had.
LEMMA OthersKept ==
    ASSUME CacheInv, NEW p \in Proc, NEW s, Moves(p, s), Frame(p), NEW q \in Proc, q # p
    PROVE  Working(st[q])' /\ Preparing(st[q])' /\ Pairing(st[q])'
  <1>1. /\ {dir, disk} \subseteq [name : [Name -> 0..made], temp : SUBSET (1..made)]
        /\ made \in 0..MaxInode /\ st[p] \in Stage /\ st[q] \in Stage /\ Course(st[q])
        /\ Working(st[q]) /\ Preparing(st[q]) /\ Pairing(st[q])
    BY DEF CacheInv, Typed, TypeOK
  <1>2. st'[q] = st[q]
    BY DEF Moves, CacheInv, Typed
  <1>3. \A n \in Name \ Pair : /\ dir.name[n] # None => dir'.name[n] # None
                               /\ disk.name[n] # None => disk'.name[n] # None
    BY LinksKept
  <1>4. Working(st[q])'
    <2>1. st[q].ino # None => st[q].ino \in 1..made /\ st[q].ino # st[p].ino
      BY <1>1 DEF CacheInv, OwnFiles, Stage, None
    <2>2. st[q].ino # None => \A n \in Name : dir'.name[n] = st[q].ino => dir.name[n] = st[q].ino
      BY <2>1 DEF Frame
    <2>3. st[q].ino # None => /\ st[q].ino \in dir'.temp => st[q].ino \in dir.temp
                              /\ file'[st[q].ino].name = file[st[q].ino].name
                              /\ file[st[q].ino].flushed => file'[st[q].ino].flushed
      BY <1>1, <2>1 DEF Frame
    <2>4. spaces \subseteq spaces'
      BY DEF Frame
    <2> QED
      BY <1>1, <1>2, <2>2, <2>3, <2>4 DEF Working
  <1>5. Preparing(st[q])'
    <2>1. Marker \union Object \subseteq Name \ Pair
      <3>1. Marker \subseteq Name /\ Object \subseteq Name
        BY NamesDiffer
      <3>2. \A n \in Marker \union Object : n \notin Pair
        BY NamesDiffer
      <3> QED
        BY <3>1, <3>2
    <2>2. ASSUME NEW n \in Marker \union Object
          PROVE  /\ dir.name[n] # None => dir'.name[n] # None
                 /\ disk.name[n] # None => disk'.name[n] # None
      <3>1. n \in Name \ Pair
        BY <2>1
      <3> QED
        BY <1>3, <3>1
    <2>4. "criteria-source-index" \in Marker
      BY DEF Marker
    <2>5. st[q].pc \in {"resync", "unlink", "sync", "observe"} => st[q].name \in Object
      BY <1>1 DEF Course, LinkSteps
    <2>6. rooted \subseteq rooted'
      BY DEF Frame
    <2> QED
      BY <1>1, <1>2, <2>2, <2>4, <2>5, <2>6, NamesDiffer DEF Preparing, Present
  <1>6. Pairing(st[q])'
    <2> DEFINE u == "annotation-universe"
    <2>1. CASE Pairs(st[q]) /\ st[q].pc # "lock"
      <3>1. lock = q
        BY <1>1, <2>1 DEF CacheInv, Typed, TypeOK, Pairs
      <3>2. \A n \in Pair : dir'.name[n] = dir.name[n]
        BY <3>1, NamesDiffer DEF Frame
      <3>3. \A n \in Pair : disk.name[n] = dir.name[n] => disk'.name[n] = dir'.name[n]
        BY <3>2, NamesDiffer DEF Frame
      <3>4. u \in Pair /\ u \in Name
        BY DEF Pair, Name
      <3>5. VersionOf(u)' = VersionOf(u)
        <4>1. dir.name[u] # None => dir.name[u] \in 1..made
          BY <1>1, <3>4 DEF None
        <4> QED
          BY <3>2, <3>4, <4>1 DEF VersionOf, Present, Frame
      <3>6. st[q].job = "annotate" /\ st[q].pc = "reopen" => st[q].name \in Pair
        BY <1>1, NamesDiffer DEF Course, Prepares, Pairs
      <3> QED
        BY <1>1, <1>2, <3>3, <3>4, <3>5, <3>6 DEF Pairing
    <2>2. CASE ~Pairs(st[q])
      BY <1>2, <2>2 DEF Pairing, Pairs
    <2>3. CASE st[q].pc = "lock"
      BY <1>1, <1>2, <2>3 DEF Pairing, Course
    <2> QED
      BY <2>1, <2>2, <2>3
  <1> QED
    BY <1>4, <1>5, <1>6

\* A step of p keeps the invariant if it keeps to its frame.
LEMMA StepKeeps ==
    ASSUME CacheInv, NEW p \in Proc, NEW s, Moves(p, s), Frame(p), Shows(p, s), Reports
    PROVE  CacheInv'
  <1>1. st \in [Proc -> Stage] /\ st' \in [Proc -> Stage] /\ st'[p] = s
        /\ \A q \in Proc \ {p} : st'[q] = st[q]
    BY DEF Moves, CacheInv, Typed
  <1>2. Typed'
    <2>1. \A q \in Proc : Course(st'[q])
      BY <1>1 DEF Moves, CacheInv, Typed
    <2>2. lock' \in Proc \union {"free"}
      BY DEF Moves, CacheInv, Typed, TypeOK
    <2>3. ASSUME NEW q \in Proc PROVE lock' = q <=> Holds(st'[q])
      <3>1. \A r \in Proc : lock = r <=> Holds(st[r])
        BY DEF Holds, Pairs, CacheInv, Typed, TypeOK
      <3>2. "free" \notin Proc
        BY CacheAssumption
      <3> QED
        BY <1>1, <3>1, <3>2 DEF Moves
    <2>4. made' \in 0..MaxInode
      BY CacheAssumption DEF Frame, CacheInv, Typed, TypeOK
    <2>5. "root" \in rooted'
      BY DEF Frame, CacheInv, Typed, TypeOK
    <2> QED
      BY <1>1, <2>1, <2>2, <2>3, <2>4, <2>5 DEF Typed, TypeOK, Frame, Reports, Holds, Pairs, Bytes
  <1>3. Links' /\ Lasting' /\ Housed'
    BY LinksKept
  <1>4. OwnFiles'
    <2>1. made \in 0..MaxInode /\ made' \in 0..MaxInode /\ made <= made'
      BY <1>2 DEF Frame, CacheInv, Typed, TypeOK
    <2>2. \A q \in Proc : st[q].ino \in 0..MaxInode /\ st[q].seen \in 0..MaxInode
      BY <1>1 DEF Stage
    <2>3. ASSUME NEW q \in Proc
          PROVE  /\ st'[q].ino # None => st'[q].ino <= made'
                 /\ st'[q].seen <= made'
      <3>1. CASE q = p
        BY <1>1, <2>1, <2>2, <3>1 DEF Shows, CacheInv, OwnFiles, None, Moves, Stage
      <3>2. CASE q # p
        BY <1>1, <2>1, <2>2, <3>2 DEF CacheInv, OwnFiles, None
      <3> QED
        BY <3>1, <3>2
    <2>4. ASSUME NEW q \in Proc, NEW r \in Proc, q # r, st'[q].ino # None
          PROVE  st'[q].ino # st'[r].ino
      <3>1. \A x \in Proc : st[x].ino # None => st[x].ino <= made
        BY DEF CacheInv, OwnFiles
      <3>2. \A x, y \in Proc : x # y /\ st[x].ino # None => st[x].ino # st[y].ino
        BY DEF CacheInv, OwnFiles
      <3>3. s.ino = None \/ s.ino = st[p].ino \/ s.ino = made + 1
        BY DEF Shows
      <3>4. \A x \in Proc : st[x].ino # made + 1
        BY <2>1, <2>2, <3>1 DEF None
      <3> QED
        BY <1>1, <2>4, <3>2, <3>3, <3>4
    <2> QED
      BY <2>3, <2>4 DEF OwnFiles
  <1>5. Kept' /\ AckedSurvives'
    <2>1. /\ \A n \in Name \ Pair : disk.name[n] # None => disk'.name[n] # None
          /\ rooted \subseteq rooted' /\ "root" \in rooted'
      BY LinksKept DEF Frame, CacheInv, Typed, TypeOK
    <2>2. acked' \subseteq Object \union Marker
      BY DEF Reports
    <2>3. ASSUME NEW n \in acked'
          PROVE  /\ disk'.name[n] # None
                 /\ n \in Marker => \A o \in Refs(n) : disk'.name[o] # None /\ Area(o) \in rooted'
                 /\ n = "cache-index" => disk'.name["criteria-source-index"] # None
      <3>1. CASE n \in acked
        <4>1. /\ disk.name[n] # None
              /\ n \in Marker => \A o \in Refs(n) : disk.name[o] # None /\ Area(o) \in rooted
              /\ n = "cache-index" => disk.name["criteria-source-index"] # None
          BY <3>1 DEF CacheInv, Kept, AckedSurvives, Survives
        <4>2. "criteria-source-index" \in Marker
          BY DEF Marker
        <4> QED
          BY <2>1, <2>2, <2>3, <4>1, <4>2, NamesDiffer
      <3>2. CASE n \notin acked
        BY <2>3, <3>2 DEF Reports
      <3> QED
        BY <3>1, <3>2
    <2>4. "criteria-source-index" \in Marker /\ Area("criteria-source-index") = "root"
      BY Directories DEF Marker
    <2>5. \A n \in Name : disk'.name[n] # None /\ Area(n) \in rooted' => Survives(n)'
      BY <1>3 DEF Links, Survives
    <2>6. \A n \in acked' : n \in Name /\ Refs(n) \subseteq Name
      BY <2>2, NamesDiffer
    <2>7. "criteria-source-index" \in Name
      BY <2>4, NamesDiffer
    <2> QED
      BY <2>1, <2>3, <2>4, <2>5, <2>6, <2>7 DEF Kept, AckedSurvives
  <1>6. ASSUME NEW q \in Proc PROVE Working(st[q])' /\ Preparing(st[q])' /\ Pairing(st[q])'
    <2>1. CASE q = p
      BY <1>1, <2>1 DEF Shows, Working, Preparing, Pairing
    <2>2. CASE q # p
      BY <2>2, OthersKept
    <2> QED
      BY <2>1, <2>2
  <1> QED
    BY <1>2, <1>3, <1>4, <1>5, <1>6 DEF CacheInv


-----------------------------------------------------------------------------
(* How a step ends.                                                        *)

\* The stage of a process whose call has ended.
Ended(out) == [Idle EXCEPT !.out = out]

\* The stage of a process that begins a call.
Begun(job, pc, n, ver) == [Idle EXCEPT !.job = job, !.pc = pc, !.name = n, !.ver = ver]

LEMMA IdleIsAStage ==
    /\ Idle \in Stage /\ Idle.pc = "idle" /\ Idle.job = "none" /\ Idle.name = "none"
    /\ Idle.ino = None /\ Idle.seen = None /\ Idle.done = {} /\ Idle.out = "none"
  <1>1. None \in 0..MaxInode /\ None \in Bytes /\ {} \in SUBSET Object
    BY CacheAssumption DEF None, Bytes
  <1>2. PICK f : f = [n \in Pair |-> None]
    OBVIOUS
  <1>3. f \in [Pair -> Bytes]
    BY <1>1, <1>2
  <1>4. Idle = [job |-> "none", pc |-> "idle", name |-> "none", ino |-> None, seen |-> None,
                done |-> {}, prev |-> f, ver |-> None, out |-> "none"]
    BY <1>2 DEF Idle
  <1>5. "none" \in AllJobs \union {"none", "undo"} /\ "none" \in Name \union {"none"}
        /\ "idle" \in LinkSteps \union SwapSteps \union WriteSteps
                        \union {"idle", "lock", "verify", "remove"}
        /\ "none" \in Outcome
    BY DEF Outcome
  <1> QED
    BY <1>1, <1>3, <1>4, <1>5 DEF Stage

LEMMA EndedIsAStage ==
    ASSUME NEW out \in Outcome
    PROVE  /\ Ended(out) \in Stage /\ Ended(out).pc = "idle" /\ Ended(out).job = "none"
           /\ Ended(out).name = "none" /\ Ended(out).ino = None /\ Ended(out).seen = None
           /\ Ended(out).done = {} /\ Ended(out).out = out
  BY IdleIsAStage DEF Ended, Stage

LEMMA BegunIsAStage ==
    ASSUME NEW job \in AllJobs, NEW pc \in {"look", "lock", "preflight"}, NEW n \in Name,
           NEW ver \in Bytes
    PROVE  /\ Begun(job, pc, n, ver) \in Stage /\ Begun(job, pc, n, ver).job = job
           /\ Begun(job, pc, n, ver).pc = pc /\ Begun(job, pc, n, ver).name = n
           /\ Begun(job, pc, n, ver).ino = None /\ Begun(job, pc, n, ver).seen = None
           /\ Begun(job, pc, n, ver).done = {}
  BY IdleIsAStage DEF Begun, Stage, LinkSteps, SwapSteps

\* p gives up its call, or starts to put the pair back.
LEMMA FailKeeps ==
    ASSUME CacheInv, NEW p \in Proc, NEW why \in {"failed", "kept", "unknown", "refused"},
           st[p].pc \notin {"idle", "lock"}, Frame(p), Fail(p, why)
    PROVE  CacheInv'
  <1> DEFINE u == "annotation-universe"
  <1>1. st \in [Proc -> Stage] /\ st[p] \in Stage /\ Course(st[p]) /\ lock \in Proc \union {"free"}
        /\ (lock = p <=> Holds(st[p]))
    BY DEF CacheInv, Typed, TypeOK, Holds, Pairs
  <1>2. u \in Pair /\ u \in Name /\ u # "annotation-review" /\ u \notin Object /\ u \notin Marker
    BY NamesDiffer DEF Pair
  <1>3. acked' = acked
    BY DEF Fail
  <1>4. Reports
    BY <1>3 DEF Reports, CacheInv, Typed, TypeOK
  <1>5. CASE st[p].job = "annotate"
    <2> PICK s : s = [st[p] EXCEPT !.job = "undo", !.name = u, !.out = why, !.ver = st[p].prev[u],
                                   !.pc = IF st[p].prev[u] = None THEN "remove" ELSE "preflight"]
      OBVIOUS
    <2>1. st' = [st EXCEPT ![p] = s] /\ lock' = lock
      BY <1>1, <1>5 DEF Fail, PutBack
    <2>2. st[p].prev[u] \in Bytes /\ u \in Name
      BY <1>1, <1>2 DEF Stage
    <2>3. why \in Outcome
      BY DEF Outcome
    <2>4. s \in Stage
      BY <1>1, <2>2, <2>3 DEF Stage, SwapSteps
    <2>5. /\ s.job = "undo" /\ s.name = u /\ s.pc \in {"remove", "preflight"}
          /\ s.ino = st[p].ino /\ s.seen = st[p].seen /\ s.prev = st[p].prev /\ s.ver = s.prev[u]
          /\ s.pc = "remove" => s.prev[u] = None
      BY <1>1 DEF Stage
    <2>6. Course(s) /\ Holds(s)
      BY <1>2, <2>5 DEF Course, Holds, Pairs, LinkSteps, SwapSteps
    <2>7. Moves(p, s)
      BY <1>1, <1>5, <2>1, <2>4, <2>6 DEF Moves, Holds, Pairs
    <2>8. Working(s)' /\ Preparing(s)' /\ Pairing(s)'
      BY <1>2, <2>5 DEF Working, Preparing, Pairing, Prepares
    <2>9. Shows(p, s)
      BY <2>5, <2>8 DEF Shows, CacheInv, OwnFiles
    <2> QED
      BY <1>4, <2>7, <2>9, StepKeeps
  <1>6. CASE st[p].job # "annotate"
    <2>1. PICK out \in {"failed", "kept", "unknown", "refused"} : Return(p, out)
      BY <1>6 DEF Fail
    <2> PICK s : s = Ended(out)
      OBVIOUS
    <2>2. st' = [st EXCEPT ![p] = s] /\ lock' = (IF lock = p THEN "free" ELSE lock)
      BY <2>1 DEF Return, Ended
    <2>3. s \in Stage /\ s.pc = "idle" /\ s.job = "none" /\ s.ino = None /\ s.seen = None
          /\ s.name = "none"
      BY <2>1, EndedIsAStage DEF Outcome
    <2>4. Moves(p, s)
      BY <2>2, <2>3 DEF Moves, Course, Holds, Pairs, LinkSteps, SwapSteps
    <2>5. Working(s)' /\ Preparing(s)' /\ Pairing(s)'
      BY <2>3 DEF Working, Preparing, Pairing
    <2>6. Shows(p, s)
      BY <2>3, <2>5 DEF Shows, CacheInv, Typed, TypeOK, None
    <2> QED
      BY <1>4, <2>4, <2>6, StepKeeps
  <1> QED
    BY <1>5, <1>6

\* What p has to find for its next step, s, in the call it is in.
Needs(p, s) ==
    /\ s.pc \in LinkSteps \union SwapSteps \union WriteSteps
    /\ s.pc \in LinkSteps => s.name \in Object
    /\ s.pc \in SwapSteps => s.name \notin Object
    /\ s.name \in Object => s.seen = None
    /\ Working(s)'
    /\ s.pc \in {"resync", "unlink", "sync"} => dir'.name[s.name] # None
    /\ s.pc = "observe" => disk'.name[s.name] # None
    /\ s.pc \in {"reread", "syncroot"} /\ s.name \in Marker => dir'.name[s.name] # None
    /\ s.pc = "reopen" =>
         /\ s.name \in Marker =>
              disk'.name[s.name] # None /\ \A o \in Refs(s.name) : Area(o) \in rooted'
         /\ s.name = "cache-index" => disk'.name["criteria-source-index"] # None
         /\ s.job = "annotate" => disk'.name[s.name] = dir'.name[s.name]
    /\ st[p].pc = "verify" /\ s.name = "cache-index" => dir'.name["criteria-source-index"] # None

\* p goes on in the call it is in, if the next step finds what it needs.
LEMMA OnwardKeeps ==
    ASSUME CacheInv, NEW p \in Proc, NEW s \in Stage,
           s.job = st[p].job, s.name = st[p].name, s.done = st[p].done, s.prev = st[p].prev,
           s.ver = st[p].ver,
           s.ino \in {None, st[p].ino} \/ (made' = made + 1 /\ s.ino = made'), s.seen <= made,
           st[p].pc # "idle", st[p].pc # "lock",
           st' = [st EXCEPT ![p] = s], lock' = lock, acked' = acked, Frame(p), Needs(p, s)
    PROVE  CacheInv'
  <1> DEFINE u == "annotation-universe"
  <1>1. /\ {dir, disk} \subseteq [name : [Name -> 0..made], temp : SUBSET (1..made)]
        /\ made \in 0..MaxInode /\ st \in [Proc -> Stage] /\ Course(st[p])
        /\ Preparing(st[p]) /\ Pairing(st[p])
    BY DEF CacheInv, Typed, TypeOK
  <1>2. u \in Pair /\ u \in Name /\ u # "annotation-review" /\ "criteria-source-index" \in Marker
    BY NamesDiffer DEF Pair, Marker
  <1>3. s.pc \notin {"idle", "lock", "verify", "remove"}
    BY DEF Needs, LinkSteps, SwapSteps, WriteSteps
  <1>4. Course(s)
    BY <1>1, <1>3 DEF Course, Needs, Prepares, Pairs
  <1>5. Moves(p, s)
    BY <1>3, <1>4 DEF Moves, Holds, Pairs
  <1>6. \A n \in Object \union Marker :
          /\ dir.name[n] # None => dir'.name[n] # None
          /\ disk.name[n] # None => disk'.name[n] # None
    <2>1. \A n \in Object \union Marker : n \in Name \ Pair
      BY NamesDiffer
    <2> QED
      BY <2>1, LinksKept
  <1>7. Preparing(s)'
    <2>1. Prepares(st[p]) => \A o \in Refs(MarkerOf(s.job)) :
            o \in s.done \/ s.name \in Marker => disk'.name[o] # None
      <3>1. \A o \in Refs(MarkerOf(s.job)) : o \in Object \union Marker
        BY NamesDiffer
      <3>2. Prepares(st[p]) => \A o \in Refs(MarkerOf(s.job)) :
              o \in s.done \/ s.name \in Marker => disk.name[o] # None
        BY <1>1 DEF Preparing
      <3> QED
        BY <1>6, <3>1, <3>2
    <2>2. s.name = "cache-index" => dir'.name["criteria-source-index"] # None
      <3>1. s.name = "cache-index" /\ st[p].pc # "verify" => dir.name["criteria-source-index"] # None
        BY <1>1 DEF Preparing, Present
      <3>2. s.name = "cache-index" /\ st[p].pc = "verify" => dir'.name["criteria-source-index"] # None
        BY DEF Needs
      <3> QED
        BY <1>2, <1>6, <3>1, <3>2
    <2> QED
      BY <2>1, <2>2 DEF Preparing, Needs, Prepares, Present
  <1>8. Pairing(s)'
    <2>1. s.name = "annotation-review" =>
            /\ dir'.name[u] = dir.name[u]
            /\ disk.name[u] = dir.name[u] => disk'.name[u] = dir'.name[u]
      BY <1>2 DEF Frame
    <2>2. s.name = "annotation-review" => VersionOf(u)' = VersionOf(u)
      <3>1. dir.name[u] # None => dir.name[u] \in 1..made
        BY <1>1, <1>2 DEF None
      <3> QED
        BY <2>1, <3>1 DEF VersionOf, Present, Frame
    <2> QED
      BY <1>1, <2>1, <2>2 DEF Pairing, Needs
  <1>9. Shows(p, s)
    BY <1>7, <1>8 DEF Shows, Needs
  <1>10. Reports
    BY DEF Reports, CacheInv, Typed, TypeOK
  <1> QED
    BY <1>5, <1>9, <1>10, StepKeeps

\* The same for a step that takes nothing but a decision.
LEMMA GotoKeeps ==
    ASSUME CacheInv, NEW p \in Proc, NEW pc, NEW s, s = [st[p] EXCEPT !.pc = pc],
           st[p].pc # "idle", st[p].pc # "lock", Goto(p, pc), Frame(p), Needs(p, s)
    PROVE  CacheInv'
  <1>1. st \in [Proc -> Stage] /\ st[p] \in Stage /\ st[p].seen <= made
    BY DEF CacheInv, Typed, OwnFiles
  <1>2. st' = [st EXCEPT ![p] = s] /\ lock' = lock /\ acked' = acked
    BY <1>1 DEF Goto
  <1>3. s.pc = pc /\ s.job = st[p].job /\ s.name = st[p].name /\ s.done = st[p].done
        /\ s.prev = st[p].prev /\ s.ver = st[p].ver /\ s.ino = st[p].ino /\ s.seen = st[p].seen
    BY <1>1 DEF Stage
  <1>4. pc \in LinkSteps \union SwapSteps \union WriteSteps
    BY <1>3 DEF Needs
  <1>5. s \in Stage
    BY <1>1, <1>4 DEF Stage
  <1> QED
    BY <1>1, <1>2, <1>3, <1>5, OnwardKeeps

\* What p has written is there, in the way the file it wrote requires.
There(p) ==
    \A n \in Name : n = st[p].name =>
      /\ n \in Object \union Marker => disk'.name[n] # None
      /\ n \in Marker => \A o \in Refs(n) : Area(o) \in rooted'
      /\ n = "cache-index" => disk'.name["criteria-source-index"] # None
      /\ st[p].job = "annotate" => VersionOf(n)' = st[p].ver /\ disk'.name[n] = dir'.name[n]
      /\ st[p].job = "undo" => VersionOf(n)' = st[p].prev[n]

\* p goes on with its next file, or reports what it has written.
LEMMA WrittenKeeps ==
    ASSUME CacheInv, NEW p \in Proc, st[p].pc \in {"resync", "observe", "reopen", "remove"},
           Frame(p), Written(p), There(p)
    PROVE  CacheInv'
  <1> DEFINE n == st[p].name
             u == "annotation-universe"
             r == "annotation-review"
  <1>1. /\ st \in [Proc -> Stage] /\ st[p] \in Stage /\ Course(st[p])
        /\ lock \in Proc \union {"free"} /\ (lock = p <=> Holds(st[p])) /\ made \in Nat
        /\ acked \subseteq Object \union Marker /\ st[p].seen <= made /\ Preparing(st[p])
    BY DEF CacheInv, Typed, TypeOK, Holds, Pairs, OwnFiles
  <1>2. u \in Pair /\ r \in Pair /\ u # r /\ Pair \subseteq Name
        /\ \A m \in Pair : m \notin Object /\ m \notin Marker
    BY NamesDiffer DEF Pair
  <1>3. CASE n \in Object
    <2> DEFINE job == st[p].job
               left == Refs(MarkerOf(job)) \ (st[p].done \union {n})
    <2>1. /\ acked' = acked \union {n} /\ lock' = lock
          /\ st' = [st EXCEPT ![p] = NextObject(p, st[p].done \union {n})]
      BY <1>2, <1>3 DEF Written
    <2>2. Prepares(st[p]) /\ n \in Refs(MarkerOf(job)) /\ MarkerOf(job) \in Marker
          /\ n # MarkerOf(job) /\ ~Holds(st[p]) /\ st[p].seen = None
      BY <1>1, <1>2, <1>3, NamesDiffer DEF Course, Holds, Pairs, Prepares
    <2>3. \A o \in Object : disk.name[o] # None => disk'.name[o] # None
      BY LinksKept, NamesDiffer
    <2>4. \A o \in Refs(MarkerOf(job)) : o \in st[p].done \union {n} => disk'.name[o] # None
      BY <1>1, <1>3, <2>2, <2>3, NamesDiffer DEF Preparing, There
    <2>5. Reports
      BY <1>1, <1>3, <2>1, NamesDiffer DEF Reports, There
    <2>6. CASE left = {}
      <3> PICK s : s = [st[p] EXCEPT !.pc = "verify", !.name = MarkerOf(job)]
        OBVIOUS
      <3>1. st' = [st EXCEPT ![p] = s]
        BY <2>1, <2>6 DEF NextObject
      <3>2. s \in Stage
        BY <1>1, <2>2, NamesDiffer DEF Stage
      <3>3. s.pc = "verify" /\ s.name = MarkerOf(job) /\ s.job = job /\ s.ino = st[p].ino
            /\ s.seen = None /\ Prepares(s) /\ ~Holds(s)
        BY <1>1, <2>2 DEF Stage, Prepares, Holds, Pairs
      <3>4. Course(s)
        BY <2>2, <3>3, NamesDiffer DEF Course, LinkSteps, SwapSteps, Prepares
      <3>5. Moves(p, s)
        BY <2>1, <2>2, <3>1, <3>2, <3>3, <3>4 DEF Moves
      <3>6. Working(s)' /\ Pairing(s)'
        BY <3>3 DEF Working, Pairing, Prepares
      <3>7. Preparing(s)'
        BY <2>4, <2>6, <3>3 DEF Preparing
      <3>8. Shows(p, s)
        BY <1>1, <2>2, <3>3, <3>6, <3>7 DEF Shows
      <3> QED
        BY <2>5, <3>5, <3>8, StepKeeps
    <2>7. CASE left # {}
      <3> PICK o : o = CHOOSE x \in left : TRUE
        OBVIOUS
      <3> PICK s : s = [st[p] EXCEPT !.pc = "look", !.done = st[p].done \union {n}, !.name = o]
        OBVIOUS
      <3>1. st' = [st EXCEPT ![p] = s]
        BY <2>1, <2>7 DEF NextObject
      <3>0. o \in left
        BY <2>7
      <3>2. o \in Refs(MarkerOf(job)) /\ o \in Object /\ o \in Name
            /\ st[p].done \union {n} \subseteq Object
        BY <1>1, <1>3, <3>0, NamesDiffer DEF Stage
      <3>3. s \in Stage
        BY <1>1, <3>2 DEF Stage, LinkSteps
      <3>4. s.pc = "look" /\ s.name = o /\ s.job = job /\ s.ino = st[p].ino
            /\ s.seen = None /\ s.done = st[p].done \union {n} /\ Prepares(s) /\ ~Holds(s)
        BY <1>1, <2>2 DEF Stage, Prepares, Holds, Pairs
      <3>5. Course(s)
        BY <3>2, <3>4, NamesDiffer DEF Course, LinkSteps, SwapSteps, Prepares
      <3>6. Moves(p, s)
        BY <2>1, <2>2, <3>1, <3>3, <3>4, <3>5 DEF Moves
      <3>7. Working(s)' /\ Pairing(s)'
        BY <3>4 DEF Working, Pairing, Prepares
      <3>8. Preparing(s)'
        BY <2>4, <3>2, <3>4, NamesDiffer DEF Preparing, Marker
      <3>9. Shows(p, s)
        BY <1>1, <2>2, <3>4, <3>7, <3>8 DEF Shows
      <3> QED
        BY <2>5, <3>6, <3>9, StepKeeps
    <2> QED
      BY <2>6, <2>7
  <1>4. CASE n = u /\ st[p].job = "annotate"
    <2> PICK s : s = [st[p] EXCEPT !.name = r, !.pc = "preflight"]
      OBVIOUS
    <2>1. st' = [st EXCEPT ![p] = s] /\ lock' = lock /\ acked' = acked
      BY <1>1, <1>2, <1>4 DEF Written
    <2>2. s \in Stage
      BY <1>1, <1>2 DEF Stage, SwapSteps
    <2>3. s.pc = "preflight" /\ s.name = r /\ s.job = "annotate" /\ s.ino = st[p].ino
          /\ s.seen = st[p].seen /\ s.ver = st[p].ver
      BY <1>1, <1>4 DEF Stage
    <2>4. Course(s)
      BY <1>2, <2>3 DEF Course, LinkSteps, SwapSteps, Pairs
    <2>5. Moves(p, s)
      BY <1>4, <2>1, <2>2, <2>3, <2>4 DEF Moves, Holds, Pairs
    <2>6. Working(s)' /\ Preparing(s)' /\ Pairing(s)'
      BY <1>2, <1>4, <2>3 DEF Working, Preparing, Pairing, Prepares, There
    <2>7. Shows(p, s)
      BY <1>1, <2>3, <2>6 DEF Shows
    <2>8. Reports
      BY <1>1, <2>1 DEF Reports
    <2> QED
      BY <2>5, <2>7, <2>8, StepKeeps
  <1>5. CASE n = u /\ st[p].job = "undo"
    <2> PICK s : s = [st[p] EXCEPT !.job = "undo", !.name = r, !.out = st[p].out, !.ver = st[p].prev[r],
                                   !.pc = IF st[p].prev[r] = None THEN "remove" ELSE "preflight"]
      OBVIOUS
    <2>1. st' = [st EXCEPT ![p] = s] /\ lock' = lock /\ acked' = acked
      BY <1>1, <1>2, <1>5 DEF Written, PutBack
    <2>2. st[p].prev[r] \in Bytes /\ st[p].out \in Outcome /\ r \in Name
      BY <1>1, <1>2 DEF Stage
    <2>3. s \in Stage
      BY <1>1, <2>2 DEF Stage, SwapSteps
    <2>4. /\ s.job = "undo" /\ s.name = r /\ s.pc \in {"remove", "preflight"}
          /\ s.ino = st[p].ino /\ s.seen = st[p].seen /\ s.prev = st[p].prev /\ s.ver = s.prev[r]
          /\ s.pc = "remove" => s.prev[r] = None
      BY <1>1 DEF Stage
    <2>5. Course(s)
      BY <1>2, <2>4 DEF Course, LinkSteps, SwapSteps, Pairs
    <2>6. Moves(p, s)
      BY <1>1, <1>5, <2>1, <2>3, <2>4, <2>5 DEF Moves, Holds, Pairs
    <2>7. Working(s)' /\ Preparing(s)' /\ Pairing(s)'
      BY <1>2, <1>5, <2>4 DEF Working, Preparing, Pairing, Prepares, There
    <2>8. Shows(p, s)
      BY <1>1, <2>4, <2>7 DEF Shows
    <2>9. Reports
      BY <1>1, <2>1 DEF Reports
    <2> QED
      BY <2>6, <2>8, <2>9, StepKeeps
  <1>6. CASE n \notin Object /\ ~(n = u /\ st[p].job \in {"annotate", "undo"})
    <2>1. PICK out \in Outcome : Return(p, out)
      BY <1>1, <1>6 DEF Written, Stage, Outcome
    <2>2. acked' = acked \/ acked' = acked \union ({n} \intersect Marker)
      BY <1>1, <1>6 DEF Written
    <2>3. n \in Marker => n = MarkerOf(st[p].job) /\ \A o \in Refs(n) : disk.name[o] # None
      BY <1>1, NamesDiffer DEF Course, Preparing, Prepares, Pairs
    <2>4. \A o \in Object : disk.name[o] # None => disk'.name[o] # None
      BY LinksKept, NamesDiffer
    <2>5. Reports
      BY <1>1, <2>2, <2>3, <2>4, NamesDiffer DEF Reports, There
    <2> PICK s : s = Ended(out)
      OBVIOUS
    <2>6. st' = [st EXCEPT ![p] = s] /\ lock' = (IF lock = p THEN "free" ELSE lock)
      BY <2>1 DEF Return, Ended
    <2>7. s \in Stage /\ s.pc = "idle" /\ s.job = "none" /\ s.ino = None /\ s.seen = None
          /\ s.name = "none"
      BY <2>1, EndedIsAStage
    <2>8. Moves(p, s)
      BY <2>6, <2>7 DEF Moves, Course, Holds, Pairs, LinkSteps, SwapSteps
    <2>9. Working(s)' /\ Preparing(s)' /\ Pairing(s)'
      BY <2>7 DEF Working, Preparing, Pairing
    <2>10. Shows(p, s)
      BY <1>1, <2>7, <2>9 DEF Shows, None
    <2> QED
      BY <2>5, <2>8, <2>10, StepKeeps
  <1> QED
    BY <1>3, <1>4, <1>5, <1>6

-----------------------------------------------------------------------------
(* The steps of a call.                                                    *)

\* What is known of a process in a call.
LEMMA AtWork ==
    ASSUME CacheInv, NEW p \in Proc
    PROVE  /\ {dir, disk} \subseteq [name : [Name -> 0..made], temp : SUBSET (1..made)]
           /\ file \in [Inode -> [name : Name \union {"none"}, ver : Bytes, flushed : BOOLEAN]]
           /\ made \in 0..MaxInode /\ calls \in 0..MaxCalls
           /\ rooted \subseteq spaces /\ spaces \subseteq Areas
           /\ st[p] \in Stage /\ Course(st[p]) /\ st[p].seen <= made /\ st[p].ino <= made
           /\ st[p].pc # "idle" => st[p].name \in Name
           /\ lock = p <=> Holds(st[p])
  <1>1. st[p] \in Stage /\ Course(st[p]) /\ made \in 0..MaxInode
    BY DEF CacheInv, Typed, TypeOK
  <1>2. st[p].ino <= made
    BY <1>1 DEF CacheInv, OwnFiles, None
  <1>3. st[p].pc # "idle" => st[p].name \in Name
    <2>1. \A job : MarkerOf(job) \in Name /\ Refs(MarkerOf(job)) \subseteq Name
      BY NamesDiffer
    <2>2. "review-bundle" \in Name /\ Pair \subseteq Name
      BY DEF Name
    <2> QED
      BY <1>1, <2>1, <2>2 DEF Course
  <1> QED
    BY <1>1, <1>2, <1>3 DEF CacheInv, Typed, TypeOK, OwnFiles, Bytes, Holds, Pairs

\* A step that leaves the files alone.
LEMMA NothingChanges ==
    ASSUME CacheInv, NEW p \in Proc, UNCHANGED <<storage, calls>>
    PROVE  Frame(p)
  <1>1. /\ dir' = dir /\ disk' = disk /\ file' = file /\ made' = made /\ calls' = calls
        /\ spaces' = spaces /\ rooted' = rooted
    BY DEF storage
  <1> QED
    BY <1>1, AtWork DEF Frame

\* A private name is removed, in the directory or on disk as well.
LEMMA PrivateNameGoes ==
    ASSUME CacheInv, NEW p \in Proc, NEW i,
           dir' \in {dir, Without(dir, i)},
           disk'.name \in [Name -> 0..made], disk'.temp \subseteq 1..made,
           disk' = [name |-> disk'.name, temp |-> disk'.temp],
           \A n \in Name : disk'.name[n] \in {disk.name[n], dir.name[n]},
           UNCHANGED <<file, made, calls, spaces>>, rooted' \in {rooted, spaces}
    PROVE  Frame(p) /\ dir'.name = dir.name
  <1>1. /\ {dir, disk} \subseteq [name : [Name -> 0..made], temp : SUBSET (1..made)]
        /\ file \in [Inode -> [name : Name \union {"none"}, ver : Bytes, flushed : BOOLEAN]]
        /\ made \in 0..MaxInode /\ calls \in 0..MaxCalls
        /\ rooted \subseteq spaces /\ spaces \subseteq Areas
    BY AtWork
  <1>2. /\ dir'.name = dir.name /\ dir'.temp \subseteq dir.temp
        /\ dir' \in [name : [Name -> 0..made], temp : SUBSET (1..made)]
    BY <1>1 DEF Without
  <1>3. disk' \in [name : [Name -> 0..made], temp : SUBSET (1..made)]
    OBVIOUS
  <1> QED
    BY <1>1, <1>2, <1>3 DEF Frame

\* The directory of n is flushed.
LEMMA SyncedNames ==
    ASSUME CacheInv, NEW n \in Name
    PROVE  /\ Synced(n).name \in [Name -> 0..made] /\ Synced(n).temp \subseteq 1..made
           /\ Synced(n) = [name |-> Synced(n).name, temp |-> Synced(n).temp]
           /\ \A m \in Name : Synced(n).name[m] \in {disk.name[m], dir.name[m]}
           /\ Synced(n).name[n] = dir.name[n]
           /\ n \in Marker => Synced(n).name["criteria-source-index"] = dir.name["criteria-source-index"]
  <1>1. {dir, disk} \subseteq [name : [Name -> 0..made], temp : SUBSET (1..made)]
    BY DEF CacheInv, Typed, TypeOK
  <1>2. /\ Synced(n).name = [m \in Name |-> IF Area(m) = Area(n) THEN dir.name[m] ELSE disk.name[m]]
        /\ Synced(n).temp = {i \in dir.temp : Area(file[i].name) = Area(n)}
                              \union {i \in disk.temp : Area(file[i].name) # Area(n)}
        /\ Synced(n) = [name |-> Synced(n).name, temp |-> Synced(n).temp]
    BY DEF Synced
  <1>3. Synced(n).name \in [Name -> 0..made] /\ Synced(n).temp \subseteq 1..made
    BY <1>1, <1>2
  <1>4. "criteria-source-index" \in Marker /\ "criteria-source-index" \in Name
    BY NamesDiffer DEF Marker
  <1>5. \A m \in Marker : Area(m) = "root"
    BY Directories
  <1> QED
    BY <1>2, <1>3, <1>4, <1>5

LEMMA LockKeeps ==
    ASSUME CacheInv, NEW p \in Proc, Lock(p)
    PROVE  CacheInv'
  <1>1. /\ st[p] \in Stage /\ Course(st[p]) /\ st[p].pc = "lock" /\ lock = "free" /\ lock' = p
        /\ st \in [Proc -> Stage] /\ st[p].seen <= made /\ acked' = acked
    BY AtWork DEF Lock, CacheInv, Typed
  <1>2. st[p].job = "annotate" /\ st[p].name = "annotation-universe" /\ st[p].name \notin Object
    BY <1>1 DEF Course
  <1> PICK prev : prev = [n \in Pair |-> VersionOf(n)]
    OBVIOUS
  <1>3. prev \in [Pair -> Bytes]
    <2>1. ASSUME NEW n \in Pair PROVE VersionOf(n) \in Bytes
      <3>1. dir.name[n] \in 0..made /\ made \in 0..MaxInode
        BY AtWork, NamesDiffer
      <3>2. None \in Bytes
        BY CacheAssumption DEF Bytes, None
      <3>3. dir.name[n] # None => dir.name[n] \in Inode
        BY <3>1, CacheAssumption DEF None, Inode
      <3>4. file \in [Inode -> [name : Name \union {"none"}, ver : Bytes, flushed : BOOLEAN]]
        BY AtWork
      <3> QED
        BY <3>2, <3>3, <3>4 DEF VersionOf, Present
    <2> QED
      BY <2>1
  <1> PICK s : s = [st[p] EXCEPT !.pc = "preflight", !.prev = prev]
    OBVIOUS
  <1>4. st' = [st EXCEPT ![p] = s]
    BY <1>1 DEF Lock
  <1>5. s \in Stage
    BY <1>1, <1>3 DEF Stage, SwapSteps
  <1>6. s.pc = "preflight" /\ s.job = "annotate" /\ s.name = "annotation-universe"
        /\ s.ino = st[p].ino /\ s.seen = st[p].seen
    BY <1>1, <1>2 DEF Stage
  <1>7. Moves(p, s)
    BY <1>1, <1>2, <1>4, <1>5, <1>6, NamesDiffer DEF Moves, Course, Holds, Pairs, LinkSteps, SwapSteps, Pair
  <1>8. Frame(p)
    BY NothingChanges DEF Lock
  <1>9. Shows(p, s)
    <2>1. Working(s)' /\ Preparing(s)' /\ Pairing(s)'
      BY <1>6, NamesDiffer DEF Working, Preparing, Pairing, Prepares
    <2> QED
      BY <1>1, <1>6, <2>1 DEF Shows
  <1>10. Reports
    BY <1>1 DEF Reports, CacheInv, Typed, TypeOK
  <1> QED
    BY <1>7, <1>8, <1>9, <1>10, StepKeeps

LEMMA StartKeeps ==
    ASSUME CacheInv, NEW p \in Proc, NEW job \in Jobs, Start(p, job)
    PROVE  CacheInv'
  <1>1. /\ st[p] \in Stage /\ Course(st[p]) /\ st[p].pc = "idle" /\ lock' = lock /\ acked' = acked
        /\ st \in [Proc -> Stage] /\ made \in Nat /\ ~Holds(st[p]) /\ calls \in 0..MaxCalls
        /\ calls < MaxCalls /\ calls' = calls + 1 /\ job \in AllJobs
    BY AtWork, CacheAssumption DEF Start, CacheInv, Typed, Holds, Pairs, Course
  <1>2. calls + 2 \in Bytes /\ 1 \in Bytes /\ calls' \in 0..MaxCalls
    BY <1>1, CacheAssumption DEF Bytes
  <1>3. Frame(p)
    <2>1. /\ dir' = dir /\ disk' = disk /\ file' = file /\ made' = made
          /\ spaces' = spaces /\ rooted' = rooted
      BY DEF Start, storage
    <2> QED
      BY <1>2, <2>1, AtWork DEF Frame
  <1>4. Reports
    BY <1>1 DEF Reports, CacheInv, Typed, TypeOK
  <1>5. ASSUME NEW s \in Stage, Course(s), st' = [st EXCEPT ![p] = s],
               s.ino = None, s.seen = None, ~Holds(s), s.done = {}, s.name # "annotation-review",
               s.name \notin Marker, s.pc \in {"idle", "look", "lock", "preflight"},
               s.job # "undo"
        PROVE  CacheInv'
    <2>1. Moves(p, s)
      BY <1>1, <1>5 DEF Moves
    <2>2. Working(s)' /\ Preparing(s)' /\ Pairing(s)'
      BY <1>5 DEF Working, Preparing, Pairing, Marker
    <2>3. Shows(p, s)
      BY <1>1, <1>5, <2>2 DEF Shows, None
    <2> QED
      BY <1>3, <1>4, <2>1, <2>3, StepKeeps
  <1>6. CASE job = "evidence" /\ ~(Present("criteria-source-index")
                                   /\ ObjectsReadable("criteria-source-index"))
    <2> PICK s : s = Ended("refused")
      OBVIOUS
    <2>1. st' = [st EXCEPT ![p] = s]
      BY <1>6 DEF Start, Ended
    <2>2. s \in Stage /\ s.pc = "idle" /\ s.job = "none" /\ s.ino = None /\ s.seen = None
          /\ s.name = "none" /\ s.done = {}
      BY EndedIsAStage DEF Outcome
    <2>3. Course(s) /\ ~Holds(s)
      BY <2>2 DEF Course, Holds, Pairs, LinkSteps, SwapSteps
    <2> QED
      BY <1>5, <2>1, <2>2, <2>3 DEF Marker
  <1>7. CASE /\ job \in {"sources", "evidence"}
             /\ ~(job = "evidence" /\ ~(Present("criteria-source-index")
                                        /\ ObjectsReadable("criteria-source-index")))
    <2>0. PICK ref : ref = CHOOSE o \in Refs(MarkerOf(job)) : TRUE
      OBVIOUS
    <2>1. ref \in Refs(MarkerOf(job)) /\ ref \in Object /\ ref \in Name /\ ref \notin Marker
          /\ ref # "annotation-review"
      <3>1. Refs(MarkerOf(job)) # {} /\ Refs(MarkerOf(job)) \subseteq Object
        BY NamesDiffer
      <3>2. ref \in Refs(MarkerOf(job))
        BY <2>0, <3>1
      <3> QED
        BY <3>1, <3>2, NamesDiffer DEF Pair
    <2> PICK s : s = Begun(job, "look", ref, 1)
      OBVIOUS
    <2>2. st' = [st EXCEPT ![p] = s]
      BY <1>7, <2>0 DEF Start, Begun
    <2>3. s \in Stage /\ s.job = job /\ s.pc = "look" /\ s.name = ref /\ s.ino = None
          /\ s.seen = None /\ s.done = {}
      <3>1. job \in AllJobs /\ ref \in Name /\ 1 \in Bytes
        BY <1>1, <1>2, <2>1
      <3> QED
        BY <3>1, BegunIsAStage
    <2>4. Course(s) /\ ~Holds(s)
      BY <1>7, <2>1, <2>3 DEF Course, Holds, Pairs, Prepares, LinkSteps, SwapSteps
    <2> QED
      BY <1>5, <2>1, <2>2, <2>3, <2>4, <1>7
  <1>8. CASE job = "annotate"
    <2> PICK s : s = Begun(job, "lock", "annotation-universe", calls + 2)
      OBVIOUS
    <2>1. st' = [st EXCEPT ![p] = s]
      BY <1>8 DEF Start, Begun
    <2>2. "annotation-universe" \in Name /\ "annotation-universe" \notin Object
          /\ "annotation-universe" \in Pair
      BY NamesDiffer DEF Pair
    <2>3. s \in Stage /\ s.job = job /\ s.pc = "lock" /\ s.name = "annotation-universe"
          /\ s.ino = None /\ s.seen = None /\ s.done = {}
      BY <1>1, <1>2, <2>2, BegunIsAStage
    <2>4. Course(s) /\ ~Holds(s)
      BY <1>8, <2>2, <2>3 DEF Course, Holds, Pairs, LinkSteps, SwapSteps
    <2> QED
      BY <1>5, <1>8, <2>1, <2>2, <2>3, <2>4, NamesDiffer
  <1>9. CASE job \notin {"sources", "evidence", "annotate"}
    <2> PICK s : s = Begun(job, "preflight", "review-bundle", calls + 2)
      OBVIOUS
    <2>1. st' = [st EXCEPT ![p] = s]
      BY <1>9 DEF Start, Begun
    <2>2. job = "save" /\ "review-bundle" \in Name /\ "review-bundle" \notin Object
          /\ "review-bundle" \notin Marker
      BY <1>1, <1>9, NamesDiffer DEF AllJobs, Name
    <2>3. s \in Stage /\ s.job = job /\ s.pc = "preflight" /\ s.name = "review-bundle"
          /\ s.ino = None /\ s.seen = None /\ s.done = {}
      BY <1>1, <1>2, <2>2, BegunIsAStage
    <2>4. Course(s) /\ ~Holds(s)
      BY <2>2, <2>3 DEF Course, Holds, Pairs, LinkSteps, SwapSteps
    <2> QED
      BY <1>5, <2>1, <2>2, <2>3, <2>4
  <1> QED
    BY <1>6, <1>7, <1>8, <1>9

\* The stage of a process that goes on to the step pc.
LEMMA GoingOn ==
    ASSUME NEW r \in Stage, NEW pc, NEW s, s = [r EXCEPT !.pc = pc]
    PROVE  /\ s.pc = pc /\ s.job = r.job /\ s.name = r.name /\ s.done = r.done /\ s.prev = r.prev
           /\ s.ver = r.ver /\ s.ino = r.ino /\ s.seen = r.seen
  BY DEF Stage

LEMMA WriteTempKeeps ==
    ASSUME CacheInv, NEW p \in Proc, WriteTemp(p)
    PROVE  CacheInv'
  <1>1. /\ st[p].pc = "write" /\ made' = made + 1 /\ made < MaxInode
        /\ disk' = disk /\ calls' = calls /\ lock' = lock /\ acked' = acked
        /\ spaces' = spaces /\ rooted' = rooted
        /\ dir' = [dir EXCEPT !.temp = @ \union {made + 1}]
        /\ file' = [file EXCEPT ![made + 1] =
                      [name |-> st[p].name, ver |-> st[p].ver, flushed |-> FALSE]]
        /\ st' = [st EXCEPT ![p].pc = "flush", ![p].ino = made + 1]
    BY DEF WriteTemp
  <1>2. /\ {dir, disk} \subseteq [name : [Name -> 0..made], temp : SUBSET (1..made)]
        /\ file \in [Inode -> [name : Name \union {"none"}, ver : Bytes, flushed : BOOLEAN]]
        /\ made \in 0..MaxInode /\ calls \in 0..MaxCalls /\ st[p].name \in Name
        /\ rooted \subseteq spaces /\ spaces \subseteq Areas /\ Area(st[p].name) \in spaces
        /\ st[p] \in Stage /\ Course(st[p]) /\ st[p].seen <= made /\ st \in [Proc -> Stage]
    BY <1>1, AtWork DEF CacheInv, Typed, Working
  <1>3. MaxInode \in Nat /\ made + 1 \in Inode /\ made + 1 # None
    BY <1>1, <1>2, CacheAssumption DEF Inode, None
  <1> PICK s : s = [st[p] EXCEPT !.pc = "flush", !.ino = made + 1]
    OBVIOUS
  <1>4. st' = [st EXCEPT ![p] = s]
    BY <1>1, <1>2
  <1>5. s \in Stage
    <2>1. made + 1 \in 0..MaxInode
      BY <1>1, <1>2, <1>3
    <2> QED
      BY <1>2, <2>1 DEF Stage, WriteSteps
  <1>6. /\ s.pc = "flush" /\ s.job = st[p].job /\ s.name = st[p].name /\ s.done = st[p].done
        /\ s.prev = st[p].prev /\ s.ver = st[p].ver /\ s.ino = made + 1 /\ s.seen = st[p].seen
    BY <1>2 DEF Stage
  <1>7. /\ dir'.name = dir.name /\ dir'.temp = dir.temp \union {made + 1}
        /\ dir' \in [name : [Name -> 0..made'], temp : SUBSET (1..made')]
        /\ disk' \in [name : [Name -> 0..made'], temp : SUBSET (1..made')]
    <2>1. 0..made \subseteq 0..(made + 1) /\ 1..made \subseteq 1..(made + 1) /\ made + 1 \in 1..(made + 1)
      BY <1>2
    <2>2. /\ dir.name \in [Name -> 0..(made + 1)] /\ dir.temp \subseteq 1..(made + 1)
          /\ disk.name \in [Name -> 0..(made + 1)] /\ disk.temp \subseteq 1..(made + 1)
          /\ dir = [name |-> dir.name, temp |-> dir.temp]
          /\ disk = [name |-> disk.name, temp |-> disk.temp]
      BY <1>2, <2>1
    <2>3. dir' = [name |-> dir.name, temp |-> dir.temp \union {made + 1}]
      BY <1>1, <2>2
    <2> QED
      BY <1>1, <2>1, <2>2, <2>3
  <1>8. file' \in [Inode -> [name : Name \union {"none"}, ver : Bytes, flushed : BOOLEAN]]
    <2>1. st[p].ver \in Bytes
      BY <1>2 DEF Stage
    <2> QED
      BY <1>1, <1>2, <2>1
  <1>9. \A i \in 1..made : file'[i] = file[i]
    BY <1>1, <1>2, <1>3 DEF Inode
  <1>10. Frame(p)
    BY <1>1, <1>2, <1>3, <1>7, <1>8, <1>9 DEF Frame
  <1>11. Needs(p, s)
    <2>1. file'[made + 1].name = st[p].name
      BY <1>1, <1>2, <1>3
    <2>2. \A n \in Name : dir'.name[n] # made + 1
      <3>1. \A n \in Name : dir.name[n] \in 0..made
        BY <1>2
      <3> QED
        BY <1>2, <1>7, <3>1
    <2>3. st[p].seen # made + 1
      BY <1>2 DEF Stage
    <2>4. Working(s)'
      BY <1>1, <1>2, <1>3, <1>6, <2>1, <2>2, <2>3 DEF Working
    <2> QED
      BY <1>1, <1>2, <1>6, <2>4 DEF Needs, Course, LinkSteps, SwapSteps, WriteSteps
  <1> QED
    BY <1>1, <1>2, <1>4, <1>5, <1>6, <1>10, <1>11, OnwardKeeps

LEMMA FlushTempKeeps ==
    ASSUME CacheInv, NEW p \in Proc, FlushTemp(p)
    PROVE  CacheInv'
  <1>1. /\ {dir, disk} \subseteq [name : [Name -> 0..made], temp : SUBSET (1..made)]
        /\ file \in [Inode -> [name : Name \union {"none"}, ver : Bytes, flushed : BOOLEAN]]
        /\ made \in 0..MaxInode /\ calls \in 0..MaxCalls /\ st[p].name \in Name
        /\ rooted \subseteq spaces /\ spaces \subseteq Areas
        /\ st[p] \in Stage /\ Course(st[p]) /\ st[p].pc = "flush"
        /\ disk' = disk /\ made' = made /\ calls' = calls
        /\ spaces' = spaces /\ rooted' = rooted
    BY AtWork DEF FlushTemp
  <1>2. /\ st[p].ino # None /\ file[st[p].ino].name = st[p].name /\ st[p].seen # st[p].ino
        /\ \A n \in Name : dir.name[n] # st[p].ino
        /\ Area(st[p].name) \in spaces
    BY <1>1 DEF CacheInv, Working
  <1>3. st[p].ino \in Inode
    BY <1>1, <1>2, CacheAssumption DEF Stage, None, Inode
  <1>4. CASE Fail(p, "failed") /\ dir' = Without(dir, st[p].ino) /\ file' = file
    <2>1. Frame(p)
      BY <1>1, <1>4, PrivateNameGoes
    <2> QED
      BY <1>1, <1>4, <2>1, FailKeeps
  <1>5. CASE ~(Fail(p, "failed") /\ dir' = Without(dir, st[p].ino) /\ file' = file)
    <2> PICK pc : pc = IF st[p].name \in Object THEN "link" ELSE "recheck"
      OBVIOUS
    <2> PICK s : s = [st[p] EXCEPT !.pc = pc]
      OBVIOUS
    <2>1. Goto(p, pc) /\ dir' = dir /\ file' = [file EXCEPT ![st[p].ino].flushed = TRUE]
      BY <1>5 DEF FlushTemp
    <2>2. /\ file' \in [Inode -> [name : Name \union {"none"}, ver : Bytes, flushed : BOOLEAN]]
          /\ file'[st[p].ino].flushed
          /\ \A i \in Inode : /\ file'[i].name = file[i].name /\ file'[i].ver = file[i].ver
                              /\ file[i].flushed => file'[i].flushed
      <3>1. file[st[p].ino] \in [name : Name \union {"none"}, ver : Bytes, flushed : BOOLEAN]
        BY <1>1, <1>3
      <3> PICK f : f = [file[st[p].ino] EXCEPT !.flushed = TRUE]
        OBVIOUS
      <3>2. /\ f \in [name : Name \union {"none"}, ver : Bytes, flushed : BOOLEAN] /\ f.flushed
            /\ f.name = file[st[p].ino].name /\ f.ver = file[st[p].ino].ver
        BY <3>1
      <3>3. file' = [file EXCEPT ![st[p].ino] = f]
        BY <1>1, <1>3, <2>1
      <3> QED
        BY <1>1, <1>3, <3>2, <3>3
    <2>3. Frame(p)
      <3>1. 1..made \subseteq Inode
        BY <1>1, CacheAssumption DEF Inode
      <3> QED
        BY <1>1, <2>1, <2>2, <3>1 DEF Frame
    <2>4. Needs(p, s)
      <3>1. s.pc = pc /\ s.name = st[p].name /\ s.ino = st[p].ino /\ s.seen = st[p].seen
        BY <1>1, GoingOn
      <3>2. Working(s)'
        BY <1>1, <1>2, <1>3, <2>1, <2>2, <3>1 DEF Working
      <3> QED
        BY <1>1, <3>1, <3>2 DEF Needs, Course, LinkSteps, SwapSteps, WriteSteps
    <2> QED
      BY <1>1, <2>1, <2>3, <2>4, GotoKeeps
  <1> QED
    BY <1>4, <1>5

LEMMA MakeSpaceKeeps ==
    ASSUME CacheInv, NEW p \in Proc, MakeSpace(p)
    PROVE  CacheInv'
  <1>1. /\ st[p] \in Stage /\ st[p].pc \in {"look", "preflight"} /\ st[p].seen <= made
        /\ dir' = dir /\ disk' = disk /\ file' = file /\ made' = made /\ calls' = calls
        /\ rooted' = rooted /\ spaces' \in {spaces, spaces \union {Area(st[p].name)}}
    BY AtWork DEF MakeSpace
  <1>2. Frame(p)
    BY <1>1, AtWork, Directories DEF Frame
  <1>3. CASE Fail(p, "refused")
    BY <1>1, <1>2, <1>3, FailKeeps
  <1>4. CASE UNCHANGED <<st, lock, acked>>
    <2>1. Moves(p, st[p])
      BY <1>4 DEF Moves, CacheInv, Typed
    <2>2. Reports
      BY <1>4 DEF Reports, CacheInv, Typed, TypeOK
    <2>3. Working(st[p]) /\ Preparing(st[p]) /\ Pairing(st[p])
      BY DEF CacheInv
    <2> PICK s : s = st[p]
      OBVIOUS
    <2>4. Working(s)' /\ Preparing(s)' /\ Pairing(s)'
      BY <1>1, <2>3 DEF Working, Preparing, Pairing, Present, VersionOf
    <2>5. Shows(p, s)
      BY <1>1, <2>4 DEF Shows
    <2> QED
      BY <1>2, <2>1, <2>2, <2>5, StepKeeps
  <1> QED
    BY <1>3, <1>4 DEF MakeSpace

LEMMA LookUpKeeps ==
    ASSUME CacheInv, NEW p \in Proc, LookUp(p)
    PROVE  CacheInv'
  <1>1. Frame(p)
    BY NothingChanges DEF LookUp
  <1>2. /\ st[p] \in Stage /\ Course(st[p]) /\ st[p].pc = "look" /\ dir' = dir
        /\ Area(st[p].name) \in spaces /\ spaces' = spaces
        /\ st[p].name \in Object /\ st[p].seen = None
    BY AtWork DEF LookUp, storage, Course, LinkSteps
  <1>3. CASE Fail(p, "refused")
    BY <1>1, <1>2, <1>3, FailKeeps
  <1>4. ASSUME NEW pc \in {"write", "resync"}, Goto(p, pc), pc = "resync" => Present(st[p].name)
        PROVE  CacheInv'
    <2> PICK s : s = [st[p] EXCEPT !.pc = pc]
      OBVIOUS
    <2>1. s.pc = pc /\ s.name = st[p].name /\ s.ino = st[p].ino /\ s.seen = st[p].seen
      BY <1>2, GoingOn
    <2>2. Working(s)'
      BY <1>2, <1>4, <2>1 DEF Working
    <2>3. Needs(p, s)
      BY <1>2, <1>4, <2>1, <2>2 DEF Needs, LinkSteps, SwapSteps, WriteSteps, Present
    <2> QED
      BY <1>1, <1>2, <1>4, <2>3, GotoKeeps
  <1> QED
    BY <1>3, <1>4 DEF LookUp, Readable

LEMMA ResyncKeeps ==
    ASSUME CacheInv, NEW p \in Proc, Resync(p)
    PROVE  CacheInv'
  <1>1. /\ {dir, disk} \subseteq [name : [Name -> 0..made], temp : SUBSET (1..made)]
        /\ st[p] \in Stage /\ Course(st[p]) /\ st[p].pc = "resync" /\ st[p].name \in Name
        /\ dir' = dir /\ file' = file /\ made' = made /\ calls' = calls
        /\ spaces' = spaces /\ rooted' \in {rooted, spaces}
    BY AtWork DEF Resync, Fsync
  <1>2. st[p].name \in Object /\ Prepares(st[p]) /\ dir.name[st[p].name] # None
    BY <1>1, NamesDiffer DEF CacheInv, Preparing, Present, Course, LinkSteps
  <1>3. CASE disk' = disk /\ Fail(p, "unknown")
    <2>1. Frame(p)
      BY <1>1, <1>3, PrivateNameGoes
    <2> QED
      BY <1>1, <1>3, <2>1, FailKeeps
  <1>4. CASE disk' = Synced(st[p].name) /\ Written(p)
    <2>1. Frame(p)
      BY <1>1, <1>4, PrivateNameGoes, SyncedNames
    <2>2. disk'.name[st[p].name] # None
      BY <1>1, <1>2, <1>4, SyncedNames
    <2>3. There(p)
      BY <1>2, <2>2, NamesDiffer DEF There, Prepares, Marker
    <2> QED
      BY <1>1, <1>4, <2>1, <2>3, WrittenKeeps
  <1> QED
    BY <1>3, <1>4 DEF Resync, Fsync

\* What is known of a process that publishes an object.
LEMMA AtLink ==
    ASSUME CacheInv, NEW p \in Proc, st[p].pc \in LinkSteps
    PROVE  /\ st[p].name \in Object /\ st[p].name \in Name /\ st[p].seen = None
           /\ st[p].pc # "idle" /\ st[p].pc # "lock" /\ Prepares(st[p]) /\ st[p].name \notin Marker
           /\ st[p].name \notin Pair
  <1>1. Course(st[p]) /\ st[p].name \in Object
    BY AtWork DEF Course
  <1>2. st[p].pc # "idle" /\ st[p].pc # "lock"
    BY DEF LinkSteps
  <1> QED
    BY <1>1, <1>2, NamesDiffer DEF Course

LEMMA LinkKeeps ==
    ASSUME CacheInv, NEW p \in Proc, Link(p)
    PROVE  CacheInv'
  <1> DEFINE linked == [dir EXCEPT !.name[st[p].name] = st[p].ino]
  <1>1. /\ {dir, disk} \subseteq [name : [Name -> 0..made], temp : SUBSET (1..made)]
        /\ file \in [Inode -> [name : Name \union {"none"}, ver : Bytes, flushed : BOOLEAN]]
        /\ made \in 0..MaxInode /\ calls \in 0..MaxCalls /\ st[p] \in Stage /\ st[p].ino <= made
        /\ rooted \subseteq spaces /\ spaces \subseteq Areas
        /\ st[p].pc = "link" /\ disk' = disk /\ file' = file /\ made' = made /\ calls' = calls
        /\ spaces' = spaces /\ rooted' = rooted
    BY AtWork DEF Link
  <1>2. st[p].name \in Object /\ st[p].name \in Name /\ st[p].seen = None /\ st[p].name \notin Pair
        /\ st[p].name \notin Marker
    BY <1>1, AtLink DEF LinkSteps
  <1>3. st[p].ino # None /\ file[st[p].ino].name = st[p].name /\ st[p].seen # st[p].ino
    BY <1>1 DEF CacheInv, Working
  <1>4. st[p].ino \in 0..made
    BY <1>1 DEF Stage
  <1>5. \/ dir' = linked /\ ~Present(st[p].name) /\ (Goto(p, "unlink") \/ Goto(p, "reconcile"))
        \/ dir' = dir /\ ((Goto(p, "unlink") /\ Present(st[p].name)) \/ Goto(p, "reconcile"))
    BY DEF Link
  <1>6. /\ linked \in [name : [Name -> 0..made], temp : SUBSET (1..made)]
        /\ linked.temp = dir.temp /\ linked.name[st[p].name] = st[p].ino
        /\ \A n \in Name : n # st[p].name => linked.name[n] = dir.name[n]
    BY <1>1, <1>2, <1>4
  <1>7. Frame(p)
    BY <1>1, <1>2, <1>5, <1>6 DEF Frame
  <1>8. ASSUME NEW pc \in {"unlink", "reconcile"}, Goto(p, pc),
               pc = "unlink" => dir'.name[st[p].name] # None
        PROVE  CacheInv'
    <2> PICK s : s = [st[p] EXCEPT !.pc = pc]
      OBVIOUS
    <2>1. s.pc = pc /\ s.name = st[p].name /\ s.ino = st[p].ino /\ s.seen = st[p].seen
      BY <1>1, GoingOn
    <2>2. Working(s)'
      BY <1>1, <1>3, <1>8, <2>1 DEF Working
    <2>3. Needs(p, s)
      BY <1>1, <1>2, <1>8, <2>1, <2>2 DEF Needs, LinkSteps, SwapSteps, WriteSteps
    <2> QED
      BY <1>1, <1>7, <1>8, <2>3, GotoKeeps
  <1>9. Goto(p, "unlink") => dir'.name[st[p].name] # None \/ Goto(p, "reconcile")
    BY <1>3, <1>5, <1>6 DEF Present
  <1> QED
    BY <1>5, <1>8, <1>9

LEMMA UnlinkKeeps ==
    ASSUME CacheInv, NEW p \in Proc, Unlink(p)
    PROVE  CacheInv'
  <1>1. /\ {dir, disk} \subseteq [name : [Name -> 0..made], temp : SUBSET (1..made)]
        /\ st[p] \in Stage /\ st[p].pc = "unlink"
        /\ disk' = disk /\ file' = file /\ made' = made /\ calls' = calls
        /\ spaces' = spaces /\ rooted' = rooted
        /\ dir' \in {dir, Without(dir, st[p].ino)}
    BY AtWork DEF Unlink
  <1>2. st[p].name \in Object /\ st[p].seen = None /\ dir.name[st[p].name] # None
    BY <1>1, AtLink DEF LinkSteps, CacheInv, Preparing, Present
  <1>3. Frame(p) /\ dir'.name = dir.name
    BY <1>1, PrivateNameGoes
  <1>4. CASE Fail(p, "unknown")
    BY <1>1, <1>3, <1>4, FailKeeps
  <1>5. CASE Goto(p, "sync")
    <2> PICK s : s = [st[p] EXCEPT !.pc = "sync"]
      OBVIOUS
    <2>1. s.pc = "sync" /\ s.name = st[p].name /\ s.seen = st[p].seen
      BY <1>1, GoingOn
    <2>2. Working(s)'
      BY <2>1 DEF Working
    <2>3. Needs(p, s)
      BY <1>1, <1>2, <1>3, <2>1, <2>2 DEF Needs, LinkSteps, SwapSteps, WriteSteps
    <2> QED
      BY <1>1, <1>3, <1>5, <2>3, GotoKeeps
  <1> QED
    BY <1>4, <1>5 DEF Unlink

LEMMA SyncKeeps ==
    ASSUME CacheInv, NEW p \in Proc, Sync(p)
    PROVE  CacheInv'
  <1>1. /\ {dir, disk} \subseteq [name : [Name -> 0..made], temp : SUBSET (1..made)]
        /\ st[p] \in Stage /\ st[p].pc = "sync"
        /\ dir' = dir /\ file' = file /\ made' = made /\ calls' = calls
        /\ spaces' = spaces /\ rooted' \in {rooted, spaces}
    BY AtWork DEF Sync, Fsync
  <1>2. st[p].name \in Object /\ st[p].name \in Name /\ st[p].seen = None
        /\ dir.name[st[p].name] # None
    BY <1>1, AtLink DEF LinkSteps, CacheInv, Preparing, Present
  <1>3. CASE disk' = disk /\ Fail(p, "unknown")
    <2>1. Frame(p)
      BY <1>1, <1>3, PrivateNameGoes
    <2> QED
      BY <1>1, <1>3, <2>1, FailKeeps
  <1>4. CASE disk' = Synced(st[p].name) /\ Goto(p, "observe")
    <2>1. Frame(p)
      BY <1>1, <1>2, <1>4, PrivateNameGoes, SyncedNames
    <2> PICK s : s = [st[p] EXCEPT !.pc = "observe"]
      OBVIOUS
    <2>2. s.pc = "observe" /\ s.name = st[p].name /\ s.seen = st[p].seen
      BY <1>1, GoingOn
    <2>3. disk'.name[st[p].name] # None
      BY <1>2, <1>4, SyncedNames
    <2>4. Working(s)'
      BY <2>2 DEF Working
    <2>5. Needs(p, s)
      BY <1>1, <1>2, <2>2, <2>3, <2>4 DEF Needs, LinkSteps, SwapSteps, WriteSteps
    <2> QED
      BY <1>1, <1>4, <2>1, <2>5, GotoKeeps
  <1> QED
    BY <1>3, <1>4 DEF Sync, Fsync

LEMMA ObserveKeeps ==
    ASSUME CacheInv, NEW p \in Proc, Observe(p)
    PROVE  CacheInv'
  <1>1. Frame(p)
    BY NothingChanges DEF Observe
  <1>2. st[p].pc = "observe" /\ disk' = disk
    BY DEF Observe, storage
  <1>3. st[p].name \in Object /\ st[p].name \notin Marker /\ Prepares(st[p])
        /\ disk.name[st[p].name] # None
    BY <1>2, AtLink DEF LinkSteps, CacheInv, Preparing
  <1>4. CASE Fail(p, "refused")
    BY <1>1, <1>2, <1>4, FailKeeps
  <1>5. CASE Written(p)
    <2>1. There(p)
      BY <1>2, <1>3 DEF There, Prepares, Marker
    <2> QED
      BY <1>1, <1>2, <1>5, <2>1, WrittenKeeps
  <1> QED
    BY <1>4, <1>5 DEF Observe

LEMMA ReconcileKeeps ==
    ASSUME CacheInv, NEW p \in Proc, Reconcile(p)
    PROVE  CacheInv'
  <1>1. /\ {dir, disk} \subseteq [name : [Name -> 0..made], temp : SUBSET (1..made)]
        /\ st[p] \in Stage /\ st[p].pc = "reconcile" /\ st[p].seen = None
        /\ st[p].name \in Object /\ st[p].name \in Name
        /\ file' = file /\ made' = made /\ calls' = calls
        /\ spaces' = spaces /\ rooted' = rooted
        /\ dir' \in {dir, Without(dir, st[p].ino)}
    BY AtWork, AtLink DEF Reconcile, LinkSteps
  <1>2. st[p].ino # None /\ file[st[p].ino].name = st[p].name
    BY <1>1 DEF CacheInv, Working
  <1> DEFINE synced == Synced(st[p].name)
  <1>3. \/ disk' = disk
        \/ disk' = [name |-> synced.name, temp |-> synced.temp \ {st[p].ino}]
    BY DEF Reconcile
  <1>4. Frame(p) /\ dir'.name = dir.name
    <2>1. /\ synced.name \in [Name -> 0..made] /\ synced.temp \subseteq 1..made
          /\ \A n \in Name : synced.name[n] \in {disk.name[n], dir.name[n]}
      BY <1>1, SyncedNames
    <2> HIDE DEF synced
    <2>2. /\ disk'.name \in [Name -> 0..made] /\ disk'.temp \subseteq 1..made
          /\ disk' = [name |-> disk'.name, temp |-> disk'.temp]
          /\ \A n \in Name : disk'.name[n] \in {disk.name[n], dir.name[n]}
      BY <1>1, <1>3, <2>1
    <2> QED
      BY <1>1, <2>2, PrivateNameGoes
  <1>5. CASE Fail(p, "unknown")
    BY <1>1, <1>4, <1>5, FailKeeps
  <1>6. ASSUME ~Fail(p, "unknown")
        PROVE  /\ dir' = Without(dir, st[p].ino) /\ disk'.name = synced.name
               /\ \/ dir.name[st[p].name] = st[p].ino /\ Goto(p, "observe")
                  \/ dir.name[st[p].name] = None /\ Goto(p, "absent")
    BY <1>2, <1>6 DEF Reconcile
  <1>7. ASSUME dir' = Without(dir, st[p].ino), disk'.name = synced.name,
               NEW pc, Goto(p, pc),
               \/ dir.name[st[p].name] = st[p].ino /\ pc = "observe"
               \/ dir.name[st[p].name] = None /\ pc = "absent"
        PROVE  CacheInv'
    <2> PICK s : s = [st[p] EXCEPT !.pc = pc]
      OBVIOUS
    <2>1. s.pc = pc /\ s.name = st[p].name /\ s.ino = st[p].ino /\ s.seen = st[p].seen
      BY <1>1, GoingOn
    <2>2. pc = "observe" => disk'.name[s.name] # None
      BY <1>1, <1>2, <1>7, <2>1, SyncedNames
    <2>3. Working(s)'
      <3>1. CASE pc = "observe"
        BY <2>1, <3>1 DEF Working
      <3>2. CASE pc = "absent"
        <4>1. \A n \in Name : dir.name[n] # st[p].ino
          BY <1>2, <1>7, <3>2 DEF CacheInv, Links
        <4>2. st[p].ino \notin dir'.temp
          BY <1>1, <1>7 DEF Without
        <4> QED
          BY <1>1, <1>2, <1>4, <2>1, <3>2, <4>1, <4>2 DEF Working
      <3> QED
        BY <1>7, <3>1, <3>2
    <2>4. Needs(p, s)
      BY <1>1, <1>7, <2>1, <2>2, <2>3 DEF Needs, LinkSteps, SwapSteps, WriteSteps
    <2> QED
      BY <1>1, <1>4, <1>7, <2>4, GotoKeeps
  <1> QED
    BY <1>5, <1>6, <1>7

LEMMA ConfirmAbsentKeeps ==
    ASSUME CacheInv, NEW p \in Proc, ConfirmAbsent(p)
    PROVE  CacheInv'
  <1>1. Frame(p)
    BY NothingChanges DEF ConfirmAbsent
  <1>2. st[p].pc = "absent" /\ (Fail(p, "unknown") \/ Fail(p, "failed"))
    BY DEF ConfirmAbsent
  <1> QED
    BY <1>1, <1>2, FailKeeps

\* What is known of a process that replaces a file.
LEMMA AtSwap ==
    ASSUME CacheInv, NEW p \in Proc, st[p].pc \in SwapSteps \union {"verify", "remove"}
    PROVE  /\ st[p].name \notin Object /\ st[p].name \in Name
           /\ st[p].pc # "idle" /\ st[p].pc # "lock"
           /\ st[p].name \in Pair => Pairs(st[p]) /\ lock = p
           /\ Pairs(st[p]) => st[p].name \in Pair
           /\ st[p].name = "cache-index" /\ st[p].pc # "verify" => dir.name["criteria-source-index"] # None
  <1>1. Course(st[p]) /\ st[p].name \notin Object
    BY AtWork DEF Course
  <1>2. st[p].pc # "idle" /\ st[p].pc # "lock"
    BY DEF SwapSteps
  <1>3. Preparing(st[p])
    BY DEF CacheInv
  <1>4. st[p].name \in Pair => Pairs(st[p])
    BY <1>1, <1>2, NamesDiffer DEF Course
  <1>5. Pairs(st[p]) => lock = p
    BY <1>2, AtWork DEF Holds
  <1> QED
    BY <1>1, <1>2, <1>3, <1>4, <1>5, AtWork DEF Course, Preparing, Present, Pairs, Prepares

LEMMA VerifyMarkerKeeps ==
    ASSUME CacheInv, NEW p \in Proc, VerifyMarker(p)
    PROVE  CacheInv'
  <1>1. Frame(p)
    BY NothingChanges DEF VerifyMarker
  <1>2. st[p] \in Stage /\ st[p].pc = "verify" /\ dir' = dir /\ st[p].name \notin Object
    BY AtWork, AtSwap DEF VerifyMarker, storage
  <1>3. CASE Fail(p, "refused")
    BY <1>1, <1>2, <1>3, FailKeeps
  <1>4. CASE Verified(st[p].name) /\ Goto(p, "preflight")
    <2> PICK s : s = [st[p] EXCEPT !.pc = "preflight"]
      OBVIOUS
    <2>1. s.pc = "preflight" /\ s.name = st[p].name
      BY <1>2, GoingOn
    <2>2. Needs(p, s)
      BY <1>2, <1>4, <2>1 DEF Needs, Working, LinkSteps, SwapSteps, WriteSteps, Verified, Present
    <2> QED
      BY <1>1, <1>2, <1>4, <2>2, GotoKeeps
  <1> QED
    BY <1>3, <1>4 DEF VerifyMarker

LEMMA PreflightKeeps ==
    ASSUME CacheInv, NEW p \in Proc, Preflight(p)
    PROVE  CacheInv'
  <1>1. Frame(p)
    BY NothingChanges DEF Preflight
  <1>2. /\ st[p] \in Stage /\ st[p].pc = "preflight" /\ dir' = dir /\ st[p].name \notin Object
        /\ Area(st[p].name) \in spaces /\ spaces' = spaces
        /\ lock' = lock /\ acked' = acked /\ st \in [Proc -> Stage]
        /\ made \in 0..MaxInode /\ dir.name[st[p].name] \in 0..made
    BY AtWork, AtSwap DEF Preflight, storage, SwapSteps, CacheInv, Typed
  <1> PICK seen : seen = dir.name[st[p].name]
    OBVIOUS
  <1> PICK s : s = [st[p] EXCEPT !.pc = "write", !.seen = seen]
    OBVIOUS
  <1>3. st' = [st EXCEPT ![p] = s]
    BY <1>2 DEF Preflight
  <1>4. seen \in 0..MaxInode /\ seen <= made
    BY <1>2, CacheAssumption
  <1>5. s \in Stage
    BY <1>2, <1>4 DEF Stage, WriteSteps
  <1>6. /\ s.pc = "write" /\ s.job = st[p].job /\ s.name = st[p].name /\ s.done = st[p].done
        /\ s.prev = st[p].prev /\ s.ver = st[p].ver /\ s.ino = st[p].ino /\ s.seen = seen
    BY <1>2 DEF Stage
  <1>7. Needs(p, s)
    BY <1>2, <1>6 DEF Needs, Working, LinkSteps, SwapSteps, WriteSteps
  <1> QED
    BY <1>1, <1>2, <1>3, <1>4, <1>5, <1>6, <1>7, OnwardKeeps

LEMMA RecheckKeeps ==
    ASSUME CacheInv, NEW p \in Proc, Recheck(p)
    PROVE  CacheInv'
  <1>1. /\ {dir, disk} \subseteq [name : [Name -> 0..made], temp : SUBSET (1..made)]
        /\ st[p] \in Stage /\ st[p].pc = "recheck" /\ st[p].name \notin Object
        /\ disk' = disk /\ file' = file /\ made' = made /\ calls' = calls
        /\ spaces' = spaces /\ rooted' = rooted
        /\ dir' \in {dir, Without(dir, st[p].ino)}
    BY AtWork, AtSwap DEF Recheck, SwapSteps
  <1>2. /\ st[p].ino # None /\ file[st[p].ino].name = st[p].name /\ st[p].seen # st[p].ino
        /\ file[st[p].ino].flushed /\ Area(st[p].name) \in spaces /\ \A n \in Name : dir.name[n] # st[p].ino
    BY <1>1 DEF CacheInv, Working
  <1>3. Frame(p) /\ dir'.name = dir.name
    BY <1>1, PrivateNameGoes
  <1>4. CASE Fail(p, "kept")
    BY <1>1, <1>3, <1>4, FailKeeps
  <1>5. CASE Goto(p, "swap") /\ dir' = dir
    <2> PICK s : s = [st[p] EXCEPT !.pc = "swap"]
      OBVIOUS
    <2>1. s.pc = "swap" /\ s.name = st[p].name /\ s.ino = st[p].ino /\ s.seen = st[p].seen
      BY <1>1, GoingOn
    <2>2. Working(s)'
      BY <1>1, <1>2, <1>5, <2>1 DEF Working
    <2>3. Needs(p, s)
      BY <1>1, <1>5, <2>1, <2>2 DEF Needs, LinkSteps, SwapSteps, WriteSteps
    <2> QED
      BY <1>1, <1>3, <1>5, <2>3, GotoKeeps
  <1> QED
    BY <1>4, <1>5 DEF Recheck

LEMMA SwapKeeps ==
    ASSUME CacheInv, NEW p \in Proc, Swap(p)
    PROVE  CacheInv'
  <1> DEFINE swapped == [Without(dir, st[p].ino) EXCEPT !.name[st[p].name] = st[p].ino]
  <1>1. /\ {dir, disk} \subseteq [name : [Name -> 0..made], temp : SUBSET (1..made)]
        /\ file \in [Inode -> [name : Name \union {"none"}, ver : Bytes, flushed : BOOLEAN]]
        /\ made \in 0..MaxInode /\ calls \in 0..MaxCalls /\ st[p] \in Stage /\ st[p].ino <= made
        /\ rooted \subseteq spaces /\ spaces \subseteq Areas
        /\ st[p].pc = "swap" /\ disk' = disk /\ file' = file /\ made' = made /\ calls' = calls
        /\ spaces' = spaces /\ rooted' = rooted
    BY AtWork DEF Swap
  <1>2. /\ st[p].name \notin Object /\ st[p].name \in Name
        /\ st[p].name \in Pair => lock = p
    BY <1>1, AtSwap DEF SwapSteps
  <1>3. st[p].ino # None /\ file[st[p].ino].name = st[p].name /\ st[p].seen # st[p].ino
    BY <1>1 DEF CacheInv, Working
  <1>4. st[p].ino \in 0..made
    BY <1>1 DEF Stage
  <1>5. \/ dir' = swapped /\ (Goto(p, "reread") \/ Goto(p, "explain"))
        \/ dir' = dir /\ Goto(p, "explain")
    BY DEF Swap
  <1>6. /\ swapped \in [name : [Name -> 0..made], temp : SUBSET (1..made)]
        /\ swapped.temp \subseteq dir.temp /\ swapped.name[st[p].name] = st[p].ino
        /\ \A n \in Name : n # st[p].name => swapped.name[n] = dir.name[n]
    BY <1>1, <1>2, <1>4 DEF Without
  <1>7. Frame(p)
    BY <1>1, <1>2, <1>5, <1>6 DEF Frame
  <1>8. ASSUME NEW pc \in {"reread", "explain"}, Goto(p, pc),
               pc = "reread" => dir'.name[st[p].name] # None
        PROVE  CacheInv'
    <2> PICK s : s = [st[p] EXCEPT !.pc = pc]
      OBVIOUS
    <2>1. s.pc = pc /\ s.name = st[p].name /\ s.ino = st[p].ino /\ s.seen = st[p].seen
      BY <1>1, GoingOn
    <2>2. Working(s)'
      BY <1>1, <1>3, <1>8, <2>1 DEF Working
    <2>3. Needs(p, s)
      BY <1>1, <1>2, <1>8, <2>1, <2>2 DEF Needs, LinkSteps, SwapSteps, WriteSteps
    <2> QED
      BY <1>1, <1>7, <1>8, <2>3, GotoKeeps
  <1>9. Goto(p, "reread") => dir'.name[st[p].name] # None \/ Goto(p, "explain")
    BY <1>3, <1>5, <1>6
  <1> QED
    BY <1>5, <1>8, <1>9

LEMMA ExplainKeeps ==
    ASSUME CacheInv, NEW p \in Proc, Explain(p)
    PROVE  CacheInv'
  <1>1. /\ {dir, disk} \subseteq [name : [Name -> 0..made], temp : SUBSET (1..made)]
        /\ st[p].pc = "explain" /\ disk' = disk /\ file' = file /\ made' = made /\ calls' = calls
        /\ spaces' = spaces /\ rooted' = rooted
        /\ dir' = Without(dir, st[p].ino) /\ (Fail(p, "unknown") \/ Fail(p, "kept"))
    BY AtWork DEF Explain
  <1>2. Frame(p)
    BY <1>1, PrivateNameGoes
  <1> QED
    BY <1>1, <1>2, FailKeeps

LEMMA RereadKeeps ==
    ASSUME CacheInv, NEW p \in Proc, Reread(p)
    PROVE  CacheInv'
  <1>1. Frame(p)
    BY NothingChanges DEF Reread
  <1>2. st[p] \in Stage /\ st[p].pc = "reread" /\ dir' = dir /\ st[p].name \notin Object
        /\ (st[p].name \in Marker => dir.name[st[p].name] # None)
    BY AtWork, AtSwap DEF Reread, storage, SwapSteps, CacheInv, Preparing, Present
  <1>3. CASE Fail(p, "unknown")
    BY <1>1, <1>2, <1>3, FailKeeps
  <1>4. CASE Goto(p, "syncroot")
    <2> PICK s : s = [st[p] EXCEPT !.pc = "syncroot"]
      OBVIOUS
    <2>1. s.pc = "syncroot" /\ s.name = st[p].name
      BY <1>2, GoingOn
    <2>2. Needs(p, s)
      BY <1>2, <1>4, <2>1 DEF Needs, Working, LinkSteps, SwapSteps, WriteSteps
    <2> QED
      BY <1>1, <1>2, <1>4, <2>2, GotoKeeps
  <1> QED
    BY <1>3, <1>4 DEF Reread

LEMMA SyncRootKeeps ==
    ASSUME CacheInv, NEW p \in Proc, SyncRoot(p)
    PROVE  CacheInv'
  <1>1. /\ {dir, disk} \subseteq [name : [Name -> 0..made], temp : SUBSET (1..made)]
        /\ st[p] \in Stage /\ st[p].pc = "syncroot"
        /\ dir' = dir /\ file' = file /\ made' = made /\ calls' = calls
        /\ spaces' = spaces /\ rooted' \in {rooted, spaces}
    BY AtWork DEF SyncRoot, Fsync
  <1>2. /\ st[p].name \notin Object /\ st[p].name \in Name
        /\ st[p].name \in Marker => Area(st[p].name) = "root"
        /\ st[p].name = "cache-index" => dir.name["criteria-source-index"] # None
        /\ st[p].name \in Marker => dir.name[st[p].name] # None
    BY <1>1, AtSwap, Directories DEF SwapSteps, CacheInv, Preparing, Present
  <1>3. CASE disk' = disk /\ Fail(p, "unknown")
    <2>1. Frame(p)
      BY <1>1, <1>3, PrivateNameGoes
    <2> QED
      BY <1>1, <1>3, <2>1, FailKeeps
  <1>4. CASE Fsync(st[p].name) /\ Goto(p, "reopen")
    <2>0. disk' = Synced(st[p].name) /\ rooted' = IF Area(st[p].name) = "root" THEN spaces ELSE rooted
      BY <1>4 DEF Fsync
    <2>1. Frame(p)
      BY <1>1, <1>2, <2>0, PrivateNameGoes, SyncedNames
    <2> PICK s : s = [st[p] EXCEPT !.pc = "reopen"]
      OBVIOUS
    <2>2. s.pc = "reopen" /\ s.name = st[p].name
      BY <1>1, GoingOn
    <2>3. /\ disk'.name[st[p].name] = dir.name[st[p].name]
          /\ st[p].name \in Marker =>
               disk'.name["criteria-source-index"] = dir.name["criteria-source-index"]
      BY <1>2, <2>0, SyncedNames
    <2>4. "cache-index" \in Marker
      BY DEF Marker
    <2>6. ASSUME st[p].name \in Marker, NEW o \in Refs(st[p].name) PROVE Area(o) \in rooted'
      <3>1. Course(st[p]) /\ Preparing(st[p]) /\ st[p].pc # "idle"
        BY <1>1, AtWork DEF CacheInv
      <3>2. Prepares(st[p]) /\ st[p].name = MarkerOf(st[p].job)
        BY <2>6, <3>1, NamesDiffer DEF Course
      <3>3. disk.name[o] # None /\ o \in Name
        BY <2>6, <3>1, <3>2, NamesDiffer DEF Preparing
      <3>4. Area(o) \in spaces
        BY <3>3 DEF CacheInv, Housed
      <3> QED
        BY <1>2, <2>0, <2>6, <3>4
    <2>5. Needs(p, s)
      BY <1>1, <1>2, <2>2, <2>3, <2>4, <2>6 DEF Needs, Working, LinkSteps, SwapSteps, WriteSteps
    <2> QED
      BY <1>1, <1>4, <2>1, <2>5, GotoKeeps
  <1> QED
    BY <1>3, <1>4 DEF SyncRoot, Fsync

LEMMA ReopenKeeps ==
    ASSUME CacheInv, NEW p \in Proc, Reopen(p)
    PROVE  CacheInv'
  <1>1. Frame(p)
    BY NothingChanges DEF Reopen
  <1>2. st[p].pc = "reopen" /\ dir' = dir /\ disk' = disk /\ file' = file /\ rooted' = rooted
    BY DEF Reopen, storage
  <1>3. /\ st[p].name \notin Object /\ st[p].name \in Name /\ Course(st[p])
        /\ Preparing(st[p]) /\ Pairing(st[p])
    BY <1>2, AtWork, AtSwap DEF SwapSteps, CacheInv
  <1>4. CASE Fail(p, "unknown")
    BY <1>1, <1>2, <1>4, FailKeeps
  <1>5. CASE VersionOf(st[p].name) = st[p].ver /\ Written(p)
    <2>1. ASSUME NEW n \in Name, n = st[p].name
          PROVE  VersionOf(n)' = st[p].ver
      BY <1>2, <1>5, <2>1 DEF VersionOf, Present
    <2>2. There(p)
      BY <1>2, <1>3, <2>1 DEF There, Preparing, Pairing, Course
    <2> QED
      BY <1>1, <1>2, <1>5, <2>2, WrittenKeeps
  <1> QED
    BY <1>4, <1>5 DEF Reopen

LEMMA RemoveKeeps ==
    ASSUME CacheInv, NEW p \in Proc, Remove(p)
    PROVE  CacheInv'
  <1> DEFINE gone == [dir EXCEPT !.name[st[p].name] = None]
  <1>1. /\ {dir, disk} \subseteq [name : [Name -> 0..made], temp : SUBSET (1..made)]
        /\ file \in [Inode -> [name : Name \union {"none"}, ver : Bytes, flushed : BOOLEAN]]
        /\ made \in 0..MaxInode /\ calls \in 0..MaxCalls /\ st[p].pc = "remove"
        /\ file' = file /\ made' = made /\ calls' = calls
        /\ spaces' = spaces /\ rooted' \in {rooted, spaces}
        /\ rooted \subseteq spaces /\ spaces \subseteq Areas
    BY AtWork DEF Remove
  <1>2. /\ st[p].name \in Pair /\ st[p].name \in Name /\ lock = p /\ st[p].job = "undo"
        /\ st[p].prev[st[p].name] = None
    BY <1>1, AtWork, AtSwap DEF Course, Pairs
  <1>3. None \in 0..made
    BY <1>1, CacheAssumption DEF None
  <1>4. /\ gone \in [name : [Name -> 0..made], temp : SUBSET (1..made)]
        /\ gone.temp = dir.temp /\ gone.name[st[p].name] = None
        /\ \A n \in Name : n # st[p].name => gone.name[n] = dir.name[n]
    BY <1>1, <1>2, <1>3
  <1>5. CASE dir' \in {dir, gone} /\ disk' = disk /\ Fail(p, "unknown")
    <2>1. Frame(p)
      BY <1>1, <1>2, <1>4, <1>5 DEF Frame
    <2> QED
      BY <1>1, <1>5, <2>1, FailKeeps
  <1>6. CASE /\ dir' = gone /\ Written(p)
             /\ disk' \in {disk, [disk EXCEPT !.name[st[p].name] = None]}
    <2>1. /\ disk' \in [name : [Name -> 0..made], temp : SUBSET (1..made)]
          /\ \A n \in Name : disk'.name[n] \in {disk.name[n], dir'.name[n]}
      BY <1>1, <1>2, <1>3, <1>4, <1>6
    <2>2. Frame(p)
      BY <1>1, <1>2, <1>4, <1>6, <2>1 DEF Frame
    <2>3. There(p)
      BY <1>2, <1>4, <1>6, NamesDiffer DEF There, VersionOf, Present, Marker
    <2> QED
      BY <1>1, <1>6, <2>2, <2>3, WrittenKeeps
  <1> QED
    BY <1>5, <1>6 DEF Remove

LEMMA KillKeeps ==
    ASSUME CacheInv, NEW p \in Proc, Kill(p)
    PROVE  CacheInv'
  <1>1. Frame(p)
    BY NothingChanges DEF Kill
  <1>2. /\ acked' = acked /\ st' = [st EXCEPT ![p] = Idle] /\ made \in 0..MaxInode
        /\ lock' = (IF lock = p THEN "free" ELSE lock)
    BY AtWork DEF Kill
  <1> PICK s : s = Idle
    OBVIOUS
  <1>3. s \in Stage /\ s.pc = "idle" /\ s.job = "none" /\ s.name = "none" /\ s.ino = None
        /\ s.seen = None
    BY IdleIsAStage
  <1>4. Moves(p, s)
    BY <1>2, <1>3 DEF Moves, Course, Holds, Pairs, LinkSteps, SwapSteps
  <1>5. Shows(p, s)
    <2>1. Working(s)' /\ Preparing(s)' /\ Pairing(s)'
      BY <1>3 DEF Working, Preparing, Pairing
    <2> QED
      BY <1>2, <1>3, <2>1 DEF Shows, None
  <1>6. Reports
    BY <1>2 DEF Reports, CacheInv, Typed, TypeOK
  <1> QED
    BY <1>1, <1>4, <1>5, <1>6, StepKeeps

\* After a power loss a name leads where it led, in one of the two directories.
LEMMA PowerLossKeeps ==
    ASSUME CacheInv, PowerLoss
    PROVE  CacheInv'
  <1>1. /\ {dir, disk} \subseteq [name : [Name -> 0..made], temp : SUBSET (1..made)]
        /\ made \in 0..MaxInode /\ calls \in 0..MaxCalls /\ acked \subseteq Object \union Marker
        /\ file \in [Inode -> [name : Name \union {"none"}, ver : Bytes, flushed : BOOLEAN]]
        /\ "root" \in rooted /\ spaces \subseteq Areas
    BY DEF CacheInv, Typed, TypeOK, Bytes
  <1>2. /\ disk' = dir' /\ lock' = "free" /\ made' = made /\ calls' = calls
        /\ spaces' = rooted' /\ acked' = {n \in acked : Area(n) \in rooted'}
        /\ st' = [p \in Proc |-> Idle]
        /\ file' = [i \in Inode |-> IF file[i].flushed THEN file[i] ELSE [file[i] EXCEPT !.ver = Torn]]
    BY DEF PowerLoss
  <1>13. rooted \subseteq rooted' /\ rooted' \subseteq spaces
    <2>1. PICK lost \in SUBSET (spaces \ rooted) : rooted' = spaces \ lost
      BY DEF PowerLoss
    <2>2. rooted \subseteq spaces
      BY DEF CacheInv, Typed, TypeOK
    <2> QED
      BY <2>1, <2>2
  <1>3. PICK names \in SUBSET Name,
             temps \in SUBSET (dir.temp \union disk.temp) :
          dir' = [name |-> [n \in Name |-> IF Area(n) \notin rooted' THEN None
                                             ELSE IF n \in names THEN dir.name[n] ELSE disk.name[n]],
                  temp |-> {i \in (disk.temp \ temps) \union ((dir.temp \ disk.temp) \intersect temps) :
                              Area(file[i].name) \in rooted'}]
    BY DEF PowerLoss
  <1>4. /\ dir' \in [name : [Name -> 0..made], temp : SUBSET (1..made)]
        /\ \A n \in Name : IF Area(n) \in rooted' THEN dir'.name[n] \in {dir.name[n], disk.name[n]}
                           ELSE dir'.name[n] = None
    <2> DEFINE led == [n \in Name |-> IF Area(n) \notin rooted' THEN None
                                  ELSE IF n \in names THEN dir.name[n] ELSE disk.name[n]]
               left == {i \in (disk.temp \ temps) \union ((dir.temp \ disk.temp) \intersect temps) :
                          Area(file[i].name) \in rooted'}
    <2>1. /\ dir.name \in [Name -> 0..made] /\ disk.name \in [Name -> 0..made]
          /\ dir.temp \subseteq 1..made /\ disk.temp \subseteq 1..made
      BY <1>1
    <2>2. ASSUME NEW n \in Name
          PROVE  /\ led[n] \in 0..made
                 /\ IF Area(n) \in rooted' THEN led[n] \in {dir.name[n], disk.name[n]} ELSE led[n] = None
      <3>1. dir.name[n] \in 0..made /\ disk.name[n] \in 0..made /\ None \in 0..made
        BY <1>1, <2>1, CacheAssumption DEF None
      <3>2. CASE Area(n) \notin rooted'
        BY <3>1, <3>2
      <3>3. CASE Area(n) \in rooted' /\ n \in names
        BY <3>1, <3>3
      <3>4. CASE Area(n) \in rooted' /\ n \notin names
        BY <3>1, <3>4
      <3> QED
        BY <3>2, <3>3, <3>4
    <2>5. led \in [Name -> 0..made]
      BY <2>2
    <2>3. left \subseteq 1..made
      BY <2>1
    <2>4. dir' = [name |-> led, temp |-> left]
      BY <1>3
    <2> HIDE DEF led, left
    <2> QED
      BY <2>2, <2>3, <2>4, <2>5
  <1>5. /\ file' \in [Inode -> [name : Name \union {"none"}, ver : Bytes, flushed : BOOLEAN]]
        /\ \A i \in Inode : file'[i].name = file[i].name /\ file'[i].flushed = file[i].flushed
    <2>1. Torn \in Bytes
      BY DEF Bytes
    <2>2. ASSUME NEW i \in Inode
          PROVE  /\ file'[i] \in [name : Name \union {"none"}, ver : Bytes, flushed : BOOLEAN]
                 /\ file'[i].name = file[i].name /\ file'[i].flushed = file[i].flushed
      <3>1. file[i] \in [name : Name \union {"none"}, ver : Bytes, flushed : BOOLEAN]
        BY <1>1
      <3>2. file'[i] = IF file[i].flushed THEN file[i] ELSE [file[i] EXCEPT !.ver = Torn]
        BY <1>2
      <3> QED
        BY <2>1, <3>1, <3>2
    <2>3. file' = [i \in Inode |-> file'[i]]
      BY <1>2
    <2> QED
      BY <2>2, <2>3
  <1>6. \A n \in Name : dir'.name[n] # None => dir'.name[n] \in Inode
    BY <1>1, <1>4, CacheAssumption DEF Inode, None
  <1>7. Links'
    BY <1>2, <1>4, <1>5, <1>6 DEF CacheInv, Links
  <1>8. \A n \in Name \ Pair :
          Area(n) \in rooted' /\ disk.name[n] # None => disk'.name[n] # None
    BY <1>2, <1>4 DEF CacheInv, Lasting, Present
  <1>9. Typed'
    <2>1. TypeOK'
      <3>1. \A p \in Proc : st'[p].job = "none" /\ lock' # p
        BY <1>2, IdleIsAStage, CacheAssumption
      <3> QED
        BY <1>1, <1>2, <1>4, <1>5, <1>13, <3>1 DEF TypeOK, Bytes
    <2>2. st' \in [Proc -> Stage] /\ \A p \in Proc : st'[p] = Idle
      BY <1>2, IdleIsAStage
    <2>3. Course(Idle)
      BY IdleIsAStage DEF Course, LinkSteps, SwapSteps
    <2> QED
      BY <1>1, <1>2, <2>1, <2>2, <2>3 DEF Typed
  <1>10. Lasting' /\ Housed' /\ OwnFiles'
    BY <1>1, <1>2, <1>4, IdleIsAStage DEF Lasting, Housed, Present, OwnFiles, None
  <1>11. Kept' /\ AckedSurvives'
    <2>1. "criteria-source-index" \in Marker
      BY DEF Marker
    <2>2. \A n \in Object \union Marker : n \in Name \ Pair /\ Refs(n) \subseteq Object
      BY NamesDiffer
    <2>3. \A n \in Object \union Marker : Survives(n) => Survives(n)'
      BY <1>7, <1>8, <1>13, <2>2 DEF Survives, Links
    <2>4. ASSUME NEW n \in acked' PROVE disk'.name[n] # None
      <3>1. n \in acked /\ Area(n) \in rooted' /\ disk.name[n] # None
        BY <1>2, <2>4 DEF CacheInv, Kept
      <3> QED
        BY <1>1, <1>8, <2>2, <3>1
    <2>5. ASSUME NEW n \in acked' PROVE Survives(n)'
      <3>1. n \in Name /\ Area(n) \in rooted'
        BY <1>1, <1>2, <2>2, <2>5
      <3> QED
        BY <1>7, <2>4, <3>1 DEF Survives, Links
    <2>6. ASSUME NEW n \in acked'
          PROVE  /\ n \in Marker => \A o \in Refs(n) : Survives(o)'
                 /\ n = "cache-index" => Survives("criteria-source-index")'
      <3>1. n \in acked /\ Refs(n) \subseteq Object
        BY <1>1, <1>2, <2>2
      <3>2. /\ n \in Marker => \A o \in Refs(n) : Survives(o)
            /\ n = "cache-index" => Survives("criteria-source-index")
        BY <3>1 DEF CacheInv, AckedSurvives
      <3> QED
        BY <2>1, <2>3, <3>1, <3>2
    <2> QED
      BY <2>4, <2>5, <2>6 DEF Kept, AckedSurvives
  <1>12. ASSUME NEW p \in Proc PROVE Working(st[p])' /\ Preparing(st[p])' /\ Pairing(st[p])'
    <2>1. st'[p] = Idle
      BY <1>2
    <2> QED
      BY <2>1, IdleIsAStage DEF Working, Preparing, Pairing
  <1> QED
    BY <1>7, <1>9, <1>10, <1>11, <1>12 DEF CacheInv

\* Nothing happens.
LEMMA StutterKeeps ==
    ASSUME CacheInv, UNCHANGED vars
    PROVE  CacheInv'
  BY DEF vars, CacheInv, Typed, TypeOK, Links, Lasting, Housed, OwnFiles, Kept, AckedSurvives, Survives,
         Working, Preparing, Pairing, Present, VersionOf, Course, Prepares, Pairs

\* The files of an earlier preparation can be numbered.
LEMMA Numbering ==
    ASSUME NEW S, IsFiniteSet(S)
    PROVE  \E f \in [S -> 1..Cardinality(S)] : \A m, n \in S : m # n => f[m] # f[n]
  <1>1. ExistsBijection(S, 1..Cardinality(S))
    BY FS_CardinalityType, Fun_ExistsBijSymmetric
  <1>2. PICK f \in [S -> 1..Cardinality(S)] : IsInjective(f)
    BY <1>1 DEF ExistsBijection, Bijection, Injection
  <1> QED
    BY <1>2 DEF IsInjective

LEMMA InitHolds == Init => CacheInv
  <1> SUFFICES ASSUME Init PROVE CacheInv
    OBVIOUS
  <1>1. PICK there \in {{}, Prepared} :
          LET inode == CHOOSE f \in [there -> 1..Cardinality(there)] :
                         \A m, n \in there : m # n => f[m] # f[n]
          IN  /\ dir = [name |-> [n \in Name |-> IF n \in there THEN inode[n] ELSE None],
                        temp |-> {}]
              /\ made = Cardinality(there)
              /\ file = [i \in Inode |->
                           IF \E n \in there : inode[n] = i
                           THEN [name |-> CHOOSE n \in there : inode[n] = i,
                                 ver |-> 1, flushed |-> TRUE]
                           ELSE [name |-> "none", ver |-> None, flushed |-> FALSE]]
              /\ acked = there \ Pair
              /\ rooted = {"root"} \union {Area(n) : n \in there}
    BY DEF Init
  <1>2. PICK inode : inode = CHOOSE f \in [there -> 1..Cardinality(there)] :
                               \A m, n \in there : m # n => f[m] # f[n]
    OBVIOUS
  <1>3. IsFiniteSet(Prepared) /\ IsFiniteSet({})
    <2>1. IsFiniteSet(SourceObj)
      BY CacheAssumption, FS_Subset DEF Object
    <2>2. Prepared = ((SourceObj \union {"criteria-source-index"}) \union {"annotation-universe"})
                       \union {"annotation-review"}
      BY DEF Prepared, Pair
    <2> QED
      BY <2>1, <2>2, FS_AddElement, FS_EmptySet
  <1>4. IsFiniteSet(there)
    BY <1>1, <1>3
  <1>5. Cardinality(there) \in 0..MaxInode
    <2>1. Cardinality({}) = 0
      BY FS_EmptySet
    <2>2. Cardinality(there) \in Nat
      BY <1>4, FS_CardinalityType
    <2>3. there = {} \/ there = Prepared
      BY <1>1
    <2> QED
      BY <2>1, <2>2, <2>3, CacheAssumption
  <1>6. inode \in [there -> 1..Cardinality(there)] /\ \A m, n \in there : m # n => inode[m] # inode[n]
    <2>1. \E f \in [there -> 1..Cardinality(there)] : \A m, n \in there : m # n => f[m] # f[n]
      BY <1>4, Numbering
    <2> QED
      BY <1>2, <2>1
  <1>7. /\ dir = [name |-> [n \in Name |-> IF n \in there THEN inode[n] ELSE None], temp |-> {}]
        /\ made = Cardinality(there) /\ acked = there \ Pair
        /\ rooted = {"root"} \union {Area(n) : n \in there}
        /\ file = [i \in Inode |->
                     IF \E n \in there : inode[n] = i
                     THEN [name |-> CHOOSE n \in there : inode[n] = i,
                           ver |-> 1, flushed |-> TRUE]
                     ELSE [name |-> "none", ver |-> None, flushed |-> FALSE]]
    BY <1>1, <1>2
  <1>8. disk = dir /\ spaces = rooted /\ lock = "free" /\ st = [p \in Proc |-> Idle] /\ calls = 0
    BY DEF Init
  <1>9. there \subseteq Name /\ there \ Pair \subseteq Object \union Marker
    BY <1>1, NamesDiffer DEF Prepared, Object, Marker
  <1>10. dir \in [name : [Name -> 0..made], temp : SUBSET (1..made)]
    <2> DEFINE led == [n \in Name |-> IF n \in there THEN inode[n] ELSE None]
    <2>1. led \in [Name -> 0..made]
      BY <1>5, <1>6, <1>7, CacheAssumption DEF None
    <2>2. dir = [name |-> led, temp |-> {}]
      BY <1>7
    <2> HIDE DEF led
    <2> QED
      BY <2>1, <2>2
  <1>11. \A n \in there : /\ inode[n] \in Inode /\ inode[n] # None /\ dir.name[n] = inode[n]
                          /\ file[inode[n]].name = n /\ file[inode[n]].flushed
    <2> SUFFICES ASSUME NEW n \in there
                 PROVE  /\ inode[n] \in Inode /\ inode[n] # None /\ dir.name[n] = inode[n]
                        /\ file[inode[n]].name = n /\ file[inode[n]].flushed
      OBVIOUS
    <2>1. inode[n] \in Inode /\ inode[n] # None
      BY <1>5, <1>6, CacheAssumption DEF Inode, None
    <2>2. dir.name[n] = inode[n]
      BY <1>7, <1>9
    <2>3. file[inode[n]] = [name |-> CHOOSE m \in there : inode[m] = inode[n],
                            ver |-> 1, flushed |-> TRUE]
      BY <1>7, <2>1
    <2>4. (CHOOSE m \in there : inode[m] = inode[n]) = n
      BY <1>6
    <2> QED
      BY <2>1, <2>2, <2>3, <2>4
  <1>12. \A n \in Name : dir.name[n] # None => n \in there
    BY <1>7
  <1>13. file \in [Inode -> [name : Name \union {"none"}, ver : Bytes, flushed : BOOLEAN]]
    <2>1. 1 \in Bytes /\ None \in Bytes
      BY CacheAssumption DEF Bytes, None
    <2>2. ASSUME NEW i \in Inode
          PROVE  file[i] \in [name : Name \union {"none"}, ver : Bytes, flushed : BOOLEAN]
      <3>1. CASE \E n \in there : inode[n] = i
        <4>1. file[i] = [name |-> CHOOSE n \in there : inode[n] = i, ver |-> 1, flushed |-> TRUE]
          BY <1>7, <3>1
        <4>2. (CHOOSE n \in there : inode[n] = i) \in there
          BY <3>1
        <4> QED
          BY <1>9, <2>1, <4>1, <4>2
      <3>2. CASE ~\E n \in there : inode[n] = i
        <4>1. file[i] = [name |-> "none", ver |-> None, flushed |-> FALSE]
          BY <1>7, <3>2
        <4> QED
          BY <2>1, <4>1
      <3> QED
        BY <3>1, <3>2
    <2>3. file = [i \in Inode |-> file[i]]
      BY <1>7
    <2> QED
      BY <2>2, <2>3
  <1>14. Typed
    <2>1. \A p \in Proc : st[p] = Idle /\ lock # p
      BY <1>8, CacheAssumption
    <2>2. Course(Idle)
      BY IdleIsAStage DEF Course, LinkSteps, SwapSteps
    <2>3. st \in [Proc -> Stage]
      BY <1>8, IdleIsAStage
    <2>5. "root" \in rooted /\ rooted \subseteq Areas
      BY <1>7, Directories DEF Areas
    <2>4. calls \in 0..MaxCalls
      BY <1>8, CacheAssumption
    <2> QED
      BY <1>5, <1>7, <1>8, <1>9, <1>10, <1>13, <2>1, <2>2, <2>3, <2>4, <2>5, IdleIsAStage
         DEF Typed, TypeOK, Bytes
  <1>15. Links /\ Lasting /\ Housed
    <2>1. \A n \in there : Area(n) \in rooted
      BY <1>7
    <2>2. Housed
      BY <1>8, <1>12, <2>1 DEF Housed
    <2> QED
      BY <1>8, <1>11, <1>12, <2>2 DEF Links, Lasting, Present
  <1>16. OwnFiles
    BY <1>5, <1>7, <1>8, IdleIsAStage DEF OwnFiles, None
  <1>17. Kept /\ AckedSurvives
    <2>1. \A n \in there : Survives(n)
      BY <1>7, <1>8, <1>11 DEF Survives
    <2>2. there # {} => SourceObj \subseteq there /\ "criteria-source-index" \in there
      BY <1>1 DEF Prepared
    <2>3. \A n \in there \ Pair : n \in Marker => n = "criteria-source-index"
      BY <1>1, NamesDiffer DEF Prepared, Object
    <2>4. "criteria-source-index" # "cache-index" /\ Refs("criteria-source-index") = SourceObj
      BY DEF Refs
    <2>5. "cache-index" \in Marker
      BY DEF Marker
    <2> QED
      BY <1>7, <2>1, <2>2, <2>3, <2>4, <2>5 DEF Kept, AckedSurvives, Survives
  <1>18. ASSUME NEW p \in Proc PROVE Working(st[p]) /\ Preparing(st[p]) /\ Pairing(st[p])
    <2>1. st[p] = Idle
      BY <1>8
    <2> QED
      BY <2>1, IdleIsAStage DEF Working, Preparing, Pairing
  <1> QED
    BY <1>14, <1>15, <1>16, <1>17, <1>18 DEF CacheInv

LEMMA NextKeeps == CacheInv /\ [Next]_vars => CacheInv'
  <1> SUFFICES ASSUME CacheInv, [Next]_vars PROVE CacheInv'
    OBVIOUS
  <1>1. ASSUME NEW p \in Proc, Step(p) PROVE CacheInv'
    BY <1>1, LockKeeps, WriteTempKeeps, FlushTempKeeps, MakeSpaceKeeps, LookUpKeeps, ResyncKeeps,
       LinkKeeps, UnlinkKeeps, SyncKeeps, ObserveKeeps, ReconcileKeeps, ConfirmAbsentKeeps,
       VerifyMarkerKeeps, PreflightKeeps, RecheckKeeps, SwapKeeps, ExplainKeeps, RereadKeeps,
       SyncRootKeeps, ReopenKeeps, RemoveKeeps DEF Step
  <1>2. ASSUME NEW p \in Proc, NEW job \in Jobs, Start(p, job) PROVE CacheInv'
    BY <1>2, StartKeeps
  <1>3. ASSUME NEW p \in Proc, Kill(p) PROVE CacheInv'
    BY <1>3, KillKeeps
  <1>4. CASE PowerLoss
    BY <1>4, PowerLossKeeps
  <1>5. CASE UNCHANGED vars
    BY <1>5, StutterKeeps
  <1> QED
    BY <1>1, <1>2, <1>3, <1>4, <1>5 DEF Next

LEMMA Invariance == Spec => []CacheInv
  BY InitHolds, NextKeeps, PTL DEF Spec

-----------------------------------------------------------------------------
(* What a call reports.                                                    *)

\* A call that fails reports why, unless it still has the pair to put back.
LEMMA FailReports ==
    ASSUME NEW p \in Proc, NEW why, st \in [Proc -> Stage], Fail(p, why), Returns(p)
    PROVE  /\ st[p].job # "annotate"
           /\ st'[p].out = IF st[p].job = "undo" THEN "unknown" ELSE why
  <1>1. st[p].job # "annotate"
    <2> SUFFICES ASSUME st[p].job = "annotate" PROVE FALSE
      OBVIOUS
    <2>1. PutBack(p, "annotation-universe", why)
      BY DEF Fail
    <2>2. st'[p].pc \in {"remove", "preflight"}
      BY <2>1 DEF PutBack, Stage
    <2> QED
      BY <2>2 DEF Returns
  <1>2. Return(p, IF st[p].job = "undo" THEN "unknown" ELSE why)
    BY <1>1 DEF Fail
  <1>3. st'[p] = Ended(IF st[p].job = "undo" THEN "unknown" ELSE why)
    BY <1>2 DEF Return, Ended
  <1> QED
    BY <1>1, <1>3, IdleIsAStage DEF Ended, Stage

\* A call that has written its last file says so, one that has put the pair
\* back why it had to.
LEMMA WrittenReports ==
    ASSUME NEW p \in Proc, st \in [Proc -> Stage], Written(p), Returns(p)
    PROVE  /\ st'[p].out = IF st[p].job = "undo" /\ st[p].name = "annotation-review"
                           THEN st[p].out ELSE "ok"
           /\ st[p].job \in {"annotate", "undo"} => st[p].name # "annotation-universe"
  <1> DEFINE u == "annotation-universe"
  <1>1. st[p].name \notin Object
    <2> SUFFICES ASSUME st[p].name \in Object PROVE FALSE
      OBVIOUS
    <2>1. st' = [st EXCEPT ![p] = NextObject(p, st[p].done \union {st[p].name})]
      BY NamesDiffer DEF Written, Pair
    <2>2. st'[p].pc \in {"verify", "look"}
      BY <2>1 DEF NextObject, Stage
    <2> QED
      BY <2>2 DEF Returns
  <1>2. ~(st[p].name = u /\ st[p].job \in {"annotate", "undo"})
    <2> SUFFICES ASSUME st[p].name = u, st[p].job \in {"annotate", "undo"} PROVE FALSE
      OBVIOUS
    <2>1. \/ st' = [st EXCEPT ![p].name = "annotation-review", ![p].pc = "preflight"]
          \/ PutBack(p, "annotation-review", st[p].out)
      BY <1>1 DEF Written
    <2>2. st'[p].pc \in {"remove", "preflight"}
      BY <2>1 DEF PutBack, Stage
    <2> QED
      BY <2>2 DEF Returns
  <1>3. Return(p, IF st[p].job = "undo" /\ st[p].name = "annotation-review"
                  THEN st[p].out ELSE "ok")
    BY <1>1, <1>2 DEF Written
  <1>4. st'[p] = Ended(IF st[p].job = "undo" /\ st[p].name = "annotation-review"
                       THEN st[p].out ELSE "ok")
    BY <1>3 DEF Return, Ended
  <1> QED
    BY <1>2, <1>4, IdleIsAStage DEF Ended, Stage

\* A step moves the process that takes it and no other.
LEMMA OnlyOwnStage ==
    ASSUME CacheInv, NEW p \in Proc, NEW q \in Proc, p # q,
           Step(q) \/ Kill(q) \/ \E job \in Jobs : Start(q, job)
    PROVE  st'[p] = st[p]
  <1>1. st \in [Proc -> Stage]
    BY DEF CacheInv, Typed
  <1>2. ASSUME NEW pc, Goto(q, pc) PROVE st'[p] = st[p]
    BY <1>1, <1>2 DEF Goto
  <1>3. ASSUME NEW why, Fail(q, why) PROVE st'[p] = st[p]
    BY <1>1, <1>3 DEF Fail, Return, PutBack
  <1>4. ASSUME Written(q) PROVE st'[p] = st[p]
    BY <1>1, <1>4 DEF Written, Return, PutBack
  <1>5. CASE Lock(q) \/ WriteTemp(q) \/ Preflight(q) \/ Kill(q) \/ \E job \in Jobs : Start(q, job)
    BY <1>1, <1>5 DEF Lock, WriteTemp, Preflight, Kill, Start
  <1>6. CASE FlushTemp(q) \/ MakeSpace(q) \/ LookUp(q) \/ Resync(q) \/ Link(q) \/ Unlink(q) \/ Sync(q)
             \/ Observe(q)
    BY <1>2, <1>3, <1>4, <1>6 DEF FlushTemp, MakeSpace, LookUp, Resync, Link, Unlink, Sync, Observe
  <1>7. CASE Reconcile(q) \/ ConfirmAbsent(q) \/ VerifyMarker(q) \/ Recheck(q) \/ Swap(q)
             \/ Explain(q)
    BY <1>2, <1>3, <1>7 DEF Reconcile, ConfirmAbsent, VerifyMarker, Recheck, Swap, Explain
  <1>8. CASE Reread(q) \/ SyncRoot(q) \/ Reopen(q) \/ Remove(q)
    BY <1>2, <1>3, <1>4, <1>8 DEF Reread, SyncRoot, Reopen, Remove
  <1> QED
    BY <1>5, <1>6, <1>7, <1>8 DEF Step

\* A call returns with a step that fails, or that has written the last file.
LEMMA WhoReturns ==
    ASSUME CacheInv, [Next]_vars, NEW p \in Proc, Returns(p)
    PROVE  /\ Step(p)
           /\ \A pc : ~Goto(p, pc) \/ pc = "idle"
           /\ ~Lock(p) /\ ~WriteTemp(p) /\ ~Preflight(p)
  <1>1. st \in [Proc -> Stage] /\ st'[p] # st[p] /\ st'[p].pc = "idle" /\ st'[p].out # "none"
        /\ st[p].pc # "idle"
    BY DEF Returns, CacheInv, Typed
  <1>2. ~PowerLoss /\ ~Kill(p) /\ ~UNCHANGED vars
    BY <1>1, IdleIsAStage DEF PowerLoss, Kill, vars
  <1>3. \A job \in Jobs : ~Start(p, job)
    BY <1>1 DEF Start
  <1>4. Step(p)
    BY <1>1, <1>2, <1>3, OnlyOwnStage DEF Next
  <1>5. \A pc : Goto(p, pc) => st'[p].pc = pc
    BY <1>1 DEF Goto, Stage
  <1>6. ~Lock(p) /\ ~WriteTemp(p) /\ ~Preflight(p)
    BY <1>1 DEF Lock, WriteTemp, Preflight, Stage
  <1> QED
    BY <1>1, <1>4, <1>5, <1>6

\* A call that reports a definite failure has left nothing.
LEMMA DefiniteFailure ==
    ASSUME CacheInv, [Next]_vars, NEW p \in Proc, Returns(p),
           st'[p].out \in {"failed", "kept"}, st[p].job # "undo"
    PROVE  /\ st[p].ino \notin dir'.temp
           /\ st[p].ino # None => \A n \in Name : dir'.name[n] # st[p].ino
  <1>1. /\ {dir, disk} \subseteq [name : [Name -> 0..made], temp : SUBSET (1..made)]
        /\ st \in [Proc -> Stage] /\ Working(st[p])
    BY DEF CacheInv, Typed, TypeOK
  <1>2. \A pc : ~Goto(p, pc) \/ pc = "idle"
    BY WhoReturns
  <1>3. ASSUME NEW why, Fail(p, why) PROVE why \in {"failed", "kept"}
    BY <1>1, <1>3, FailReports
  <1>4. ~Written(p)
    BY <1>1, WrittenReports
  <1>5. dir' = Without(dir, st[p].ino) => dir'.name = dir.name /\ st[p].ino \notin dir'.temp
    BY <1>1 DEF Without
  <1>6. CASE FlushTemp(p)
    <2>1. dir' = Without(dir, st[p].ino) /\ st[p].pc = "flush"
      BY <1>2, <1>6 DEF FlushTemp
    <2> QED
      BY <1>1, <1>5, <2>1 DEF Working
  <1>7. CASE ConfirmAbsent(p)
    <2>1. dir' = dir /\ st[p].pc = "absent"
      BY <1>7 DEF ConfirmAbsent, storage
    <2> QED
      BY <1>1, <2>1 DEF Working
  <1>8. CASE Recheck(p)
    <2>1. dir' = Without(dir, st[p].ino) /\ st[p].pc = "recheck"
      BY <1>2, <1>8 DEF Recheck
    <2> QED
      BY <1>1, <1>5, <2>1 DEF Working
  <1>9. CASE Explain(p)
    <2>1. dir' = Without(dir, st[p].ino) /\ st[p].pc = "explain"
          /\ dir.name[st[p].name] = st[p].seen
      BY <1>3, <1>9 DEF Explain
    <2>2. st[p].ino # None /\ file[st[p].ino].name = st[p].name /\ st[p].seen # st[p].ino
      BY <1>1, <2>1 DEF Working
    <2>3. \A n \in Name : dir.name[n] # st[p].ino
      BY <2>1, <2>2 DEF CacheInv, Links
    <2> QED
      BY <1>5, <2>1, <2>3
  <1>10. CASE LookUp(p) \/ Resync(p) \/ Link(p) \/ Unlink(p) \/ Sync(p) \/ Observe(p) \/ Reconcile(p)
    BY <1>2, <1>3, <1>4, <1>10 DEF LookUp, Resync, Link, Unlink, Sync, Observe, Reconcile
  <1>11. CASE VerifyMarker(p) \/ Swap(p) \/ Reread(p) \/ SyncRoot(p) \/ Reopen(p) \/ Remove(p)
    BY <1>2, <1>3, <1>4, <1>11 DEF VerifyMarker, Swap, Reread, SyncRoot, Reopen, Remove
  <1>12. CASE MakeSpace(p)
    BY <1>3, <1>12 DEF MakeSpace, Returns
  <1> QED
    BY <1>6, <1>7, <1>8, <1>9, <1>10, <1>11, <1>12, WhoReturns DEF Step

\* The pair a call reports on is the one it wrote, or the one there was.
LEMMA PairReported ==
    ASSUME CacheInv, [Next]_vars, NEW p \in Proc, Returns(p)
    PROVE  /\ st[p].job = "annotate" =>
                \A n \in Pair : VersionOf(n)' = st[p].ver /\ disk'.name[n] = dir'.name[n]
           /\ st[p].job = "undo" /\ st'[p].out # "unknown" =>
                \A n \in Pair : VersionOf(n)' = st[p].prev[n]
  <1> DEFINE u == "annotation-universe"
             r == "annotation-review"
  <1> SUFFICES ASSUME Pairs(st[p]), st[p].job = "undo" => st'[p].out # "unknown"
               PROVE  /\ st[p].job = "annotate" =>
                           \A n \in Pair : VersionOf(n)' = st[p].ver /\ disk'.name[n] = dir'.name[n]
                      /\ st[p].job = "undo" => \A n \in Pair : VersionOf(n)' = st[p].prev[n]
    BY DEF Pairs
  <1>1. /\ {dir, disk} \subseteq [name : [Name -> 0..made], temp : SUBSET (1..made)]
        /\ st \in [Proc -> Stage] /\ Course(st[p]) /\ Pairing(st[p]) /\ st[p].pc # "idle"
    BY DEF CacheInv, Typed, TypeOK, Returns
  <1>2. \A pc : ~Goto(p, pc) \/ pc = "idle"
    BY WhoReturns
  <1>3. ASSUME NEW why PROVE ~Fail(p, why)
    BY <1>1, FailReports DEF Pairs
  <1>4. st[p].name \in Pair /\ st[p].name \notin Object /\ Pair = {u, r} /\ u # r
        /\ u \in Name /\ r \in Name
    BY <1>1, NamesDiffer DEF Course, Pairs, Prepares, Pair
  <1>5. Written(p) => st[p].name = r
    BY <1>1, <1>4, WrittenReports DEF Pairs
  <1>6. st[p].name = r =>
          /\ st[p].job = "annotate" => VersionOf(u) = st[p].ver /\ disk.name[u] = dir.name[u]
          /\ st[p].job = "undo" => VersionOf(u) = st[p].prev[u]
    BY <1>1 DEF Pairing
  <1>7. CASE Reopen(p)
    <2>1. /\ Written(p) /\ VersionOf(st[p].name) = st[p].ver /\ st[p].pc = "reopen"
          /\ dir' = dir /\ disk' = disk /\ file' = file
      BY <1>3, <1>7 DEF Reopen, storage
    <2>2. \A n : VersionOf(n)' = VersionOf(n)
      BY <2>1 DEF VersionOf, Present
    <2>3. /\ st[p].job = "annotate" => disk.name[r] = dir.name[r]
          /\ st[p].job = "undo" => st[p].ver = st[p].prev[r]
      BY <1>1, <1>5, <2>1 DEF Pairing, Course
    <2> QED
      BY <1>4, <1>5, <1>6, <2>1, <2>2, <2>3
  <1>8. CASE Remove(p)
    <2>1. /\ Written(p) /\ st[p].job = "undo" /\ st[p].prev[st[p].name] = None /\ file' = file
          /\ dir' = [dir EXCEPT !.name[st[p].name] = None]
      BY <1>1, <1>3, <1>8 DEF Remove, Course
    <2>2. dir'.name[r] = None /\ dir'.name[u] = dir.name[u]
      BY <1>1, <1>4, <1>5, <2>1
    <2>3. VersionOf(r)' = None /\ VersionOf(u)' = VersionOf(u)
      BY <2>1, <2>2 DEF VersionOf, Present
    <2> QED
      BY <1>4, <1>5, <1>6, <2>1, <2>3
  <1>9. CASE Resync(p) \/ Observe(p)
    BY <1>1, <1>3, <1>4, <1>9 DEF Resync, Observe, Course, LinkSteps
  <1>10. CASE FlushTemp(p) \/ LookUp(p) \/ Link(p) \/ Unlink(p) \/ Sync(p) \/ Reconcile(p)
              \/ ConfirmAbsent(p)
    BY <1>2, <1>3, <1>10 DEF FlushTemp, LookUp, Link, Unlink, Sync, Reconcile, ConfirmAbsent
  <1>11. CASE VerifyMarker(p) \/ Recheck(p) \/ Swap(p) \/ Explain(p) \/ Reread(p) \/ SyncRoot(p)
    BY <1>2, <1>3, <1>11 DEF VerifyMarker, Recheck, Swap, Explain, Reread, SyncRoot
  <1>12. CASE MakeSpace(p)
    BY <1>3, <1>12 DEF MakeSpace, Returns
  <1> QED
    BY <1>7, <1>8, <1>9, <1>10, <1>11, <1>12, WhoReturns DEF Step

-----------------------------------------------------------------------------
(* The theorems.                                                           *)

\* Every variable keeps its type, and the annotation lock is held by the calls
\* that write the pair and by no other (`_annotation_lock`).
THEOREM TypeCorrect == Spec => []TypeOK
  <1>1. CacheInv => TypeOK
    BY DEF CacheInv, Typed
  <1> QED
    BY <1>1, Invariance, PTL

\* What a call reported as written survives a power loss: an object with its
\* bytes, once its directory is on disk, a marker at once and with everything it
\* lists, the directories included (`_immutable_bytes`, `_open_parent`,
\* `_replace_bytes`, `publish_index`), however the calls that wrote it met.
THEOREM AcknowledgedSurvives == Spec => []AckedSurvives
  <1>1. CacheInv => AckedSurvives
    BY DEF CacheInv
  <1> QED
    BY <1>1, Invariance, PTL

\* A call that reports cache_write_failed or cache_replace_failed has published
\* nothing and left no private file (`_reconcile_ambiguous_link`,
\* `_replace_failure_reason`).
THEOREM DefiniteFailures == Spec => DefiniteFailureChangesNothing
  <1>1. CacheInv /\ [Next]_vars =>
          [\A p \in Proc :
             Returns(p) /\ st'[p].out \in {"failed", "kept"} /\ st[p].job # "undo" =>
               /\ st[p].ino \notin dir'.temp
               /\ st[p].ino # None => \A n \in Name : dir'.name[n] # st[p].ino]_vars
    BY DefiniteFailure
  <1> QED
    BY <1>1, Invariance, PTL DEF Spec, DefiniteFailureChangesNothing

\* A pair reported as written is the pair on disk; one that was put back for
\* certain says what it said before (`write_annotation_pair`).
THEOREM PairsWrittenOrRestored == Spec => PairOrPrior
  <1>1. CacheInv /\ [Next]_vars =>
          [\A p \in Proc : Returns(p) =>
             /\ st[p].job = "annotate" =>
                  \A n \in Pair : VersionOf(n)' = st[p].ver /\ disk'.name[n] = dir'.name[n]
             /\ st[p].job = "undo" /\ st'[p].out # "unknown" =>
                  \A n \in Pair : VersionOf(n)' = st[p].prev[n]]_vars
    BY PairReported
  <1> QED
    BY <1>1, Invariance, PTL DEF Spec, PairOrPrior

-----------------------------------------------------------------------------
(***************************************************************************)
(* The commands above the cache, Benchmark, under the names MCBenchmark    *)
(* gives them.                                                             *)
(***************************************************************************)

-----------------------------------------------------------------------------
(* What a pass makes of accepted labels.                                   *)

\* What a labels file can say.
Labels == [criteria : Version \union {Absent}, universe : Version \union {Absent},
           keys : SUBSET Chain!Key, relevant : SUBSET Chain!Key,
           missing : SUBSET (Criterion \X Chain!StaticTypes), confirmed : BOOLEAN]

\* The types explained when these are missing.
Explained(found, missing) ==
    {<<x.criterion, x.type>> : x \in {Chain!Explanation(found, e) : e \in missing}}

\* Every missing type gets an explanation that says what was found, and no
\* other one.
LEMMA ExplainedAreMissing ==
    ASSUME NEW found, NEW missing \in SUBSET (Criterion \X Chain!StaticTypes)
    PROVE  Explained(found, missing) = missing
  <1>1. ASSUME NEW e \in missing
        PROVE  <<Chain!Explanation(found, e).criterion, Chain!Explanation(found, e).type>> = e
    BY DEF Chain!Explanation
  <1> QED
    BY <1>1 DEF Explained

\* An explanation of a missing type passes its validator.
LEMMA ExplanationsAreValid ==
    ASSUME NEW found, NEW relevant, NEW e \in Criterion \X Chain!StaticTypes, e \notin relevant
    PROVE  Chain!ValidExplanation(found, Chain!Explanation(found, e), relevant)
  <1> PICK x : x = Chain!Explanation(found, e)
    OBVIOUS
  <1> PICK status : status = Chain!FindingOf(found, e[1]).status
    OBVIOUS
  <1>1. status \in {"missing", "evidence_found", "partial"}
    BY DEF Chain!FindingOf
  <1>2. /\ <<x.criterion, x.type>> = e /\ x.status = status
        /\ x.reason = IF status # "evidence_found"
                      THEN "scopeproof_finding_explicit_gap"
                      ELSE IF e \notin Chain!Retrieved(found) THEN "no_candidate_retrieved_for_type"
                           ELSE "retrieved_only_owner_labelled_irrelevant"
    BY DEF Chain!Explanation
  <1> QED
    BY <1>1, <1>2 DEF Chain!ValidExplanation

\* With no check observed and no decision taken, the gate blocks or asks for
\* review, and lists the criteria that make it so.
LEMMA StaticGate ==
    ASSUME NEW found
    PROVE  LET gate == Chain!GateOfCase(found)
           IN  /\ gate.verdict \in {"blocked", "needs_review"}
               /\ \/ gate.verdict = "blocked" /\ gate.blocking # {}
                  \/ gate.verdict = "needs_review" /\ gate.blocking = {} /\ gate.unresolved # {}
               /\ gate.blocking \intersect gate.conditional = {}
               /\ gate.blocking \intersect gate.unresolved = {}
               /\ gate.conditional \intersect gate.unresolved = {}
  <1> PICK review : review = [confirmed |-> TRUE, provenance |-> Absent, final |-> FALSE]
    OBVIOUS
  <1> PICK observed : observed = [check |-> "unavailable", ingestion |-> "complete",
                                  limited |-> FALSE, inventoried |-> FALSE]
    OBVIOUS
  <1> PICK findings : findings = [c \in Criterion |-> Chain!FindingOf(found, c)]
    OBVIOUS
  <1> DEFINE gate == Chain!GateOfCase(found)
             blocking == Chain!Product!Blocking(Criterion, findings, {})
             conditional == Chain!Product!Conditional(Criterion, findings, {})
             unresolved == Chain!Product!Unresolved(Criterion, findings, {})
  <1>1. gate = Chain!Product!EvaluateGate(review, observed, Criterion, findings, {}, {}, <<>>)
    BY DEF Chain!GateOfCase
  <1>2. ~Chain!Product!InvalidGateInput(review, Criterion, findings, {})
    BY DEF Chain!Product!InvalidGateInput
  <1>3. /\ gate.verdict = Chain!Product!Verdict(review, observed, Criterion, findings, {}, {}, <<>>)
        /\ gate.blocking = blocking /\ gate.conditional = conditional /\ gate.unresolved = unresolved
    BY <1>1, <1>2 DEF Chain!Product!EvaluateGate
  <1>4. Chain!Product!Incomplete(review, observed, Criterion, findings, {}, {}, <<>>)
    BY DEF Chain!Product!Incomplete
  <1>5. Chain!Product!Blocked(observed, Criterion, findings, {}) <=> blocking # {}
    BY DEF Chain!Product!Blocked
  <1>6. gate.verdict = IF blocking # {} THEN "blocked" ELSE "needs_review"
    BY <1>3, <1>4, <1>5 DEF Chain!Product!Verdict
  <1>7. \A c : Chain!Product!Open({}, c) /\ ~Chain!Product!Unlinked({}, c)
               /\ \A decisions : ~Chain!Product!DecidedAs({}, c, decisions)
    BY DEF Chain!Product!Open, Chain!Product!Unlinked, Chain!Product!DecidedAs
  <1>8. /\ blocking = {c \in Criterion : Chain!Product!Gap(findings[c]) /\ c \in MustHave}
        /\ conditional = {c \in Criterion : Chain!Product!Gap(findings[c]) /\ c \notin MustHave}
        /\ \A c \in unresolved : ~Chain!Product!Gap(findings[c])
        /\ \A c \in MustHave : ~Chain!Product!Gap(findings[c]) => c \in unresolved
    BY <1>7, ChainAssumption DEF Chain!Product!Blocking, Chain!Product!Conditional, Chain!Product!Unresolved,
                Chain!BenchmarkAssumption
  <1>9. blocking = {} => unresolved # {}
    BY <1>8, ChainAssumption DEF Chain!BenchmarkAssumption
  <1> HIDE DEF gate, blocking, conditional, unresolved
  <1> QED
    BY <1>3, <1>6, <1>8, <1>9 DEF gate

\* The instance's finite sets are those of FiniteSets.
LEMMA SameFinite ==
    ASSUME NEW S
    PROVE  (Chain!IsFiniteSet(S) <=> IsFiniteSet(S)) /\ Chain!Cardinality(S) = Cardinality(S)
  <1>1. Chain!IsFiniteSet(S) <=> IsFiniteSet(S)
    BY DEF Chain!IsFiniteSet, IsFiniteSet
  <1>2. Chain!Cardinality(S) = Cardinality(S)
    BY DEF Chain!Cardinality, Cardinality
  <1> QED
    BY <1>1, <1>2

\* A ratio of a part to a finite whole is accepted.
LEMMA PartsFit ==
    ASSUME NEW all, IsFiniteSet(all), NEW some \in SUBSET all
    PROVE  Chain!ValidMetric(some, all)
  <1>1. Cardinality(some) <= Cardinality(all)
    BY FS_Subset
  <1> QED
    BY <1>1, SameFinite DEF Chain!ValidMetric

\* Labels that fit are scored whatever is retrieved.
LEMMA FittingLabelsAreScored ==
    ASSUME NEW found \in Chain!Retrievals, NEW labels \in Labels,
           Chain!LabelsFit(labels)
    PROVE  Chain!Pass(found, labels) = "result"
  <1> DEFINE gate == Chain!GateOfCase(found)
             explanations == {Chain!Explanation(found, e) : e \in labels.missing}
             explained == {<<x.criterion, x.type>> : x \in explanations}
  <1>1. /\ labels.keys = Chain!Key /\ labels.relevant \subseteq Chain!Key
        /\ labels.missing \subseteq Criterion \X Chain!StaticTypes
        /\ \A e \in labels.missing : e \notin labels.relevant
    BY DEF Labels, Chain!LabelsFit, Chain!DeriveExpectedMissing
  <1>2. Chain!Retrieved(found) \subseteq labels.keys
    BY <1>1 DEF Chain!Retrieved
  <1>3. ~Chain!Conflict(found, labels)
    BY <1>1 DEF Chain!Conflict
  <1>4. explained = labels.missing
    <2>1. labels.missing \in SUBSET (Criterion \X Chain!StaticTypes)
      BY <1>1
    <2>2. Explained(found, labels.missing) = labels.missing
      BY <2>1, ExplainedAreMissing
    <2> QED
      BY <2>2 DEF Explained
  <1>5. Chain!ValidCaseResult(found, gate, explanations, labels.relevant)
    <2>1. \A x \in explanations : Chain!ValidExplanation(found, x, labels.relevant)
      BY <1>1, ExplanationsAreValid
    <2> HIDE DEF explanations
    <2> QED
      BY <2>1, StaticGate DEF Chain!ValidCaseResult
  <1>6. Chain!ValidMetrics(found, explained, labels)
    <2>1. IsFiniteSet(Chain!Key) /\ IsFiniteSet(Criterion) /\ IsFiniteSet(Line)
      <3>1. IsFiniteSet(Criterion) /\ IsFiniteSet(Line)
        BY SameFinite, ChainAssumption DEF Chain!BenchmarkAssumption
      <3> QED
        BY <3>1, FS_Product DEF Chain!Key
    <2>2. /\ IsFiniteSet(Chain!Retrieved(found))
          /\ Chain!Retrieved(found) \intersect labels.relevant \in SUBSET Chain!Retrieved(found)
      BY <1>1, <1>2, <2>1, FS_Subset
    <2>3. /\ Chain!WithGold(labels.relevant) \in SUBSET Criterion
          /\ Chain!WithGold(Chain!Retrieved(found) \intersect labels.relevant)
               \in SUBSET Chain!WithGold(labels.relevant)
      BY <1>1 DEF Chain!WithGold, Chain!Key
    <2>4. IsFiniteSet(Chain!WithGold(labels.relevant))
      BY <2>1, <2>3, FS_Subset
    <2>5. {k[2] : k \in Chain!Retrieved(found)} \in SUBSET Line
      BY <1>1, <1>2 DEF Chain!Key
    <2>6. explained \intersect labels.missing = labels.missing
      BY <1>4
    <2> HIDE DEF explained
    <2> QED
      BY <2>1, <2>2, <2>3, <2>4, <2>5, <2>6, PartsFit DEF Chain!ValidMetrics
  <1>7. Chain!HardGate(gate, explained, labels)
    <2>1. gate.verdict # "ready"
      BY StaticGate
    <2> QED
      BY <1>4, <2>1 DEF Chain!HardGate
  <1> QED
    BY <1>2, <1>3, <1>5, <1>6, <1>7 DEF Chain!Pass

-----------------------------------------------------------------------------
(* What a command has read.                                                *)

\* What a command can report.
Reason == {"none", "running", "criteria_missing", "labels_missing", "traceback", "complete",
           "misses", "no_miss", "audited", "redaction_boundary_failed",
           "reannotation_required", "benchmark_gate_failed", "input_validation_failed",
           "network_unavailable", "network_policy_failed", "source_integrity_failed",
           "criteria_not_confirmed", "annotation_required", "prepared_cache_missing",
           "filesystem_failed"}

Command == [op : {"none", "sources", "evidence", "annotate", "run", "taxonomy"},
            pc : {"idle", "criteria", "match", "download", "fetch", "publish", "labels",
                  "recheck", "universe", "index", "pair", "pass", "again", "misses"},
            criteria : Version \union {Absent}, labels : Labels \union {Absent},
            universe : Version \union {Absent}, prepared : Version \union {Absent},
            out : Reason \union {"result"}]

FilesTyped ==
    /\ {criteriaFile, index, universe, saved} \subseteq Version \union {Absent}
    /\ labelsFile \in Labels \union {Absent} /\ sources \in BOOLEAN

\* What a command has read agrees with the criteria it read first.
Bound(c) ==
    /\ c.pc # "idle" => c.out = "running"
    /\ c.pc \in {"criteria", "index"} => c.op \in {"evidence", "annotate", "run", "taxonomy"}
    /\ c.pc \in {"labels", "recheck"} => c.op \in {"run", "taxonomy"}
    /\ c.pc \in {"universe", "pass", "again"} => c.op = "run"
    /\ c.pc = "index" => c.op # "evidence"
    /\ c.pc \in {"recheck", "universe", "pass", "again"} \/ (c.pc = "index" /\ c.op = "run") =>
         c.labels \in Labels /\ c.labels.criteria = c.criteria
    /\ c.pc \in {"universe", "pass", "again"} \/ (c.pc = "index" /\ c.op = "run") =>
         Chain!LabelsFit(c.labels)
    /\ c.pc \in {"pass", "again"} \/ (c.pc = "index" /\ c.op = "run") => c.universe = c.criteria
    /\ c.pc \in {"pass", "again"} => c.prepared = c.criteria

ChainInv ==
    /\ FilesTyped /\ cmd \in [Shell -> Command]
    /\ \A p \in Shell : /\ Bound(cmd[p])
                        /\ cmd[p].op \in {"run", "taxonomy"} => labelsFile \in Labels

\* One command moves, and edits no file it must not.
LEMMA CommandKeeps ==
    ASSUME ChainInv, FilesTyped', labelsFile' = labelsFile, NEW p \in Shell,
           NEW c \in Command, Bound(c), cmd' = [cmd EXCEPT ![p] = c],
           c.op \in {"run", "taxonomy"} => labelsFile \in Labels
    PROVE  ChainInv'
  BY DEF ChainInv

\* A refusal is reported for a stable reason.
LEMMA RefusalsHaveReasons ==
    ASSUME NEW op, NEW class \in {"run", "network", "annotation", "cache"}, NEW code
    PROVE  Chain!MapFailure(op, class, code) \in Reason
  BY DEF Chain!MapFailure, Reason

\* A command that ends has nothing left to keep.
LEMMA EndKeeps ==
    ASSUME ChainInv, FilesTyped', labelsFile' = labelsFile, NEW p \in Shell,
           NEW out \in Reason \union {"result"}, cmd' = [cmd EXCEPT ![p] = Chain!Ended(out)]
    PROVE  ChainInv'
  <1> PICK c : c = Chain!Ended(out)
    OBVIOUS
  <1>1. c \in Command /\ c.pc = "idle" /\ c.op = "none"
    BY DEF Chain!Ended, Command
  <1> QED
    BY <1>1, CommandKeeps DEF Bound

\* Refusals end a command, never with a result.
LEMMA RefusalKeeps ==
    ASSUME ChainInv, FilesTyped', labelsFile' = labelsFile, NEW p \in Shell,
           NEW class \in {"run", "network", "annotation", "cache"}, NEW code,
           Chain!RefuseRead(p, class, code) \/ Chain!Refuse(p, class, code)
    PROVE  ChainInv' /\ cmd'[p].out \in Reason
  <1>1. PICK out \in Reason : cmd' = [cmd EXCEPT ![p] = Chain!Ended(out)]
    BY RefusalsHaveReasons DEF Chain!RefuseRead, Chain!Refuse, Chain!Finish, Reason
  <1>2. ChainInv'
    BY <1>1, EndKeeps
  <1> QED
    BY <1>1, <1>2 DEF Chain!Ended, ChainInv


\* Most steps write no file.
LEMMA FilesUntouched ==
    ASSUME ChainInv, UNCHANGED Chain!files
    PROVE  FilesTyped' /\ labelsFile' = labelsFile
  BY DEF ChainInv, FilesTyped, Chain!files

\* A start needs the files it is refused without.
LEMMA ChainStartKeeps ==
    ASSUME ChainInv, NEW p \in Shell,
           NEW op \in {"sources", "evidence", "annotate", "run", "taxonomy"},
           Chain!Start(p, op)
    PROVE  ChainInv'
  <1>1. FilesTyped' /\ labelsFile' = labelsFile
    BY FilesUntouched DEF Chain!Start
  <1> DEFINE next == IF op = "sources" THEN "download" ELSE "criteria"
  <1>2. CASE cmd' = [cmd EXCEPT ![p] = [Chain!Ended("running") EXCEPT !.op = op, !.pc = next]]
             /\ (op \in {"run", "taxonomy"} => labelsFile \in Labels)
    <2> PICK c : c = [Chain!Ended("running") EXCEPT !.op = op, !.pc = next]
      OBVIOUS
    <2>1. c \in Command /\ c.pc = next /\ c.op = op /\ c.out = "running"
      BY DEF Chain!Ended, Command, Reason
    <2>2. Bound(c)
      BY <2>1 DEF Bound
    <2> QED
      BY <1>1, <1>2, <2>1, <2>2, CommandKeeps
  <1>3. CASE \E out \in Reason : cmd' = [cmd EXCEPT ![p] = Chain!Ended(out)]
    BY <1>1, <1>3, EndKeeps
  <1>4. labelsFile # Absent => labelsFile \in Labels
    BY DEF ChainInv, FilesTyped
  <1> QED
    BY <1>2, <1>3, <1>4 DEF Chain!Start, Reason

\* What every read leaves of the command.
LEMMA ReadKeeps ==
    ASSUME ChainInv, NEW p \in Shell, UNCHANGED Chain!files, NEW c \in Command, Bound(c),
           cmd' = [cmd EXCEPT ![p] = c], c.op = cmd[p].op
    PROVE  ChainInv'
  BY FilesUntouched, CommandKeeps DEF ChainInv

\* A step that only goes on, to one for which enough was read.
LEMMA AdvanceKeeps ==
    ASSUME ChainInv, NEW p \in Shell, FilesTyped', labelsFile' = labelsFile,
           NEW pc, Chain!Goto(p, pc), cmd[p].pc # "idle",
           NEW c \in Command, Bound(c), c = [cmd[p] EXCEPT !.pc = pc]
    PROVE  ChainInv' /\ cmd'[p].out = "running"
  <1>1. cmd \in [Shell -> Command] /\ cmd[p] \in Command /\ Bound(cmd[p])
    BY DEF ChainInv
  <1>2. cmd' = [cmd EXCEPT ![p] = c] /\ c.op = cmd[p].op /\ c.out = "running"
    BY <1>1 DEF Chain!Goto, Command, Bound
  <1>3. ChainInv'
    BY <1>2, CommandKeeps DEF ChainInv
  <1> QED
    BY <1>1, <1>2, <1>3

\* The criteria are read, and only the criteria.
LEMMA LoadCriteriaKeeps ==
    ASSUME ChainInv, NEW p \in Shell, Chain!LoadCriteria(p)
    PROVE  ChainInv' /\ cmd'[p].out = "running" /\ cmd[p].pc = "criteria"
  <1> DEFINE next == CASE cmd[p].op = "evidence" -> "match"
                       [] cmd[p].op = "annotate" -> "index"
                       [] OTHER -> "labels"
  <1> PICK c : c = [cmd[p] EXCEPT !.criteria = criteriaFile, !.pc = next]
    OBVIOUS
  <1>1. cmd[p] \in Command /\ Bound(cmd[p]) /\ cmd[p].pc = "criteria" /\ UNCHANGED Chain!files
    BY DEF ChainInv, Chain!LoadCriteria, Chain!At, Chain!quiet
  <1>2. criteriaFile \in Version \union {Absent}
    BY DEF ChainInv, FilesTyped
  <1>3. /\ c \in Command /\ c.pc = next /\ c.op = cmd[p].op /\ c.out = cmd[p].out
        /\ cmd' = [cmd EXCEPT ![p] = c]
    BY <1>1, <1>2 DEF Chain!LoadCriteria, ChainInv, Command
  <1>4. Bound(c)
    BY <1>1, <1>3 DEF Bound
  <1>5. ChainInv'
    BY <1>1, <1>3, <1>4, ReadKeeps
  <1> QED
    BY <1>1, <1>3, <1>5 DEF Bound, ChainInv

\* Preparing gives no result.
LEMMA PrepareKeeps ==
    ASSUME ChainInv, NEW p \in Shell, Chain!Prepare(p)
    PROVE  ChainInv' /\ (cmd'[p].out = "result" => cmd[p].pc = "idle")
  <1>1. cmd \in [Shell -> Command] /\ cmd[p] \in Command /\ Bound(cmd[p])
    BY DEF ChainInv
  <1>2. ASSUME NEW pc \in {"download", "fetch", "publish"}, Chain!Goto(p, pc), cmd[p].pc # "idle",
               UNCHANGED Chain!files
        PROVE  ChainInv' /\ cmd'[p].out = "running"
    <2> PICK c : c = [cmd[p] EXCEPT !.pc = pc]
      OBVIOUS
    <2>1. c \in Command /\ c.pc = pc /\ c.out = "running"
      BY <1>1, <1>2 DEF Command, Bound
    <2>2. Bound(c)
      BY <2>1 DEF Bound
    <2> QED
      BY <1>2, <2>1, <2>2, AdvanceKeeps, FilesUntouched
  <1>3. ASSUME NEW class \in {"network", "cache"}, NEW code, Chain!Refuse(p, class, code),
               UNCHANGED Chain!files
        PROVE  ChainInv' /\ cmd'[p].out \in Reason
    BY <1>3, FilesUntouched, RefusalKeeps
  <1>4. CASE Chain!MatchSources(p)
    BY <1>2, <1>3, <1>4 DEF Chain!MatchSources, Chain!quiet, Chain!At, Reason
  <1>5. CASE Chain!Download(p)
    BY <1>2, <1>3, <1>5 DEF Chain!Download, Chain!quiet, Chain!At, Reason
  <1>6. CASE Chain!FetchEvidence(p)
    BY <1>2, <1>3, <1>6 DEF Chain!FetchEvidence, Chain!quiet, Chain!At, Reason
  <1>7. CASE Chain!Publish(p)
    <2>1. cmd[p].criteria \in Version \union {Absent}
      BY <1>1 DEF Command
    <2>2. FilesTyped' /\ labelsFile' = labelsFile
      BY <1>7, <2>1 DEF Chain!Publish, ChainInv, FilesTyped
    <2>3. cmd' = [cmd EXCEPT ![p] = Chain!Ended("complete")]
      BY <1>7 DEF Chain!Publish, Chain!Finish
    <2>4. ChainInv'
      BY <2>2, <2>3, EndKeeps DEF Reason
    <2> QED
      BY <1>1, <2>3, <2>4 DEF Chain!Ended
  <1> QED
    BY <1>4, <1>5, <1>6, <1>7 DEF Chain!Prepare, Reason

\* An index is accepted only if it was prepared for the criteria.
LEMMA LoadIndexKeeps ==
    ASSUME ChainInv, NEW p \in Shell, Chain!LoadIndex(p)
    PROVE  ChainInv' /\ cmd'[p].out \in Reason
  <1>1. /\ cmd \in [Shell -> Command] /\ cmd[p] \in Command /\ Bound(cmd[p])
        /\ cmd[p].pc = "index" /\ UNCHANGED Chain!files
    BY DEF ChainInv, Chain!LoadIndex, Chain!At, Chain!quiet
  <1>2. CASE index # cmd[p].criteria
    BY <1>1, <1>2, FilesUntouched, RefusalKeeps DEF Chain!LoadIndex
  <1>3. CASE index = cmd[p].criteria
    <2> PICK c : c = [cmd[p] EXCEPT !.prepared = index, !.pc = Chain!AfterIndex[cmd[p].op]]
      OBVIOUS
    <2>1. cmd[p].op \in {"annotate", "run", "taxonomy"}
      BY <1>1 DEF Bound
    <2>2. /\ Chain!AfterIndex["annotate"] = "pair" /\ Chain!AfterIndex["run"] = "pass"
          /\ Chain!AfterIndex["taxonomy"] = "misses"
      BY DEF Chain!AfterIndex
    <2>3. /\ c \in Command /\ cmd' = [cmd EXCEPT ![p] = c] /\ c.op = cmd[p].op /\ c.out = "running"
          /\ c.labels = cmd[p].labels /\ c.criteria = cmd[p].criteria /\ c.universe = cmd[p].universe
          /\ c.prepared = c.criteria /\ c.pc \in {"pair", "pass", "misses"}
          /\ c.pc = "pass" => c.op = "run"
      BY <1>1, <1>3, <2>1, <2>2 DEF Chain!LoadIndex, Command, Bound
    <2>4. Bound(c)
      BY <1>1, <2>3 DEF Bound
    <2>5. ChainInv'
      BY <1>1, <2>3, <2>4, ReadKeeps
    <2> QED
      BY <1>1, <2>3, <2>5 DEF Reason
  <1> QED
    BY <1>2, <1>3

\* The pair is written for the criteria.
LEMMA WritePairKeeps ==
    ASSUME ChainInv, NEW p \in Shell, Chain!WritePair(p)
    PROVE  ChainInv' /\ cmd'[p].out = "complete"
  <1>1. cmd \in [Shell -> Command] /\ cmd[p] \in Command
    BY DEF ChainInv
  <1>2. FilesTyped' /\ labelsFile' = labelsFile
    BY <1>1 DEF Chain!WritePair, ChainInv, FilesTyped, Command
  <1>3. cmd' = [cmd EXCEPT ![p] = Chain!Ended("complete")]
    BY DEF Chain!WritePair, Chain!Finish
  <1>4. ChainInv'
    BY <1>2, <1>3, EndKeeps DEF Reason
  <1> QED
    BY <1>1, <1>3, <1>4 DEF Chain!Ended

\* Labels are accepted only if they were made for the criteria.
LEMMA LoadLabelsKeeps ==
    ASSUME ChainInv, NEW p \in Shell, Chain!LoadLabels(p)
    PROVE  ChainInv' /\ cmd'[p].out \in Reason
  <1>1. /\ cmd \in [Shell -> Command] /\ cmd[p] \in Command /\ Bound(cmd[p])
        /\ cmd[p].pc = "labels" /\ UNCHANGED Chain!files
    BY DEF ChainInv, Chain!LoadLabels, Chain!At, Chain!quiet
  <1>2. CASE ~(labelsFile.confirmed /\ labelsFile.criteria = cmd[p].criteria)
    BY <1>1, <1>2, FilesUntouched, RefusalKeeps DEF Chain!LoadLabels
  <1>3. CASE labelsFile.confirmed /\ labelsFile.criteria = cmd[p].criteria
    <2> PICK c : c = [cmd[p] EXCEPT !.labels = labelsFile, !.pc = "recheck"]
      OBVIOUS
    <2>1. labelsFile \in Labels
      BY <1>1 DEF ChainInv, FilesTyped, Bound
    <2>2. /\ c \in Command /\ cmd' = [cmd EXCEPT ![p] = c] /\ c.op = cmd[p].op /\ c.out = "running"
          /\ c.labels = labelsFile /\ c.criteria = cmd[p].criteria /\ c.pc = "recheck"
      BY <1>1, <1>3, <2>1 DEF Chain!LoadLabels, Command, Bound
    <2>3. ChainInv'
      BY <1>1, <1>3, <2>1, <2>2, ReadKeeps DEF Bound
    <2> QED
      BY <1>1, <2>2, <2>3 DEF Reason
  <1> QED
    BY <1>2, <1>3

\* A run goes on only with labels that fit.
LEMMA RecheckCriteriaKeeps ==
    ASSUME ChainInv, NEW p \in Shell, Chain!RecheckCriteria(p)
    PROVE  ChainInv' /\ cmd'[p].out \in Reason
  <1>1. /\ cmd \in [Shell -> Command] /\ cmd[p] \in Command /\ Bound(cmd[p])
        /\ cmd[p].pc = "recheck" /\ UNCHANGED Chain!files
    BY DEF ChainInv, Chain!RecheckCriteria, Chain!At, Chain!quiet
  <1>2. CASE ~(criteriaFile = cmd[p].criteria /\ Chain!LabelsFit(cmd[p].labels))
    BY <1>1, <1>2, FilesUntouched, RefusalKeeps DEF Chain!RecheckCriteria
  <1>3. CASE criteriaFile = cmd[p].criteria /\ Chain!LabelsFit(cmd[p].labels)
    <2> PICK pc : pc = IF cmd[p].op = "run" THEN "universe" ELSE "index"
      OBVIOUS
    <2> PICK c : c = [cmd[p] EXCEPT !.pc = pc]
      OBVIOUS
    <2>1. /\ c \in Command /\ c.pc = pc /\ c.op = cmd[p].op /\ c.out = "running"
          /\ c.labels = cmd[p].labels /\ c.criteria = cmd[p].criteria
      BY <1>1 DEF Command, Bound
    <2>2. cmd[p].op \in {"run", "taxonomy"}
      BY <1>1 DEF Bound
    <2>3. Bound(c)
      BY <1>1, <1>3, <2>1, <2>2 DEF Bound
    <2>4. Chain!Goto(p, pc)
      BY <1>3 DEF Chain!RecheckCriteria
    <2> QED
      BY <1>1, <2>1, <2>3, <2>4, AdvanceKeeps, FilesUntouched DEF Reason
  <1> QED
    BY <1>2, <1>3

\* A universe is accepted only if it was built for the criteria.
LEMMA ReadUniverseKeeps ==
    ASSUME ChainInv, NEW p \in Shell, Chain!ReadUniverse(p)
    PROVE  ChainInv' /\ cmd'[p].out \in Reason
  <1>1. /\ cmd \in [Shell -> Command] /\ cmd[p] \in Command /\ Bound(cmd[p])
        /\ cmd[p].pc = "universe" /\ UNCHANGED Chain!files
    BY DEF ChainInv, Chain!ReadUniverse, Chain!At, Chain!quiet
  <1>2. CASE ~(universe = cmd[p].criteria /\ cmd[p].labels.universe = universe)
    BY <1>1, <1>2, FilesUntouched, RefusalKeeps DEF Chain!ReadUniverse
  <1>3. CASE universe = cmd[p].criteria /\ cmd[p].labels.universe = universe
    <2> PICK c : c = [cmd[p] EXCEPT !.universe = universe, !.pc = "index"]
      OBVIOUS
    <2>1. /\ c \in Command /\ cmd' = [cmd EXCEPT ![p] = c] /\ c.op = cmd[p].op /\ c.out = "running"
          /\ c.labels = cmd[p].labels /\ c.criteria = cmd[p].criteria /\ c.universe = c.criteria
          /\ c.pc = "index"
      BY <1>1, <1>3 DEF Chain!ReadUniverse, Command, Bound
    <2>2. Bound(c)
      BY <1>1, <2>1 DEF Bound
    <2>3. ChainInv'
      BY <1>1, <2>1, <2>2, ReadKeeps
    <2> QED
      BY <1>1, <2>1, <2>3 DEF Reason
  <1> QED
    BY <1>2, <1>3

\* A run that has accepted its inputs is scored.
LEMMA FirstPassKeeps ==
    ASSUME ChainInv, NEW p \in Shell, Chain!FirstPass(p)
    PROVE  ChainInv' /\ cmd'[p].pc = "again" /\ cmd'[p].out \in Reason
  <1>1. /\ cmd \in [Shell -> Command] /\ cmd[p] \in Command /\ Bound(cmd[p])
        /\ cmd[p].pc = "pass"
    BY DEF ChainInv, Chain!FirstPass, Chain!At
  <1>2. FilesTyped' /\ labelsFile' = labelsFile
    BY <1>1 DEF Chain!FirstPass, ChainInv, FilesTyped, Command
  <1>3. cmd[p].labels \in Labels /\ Chain!LabelsFit(cmd[p].labels)
    BY <1>1 DEF Bound
  <1>4. \A found \in Chain!Retrievals : Chain!Pass(found, cmd[p].labels) = "result"
    BY <1>3, FittingLabelsAreScored
  <1>5. Chain!Goto(p, "again")
    BY <1>4 DEF Chain!FirstPass
  <1> PICK c : c = [cmd[p] EXCEPT !.pc = "again"]
    OBVIOUS
  <1>6. /\ c \in Command /\ c.pc = "again" /\ c.op = cmd[p].op /\ c.out = "running"
        /\ c.labels = cmd[p].labels /\ c.criteria = cmd[p].criteria
        /\ c.universe = cmd[p].universe /\ c.prepared = cmd[p].prepared
    BY <1>1 DEF Command, Bound
  <1>7. Bound(c)
    BY <1>1, <1>6 DEF Bound
  <1>8. ChainInv' /\ cmd'[p].out = "running"
    BY <1>1, <1>2, <1>5, <1>7, <1>6, AdvanceKeeps
  <1> QED
    BY <1>1, <1>5, <1>8 DEF Chain!Goto, Reason, Command

\* Only the second pass ends in a result.
LEMMA SecondPassKeeps ==
    ASSUME ChainInv, NEW p \in Shell, Chain!SecondPass(p)
    PROVE  ChainInv' /\ cmd[p].pc = "again"
  <1>1. UNCHANGED Chain!files /\ cmd' = [cmd EXCEPT ![p] = Chain!Ended("result")]
    BY DEF Chain!SecondPass, Chain!Finish, Chain!quiet
  <1> QED
    BY <1>1, FilesUntouched, EndKeeps DEF Chain!SecondPass, Chain!At

\* The taxonomy reports misses or none.
LEMMA ListMissesKeeps ==
    ASSUME ChainInv, NEW p \in Shell, Chain!ListMisses(p)
    PROVE  ChainInv' /\ cmd'[p].out \in Reason
  <1>1. PICK out \in {"no_miss", "misses"} : cmd' = [cmd EXCEPT ![p] = Chain!Ended(out)]
    BY DEF Chain!ListMisses, Chain!Finish
  <1>2. UNCHANGED Chain!files /\ out \in Reason
    BY DEF Chain!ListMisses, Chain!quiet, Reason
  <1>3. ChainInv'
    BY <1>1, <1>2, FilesUntouched, EndKeeps
  <1> QED
    BY <1>1, <1>2, <1>3 DEF Chain!Ended, ChainInv

\* An audit is one step of an idle process.
LEMMA AuditKeeps ==
    ASSUME ChainInv, NEW p \in Shell, Chain!Audit(p)
    PROVE  ChainInv' /\ cmd[p].pc = "idle"
  <1>1. PICK out \in Reason : cmd' = [cmd EXCEPT ![p] = Chain!Ended(out)]
    BY DEF Chain!Audit, Chain!Finish, Reason
  <1> QED
    BY <1>1, FilesUntouched, EndKeeps DEF Chain!Audit, Chain!At

\* The owner's edits: labels are never taken away.
LEMMA OwnerKeeps ==
    ASSUME ChainInv,
           \/ \E v \in Version : Chain!ConfirmCriteria(v)
           \/ \E relevant \in SUBSET Chain!Key, slip \in {"none", "unlabelled", "missing", "unconfirmed"} :
                 Chain!ConfirmLabels(relevant, slip)
    PROVE  ChainInv' /\ cmd' = cmd
  <1>1. CASE \E v \in Version : Chain!ConfirmCriteria(v)
    BY <1>1 DEF Chain!ConfirmCriteria, ChainInv, FilesTyped
  <1>2. ASSUME NEW relevant \in SUBSET Chain!Key,
               NEW slip \in {"none", "unlabelled", "missing", "unconfirmed"},
               Chain!ConfirmLabels(relevant, slip)
        PROVE  ChainInv' /\ cmd' = cmd
    <2>1. universe \in Version \union {Absent} /\ universe # Absent
      BY <1>2 DEF ChainInv, FilesTyped, Chain!ConfirmLabels
    <2>2. Chain!DeriveExpectedMissing(relevant) \in SUBSET (Criterion \X Chain!StaticTypes)
      BY DEF Chain!DeriveExpectedMissing
    <2> PICK keys : keys = IF slip = "unlabelled"
                           THEN Chain!Key \ {CHOOSE k \in Chain!Key : TRUE} ELSE Chain!Key
      OBVIOUS
    <2>3. labelsFile' \in Labels
      <3> HIDE DEF Chain!DeriveExpectedMissing
      <3> QED
        BY <1>2, <2>1, <2>2 DEF Chain!ConfirmLabels, Labels
    <2> QED
      BY <1>2, <2>3 DEF Chain!ConfirmLabels, ChainInv, FilesTyped
  <1> QED
    BY <1>1, <1>2

\* The steps of one command.
Acts(p) ==
    \/ \E op \in {"sources", "evidence", "annotate", "run", "taxonomy"} : Chain!Start(p, op)
    \/ Chain!LoadCriteria(p) \/ Chain!Prepare(p) \/ Chain!LoadIndex(p) \/ Chain!WritePair(p)
    \/ Chain!Score(p) \/ Chain!Audit(p)

\* Every step keeps the invariant, is taken by the command it changes, gets no
\* result but from a second pass, and leads from the first pass to the second.
LEMMA ActsKeep ==
    ASSUME ChainInv, NEW p \in Shell, Acts(p)
    PROVE  /\ ChainInv'
           /\ cmd'[p].out = "result" => cmd[p].pc \in {"idle", "again"}
           /\ cmd[p].pc = "pass" => cmd'[p].pc = "again"
  <1>1. "result" \notin Reason
    BY DEF Reason
  <1>2. CASE \E op \in {"sources", "evidence", "annotate", "run", "taxonomy"} : Chain!Start(p, op)
    BY <1>2, ChainStartKeeps DEF Chain!Start, Chain!At
  <1>3. CASE Chain!LoadCriteria(p)
    BY <1>3, LoadCriteriaKeeps, <1>1
  <1>4. CASE Chain!Prepare(p)
    BY <1>4, PrepareKeeps DEF Chain!Prepare, Chain!MatchSources, Chain!Download,
         Chain!FetchEvidence, Chain!Publish, Chain!At
  <1>5. CASE Chain!LoadIndex(p)
    BY <1>1, <1>5, LoadIndexKeeps DEF Chain!LoadIndex, Chain!At
  <1>6. CASE Chain!WritePair(p)
    BY <1>6, WritePairKeeps DEF Chain!WritePair, Chain!At
  <1>7. CASE Chain!LoadLabels(p)
    BY <1>1, <1>7, LoadLabelsKeeps DEF Chain!LoadLabels, Chain!At
  <1>8. CASE Chain!RecheckCriteria(p)
    BY <1>1, <1>8, RecheckCriteriaKeeps DEF Chain!RecheckCriteria, Chain!At
  <1>9. CASE Chain!ReadUniverse(p)
    BY <1>1, <1>9, ReadUniverseKeeps DEF Chain!ReadUniverse, Chain!At
  <1>10. CASE Chain!FirstPass(p)
    BY <1>1, <1>10, FirstPassKeeps
  <1>11. CASE Chain!SecondPass(p)
    BY <1>11, SecondPassKeeps
  <1>12. CASE Chain!ListMisses(p)
    BY <1>1, <1>12, ListMissesKeeps DEF Chain!ListMisses, Chain!At
  <1>13. CASE Chain!Audit(p)
    BY <1>13, AuditKeeps
  <1> QED
    BY <1>2, <1>3, <1>4, <1>5, <1>6, <1>7, <1>8, <1>9, <1>10, <1>11, <1>12, <1>13
       DEF Acts, Chain!Score

\* A command is moved by itself alone.
LEMMA OthersStay ==
    ASSUME ChainInv, NEW p \in Shell, NEW q \in Shell, p # q, Acts(p)
    PROVE  cmd'[q] = cmd[q]
  <1>1. DOMAIN cmd = Shell
    BY DEF ChainInv
  <1>2. \/ \E op \in {"sources", "evidence", "annotate", "run", "taxonomy"} : Chain!Start(p, op)
        \/ Chain!Audit(p) \/ Chain!ListMisses(p) \/ Chain!SecondPass(p) \/ Chain!WritePair(p)
        => cmd'[q] = cmd[q]
    BY <1>1 DEF Chain!Start, Chain!Audit, Chain!ListMisses, Chain!SecondPass, Chain!WritePair,
                Chain!Finish
  <1>3. Chain!Prepare(p) => cmd'[q] = cmd[q]
    BY <1>1 DEF Chain!Prepare, Chain!MatchSources, Chain!Download, Chain!FetchEvidence,
                Chain!Publish, Chain!Finish, Chain!Refuse, Chain!Goto
  <1>4. Chain!LoadCriteria(p) \/ Chain!LoadIndex(p) => cmd'[q] = cmd[q]
    BY <1>1 DEF Chain!LoadCriteria, Chain!LoadIndex, Chain!RefuseRead, Chain!Refuse, Chain!Finish
  <1>5. Chain!LoadLabels(p) \/ Chain!RecheckCriteria(p) \/ Chain!ReadUniverse(p) \/ Chain!FirstPass(p)
        => cmd'[q] = cmd[q]
    BY <1>1 DEF Chain!LoadLabels, Chain!RecheckCriteria, Chain!ReadUniverse, Chain!FirstPass,
                Chain!Goto, Chain!RefuseRead, Chain!Refuse, Chain!Finish
  <1> QED
    BY <1>2, <1>3, <1>4, <1>5 DEF Acts, Chain!Score

\* What a step of the chain does, by whom.
LEMMA ChainNextKeeps ==
    ASSUME ChainInv, [Chain!Next]_Chain!vars
    PROVE  /\ ChainInv'
           /\ \A p \in Shell : cmd'[p] # cmd[p] => Acts(p)
  <1>1. CASE UNCHANGED Chain!vars
    BY <1>1 DEF Chain!vars, ChainInv, FilesTyped
  <1>2. ASSUME NEW p \in Shell, Acts(p)
        PROVE  ChainInv' /\ \A q \in Shell : cmd'[q] # cmd[q] => Acts(q)
    BY <1>2, ActsKeep, OthersStay
  <1>3. CASE \/ \E v \in Version : Chain!ConfirmCriteria(v)
             \/ \E relevant \in SUBSET Chain!Key : Chain!ConfirmLabels(relevant, "none")
             \/ \E slip \in {"unlabelled", "missing", "unconfirmed"} : Chain!ConfirmLabels({}, slip)
    BY <1>3, OwnerKeeps
  <1> QED
    BY <1>1, <1>2, <1>3 DEF Chain!Next, Acts

\* Nobody runs anything at first.
LEMMA ChainInitHolds ==
    ASSUME Chain!Init
    PROVE  ChainInv
  BY DEF Chain!Init, Chain!Ended, ChainInv, FilesTyped, Command, Reason, Bound

\* The invariant of the chain.
LEMMA ChainInvariance ==
    ChainSpec => []ChainInv
  <1>1. ChainInv /\ [Chain!Next]_Chain!vars => ChainInv'
    BY ChainNextKeeps
  <1> QED
    BY <1>1, ChainInitHolds, PTL DEF ChainSpec, Chain!Spec

-----------------------------------------------------------------------------
(* The theorems about the commands.                                        *)

\* A result names criteria, labels, universe and evidence that belong together,
\* whatever was edited, prepared or annotated between the reads of run_r002.
THEOREM ResultsOfOneChain ==
    ChainSpec => OneChain
  <1>1. ASSUME ChainInv, [Chain!Next]_Chain!vars
        PROVE  \A p \in Shell :
                 cmd[p].op = "run" /\ cmd'[p].out = "result" /\ cmd[p].pc # "idle" =>
                     /\ cmd[p].labels.criteria = cmd[p].criteria
                     /\ cmd[p].universe = cmd[p].criteria
                     /\ cmd[p].prepared = cmd[p].criteria
    <2> SUFFICES ASSUME NEW p \in Shell, cmd'[p].out = "result", cmd[p].pc # "idle"
                 PROVE  /\ cmd[p].labels.criteria = cmd[p].criteria
                        /\ cmd[p].universe = cmd[p].criteria
                        /\ cmd[p].prepared = cmd[p].criteria
      OBVIOUS
    <2>1. Bound(cmd[p])
      BY <1>1 DEF ChainInv
    <2>2. cmd'[p] # cmd[p]
      BY <2>1 DEF Bound
    <2>3. cmd[p].pc = "again"
      BY <1>1, <2>2, ChainNextKeeps, ActsKeep
    <2> QED
      BY <2>1, <2>3 DEF Bound
  <1> QED
    BY <1>1, ChainInvariance, PTL DEF ChainSpec, Chain!Spec, OneChain, Chain!OneChain

\* A run whose inputs were accepted gets its result: the explanations, metrics
\* and the gate of evaluate_r002_case pass every validator, for any labels and
\* any retrieval.
THEOREM AcceptedAreScored ==
    ChainSpec => AcceptedInputsAreScored
  <1>1. ASSUME ChainInv, [Chain!Next]_Chain!vars
        PROVE  \A p \in Shell : cmd[p].pc = "pass" /\ cmd'[p] # cmd[p] => cmd'[p].pc = "again"
    BY <1>1, ChainNextKeeps, ActsKeep
  <1> QED
    BY <1>1, ChainInvariance, PTL DEF ChainSpec, Chain!Spec, AcceptedInputsAreScored, Chain!AcceptedInputsAreScored

=============================================================================
