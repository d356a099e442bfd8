---------------------------- MODULE BenchmarkCache ----------------------------
(***************************************************************************)
(* scopeproof_core/evals/r002_cache.py: the local store of the R-002       *)
(* benchmark, used by several commands at once.  Content-addressed objects *)
(* are published with a hard link and never replaced; completion markers   *)
(* and controls are replaced atomically; the annotation universe and its   *)
(* review sheet are written as a pair under a file lock, and put back when *)
(* the second of them cannot be written.                                   *)
(*                                                                         *)
(* A step is one system call with the decision taken on its result.  A     *)
(* file is the inode it was written to, a directory maps names to inodes,  *)
(* and next to the directory processes see there is the one a power loss   *)
(* would leave.  What a file says is its version: objects and markers have *)
(* one (the source manifest is frozen), a pair one per call that wrote it. *)
(* Objects and review bundles lie in namespace directories below the root, *)
(* made when the first file is written there, and a directory of which no  *)
(* fsync of the root has put the entry on disk goes with all its files     *)
(* when power is lost.  The root itself is on disk, names and values are   *)
(* those the closed name table and the models accept, and file owners,     *)
(* modes and sizes are right.                                              *)
(***************************************************************************)
EXTENDS Naturals, FiniteSets, TLC

CONSTANTS
    Proc,        \* running commands
    SourceObj,   \* problem statements: what the criteria-source index lists
    Row,         \* dataset rows, and
    HeadFile,    \* head files: what the cache index lists
    Jobs,        \* the kinds of commands started
    MaxInode,    \* bound on the files ever written
    MaxCalls,    \* bound on the calls ever started
    MaxMishaps   \* bound on failing system calls, killed processes and power
                 \* losses, together

EvidenceObj == Row \union HeadFile
Object == SourceObj \union EvidenceObj
Marker == {"criteria-source-index", "cache-index"}
Pair == {"annotation-universe", "annotation-review"}
Name == Object \union Marker \union Pair \union {"review-bundle"}
AllJobs == {"sources", "evidence", "annotate", "save"}

\* What was prepared and annotated before, if anything was.
Prepared == SourceObj \union {"criteria-source-index"} \union Pair

ASSUME CacheAssumption ==
    /\ MaxInode \in Nat /\ MaxCalls \in Nat /\ MaxMishaps \in Nat
    /\ Jobs \subseteq AllJobs /\ "free" \notin Proc
    /\ Object \intersect (Marker \union Pair \union {"review-bundle"}) = {}
    /\ SourceObj \intersect EvidenceObj = {} /\ Row \intersect HeadFile = {}
    /\ SourceObj # {} /\ EvidenceObj # {} /\ IsFiniteSet(Object)
    /\ Cardinality(Prepared) <= MaxInode

VARIABLES
    dir,     \* what processes see: names and private names -> inodes
    disk,    \* what a power loss would leave
    file,    \* per inode: the name and version it was written for, and whether
             \* its bytes are on disk
    made,    \* number of inodes written so far
    spaces,  \* the directories there are: the root and namespaces below it
    rooted,  \* those a power loss would leave
    lock,    \* holder of `.r002-annotation.lock`
    st,      \* where each process is in its call
    acked,   \* history: the objects and markers a call reported as written, but
             \* for objects that went with their directory
    calls,   \* counter of the bound MaxCalls
    mishaps  \* counter of the bound MaxMishaps

vars == <<dir, disk, file, made, spaces, rooted, lock, st, acked, calls, mishaps>>
storage == <<dir, disk, file, made, spaces, rooted>>

None == 0
Torn == MaxCalls + 2   \* the bytes of a file that was not flushed when power was lost
Inode == 1..MaxInode

\* The directory of a name.
Area(n) == CASE n \in SourceObj -> "criteria-sources"
             [] n \in Row -> "rows"
             [] n \in HeadFile -> "head-files"
             [] n = "review-bundle" -> "reviews"
             [] OTHER -> "root"

Areas == {"root", "criteria-sources", "rows", "head-files", "reviews"}

Refs(marker) == IF marker = "cache-index" THEN EvidenceObj ELSE SourceObj

Idle == [job |-> "none", pc |-> "idle", name |-> "none", ino |-> None, seen |-> None,
         done |-> {}, prev |-> [n \in Pair |-> None], ver |-> None, out |-> "none"]

\* Types, and that the annotation lock is held by the calls that write the pair
\* and by no other: it goes with the process that dies.
TypeOK ==
    /\ {dir, disk} \subseteq [name : [Name -> 0..made], temp : SUBSET (1..made)]
    /\ made \in 0..MaxInode
    /\ "root" \in rooted /\ rooted \subseteq spaces /\ spaces \subseteq Areas
    /\ file \in [Inode -> [name : Name \union {"none"}, ver : 0..(MaxCalls + 1) \union {Torn},
                           flushed : BOOLEAN]]
    /\ lock \in Proc \union {"free"}
    /\ acked \subseteq Object \union Marker
    /\ \A p \in Proc : lock = p <=> /\ st[p].job \in {"annotate", "undo"}
                                    /\ st[p].pc # "lock"

(***************************************************************************)
(* Reading a name.  A file with a second link is refused everywhere except *)
(* by the reconciliation of a link that may or may not have happened.      *)
(***************************************************************************)
Present(n) == dir.name[n] # None
Readable(n) == Present(n) /\ dir.name[n] \notin dir.temp
VersionOf(n) == IF Present(n) THEN file[dir.name[n]].ver ELSE None

\* _verify_criteria_source_index, _verify_cache_index: what a marker lists can
\* be read, and the cache index only under its criteria sources.
ObjectsReadable(marker) == \A o \in Refs(marker) : Readable(o)
Verified(marker) ==
    /\ ObjectsReadable(marker)
    /\ marker = "cache-index" => /\ Present("criteria-source-index")
                                 /\ ObjectsReadable("criteria-source-index")

\* _replace_destination_usable, of a file that is there.
Usable(n) ==
    CASE n \in Marker -> Verified(n)
      [] n = "annotation-review" -> VersionOf(n) = VersionOf("annotation-universe")
      [] OTHER -> TRUE

(***************************************************************************)
(* What the steps share.                                                   *)
(***************************************************************************)
Goto(p, pc) == /\ st' = [st EXCEPT ![p].pc = pc]
               /\ UNCHANGED <<lock, acked>>

Without(d, i) == [d EXCEPT !.temp = @ \ {i}]

\* The directory on disk after an fsync of the directory of name n.
Synced(n) ==
    [name |-> [m \in Name |-> IF Area(m) = Area(n) THEN dir.name[m] ELSE disk.name[m]],
     temp |-> {i \in dir.temp : Area(file[i].name) = Area(n)}
                \union {i \in disk.temp : Area(file[i].name) # Area(n)}]

\* The directory of n is flushed, and with the root the entries of all others.
Fsync(n) ==
    /\ disk' = Synced(n)
    /\ rooted' = IF Area(n) = "root" THEN spaces ELSE rooted

Fails == mishaps < MaxMishaps /\ mishaps' = mishaps + 1
Works == UNCHANGED mishaps

Return(p, out) ==
    /\ st' = [st EXCEPT ![p] = [Idle EXCEPT !.out = out]]
    /\ lock' = IF lock = p THEN "free" ELSE lock

\* Mutant: only the file whose writing failed last is put back.
PutBackReview(p, n, out) ==
    /\ st' = [st EXCEPT ![p].job = "undo", ![p].name = "annotation-review", ![p].out = out,
                        ![p].ver = st[p].prev["annotation-review"],
                        ![p].pc = IF st[p].prev["annotation-review"] = None
                                  THEN "remove" ELSE "preflight"]
    /\ UNCHANGED lock

\* The pair is put back file by file, whatever became of either.
PutBack(p, n, out) ==
    /\ st' = [st EXCEPT ![p].job = "undo", ![p].name = n, ![p].out = out,
                        ![p].ver = st[p].prev[n],
                        ![p].pc = IF st[p].prev[n] = None THEN "remove" ELSE "preflight"]
    /\ UNCHANGED lock

\* A call fails with a reason.  `failed` (cache_write_failed) and `kept`
\* (cache_replace_failed) say that nothing was published, `unknown`
\* (cache_state_unknown) says nothing; `refused` is any refusal to read.
Fail(p, why) ==
    /\ CASE st[p].job = "annotate" -> PutBack(p, "annotation-universe", why)
         [] st[p].job = "undo" -> Return(p, "unknown")
         [] OTHER -> Return(p, why)
    /\ UNCHANGED acked

MarkerOf(job) == IF job = "sources" THEN "criteria-source-index" ELSE "cache-index"

\* The object or marker a preparation writes next.
NextObject(p, done) ==
    LET left == Refs(MarkerOf(st[p].job)) \ done
    IN  IF left = {} THEN [st[p] EXCEPT !.pc = "verify", !.name = MarkerOf(st[p].job)]
        ELSE [st[p] EXCEPT !.pc = "look", !.done = done, !.name = CHOOSE o \in left : TRUE]

\* The current file is written: the call goes on with its next one, or returns.
Written(p) ==
    LET n == st[p].name IN
    CASE n \in Object ->
           /\ st' = [st EXCEPT ![p] = NextObject(p, st[p].done \union {n})]
           /\ acked' = acked \union {n}
           /\ UNCHANGED lock
      [] n = "annotation-universe" /\ st[p].job = "annotate" ->
           /\ st' = [st EXCEPT ![p].name = "annotation-review", ![p].pc = "preflight"]
           /\ UNCHANGED <<lock, acked>>
      [] n = "annotation-universe" /\ st[p].job = "undo" ->
           PutBack(p, "annotation-review", st[p].out) /\ UNCHANGED acked
      [] n = "annotation-review" /\ st[p].job = "undo" ->
           Return(p, st[p].out) /\ UNCHANGED acked
      [] OTHER ->
           /\ Return(p, "ok")
           /\ acked' = acked \union ({n} \intersect Marker)

\* The cache is new, or the sources were prepared and annotated before.
Init ==
    /\ \E there \in {{}, Prepared} :
         LET inode == CHOOSE f \in [there -> 1..Cardinality(there)] :
                        \A m, n \in there : m # n => f[m] # f[n]
         IN  /\ dir = [name |-> [n \in Name |-> IF n \in there THEN inode[n] ELSE None],
                       temp |-> {}]
             /\ made = Cardinality(there)
             /\ file = [i \in Inode |->
                          IF \E n \in there : inode[n] = i
                          THEN [name |-> CHOOSE n \in there : inode[n] = i,
                                ver |-> 1, flushed |-> TRUE]
                          ELSE [name |-> "none", ver |-> None, flushed |-> FALSE]]
             /\ acked = there \ Pair
             /\ rooted = {"root"} \union {Area(n) : n \in there}
    /\ disk = dir /\ spaces = rooted
    /\ lock = "free"
    /\ st = [p \in Proc |-> Idle]
    /\ calls = 0 /\ mishaps = 0

-----------------------------------------------------------------------------
(* A command makes its call.  The preparation of the evidence begins by      *)
(* loading the criteria-source index.                                        *)
Start(p, job) ==
    /\ st[p].pc = "idle" /\ calls < MaxCalls
    /\ calls' = calls + 1
    /\ CASE job \in {"sources", "evidence"} ->
              IF job = "evidence" /\ ~(Present("criteria-source-index")
                                       /\ ObjectsReadable("criteria-source-index"))
              THEN st' = [st EXCEPT ![p] = [Idle EXCEPT !.out = "refused"]]
              ELSE LET ref == CHOOSE o \in Refs(MarkerOf(job)) : TRUE
                   IN  st' = [st EXCEPT ![p] = [Idle EXCEPT !.job = job, !.pc = "look",
                                                            !.name = ref, !.ver = 1]]
         [] job = "annotate" ->
              st' = [st EXCEPT ![p] = [Idle EXCEPT !.job = job, !.pc = "lock", !.ver = calls + 2,
                                                   !.name = "annotation-universe"]]
         [] OTHER ->
              st' = [st EXCEPT ![p] = [Idle EXCEPT !.job = job, !.pc = "preflight",
                                                   !.ver = calls + 2, !.name = "review-bundle"]]
    /\ UNCHANGED <<storage, lock, acked, mishaps>>

\* write_annotation_pair: take the lock and remember both files.
Lock(p) ==
    /\ st[p].pc = "lock" /\ lock = "free"
    /\ lock' = p
    /\ st' = [st EXCEPT ![p].pc = "preflight", ![p].prev = [n \in Pair |-> VersionOf(n)]]
    /\ UNCHANGED <<storage, acked, calls, mishaps>>

\* _prepare_temp: a private file is created with the bytes ...
WriteTemp(p) ==
    /\ st[p].pc = "write" /\ made < MaxInode
    /\ made' = made + 1
    /\ file' = [file EXCEPT ![made + 1] =
                  [name |-> st[p].name, ver |-> st[p].ver, flushed |-> FALSE]]
    /\ dir' = [dir EXCEPT !.temp = @ \union {made + 1}]
    /\ st' = [st EXCEPT ![p].pc = "flush", ![p].ino = made + 1]
    /\ UNCHANGED <<disk, spaces, rooted, lock, acked, calls, mishaps>>

\* ... and flushed; it is removed again when that fails.
FlushTemp(p) ==
    /\ st[p].pc = "flush"
    /\ \/ /\ Works
          /\ file' = [file EXCEPT ![st[p].ino].flushed = TRUE]
          /\ Goto(p, IF st[p].name \in Object THEN "link" ELSE "recheck")
          /\ UNCHANGED dir
       \/ /\ Fails
          /\ dir' = Without(dir, st[p].ino)
          /\ Fail(p, "failed")
          /\ UNCHANGED file
    /\ UNCHANGED <<disk, made, spaces, rooted, calls>>

\* _open_parent: the directory of a file is made when it is missing, and its
\* entry is not flushed; the call may fail before or after it took effect.
MakeSpace(p) ==
    /\ st[p].pc \in {"look", "preflight"} /\ Area(st[p].name) \notin spaces
    /\ \/ /\ Works
          /\ spaces' = spaces \union {Area(st[p].name)}
          /\ UNCHANGED <<st, lock, acked>>
       \/ /\ Fails
          /\ spaces' \in {spaces, spaces \union {Area(st[p].name)}}
          /\ Fail(p, "refused")
    /\ UNCHANGED <<dir, disk, file, made, rooted, calls>>

-----------------------------------------------------------------------------
(* _immutable_bytes, _publish_no_overwrite and _reconcile_ambiguous_link.    *)

\* An object that is there already is flushed to disk before it is reported as
\* written: whoever wrote it may not have got that far.
LookUp(p) ==
    /\ st[p].pc = "look" /\ Area(st[p].name) \in spaces
    /\ IF ~Present(st[p].name) THEN Goto(p, "write")
       ELSE IF ~Readable(st[p].name) THEN Fail(p, "refused")
       ELSE Goto(p, "resync")
    /\ UNCHANGED <<storage, calls, mishaps>>

\* Mutant: an existing object is reported as written without the fsync.
ResyncSkipped(p) ==
    /\ st[p].pc = "resync" /\ Works
    /\ Written(p)
    /\ UNCHANGED <<storage, calls>>

Resync(p) ==
    /\ st[p].pc = "resync"
    /\ \/ Works /\ Fsync(st[p].name) /\ Written(p)
       \/ Fails /\ UNCHANGED <<disk, rooted>> /\ Fail(p, "unknown")
    /\ UNCHANGED <<dir, file, made, spaces, calls>>

\* The link is made, or someone was first; or the call fails, which does not
\* say whether the link was made.
Link(p) ==
    /\ st[p].pc = "link"
    /\ LET linked == IF Present(st[p].name) THEN dir
                     ELSE [dir EXCEPT !.name[st[p].name] = st[p].ino]
       IN  \/ Works /\ dir' = linked /\ Goto(p, "unlink")
           \/ Fails /\ dir' \in {dir, linked} /\ Goto(p, "reconcile")
    /\ UNCHANGED <<disk, file, made, spaces, rooted, calls>>

Unlink(p) ==
    /\ st[p].pc = "unlink"
    /\ \/ Works /\ dir' = Without(dir, st[p].ino) /\ Goto(p, "sync")
       \/ Fails /\ UNCHANGED dir /\ Fail(p, "unknown")
    /\ UNCHANGED <<disk, file, made, spaces, rooted, calls>>

Sync(p) ==
    /\ st[p].pc = "sync"
    /\ \/ Works /\ Fsync(st[p].name) /\ Goto(p, "observe")
       \/ Fails /\ UNCHANGED <<disk, rooted>> /\ Fail(p, "unknown")
    /\ UNCHANGED <<dir, file, made, spaces, calls>>

\* The object is read again under its name.
Observe(p) ==
    /\ st[p].pc = "observe"
    /\ IF Readable(st[p].name) THEN Written(p) ELSE Fail(p, "refused")
    /\ UNCHANGED <<storage, calls, mishaps>>

\* Mutant: a failed link is taken to have changed nothing.
ReconcileOptimist(p) ==
    /\ st[p].pc = "reconcile"
    /\ dir' = Without(dir, st[p].ino)
    /\ disk' = Synced(st[p].name)
    /\ Fail(p, "failed")
    /\ UNCHANGED <<file, made, spaces, rooted, calls, mishaps>>

\* After a failed link: what the name shows decides, and the private name is
\* removed and that flushed in any case.
Reconcile(p) ==
    /\ st[p].pc = "reconcile"
    /\ \/ /\ Works
          /\ dir' = Without(dir, st[p].ino)
          /\ disk' = [name |-> Synced(st[p].name).name,
                      temp |-> Synced(st[p].name).temp \ {st[p].ino}]
          /\ CASE dir.name[st[p].name] = st[p].ino -> Goto(p, "observe")
               [] dir.name[st[p].name] = None -> Goto(p, "absent")
               [] OTHER -> Fail(p, "unknown")
       \/ /\ Fails
          /\ dir' \in {dir, Without(dir, st[p].ino)}
          /\ Fail(p, "unknown")
          /\ UNCHANGED disk
    /\ UNCHANGED <<file, made, spaces, rooted, calls>>

\* Only a name that is still free is a definite failure.
ConfirmAbsent(p) ==
    /\ st[p].pc = "absent"
    /\ Fail(p, IF Present(st[p].name) THEN "unknown" ELSE "failed")
    /\ UNCHANGED <<storage, calls, mishaps>>

-----------------------------------------------------------------------------
(* _replace_bytes and _stream_replace.                                       *)

\* publish_index and publish_criteria_source_index: only over readable objects.
VerifyMarker(p) ==
    /\ st[p].pc = "verify"
    /\ IF Verified(st[p].name) THEN Goto(p, "preflight") ELSE Fail(p, "refused")
    /\ UNCHANGED <<storage, calls, mishaps>>

Preflight(p) ==
    /\ st[p].pc = "preflight" /\ Area(st[p].name) \in spaces
    /\ st' = [st EXCEPT ![p].pc = "write", ![p].seen = dir.name[st[p].name]]
    /\ UNCHANGED <<storage, lock, acked, calls, mishaps>>

\* Nothing is replaced when the file is no longer the one seen at the start.
Recheck(p) ==
    /\ st[p].pc = "recheck"
    /\ IF dir.name[st[p].name] = st[p].seen
       THEN Goto(p, "swap") /\ UNCHANGED dir
       ELSE Fail(p, "kept") /\ dir' = Without(dir, st[p].ino)
    /\ UNCHANGED <<disk, file, made, spaces, rooted, calls, mishaps>>

\* The file is replaced; or the call fails, which does not say whether it was.
Swap(p) ==
    /\ st[p].pc = "swap"
    /\ LET swapped == [Without(dir, st[p].ino) EXCEPT !.name[st[p].name] = st[p].ino]
       IN  \/ Works /\ dir' = swapped /\ Goto(p, "reread")
           \/ Fails /\ dir' \in {dir, swapped} /\ Goto(p, "explain")
    /\ UNCHANGED <<disk, file, made, spaces, rooted, calls>>

\* Mutant: the reason of a failed replacement does not depend on what is there.
ExplainBlind(p) ==
    /\ st[p].pc = "explain"
    /\ dir' = Without(dir, st[p].ino)
    /\ Fail(p, "kept")
    /\ UNCHANGED <<disk, file, made, spaces, rooted, calls, mishaps>>

\* _replace_failure_reason: it failed for certain only if the file is the one
\* seen before, and one that can be used.
Explain(p) ==
    /\ st[p].pc = "explain"
    /\ dir' = Without(dir, st[p].ino)
    /\ Fail(p, IF /\ dir.name[st[p].name] = st[p].seen
                  /\ st[p].seen = None \/ Usable(st[p].name)
               THEN "kept" ELSE "unknown")
    /\ UNCHANGED <<disk, file, made, spaces, rooted, calls, mishaps>>

Reread(p) ==
    /\ st[p].pc = "reread"
    /\ IF VersionOf(st[p].name) = st[p].ver THEN Goto(p, "syncroot") ELSE Fail(p, "unknown")
    /\ UNCHANGED <<storage, calls, mishaps>>

SyncRoot(p) ==
    /\ st[p].pc = "syncroot"
    /\ \/ Works /\ Fsync(st[p].name) /\ Goto(p, "reopen")
       \/ Fails /\ UNCHANGED <<disk, rooted>> /\ Fail(p, "unknown")
    /\ UNCHANGED <<dir, file, made, spaces, calls>>

\* The value is read back once more, a marker with all it lists.
Reopen(p) ==
    /\ st[p].pc = "reopen"
    /\ IF /\ VersionOf(st[p].name) = st[p].ver
          /\ st[p].name \in Marker => Verified(st[p].name)
       THEN Written(p) ELSE Fail(p, "unknown")
    /\ UNCHANGED <<storage, calls, mishaps>>

\* _remove_annotation_artifact: a file that did not exist before is removed.
Remove(p) ==
    /\ st[p].pc = "remove"
    /\ \/ /\ Works
          /\ dir' = [dir EXCEPT !.name[st[p].name] = None]
          /\ IF Present(st[p].name)
             THEN /\ disk' = [disk EXCEPT !.name[st[p].name] = None]
                  /\ rooted' = spaces
             ELSE UNCHANGED <<disk, rooted>>
          /\ Written(p)
       \/ /\ Fails
          /\ dir' \in {dir, [dir EXCEPT !.name[st[p].name] = None]}
          /\ UNCHANGED <<disk, rooted>>
          /\ Fail(p, "unknown")
    /\ UNCHANGED <<file, made, spaces, calls>>

-----------------------------------------------------------------------------
(* The environment.                                                          *)

Kill(p) ==
    /\ st[p].pc # "idle"
    /\ Fails
    /\ st' = [st EXCEPT ![p] = Idle]
    /\ lock' = IF lock = p THEN "free" ELSE lock
    /\ UNCHANGED <<storage, acked, calls>>

\* Directories and names that were not flushed may or may not have reached the
\* disk, each on its own, and bytes that were not flushed are lost.
PowerLoss ==
    /\ Fails
    /\ \E lost \in SUBSET (spaces \ rooted) : rooted' = spaces \ lost
    /\ \E names \in SUBSET {n \in Name : dir.name[n] # disk.name[n]},
          temps \in SUBSET ((dir.temp \ disk.temp) \union (disk.temp \ dir.temp)) :
         dir' = [name |-> [n \in Name |-> IF Area(n) \notin rooted' THEN None
                                            ELSE IF n \in names THEN dir.name[n] ELSE disk.name[n]],
                 temp |-> {i \in (disk.temp \ temps) \union ((dir.temp \ disk.temp) \intersect temps) :
                             Area(file[i].name) \in rooted'}]
    /\ disk' = dir' /\ spaces' = rooted'
    /\ acked' = {n \in acked : Area(n) \in rooted'}
    /\ file' = [i \in Inode |-> IF file[i].flushed THEN file[i] ELSE [file[i] EXCEPT !.ver = Torn]]
    /\ st' = [p \in Proc |-> Idle]
    /\ lock' = "free"
    /\ UNCHANGED <<made, calls>>

Step(p) ==
    \/ Lock(p) \/ WriteTemp(p) \/ FlushTemp(p)
    \/ MakeSpace(p) \/ LookUp(p) \/ Resync(p) \/ Link(p) \/ Unlink(p) \/ Sync(p) \/ Observe(p)
    \/ Reconcile(p) \/ ConfirmAbsent(p)
    \/ VerifyMarker(p) \/ Preflight(p) \/ Recheck(p) \/ Swap(p) \/ Explain(p)
    \/ Reread(p) \/ SyncRoot(p) \/ Reopen(p) \/ Remove(p)

Next ==
    \/ \E p \in Proc : \/ \E job \in Jobs : Start(p, job)
                       \/ Step(p)
                       \/ Kill(p)
    \/ PowerLoss

Spec == Init /\ [][Next]_vars

Symmetry == Permutations(Proc)
-----------------------------------------------------------------------------
(* Properties.                                                               *)

\* What a call reported as written survives a power loss: an object with its
\* bytes, once its directory is on disk, a marker at once, and with it everything
\* it lists, the directories included.  (An object whose directory a power loss
\* takes is `acked` no more: the code does not flush a directory it makes.)
Survives(n) == Area(n) \in rooted /\ disk.name[n] # None /\ file[disk.name[n]].flushed
AckedSurvives ==
    \A n \in acked :
        /\ Area(n) \in rooted => Survives(n)
        /\ n \in Marker => \A o \in Refs(n) : Survives(o)
        /\ n = "cache-index" => Survives("criteria-source-index")

Returns(p) == st[p].pc # "idle" /\ st'[p].pc = "idle" /\ st'[p].out # "none"

\* A call that reports a definite failure has published nothing and left no
\* private file behind, whatever the system call that failed did.
DefiniteFailureChangesNothing ==
    [][\A p \in Proc :
         Returns(p) /\ st'[p].out \in {"failed", "kept"} /\ st[p].job # "undo" =>
           /\ st[p].ino \notin dir'.temp
           /\ st[p].ino # None => \A n \in Name : dir'.name[n] # st[p].ino]_vars

\* A pair that is reported as written is the pair on disk; when it is reported
\* as failed for certain, both files say what they said before the call.
PairOrPrior ==
    [][\A p \in Proc : Returns(p) =>
         /\ st[p].job = "annotate" =>
              \A n \in Pair : VersionOf(n)' = st[p].ver /\ disk'.name[n] = dir'.name[n]
         /\ st[p].job = "undo" /\ st'[p].out # "unknown" =>
              \A n \in Pair : VersionOf(n)' = st[p].prev[n]]_vars
=============================================================================
