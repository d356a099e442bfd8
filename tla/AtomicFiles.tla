----------------------------- MODULE AtomicFiles ------------------------------
(***************************************************************************)
(* scopeproof_core/storage/atomic_files.py: the calls of several processes *)
(* on one file name.  A `report` is created once, and withdrawn again when *)
(* the analysis it belongs to cannot be saved (cli.py); a `case` is        *)
(* created, and later updated under a claim (alpha/storage.py).            *)
(*                                                                         *)
(* A call is a sequence of system calls on the directory, and others run   *)
(* between any two of them.  A call writes at most one file, so that file  *)
(* is named after the process: names in the directory are mapped to files  *)
(* as directory entries are to inodes.  The random parts of private names  *)
(* never collide, the parent directory is not replaced while a call runs,  *)
(* and what a file says is reduced to: complete or not, edited or not.     *)
(* Looking at a file and comparing its identity and digest is one step, and*)
(* so is the listing a rollback starts with.                               *)
(***************************************************************************)
EXTENDS Naturals, Sequences, FiniteSets, SequencesExt

CONSTANTS
    Creators,   \* processes that may create the file
    Updaters,   \* processes that may update it; each process makes one call
    Foreign,    \* a file that something else saved under the target's name
    NoFile,     \* no directory entry
    MaxMishaps, \* bound on the system calls that fail or are interrupted, the
                \* processes that die and the edits of others, together
    MaxAside    \* bound on the quarantine names one call makes up

Slots == 1..MaxAside

Procs == Creators \union Updaters

ASSUME FilesAssumption ==
    /\ MaxMishaps \in Nat /\ MaxAside \in Nat /\ IsFiniteSet(Procs)
    /\ Foreign \notin Procs /\ NoFile \notin Procs /\ Foreign # NoFile

VARIABLES
    kind,    \* what the name is for: a report or an alpha case
    dir,     \* the directory: name -> file
    claim,   \* the process whose claim file exists
    calls,   \* where each process is in its call
    edited,  \* files edited in place by someone else
    taken,   \* files deleted or replaced by someone else, themselves or as an
             \* update of them that may not be committed
    mishaps  \* counter of the bound

vars == <<kind, dir, claim, calls, edited, taken, mishaps>>
outside == <<kind, edited, taken>>

Target == <<"target">>
Temp(p) == <<"temp", p>>
Backup(p) == <<"backup", p>>
Aside(p, i) == <<"aside", p, i>>

\* Names of the shape `_is_quarantine_name` accepts; backups have it too.
QuarantineNames ==
    {Backup(p) : p \in Procs} \union {Aside(p, i) : p \in Procs, i \in Slots}
Names == {Target} \union {Temp(p) : p \in Procs} \union QuarantineNames

Files == Procs \union {Foreign}

Ends == {"refused", "failed", "kept", "updated", "rolled_back",
         "rollback_refused", "rollback_failed", "crashed"}
Removing == {"unpublish", "untemp", "undo", "unbackup", "remove"}
Places == {"begin", "claim", "write", "link", "verify", "read", "open", "backup",
           "recheck", "rename", "handle", "restore", "release", "created", "check"}

\* `found`: the file bound to the claim; `backed`: a backup was made; `orphan`:
\* the receipt names the temporary; `todo`: the names a rollback has to remove;
\* `slot`: the last quarantine name the call made up, none twice.
Call == [op: {"create", "update", "rollback"}, pc: Ends \union Removing \union Places,
         step: {"move", "judge", "relink", "drop"}, slot: {0} \union Slots,
         found: Files \union {NoFile}, written: BOOLEAN, published: BOOLEAN,
         committed: BOOLEAN, backed: BOOLEAN, preserve: BOOLEAN,
         orphan: BOOLEAN, trouble: BOOLEAN, todo: Seq(Names)]

Init ==
    /\ kind \in {"report", "case"}
    /\ dir = [n \in Names |-> NoFile]
    /\ claim = NoFile
    /\ calls = [p \in Procs |->
         [op |-> "create", pc |-> "begin", step |-> "move", slot |-> 0,
          found |-> NoFile, written |-> FALSE, published |-> FALSE,
          committed |-> FALSE, backed |-> FALSE, preserve |-> FALSE,
          orphan |-> FALSE, trouble |-> FALSE, todo |-> <<>>]]
    /\ edited = {} /\ taken = {}
    /\ mishaps = 0

At(p, place) == calls[p].pc = place
Goto(p, place) == calls' = [calls EXCEPT ![p].pc = place]

Smooth == UNCHANGED mishaps
Mishap == mishaps < MaxMishaps /\ mishaps' = mishaps + 1

-----------------------------------------------------------------------------
\* Creating: the complete text is linked to the name, which must be free, while
\* the claim is held.

BeginCreate(p) ==
    /\ At(p, "begin") /\ p \in Creators
    /\ \/ dir[Target] # NoFile /\ Goto(p, "refused") /\ UNCHANGED dir
       \/ dir[Target] = NoFile /\ Goto(p, "write") /\ dir' = [dir EXCEPT ![Temp(p)] = p]
    /\ Smooth /\ UNCHANGED <<claim, outside>>

\* Mutant: a failing write does not stop the call.
WriteUnnoticed(p) ==
    /\ At(p, "write")
    /\ \E written \in BOOLEAN :
         /\ calls' = [calls EXCEPT ![p].written = written,
                ![p].pc = IF calls[p].op = "create" THEN "claim" ELSE "recheck"]
         /\ IF written THEN Smooth ELSE Mishap
    /\ UNCHANGED <<dir, claim, outside>>

Write(p) ==
    LET create == calls[p].op = "create" IN
    /\ At(p, "write")
    /\ \/ /\ calls' = [calls EXCEPT ![p].written = TRUE,
                                    ![p].pc = IF create THEN "claim" ELSE "recheck"]
          /\ Smooth
       \/ /\ Goto(p, IF create THEN "untemp" ELSE "handle")
          /\ Mishap
    /\ UNCHANGED <<dir, claim, outside>>

\* Mutants: an existing claim is overwritten; a call waits until it is released.
TakeClaimAnyway(p) ==
    /\ At(p, "claim") /\ claim' = p
    /\ calls' = [calls EXCEPT ![p].found = dir[Target],
           ![p].pc = IF calls[p].op = "create" THEN "link"
                     ELSE IF dir[Target] = NoFile THEN "release" ELSE "read"]
    /\ Smooth /\ UNCHANGED <<dir, outside>>

AwaitClaim(p) == claim = NoFile /\ TakeClaimAnyway(p)

\* A claim that exists is never waited for, nor taken over.  A call that fails
\* with a new claim in hand, which it inspects and signs, gives it back.
TakeClaim(p) ==
    LET create == calls[p].op = "create" IN
    /\ At(p, "claim")
    /\ \/ /\ claim # NoFile
          /\ Goto(p, IF create THEN "untemp" ELSE "refused")
          /\ Smooth /\ UNCHANGED claim
       \/ /\ claim = NoFile
          /\ claim' = p
          /\ \/ /\ calls' = [calls EXCEPT ![p].found = dir[Target],
                       ![p].pc = IF create THEN "link"
                                 ELSE IF dir[Target] = NoFile THEN "release" ELSE "read"]
                /\ Smooth
             \/ /\ Goto(p, IF create THEN "untemp" ELSE "release")
                /\ Mishap
    /\ UNCHANGED <<dir, outside>>

Link(p) ==
    /\ At(p, "link")
    /\ \/ dir[Target] # NoFile /\ Goto(p, "untemp") /\ Smooth /\ UNCHANGED dir
       \/ /\ dir[Target] = NoFile
          /\ \/ dir' = [dir EXCEPT ![Target] = p]
                /\ \/ Goto(p, "verify") /\ Smooth
                   \/ Goto(p, "unpublish") /\ Mishap
             \/ UNCHANGED dir /\ Goto(p, "untemp") /\ Mishap
    /\ UNCHANGED <<claim, outside>>

\* Creating and updating both look again at what they published.  An update that
\* is interrupted in the last synchronisation is undone like one that fails here.
Verify(p) ==
    /\ At(p, "verify")
    /\ \/ /\ dir[Target] = p /\ Smooth
          /\ calls' = [calls EXCEPT ![p].committed = TRUE, ![p].pc = "untemp"]
       \/ /\ IF dir[Target] = p THEN Mishap ELSE Smooth
          /\ Goto(p, IF calls[p].op = "create" THEN "unpublish" ELSE "handle")
    /\ UNCHANGED <<dir, claim, outside>>

Release(p) ==
    LET c == calls[p] IN
    /\ At(p, "release")
    /\ \/ claim' = (IF claim = p THEN NoFile ELSE claim) /\ Smooth
       \/ claim = p /\ UNCHANGED claim /\ Mishap
    /\ Goto(p, IF ~c.committed THEN "failed"
               ELSE IF c.op = "update" THEN "updated"
               ELSE IF kind = "report" THEN "created" ELSE "kept")
    /\ UNCHANGED <<dir, outside>>

-----------------------------------------------------------------------------
\* Updating: the record read under the claim is kept as a backup, the new text
\* is renamed over it, and what fails after that is undone.

BeginUpdate(p) ==
    /\ At(p, "begin") /\ p \in Updaters /\ kind = "case"
    /\ calls' = [calls EXCEPT ![p].op = "update", ![p].pc = "claim"]
    /\ Smooth /\ UNCHANGED <<dir, claim, outside>>

\* An update records the outcome of a case, so its file cannot be updated again.
HasOutcome(f) == f \in Procs /\ calls[f].op = "update"

Read(p) ==
    LET current == dir[Target] = calls[p].found IN
    /\ At(p, "read")
    /\ Goto(p, IF current /\ ~HasOutcome(calls[p].found) THEN "open" ELSE "release")
    /\ Smooth /\ UNCHANGED <<dir, claim, outside>>

Open(p) ==
    /\ At(p, "open")
    /\ \/ /\ dir[Target] = calls[p].found
          /\ dir' = [dir EXCEPT ![Temp(p)] = p]
          /\ Goto(p, "backup")
       \/ dir[Target] # calls[p].found /\ Goto(p, "release") /\ UNCHANGED dir
    /\ Smooth /\ UNCHANGED <<claim, outside>>

MakeBackup(p) ==
    LET current == dir[Target] = calls[p].found IN
    /\ At(p, "backup")
    /\ \/ /\ dir' = [dir EXCEPT ![Backup(p)] = dir[Target]]
          /\ calls' = [calls EXCEPT ![p].backed = current,
                                    ![p].pc = IF current THEN "write" ELSE "handle"]
          /\ Smooth
       \/ Goto(p, "handle") /\ Mishap /\ UNCHANGED dir
    /\ UNCHANGED <<claim, outside>>

Recheck(p) ==
    LET now == dir[Target] IN
    /\ At(p, "recheck")
    /\ calls' = [calls EXCEPT
         ![p].preserve = now \notin {calls[p].found, NoFile},
         ![p].pc = IF now = calls[p].found THEN "rename" ELSE "handle"]
    /\ Smooth /\ UNCHANGED <<dir, claim, outside>>

Rename(p) ==
    /\ At(p, "rename")
    /\ \/ /\ dir' = [dir EXCEPT ![Target] = p, ![Temp(p)] = NoFile]
          /\ \/ calls' = [calls EXCEPT ![p].published = TRUE, ![p].pc = "verify"] /\ Smooth
             \/ Goto(p, "handle") /\ Mishap
       \/ UNCHANGED dir /\ Goto(p, "handle") /\ Mishap
    /\ UNCHANGED <<claim, outside>>

\* The exception handler of a replacement decides from what it finds what to undo.
Handle(p) ==
    LET c == calls[p]
        published == c.published \/ dir[Target] = p
        safe == dir[Backup(p)] = c.found
    IN
    /\ At(p, "handle")
    /\ calls' = [calls EXCEPT
         ![p].preserve = \/ c.preserve
                         \/ ~published /\ dir[Target] = NoFile
                         \/ published /\ c.backed /\ ~safe,
         ![p].pc = IF published /\ c.backed /\ safe THEN "undo" ELSE "untemp"]
    /\ Smooth /\ UNCHANGED <<dir, claim, outside>>

Restore(p) ==
    LET restored == [dir EXCEPT ![Target] = dir[Backup(p)], ![Backup(p)] = NoFile] IN
    /\ At(p, "restore")
    /\ \/ /\ dir' = restored
          /\ calls' = [calls EXCEPT ![p].backed = FALSE, ![p].pc = "untemp"]
          /\ Smooth
       \/ /\ dir' \in {dir, restored}
          /\ calls' = [calls EXCEPT ![p].preserve = TRUE, ![p].pc = "untemp"]
          /\ Mishap
    /\ UNCHANGED <<claim, outside>>

-----------------------------------------------------------------------------
\* Removing a name (_quarantine_and_remove_at): the name is moved aside, and only
\* then is the file behind it compared with the one expected; another file is
\* linked back to the name unless that is in use by now.

Removed(p) ==
    LET c == calls[p] IN
    CASE c.pc \in {"unpublish", "undo"} -> Target
      [] c.pc = "untemp" -> Temp(p)
      [] c.pc = "unbackup" -> Backup(p)
      [] c.pc = "remove" -> Head(c.todo)

\* Mutant: whatever was moved aside is removed.
ExpectedAny(p, f) == calls[p].pc \in Removing /\ f # NoFile

\* A rollback also compares the contents with the receipt's digest.
Expected(p, f) ==
    CASE calls[p].pc = "unbackup" -> f = calls[p].found
      [] calls[p].pc = "remove" -> f = p /\ p \notin edited
      [] OTHER -> f = p

\* Mutant: the backup is given up although the replacement may still be in place.
GiveUp(c, result) == [c EXCEPT !.pc = "untemp"]

\* Only when the replacement is gone does the backup take its place again.
AfterUndo(c, result) ==
    [c EXCEPT !.preserve = result # "done",
              !.pc = IF result = "done" THEN "restore" ELSE "untemp"]

\* Where a call goes on after a removal that was "done", found the name
\* "missing" or ended in an "error".
After(c, result) ==
    CASE c.pc = "unpublish" -> [c EXCEPT !.pc = "untemp"]
      [] c.pc = "untemp" ->
           [c EXCEPT !.orphan = result = "error" /\ c.committed,
                     !.pc = IF /\ c.backed /\ ~c.preserve
                               /\ c.committed \/ result # "error"
                            THEN "unbackup" ELSE "release"]
      [] c.pc = "undo" -> AfterUndo(c, result)
      [] c.pc = "unbackup" -> [c EXCEPT !.pc = "release"]
      [] c.pc = "remove" ->
           LET trouble == c.trouble \/ result # "done" IN
           [c EXCEPT !.todo = Tail(c.todo), !.trouble = trouble,
                     !.pc = IF Len(c.todo) > 1 THEN "remove"
                            ELSE IF trouble THEN "rollback_failed" ELSE "rolled_back"]

Finish(p, result) ==
    calls' = [calls EXCEPT ![p] = [After(@, result) EXCEPT !.step = "move"]]

In(p, step) == calls[p].pc \in Removing /\ calls[p].step = step

Move(p) ==
    LET n == Removed(p)
        i == calls[p].slot + 1
        moved == [dir EXCEPT ![n] = NoFile, ![Aside(p, i)] = dir[n]]
    IN
    /\ In(p, "move")
    /\ \/ dir[n] = NoFile /\ Finish(p, "missing") /\ Smooth /\ UNCHANGED dir
       \/ /\ dir[n] # NoFile /\ i \in Slots
          /\ dir' = moved
          /\ calls' = [calls EXCEPT ![p].step = "judge", ![p].slot = i]
          /\ Smooth
       \/ /\ dir[n] # NoFile /\ i \in Slots
          /\ dir' \in {dir, IF Expected(p, dir[n]) THEN [dir EXCEPT ![n] = NoFile] ELSE moved}
          /\ calls' = [calls EXCEPT ![p] =
                [After(@, "error") EXCEPT !.step = "move", !.slot = i]]
          /\ Mishap
    /\ UNCHANGED <<claim, outside>>

Judge(p) ==
    LET aside == Aside(p, calls[p].slot) IN
    /\ In(p, "judge")
    /\ \/ dir[aside] = NoFile /\ Finish(p, "error") /\ Smooth /\ UNCHANGED dir
       \/ /\ Expected(p, dir[aside])
          /\ dir' = [dir EXCEPT ![aside] = NoFile] /\ Finish(p, "done") /\ Smooth
       \/ /\ Expected(p, dir[aside])
          /\ dir' \in {dir, [dir EXCEPT ![aside] = NoFile]}
          /\ calls' = [calls EXCEPT ![p].step = "relink"] /\ Mishap
       \/ /\ dir[aside] # NoFile /\ ~Expected(p, dir[aside])
          /\ calls' = [calls EXCEPT ![p].step = "relink"] /\ Smooth /\ UNCHANGED dir
    /\ UNCHANGED <<claim, outside>>

Relink(p) ==
    LET aside == Aside(p, calls[p].slot)
        n == Removed(p)
    IN
    /\ In(p, "relink")
    /\ \/ /\ dir[aside] # NoFile /\ dir[n] = NoFile
          /\ dir' = [dir EXCEPT ![n] = dir[aside]]
          /\ calls' = [calls EXCEPT ![p].step = "drop"]
          /\ Smooth
       \/ /\ IF dir[aside] = NoFile \/ dir[n] # NoFile THEN Smooth ELSE Mishap
          /\ Finish(p, "error") /\ UNCHANGED dir
    /\ UNCHANGED <<claim, outside>>

Drop(p) ==
    /\ In(p, "drop")
    /\ \/ dir' = [dir EXCEPT ![Aside(p, calls[p].slot)] = NoFile] /\ Smooth
       \/ UNCHANGED dir /\ Mishap
    /\ Finish(p, "error")
    /\ UNCHANGED <<claim, outside>>

-----------------------------------------------------------------------------
\* Withdrawing a report whose analysis could not be saved (cli.py _analyze).

Keep(p) ==
    /\ At(p, "created") /\ Goto(p, "kept")
    /\ Smooth /\ UNCHANGED <<dir, claim, outside>>

SaveFails(p) ==
    /\ At(p, "created")
    /\ calls' = [calls EXCEPT ![p].op = "rollback", ![p].pc = "check"]
    /\ Smooth /\ UNCHANGED <<dir, claim, outside>>

\* Mutant: only the names on the receipt are removed.
CheckReceipt(p) ==
    LET own(n) == dir[n] = p /\ p \notin edited
        Existing(n) == IF dir[n] # NoFile THEN <<n>> ELSE <<>>
        existing == Existing(Target)
                      \o (IF calls[p].orphan THEN Existing(Temp(p)) ELSE <<>>)
    IN
    /\ At(p, "check")
    /\ calls' = [calls EXCEPT
         ![p].todo = existing,
         ![p].pc = CASE \E i \in DOMAIN existing : ~own(existing[i]) -> "rollback_refused"
                     [] existing = <<>> -> "rolled_back"
                     [] OTHER -> "remove"]
    /\ Smooth /\ UNCHANGED <<dir, claim, outside>>

\* All names that may lead to the file are checked before any is removed.
Check(p) ==
    LET own(n) == dir[n] = p /\ p \notin edited
        Existing(n) == IF dir[n] # NoFile THEN <<n>> ELSE <<>>
        existing == Existing(Target)
                      \o (IF calls[p].orphan THEN Existing(Temp(p)) ELSE <<>>)
                      \o SetToSeq({n \in QuarantineNames : own(n)})
    IN
    /\ At(p, "check")
    /\ calls' = [calls EXCEPT
         ![p].todo = existing,
         ![p].pc = CASE \E i \in DOMAIN existing : ~own(existing[i]) -> "rollback_refused"
                     [] existing = <<>> -> "rolled_back"
                     [] OTHER -> "remove"]
    /\ Smooth /\ UNCHANGED <<dir, claim, outside>>

-----------------------------------------------------------------------------
\* The surroundings: people and programs that ignore claims, and sudden death.

SomeoneEdits ==
    LET now == dir[Target] IN
    /\ Mishap
    /\ now \in Procs
    /\ \/ edited' = edited \union {now} /\ UNCHANGED <<dir, taken>>
       \/ /\ \E f \in {NoFile, Foreign} : dir' = [dir EXCEPT ![Target] = f]
          /\ taken' = taken \union {now, calls[now].found} /\ UNCHANGED edited
    /\ UNCHANGED <<kind, claim, calls>>

Crash(p) ==
    /\ calls[p].pc \notin Ends \union {"begin"}
    /\ Mishap /\ Goto(p, "crashed")
    /\ UNCHANGED <<dir, claim, outside>>

\* Starting a call is a person's choice; a call that started goes on.
Continue(p) ==
    \/ Write(p) \/ TakeClaim(p) \/ Link(p) \/ Verify(p) \/ Release(p)
    \/ Read(p) \/ Open(p) \/ MakeBackup(p) \/ Recheck(p) \/ Rename(p)
    \/ Handle(p) \/ Restore(p)
    \/ Move(p) \/ Judge(p) \/ Relink(p) \/ Drop(p)
    \/ Keep(p) \/ SaveFails(p) \/ Check(p)

Next ==
    \/ \E p \in Procs : BeginCreate(p) \/ BeginUpdate(p) \/ Continue(p) \/ Crash(p)
    \/ SomeoneEdits

Spec == Init /\ [][Next]_vars /\ \A p \in Procs : WF_vars(Continue(p))

-----------------------------------------------------------------------------

TypeOK ==
    /\ kind \in {"report", "case"}
    /\ dir \in [Names -> Files \union {NoFile}]
    /\ claim \in Procs \union {NoFile}
    /\ calls \in [Procs -> Call]
    /\ edited \subseteq Procs /\ taken \subseteq Files \union {NoFile}
    /\ mishaps \in 0..MaxMishaps

\* A reader that opens the name finds a complete text or no file at all,
\* whatever failed, was interrupted or died on the way.
WholeRecord == dir[Target] \in Procs => calls[dir[Target]].written

Superseded(p) ==
    \E q \in Procs : calls[q].op = "update" /\ calls[q].committed /\ calls[q].found = p

\* A text whose creation or update was reported is never lost by what others do:
\* until an update of it commits, its own rollback withdraws it, or someone
\* outside deletes it or the update replacing it, some name of the directory leads to it.  A rollback that
\* refuses, or that meets a file edited since, has not removed it either.
NothingLost ==
    \A p \in Procs :
      /\ calls[p].committed /\ p \notin taken /\ ~Superseded(p)
      /\ calls[p].op = "rollback" => p \in edited \/ calls[p].pc = "rollback_refused"
      => \E n \in Names : dir[n] = p

\* "Only one process can commit an outcome from an unresolved case": no two
\* updates commit over the same stored record, however their steps interleave.
OneOutcome ==
    \A p, q \in Procs :
      /\ calls[p].committed /\ calls[q].committed
      /\ calls[p].op = "update" /\ calls[q].op = "update"
      /\ calls[p].found = calls[q].found /\ calls[p].found \in Procs
      => p = q

\* An update that reports failure has not replaced the record, or has left the
\* record it replaced under the backup name.
FailedUpdateReversible ==
    \A p \in Procs :
      calls[p].pc = "failed" /\ calls[p].op = "update" /\ dir[Target] = p
        => dir[Backup(p)] = calls[p].found

\* A rollback that reports success has found every name of its file, those that
\* failing cleanups left behind included, when no one else touched the target.
RollbackComplete ==
    \A p \in Procs :
      calls[p].pc = "rolled_back" /\ edited \union taken = {} => \A n \in Names : dir[n] # p

\* Every call ends: no call waits for a claim, so neither does one that meets
\* the claim a dead process left behind.
EveryCallEnds == \A p \in Procs : calls[p].pc # "begin" ~> calls[p].pc \in Ends

=============================================================================
