-------------------------- MODULE AtomicFilesProofs --------------------------
(***************************************************************************)
(* Proofs about AtomicFiles, for all processes and any number of mishaps.  *)
(*                                                                         *)
(* The invariant is a chain of parts, each proved with those before it:    *)
(* the course of each call and its claim (Basics); the names each call may *)
(* work on (NamesInv); that what gets out is complete (WrittenInv); that   *)
(* an update finds its record, or the backup of it (CaseInv); that records *)
(* once replaced do not return (OutcomeInv); that a reported text keeps a  *)
(* name which no removal is about to take (CaseKept, ReportKept); that a   *)
(* call nobody disturbs knows all names of its file (QuietInv).            *)
(*                                                                         *)
(* For every action a lemma <Action>Effect says what it does to the fields *)
(* of a call; the lemmas about the parts use these, and never the actions. *)
(***************************************************************************)
EXTENDS AtomicFiles, FiniteSetTheorems, SequenceTheorems, TLAPS

-----------------------------------------------------------------------------
\* Names.

\* The target and the private names of all calls are different names.
LEMMA NamesDiffer ==
    /\ Target \in Names
    /\ \A p \in Procs : /\ Temp(p) \in Names /\ Backup(p) \in Names
                        /\ Temp(p) # Target /\ Backup(p) # Target
    /\ \A p, q \in Procs : /\ Temp(p) # Backup(q)
                           /\ Temp(p) = Temp(q) => p = q
                           /\ Backup(p) = Backup(q) => p = q
    /\ \A p \in Procs, i \in Slots : Aside(p, i) \in Names /\ Aside(p, i) # Target
    /\ \A p, q \in Procs, i \in Slots : Aside(p, i) # Temp(q) /\ Aside(p, i) # Backup(q)
    /\ \A p, q \in Procs, i, j \in Slots : Aside(p, i) = Aside(q, j) => p = q /\ i = j
  <1>1. Target \in Names
    BY DEF Names
  <1>2. \A p \in Procs : /\ Temp(p) \in Names /\ Backup(p) \in Names
                         /\ Temp(p) # Target /\ Backup(p) # Target
    BY DEF Names, QuarantineNames, Target, Temp, Backup
  <1>3. \A p, q \in Procs : /\ Temp(p) # Backup(q)
                            /\ Temp(p) = Temp(q) => p = q
                            /\ Backup(p) = Backup(q) => p = q
    BY DEF Temp, Backup
  <1>4. \A p \in Procs, i \in Slots : Aside(p, i) \in Names /\ Aside(p, i) # Target
    BY DEF Names, QuarantineNames, Target, Aside
  <1>5. \A p, q \in Procs, i \in Slots : Aside(p, i) # Temp(q) /\ Aside(p, i) # Backup(q)
    BY DEF Temp, Backup, Aside
  <1>6. \A p, q \in Procs, i, j \in Slots : Aside(p, i) = Aside(q, j) => p = q /\ i = j
    BY DEF Aside
  <1> QED
    BY <1>1, <1>2, <1>3, <1>4, <1>5, <1>6

\* The names a rollback looks through are finitely many.
LEMMA FiniteQuarantine == IsFiniteSet(QuarantineNames)
  <1> DEFINE Backups == {Backup(p) : p \in Procs}
             Asides == {Aside(p, i) : p \in Procs, i \in Slots}
             ToBackup == [p \in Procs |-> Backup(p)]
             ToAside == [x \in Procs \X Slots |-> Aside(x[1], x[2])]
  <1>1. IsFiniteSet(Procs) /\ IsFiniteSet(Slots)
    BY FilesAssumption, FS_Interval DEF Slots
  <1>2. ToBackup \in Surjection(Procs, Backups)
    BY DEF Surjection
  <1>3. IsFiniteSet(Backups)
    BY <1>1, <1>2, FS_Surjection
  <1>4. IsFiniteSet(Procs \X Slots)
    BY <1>1, FS_Product
  <1>5. ToAside \in Surjection(Procs \X Slots, Asides)
    <2>1. ToAside \in [Procs \X Slots -> Asides]
      OBVIOUS
    <2>2. ASSUME NEW a \in Asides
          PROVE  \E x \in Procs \X Slots : ToAside[x] = a
      <3>1. PICK p \in Procs, i \in Slots : a = Aside(p, i)
        OBVIOUS
      <3>2. <<p, i>> \in Procs \X Slots /\ ToAside[<<p, i>>] = Aside(p, i)
        OBVIOUS
      <3> QED
        BY <3>1, <3>2
    <2> HIDE DEF ToAside, Asides
    <2> QED
      BY <2>1, <2>2 DEF Surjection
  <1>6. IsFiniteSet(Asides)
    BY <1>4, <1>5, FS_Surjection
  <1>7. QuarantineNames = Backups \union Asides
    BY DEF QuarantineNames
  <1> HIDE DEF Backups, Asides
  <1> QED
    BY Zenon, <1>3, <1>6, <1>7, FS_Union

\* A finite set is listed without omissions and without additions.
LEMMA Listed ==
    ASSUME NEW S, IsFiniteSet(S)
    PROVE  /\ SetToSeq(S) \in Seq(S)
           /\ \A x \in S : \E k \in DOMAIN SetToSeq(S) : SetToSeq(S)[k] = x
  <1>1. Cardinality(S) \in Nat /\ ExistsBijection(1..Cardinality(S), S)
    BY FS_CardinalityType
  <1>2. PICK g \in Bijection(1..Cardinality(S), S) : TRUE
    BY <1>1 DEF ExistsBijection
  <1>3. g \in [1..Cardinality(S) -> S] /\ IsInjective(g)
    BY <1>2 DEF Bijection, Injection, IsInjective
  <1>4. SetToSeq(S) \in [1..Cardinality(S) -> S] /\ IsInjective(SetToSeq(S))
    BY <1>3 DEF SetToSeq
  <1>5. SetToSeq(S) \in Seq(S)
    BY <1>1, <1>4
  <1>6. IsFiniteSet(1..Cardinality(S)) /\ Cardinality(1..Cardinality(S)) = Cardinality(S)
    BY <1>1, FS_Interval
  <1>7. SetToSeq(S) \in Injection(1..Cardinality(S), S)
    BY <1>4 DEF Injection
  <1>8. SetToSeq(S) \in Surjection(1..Cardinality(S), S)
    BY <1>6, <1>7, FS_Injection
  <1> QED
    BY <1>5, <1>8 DEF Surjection

-----------------------------------------------------------------------------
\* The course of a call.

\* Until a call has put its file under the target's name; until it knows that
\* the file stays there; the places that only updates, only rollbacks get to.
Preparing == {"begin", "write", "claim", "link", "read", "open", "backup", "recheck", "rename"}
Undecided == Preparing \union {"verify", "unpublish", "handle", "undo", "restore"}
UpdateOnly == {"read", "open", "backup", "recheck", "rename", "handle", "undo",
               "restore", "unbackup"}
RollbackOnly == {"check", "remove", "rolled_back", "rollback_refused", "rollback_failed"}

\* Where a call works under its claim.
Claiming(p) ==
    \/ calls[p].pc \in UpdateOnly \union {"link", "verify", "unpublish"}
    \/ calls[p].op = "update" /\ calls[p].pc \in {"write", "untemp", "release"}

Course(c) ==
    /\ c.op = "update" => kind = "case"
    /\ c.op = "rollback" => /\ kind = "report" /\ c.committed
                            /\ c.pc \in RollbackOnly \union {"crashed"}
    /\ c.pc \in UpdateOnly => c.op = "update"
    /\ c.pc \in {"begin", "link", "unpublish", "created"} => c.op = "create"
    /\ c.pc \in RollbackOnly => c.op = "rollback"
    /\ c.pc = "created" => kind = "report" /\ c.committed
    /\ c.pc \in Undecided \union {"failed"} => ~c.committed
    /\ c.pc \in Preparing => ~c.published
    /\ c.step # "move" => c.pc \in Removing \union {"crashed"} /\ c.slot \in Slots
    /\ c.pc = "remove" => c.todo # <<>>
    /\ c.backed => c.op = "update"
    /\ /\ c.op = "update"
       /\ c.pc \in {"write", "recheck", "rename", "verify", "undo", "restore", "unbackup"}
       => c.backed
    /\ c.pc = "unbackup" => ~c.preserve
    /\ c.pc \in {"link", "recheck", "rename"} => c.written
    /\ c.pc = "claim" /\ c.op = "create" => c.written

Courses == \A p \in Procs : Course(calls[p])

OneAtATime == \A p \in Procs : Claiming(p) => claim = p

Basics == TypeOK /\ Courses /\ OneAtATime

\* A removal that ends leaves the call a call.
LEMMA AfterTyped ==
    ASSUME NEW c \in Call, NEW result, c.pc \in Removing,
           c.pc = "remove" => c.todo # <<>>
    PROVE  [After(c, result) EXCEPT !.step = "move"] \in Call
  <1> USE DEF Call, Ends, Removing, Places, After
  <1>1. CASE c.pc \in {"unpublish", "unbackup"}
    BY <1>1
  <1>4. CASE c.pc = "untemp"
    <2> DEFINE orphan == result = "error" /\ c.committed
               pc == IF /\ c.backed /\ ~c.preserve /\ (c.committed \/ result # "error")
                     THEN "unbackup" ELSE "release"
    <2>1. After(c, result) = [c EXCEPT !.orphan = orphan, !.pc = pc]
      BY <1>4
    <2>2. orphan \in BOOLEAN /\ pc \in {"unbackup", "release"}
      OBVIOUS
    <2> HIDE DEF orphan, pc, After
    <2> QED
      BY Zenon, <2>1, <2>2
  <1>2. CASE c.pc = "undo"
    BY Zenon, <1>2 DEF AfterUndo
  <1>3. CASE c.pc = "remove"
    <2>1. Tail(c.todo) \in Seq(Names)
      BY <1>3
    <2> QED
      BY Zenon, <1>3, <2>1
  <1> QED
    BY Zenon, <1>1, <1>2, <1>3, <1>4 DEF Removing

\* What a rollback still has to do once it has dealt with the first name.
LEMMA Tails ==
    ASSUME NEW S, NEW s \in Seq(S), s # <<>>
    PROVE  /\ Tail(s) \in Seq(S) /\ Len(s) > 0 /\ Len(Tail(s)) = Len(s) - 1
           /\ Len(s) > 1 => Tail(s) # <<>>
           /\ Head(s) = s[1]
           /\ \A k \in DOMAIN Tail(s) : k + 1 \in DOMAIN s /\ k + 1 # 1 /\ Tail(s)[k] = s[k + 1]
           /\ \A k \in DOMAIN s : k = 1 \/ (k - 1 \in DOMAIN Tail(s) /\ Tail(s)[k - 1] = s[k])
  <1>1. Len(s) > 0 /\ Tail(s) \in Seq(S) /\ Len(Tail(s)) = Len(s) - 1 /\ Head(s) = s[1]
    OBVIOUS
  <1>2. Len(s) > 1 => Tail(s) # <<>>
    <2> DEFINE t == Tail(s)
    <2>1. t = <<>> => Len(t) = Len(<<>>)
      BY Zenon
    <2>2. Len(<<>>) = 0
      BY EmptySeq
    <2>3. Len(t) = Len(s) - 1
      BY <1>1
    <2> HIDE DEF t
    <2>4. Len(s) > 1 => t # <<>>
      BY <1>1, <2>1, <2>2, <2>3
    <2> QED
      BY <2>4 DEF t
  <1>3. \A k \in DOMAIN Tail(s) : k + 1 \in DOMAIN s /\ k + 1 # 1 /\ Tail(s)[k] = s[k + 1]
    OBVIOUS
  <1>4. \A k \in DOMAIN s : k = 1 \/ (k - 1 \in DOMAIN Tail(s) /\ Tail(s)[k - 1] = s[k])
    OBVIOUS
  <1> QED
    BY <1>1, <1>2, <1>3, <1>4

\* A removal that ends leads on along the course of its call.
LEMMA AfterCourse ==
    ASSUME NEW c \in Call, NEW result, c.pc \in Removing, Course(c)
    PROVE  Course([After(c, result) EXCEPT !.step = "move"])
  <1> DEFINE d == [After(c, result) EXCEPT !.step = "move"]
  <1> SUFFICES Course(d)
    OBVIOUS
  <1>0. /\ c.op \in {"create", "update", "rollback"}
        /\ c.op = "update" => kind = "case"
        /\ c.op = "rollback" => kind = "report" /\ c.committed /\ c.pc \in RollbackOnly
        /\ c.pc \in {"undo", "unbackup"} => c.op = "update" /\ c.backed
        /\ c.backed => c.op = "update"
        /\ c.pc \in {"unpublish", "undo"} => ~c.committed
        /\ c.todo \in Seq(Names)
    <2>1. c.op \in {"create", "update", "rollback"} /\ c.todo \in Seq(Names)
      BY DEF Call
    <2> QED
      BY <2>1 DEF Course, UpdateOnly, RollbackOnly, Undecided, Removing
  <1>1. CASE c.pc \in {"unpublish", "unbackup"}
    <2>1. /\ d.op = c.op /\ d.pc \in {"untemp", "release"} /\ d.step = "move"
          /\ d.backed = c.backed /\ d.committed = c.committed
      BY <1>1 DEF After, Call
    <2> HIDE DEF d
    <2> QED
      BY <1>0, <1>1, <2>1 DEF Course, UpdateOnly, RollbackOnly, Undecided, Preparing
  <1>2. CASE c.pc = "untemp"
    <2>1. /\ d.op = c.op /\ d.pc \in {"unbackup", "release"} /\ d.step = "move"
          /\ d.backed = c.backed /\ d.committed = c.committed /\ d.preserve = c.preserve
          /\ d.pc = "unbackup" => c.backed /\ ~c.preserve
      BY Zenon, <1>2 DEF After, Call
    <2> HIDE DEF d
    <2> QED
      BY <1>0, <1>2, <2>1 DEF Course, UpdateOnly, RollbackOnly, Undecided, Preparing
  <1>3. CASE c.pc = "undo"
    <2>1. /\ d.op = c.op /\ d.pc \in {"restore", "untemp"} /\ d.step = "move"
          /\ d.backed = c.backed /\ d.committed = c.committed
      BY Zenon, <1>3 DEF After, AfterUndo, Call
    <2> HIDE DEF d
    <2> QED
      BY <1>0, <1>3, <2>1 DEF Course, UpdateOnly, RollbackOnly, Undecided, Preparing
  <1>4. CASE c.pc = "remove"
    <2>1. /\ d.op = c.op /\ d.pc \in {"remove", "rollback_failed", "rolled_back"}
          /\ d.step = "move"
          /\ d.backed = c.backed /\ d.committed = c.committed /\ d.todo = Tail(c.todo)
          /\ d.pc = "remove" => Len(c.todo) > 1
      BY Zenon, <1>4 DEF After, Call
    <2>2. Len(c.todo) > 1 => Tail(c.todo) # <<>>
      BY <1>0, <1>4, Tails DEF Course
    <2> HIDE DEF d
    <2> QED
      BY <1>0, <1>4, <2>1, <2>2 DEF Course, UpdateOnly, RollbackOnly, Undecided, Preparing
  <1> QED
    BY <1>1, <1>2, <1>3, <1>4 DEF Removing


-----------------------------------------------------------------------------
\* What each action does, field by field.

Fields == {"op", "pc", "step", "slot", "found", "written", "published", "committed",
           "backed", "preserve", "orphan", "trouble", "todo"}

\* Of the calls, a step changes these fields of p's.
Changes(p, S) ==
    /\ calls' \in [Procs -> Call]
    /\ \A q \in Procs \ {p} : calls'[q] = calls[q]
    /\ \A f \in Fields \ S : calls'[p][f] = calls[p][f]

\* A step that sets the call of p to d, where d differs in the fields of S only.
LEMMA Changing ==
    ASSUME TypeOK, NEW p \in Procs, NEW d \in Call, NEW S, calls' = [calls EXCEPT ![p] = d],
           \A f \in Fields \ S : d[f] = calls[p][f]
    PROVE  Changes(p, S) /\ calls'[p] = d
  BY DEF TypeOK, Changes

Counted == mishaps' \in 0..MaxMishaps

\* The bound on mishaps is kept.
LEMMA Counting == ASSUME TypeOK, Smooth \/ Mishap PROVE Counted
  BY FilesAssumption DEF TypeOK, Smooth, Mishap, Counted

\* Write(p), field by field.
LEMMA WriteEffect ==
    ASSUME TypeOK, NEW p \in Procs, Write(p)
    PROVE  LET c == calls[p]
               d == calls'[p]
           IN
           /\ Changes(p, {"pc", "written"}) /\ Counted
           /\ c.pc = "write"
           /\ UNCHANGED <<dir, claim, outside>>
           /\ \/ /\ d.pc = (IF c.op = "create" THEN "claim" ELSE "recheck") /\ d.written
              \/ /\ d.pc = (IF c.op = "create" THEN "untemp" ELSE "handle") /\ d.written = c.written
  <1> USE DEF Write, At, Goto
  <1> DEFINE c == calls[p]
             d1 == [c EXCEPT !.written = TRUE, !.pc = IF c.op = "create" THEN "claim" ELSE "recheck"]
             d2 == [c EXCEPT !.pc = IF c.op = "create" THEN "untemp" ELSE "handle"]
  <1>1. c \in Call
    BY DEF TypeOK
  <1>2. d1 \in Call /\ d2 \in Call
    BY Zenon, <1>1 DEF Call, Ends, Removing, Places, Files
  <1>3. /\ \A f \in Fields \ {"pc", "written"} : d1[f] = c[f] /\ d2[f] = c[f]
        /\ d1.pc = (IF c.op = "create" THEN "claim" ELSE "recheck") /\ d1.written
        /\ d2.pc = (IF c.op = "create" THEN "untemp" ELSE "handle") /\ d2.written = c.written
    BY Zenon, <1>1 DEF Call, Fields
  <1>4. \/ calls' = [calls EXCEPT ![p] = d1]
        \/ calls' = [calls EXCEPT ![p] = d2]
    BY Zenon DEF TypeOK
  <1>5. Counted
    BY Counting
  <1>6. calls[p].pc = "write" /\ UNCHANGED <<dir, claim, outside>>
    OBVIOUS
  <1> HIDE DEF Write, d1, d2
  <1> DEFINE S == {"pc", "written"}
  <1> HIDE DEF S
  <1>7. \A x \in Call : calls' = [calls EXCEPT ![p] = x] /\ (\A f \in Fields \ S : x[f] = c[f])
          => Changes(p, S) /\ calls'[p] = x
    BY Zenon, Changing
  <1> QED
    BY <1>2, <1>3, <1>4, <1>5, <1>6, <1>7 DEF S

\* TakeClaim(p), field by field.
LEMMA TakeClaimEffect ==
    ASSUME TypeOK, NEW p \in Procs, TakeClaim(p)
    PROVE  LET c == calls[p]
               d == calls'[p]
           IN
           /\ Changes(p, {"pc", "found"}) /\ Counted
           /\ c.pc = "claim"
           /\ UNCHANGED <<dir, outside>>
           /\ \/ /\ d.pc = (IF c.op = "create" THEN "untemp" ELSE "refused") /\ d.found = c.found
                 /\ claim # NoFile
                 /\ claim' = claim
              \/ /\ d.pc = (IF c.op = "create" THEN "link"
                            ELSE IF dir[Target] = NoFile THEN "release" ELSE "read")
                 /\ d.found = dir[Target]
                 /\ claim = NoFile
                 /\ claim' = p
              \/ /\ d.pc = (IF c.op = "create" THEN "untemp" ELSE "release") /\ d.found = c.found
                 /\ claim = NoFile
                 /\ claim' = p
  <1> USE DEF TakeClaim, At, Goto
  <1> DEFINE c == calls[p]
             d1 == [c EXCEPT !.pc = IF c.op = "create" THEN "untemp" ELSE "refused"]
             d2 == [c EXCEPT !.pc = IF c.op = "create" THEN "link"
                                    ELSE IF dir[Target] = NoFile THEN "release" ELSE "read",
                             !.found = dir[Target]]
             d3 == [c EXCEPT !.pc = IF c.op = "create" THEN "untemp" ELSE "release"]
  <1>0. dir[Target] \in Files \union {NoFile}
    BY NamesDiffer DEF TypeOK
  <1>1. c \in Call
    BY DEF TypeOK
  <1>2. d1 \in Call /\ d2 \in Call /\ d3 \in Call
    <2> DEFINE pc1 == IF c.op = "create" THEN "untemp" ELSE "refused"
               pc2 == IF c.op = "create" THEN "link"
                      ELSE IF dir[Target] = NoFile THEN "release" ELSE "read"
               pc3 == IF c.op = "create" THEN "untemp" ELSE "release"
               now == dir[Target]
    <2>1. pc1 \in Ends \union Removing /\ pc2 \in Removing \union Places
          /\ pc3 \in Removing \union Places /\ now \in Files \union {NoFile}
      BY <1>0 DEF Ends, Removing, Places
    <2> HIDE DEF pc1, pc2, pc3, now
    <2>2. [c EXCEPT !.pc = pc1] \in Call /\ [c EXCEPT !.pc = pc2, !.found = now] \in Call
          /\ [c EXCEPT !.pc = pc3] \in Call
      BY Zenon, <1>1, <2>1 DEF Call
    <2> QED
      BY <2>2 DEF pc1, pc2, pc3, now
  <1>3. /\ \A f \in Fields \ {"pc", "found"} : d1[f] = c[f] /\ d2[f] = c[f] /\ d3[f] = c[f]
        /\ d1.pc = (IF c.op = "create" THEN "untemp" ELSE "refused") /\ d1.found = c.found
        /\ d2.pc = (IF c.op = "create" THEN "link"
                    ELSE IF dir[Target] = NoFile THEN "release" ELSE "read")
        /\ d2.found = dir[Target]
        /\ d3.pc = (IF c.op = "create" THEN "untemp" ELSE "release") /\ d3.found = c.found
    BY Zenon, <1>1 DEF Call, Fields
  <1>4. \/ calls' = [calls EXCEPT ![p] = d1] /\ claim # NoFile /\ claim' = claim
        \/ calls' = [calls EXCEPT ![p] = d2] /\ claim = NoFile /\ claim' = p
        \/ calls' = [calls EXCEPT ![p] = d3] /\ claim = NoFile /\ claim' = p
    <2> DEFINE pc1 == IF c.op = "create" THEN "untemp" ELSE "refused"
               pc2 == IF c.op = "create" THEN "link"
                      ELSE IF dir[Target] = NoFile THEN "release" ELSE "read"
               pc3 == IF c.op = "create" THEN "untemp" ELSE "release"
    <2>1. \/ calls' = [calls EXCEPT ![p].pc = pc1] /\ claim # NoFile /\ claim' = claim
          \/ /\ calls' = [calls EXCEPT ![p].found = dir[Target], ![p].pc = pc2]
             /\ claim = NoFile /\ claim' = p
          \/ calls' = [calls EXCEPT ![p].pc = pc3] /\ claim = NoFile /\ claim' = p
      BY Zenon
    <2> HIDE DEF pc1, pc2, pc3
    <2>2. /\ [calls EXCEPT ![p].pc = pc1] = [calls EXCEPT ![p] = [c EXCEPT !.pc = pc1]]
          /\ [calls EXCEPT ![p].found = dir[Target], ![p].pc = pc2]
                = [calls EXCEPT ![p] = [c EXCEPT !.pc = pc2, !.found = dir[Target]]]
          /\ [calls EXCEPT ![p].pc = pc3] = [calls EXCEPT ![p] = [c EXCEPT !.pc = pc3]]
      BY Zenon DEF TypeOK
    <2> QED
      BY <2>1, <2>2 DEF pc1, pc2, pc3
  <1>5. Counted
    BY Counting
  <1>6. calls[p].pc = "claim" /\ UNCHANGED <<dir, outside>>
    OBVIOUS
  <1> HIDE DEF TakeClaim, d1, d2, d3
  <1> DEFINE S == {"pc", "found"}
  <1> HIDE DEF S
  <1>7. \A x \in Call : calls' = [calls EXCEPT ![p] = x] /\ (\A f \in Fields \ S : x[f] = c[f])
          => Changes(p, S) /\ calls'[p] = x
    BY Zenon, Changing
  <1> QED
    BY <1>2, <1>3, <1>4, <1>5, <1>6, <1>7 DEF S

\* Link(p), field by field.
LEMMA LinkEffect ==
    ASSUME TypeOK, NEW p \in Procs, Link(p)
    PROVE  LET c == calls[p]
               d == calls'[p]
           IN
           /\ Changes(p, {"pc"}) /\ Counted
           /\ c.pc = "link"
           /\ UNCHANGED <<claim, outside>>
           /\ \/ /\ d.pc = "untemp"
                 /\ dir' = dir
              \/ /\ d.pc = "verify"
                 /\ dir[Target] = NoFile
                 /\ dir' = [dir EXCEPT ![Target] = p]
              \/ /\ d.pc = "unpublish"
                 /\ dir[Target] = NoFile
                 /\ dir' = [dir EXCEPT ![Target] = p]
  <1> USE DEF Link, At, Goto
  <1> DEFINE c == calls[p]
             d1 == [c EXCEPT !.pc = "untemp"]
             d2 == [c EXCEPT !.pc = "verify"]
             d3 == [c EXCEPT !.pc = "unpublish"]
  <1>1. c \in Call
    BY DEF TypeOK
  <1>2. d1 \in Call /\ d2 \in Call /\ d3 \in Call
    BY <1>1 DEF Call, Ends, Removing, Places, Files
  <1>3. /\ \A f \in Fields \ {"pc"} : d1[f] = c[f] /\ d2[f] = c[f] /\ d3[f] = c[f]
        /\ d1.pc = "untemp"
        /\ d2.pc = "verify"
        /\ d3.pc = "unpublish"
    BY <1>1 DEF Call, Fields
  <1>4. \/ calls' = [calls EXCEPT ![p] = d1] /\ dir' = dir
        \/ calls' = [calls EXCEPT ![p] = d2] /\ dir[Target] = NoFile /\ dir' = [dir EXCEPT ![Target] = p]
        \/ calls' = [calls EXCEPT ![p] = d3] /\ dir[Target] = NoFile /\ dir' = [dir EXCEPT ![Target] = p]
    BY DEF TypeOK
  <1>5. Counted
    BY Counting
  <1>6. calls[p].pc = "link" /\ UNCHANGED <<claim, outside>>
    OBVIOUS
  <1> HIDE DEF Link, d1, d2, d3
  <1> DEFINE S == {"pc"}
  <1> HIDE DEF S
  <1>7. \A x \in Call : calls' = [calls EXCEPT ![p] = x] /\ (\A f \in Fields \ S : x[f] = c[f])
          => Changes(p, S) /\ calls'[p] = x
    BY Zenon, Changing
  <1> QED
    BY <1>2, <1>3, <1>4, <1>5, <1>6, <1>7 DEF S

\* Verify(p), field by field.
LEMMA VerifyEffect ==
    ASSUME TypeOK, NEW p \in Procs, Verify(p)
    PROVE  LET c == calls[p]
               d == calls'[p]
           IN
           /\ Changes(p, {"pc", "committed"}) /\ Counted
           /\ c.pc = "verify"
           /\ UNCHANGED <<dir, claim, outside>>
           /\ \/ /\ d.pc = "untemp" /\ d.committed
                 /\ dir[Target] = p
              \/ /\ d.pc = (IF c.op = "create" THEN "unpublish" ELSE "handle")
                 /\ d.committed = c.committed
  <1> USE DEF Verify, At, Goto
  <1> DEFINE c == calls[p]
             d1 == [c EXCEPT !.committed = TRUE, !.pc = "untemp"]
             d2 == [c EXCEPT !.pc = IF c.op = "create" THEN "unpublish" ELSE "handle"]
  <1>1. c \in Call
    BY DEF TypeOK
  <1>2. d1 \in Call /\ d2 \in Call
    BY Zenon, <1>1 DEF Call, Ends, Removing, Places, Files
  <1>3. /\ \A f \in Fields \ {"pc", "committed"} : d1[f] = c[f] /\ d2[f] = c[f]
        /\ d1.pc = "untemp" /\ d1.committed
        /\ d2.pc = (IF c.op = "create" THEN "unpublish" ELSE "handle") /\ d2.committed = c.committed
    BY Zenon, <1>1 DEF Call, Fields
  <1>4. \/ calls' = [calls EXCEPT ![p] = d1] /\ dir[Target] = p
        \/ calls' = [calls EXCEPT ![p] = d2]
    BY Zenon DEF TypeOK
  <1>5. Counted
    BY Counting
  <1>6. calls[p].pc = "verify" /\ UNCHANGED <<dir, claim, outside>>
    OBVIOUS
  <1> HIDE DEF Verify, d1, d2
  <1> DEFINE S == {"pc", "committed"}
  <1> HIDE DEF S
  <1>7. \A x \in Call : calls' = [calls EXCEPT ![p] = x] /\ (\A f \in Fields \ S : x[f] = c[f])
          => Changes(p, S) /\ calls'[p] = x
    BY Zenon, Changing
  <1> QED
    BY <1>2, <1>3, <1>4, <1>5, <1>6, <1>7 DEF S

\* Release(p), field by field.
LEMMA ReleaseEffect ==
    ASSUME TypeOK, NEW p \in Procs, Release(p)
    PROVE  LET c == calls[p]
               d == calls'[p]
           IN
           /\ Changes(p, {"pc"}) /\ Counted
           /\ c.pc = "release"
           /\ UNCHANGED <<dir, outside>>
           /\ d.pc = (IF ~c.committed THEN "failed"
                      ELSE IF c.op = "update" THEN "updated"
                      ELSE IF kind = "report" THEN "created" ELSE "kept")
           /\ claim' = claim \/ (claim = p /\ claim' = NoFile)
  <1> USE DEF Release, At, Goto
  <1> DEFINE c == calls[p]
             d1 == [c EXCEPT !.pc = IF ~c.committed THEN "failed"
                                    ELSE IF c.op = "update" THEN "updated"
                                    ELSE IF kind = "report" THEN "created" ELSE "kept"]
  <1>1. c \in Call
    BY DEF TypeOK
  <1>2. d1 \in Call
    BY <1>1 DEF Call, Ends, Removing, Places, Files
  <1>3. /\ \A f \in Fields \ {"pc"} : d1[f] = c[f]
        /\ d1.pc = (IF ~c.committed THEN "failed"
                    ELSE IF c.op = "update" THEN "updated"
                    ELSE IF kind = "report" THEN "created" ELSE "kept")
    BY <1>1 DEF Call, Fields
  <1>4. calls' = [calls EXCEPT ![p] = d1] /\ (claim' = claim \/ (claim = p /\ claim' = NoFile))
    BY DEF TypeOK
  <1>5. Counted
    BY Counting
  <1>6. calls[p].pc = "release" /\ UNCHANGED <<dir, outside>>
    OBVIOUS
  <1> HIDE DEF Release, d1
  <1> DEFINE S == {"pc"}
  <1> HIDE DEF S
  <1>7. \A x \in Call : calls' = [calls EXCEPT ![p] = x] /\ (\A f \in Fields \ S : x[f] = c[f])
          => Changes(p, S) /\ calls'[p] = x
    BY Zenon, Changing
  <1> QED
    BY Zenon, <1>2, <1>3, <1>4, <1>5, <1>6, <1>7 DEF S

\* BeginCreate(p), field by field.
LEMMA BeginCreateEffect ==
    ASSUME TypeOK, NEW p \in Procs, BeginCreate(p)
    PROVE  LET c == calls[p]
               d == calls'[p]
           IN
           /\ Changes(p, {"pc"}) /\ Counted
           /\ c.pc = "begin"
           /\ UNCHANGED <<claim, outside>>
           /\ \/ /\ d.pc = "refused"
                 /\ dir' = dir
              \/ /\ d.pc = "write"
                 /\ dir' = [dir EXCEPT ![Temp(p)] = p]
  <1> USE DEF BeginCreate, At, Goto
  <1> DEFINE c == calls[p]
             d1 == [c EXCEPT !.pc = "refused"]
             d2 == [c EXCEPT !.pc = "write"]
  <1>1. c \in Call
    BY DEF TypeOK
  <1>2. d1 \in Call /\ d2 \in Call
    BY <1>1 DEF Call, Ends, Removing, Places, Files
  <1>3. /\ \A f \in Fields \ {"pc"} : d1[f] = c[f] /\ d2[f] = c[f]
        /\ d1.pc = "refused"
        /\ d2.pc = "write"
    BY <1>1 DEF Call, Fields
  <1>4. \/ calls' = [calls EXCEPT ![p] = d1] /\ dir' = dir
        \/ calls' = [calls EXCEPT ![p] = d2] /\ dir' = [dir EXCEPT ![Temp(p)] = p]
    BY DEF TypeOK
  <1>5. Counted
    BY Counting
  <1>6. calls[p].pc = "begin" /\ UNCHANGED <<claim, outside>>
    OBVIOUS
  <1> HIDE DEF BeginCreate, d1, d2
  <1> DEFINE S == {"pc"}
  <1> HIDE DEF S
  <1>7. \A x \in Call : calls' = [calls EXCEPT ![p] = x] /\ (\A f \in Fields \ S : x[f] = c[f])
          => Changes(p, S) /\ calls'[p] = x
    BY Zenon, Changing
  <1> QED
    BY <1>2, <1>3, <1>4, <1>5, <1>6, <1>7 DEF S

\* BeginUpdate(p), field by field.
LEMMA BeginUpdateEffect ==
    ASSUME TypeOK, NEW p \in Procs, BeginUpdate(p)
    PROVE  LET c == calls[p]
               d == calls'[p]
           IN
           /\ Changes(p, {"op", "pc"}) /\ Counted
           /\ c.pc = "begin"
           /\ kind = "case"
           /\ UNCHANGED <<dir, claim, outside>>
           /\ d.op = "update"
           /\ d.pc = "claim"
  <1> USE DEF BeginUpdate, At, Goto
  <1> DEFINE c == calls[p]
             d1 == [c EXCEPT !.op = "update", !.pc = "claim"]
  <1>1. c \in Call
    BY DEF TypeOK
  <1>2. d1 \in Call
    BY Zenon, <1>1 DEF Call, Ends, Removing, Places, Files
  <1>3. /\ \A f \in Fields \ {"op", "pc"} : d1[f] = c[f]
        /\ d1.op = "update" /\ d1.pc = "claim"
    BY Zenon, <1>1 DEF Call, Fields
  <1>4. calls' = [calls EXCEPT ![p] = d1]
    BY Zenon DEF TypeOK
  <1>5. Counted
    BY Counting
  <1>6. calls[p].pc = "begin" /\ kind = "case" /\ UNCHANGED <<dir, claim, outside>>
    OBVIOUS
  <1> HIDE DEF BeginUpdate, d1
  <1> DEFINE S == {"op", "pc"}
  <1> HIDE DEF S
  <1>7. \A x \in Call : calls' = [calls EXCEPT ![p] = x] /\ (\A f \in Fields \ S : x[f] = c[f])
          => Changes(p, S) /\ calls'[p] = x
    BY Zenon, Changing
  <1> QED
    BY Zenon, <1>2, <1>3, <1>4, <1>5, <1>6, <1>7 DEF S

\* Read(p), field by field.
LEMMA ReadEffect ==
    ASSUME TypeOK, NEW p \in Procs, Read(p)
    PROVE  LET c == calls[p]
               d == calls'[p]
           IN
           /\ Changes(p, {"pc"}) /\ Counted
           /\ c.pc = "read"
           /\ UNCHANGED <<dir, claim, outside>>
           /\ d.pc = (IF dir[Target] = c.found /\ ~HasOutcome(c.found) THEN "open" ELSE "release")
  <1> USE DEF Read, At, Goto
  <1> DEFINE c == calls[p]
             d1 == [c EXCEPT !.pc = IF dir[Target] = c.found /\ ~HasOutcome(c.found) THEN "open" ELSE "release"]
  <1>1. c \in Call
    BY DEF TypeOK
  <1>2. d1 \in Call
    BY <1>1 DEF Call, Ends, Removing, Places, Files
  <1>3. /\ \A f \in Fields \ {"pc"} : d1[f] = c[f]
        /\ d1.pc = (IF dir[Target] = c.found /\ ~HasOutcome(c.found) THEN "open" ELSE "release")
    BY <1>1 DEF Call, Fields
  <1>4. calls' = [calls EXCEPT ![p] = d1]
    BY DEF TypeOK
  <1>5. Counted
    BY Counting
  <1>6. calls[p].pc = "read" /\ UNCHANGED <<dir, claim, outside>>
    OBVIOUS
  <1> HIDE DEF Read, d1
  <1> DEFINE S == {"pc"}
  <1> HIDE DEF S
  <1>7. \A x \in Call : calls' = [calls EXCEPT ![p] = x] /\ (\A f \in Fields \ S : x[f] = c[f])
          => Changes(p, S) /\ calls'[p] = x
    BY Zenon, Changing
  <1> QED
    BY Zenon, <1>2, <1>3, <1>4, <1>5, <1>6, <1>7 DEF S

\* Open(p), field by field.
LEMMA OpenEffect ==
    ASSUME TypeOK, NEW p \in Procs, Open(p)
    PROVE  LET c == calls[p]
               d == calls'[p]
           IN
           /\ Changes(p, {"pc"}) /\ Counted
           /\ c.pc = "open"
           /\ UNCHANGED <<claim, outside>>
           /\ \/ /\ d.pc = "backup"
                 /\ dir[Target] = c.found
                 /\ dir' = [dir EXCEPT ![Temp(p)] = p]
              \/ /\ d.pc = "release"
                 /\ dir' = dir
  <1> USE DEF Open, At, Goto
  <1> DEFINE c == calls[p]
             d1 == [c EXCEPT !.pc = "backup"]
             d2 == [c EXCEPT !.pc = "release"]
  <1>1. c \in Call
    BY DEF TypeOK
  <1>2. d1 \in Call /\ d2 \in Call
    BY <1>1 DEF Call, Ends, Removing, Places, Files
  <1>3. /\ \A f \in Fields \ {"pc"} : d1[f] = c[f] /\ d2[f] = c[f]
        /\ d1.pc = "backup"
        /\ d2.pc = "release"
    BY <1>1 DEF Call, Fields
  <1>4. \/ calls' = [calls EXCEPT ![p] = d1] /\ dir[Target] = c.found /\ dir' = [dir EXCEPT ![Temp(p)] = p]
        \/ calls' = [calls EXCEPT ![p] = d2] /\ dir' = dir
    BY DEF TypeOK
  <1>5. Counted
    BY Counting
  <1>6. calls[p].pc = "open" /\ UNCHANGED <<claim, outside>>
    OBVIOUS
  <1> HIDE DEF Open, d1, d2
  <1> DEFINE S == {"pc"}
  <1> HIDE DEF S
  <1>7. \A x \in Call : calls' = [calls EXCEPT ![p] = x] /\ (\A f \in Fields \ S : x[f] = c[f])
          => Changes(p, S) /\ calls'[p] = x
    BY Zenon, Changing
  <1> QED
    BY <1>2, <1>3, <1>4, <1>5, <1>6, <1>7 DEF S

\* MakeBackup(p), field by field.
LEMMA MakeBackupEffect ==
    ASSUME TypeOK, NEW p \in Procs, MakeBackup(p)
    PROVE  LET c == calls[p]
               d == calls'[p]
           IN
           /\ Changes(p, {"pc", "backed"}) /\ Counted
           /\ c.pc = "backup"
           /\ UNCHANGED <<claim, outside>>
           /\ \/ /\ d.pc = (IF dir[Target] = c.found THEN "write" ELSE "handle")
                 /\ (d.backed <=> dir[Target] = c.found)
                 /\ dir' = [dir EXCEPT ![Backup(p)] = dir[Target]]
              \/ /\ d.pc = "handle" /\ d.backed = c.backed
                 /\ dir' = dir
  <1> USE DEF MakeBackup, At, Goto
  <1> DEFINE c == calls[p]
             d1 == [c EXCEPT !.backed = dir[Target] = c.found,
                             !.pc = IF dir[Target] = c.found THEN "write" ELSE "handle"]
             d2 == [c EXCEPT !.pc = "handle"]
  <1>1. c \in Call
    BY DEF TypeOK
  <1>2. d1 \in Call /\ d2 \in Call
    BY Zenon, <1>1 DEF Call, Ends, Removing, Places, Files
  <1>3. /\ \A f \in Fields \ {"pc", "backed"} : d1[f] = c[f] /\ d2[f] = c[f]
        /\ d1.pc = (IF dir[Target] = c.found THEN "write" ELSE "handle")
        /\ (d1.backed <=> dir[Target] = c.found)
        /\ d2.pc = "handle" /\ d2.backed = c.backed
    BY Zenon, <1>1 DEF Call, Fields
  <1>4. \/ calls' = [calls EXCEPT ![p] = d1] /\ dir' = [dir EXCEPT ![Backup(p)] = dir[Target]]
        \/ calls' = [calls EXCEPT ![p] = d2] /\ dir' = dir
    BY Zenon DEF TypeOK
  <1>5. Counted
    BY Counting
  <1>6. calls[p].pc = "backup" /\ UNCHANGED <<claim, outside>>
    OBVIOUS
  <1> HIDE DEF MakeBackup, d1, d2
  <1> DEFINE S == {"pc", "backed"}
  <1> HIDE DEF S
  <1>7. \A x \in Call : calls' = [calls EXCEPT ![p] = x] /\ (\A f \in Fields \ S : x[f] = c[f])
          => Changes(p, S) /\ calls'[p] = x
    BY Zenon, Changing
  <1> QED
    BY <1>2, <1>3, <1>4, <1>5, <1>6, <1>7 DEF S

\* Recheck(p), field by field.
LEMMA RecheckEffect ==
    ASSUME TypeOK, NEW p \in Procs, Recheck(p)
    PROVE  LET c == calls[p]
               d == calls'[p]
           IN
           /\ Changes(p, {"pc", "preserve"}) /\ Counted
           /\ c.pc = "recheck"
           /\ UNCHANGED <<dir, claim, outside>>
           /\ d.pc = (IF dir[Target] = c.found THEN "rename" ELSE "handle")
           /\ (d.preserve <=> dir[Target] \notin {c.found, NoFile})
  <1> USE DEF Recheck, At, Goto
  <1> DEFINE c == calls[p]
             d1 == [c EXCEPT !.preserve = dir[Target] \notin {c.found, NoFile},
                             !.pc = IF dir[Target] = c.found THEN "rename" ELSE "handle"]
  <1>1. c \in Call
    BY DEF TypeOK
  <1>2. d1 \in Call
    BY Zenon, <1>1 DEF Call, Ends, Removing, Places, Files
  <1>3. /\ \A f \in Fields \ {"pc", "preserve"} : d1[f] = c[f]
        /\ d1.pc = (IF dir[Target] = c.found THEN "rename" ELSE "handle")
        /\ (d1.preserve <=> dir[Target] \notin {c.found, NoFile})
    BY Zenon, <1>1 DEF Call, Fields
  <1>4. calls' = [calls EXCEPT ![p] = d1]
    BY Zenon DEF TypeOK
  <1>5. Counted
    BY Counting
  <1>6. calls[p].pc = "recheck" /\ UNCHANGED <<dir, claim, outside>>
    OBVIOUS
  <1> HIDE DEF Recheck, d1
  <1> DEFINE S == {"pc", "preserve"}
  <1> HIDE DEF S
  <1>7. \A x \in Call : calls' = [calls EXCEPT ![p] = x] /\ (\A f \in Fields \ S : x[f] = c[f])
          => Changes(p, S) /\ calls'[p] = x
    BY Zenon, Changing
  <1> QED
    BY Zenon, <1>2, <1>3, <1>4, <1>5, <1>6, <1>7 DEF S

\* Rename(p), field by field.
LEMMA RenameEffect ==
    ASSUME TypeOK, NEW p \in Procs, Rename(p)
    PROVE  LET c == calls[p]
               d == calls'[p]
           IN
           /\ Changes(p, {"pc", "published"}) /\ Counted
           /\ c.pc = "rename"
           /\ UNCHANGED <<claim, outside>>
           /\ \/ /\ d.pc = "verify" /\ d.published
                 /\ dir' = [dir EXCEPT ![Target] = p, ![Temp(p)] = NoFile]
              \/ /\ d.pc = "handle" /\ d.published = c.published
                 /\ dir' = dir \/ dir' = [dir EXCEPT ![Target] = p, ![Temp(p)] = NoFile]
  <1> USE DEF Rename, At, Goto
  <1> DEFINE c == calls[p]
             d1 == [c EXCEPT !.published = TRUE, !.pc = "verify"]
             d2 == [c EXCEPT !.pc = "handle"]
  <1>1. c \in Call
    BY DEF TypeOK
  <1>2. d1 \in Call /\ d2 \in Call
    BY Zenon, <1>1 DEF Call, Ends, Removing, Places, Files
  <1>3. /\ \A f \in Fields \ {"pc", "published"} : d1[f] = c[f] /\ d2[f] = c[f]
        /\ d1.pc = "verify" /\ d1.published
        /\ d2.pc = "handle" /\ d2.published = c.published
    BY Zenon, <1>1 DEF Call, Fields
  <1>4. \/ calls' = [calls EXCEPT ![p] = d1] /\ dir' = [dir EXCEPT ![Target] = p, ![Temp(p)] = NoFile]
        \/ /\ calls' = [calls EXCEPT ![p] = d2]
           /\ dir' = dir \/ dir' = [dir EXCEPT ![Target] = p, ![Temp(p)] = NoFile]
    BY Zenon DEF TypeOK
  <1>5. Counted
    BY Counting
  <1>6. calls[p].pc = "rename" /\ UNCHANGED <<claim, outside>>
    OBVIOUS
  <1> HIDE DEF Rename, d1, d2
  <1> DEFINE S == {"pc", "published"}
  <1> HIDE DEF S
  <1>7. \A x \in Call : calls' = [calls EXCEPT ![p] = x] /\ (\A f \in Fields \ S : x[f] = c[f])
          => Changes(p, S) /\ calls'[p] = x
    BY Zenon, Changing
  <1> QED
    BY <1>2, <1>3, <1>4, <1>5, <1>6, <1>7 DEF S

\* Handle(p), field by field.
LEMMA HandleEffect ==
    ASSUME TypeOK, NEW p \in Procs, Handle(p)
    PROVE  LET c == calls[p]
               d == calls'[p]
               published == c.published \/ dir[Target] = p
               safe == dir[Backup(p)] = c.found
           IN
           /\ Changes(p, {"pc", "preserve"}) /\ Counted
           /\ c.pc = "handle"
           /\ UNCHANGED <<dir, claim, outside>>
           /\ d.pc = (IF published /\ c.backed /\ safe THEN "undo" ELSE "untemp")
           /\ d.preserve <=> \/ c.preserve
                             \/ ~published /\ dir[Target] = NoFile
                             \/ published /\ c.backed /\ ~safe
  <1> USE DEF Handle, At, Goto
  <1> DEFINE c == calls[p]
             published == c.published \/ dir[Target] = p
             safe == dir[Backup(p)] = c.found
             preserve == \/ c.preserve
                         \/ ~published /\ dir[Target] = NoFile
                         \/ published /\ c.backed /\ ~safe
             next == IF published /\ c.backed /\ safe THEN "undo" ELSE "untemp"
             d1 == [c EXCEPT !.preserve = preserve, !.pc = next]
  <1>1. c \in Call
    BY DEF TypeOK
  <1>2. d1 \in Call
    <2>1. preserve \in BOOLEAN /\ next \in Removing
      BY DEF Removing
    <2> HIDE DEF preserve, next
    <2> QED
      BY Zenon, <1>1, <2>1 DEF Call
  <1>3. /\ \A f \in Fields \ {"pc", "preserve"} : d1[f] = c[f]
        /\ d1.pc = next /\ d1.preserve = preserve
    BY Zenon, <1>1 DEF Call, Fields
  <1>4. calls' = [calls EXCEPT ![p] = d1]
    BY Zenon DEF TypeOK
  <1>5. Counted
    BY Counting
  <1>6. calls[p].pc = "handle" /\ UNCHANGED <<dir, claim, outside>>
    OBVIOUS
  <1> HIDE DEF Handle, d1
  <1> DEFINE S == {"pc", "preserve"}
  <1> HIDE DEF S
  <1>7. \A x \in Call : calls' = [calls EXCEPT ![p] = x] /\ (\A f \in Fields \ S : x[f] = c[f])
          => Changes(p, S) /\ calls'[p] = x
    BY Zenon, Changing
  <1> QED
    BY Zenon, <1>2, <1>3, <1>4, <1>5, <1>6, <1>7 DEF S

\* Restore(p), field by field.
LEMMA RestoreEffect ==
    ASSUME TypeOK, NEW p \in Procs, Restore(p)
    PROVE  LET c == calls[p]
               d == calls'[p]
           IN
           /\ Changes(p, {"pc", "backed", "preserve"}) /\ Counted
           /\ c.pc = "restore"
           /\ UNCHANGED <<claim, outside>>
           /\ \/ /\ d.pc = "untemp" /\ ~d.backed /\ d.preserve = c.preserve
                 /\ dir' = [dir EXCEPT ![Target] = dir[Backup(p)], ![Backup(p)] = NoFile]
              \/ /\ d.pc = "untemp" /\ d.backed = c.backed /\ d.preserve
                 /\ \/ dir' = dir
                    \/ dir' = [dir EXCEPT ![Target] = dir[Backup(p)], ![Backup(p)] = NoFile]
  <1> USE DEF Restore, At, Goto
  <1> DEFINE c == calls[p]
             d1 == [c EXCEPT !.backed = FALSE, !.pc = "untemp"]
             d2 == [c EXCEPT !.preserve = TRUE, !.pc = "untemp"]
  <1>1. c \in Call
    BY DEF TypeOK
  <1>2. d1 \in Call /\ d2 \in Call
    BY Zenon, <1>1 DEF Call, Ends, Removing, Places, Files
  <1>3. /\ \A f \in Fields \ {"pc", "backed", "preserve"} : d1[f] = c[f] /\ d2[f] = c[f]
        /\ d1.pc = "untemp" /\ ~d1.backed /\ d1.preserve = c.preserve
        /\ d2.pc = "untemp" /\ d2.backed = c.backed /\ d2.preserve
    BY Zenon, <1>1 DEF Call, Fields
  <1>4. \/ /\ calls' = [calls EXCEPT ![p] = d1]
           /\ dir' = [dir EXCEPT ![Target] = dir[Backup(p)], ![Backup(p)] = NoFile]
        \/ /\ calls' = [calls EXCEPT ![p] = d2]
           /\ \/ dir' = dir
              \/ dir' = [dir EXCEPT ![Target] = dir[Backup(p)], ![Backup(p)] = NoFile]
    BY Zenon DEF TypeOK
  <1>5. Counted
    BY Counting
  <1>6. calls[p].pc = "restore" /\ UNCHANGED <<claim, outside>>
    OBVIOUS
  <1> HIDE DEF Restore, d1, d2
  <1> DEFINE S == {"pc", "backed", "preserve"}
  <1> HIDE DEF S
  <1>7. \A x \in Call : calls' = [calls EXCEPT ![p] = x] /\ (\A f \in Fields \ S : x[f] = c[f])
          => Changes(p, S) /\ calls'[p] = x
    BY Zenon, Changing
  <1> QED
    BY <1>2, <1>3, <1>4, <1>5, <1>6, <1>7 DEF S

\* Keep(p), field by field.
LEMMA KeepEffect ==
    ASSUME TypeOK, NEW p \in Procs, Keep(p)
    PROVE  LET c == calls[p]
               d == calls'[p]
           IN
           /\ Changes(p, {"pc"}) /\ Counted
           /\ c.pc = "created"
           /\ UNCHANGED <<dir, claim, outside>>
           /\ d.pc = "kept"
  <1> USE DEF Keep, At, Goto
  <1> DEFINE c == calls[p]
             d1 == [c EXCEPT !.pc = "kept"]
  <1>1. c \in Call
    BY DEF TypeOK
  <1>2. d1 \in Call
    BY <1>1 DEF Call, Ends, Removing, Places, Files
  <1>3. /\ \A f \in Fields \ {"pc"} : d1[f] = c[f]
        /\ d1.pc = "kept"
    BY <1>1 DEF Call, Fields
  <1>4. calls' = [calls EXCEPT ![p] = d1]
    BY DEF TypeOK
  <1>5. Counted
    BY Counting
  <1>6. calls[p].pc = "created" /\ UNCHANGED <<dir, claim, outside>>
    OBVIOUS
  <1> HIDE DEF Keep, d1
  <1> DEFINE S == {"pc"}
  <1> HIDE DEF S
  <1>7. \A x \in Call : calls' = [calls EXCEPT ![p] = x] /\ (\A f \in Fields \ S : x[f] = c[f])
          => Changes(p, S) /\ calls'[p] = x
    BY Zenon, Changing
  <1> QED
    BY Zenon, <1>2, <1>3, <1>4, <1>5, <1>6, <1>7 DEF S

\* SaveFails(p), field by field.
LEMMA SaveFailsEffect ==
    ASSUME TypeOK, NEW p \in Procs, SaveFails(p)
    PROVE  LET c == calls[p]
               d == calls'[p]
           IN
           /\ Changes(p, {"op", "pc"}) /\ Counted
           /\ c.pc = "created"
           /\ UNCHANGED <<dir, claim, outside>>
           /\ d.op = "rollback"
           /\ d.pc = "check"
  <1> USE DEF SaveFails, At, Goto
  <1> DEFINE c == calls[p]
             d1 == [c EXCEPT !.op = "rollback", !.pc = "check"]
  <1>1. c \in Call
    BY DEF TypeOK
  <1>2. d1 \in Call
    BY Zenon, <1>1 DEF Call, Ends, Removing, Places, Files
  <1>3. /\ \A f \in Fields \ {"op", "pc"} : d1[f] = c[f]
        /\ d1.op = "rollback" /\ d1.pc = "check"
    BY Zenon, <1>1 DEF Call, Fields
  <1>4. calls' = [calls EXCEPT ![p] = d1]
    BY Zenon DEF TypeOK
  <1>5. Counted
    BY Counting
  <1>6. calls[p].pc = "created" /\ UNCHANGED <<dir, claim, outside>>
    OBVIOUS
  <1> HIDE DEF SaveFails, d1
  <1> DEFINE S == {"op", "pc"}
  <1> HIDE DEF S
  <1>7. \A x \in Call : calls' = [calls EXCEPT ![p] = x] /\ (\A f \in Fields \ S : x[f] = c[f])
          => Changes(p, S) /\ calls'[p] = x
    BY Zenon, Changing
  <1> QED
    BY Zenon, <1>2, <1>3, <1>4, <1>5, <1>6, <1>7 DEF S

\* Crash(p), field by field.
LEMMA CrashEffect ==
    ASSUME TypeOK, NEW p \in Procs, Crash(p)
    PROVE  LET c == calls[p]
               d == calls'[p]
           IN
           /\ Changes(p, {"pc"}) /\ Counted
           /\ c.pc \notin Ends \union {"begin"}
           /\ UNCHANGED <<dir, claim, outside>>
           /\ d.pc = "crashed"
  <1> USE DEF Crash, At, Goto
  <1> DEFINE c == calls[p]
             d1 == [c EXCEPT !.pc = "crashed"]
  <1>1. c \in Call
    BY DEF TypeOK
  <1>2. d1 \in Call
    BY <1>1 DEF Call, Ends, Removing, Places, Files
  <1>3. /\ \A f \in Fields \ {"pc"} : d1[f] = c[f]
        /\ d1.pc = "crashed"
    BY <1>1 DEF Call, Fields
  <1>4. calls' = [calls EXCEPT ![p] = d1]
    BY DEF TypeOK
  <1>5. Counted
    BY Counting
  <1>6. calls[p].pc \notin Ends \union {"begin"} /\ UNCHANGED <<dir, claim, outside>>
    OBVIOUS
  <1> HIDE DEF Crash, d1
  <1> DEFINE S == {"pc"}
  <1> HIDE DEF S
  <1>7. \A x \in Call : calls' = [calls EXCEPT ![p] = x] /\ (\A f \in Fields \ S : x[f] = c[f])
          => Changes(p, S) /\ calls'[p] = x
    BY Zenon, Changing
  <1> QED
    BY Zenon, <1>2, <1>3, <1>4, <1>5, <1>6, <1>7 DEF S

-----------------------------------------------------------------------------

RemovalFields == {"pc", "step", "slot", "preserve", "orphan", "todo", "trouble"}

\* How a removal with this result leaves the call.
EndsRemoval(c, d, result) ==
    /\ d.step = "move"
    /\ c.pc # "undo" => d.preserve = c.preserve
    /\ c.pc # "untemp" => d.orphan = c.orphan
    /\ c.pc # "remove" => d.todo = c.todo /\ d.trouble = c.trouble
    /\ c.pc = "unpublish" => d.pc = "untemp"
    /\ c.pc = "untemp" =>
         /\ d.orphan <=> result = "error" /\ c.committed
         /\ d.pc \in {"unbackup", "release"}
         /\ d.pc = "unbackup" <=> c.backed /\ ~c.preserve /\ (c.committed \/ result # "error")
    /\ c.pc = "undo" =>
         /\ d.preserve <=> result # "done"
         /\ d.pc = (IF result = "done" THEN "restore" ELSE "untemp")
    /\ c.pc = "unbackup" => d.pc = "release"
    /\ c.pc = "remove" =>
         /\ d.todo = Tail(c.todo)
         /\ d.trouble <=> c.trouble \/ result # "done"
         /\ d.pc \in {"remove", "rolled_back", "rollback_failed"}
         /\ d.pc = "remove" <=> Len(c.todo) > 1
         /\ d.pc = "rolled_back" => ~d.trouble

\* What becomes of a call whose removal ends.
LEMMA AfterEffect ==
    ASSUME NEW c \in Call, NEW result, c.pc \in Removing,
           c.pc = "remove" => c.todo # <<>>
    PROVE  LET d == [After(c, result) EXCEPT !.step = "move"]
           IN  /\ d \in Call /\ EndsRemoval(c, d, result) /\ d.slot = c.slot
               /\ \A f \in Fields \ RemovalFields : d[f] = c[f]
               /\ \A s \in {0} \union Slots :
                    LET e == [After(c, result) EXCEPT !.step = "move", !.slot = s]
                    IN  /\ e \in Call /\ EndsRemoval(c, e, result) /\ e.slot = s
                        /\ \A f \in Fields \ RemovalFields : e[f] = c[f]
  <1> DEFINE a == After(c, result)
             d == [a EXCEPT !.step = "move"]
  <1>1. /\ a \in Call
        /\ a.slot = c.slot /\ \A f \in Fields \ RemovalFields : a[f] = c[f]
        /\ EndsRemoval(c, [a EXCEPT !.step = "move"], result)
    <2>1. CASE c.pc \in {"unpublish", "unbackup"}
      BY <2>1 DEF After, EndsRemoval, Call, Removing, Places, Ends, Fields, RemovalFields
    <2>2. CASE c.pc = "untemp"
      <3> DEFINE orphan == result = "error" /\ c.committed
                 pc == IF /\ c.backed /\ ~c.preserve /\ (c.committed \/ result # "error")
                       THEN "unbackup" ELSE "release"
      <3>1. a = [c EXCEPT !.orphan = orphan, !.pc = pc]
        BY <2>2 DEF After
      <3>2. orphan \in BOOLEAN /\ pc \in {"unbackup", "release"}
        OBVIOUS
      <3> HIDE DEF orphan, pc, a
      <3>3. /\ a \in Call /\ a.slot = c.slot
            /\ \A f \in Fields \ RemovalFields : a[f] = c[f]
            /\ LET x == [a EXCEPT !.step = "move"] IN
               /\ x.step = "move" /\ x.preserve = c.preserve /\ x.todo = c.todo
               /\ x.trouble = c.trouble /\ (x.orphan <=> orphan) /\ x.pc = pc
        BY Zenon, <3>1, <3>2 DEF Call, Removing, Places, Ends, Fields, RemovalFields
      <3> QED
        BY <2>2, <3>3 DEF EndsRemoval, orphan, pc
    <2>3. CASE c.pc = "undo"
      <3> DEFINE preserve == result # "done"
                 pc == IF result = "done" THEN "restore" ELSE "untemp"
      <3>1. a = [c EXCEPT !.preserve = preserve, !.pc = pc]
        BY <2>3 DEF After, AfterUndo
      <3>2. preserve \in BOOLEAN /\ pc \in {"restore", "untemp"}
        OBVIOUS
      <3> HIDE DEF preserve, pc, a
      <3>3. /\ a \in Call /\ a.slot = c.slot
            /\ \A f \in Fields \ RemovalFields : a[f] = c[f]
            /\ LET x == [a EXCEPT !.step = "move"] IN
               /\ x.step = "move" /\ (x.preserve <=> preserve) /\ x.todo = c.todo
               /\ x.trouble = c.trouble /\ x.orphan = c.orphan /\ x.pc = pc
        BY Zenon, <3>1, <3>2 DEF Call, Removing, Places, Ends, Fields, RemovalFields
      <3> QED
        BY <2>3, <3>3 DEF EndsRemoval, preserve, pc
    <2>4. CASE c.pc = "remove"
      <3> DEFINE trouble == c.trouble \/ result # "done"
                 todo == Tail(c.todo)
                 pc == IF Len(c.todo) > 1 THEN "remove"
                       ELSE IF trouble THEN "rollback_failed" ELSE "rolled_back"
      <3>1. a = [c EXCEPT !.todo = todo, !.trouble = trouble, !.pc = pc]
        BY <2>4 DEF After
      <3>4. trouble \in BOOLEAN /\ todo \in Seq(Names)
        BY <2>4, Tails DEF Call
      <3> HIDE DEF trouble, todo
      <3>2. /\ trouble \in BOOLEAN /\ todo \in Seq(Names)
            /\ pc \in {"remove", "rolled_back", "rollback_failed"}
            /\ (pc = "remove") <=> Len(c.todo) > 1
            /\ (pc = "rolled_back") => ~trouble
        <4>1. CASE Len(c.todo) > 1
          BY <3>4, <4>1
        <4>2. CASE ~(Len(c.todo) > 1) /\ trouble
          BY <3>4, <4>2
        <4>3. CASE ~(Len(c.todo) > 1) /\ ~trouble
          BY <3>4, <4>3
        <4> QED
          BY <4>1, <4>2, <4>3
      <3> HIDE DEF pc, a
      <3>3. /\ a \in Call /\ a.slot = c.slot
            /\ \A f \in Fields \ RemovalFields : a[f] = c[f]
            /\ LET x == [a EXCEPT !.step = "move"] IN
               /\ x.step = "move" /\ x.preserve = c.preserve /\ x.todo = todo
               /\ (x.trouble <=> trouble) /\ x.orphan = c.orphan /\ x.pc = pc
        BY Zenon, <3>1, <3>2 DEF Call, Removing, Places, Ends, Fields, RemovalFields
      <3> QED
        BY <2>4, <3>2, <3>3 DEF EndsRemoval, trouble, todo
    <2> QED
      BY <2>1, <2>2, <2>3, <2>4 DEF Removing
  <1> HIDE DEF a
  <1>2. /\ d \in Call /\ d.slot = a.slot
        /\ \A f \in Fields \ RemovalFields : d[f] = a[f]
    BY <1>1 DEF Call, Fields, RemovalFields
  <1>3. ASSUME NEW s \in {0} \union Slots
        PROVE  LET e == [a EXCEPT !.step = "move", !.slot = s]
               IN  /\ e \in Call /\ EndsRemoval(c, e, result) /\ e.slot = s
                   /\ \A f \in Fields \ RemovalFields : e[f] = c[f]
    <2> DEFINE e == [a EXCEPT !.step = "move", !.slot = s]
    <2>1. /\ e \in Call /\ e.slot = s /\ e.step = "move"
          /\ \A f \in Fields \ RemovalFields : e[f] = a[f]
          /\ e.pc = d.pc /\ e.preserve = d.preserve /\ e.orphan = d.orphan
          /\ e.todo = d.todo /\ e.trouble = d.trouble
      BY Zenon, <1>1 DEF Call, Fields, RemovalFields
    <2> HIDE DEF e
    <2>2. EndsRemoval(c, e, result)
      BY <1>1, <2>1 DEF EndsRemoval
    <2> QED
      BY <1>1, <2>1, <2>2 DEF e
  <1> QED
    BY Zenon, <1>1, <1>2, <1>3 DEF a

\* A removal is of a name.
LEMMA RemovedTyped ==
    ASSUME TypeOK, NEW p \in Procs, calls[p].pc \in Removing,
           calls[p].pc = "remove" => calls[p].todo # <<>>
    PROVE  Removed(p) \in Names
  <1>1. calls[p] \in Call
    BY DEF TypeOK
  <1>2. calls[p].pc = "remove" => Head(calls[p].todo) \in Names
    BY <1>1 DEF Call
  <1> QED
    BY <1>2, NamesDiffer DEF Removed, Removing

\* Another name for the file of `n`, and what a removal step leaves.
LEMMA MoveEffect ==
    ASSUME TypeOK, NEW p \in Procs, Move(p), calls[p].pc = "remove" => calls[p].todo # <<>>
    PROVE  LET c == calls[p]
               d == calls'[p]
               n == Removed(p)
               moved == [dir EXCEPT ![n] = NoFile, ![Aside(p, c.slot + 1)] = dir[n]]
           IN
           /\ Changes(p, RemovalFields) /\ Counted
           /\ c.pc \in Removing /\ c.step = "move" /\ n \in Names
           /\ UNCHANGED <<claim, outside>>
           /\ \/ /\ dir[n] = NoFile /\ dir' = dir
                 /\ EndsRemoval(c, d, "missing") /\ d.slot = c.slot
              \/ /\ dir[n] # NoFile /\ dir' = moved
                 /\ d.step = "judge" /\ d.slot = c.slot + 1 /\ d.slot \in Slots
                 /\ d.pc = c.pc /\ d.preserve = c.preserve /\ d.orphan = c.orphan
                 /\ d.todo = c.todo /\ d.trouble = c.trouble
              \/ /\ dir[n] # NoFile
                 /\ \/ dir' = dir
                    \/ dir' = moved /\ ~Expected(p, dir[n])
                    \/ dir' = [dir EXCEPT ![n] = NoFile] /\ Expected(p, dir[n])
                 /\ EndsRemoval(c, d, "error") /\ d.slot = c.slot + 1 /\ d.slot \in Slots
  <1> DEFINE c == calls[p]
             n == Removed(p)
             s == c.slot + 1
             moved == [dir EXCEPT ![n] = NoFile, ![Aside(p, c.slot + 1)] = dir[n]]
             gone == [dir EXCEPT ![n] = NoFile]
             d1 == [After(c, "missing") EXCEPT !.step = "move"]
             d2 == [c EXCEPT !.step = "judge", !.slot = s]
             d3 == [After(c, "error") EXCEPT !.step = "move", !.slot = s]
  <1>1. c \in Call /\ c.pc \in Removing /\ c.step = "move" /\ UNCHANGED <<claim, outside>>
    BY DEF TypeOK, Move, In
  <1>2. n \in Names
    BY <1>1, RemovedTyped
  <1>3. Counted
    BY Counting DEF Move
  <1>4. \/ calls' = [calls EXCEPT ![p] = d1] /\ dir[n] = NoFile /\ dir' = dir
        \/ calls' = [calls EXCEPT ![p] = d2] /\ s \in Slots /\ dir[n] # NoFile /\ dir' = moved
        \/ /\ calls' = [calls EXCEPT ![p] = d3] /\ s \in Slots /\ dir[n] # NoFile
           /\ dir' \in {dir, IF Expected(p, dir[n]) THEN gone ELSE moved}
    BY Zenon DEF Move, Finish, TypeOK
  <1>5. /\ d1 \in Call /\ \A f \in Fields \ RemovalFields : d1[f] = c[f]
        /\ EndsRemoval(c, d1, "missing") /\ d1.slot = c.slot
    BY Zenon, <1>1, AfterEffect
  <1>6. s \in Slots =>
        /\ d2 \in Call /\ \A f \in Fields \ RemovalFields : d2[f] = c[f]
        /\ d2.step = "judge" /\ d2.slot = s
        /\ d2.pc = c.pc /\ d2.preserve = c.preserve /\ d2.orphan = c.orphan
        /\ d2.todo = c.todo /\ d2.trouble = c.trouble
    BY Zenon, <1>1 DEF Call, Fields, RemovalFields
  <1>7. s \in Slots =>
        /\ d3 \in Call /\ \A f \in Fields \ RemovalFields : d3[f] = c[f]
        /\ EndsRemoval(c, d3, "error") /\ d3.slot = s
    <2>1. \A x \in {0} \union Slots :
            LET e == [After(c, "error") EXCEPT !.step = "move", !.slot = x]
            IN  /\ e \in Call /\ EndsRemoval(c, e, "error") /\ e.slot = x
                /\ \A f \in Fields \ RemovalFields : e[f] = c[f]
      BY Zenon, <1>1, AfterEffect
    <2> HIDE DEF s, c
    <2> QED
      BY Zenon, <2>1
  <1> HIDE DEF d1, d2, d3, moved, gone, s
  <1>8. \A x \in Call : calls' = [calls EXCEPT ![p] = x] /\ (\A f \in Fields \ RemovalFields : x[f] = c[f])
          => Changes(p, RemovalFields) /\ calls'[p] = x
    BY Zenon, Changing
  <1>9. \/ /\ calls'[p] = d1 /\ Changes(p, RemovalFields) /\ dir[n] = NoFile /\ dir' = dir
        \/ /\ calls'[p] = d2 /\ Changes(p, RemovalFields)
           /\ s \in Slots /\ dir[n] # NoFile /\ dir' = moved
        \/ /\ calls'[p] = d3 /\ Changes(p, RemovalFields) /\ s \in Slots /\ dir[n] # NoFile
           /\ \/ dir' = dir
              \/ dir' = moved /\ ~Expected(p, dir[n])
              \/ dir' = gone /\ Expected(p, dir[n])
    BY <1>4, <1>5, <1>6, <1>7, <1>8
  <1> QED
    BY <1>1, <1>2, <1>3, <1>5, <1>6, <1>7, <1>9 DEF moved, gone, s

\* Judging removes the file that was looked for, or leaves it where it is.
LEMMA JudgeEffect ==
    ASSUME TypeOK, NEW p \in Procs, Judge(p), calls[p].pc = "remove" => calls[p].todo # <<>>
    PROVE  LET c == calls[p]
               d == calls'[p]
               aside == Aside(p, c.slot)
               erased == [dir EXCEPT ![aside] = NoFile]
           IN
           /\ Changes(p, RemovalFields) /\ Counted
           /\ c.pc \in Removing /\ c.step = "judge" /\ d.slot = c.slot
           /\ UNCHANGED <<claim, outside>>
           /\ \/ /\ dir[aside] = NoFile /\ dir' = dir /\ EndsRemoval(c, d, "error")
              \/ Expected(p, dir[aside]) /\ dir' = erased /\ EndsRemoval(c, d, "done")
              \/ /\ dir' = dir \/ (dir' = erased /\ Expected(p, dir[aside]))
                 /\ d.step = "relink"
                 /\ d.pc = c.pc /\ d.preserve = c.preserve /\ d.orphan = c.orphan
                 /\ d.todo = c.todo /\ d.trouble = c.trouble
  <1> DEFINE c == calls[p]
             aside == Aside(p, c.slot)
             erased == [dir EXCEPT ![aside] = NoFile]
             d1 == [After(c, "error") EXCEPT !.step = "move"]
             d2 == [After(c, "done") EXCEPT !.step = "move"]
             d3 == [c EXCEPT !.step = "relink"]
  <1>1. c \in Call /\ c.pc \in Removing /\ c.step = "judge" /\ UNCHANGED <<claim, outside>>
    BY DEF TypeOK, Judge, In
  <1>2. c.slot \in {0} \union Slots
    BY <1>1 DEF Call
  <1>3. Counted
    BY Counting DEF Judge
  <1>4. \/ calls' = [calls EXCEPT ![p] = d1] /\ dir[aside] = NoFile /\ dir' = dir
        \/ calls' = [calls EXCEPT ![p] = d2] /\ Expected(p, dir[aside]) /\ dir' = erased
        \/ /\ calls' = [calls EXCEPT ![p] = d3]
           /\ dir' = dir \/ (dir' = erased /\ Expected(p, dir[aside]))
    BY DEF Judge, Finish, TypeOK
  <1>5. /\ d1 \in Call /\ \A f \in Fields \ RemovalFields : d1[f] = c[f]
        /\ EndsRemoval(c, d1, "error") /\ d1.slot = c.slot
    BY Zenon, <1>1, <1>2, AfterEffect
  <1>6. /\ d2 \in Call /\ \A f \in Fields \ RemovalFields : d2[f] = c[f]
        /\ EndsRemoval(c, d2, "done") /\ d2.slot = c.slot
    BY Zenon, <1>1, <1>2, AfterEffect
  <1>7. /\ d3 \in Call /\ \A f \in Fields \ RemovalFields : d3[f] = c[f]
        /\ d3.step = "relink" /\ d3.slot = c.slot
        /\ d3.pc = c.pc /\ d3.preserve = c.preserve /\ d3.orphan = c.orphan
        /\ d3.todo = c.todo /\ d3.trouble = c.trouble
    BY <1>1 DEF Call, Fields, RemovalFields
  <1> HIDE DEF d1, d2, d3, erased
  <1>8. \A x \in Call : calls' = [calls EXCEPT ![p] = x] /\ (\A f \in Fields \ RemovalFields : x[f] = c[f])
          => Changes(p, RemovalFields) /\ calls'[p] = x
    BY Zenon, Changing
  <1> QED
    BY <1>1, <1>3, <1>4, <1>5, <1>6, <1>7, <1>8 DEF erased

\* Relinking gives a file its name back, if that is free.
LEMMA RelinkEffect ==
    ASSUME TypeOK, NEW p \in Procs, Relink(p), calls[p].pc = "remove" => calls[p].todo # <<>>
    PROVE  LET c == calls[p]
               d == calls'[p]
               n == Removed(p)
               aside == Aside(p, c.slot)
           IN
           /\ Changes(p, RemovalFields) /\ Counted
           /\ c.pc \in Removing /\ c.step = "relink" /\ n \in Names /\ d.slot = c.slot
           /\ UNCHANGED <<claim, outside>>
           /\ \/ /\ dir[aside] # NoFile /\ dir[n] = NoFile
                 /\ dir' = [dir EXCEPT ![n] = dir[aside]]
                 /\ d.step = "drop"
                 /\ d.pc = c.pc /\ d.preserve = c.preserve /\ d.orphan = c.orphan
                 /\ d.todo = c.todo /\ d.trouble = c.trouble
              \/ dir' = dir /\ EndsRemoval(c, d, "error")
  <1> DEFINE c == calls[p]
             n == Removed(p)
             aside == Aside(p, c.slot)
             linked == [dir EXCEPT ![n] = dir[aside]]
             d1 == [After(c, "error") EXCEPT !.step = "move"]
             d2 == [c EXCEPT !.step = "drop"]
  <1>1. c \in Call /\ c.pc \in Removing /\ c.step = "relink" /\ UNCHANGED <<claim, outside>>
    BY DEF TypeOK, Relink, In
  <1>2. c.slot \in {0} \union Slots /\ n \in Names
    BY <1>1, RemovedTyped DEF Call
  <1>3. Counted
    BY Counting DEF Relink
  <1>4. \/ calls' = [calls EXCEPT ![p] = d1] /\ dir' = dir
        \/ /\ calls' = [calls EXCEPT ![p] = d2]
           /\ dir[aside] # NoFile /\ dir[n] = NoFile /\ dir' = linked
    BY DEF Relink, Finish, TypeOK
  <1>5. /\ d1 \in Call /\ \A f \in Fields \ RemovalFields : d1[f] = c[f]
        /\ EndsRemoval(c, d1, "error") /\ d1.slot = c.slot
    BY Zenon, <1>1, <1>2, AfterEffect
  <1>6. /\ d2 \in Call /\ \A f \in Fields \ RemovalFields : d2[f] = c[f]
        /\ d2.step = "drop" /\ d2.slot = c.slot
        /\ d2.pc = c.pc /\ d2.preserve = c.preserve /\ d2.orphan = c.orphan
        /\ d2.todo = c.todo /\ d2.trouble = c.trouble
    BY <1>1 DEF Call, Fields, RemovalFields
  <1> HIDE DEF d1, d2, linked
  <1>7. \A x \in Call : calls' = [calls EXCEPT ![p] = x] /\ (\A f \in Fields \ RemovalFields : x[f] = c[f])
          => Changes(p, RemovalFields) /\ calls'[p] = x
    BY Zenon, Changing
  <1> QED
    BY <1>1, <1>2, <1>3, <1>4, <1>5, <1>6, <1>7 DEF linked

\* The name it had in the meantime may stay.
LEMMA DropEffect ==
    ASSUME TypeOK, NEW p \in Procs, Drop(p), calls[p].pc = "remove" => calls[p].todo # <<>>
    PROVE  LET c == calls[p]
               d == calls'[p]
           IN
           /\ Changes(p, RemovalFields) /\ Counted
           /\ c.pc \in Removing /\ c.step = "drop" /\ d.slot = c.slot
           /\ UNCHANGED <<claim, outside>>
           /\ dir' = dir \/ dir' = [dir EXCEPT ![Aside(p, c.slot)] = NoFile]
           /\ EndsRemoval(c, d, "error")
  <1> DEFINE c == calls[p]
             d1 == [After(c, "error") EXCEPT !.step = "move"]
  <1>1. c \in Call /\ c.pc \in Removing /\ c.step = "drop" /\ UNCHANGED <<claim, outside>>
    BY DEF TypeOK, Drop, In
  <1>2. c.slot \in {0} \union Slots
    BY <1>1 DEF Call
  <1>3. Counted
    BY Counting DEF Drop
  <1>4. /\ calls' = [calls EXCEPT ![p] = d1]
        /\ dir' = dir \/ dir' = [dir EXCEPT ![Aside(p, c.slot)] = NoFile]
    BY DEF Drop, Finish, TypeOK
  <1>5. /\ d1 \in Call /\ \A f \in Fields \ RemovalFields : d1[f] = c[f]
        /\ EndsRemoval(c, d1, "error") /\ d1.slot = c.slot
    BY Zenon, <1>1, <1>2, AfterEffect
  <1> HIDE DEF d1
  <1>6. Changes(p, RemovalFields) /\ calls'[p] = d1
    BY Zenon, <1>4, <1>5, Changing
  <1> QED
    BY <1>1, <1>3, <1>4, <1>5, <1>6

Lists(s, n) == \E k \in DOMAIN s : s[k] = n

\* What a list put together from two others lists.
LEMMA Joined ==
    ASSUME NEW S, NEW s \in Seq(S), NEW t \in Seq(S)
    PROVE  /\ s \o t \in Seq(S)
           /\ \A k \in DOMAIN (s \o t) :
                \/ k \in DOMAIN s /\ (s \o t)[k] = s[k]
                \/ \E i \in DOMAIN t : (s \o t)[k] = t[i]
           /\ \A n \in S : Lists(s, n) \/ Lists(t, n) => Lists(s \o t, n)
  <1> DEFINE j == s \o t
  <1>1. /\ j \in Seq(S) /\ Len(j) = Len(s) + Len(t)
        /\ \A i \in 1..Len(s) + Len(t) : j[i] = IF i <= Len(s) THEN s[i] ELSE t[i - Len(s)]
    BY ConcatProperties
  <1>2. /\ DOMAIN s = 1..Len(s) /\ DOMAIN t = 1..Len(t)
        /\ Len(s) \in Nat /\ Len(t) \in Nat
    BY LenProperties
  <1> HIDE DEF j
  <1>3. DOMAIN j = 1..Len(j)
    BY <1>1, LenProperties
  <1>4. ASSUME NEW k \in DOMAIN j
        PROVE  (k \in DOMAIN s /\ j[k] = s[k]) \/ \E i \in DOMAIN t : j[k] = t[i]
    <2>1. CASE k <= Len(s)
      BY <1>1, <1>2, <1>3, <2>1
    <2>2. CASE k > Len(s)
      <3>1. k - Len(s) \in DOMAIN t /\ j[k] = t[k - Len(s)]
        BY <1>1, <1>2, <1>3, <2>2
      <3> QED
        BY <3>1
    <2> QED
      BY <1>1, <1>2, <1>3, <2>1, <2>2
  <1>5. ASSUME NEW i \in DOMAIN s PROVE \E k \in DOMAIN j : j[k] = s[i]
    <2>1. i \in DOMAIN j /\ j[i] = s[i]
      BY <1>1, <1>2, <1>3
    <2> QED
      BY <2>1
  <1>6. ASSUME NEW i \in DOMAIN t PROVE \E k \in DOMAIN j : j[k] = t[i]
    <2>1. i + Len(s) \in DOMAIN j /\ j[i + Len(s)] = t[i]
      BY <1>1, <1>2, <1>3
    <2> QED
      BY <2>1
  <1>7. \A n \in S : Lists(s, n) \/ Lists(t, n) => Lists(j, n)
    BY <1>5, <1>6 DEF Lists
  <1> QED
    BY <1>1, <1>4, <1>7 DEF j

Own(p, n) == dir[n] = p /\ p \notin edited

\* What a rollback finds, and where it goes with that.
LEMMA CheckEffect ==
    ASSUME TypeOK, NEW p \in Procs, Check(p)
    PROVE  LET c == calls[p]
               d == calls'[p]
           IN
           /\ Changes(p, {"pc", "todo"}) /\ Counted
           /\ c.pc = "check" /\ UNCHANGED <<dir, claim, outside>>
           /\ \A k \in DOMAIN d.todo :
                \/ d.todo[k] = Target /\ k = 1
                \/ d.todo[k] = Temp(p)
                \/ d.todo[k] \in QuarantineNames /\ Own(p, d.todo[k])
           /\ dir[Target] # NoFile => Lists(d.todo, Target)
           /\ c.orphan /\ dir[Temp(p)] # NoFile => Lists(d.todo, Temp(p))
           /\ \A n \in QuarantineNames : Own(p, n) => Lists(d.todo, n)
           /\ d.pc \in {"remove", "rolled_back", "rollback_refused"}
           /\ d.pc = "remove" => d.todo # <<>> /\ \A k \in DOMAIN d.todo : Own(p, d.todo[k])
           /\ d.pc = "rolled_back" => d.todo = <<>>
  <1> DEFINE c == calls[p]
             Existing(n) == IF dir[n] # NoFile THEN <<n>> ELSE <<>>
             s == Existing(Target)
             t == IF c.orphan THEN Existing(Temp(p)) ELSE <<>>
             u == SetToSeq({n \in QuarantineNames : Own(p, n)})
             todo == s \o t \o u
             pc == CASE \E i \in DOMAIN todo : ~Own(p, todo[i]) -> "rollback_refused"
                     [] todo = <<>> -> "rolled_back"
                     [] OTHER -> "remove"
             d1 == [c EXCEPT !.todo = todo, !.pc = pc]
  <1>1. c \in Call /\ c.pc = "check" /\ UNCHANGED <<dir, claim, outside>>
    BY DEF TypeOK, Check, At
  <1>2. Counted
    BY Counting DEF Check
  <1>3. calls' = [calls EXCEPT ![p] = d1]
    <2>1. calls' = [calls EXCEPT ![p].todo = todo, ![p].pc = pc]
      BY DEF Check, Own
    <2> HIDE DEF todo, pc
    <2> QED
      BY Zenon, <2>1 DEF TypeOK
  <1>4. /\ s \in Seq(Names) /\ t \in Seq(Names)
        /\ \A k \in DOMAIN s : s[k] = Target /\ k = 1
        /\ \A k \in DOMAIN t : t[k] = Temp(p)
        /\ dir[Target] # NoFile => Lists(s, Target)
        /\ c.orphan /\ dir[Temp(p)] # NoFile => Lists(t, Temp(p))
    BY NamesDiffer DEF Lists
  <1>5. PICK Q : Q = {n \in QuarantineNames : Own(p, n)}
    BY Zenon
  <1>6. IsFiniteSet(Q)
    BY <1>5, FiniteQuarantine, FS_Subset
  <1>7. /\ u \in Seq(Q)
        /\ \A n \in Q : Lists(u, n)
    BY Zenon, <1>5, <1>6, Listed DEF Lists
  <1>8. /\ u \in Seq(Names) /\ \A k \in DOMAIN u : u[k] \in Q
    <2>1. Q \subseteq Names /\ DOMAIN u = 1..Len(u) /\ u \in [1..Len(u) -> Q] /\ Len(u) \in Nat
      BY Zenon, <1>5, <1>7, LenProperties DEF Names
    <2> HIDE DEF u
    <2> QED
      BY <2>1
  <1> HIDE DEF s, t, u
  <1>9. /\ todo \in Seq(Names)
        /\ \A k \in DOMAIN todo :
             \/ todo[k] = Target /\ k = 1
             \/ todo[k] = Temp(p)
             \/ todo[k] \in QuarantineNames /\ Own(p, todo[k])
        /\ dir[Target] # NoFile => Lists(todo, Target)
        /\ c.orphan /\ dir[Temp(p)] # NoFile => Lists(todo, Temp(p))
        /\ \A n \in QuarantineNames : Own(p, n) => Lists(todo, n)
    <2> DEFINE st == s \o t
    <2>1. /\ st \in Seq(Names)
          /\ \A k \in DOMAIN st : (k \in DOMAIN s /\ st[k] = s[k]) \/ \E i \in DOMAIN t : st[k] = t[i]
          /\ \A n \in Names : Lists(s, n) \/ Lists(t, n) => Lists(st, n)
      BY <1>4, Joined
    <2> HIDE DEF st
    <2>2. /\ todo \in Seq(Names)
          /\ \A k \in DOMAIN todo : (k \in DOMAIN st /\ todo[k] = st[k]) \/ \E i \in DOMAIN u : todo[k] = u[i]
          /\ \A n \in Names : Lists(st, n) \/ Lists(u, n) => Lists(todo, n)
      BY Zenon, <1>8, <2>1, Joined DEF st
    <2> HIDE DEF todo
    <2> QED
      BY Zenon, <1>4, <1>5, <1>7, <1>8, <2>1, <2>2, NamesDiffer DEF Names
  <1> HIDE DEF todo
  <1>10. /\ pc \in {"remove", "rolled_back", "rollback_refused"}
         /\ (pc = "remove") => todo # <<>> /\ \A k \in DOMAIN todo : Own(p, todo[k])
         /\ (pc = "rolled_back") => todo = <<>>
    OBVIOUS
  <1> HIDE DEF pc
  <1>11. /\ d1 \in Call /\ \A f \in Fields \ {"pc", "todo"} : d1[f] = c[f]
         /\ d1.pc = pc /\ d1.todo = todo
    BY Zenon, <1>1, <1>9, <1>10 DEF Call, Fields, Ends, Removing
  <1> HIDE DEF d1
  <1>12. Changes(p, {"pc", "todo"}) /\ calls'[p] = d1
    BY Zenon, <1>3, <1>11, Changing
  <1> QED
    BY <1>1, <1>2, <1>9, <1>10, <1>11, <1>12

-----------------------------------------------------------------------------
\* Every call keeps to its course.

\* Write(p) keeps to the course.
LEMMA WriteCourse ==
    ASSUME TypeOK, Courses, NEW p \in Procs, Write(p)
    PROVE  Course(calls[p])'
  <1> DEFINE c == calls[p]
             d == calls'[p]
  <1>1. /\ d.op = c.op /\ d.step = c.step /\ d.slot = c.slot /\ d.published = c.published
        /\ d.committed = c.committed
        /\ d.backed = c.backed /\ d.preserve = c.preserve /\ d.todo = c.todo
    BY WriteEffect DEF Changes, Fields
  <1>2. /\ Course(c) /\ c.op \in {"create", "update", "rollback"} /\ kind' = kind
    BY WriteEffect DEF outside, Courses, TypeOK, Call
  <1>3. /\ c.op = "rollback" => kind = "report" /\ c.committed
        /\ c.op = "update" => kind = "case"
        /\ c.backed => c.op = "update"
        /\ c.op # "rollback"
        /\ c.op = "update" => c.backed
        /\ ~c.committed
        /\ ~c.published
        /\ c.step = "move"
    BY <1>2, WriteEffect DEF Course, Undecided, Preparing, UpdateOnly, RollbackOnly, Removing
  <1> HIDE DEF c
  <1> QED
    BY <1>1, <1>2, <1>3, WriteEffect DEF c, Course, Undecided, Preparing, UpdateOnly,
       RollbackOnly

\* TakeClaim(p) keeps to the course.
LEMMA TakeClaimCourse ==
    ASSUME TypeOK, Courses, NEW p \in Procs, TakeClaim(p)
    PROVE  Course(calls[p])'
  <1> DEFINE c == calls[p]
             d == calls'[p]
  <1>1. /\ d.op = c.op /\ d.step = c.step /\ d.slot = c.slot /\ d.written = c.written
        /\ d.published = c.published
        /\ d.committed = c.committed /\ d.backed = c.backed /\ d.preserve = c.preserve
        /\ d.todo = c.todo
    BY TakeClaimEffect DEF Changes, Fields
  <1>2. /\ Course(c) /\ c.op \in {"create", "update", "rollback"} /\ kind' = kind
    BY TakeClaimEffect DEF outside, Courses, TypeOK, Call
  <1>3. /\ c.op = "rollback" => kind = "report" /\ c.committed
        /\ c.op = "update" => kind = "case"
        /\ c.backed => c.op = "update"
        /\ c.op # "rollback"
        /\ c.op = "create" => c.written
        /\ ~c.committed
        /\ ~c.published
        /\ c.step = "move"
    BY <1>2, TakeClaimEffect DEF Course, Undecided, Preparing, UpdateOnly, RollbackOnly,
       Removing
  <1> HIDE DEF c
  <1> QED
    BY <1>1, <1>2, <1>3, TakeClaimEffect DEF c, Course, Undecided, Preparing, UpdateOnly,
       RollbackOnly

\* Link(p) keeps to the course.
LEMMA LinkCourse ==
    ASSUME TypeOK, Courses, NEW p \in Procs, Link(p)
    PROVE  Course(calls[p])'
  <1> DEFINE c == calls[p]
             d == calls'[p]
  <1>1. /\ d.op = c.op /\ d.step = c.step /\ d.slot = c.slot /\ d.written = c.written
        /\ d.published = c.published
        /\ d.committed = c.committed /\ d.backed = c.backed /\ d.preserve = c.preserve
        /\ d.todo = c.todo
    BY LinkEffect DEF Changes, Fields
  <1>2. /\ Course(c) /\ c.op \in {"create", "update", "rollback"} /\ kind' = kind
    BY LinkEffect DEF outside, Courses, TypeOK, Call
  <1>3. /\ c.op = "rollback" => kind = "report" /\ c.committed
        /\ c.op = "update" => kind = "case"
        /\ c.backed => c.op = "update"
        /\ c.op = "create"
        /\ ~c.committed
        /\ c.written
        /\ c.step = "move"
    BY <1>2, LinkEffect DEF Course, Undecided, Preparing, UpdateOnly, RollbackOnly, Removing
  <1> HIDE DEF c
  <1> QED
    BY <1>1, <1>2, <1>3, LinkEffect DEF c, Course, Undecided, Preparing, UpdateOnly,
       RollbackOnly

\* Verify(p) keeps to the course.
LEMMA VerifyCourse ==
    ASSUME TypeOK, Courses, NEW p \in Procs, Verify(p)
    PROVE  Course(calls[p])'
  <1> DEFINE c == calls[p]
             d == calls'[p]
  <1>1. /\ d.op = c.op /\ d.step = c.step /\ d.slot = c.slot /\ d.written = c.written
        /\ d.published = c.published
        /\ d.backed = c.backed /\ d.preserve = c.preserve /\ d.todo = c.todo
    BY VerifyEffect DEF Changes, Fields
  <1>2. /\ Course(c) /\ c.op \in {"create", "update", "rollback"} /\ kind' = kind
    BY VerifyEffect DEF outside, Courses, TypeOK, Call
  <1>3. /\ c.op = "rollback" => kind = "report" /\ c.committed
        /\ c.op = "update" => kind = "case"
        /\ c.backed => c.op = "update"
        /\ c.op # "rollback"
        /\ c.op = "update" => c.backed
        /\ ~c.committed
        /\ c.step = "move"
    BY <1>2, VerifyEffect DEF Course, Undecided, Preparing, UpdateOnly, RollbackOnly, Removing
  <1> HIDE DEF c
  <1> QED
    BY <1>1, <1>2, <1>3, VerifyEffect DEF c, Course, Undecided, Preparing, UpdateOnly,
       RollbackOnly

\* Release(p) keeps to the course.
LEMMA ReleaseCourse ==
    ASSUME TypeOK, Courses, NEW p \in Procs, Release(p)
    PROVE  Course(calls[p])'
  <1> DEFINE c == calls[p]
             d == calls'[p]
  <1>1. /\ d.op = c.op /\ d.step = c.step /\ d.slot = c.slot /\ d.written = c.written
        /\ d.published = c.published
        /\ d.committed = c.committed /\ d.backed = c.backed /\ d.preserve = c.preserve
        /\ d.todo = c.todo
    BY ReleaseEffect DEF Changes, Fields
  <1>2. /\ Course(c) /\ c.op \in {"create", "update", "rollback"} /\ kind' = kind
    BY ReleaseEffect DEF outside, Courses, TypeOK, Call
  <1>3. /\ c.op = "rollback" => kind = "report" /\ c.committed
        /\ c.op = "update" => kind = "case"
        /\ c.backed => c.op = "update"
        /\ c.op # "rollback"
        /\ c.step = "move"
    BY <1>2, ReleaseEffect DEF Course, Undecided, Preparing, UpdateOnly, RollbackOnly, Removing
  <1> HIDE DEF c
  <1> QED
    BY <1>1, <1>2, <1>3, ReleaseEffect DEF c, Course, Undecided, Preparing, UpdateOnly,
       RollbackOnly

\* BeginCreate(p) keeps to the course.
LEMMA BeginCreateCourse ==
    ASSUME TypeOK, Courses, NEW p \in Procs, BeginCreate(p)
    PROVE  Course(calls[p])'
  <1> DEFINE c == calls[p]
             d == calls'[p]
  <1>1. /\ d.op = c.op /\ d.step = c.step /\ d.slot = c.slot /\ d.written = c.written
        /\ d.published = c.published
        /\ d.committed = c.committed /\ d.backed = c.backed /\ d.preserve = c.preserve
        /\ d.todo = c.todo
    BY BeginCreateEffect DEF Changes, Fields
  <1>2. /\ Course(c) /\ c.op \in {"create", "update", "rollback"} /\ kind' = kind
    BY BeginCreateEffect DEF outside, Courses, TypeOK, Call
  <1>3. /\ c.op = "rollback" => kind = "report" /\ c.committed
        /\ c.op = "update" => kind = "case"
        /\ c.backed => c.op = "update"
        /\ c.op = "create"
        /\ ~c.committed
        /\ ~c.published
        /\ c.step = "move"
    BY <1>2, BeginCreateEffect DEF Course, Undecided, Preparing, UpdateOnly, RollbackOnly,
       Removing
  <1> HIDE DEF c
  <1> QED
    BY <1>1, <1>2, <1>3, BeginCreateEffect DEF c, Course, Undecided, Preparing, UpdateOnly,
       RollbackOnly

\* BeginUpdate(p) keeps to the course.
LEMMA BeginUpdateCourse ==
    ASSUME TypeOK, Courses, NEW p \in Procs, BeginUpdate(p)
    PROVE  Course(calls[p])'
  <1> DEFINE c == calls[p]
             d == calls'[p]
  <1>1. /\ d.step = c.step /\ d.slot = c.slot /\ d.written = c.written
        /\ d.published = c.published /\ d.committed = c.committed
        /\ d.backed = c.backed /\ d.preserve = c.preserve /\ d.todo = c.todo
    BY BeginUpdateEffect DEF Changes, Fields
  <1>2. /\ Course(c) /\ c.op \in {"create", "update", "rollback"} /\ kind' = kind
    BY BeginUpdateEffect DEF outside, Courses, TypeOK, Call
  <1>3. /\ c.op = "rollback" => kind = "report" /\ c.committed
        /\ c.op = "update" => kind = "case"
        /\ c.backed => c.op = "update"
        /\ c.op = "create"
        /\ ~c.committed
        /\ ~c.published
        /\ c.step = "move"
        /\ ~c.backed
    BY <1>2, BeginUpdateEffect DEF Course, Undecided, Preparing, UpdateOnly, RollbackOnly,
       Removing
  <1> HIDE DEF c
  <1> QED
    BY <1>1, <1>2, <1>3, BeginUpdateEffect DEF c, Course, Undecided, Preparing, UpdateOnly,
       RollbackOnly

\* Read(p) keeps to the course.
LEMMA ReadCourse ==
    ASSUME TypeOK, Courses, NEW p \in Procs, Read(p)
    PROVE  Course(calls[p])'
  <1> DEFINE c == calls[p]
             d == calls'[p]
  <1>1. /\ d.op = c.op /\ d.step = c.step /\ d.slot = c.slot /\ d.written = c.written
        /\ d.published = c.published
        /\ d.committed = c.committed /\ d.backed = c.backed /\ d.preserve = c.preserve
        /\ d.todo = c.todo
    BY ReadEffect DEF Changes, Fields
  <1>2. /\ Course(c) /\ c.op \in {"create", "update", "rollback"} /\ kind' = kind
    BY ReadEffect DEF outside, Courses, TypeOK, Call
  <1>3. /\ c.op = "rollback" => kind = "report" /\ c.committed
        /\ c.op = "update" => kind = "case"
        /\ c.backed => c.op = "update"
        /\ c.op = "update"
        /\ ~c.committed
        /\ ~c.published
        /\ c.step = "move"
    BY <1>2, ReadEffect DEF Course, Undecided, Preparing, UpdateOnly, RollbackOnly, Removing
  <1> HIDE DEF c
  <1> QED
    BY <1>1, <1>2, <1>3, ReadEffect DEF c, Course, Undecided, Preparing, UpdateOnly,
       RollbackOnly

\* Open(p) keeps to the course.
LEMMA OpenCourse ==
    ASSUME TypeOK, Courses, NEW p \in Procs, Open(p)
    PROVE  Course(calls[p])'
  <1> DEFINE c == calls[p]
             d == calls'[p]
  <1>1. /\ d.op = c.op /\ d.step = c.step /\ d.slot = c.slot /\ d.written = c.written
        /\ d.published = c.published
        /\ d.committed = c.committed /\ d.backed = c.backed /\ d.preserve = c.preserve
        /\ d.todo = c.todo
    BY OpenEffect DEF Changes, Fields
  <1>2. /\ Course(c) /\ c.op \in {"create", "update", "rollback"} /\ kind' = kind
    BY OpenEffect DEF outside, Courses, TypeOK, Call
  <1>3. /\ c.op = "rollback" => kind = "report" /\ c.committed
        /\ c.op = "update" => kind = "case"
        /\ c.backed => c.op = "update"
        /\ c.op = "update"
        /\ ~c.committed
        /\ ~c.published
        /\ c.step = "move"
    BY <1>2, OpenEffect DEF Course, Undecided, Preparing, UpdateOnly, RollbackOnly, Removing
  <1> HIDE DEF c
  <1> QED
    BY <1>1, <1>2, <1>3, OpenEffect DEF c, Course, Undecided, Preparing, UpdateOnly,
       RollbackOnly

\* MakeBackup(p) keeps to the course.
LEMMA MakeBackupCourse ==
    ASSUME TypeOK, Courses, NEW p \in Procs, MakeBackup(p)
    PROVE  Course(calls[p])'
  <1> DEFINE c == calls[p]
             d == calls'[p]
  <1>1. /\ d.op = c.op /\ d.step = c.step /\ d.slot = c.slot /\ d.written = c.written
        /\ d.published = c.published
        /\ d.committed = c.committed /\ d.preserve = c.preserve /\ d.todo = c.todo
    BY MakeBackupEffect DEF Changes, Fields
  <1>2. /\ Course(c) /\ c.op \in {"create", "update", "rollback"} /\ kind' = kind
    BY MakeBackupEffect DEF outside, Courses, TypeOK, Call
  <1>3. /\ c.op = "rollback" => kind = "report" /\ c.committed
        /\ c.op = "update" => kind = "case"
        /\ c.backed => c.op = "update"
        /\ c.op = "update"
        /\ ~c.committed
        /\ ~c.published
        /\ c.step = "move"
    BY <1>2, MakeBackupEffect DEF Course, Undecided, Preparing, UpdateOnly, RollbackOnly,
       Removing
  <1> HIDE DEF c
  <1> QED
    BY <1>1, <1>2, <1>3, MakeBackupEffect DEF c, Course, Undecided, Preparing, UpdateOnly,
       RollbackOnly

\* Recheck(p) keeps to the course.
LEMMA RecheckCourse ==
    ASSUME TypeOK, Courses, NEW p \in Procs, Recheck(p)
    PROVE  Course(calls[p])'
  <1> DEFINE c == calls[p]
             d == calls'[p]
  <1>1. /\ d.op = c.op /\ d.step = c.step /\ d.slot = c.slot /\ d.written = c.written
        /\ d.published = c.published
        /\ d.committed = c.committed /\ d.backed = c.backed /\ d.todo = c.todo
    BY RecheckEffect DEF Changes, Fields
  <1>2. /\ Course(c) /\ c.op \in {"create", "update", "rollback"} /\ kind' = kind
    BY RecheckEffect DEF outside, Courses, TypeOK, Call
  <1>3. /\ c.op = "rollback" => kind = "report" /\ c.committed
        /\ c.op = "update" => kind = "case"
        /\ c.backed => c.op = "update"
        /\ c.op = "update"
        /\ c.backed
        /\ c.written
        /\ ~c.committed
        /\ ~c.published
        /\ c.step = "move"
    BY <1>2, RecheckEffect DEF Course, Undecided, Preparing, UpdateOnly, RollbackOnly, Removing
  <1> HIDE DEF c
  <1> QED
    BY <1>1, <1>2, <1>3, RecheckEffect DEF c, Course, Undecided, Preparing, UpdateOnly,
       RollbackOnly

\* Rename(p) keeps to the course.
LEMMA RenameCourse ==
    ASSUME TypeOK, Courses, NEW p \in Procs, Rename(p)
    PROVE  Course(calls[p])'
  <1> DEFINE c == calls[p]
             d == calls'[p]
  <1>1. /\ d.op = c.op /\ d.step = c.step /\ d.slot = c.slot /\ d.written = c.written
        /\ d.committed = c.committed
        /\ d.backed = c.backed /\ d.preserve = c.preserve /\ d.todo = c.todo
    BY RenameEffect DEF Changes, Fields
  <1>2. /\ Course(c) /\ c.op \in {"create", "update", "rollback"} /\ kind' = kind
    BY RenameEffect DEF outside, Courses, TypeOK, Call
  <1>3. /\ c.op = "rollback" => kind = "report" /\ c.committed
        /\ c.op = "update" => kind = "case"
        /\ c.backed => c.op = "update"
        /\ c.op = "update"
        /\ c.backed
        /\ c.written
        /\ ~c.committed
        /\ ~c.published
        /\ c.step = "move"
    BY <1>2, RenameEffect DEF Course, Undecided, Preparing, UpdateOnly, RollbackOnly, Removing
  <1> HIDE DEF c
  <1> QED
    BY <1>1, <1>2, <1>3, RenameEffect DEF c, Course, Undecided, Preparing, UpdateOnly,
       RollbackOnly

\* Handle(p) keeps to the course.
LEMMA HandleCourse ==
    ASSUME TypeOK, Courses, NEW p \in Procs, Handle(p)
    PROVE  Course(calls[p])'
  <1> DEFINE c == calls[p]
             d == calls'[p]
  <1>1. /\ d.op = c.op /\ d.step = c.step /\ d.slot = c.slot /\ d.written = c.written
        /\ d.published = c.published
        /\ d.committed = c.committed /\ d.backed = c.backed /\ d.todo = c.todo
    BY HandleEffect DEF Changes, Fields
  <1>2. /\ Course(c) /\ c.op \in {"create", "update", "rollback"} /\ kind' = kind
    BY HandleEffect DEF outside, Courses, TypeOK, Call
  <1>3. /\ c.op = "rollback" => kind = "report" /\ c.committed
        /\ c.op = "update" => kind = "case"
        /\ c.backed => c.op = "update"
        /\ c.op = "update"
        /\ ~c.committed
        /\ c.step = "move"
    BY <1>2, HandleEffect DEF Course, Undecided, Preparing, UpdateOnly, RollbackOnly, Removing
  <1> HIDE DEF c
  <1> QED
    BY <1>1, <1>2, <1>3, HandleEffect DEF c, Course, Undecided, Preparing, UpdateOnly,
       RollbackOnly

\* Restore(p) keeps to the course.
LEMMA RestoreCourse ==
    ASSUME TypeOK, Courses, NEW p \in Procs, Restore(p)
    PROVE  Course(calls[p])'
  <1> DEFINE c == calls[p]
             d == calls'[p]
  <1>1. /\ d.op = c.op /\ d.step = c.step /\ d.slot = c.slot /\ d.written = c.written
        /\ d.published = c.published
        /\ d.committed = c.committed /\ d.todo = c.todo
    BY RestoreEffect DEF Changes, Fields
  <1>2. /\ Course(c) /\ c.op \in {"create", "update", "rollback"} /\ kind' = kind
    BY RestoreEffect DEF outside, Courses, TypeOK, Call
  <1>3. /\ c.op = "rollback" => kind = "report" /\ c.committed
        /\ c.op = "update" => kind = "case"
        /\ c.backed => c.op = "update"
        /\ c.op = "update"
        /\ c.backed
        /\ ~c.committed
        /\ c.step = "move"
    BY <1>2, RestoreEffect DEF Course, Undecided, Preparing, UpdateOnly, RollbackOnly, Removing
  <1> HIDE DEF c
  <1> QED
    BY <1>1, <1>2, <1>3, RestoreEffect DEF c, Course, Undecided, Preparing, UpdateOnly,
       RollbackOnly

\* Keep(p) keeps to the course.
LEMMA KeepCourse ==
    ASSUME TypeOK, Courses, NEW p \in Procs, Keep(p)
    PROVE  Course(calls[p])'
  <1> DEFINE c == calls[p]
             d == calls'[p]
  <1>1. /\ d.op = c.op /\ d.step = c.step /\ d.slot = c.slot /\ d.written = c.written
        /\ d.published = c.published
        /\ d.committed = c.committed /\ d.backed = c.backed /\ d.preserve = c.preserve
        /\ d.todo = c.todo
    BY KeepEffect DEF Changes, Fields
  <1>2. /\ Course(c) /\ c.op \in {"create", "update", "rollback"} /\ kind' = kind
    BY KeepEffect DEF outside, Courses, TypeOK, Call
  <1>3. /\ c.op = "rollback" => kind = "report" /\ c.committed
        /\ c.op = "update" => kind = "case"
        /\ c.backed => c.op = "update"
        /\ c.op = "create"
        /\ c.step = "move"
    BY <1>2, KeepEffect DEF Course, Undecided, Preparing, UpdateOnly, RollbackOnly, Removing
  <1> HIDE DEF c
  <1> QED
    BY <1>1, <1>2, <1>3, KeepEffect DEF c, Course, Undecided, Preparing, UpdateOnly,
       RollbackOnly

\* SaveFails(p) keeps to the course.
LEMMA SaveFailsCourse ==
    ASSUME TypeOK, Courses, NEW p \in Procs, SaveFails(p)
    PROVE  Course(calls[p])'
  <1> DEFINE c == calls[p]
             d == calls'[p]
  <1>1. /\ d.step = c.step /\ d.slot = c.slot /\ d.written = c.written
        /\ d.published = c.published /\ d.committed = c.committed
        /\ d.backed = c.backed /\ d.preserve = c.preserve /\ d.todo = c.todo
    BY SaveFailsEffect DEF Changes, Fields
  <1>2. /\ Course(c) /\ c.op \in {"create", "update", "rollback"} /\ kind' = kind
    BY SaveFailsEffect DEF outside, Courses, TypeOK, Call
  <1>3. /\ c.op = "rollback" => kind = "report" /\ c.committed
        /\ c.op = "update" => kind = "case"
        /\ c.backed => c.op = "update"
        /\ c.op = "create"
        /\ kind = "report"
        /\ c.committed
        /\ c.step = "move"
        /\ ~c.backed
    BY <1>2, SaveFailsEffect DEF Course, Undecided, Preparing, UpdateOnly, RollbackOnly,
       Removing
  <1> HIDE DEF c
  <1> QED
    BY <1>1, <1>2, <1>3, SaveFailsEffect DEF c, Course, Undecided, Preparing, UpdateOnly,
       RollbackOnly

\* Crash(p) keeps to the course.
LEMMA CrashCourse ==
    ASSUME TypeOK, Courses, NEW p \in Procs, Crash(p)
    PROVE  Course(calls[p])'
  <1> DEFINE c == calls[p]
             d == calls'[p]
  <1>1. /\ d.op = c.op /\ d.step = c.step /\ d.slot = c.slot /\ d.written = c.written
        /\ d.published = c.published
        /\ d.committed = c.committed /\ d.backed = c.backed /\ d.preserve = c.preserve
        /\ d.todo = c.todo
    BY CrashEffect DEF Changes, Fields
  <1>2. /\ Course(c) /\ c.op \in {"create", "update", "rollback"} /\ kind' = kind
    BY CrashEffect DEF outside, Courses, TypeOK, Call
  <1>3. /\ c.op = "rollback" => kind = "report" /\ c.committed
        /\ c.op = "update" => kind = "case"
        /\ c.backed => c.op = "update"
        /\ c.step # "move" => c.slot \in Slots
    BY <1>2 DEF Course
  <1> HIDE DEF c
  <1> QED
    BY <1>1, <1>2, <1>3, CrashEffect DEF c, Course, Undecided, Preparing, UpdateOnly,
       RollbackOnly

\* Check(p) keeps to the course.
LEMMA CheckCourse ==
    ASSUME TypeOK, Courses, NEW p \in Procs, Check(p)
    PROVE  Course(calls[p])'
  <1> DEFINE c == calls[p]
             d == calls'[p]
  <1>1. /\ d.op = c.op /\ d.step = c.step /\ d.slot = c.slot /\ d.written = c.written
        /\ d.published = c.published
        /\ d.committed = c.committed /\ d.backed = c.backed /\ d.preserve = c.preserve
    BY CheckEffect DEF Changes, Fields
  <1>2. /\ Course(c) /\ c.op \in {"create", "update", "rollback"} /\ kind' = kind
    BY CheckEffect DEF outside, Courses, TypeOK, Call
  <1>3. /\ c.op = "rollback" => kind = "report" /\ c.committed
        /\ c.op = "update" => kind = "case"
        /\ c.backed => c.op = "update"
        /\ c.op = "rollback"
        /\ c.step = "move"
    BY <1>2, CheckEffect DEF Course, Undecided, Preparing, UpdateOnly, RollbackOnly, Removing
  <1> HIDE DEF c
  <1> QED
    BY <1>1, <1>2, <1>3, CheckEffect DEF c, Course, Undecided, Preparing, UpdateOnly,
       RollbackOnly

\* The end of a removal keeps to it too, and so does what leads there.
LEMMA EndedCourse ==
    ASSUME TypeOK, Courses, NEW p \in Procs, NEW result, Changes(p, RemovalFields),
           kind' = kind, calls[p].pc \in Removing,
           EndsRemoval(calls[p], calls'[p], result)
    PROVE  Course(calls[p])'
  <1> DEFINE c == calls[p]
             d == calls'[p]
  <1>1. /\ d.op = c.op /\ d.written = c.written /\ d.published = c.published
        /\ d.committed = c.committed /\ d.backed = c.backed
    BY DEF Changes, Fields, RemovalFields
  <1>2. Course(c) /\ c \in Call
    BY DEF Courses, TypeOK
  <1>3. /\ c.op \in {"create", "update", "rollback"}
        /\ c.op = "rollback" => kind = "report" /\ c.committed /\ c.pc = "remove"
        /\ c.op = "update" => kind = "case"
        /\ c.backed => c.op = "update"
        /\ c.pc \in {"undo", "unbackup"} => c.op = "update" /\ c.backed
        /\ c.pc = "unpublish" => c.op = "create"
        /\ c.pc = "remove" => c.op = "rollback" /\ c.todo # <<>>
        /\ c.pc \in {"undo", "unpublish"} => ~c.committed
        /\ c.todo \in Seq(Names)
    BY <1>2 DEF Course, Call, Undecided, Preparing, UpdateOnly, RollbackOnly, Removing
  <1>4. Len(c.todo) > 1 => Tail(c.todo) # <<>>
    BY <1>3, Tails
  <1> HIDE DEF c, d
  <1>5. CASE c.pc \in {"unpublish", "unbackup"}
    <2>1. d.pc \in {"untemp", "release"} /\ d.step = "move"
      BY <1>5 DEF EndsRemoval, c, d
    <2> QED
      BY <1>1, <1>3, <1>5, <2>1 DEF c, d, Course, Undecided, Preparing, UpdateOnly, RollbackOnly
  <1>6. CASE c.pc = "untemp"
    <2>1. /\ d.pc \in {"unbackup", "release"} /\ d.step = "move" /\ d.preserve = c.preserve
          /\ d.pc = "unbackup" => c.backed /\ ~c.preserve
      BY <1>6 DEF EndsRemoval, c, d
    <2> QED
      BY <1>1, <1>3, <1>6, <2>1 DEF c, d, Course, Undecided, Preparing, UpdateOnly, RollbackOnly
  <1>7. CASE c.pc = "undo"
    <2>1. d.pc \in {"restore", "untemp"} /\ d.step = "move"
      BY <1>7 DEF EndsRemoval, c, d
    <2> QED
      BY <1>1, <1>3, <1>7, <2>1 DEF c, d, Course, Undecided, Preparing, UpdateOnly, RollbackOnly
  <1>8. CASE c.pc = "remove"
    <2>1. /\ d.pc \in {"remove", "rolled_back", "rollback_failed"} /\ d.step = "move"
          /\ d.pc = "remove" => d.todo # <<>>
      BY Zenon, <1>4, <1>8 DEF EndsRemoval, c, d
    <2> QED
      BY <1>1, <1>3, <1>8, <2>1 DEF c, d, Course, Undecided, Preparing, UpdateOnly, RollbackOnly
  <1> QED
    BY <1>5, <1>6, <1>7, <1>8 DEF c, Removing

\* A removal that goes on keeps to the course.
LEMMA HeldCourse ==
    ASSUME TypeOK, Courses, NEW p \in Procs, Changes(p, RemovalFields),
           kind' = kind, calls[p].pc \in Removing, calls'[p].pc = calls[p].pc,
           calls'[p].slot \in Slots, calls'[p].preserve = calls[p].preserve,
           calls'[p].todo = calls[p].todo
    PROVE  Course(calls[p])'
  <1> DEFINE c == calls[p]
             d == calls'[p]
  <1>1. /\ d.op = c.op /\ d.written = c.written /\ d.published = c.published
        /\ d.committed = c.committed /\ d.backed = c.backed
        /\ Course(c) /\ c \in Call
    BY DEF Changes, Fields, RemovalFields, Courses, TypeOK
  <1> HIDE DEF c, d
  <1> QED
    BY <1>1 DEF c, d, Course

\* Move(p) keeps to the course.
LEMMA MoveCourse ==
    ASSUME TypeOK, Courses, NEW p \in Procs, Move(p)
    PROVE  Course(calls[p])'
  <1>1. Course(calls[p])
    BY DEF Courses
  <1>2. /\ calls[p].pc = "remove" => calls[p].todo # <<>>
        /\ calls[p].step # "move" => calls[p].slot \in Slots
    BY <1>1 DEF Course
  <1> QED
    BY <1>2, MoveEffect, EndedCourse, HeldCourse DEF outside

\* Judge(p) keeps to the course.
LEMMA JudgeCourse ==
    ASSUME TypeOK, Courses, NEW p \in Procs, Judge(p)
    PROVE  Course(calls[p])'
  <1>1. Course(calls[p])
    BY DEF Courses
  <1>2. /\ calls[p].pc = "remove" => calls[p].todo # <<>>
        /\ calls[p].step # "move" => calls[p].slot \in Slots
    BY <1>1 DEF Course
  <1> QED
    BY <1>2, JudgeEffect, EndedCourse, HeldCourse DEF outside

\* Relink(p) keeps to the course.
LEMMA RelinkCourse ==
    ASSUME TypeOK, Courses, NEW p \in Procs, Relink(p)
    PROVE  Course(calls[p])'
  <1>1. Course(calls[p])
    BY DEF Courses
  <1>2. /\ calls[p].pc = "remove" => calls[p].todo # <<>>
        /\ calls[p].step # "move" => calls[p].slot \in Slots
    BY <1>1 DEF Course
  <1> QED
    BY <1>2, RelinkEffect, EndedCourse, HeldCourse DEF outside

\* Drop(p) keeps to the course.
LEMMA DropCourse ==
    ASSUME TypeOK, Courses, NEW p \in Procs, Drop(p)
    PROVE  Course(calls[p])'
  <1>1. Course(calls[p])
    BY DEF Courses
  <1>2. /\ calls[p].pc = "remove" => calls[p].todo # <<>>
        /\ calls[p].step # "move" => calls[p].slot \in Slots
    BY <1>1 DEF Course
  <1> QED
    BY <1>2, DropEffect, EndedCourse DEF outside

\* A step of one call leaves the others where they are.
LEMMA OneCall ==
    ASSUME Basics, NEW p \in Procs, NEW S, Changes(p, S), Counted, UNCHANGED outside,
           Course(calls[p])', dir' \in [Names -> Files \union {NoFile}],
           \/ claim' = claim
           \/ claim = NoFile /\ claim' = p
           \/ claim = p /\ claim' = NoFile,
           Claiming(p)' => claim' = p
    PROVE  Basics'
  <1>1. TypeOK'
    BY DEF Basics, TypeOK, Changes, Counted, outside
  <1>2. Courses'
    <2>1. ASSUME NEW q \in Procs PROVE Course(calls[q])'
      <3>1. CASE q = p
        BY <3>1
      <3>2. CASE q # p
        BY <3>2 DEF Basics, TypeOK, Course, Courses, Changes, outside
      <3> QED
        BY <3>1, <3>2
    <2> QED
      BY <2>1 DEF Courses
  <1>3. OneAtATime'
    <2>1. ASSUME NEW q \in Procs, q # p, Claiming(q)' PROVE claim' = q
      <3>1. Claiming(q)
        BY <2>1 DEF Claiming, Changes
      <3> QED
        BY <2>1, <3>1, FilesAssumption DEF Basics, OneAtATime
    <2> QED
      BY <2>1 DEF OneAtATime
  <1> QED
    BY <1>1, <1>2, <1>3 DEF Basics

\* A removal that ends works under its claim no more than before.
LEMMA EndedClaim ==
    ASSUME TypeOK, Courses, NEW p \in Procs, NEW result, Changes(p, RemovalFields),
           calls[p].pc \in Removing, EndsRemoval(calls[p], calls'[p], result), Claiming(p)'
    PROVE  Claiming(p)
  <1> DEFINE c == calls[p]
             d == calls'[p]
  <1>1. Course(c) /\ c \in Call /\ d.op = c.op
    BY DEF Changes, Fields, RemovalFields, Courses, TypeOK
  <1>2. /\ c.backed => c.op = "update"
        /\ c.pc = "unpublish" => c.op = "create"
        /\ c.pc = "remove" => c.op = "rollback"
    BY <1>1 DEF Course, RollbackOnly
  <1>3. /\ d.op = "update" \/ d.pc \in UpdateOnly \union {"link", "verify", "unpublish"}
        /\ d.pc \in UpdateOnly \union {"link", "verify", "unpublish", "write", "untemp", "release"}
    BY DEF Claiming
  <1> HIDE DEF c, d
  <1>4. CASE c.pc = "unpublish"
    BY <1>1, <1>2, <1>3, <1>4 DEF c, d, EndsRemoval, UpdateOnly
  <1>5. CASE c.pc = "untemp"
    BY <1>1, <1>2, <1>3, <1>5 DEF c, d, EndsRemoval, UpdateOnly, Claiming
  <1>6. CASE c.pc \in {"undo", "unbackup"}
    BY <1>6 DEF c, Claiming, UpdateOnly
  <1>7. CASE c.pc = "remove"
    BY <1>1, <1>2, <1>3, <1>7 DEF c, d, EndsRemoval, UpdateOnly
  <1> QED
    BY <1>4, <1>5, <1>6, <1>7 DEF c, Removing

\* Calls keep their types, their course and their claims.
LEMMA BasicsStep ==
    ASSUME Basics, [Next]_vars
    PROVE  Basics'
  <1>0. TypeOK /\ Courses /\ OneAtATime
    BY DEF Basics
  <1>1. ASSUME NEW p \in Procs, Write(p) PROVE Basics'
    <2>1. Course(calls[p]) /\ Course(calls[p])'
      BY <1>0, <1>1, WriteCourse DEF Courses
    <2>2. /\ calls[p].pc = "remove" => calls[p].todo # <<>>
          /\ calls[p].step # "move" => calls[p].slot \in Slots
          /\ calls[p] \in Call
      BY <1>0, <2>1 DEF Course, TypeOK
    <2>3. dir' \in [Names -> Files \union {NoFile}]
      BY <1>0, <1>1, <2>2, WriteEffect, NamesDiffer DEF TypeOK, Files
    <2>4. Claiming(p)' => claim' = p
      BY <1>0, <1>1, <2>1, <2>2, WriteEffect DEF OneAtATime, Claiming, UpdateOnly, Changes,
         Fields, Course, RollbackOnly
    <2> QED
      BY <1>0, <1>1, <2>1, <2>2, <2>3, <2>4, WriteEffect, OneCall
  <1>2. ASSUME NEW p \in Procs, TakeClaim(p) PROVE Basics'
    <2>1. Course(calls[p]) /\ Course(calls[p])'
      BY <1>0, <1>2, TakeClaimCourse DEF Courses
    <2>2. /\ calls[p].pc = "remove" => calls[p].todo # <<>>
          /\ calls[p].step # "move" => calls[p].slot \in Slots
          /\ calls[p] \in Call
      BY <1>0, <2>1 DEF Course, TypeOK
    <2>3. dir' \in [Names -> Files \union {NoFile}]
      BY <1>0, <1>2, <2>2, TakeClaimEffect, NamesDiffer DEF TypeOK, Files
    <2>4. Claiming(p)' => claim' = p
      BY <1>0, <1>2, <2>1, <2>2, TakeClaimEffect DEF OneAtATime, Claiming, UpdateOnly, Changes,
         Fields
    <2> QED
      BY <1>0, <1>2, <2>1, <2>2, <2>3, <2>4, TakeClaimEffect, OneCall
  <1>3. ASSUME NEW p \in Procs, Link(p) PROVE Basics'
    <2>1. Course(calls[p]) /\ Course(calls[p])'
      BY <1>0, <1>3, LinkCourse DEF Courses
    <2>2. /\ calls[p].pc = "remove" => calls[p].todo # <<>>
          /\ calls[p].step # "move" => calls[p].slot \in Slots
          /\ calls[p] \in Call
      BY <1>0, <2>1 DEF Course, TypeOK
    <2>3. dir' \in [Names -> Files \union {NoFile}]
      BY <1>0, <1>3, <2>2, LinkEffect, NamesDiffer DEF TypeOK, Files
    <2>4. Claiming(p)' => claim' = p
      BY <1>0, <1>3, <2>1, <2>2, LinkEffect DEF OneAtATime, Claiming, UpdateOnly, Changes,
         Fields
    <2> QED
      BY <1>0, <1>3, <2>1, <2>2, <2>3, <2>4, LinkEffect, OneCall
  <1>4. ASSUME NEW p \in Procs, Verify(p) PROVE Basics'
    <2>1. Course(calls[p]) /\ Course(calls[p])'
      BY <1>0, <1>4, VerifyCourse DEF Courses
    <2>2. /\ calls[p].pc = "remove" => calls[p].todo # <<>>
          /\ calls[p].step # "move" => calls[p].slot \in Slots
          /\ calls[p] \in Call
      BY <1>0, <2>1 DEF Course, TypeOK
    <2>3. dir' \in [Names -> Files \union {NoFile}]
      BY <1>0, <1>4, <2>2, VerifyEffect, NamesDiffer DEF TypeOK, Files
    <2>4. Claiming(p)' => claim' = p
      BY <1>0, <1>4, <2>1, <2>2, VerifyEffect DEF OneAtATime, Claiming, UpdateOnly, Changes,
         Fields
    <2> QED
      BY <1>0, <1>4, <2>1, <2>2, <2>3, <2>4, VerifyEffect, OneCall
  <1>5. ASSUME NEW p \in Procs, Release(p) PROVE Basics'
    <2>1. Course(calls[p]) /\ Course(calls[p])'
      BY <1>0, <1>5, ReleaseCourse DEF Courses
    <2>2. /\ calls[p].pc = "remove" => calls[p].todo # <<>>
          /\ calls[p].step # "move" => calls[p].slot \in Slots
          /\ calls[p] \in Call
      BY <1>0, <2>1 DEF Course, TypeOK
    <2>3. dir' \in [Names -> Files \union {NoFile}]
      BY <1>0, <1>5, <2>2, ReleaseEffect, NamesDiffer DEF TypeOK, Files
    <2>4. Claiming(p)' => claim' = p
      BY <1>0, <1>5, <2>1, <2>2, ReleaseEffect DEF OneAtATime, Claiming, UpdateOnly, Changes,
         Fields
    <2> QED
      BY <1>0, <1>5, <2>1, <2>2, <2>3, <2>4, ReleaseEffect, OneCall
  <1>6. ASSUME NEW p \in Procs, BeginCreate(p) PROVE Basics'
    <2>1. Course(calls[p]) /\ Course(calls[p])'
      BY <1>0, <1>6, BeginCreateCourse DEF Courses
    <2>2. /\ calls[p].pc = "remove" => calls[p].todo # <<>>
          /\ calls[p].step # "move" => calls[p].slot \in Slots
          /\ calls[p] \in Call
      BY <1>0, <2>1 DEF Course, TypeOK
    <2>3. dir' \in [Names -> Files \union {NoFile}]
      BY <1>0, <1>6, <2>2, BeginCreateEffect, NamesDiffer DEF TypeOK, Files
    <2>4. Claiming(p)' => claim' = p
      BY <1>0, <1>6, <2>1, <2>2, BeginCreateEffect DEF OneAtATime, Claiming, UpdateOnly,
         Changes, Fields, Course, RollbackOnly
    <2> QED
      BY <1>0, <1>6, <2>1, <2>2, <2>3, <2>4, BeginCreateEffect, OneCall
  <1>7. ASSUME NEW p \in Procs, BeginUpdate(p) PROVE Basics'
    <2>1. Course(calls[p]) /\ Course(calls[p])'
      BY <1>0, <1>7, BeginUpdateCourse DEF Courses
    <2>2. /\ calls[p].pc = "remove" => calls[p].todo # <<>>
          /\ calls[p].step # "move" => calls[p].slot \in Slots
          /\ calls[p] \in Call
      BY <1>0, <2>1 DEF Course, TypeOK
    <2>3. dir' \in [Names -> Files \union {NoFile}]
      BY <1>0, <1>7, <2>2, BeginUpdateEffect, NamesDiffer DEF TypeOK, Files
    <2>4. Claiming(p)' => claim' = p
      BY <1>0, <1>7, <2>1, <2>2, BeginUpdateEffect DEF OneAtATime, Claiming, UpdateOnly,
         Changes, Fields
    <2> QED
      BY <1>0, <1>7, <2>1, <2>2, <2>3, <2>4, BeginUpdateEffect, OneCall
  <1>8. ASSUME NEW p \in Procs, Read(p) PROVE Basics'
    <2>1. Course(calls[p]) /\ Course(calls[p])'
      BY <1>0, <1>8, ReadCourse DEF Courses
    <2>2. /\ calls[p].pc = "remove" => calls[p].todo # <<>>
          /\ calls[p].step # "move" => calls[p].slot \in Slots
          /\ calls[p] \in Call
      BY <1>0, <2>1 DEF Course, TypeOK
    <2>3. dir' \in [Names -> Files \union {NoFile}]
      BY <1>0, <1>8, <2>2, ReadEffect, NamesDiffer DEF TypeOK, Files
    <2>4. Claiming(p)' => claim' = p
      BY <1>0, <1>8, <2>1, <2>2, ReadEffect DEF OneAtATime, Claiming, UpdateOnly, Changes,
         Fields
    <2> QED
      BY <1>0, <1>8, <2>1, <2>2, <2>3, <2>4, ReadEffect, OneCall
  <1>9. ASSUME NEW p \in Procs, Open(p) PROVE Basics'
    <2>1. Course(calls[p]) /\ Course(calls[p])'
      BY <1>0, <1>9, OpenCourse DEF Courses
    <2>2. /\ calls[p].pc = "remove" => calls[p].todo # <<>>
          /\ calls[p].step # "move" => calls[p].slot \in Slots
          /\ calls[p] \in Call
      BY <1>0, <2>1 DEF Course, TypeOK
    <2>3. dir' \in [Names -> Files \union {NoFile}]
      BY <1>0, <1>9, <2>2, OpenEffect, NamesDiffer DEF TypeOK, Files
    <2>4. Claiming(p)' => claim' = p
      BY <1>0, <1>9, <2>1, <2>2, OpenEffect DEF OneAtATime, Claiming, UpdateOnly, Changes,
         Fields
    <2> QED
      BY <1>0, <1>9, <2>1, <2>2, <2>3, <2>4, OpenEffect, OneCall
  <1>10. ASSUME NEW p \in Procs, MakeBackup(p) PROVE Basics'
    <2>1. Course(calls[p]) /\ Course(calls[p])'
      BY <1>0, <1>10, MakeBackupCourse DEF Courses
    <2>2. /\ calls[p].pc = "remove" => calls[p].todo # <<>>
          /\ calls[p].step # "move" => calls[p].slot \in Slots
          /\ calls[p] \in Call
      BY <1>0, <2>1 DEF Course, TypeOK
    <2>3. dir' \in [Names -> Files \union {NoFile}]
      BY <1>0, <1>10, <2>2, MakeBackupEffect, NamesDiffer DEF TypeOK, Files
    <2>4. Claiming(p)' => claim' = p
      BY <1>0, <1>10, <2>1, <2>2, MakeBackupEffect DEF OneAtATime, Claiming, UpdateOnly,
         Changes, Fields
    <2> QED
      BY <1>0, <1>10, <2>1, <2>2, <2>3, <2>4, MakeBackupEffect, OneCall
  <1>11. ASSUME NEW p \in Procs, Recheck(p) PROVE Basics'
    <2>1. Course(calls[p]) /\ Course(calls[p])'
      BY <1>0, <1>11, RecheckCourse DEF Courses
    <2>2. /\ calls[p].pc = "remove" => calls[p].todo # <<>>
          /\ calls[p].step # "move" => calls[p].slot \in Slots
          /\ calls[p] \in Call
      BY <1>0, <2>1 DEF Course, TypeOK
    <2>3. dir' \in [Names -> Files \union {NoFile}]
      BY <1>0, <1>11, <2>2, RecheckEffect, NamesDiffer DEF TypeOK, Files
    <2>4. Claiming(p)' => claim' = p
      BY <1>0, <1>11, <2>1, <2>2, RecheckEffect DEF OneAtATime, Claiming, UpdateOnly, Changes,
         Fields
    <2> QED
      BY <1>0, <1>11, <2>1, <2>2, <2>3, <2>4, RecheckEffect, OneCall
  <1>12. ASSUME NEW p \in Procs, Rename(p) PROVE Basics'
    <2>1. Course(calls[p]) /\ Course(calls[p])'
      BY <1>0, <1>12, RenameCourse DEF Courses
    <2>2. /\ calls[p].pc = "remove" => calls[p].todo # <<>>
          /\ calls[p].step # "move" => calls[p].slot \in Slots
          /\ calls[p] \in Call
      BY <1>0, <2>1 DEF Course, TypeOK
    <2>3. dir' \in [Names -> Files \union {NoFile}]
      BY <1>0, <1>12, <2>2, RenameEffect, NamesDiffer DEF TypeOK, Files
    <2>4. Claiming(p)' => claim' = p
      BY <1>0, <1>12, <2>1, <2>2, RenameEffect DEF OneAtATime, Claiming, UpdateOnly, Changes,
         Fields
    <2> QED
      BY <1>0, <1>12, <2>1, <2>2, <2>3, <2>4, RenameEffect, OneCall
  <1>13. ASSUME NEW p \in Procs, Handle(p) PROVE Basics'
    <2>1. Course(calls[p]) /\ Course(calls[p])'
      BY <1>0, <1>13, HandleCourse DEF Courses
    <2>2. /\ calls[p].pc = "remove" => calls[p].todo # <<>>
          /\ calls[p].step # "move" => calls[p].slot \in Slots
          /\ calls[p] \in Call
      BY <1>0, <2>1 DEF Course, TypeOK
    <2>3. dir' \in [Names -> Files \union {NoFile}]
      BY <1>0, <1>13, <2>2, HandleEffect, NamesDiffer DEF TypeOK, Files
    <2>4. Claiming(p)' => claim' = p
      BY <1>0, <1>13, <2>1, <2>2, HandleEffect DEF OneAtATime, Claiming, UpdateOnly, Changes,
         Fields
    <2> QED
      BY <1>0, <1>13, <2>1, <2>2, <2>3, <2>4, HandleEffect, OneCall
  <1>14. ASSUME NEW p \in Procs, Restore(p) PROVE Basics'
    <2>1. Course(calls[p]) /\ Course(calls[p])'
      BY <1>0, <1>14, RestoreCourse DEF Courses
    <2>2. /\ calls[p].pc = "remove" => calls[p].todo # <<>>
          /\ calls[p].step # "move" => calls[p].slot \in Slots
          /\ calls[p] \in Call
      BY <1>0, <2>1 DEF Course, TypeOK
    <2>3. dir' \in [Names -> Files \union {NoFile}]
      BY <1>0, <1>14, <2>2, RestoreEffect, NamesDiffer DEF TypeOK, Files
    <2>4. Claiming(p)' => claim' = p
      BY <1>0, <1>14, <2>1, <2>2, RestoreEffect DEF OneAtATime, Claiming, UpdateOnly, Changes,
         Fields
    <2> QED
      BY <1>0, <1>14, <2>1, <2>2, <2>3, <2>4, RestoreEffect, OneCall
  <1>15. ASSUME NEW p \in Procs, Keep(p) PROVE Basics'
    <2>1. Course(calls[p]) /\ Course(calls[p])'
      BY <1>0, <1>15, KeepCourse DEF Courses
    <2>2. /\ calls[p].pc = "remove" => calls[p].todo # <<>>
          /\ calls[p].step # "move" => calls[p].slot \in Slots
          /\ calls[p] \in Call
      BY <1>0, <2>1 DEF Course, TypeOK
    <2>3. dir' \in [Names -> Files \union {NoFile}]
      BY <1>0, <1>15, <2>2, KeepEffect, NamesDiffer DEF TypeOK, Files
    <2>4. Claiming(p)' => claim' = p
      BY <1>0, <1>15, <2>1, <2>2, KeepEffect DEF OneAtATime, Claiming, UpdateOnly, Changes,
         Fields
    <2> QED
      BY <1>0, <1>15, <2>1, <2>2, <2>3, <2>4, KeepEffect, OneCall
  <1>16. ASSUME NEW p \in Procs, SaveFails(p) PROVE Basics'
    <2>1. Course(calls[p]) /\ Course(calls[p])'
      BY <1>0, <1>16, SaveFailsCourse DEF Courses
    <2>2. /\ calls[p].pc = "remove" => calls[p].todo # <<>>
          /\ calls[p].step # "move" => calls[p].slot \in Slots
          /\ calls[p] \in Call
      BY <1>0, <2>1 DEF Course, TypeOK
    <2>3. dir' \in [Names -> Files \union {NoFile}]
      BY <1>0, <1>16, <2>2, SaveFailsEffect, NamesDiffer DEF TypeOK, Files
    <2>4. Claiming(p)' => claim' = p
      BY <1>0, <1>16, <2>1, <2>2, SaveFailsEffect DEF OneAtATime, Claiming, UpdateOnly, Changes,
         Fields
    <2> QED
      BY <1>0, <1>16, <2>1, <2>2, <2>3, <2>4, SaveFailsEffect, OneCall
  <1>17. ASSUME NEW p \in Procs, Check(p) PROVE Basics'
    <2>1. Course(calls[p]) /\ Course(calls[p])'
      BY <1>0, <1>17, CheckCourse DEF Courses
    <2>2. /\ calls[p].pc = "remove" => calls[p].todo # <<>>
          /\ calls[p].step # "move" => calls[p].slot \in Slots
          /\ calls[p] \in Call
      BY <1>0, <2>1 DEF Course, TypeOK
    <2>3. dir' \in [Names -> Files \union {NoFile}]
      BY <1>0, <1>17, <2>2, CheckEffect, NamesDiffer DEF TypeOK, Files
    <2>4. Claiming(p)' => claim' = p
      BY <1>0, <1>17, <2>1, <2>2, CheckEffect DEF OneAtATime, Claiming, UpdateOnly, Changes,
         Fields
    <2> QED
      BY <1>0, <1>17, <2>1, <2>2, <2>3, <2>4, CheckEffect, OneCall
  <1>18. ASSUME NEW p \in Procs, Crash(p) PROVE Basics'
    <2>1. Course(calls[p]) /\ Course(calls[p])'
      BY <1>0, <1>18, CrashCourse DEF Courses
    <2>2. /\ calls[p].pc = "remove" => calls[p].todo # <<>>
          /\ calls[p].step # "move" => calls[p].slot \in Slots
          /\ calls[p] \in Call
      BY <1>0, <2>1 DEF Course, TypeOK
    <2>3. dir' \in [Names -> Files \union {NoFile}]
      BY <1>0, <1>18, <2>2, CrashEffect, NamesDiffer DEF TypeOK, Files
    <2>4. Claiming(p)' => claim' = p
      BY <1>0, <1>18, <2>1, <2>2, CrashEffect DEF OneAtATime, Claiming, UpdateOnly, Changes,
         Fields, Ends
    <2> QED
      BY <1>0, <1>18, <2>1, <2>2, <2>3, <2>4, CrashEffect, OneCall
  <1>19. ASSUME NEW p \in Procs, Move(p) PROVE Basics'
    <2>1. Course(calls[p]) /\ Course(calls[p])'
      BY <1>0, <1>19, MoveCourse DEF Courses
    <2>2. /\ calls[p].pc = "remove" => calls[p].todo # <<>>
          /\ calls[p].step # "move" => calls[p].slot \in Slots
          /\ calls[p] \in Call
      BY <1>0, <2>1 DEF Course, TypeOK
    <2>3. dir' \in [Names -> Files \union {NoFile}]
      BY <1>0, <1>19, <2>2, MoveEffect, NamesDiffer DEF TypeOK, Files
    <2>4. Claiming(p)' => claim' = p
      BY <1>0, <1>19, <2>1, <2>2, MoveEffect, EndedClaim DEF OneAtATime, Claiming, Changes,
         Fields, RemovalFields
    <2> QED
      BY <1>0, <1>19, <2>1, <2>2, <2>3, <2>4, MoveEffect, OneCall
  <1>20. ASSUME NEW p \in Procs, Judge(p) PROVE Basics'
    <2>1. Course(calls[p]) /\ Course(calls[p])'
      BY <1>0, <1>20, JudgeCourse DEF Courses
    <2>2. /\ calls[p].pc = "remove" => calls[p].todo # <<>>
          /\ calls[p].step # "move" => calls[p].slot \in Slots
          /\ calls[p] \in Call
      BY <1>0, <2>1 DEF Course, TypeOK
    <2>3. dir' \in [Names -> Files \union {NoFile}]
      BY <1>0, <1>20, <2>2, JudgeEffect, NamesDiffer DEF TypeOK, Files
    <2>4. Claiming(p)' => claim' = p
      BY <1>0, <1>20, <2>1, <2>2, JudgeEffect, EndedClaim DEF OneAtATime, Claiming, Changes,
         Fields, RemovalFields
    <2> QED
      BY <1>0, <1>20, <2>1, <2>2, <2>3, <2>4, JudgeEffect, OneCall
  <1>21. ASSUME NEW p \in Procs, Relink(p) PROVE Basics'
    <2>1. Course(calls[p]) /\ Course(calls[p])'
      BY <1>0, <1>21, RelinkCourse DEF Courses
    <2>2. /\ calls[p].pc = "remove" => calls[p].todo # <<>>
          /\ calls[p].step # "move" => calls[p].slot \in Slots
          /\ calls[p] \in Call
      BY <1>0, <2>1 DEF Course, TypeOK
    <2>3. dir' \in [Names -> Files \union {NoFile}]
      BY <1>0, <1>21, <2>2, RelinkEffect, NamesDiffer DEF TypeOK, Files
    <2>4. Claiming(p)' => claim' = p
      BY <1>0, <1>21, <2>1, <2>2, RelinkEffect, EndedClaim DEF OneAtATime, Claiming, Changes,
         Fields, RemovalFields
    <2> QED
      BY <1>0, <1>21, <2>1, <2>2, <2>3, <2>4, RelinkEffect, OneCall
  <1>22. ASSUME NEW p \in Procs, Drop(p) PROVE Basics'
    <2>1. Course(calls[p]) /\ Course(calls[p])'
      BY <1>0, <1>22, DropCourse DEF Courses
    <2>2. /\ calls[p].pc = "remove" => calls[p].todo # <<>>
          /\ calls[p].step # "move" => calls[p].slot \in Slots
          /\ calls[p] \in Call
      BY <1>0, <2>1 DEF Course, TypeOK
    <2>3. dir' \in [Names -> Files \union {NoFile}]
      BY <1>0, <1>22, <2>2, DropEffect, NamesDiffer DEF TypeOK, Files
    <2>4. Claiming(p)' => claim' = p
      BY Zenon, <1>0, <1>22, <2>1, <2>2, DropEffect, EndedClaim DEF OneAtATime, Claiming, Changes,
         Fields, RemovalFields
    <2> QED
      BY <1>0, <1>22, <2>1, <2>2, <2>3, <2>4, DropEffect, OneCall
  <1>23. ASSUME SomeoneEdits PROVE Basics'
    <2>1. TypeOK'
      BY <1>0, <1>23, Counting, NamesDiffer DEF SomeoneEdits, TypeOK, Counted, Files, Call
    <2>2. kind' = kind /\ calls' = calls /\ claim' = claim
      BY <1>23 DEF SomeoneEdits
    <2>3. Courses' /\ OneAtATime'
      BY <1>0, <2>2 DEF Courses, Course, OneAtATime, Claiming
    <2> QED
      BY <2>1, <2>3 DEF Basics
  <1>24. CASE UNCHANGED vars
    BY <1>0, <1>24 DEF vars, Basics, TypeOK, Courses, Course, OneAtATime, Claiming
  <1> QED
    BY <1>1, <1>2, <1>3, <1>4, <1>5, <1>6, <1>7, <1>8, <1>9, <1>10, <1>11, <1>12, <1>13, <1>14,
       <1>15, <1>16, <1>17, <1>18, <1>19, <1>20, <1>21, <1>22, <1>23, <1>24 DEF Next, Continue

-----------------------------------------------------------------------------
\* Which names a call works on.

\* A call that has moved a file aside, the name it has there, and the names a
\* rollback has yet to remove.
Busy(p) == calls[p].pc \in Removing /\ calls[p].step # "move"
Current(p) == Aside(p, calls[p].slot)
InTodo(p, n) == calls[p].pc = "remove" /\ Lists(calls[p].todo, n)

\* A removal of a private name, or of one that was checked to be its own.
OwnRemoval(p) ==
    /\ Busy(p)
    /\ calls[p].pc = "untemp" \/ (calls[p].pc = "remove" /\ Removed(p) # Target)

\* Quarantine names are made up in order, and the one in use is in no list.
FreshNames ==
    /\ \A p \in Procs, i \in Slots : dir[Aside(p, i)] # NoFile => i <= calls[p].slot
    /\ \A p, r \in Procs, i \in Slots : InTodo(r, Aside(p, i)) => i <= calls[p].slot
    /\ \A p \in Procs : Busy(p) => ~InTodo(p, Current(p))
    /\ \A p, r \in Procs : OwnRemoval(p) => ~InTodo(r, Current(p))

\* Only the first name a rollback removes can be the target.
TodoShape ==
    \A r \in Procs : calls[r].pc = "remove" => \A k \in DOMAIN calls[r].todo :
      \/ calls[r].todo[k] = Target /\ k = 1
      \/ calls[r].todo[k] = Temp(r)
      \/ \E q \in Procs, i \in Slots : calls[r].todo[k] = Aside(q, i)

TempOwn == \A p \in Procs : dir[Temp(p)] \in {p, NoFile}

\* Nothing but its temporary leads to a file that is not published yet.
Unpublished ==
    \A p \in Procs : calls[p].pc \in Preparing => \A n \in Names : dir[n] = p => n = Temp(p)

NoBackups == kind = "report" => \A p \in Procs : dir[Backup(p)] = NoFile

\* What a rollback has yet to remove is its own or gone, and nobody else's.
TodoOwn ==
    /\ \A r \in Procs, n \in Names : InTodo(r, n) /\ n # Target => dir[n] \in {r, NoFile}
    /\ \A r, s \in Procs, n \in Names : InTodo(r, n) /\ InTodo(s, n) /\ n # Target => r = s

\* So are the files that such a removal moved aside.
AsideOwn ==
    \A p \in Procs : OwnRemoval(p) =>
      /\ dir[Current(p)] \in {p, NoFile}
      /\ calls[p].step # "drop" => dir[Removed(p)] = NoFile

\* A replacement is never undone without a backup.
HandlesBacked ==
    \A p \in Procs : calls[p].pc = "handle" /\ (calls[p].published \/ dir[Target] = p)
                       => calls[p].backed

NamesInv ==
    /\ FreshNames /\ TodoShape /\ TempOwn /\ Unpublished /\ NoBackups
    /\ TodoOwn /\ AsideOwn /\ HandlesBacked

\* The calls of others are where they were.
LEMMA Others ==
    ASSUME NEW p \in Procs, NEW S, Changes(p, S), NEW q \in Procs, q # p
    PROVE  /\ calls'[q] = calls[q] /\ Busy(q)' = Busy(q) /\ Current(q)' = Current(q)
           /\ Removed(q)' = Removed(q) /\ OwnRemoval(q)' = OwnRemoval(q)
           /\ \A n : InTodo(q, n)' = InTodo(q, n)
  <1>1. calls'[q] = calls[q]
    BY DEF Changes
  <1>2. Removed(q)' = Removed(q)
    BY <1>1 DEF Removed
  <1>3. Busy(q)' = Busy(q) /\ Current(q)' = Current(q) /\ \A n : InTodo(q, n)' = InTodo(q, n)
    BY <1>1 DEF Busy, Current, InTodo
  <1> QED
    BY <1>1, <1>2, <1>3 DEF OwnRemoval

\* Which name each kind of removal is of.
LEMMA RemovedIs ==
    ASSUME Basics, TodoShape, NEW p \in Procs, calls[p].pc \in Removing
    PROVE  /\ Removed(p) \in Names
           /\ calls[p].pc \in {"unpublish", "undo"} => Removed(p) = Target
           /\ calls[p].pc = "untemp" => Removed(p) = Temp(p)
           /\ calls[p].pc = "unbackup" => Removed(p) = Backup(p) /\ kind = "case"
           /\ calls[p].pc \in {"unpublish", "undo"} => claim = p
           /\ calls[p].pc = "remove" =>
                /\ InTodo(p, Removed(p)) /\ kind = "report" /\ Removed(p) = calls[p].todo[1]
                /\ \/ Removed(p) = Target
                   \/ Removed(p) = Temp(p)
                   \/ \E q \in Procs, i \in Slots : Removed(p) = Aside(q, i)
  <1>1. Course(calls[p]) /\ TypeOK /\ calls[p] \in Call /\ (Claiming(p) => claim = p)
    BY DEF Basics, Courses, OneAtATime, TypeOK
  <1>2. /\ calls[p].pc = "remove" => calls[p].todo # <<>> /\ kind = "report"
        /\ calls[p].pc = "unbackup" => kind = "case"
    BY <1>1 DEF Course, RollbackOnly, UpdateOnly
  <1>3. Removed(p) \in Names
    BY <1>1, <1>2, RemovedTyped
  <1>4. CASE calls[p].pc = "remove"
    <2>1. Removed(p) = calls[p].todo[1] /\ 1 \in DOMAIN calls[p].todo
      BY <1>1, <1>2, <1>4, Tails, LenProperties DEF Removed, Call
    <2> QED
      BY <1>2, <1>3, <1>4, <2>1 DEF InTodo, Lists, TodoShape
  <1>5. CASE calls[p].pc # "remove"
    BY Zenon, <1>1, <1>2, <1>3, <1>5 DEF Removed, Claiming, UpdateOnly
  <1> QED
    BY <1>4, <1>5

\* A rollback takes the name it dealt with off its list, and adds none.
LEMMA EndedTodo ==
    ASSUME Basics, NEW p \in Procs, NEW result, Changes(p, RemovalFields), calls[p].pc \in Removing,
           EndsRemoval(calls[p], calls'[p], result)
    PROVE  /\ ~Busy(p)'
           /\ calls'[p].pc \notin Preparing /\ calls'[p].pc # "handle"
           /\ \A n : InTodo(p, n)' => InTodo(p, n)
           /\ calls'[p].pc = "remove" =>
                /\ calls[p].pc = "remove"
                /\ \A k \in DOMAIN calls'[p].todo :
                     k + 1 \in DOMAIN calls[p].todo /\ k + 1 # 1 /\ calls'[p].todo[k] = calls[p].todo[k + 1]
  <1> DEFINE c == calls[p]
             d == calls'[p]
  <1>1. /\ c \in Call /\ d \in Call /\ (c.pc = "remove" => c.todo # <<>>)
    BY DEF Basics, TypeOK, Courses, Course, Changes
  <1>2. ~Busy(p)'
    BY DEF Busy, EndsRemoval
  <1>3. d.pc \notin Preparing /\ d.pc # "handle" /\ (d.pc = "remove" => c.pc = "remove")
    BY DEF EndsRemoval, Removing, Preparing
  <1>4. d.pc = "remove" => \A k \in DOMAIN d.todo :
          k + 1 \in DOMAIN c.todo /\ k + 1 # 1 /\ d.todo[k] = c.todo[k + 1]
    <2>1. ASSUME d.pc = "remove" PROVE d.todo = Tail(c.todo) /\ c.todo \in Seq(Names) /\ c.todo # <<>>
      BY <1>1, <1>3, <2>1 DEF EndsRemoval, Call
    <2> HIDE DEF c, d
    <2> QED
      BY Zenon, <2>1, Tails
  <1>5. \A n : InTodo(p, n)' => InTodo(p, n)
    BY <1>3, <1>4 DEF InTodo, Lists
  <1> QED
    BY <1>2, <1>3, <1>4, <1>5

\* While a removal goes on, its name and the list stay.
LEMMA HeldTodo ==
    ASSUME NEW p \in Procs, calls'[p].pc = calls[p].pc, calls'[p].todo = calls[p].todo
    PROVE  Removed(p)' = Removed(p) /\ \A n : InTodo(p, n)' = InTodo(p, n)
  BY DEF Removed, InTodo

\* Steps that are no part of a removal.
Calm(p) ==
    /\ ~Busy(p)' /\ calls'[p].pc # "remove" /\ calls'[p].slot = calls[p].slot
    /\ calls'[p].pc \in Preparing => calls[p].pc \in Preparing
    /\ calls'[p].pc = "handle" =>
         calls'[p].backed \/ (~calls'[p].published /\ dir'[Target] # p)
    /\ kind' = kind

\* Steps that are no part of a removal take up no name.
LEMMA CalmTodo ==
    ASSUME NEW p \in Procs, NEW S, Changes(p, S), Calm(p)
    PROVE  /\ \A q \in Procs : calls'[q].slot = calls[q].slot
           /\ \A q \in Procs : \A n : InTodo(q, n)' => InTodo(q, n) /\ q # p
           /\ \A q \in Procs : Busy(q)' => Busy(q) /\ q # p /\ Current(q)' = Current(q)
           /\ \A q \in Procs : OwnRemoval(q)' =>
                /\ OwnRemoval(q) /\ q # p /\ Current(q)' = Current(q)
                /\ Removed(q)' = Removed(q) /\ calls'[q] = calls[q]
  <1>1. ASSUME NEW q \in Procs, q # p
        PROVE  /\ calls'[q] = calls[q] /\ Busy(q)' = Busy(q) /\ Current(q)' = Current(q)
               /\ Removed(q)' = Removed(q) /\ OwnRemoval(q)' = OwnRemoval(q)
               /\ \A n : InTodo(q, n)' = InTodo(q, n)
    BY <1>1, Others
  <1>2. calls'[p].slot = calls[p].slot /\ ~Busy(p)' /\ ~OwnRemoval(p)' /\ \A n : ~InTodo(p, n)'
    BY DEF Calm, OwnRemoval, InTodo
  <1> QED
    BY <1>1, <1>2

\* The directory steps of calls that remove nothing.
LEMMA CalmNames ==
    ASSUME Basics, Basics', NamesInv, NEW p \in Procs, NEW S, Changes(p, S), Calm(p),
           \/ dir' = dir
           \/ dir' = [dir EXCEPT ![Temp(p)] = p]
           \/ dir' = [dir EXCEPT ![Target] = p] /\ calls'[p].pc \notin Preparing
           \/ dir' = [dir EXCEPT ![Backup(p)] = dir[Target]] /\ kind = "case"
           \/ /\ dir' = [dir EXCEPT ![Target] = p, ![Temp(p)] = NoFile]
              /\ calls'[p].pc \notin Preparing
           \/ /\ dir' = [dir EXCEPT ![Target] = dir[Backup(p)], ![Backup(p)] = NoFile]
              /\ claim = p
    PROVE  NamesInv'
  <1>1. /\ dir \in [Names -> Files \union {NoFile}]
        /\ dir' \in [Names -> Files \union {NoFile}]
    BY DEF Basics, TypeOK
  <1>2. \A q \in Procs, i \in Slots : dir'[Aside(q, i)] = dir[Aside(q, i)]
    BY <1>1, NamesDiffer
  <1>3. FreshNames'
    BY <1>2, CalmTodo DEF FreshNames, NamesInv
  <1>4. TodoShape'
    BY DEF TodoShape, NamesInv, Calm, Changes
  <1>5. TempOwn'
    BY <1>1, NamesDiffer DEF TempOwn, NamesInv
  <1>6. Unpublished'
    <2>1. ASSUME NEW q \in Procs, calls'[q].pc \in Preparing, NEW n \in Names, dir'[n] = q
          PROVE  n = Temp(q)
      <3>1. calls[q].pc \in Preparing
        BY <2>1 DEF Calm, Changes
      <3>2. \A m \in Names : dir[m] = q => m = Temp(q)
        BY <3>1 DEF NamesInv, Unpublished
      <3>3. NoFile \notin Procs
        BY FilesAssumption
      <3> QED
        BY <1>1, <2>1, <3>2, <3>3, NamesDiffer
    <2> QED
      BY <2>1 DEF Unpublished
  <1>7. NoBackups'
    BY <1>1, NamesDiffer DEF NoBackups, NamesInv, Calm
  <1>8. TodoOwn'
    <2>1. ASSUME NEW r \in Procs, NEW n \in Names, InTodo(r, n)', n # Target
          PROVE  dir'[n] \in {r, NoFile}
      <3>1. InTodo(r, n) /\ r # p /\ dir[n] \in {r, NoFile}
        BY <2>1, CalmTodo DEF NamesInv, TodoOwn
      <3>2. n = Temp(r) \/ \E q \in Procs, i \in Slots : n = Aside(q, i)
        BY <2>1, <3>1 DEF InTodo, Lists, NamesInv, TodoShape
      <3> QED
        BY <1>1, <2>1, <3>1, <3>2, NamesDiffer
    <2> QED
      BY <2>1, CalmTodo DEF NamesInv, TodoOwn
  <1>9. AsideOwn'
    <2>1. ASSUME NEW q \in Procs, OwnRemoval(q)'
          PROVE  /\ dir'[Current(q)'] \in {q, NoFile}
                 /\ calls'[q].step # "drop" => dir'[Removed(q)'] = NoFile
      <3>1. /\ OwnRemoval(q) /\ q # p /\ Current(q)' = Current(q)
            /\ Removed(q)' = Removed(q) /\ calls'[q] = calls[q]
        BY <2>1, CalmTodo
      <3>2. /\ dir[Current(q)] \in {q, NoFile}
            /\ calls[q].step # "drop" => dir[Removed(q)] = NoFile
        BY <3>1 DEF NamesInv, AsideOwn
      <3>3. calls[q].slot \in Slots
        BY <3>1 DEF OwnRemoval, Busy, Basics, Courses, Course
      <3>4. Removed(q) = Temp(q) \/ \E r \in Procs, i \in Slots : Removed(q) = Aside(r, i)
        <4>1. /\ calls[q].pc \in Removing
              /\ calls[q].pc = "untemp" \/ (calls[q].pc = "remove" /\ Removed(q) # Target)
          BY <3>1 DEF OwnRemoval, Busy
        <4> QED
          BY <4>1, RemovedIs DEF NamesInv
      <3> QED
        BY <1>1, <3>1, <3>2, <3>3, <3>4, NamesDiffer DEF Current
    <2> QED
      BY <2>1 DEF AsideOwn
  <1>10. HandlesBacked'
    <2>1. ASSUME NEW q \in Procs, q # p, calls'[q].pc = "handle", calls'[q].published \/ dir'[Target] = q
          PROVE  calls'[q].backed
      <3>1. calls'[q] = calls[q]
        BY <2>1 DEF Changes
      <3>2. claim = q
        BY <2>1, <3>1 DEF Basics, OneAtATime, Claiming, UpdateOnly
      <3>3. dir'[Target] = q => dir[Target] = q
        BY <1>1, <2>1, <3>2, NamesDiffer
      <3> QED
        BY <2>1, <3>1, <3>3 DEF NamesInv, HandlesBacked
    <2>2. calls'[p].pc = "handle" /\ (calls'[p].published \/ dir'[Target] = p) => calls'[p].backed
      BY DEF Calm
    <2> QED
      BY <2>1, <2>2 DEF HandlesBacked
  <1> QED
    BY <1>3, <1>4, <1>5, <1>6, <1>7, <1>8, <1>9, <1>10 DEF NamesInv

\* What a removal step does to the directory and to the call, by its stages.
Moves(p) ==
    LET n == Removed(p) IN
    /\ calls[p].step = "move" /\ ~Busy(p)
    /\ dir[n] # NoFile
    /\ calls'[p].slot = calls[p].slot + 1 /\ calls'[p].slot \in Slots
    /\ dir' = [dir EXCEPT ![n] = NoFile, ![Aside(p, calls[p].slot + 1)] = dir[n]]

Relinks(p) ==
    /\ Busy(p) /\ calls[p].step = "relink"
    /\ calls'[p].slot = calls[p].slot
    /\ dir[Current(p)] # NoFile /\ dir[Removed(p)] = NoFile
    /\ dir' = [dir EXCEPT ![Removed(p)] = dir[Current(p)]]

Erases(p) ==
    /\ calls'[p].slot \in {calls[p].slot, calls[p].slot + 1}
    /\ \A m \in Names : dir'[m] \in {dir[m], NoFile}

\* The call stays at the name, or is done with it.
Stays(p) ==
    /\ calls'[p].pc = calls[p].pc /\ calls'[p].todo = calls[p].todo
    /\ calls'[p].step # "move" /\ calls'[p].slot \in Slots
Leaves(p) ==
    /\ ~Busy(p)'
    /\ calls'[p].pc \notin Preparing /\ calls'[p].pc # "handle"
    /\ \A n : InTodo(p, n)' => InTodo(p, n)
    /\ calls'[p].pc = "remove" =>
         /\ calls[p].pc = "remove"
         /\ \A k \in DOMAIN calls'[p].todo :
              k + 1 \in DOMAIN calls[p].todo /\ k + 1 # 1 /\ calls'[p].todo[k] = calls[p].todo[k + 1]

\* The steps of a removal, by what they do to the directory.
LEMMA RemovalKinds ==
    ASSUME Basics, NEW p \in Procs, Move(p) \/ Judge(p) \/ Relink(p) \/ Drop(p)
    PROVE  /\ Changes(p, RemovalFields) /\ calls[p].pc \in Removing /\ kind' = kind /\ claim' = claim
           /\ edited' = edited /\ taken' = taken
           /\ \/ Moves(p) /\ Stays(p) /\ calls'[p].step = "judge"
              \/ Moves(p) /\ Leaves(p)
              \/ Relinks(p) /\ Stays(p) /\ calls'[p].step = "drop"
              \/ Erases(p) /\ Leaves(p)
              \/ Erases(p) /\ Stays(p) /\ Busy(p) /\ calls'[p].slot = calls[p].slot
                 /\ calls'[p].step = "relink" /\ calls[p].step = "judge"
  <1>1. /\ TypeOK /\ Course(calls[p]) /\ dir \in [Names -> Files \union {NoFile}]
        /\ calls[p].pc = "remove" => calls[p].todo # <<>>
        /\ calls[p].step # "move" => calls[p].slot \in Slots
    BY DEF Basics, TypeOK, Courses, Course
  <1>2. \A result : Changes(p, RemovalFields) /\ calls[p].pc \in Removing
                      /\ EndsRemoval(calls[p], calls'[p], result) => Leaves(p)
    BY EndedTodo DEF Leaves
  <1>3. CASE Move(p)
    <2>1. Removed(p) \in Names /\ calls[p].pc \in Removing
      BY <1>1, <1>3, MoveEffect
    <2>2. Aside(p, calls[p].slot + 1) \in Names \/ calls[p].slot + 1 \notin Slots
      BY NamesDiffer
    <2> QED
      BY <1>1, <1>2, <1>3, <2>1, <2>2, MoveEffect DEF Moves, Erases, Stays, Busy, outside
  <1>4. CASE Judge(p)
    <2>1. Busy(p)
      BY <1>1, <1>4, JudgeEffect DEF Busy
    <2>2. \A m \in Names : [dir EXCEPT ![Aside(p, calls[p].slot)] = NoFile][m] \in {dir[m], NoFile}
      BY <1>1
    <2> QED
      BY <1>1, <1>2, <1>4, <2>1, <2>2, JudgeEffect DEF Erases, Stays, outside
  <1>5. CASE Relink(p)
    <2>1. Busy(p) /\ calls[p].slot \in Slots
      BY <1>1, <1>5, RelinkEffect DEF Busy
    <2> QED
      BY <1>1, <1>2, <1>5, <2>1, RelinkEffect DEF Relinks, Erases, Stays, Current, outside
  <1>6. CASE Drop(p)
    <2>1. \A m \in Names : [dir EXCEPT ![Aside(p, calls[p].slot)] = NoFile][m] \in {dir[m], NoFile}
      BY <1>1
    <2> QED
      BY <1>1, <1>2, <1>6, <2>1, DropEffect DEF Erases, outside
  <1> QED
    BY <1>3, <1>4, <1>5, <1>6

\* Steps of a removal put nothing on the list of a rollback.
LEMMA RemovalTodo ==
    ASSUME Basics, NEW p \in Procs, Changes(p, RemovalFields), Stays(p) \/ Leaves(p)
    PROVE  /\ \A q \in Procs : \A n : InTodo(q, n)' => InTodo(q, n)
           /\ \A q \in Procs : calls[q].slot \in Nat /\ (q # p => calls'[q].slot = calls[q].slot)
           /\ \A q \in Procs : q # p =>
                /\ Busy(q)' = Busy(q) /\ Current(q)' = Current(q)
                /\ OwnRemoval(q)' = OwnRemoval(q) /\ Removed(q)' = Removed(q)
           /\ Stays(p) => /\ Removed(p)' = Removed(p) /\ \A n : InTodo(p, n)' = InTodo(p, n)
                          /\ calls[p].pc \in Removing => Busy(p)'
           /\ Leaves(p) => ~Busy(p)'
  <1>1. ASSUME NEW q \in Procs, q # p
        PROVE  /\ calls'[q] = calls[q] /\ Busy(q)' = Busy(q) /\ Current(q)' = Current(q)
               /\ Removed(q)' = Removed(q) /\ OwnRemoval(q)' = OwnRemoval(q)
               /\ \A n : InTodo(q, n)' = InTodo(q, n)
    BY <1>1, Others
  <1>2. Stays(p) => /\ Removed(p)' = Removed(p) /\ \A n : InTodo(p, n)' = InTodo(p, n)
                    /\ calls[p].pc \in Removing => Busy(p)'
    BY HeldTodo DEF Stays, Busy
  <1>3. Leaves(p) => /\ ~Busy(p)' /\ \A n : InTodo(p, n)' => InTodo(p, n)
    BY DEF Leaves
  <1>4. \A q \in Procs : calls[q].slot \in Nat
    BY FilesAssumption DEF Basics, TypeOK, Call, Slots
  <1> QED
    BY <1>1, <1>2, <1>3, <1>4

\* The list of a rollback keeps its shape while names are removed.
LEMMA RemovalTodoShape ==
    ASSUME Basics, TodoShape, NEW p \in Procs, Changes(p, RemovalFields), Stays(p) \/ Leaves(p)
    PROVE  TodoShape'
  <1>1. ASSUME NEW r \in Procs, r # p, calls'[r].pc = "remove", NEW k \in DOMAIN calls'[r].todo
        PROVE  \/ calls'[r].todo[k] = Target /\ k = 1
               \/ calls'[r].todo[k] = Temp(r)
               \/ \E q \in Procs, i \in Slots : calls'[r].todo[k] = Aside(q, i)
    BY <1>1 DEF TodoShape, Changes
  <1>2. ASSUME calls'[p].pc = "remove", NEW k \in DOMAIN calls'[p].todo
        PROVE  \/ calls'[p].todo[k] = Target /\ k = 1
               \/ calls'[p].todo[k] = Temp(p)
               \/ \E q \in Procs, i \in Slots : calls'[p].todo[k] = Aside(q, i)
    <2>1. CASE Stays(p)
      BY <1>2, <2>1 DEF TodoShape, Stays
    <2>2. CASE Leaves(p)
      BY <1>2, <2>2 DEF TodoShape, Leaves
    <2> QED
      BY <2>1, <2>2
  <1> QED
    BY <1>1, <1>2 DEF TodoShape

\* Moving a file aside.
LEMMA MovesNames ==
    ASSUME Basics, Basics', NamesInv, NEW p \in Procs, Changes(p, RemovalFields),
           calls[p].pc \in Removing, kind' = kind,
           Moves(p), Stays(p) \/ Leaves(p)
    PROVE  NamesInv'
  <1> DEFINE n == Removed(p)
             s == calls[p].slot + 1
             a == Aside(p, s)
  <1>1. /\ dir \in [Names -> Files \union {NoFile}]
        /\ dir' \in [Names -> Files \union {NoFile}] /\ TodoShape
    BY DEF Basics, TypeOK, NamesInv
  <1>2. /\ n \in Names
        /\ calls[p].pc \in {"unpublish", "undo"} => n = Target
        /\ calls[p].pc = "untemp" => n = Temp(p)
        /\ calls[p].pc = "unbackup" => n = Backup(p)
        /\ calls[p].pc = "remove" =>
             /\ InTodo(p, n)
             /\ n = Target \/ n = Temp(p) \/ \E q \in Procs, i \in Slots : n = Aside(q, i)
    BY <1>1, RemovedIs
  <1>3. /\ calls'[p].slot = s /\ s \in Slots /\ dir[n] # NoFile
        /\ dir' = [dir EXCEPT ![n] = NoFile, ![a] = dir[n]]
        /\ calls[p].slot \in Nat /\ s > calls[p].slot
    BY RemovalTodo DEF Moves
  <1>4. a \in Names /\ a # Target /\ \A q \in Procs : a # Temp(q) /\ a # Backup(q)
    BY <1>3, NamesDiffer
  <1>5. \A q \in Procs, i \in Slots : a = Aside(q, i) => q = p /\ i = s
    BY <1>3, NamesDiffer
  <1>6. \A r \in Procs : ~InTodo(r, a)
    BY <1>3 DEF NamesInv, FreshNames
  <1> HIDE DEF n, a, s
  <1>7. n # a
    BY <1>2, <1>4, <1>6, RemovedIs, <1>1 DEF Removing
  <1>8. \A m \in Names : m # a => dir'[m] \in {dir[m], NoFile}
    BY <1>1, <1>2, <1>3, <1>4
  <1>9. dir'[a] = dir[n] /\ dir'[n] = NoFile
    BY <1>1, <1>2, <1>3, <1>4, <1>7
  <1>10. FreshNames'
    <2>1. ASSUME NEW q \in Procs, NEW i \in Slots, dir'[Aside(q, i)] # NoFile
          PROVE  i <= calls'[q].slot
      <3>1. CASE Aside(q, i) = a
        BY <1>3, <1>5, <3>1, FilesAssumption DEF Slots
      <3>2. CASE Aside(q, i) # a
        <4>1. i <= calls[q].slot /\ i \in Nat
          BY <1>8, <2>1, <3>2, NamesDiffer, FilesAssumption DEF NamesInv, FreshNames, Slots
        <4> QED
          BY <1>3, <4>1, RemovalTodo, FilesAssumption DEF Slots
      <3> QED
        BY <3>1, <3>2
    <2>2. ASSUME NEW q \in Procs, NEW r \in Procs, NEW i \in Slots, InTodo(r, Aside(q, i))'
          PROVE  i <= calls'[q].slot
      <3>1. i <= calls[q].slot /\ i \in Nat
        BY <2>2, RemovalTodo, FilesAssumption DEF NamesInv, FreshNames, Slots
      <3> QED
        BY <1>3, <3>1, RemovalTodo, FilesAssumption DEF Slots
    <2>3. Current(p)' = a
      BY <1>3 DEF Current, a
    <2>4. ASSUME NEW q \in Procs, NEW r \in Procs, OwnRemoval(q)' PROVE ~InTodo(r, Current(q))'
      BY <1>6, <2>3, <2>4, RemovalTodo DEF NamesInv, FreshNames
    <2>5. ASSUME NEW q \in Procs, Busy(q)' PROVE ~InTodo(q, Current(q))'
      BY <1>6, <2>3, <2>5, RemovalTodo DEF NamesInv, FreshNames
    <2> QED
      BY <2>1, <2>2, <2>4, <2>5 DEF FreshNames
  <1>11. TodoShape'
    BY <1>1, RemovalTodoShape
  <1>12. TempOwn'
    BY <1>4, <1>8, NamesDiffer DEF TempOwn, NamesInv
  <1>13. Unpublished'
    <2>1. ASSUME NEW q \in Procs, calls'[q].pc \in Preparing, NEW m \in Names, dir'[m] = q
          PROVE  m = Temp(q)
      <3>1. q # p /\ calls[q].pc \in Preparing
        BY <2>1 DEF Changes, Stays, Leaves, Removing, Preparing
      <3>2. \A k \in Names : dir[k] = q => k = Temp(q)
        BY <3>1 DEF NamesInv, Unpublished
      <3>3. n # Temp(q)
        BY <1>2, <3>1, NamesDiffer DEF Removing
      <3>4. m # a
        BY <1>2, <1>9, <2>1, <3>2, <3>3
      <3> QED
        BY <1>8, <2>1, <3>2, <3>4, FilesAssumption
    <2> QED
      BY <2>1 DEF Unpublished
  <1>14. NoBackups'
    BY <1>4, <1>8, NamesDiffer DEF NoBackups, NamesInv
  <1>15. TodoOwn'
    BY <1>6, <1>8, RemovalTodo DEF TodoOwn, NamesInv
  <1>16. AsideOwn'
    <2>1. ASSUME OwnRemoval(p)'
          PROVE  dir'[Current(p)'] \in {p, NoFile} /\ dir'[Removed(p)'] = NoFile
      <3>1. Stays(p) /\ Removed(p)' = n /\ Current(p)' = a
        BY <1>3, <2>1, RemovalTodo DEF OwnRemoval, Current, n, a
      <3>2. calls[p].pc = "untemp" \/ (calls[p].pc = "remove" /\ n # Target)
        BY <2>1, <3>1 DEF OwnRemoval, Stays
      <3>3. dir[n] \in {p, NoFile}
        BY <1>2, <3>2 DEF NamesInv, TempOwn, TodoOwn
      <3> QED
        BY <1>9, <3>1, <3>3
    <2>2. ASSUME NEW q \in Procs, q # p, OwnRemoval(q)'
          PROVE  /\ dir'[Current(q)'] \in {q, NoFile}
                 /\ calls'[q].step # "drop" => dir'[Removed(q)'] = NoFile
      <3>1. /\ OwnRemoval(q) /\ Current(q)' = Current(q)
            /\ Removed(q)' = Removed(q) /\ calls'[q] = calls[q]
        BY <2>2, RemovalTodo DEF Changes
      <3>2. /\ dir[Current(q)] \in {q, NoFile}
            /\ calls[q].step # "drop" => dir[Removed(q)] = NoFile
        BY <3>1 DEF NamesInv, AsideOwn
      <3>3. calls[q].slot \in Slots
        BY <3>1 DEF OwnRemoval, Busy, Basics, Courses, Course
      <3>4. Current(q) \in Names /\ Current(q) # a
        BY <1>5, <2>2, <3>3, NamesDiffer DEF Current
      <3>5. Removed(q) \in Names /\ Removed(q) # a
        BY <1>1, <1>4, <1>6, <3>1, RemovedIs DEF OwnRemoval, Busy
      <3> QED
        BY <1>8, <3>1, <3>2, <3>4, <3>5
    <2> QED
      BY <2>1, <2>2 DEF AsideOwn
  <1>17. HandlesBacked'
    <2>1. \A q \in Procs : calls'[q].pc = "handle" => q # p /\ calls'[q] = calls[q]
      BY DEF Changes, Stays, Leaves, Removing
    <2>2. \A q \in Procs : dir'[Target] = q => dir[Target] = q
      BY <1>4, <1>8, NamesDiffer, FilesAssumption
    <2> QED
      BY <2>1, <2>2 DEF NamesInv, HandlesBacked
  <1> QED
    BY <1>10, <1>11, <1>12, <1>13, <1>14, <1>15, <1>16, <1>17 DEF NamesInv

\* Removing a file, or nothing.
LEMMA ErasesNames ==
    ASSUME Basics, Basics', NamesInv, NEW p \in Procs, Changes(p, RemovalFields),
           calls[p].pc \in Removing, kind' = kind, Erases(p),
           Leaves(p) \/ (Stays(p) /\ Busy(p) /\ calls'[p].slot = calls[p].slot
                          /\ calls[p].step # "drop")
    PROVE  NamesInv'
  <1>1. /\ TodoShape /\ \A m \in Names : dir'[m] \in {dir[m], NoFile}
        /\ calls'[p].slot \in {calls[p].slot, calls[p].slot + 1}
    BY DEF Erases, NamesInv
  <1>2. \A q \in Procs : /\ calls[q].slot \in Nat /\ calls'[q].slot \in Nat
                         /\ calls[q].slot <= calls'[q].slot
    BY <1>1, RemovalTodo
  <1>3. ASSUME NEW q \in Procs, Busy(q)'
        PROVE  /\ Busy(q) /\ Current(q)' = Current(q) /\ Removed(q)' = Removed(q)
               /\ OwnRemoval(q)' => OwnRemoval(q)
               /\ calls[q].step = "drop" => calls'[q].step = "drop"
    <2>1. CASE q # p
      BY <1>3, <2>1, RemovalTodo DEF Changes
    <2>2. CASE q = p
      <3>1. /\ Stays(p) /\ Removed(p)' = Removed(p)
            /\ Busy(p) /\ calls'[p].slot = calls[p].slot /\ calls[p].step # "drop"
        BY <1>3, <2>2, RemovalTodo
      <3>2. Current(p)' = Current(p) /\ (OwnRemoval(p)' => OwnRemoval(p))
        BY <3>1 DEF Stays, OwnRemoval, Current
      <3> QED
        BY <2>2, <3>1, <3>2
    <2> QED
      BY <2>1, <2>2
  <1>4. FreshNames'
    <2>1. ASSUME NEW q \in Procs, NEW i \in Slots, dir'[Aside(q, i)] # NoFile
          PROVE  i <= calls'[q].slot
      <3>1. i <= calls[q].slot /\ i \in Nat
        BY <1>1, <2>1, NamesDiffer, FilesAssumption DEF NamesInv, FreshNames, Slots
      <3> QED
        BY <1>2, <3>1
    <2>2. ASSUME NEW q \in Procs, NEW r \in Procs, NEW i \in Slots, InTodo(r, Aside(q, i))'
          PROVE  i <= calls'[q].slot
      <3>1. i <= calls[q].slot /\ i \in Nat
        BY <2>2, RemovalTodo, FilesAssumption DEF NamesInv, FreshNames, Slots
      <3> QED
        BY <1>2, <3>1
    <2>3. ASSUME NEW q \in Procs, NEW r \in Procs, OwnRemoval(q)' PROVE ~InTodo(r, Current(q))'
      BY <1>3, <2>3, RemovalTodo DEF NamesInv, FreshNames, OwnRemoval
    <2>4. ASSUME NEW q \in Procs, Busy(q)' PROVE ~InTodo(q, Current(q))'
      BY <1>3, <2>4, RemovalTodo DEF NamesInv, FreshNames
    <2> QED
      BY <2>1, <2>2, <2>3, <2>4 DEF FreshNames
  <1>5. TodoShape'
    BY <1>1, RemovalTodoShape
  <1>6. TempOwn'
    BY <1>1, NamesDiffer DEF TempOwn, NamesInv
  <1>7. Unpublished'
    <2>1. ASSUME NEW q \in Procs, calls'[q].pc \in Preparing, NEW m \in Names, dir'[m] = q
          PROVE  m = Temp(q)
      <3>1. q # p /\ calls[q].pc \in Preparing
        BY <2>1 DEF Changes, Stays, Leaves, Removing, Preparing
      <3> QED
        BY <1>1, <2>1, <3>1, FilesAssumption DEF NamesInv, Unpublished
    <2> QED
      BY <2>1 DEF Unpublished
  <1>8. NoBackups'
    BY <1>1, NamesDiffer DEF NoBackups, NamesInv
  <1>9. TodoOwn'
    BY <1>1, RemovalTodo DEF TodoOwn, NamesInv
  <1>10. AsideOwn'
    <2>1. ASSUME NEW q \in Procs, OwnRemoval(q)'
          PROVE  /\ dir'[Current(q)'] \in {q, NoFile}
                 /\ calls'[q].step # "drop" => dir'[Removed(q)'] = NoFile
      <3>1. /\ OwnRemoval(q) /\ Busy(q) /\ Current(q)' = Current(q) /\ Removed(q)' = Removed(q)
            /\ calls'[q].step # "drop" => calls[q].step # "drop"
        BY <1>3, <2>1 DEF OwnRemoval
      <3>2. /\ dir[Current(q)] \in {q, NoFile}
            /\ calls[q].step # "drop" => dir[Removed(q)] = NoFile
        BY <3>1 DEF NamesInv, AsideOwn
      <3>3. calls[q].slot \in Slots
        BY <3>1 DEF Busy, Basics, Courses, Course
      <3>4. Current(q) \in Names /\ Removed(q) \in Names
        BY <1>1, <3>1, <3>3, NamesDiffer, RemovedIs DEF Current, Busy
      <3> QED
        BY <1>1, <3>1, <3>2, <3>4
    <2> QED
      BY <2>1 DEF AsideOwn
  <1>11. HandlesBacked'
    <2>1. \A q \in Procs : calls'[q].pc = "handle" => q # p /\ calls'[q] = calls[q]
      BY DEF Changes, Stays, Leaves, Removing
    <2>2. \A q \in Procs : dir'[Target] = q => dir[Target] = q
      BY <1>1, NamesDiffer, FilesAssumption
    <2> QED
      BY <2>1, <2>2 DEF NamesInv, HandlesBacked
  <1> QED
    BY <1>4, <1>5, <1>6, <1>7, <1>8, <1>9, <1>10, <1>11 DEF NamesInv

\* Linking a file back.
LEMMA RelinksNames ==
    ASSUME Basics, Basics', NamesInv, NEW p \in Procs, Changes(p, RemovalFields),
           calls[p].pc \in Removing, kind' = kind, claim' = claim,
           Relinks(p), Stays(p), calls'[p].step = "drop"
    PROVE  NamesInv'
  <1> DEFINE n == Removed(p)
             f == dir[Current(p)]
  <1>1. /\ dir \in [Names -> Files \union {NoFile}]
        /\ dir' \in [Names -> Files \union {NoFile}] /\ TodoShape
    BY DEF Basics, TypeOK, NamesInv
  <1>2. /\ n \in Names
        /\ calls[p].pc \in {"unpublish", "undo"} => n = Target
        /\ calls[p].pc = "untemp" => n = Temp(p)
        /\ calls[p].pc = "unbackup" => n = Backup(p) /\ kind = "case"
        /\ calls[p].pc \in {"unpublish", "undo"} => claim = p
        /\ calls[p].pc = "remove" =>
             /\ InTodo(p, n) /\ kind = "report"
             /\ n = Target \/ n = Temp(p) \/ \E q \in Procs, i \in Slots : n = Aside(q, i)
    BY <1>1, RemovedIs
  <1>3. /\ dir' = [dir EXCEPT ![n] = f] /\ dir[n] = NoFile /\ f # NoFile
        /\ calls'[p].slot = calls[p].slot /\ Busy(p)
    BY DEF Relinks
  <1>4. calls[p].slot \in Slots /\ Current(p) = Aside(p, calls[p].slot) /\ Current(p) \in Names
    BY <1>3, NamesDiffer DEF Busy, Basics, Courses, Course, Current
  <1>5. n # Target /\ calls[p].pc # "unbackup" => OwnRemoval(p) /\ f = p
    <2>1. n # Target /\ calls[p].pc # "unbackup" => OwnRemoval(p)
      BY <1>2, <1>3 DEF OwnRemoval, Removing
    <2> QED
      BY <1>3, <2>1 DEF NamesInv, AsideOwn
  <1> HIDE DEF n, f
  <1>6. \A m \in Names : m # n => dir'[m] = dir[m]
    BY <1>1, <1>2, <1>3
  <1>7. dir'[n] = f
    BY <1>1, <1>2, <1>3
  <1>8. /\ \A q \in Procs : calls'[q].slot = calls[q].slot
        /\ \A q \in Procs : \A m : InTodo(q, m)' => InTodo(q, m)
        /\ \A q \in Procs : Busy(q)' => Busy(q) /\ Current(q)' = Current(q) /\ Removed(q)' = Removed(q)
        /\ \A q \in Procs : OwnRemoval(q)' => OwnRemoval(q)
    <2>1. Removed(p)' = Removed(p) /\ Current(p)' = Current(p) /\ (OwnRemoval(p)' => OwnRemoval(p))
      BY <1>3, RemovalTodo DEF Current, OwnRemoval, Stays
    <2> QED
      BY <1>3, <2>1, RemovalTodo
  <1>9. FreshNames'
    <2>1. ASSUME NEW q \in Procs, NEW i \in Slots, dir'[Aside(q, i)] # NoFile
          PROVE  i <= calls'[q].slot
      <3>1. CASE Aside(q, i) = n
        <4>1. InTodo(p, n)
          BY <1>2, <3>1, NamesDiffer DEF Removing
        <4> QED
          BY <1>8, <3>1, <4>1 DEF NamesInv, FreshNames
      <3>2. CASE Aside(q, i) # n
        BY <1>6, <1>8, <2>1, <3>2, NamesDiffer DEF NamesInv, FreshNames
      <3> QED
        BY <3>1, <3>2
    <2>2. ASSUME NEW q \in Procs, NEW r \in Procs, NEW i \in Slots, InTodo(r, Aside(q, i))'
          PROVE  i <= calls'[q].slot
      BY <1>8, <2>2 DEF FreshNames, NamesInv
    <2>3. ASSUME NEW q \in Procs, NEW r \in Procs, OwnRemoval(q)' PROVE ~InTodo(r, Current(q))'
      BY <1>8, <2>3 DEF FreshNames, NamesInv, OwnRemoval
    <2>4. ASSUME NEW q \in Procs, Busy(q)' PROVE ~InTodo(q, Current(q))'
      BY <1>8, <2>4 DEF FreshNames, NamesInv
    <2> QED
      BY <2>1, <2>2, <2>3, <2>4 DEF FreshNames
  <1>10. TodoShape'
    BY <1>1, RemovalTodoShape
  <1>11. TempOwn'
    <2>1. ASSUME NEW q \in Procs PROVE dir'[Temp(q)] \in {q, NoFile}
      <3>1. CASE Temp(q) = n
        <4>1. n # Target /\ calls[p].pc # "unbackup" /\ q = p
          BY <1>2, <3>1, NamesDiffer DEF Removing
        <4> QED
          BY <1>5, <1>7, <3>1, <4>1
      <3>2. CASE Temp(q) # n
        BY <1>6, <3>2, NamesDiffer DEF NamesInv, TempOwn
      <3> QED
        BY <3>1, <3>2
    <2> QED
      BY <2>1 DEF TempOwn
  <1>12. Unpublished'
    <2>1. ASSUME NEW q \in Procs, calls'[q].pc \in Preparing, NEW m \in Names, dir'[m] = q
          PROVE  m = Temp(q)
      <3>1. q # p /\ calls[q].pc \in Preparing
        BY <2>1 DEF Changes, Stays, Removing, Preparing
      <3>2. \A k \in Names : dir[k] = q => k = Temp(q)
        BY <3>1 DEF NamesInv, Unpublished
      <3>3. f # q
        BY <1>4, <3>2, NamesDiffer DEF f
      <3> QED
        BY <1>6, <1>7, <2>1, <3>2, <3>3
    <2> QED
      BY <2>1 DEF Unpublished
  <1>13. NoBackups'
    <2>1. \A q \in Procs : kind = "report" => Backup(q) # n
      BY <1>2, NamesDiffer DEF Removing
    <2> QED
      BY <1>6, <2>1, NamesDiffer DEF NoBackups, NamesInv
  <1>14. TodoOwn'
    <2>1. ASSUME NEW r \in Procs, NEW m \in Names, InTodo(r, m)', m # Target
          PROVE  dir'[m] \in {r, NoFile}
      <3>1. InTodo(r, m) /\ dir[m] \in {r, NoFile}
        BY <1>8, <2>1 DEF NamesInv, TodoOwn
      <3>2. CASE m = n
        <4>1. m = Temp(r) \/ \E q \in Procs, i \in Slots : m = Aside(q, i)
          BY <2>1, <3>1 DEF NamesInv, TodoShape, InTodo, Lists
        <4>2. calls[r].pc = "remove"
          BY <3>1 DEF InTodo
        <4>3. r = p /\ calls[p].pc # "unbackup"
          <5>1. CASE calls[p].pc = "remove"
            BY <1>2, <2>1, <3>1, <3>2, <5>1 DEF NamesInv, TodoOwn
          <5>2. CASE calls[p].pc # "remove"
            BY <1>2, <2>1, <3>2, <4>1, <4>2, <5>2, NamesDiffer DEF Removing
          <5> QED
            BY <5>1, <5>2
        <4> QED
          BY <1>5, <1>7, <2>1, <3>2, <4>3
      <3>3. CASE m # n
        BY <1>6, <3>1, <3>3
      <3> QED
        BY <3>2, <3>3
    <2> QED
      BY <1>8, <2>1 DEF NamesInv, TodoOwn
  <1>15. AsideOwn'
    <2>1. ASSUME NEW q \in Procs, OwnRemoval(q)'
          PROVE  /\ dir'[Current(q)'] \in {q, NoFile}
                 /\ calls'[q].step # "drop" => dir'[Removed(q)'] = NoFile
      <3>1. /\ OwnRemoval(q) /\ Busy(q) /\ Current(q)' = Current(q) /\ Removed(q)' = Removed(q)
        BY <1>8, <2>1 DEF OwnRemoval
      <3>2. /\ dir[Current(q)] \in {q, NoFile}
            /\ calls[q].step # "drop" => dir[Removed(q)] = NoFile
        BY <3>1 DEF NamesInv, AsideOwn
      <3>3. /\ calls[q].slot \in Slots /\ Current(q) = Aside(q, calls[q].slot) /\ Current(q) \in Names
        BY <3>1, NamesDiffer DEF Busy, Basics, Courses, Course, Current
      <3>4. Current(q) # n
        <4>1. CASE calls[p].pc = "remove"
          BY <1>2, <3>1, <4>1 DEF NamesInv, FreshNames
        <4>2. CASE calls[p].pc # "remove"
          BY <1>2, <3>3, <4>2, NamesDiffer DEF Removing
        <4> QED
          BY <4>1, <4>2
      <3>5. q # p /\ calls[q].step # "drop" => Removed(q) # n
        <4>1. CASE q # p /\ calls[q].pc = "untemp"
          <5>1. Removed(q) = Temp(q)
            BY <1>1, <4>1, RemovedIs DEF Removing
          <5> QED
            BY <1>2, <4>1, <5>1, NamesDiffer DEF Removing
        <4>2. CASE q # p /\ calls[q].pc = "remove" /\ Removed(q) # Target
          <5>1. InTodo(q, Removed(q)) /\ Removed(q) \in Names
                /\ (Removed(q) = Temp(q) \/ \E r \in Procs, i \in Slots : Removed(q) = Aside(r, i))
            BY <1>1, <4>2, RemovedIs DEF Removing
          <5>2. CASE calls[p].pc = "remove"
            BY <1>2, <4>2, <5>1, <5>2 DEF NamesInv, TodoOwn
          <5>3. CASE calls[p].pc # "remove"
            BY <1>2, <4>2, <5>1, <5>3, NamesDiffer DEF Removing
          <5> QED
            BY <5>2, <5>3
        <4> QED
          BY <3>1, <4>1, <4>2 DEF OwnRemoval
      <3>6. Removed(q) \in Names
        BY <1>1, <3>1, RemovedIs DEF Busy
      <3>7. calls'[q].step # "drop" => q # p /\ calls[q].step # "drop"
        BY DEF Changes
      <3> QED
        BY <1>6, <3>1, <3>2, <3>3, <3>4, <3>5, <3>6, <3>7
    <2> QED
      BY <2>1 DEF AsideOwn
  <1>16. HandlesBacked'
    <2>1. ASSUME NEW q \in Procs, calls'[q].pc = "handle", calls'[q].published \/ dir'[Target] = q
          PROVE  calls'[q].backed
      <3>1. q # p /\ calls'[q] = calls[q]
        BY <2>1 DEF Changes, Stays, Removing
      <3>2. claim = q /\ kind = "case"
        BY <2>1, <3>1 DEF Basics, OneAtATime, Claiming, UpdateOnly, Courses, Course
      <3>3. n # Target
        BY <1>2, <3>1, <3>2, NamesDiffer DEF Removing
      <3>4. dir'[Target] = dir[Target]
        BY <1>6, <3>3, NamesDiffer
      <3> QED
        BY <2>1, <3>1, <3>4 DEF NamesInv, HandlesBacked
    <2> QED
      BY <2>1 DEF HandlesBacked
  <1> QED
    BY <1>9, <1>10, <1>11, <1>12, <1>13, <1>14, <1>15, <1>16 DEF NamesInv

\* A rollback lists only what is its own.
LEMMA CheckNames ==
    ASSUME Basics, Basics', NamesInv, NEW p \in Procs, Check(p)
    PROVE  NamesInv'
  <1>1. /\ Changes(p, {"pc", "todo"}) /\ calls[p].pc = "check" /\ dir' = dir
        /\ kind' = kind
        /\ calls'[p].pc \in {"remove", "rolled_back", "rollback_refused"}
        /\ calls'[p].pc = "remove" => \A k \in DOMAIN calls'[p].todo :
             /\ \/ calls'[p].todo[k] = Target /\ k = 1
                \/ calls'[p].todo[k] = Temp(p)
                \/ calls'[p].todo[k] \in QuarantineNames
             /\ dir[calls'[p].todo[k]] = p
    BY CheckEffect DEF Basics, outside, Own
  <1>2. kind = "report" /\ calls[p].step = "move"
    BY <1>1 DEF Basics, Courses, Course, RollbackOnly, Removing
  <1>3. calls'[p].slot = calls[p].slot /\ calls'[p].step = calls[p].step
    BY <1>1 DEF Changes, Fields
  <1>4. /\ ~Busy(p)' /\ ~Busy(p) /\ ~OwnRemoval(p)' /\ \A n : ~InTodo(p, n)
    BY <1>1, <1>2, <1>3 DEF Busy, OwnRemoval, InTodo
  <1>5. ASSUME NEW q \in Procs, q # p
        PROVE  /\ calls'[q] = calls[q] /\ Busy(q)' = Busy(q) /\ Current(q)' = Current(q)
               /\ Removed(q)' = Removed(q) /\ OwnRemoval(q)' = OwnRemoval(q)
               /\ \A n : InTodo(q, n)' = InTodo(q, n)
    BY <1>1, <1>5, Others
  <1>6. /\ \A q \in Procs : calls'[q].slot = calls[q].slot
        /\ \A n : InTodo(p, n)' => dir[n] = p
    BY <1>1, <1>3, <1>5 DEF InTodo, Lists
  <1>7. FreshNames'
    <2>1. ASSUME NEW q \in Procs, NEW r \in Procs, NEW i \in Slots, InTodo(r, Aside(q, i))'
          PROVE  i <= calls'[q].slot
      BY <1>5, <1>6, <2>1, FilesAssumption DEF NamesInv, FreshNames
    <2>2. ASSUME NEW q \in Procs, NEW r \in Procs, OwnRemoval(q)' PROVE ~InTodo(r, Current(q))'
      <3>1. q # p /\ OwnRemoval(q) /\ Current(q)' = Current(q)
        BY <1>4, <1>5, <2>2
      <3>2. dir[Current(q)] \in {q, NoFile}
        BY <3>1 DEF NamesInv, AsideOwn
      <3> QED
        BY <1>5, <1>6, <3>1, <3>2, FilesAssumption DEF NamesInv, FreshNames
    <2>3. ASSUME NEW q \in Procs, Busy(q)' PROVE ~InTodo(q, Current(q))'
      BY <1>4, <1>5, <2>3 DEF NamesInv, FreshNames
    <2>4. ASSUME NEW q \in Procs, NEW i \in Slots, dir'[Aside(q, i)] # NoFile
          PROVE  i <= calls'[q].slot
      BY <1>1, <1>6, <2>4 DEF NamesInv, FreshNames
    <2> QED
      BY <2>1, <2>2, <2>3, <2>4 DEF FreshNames
  <1>8. TodoShape'
    <2>1. ASSUME NEW k \in DOMAIN calls'[p].todo, calls'[p].pc = "remove"
          PROVE  \/ calls'[p].todo[k] = Target /\ k = 1
                 \/ calls'[p].todo[k] = Temp(p)
                 \/ \E q \in Procs, i \in Slots : calls'[p].todo[k] = Aside(q, i)
      <3>1. \A q \in Procs : calls'[p].todo[k] # Backup(q)
        BY <1>1, <1>2, <2>1, FilesAssumption DEF NamesInv, NoBackups
      <3> QED
        BY <1>1, <2>1, <3>1 DEF QuarantineNames
    <2>2. \A q \in Procs : q # p => calls'[q] = calls[q]
      BY <1>5
    <2> QED
      BY <2>1, <2>2 DEF NamesInv, TodoShape
  <1>9. TempOwn' /\ NoBackups'
    BY <1>1 DEF NamesInv, TempOwn, NoBackups
  <1>10. Unpublished' /\ HandlesBacked'
    <2>1. \A q \in Procs : calls'[q].pc \in Preparing \union {"handle"} => calls'[q] = calls[q]
      BY <1>1, <1>5 DEF Preparing
    <2> QED
      BY <1>1, <2>1 DEF NamesInv, Unpublished, HandlesBacked
  <1>11. TodoOwn'
    <2>1. ASSUME NEW r \in Procs, NEW n \in Names, InTodo(r, n)', n # Target
          PROVE  dir'[n] \in {r, NoFile}
      BY <1>1, <1>5, <1>6, <2>1 DEF NamesInv, TodoOwn
    <2>2. ASSUME NEW r \in Procs, NEW n \in Names, InTodo(r, n)', InTodo(p, n)', n # Target
          PROVE  r = p
      <3>1. dir[n] = p /\ dir[n] \in {r, NoFile}
        BY <1>1, <1>6, <2>1, <2>2
      <3> QED
        BY <3>1, FilesAssumption
    <2> QED
      BY <1>5, <2>1, <2>2 DEF NamesInv, TodoOwn
  <1>12. AsideOwn'
    BY <1>1, <1>4, <1>5 DEF NamesInv, AsideOwn
  <1> QED
    BY <1>7, <1>8, <1>9, <1>10, <1>11, <1>12 DEF NamesInv

\* Others may delete or replace what the target leads to.
LEMMA EditNames ==
    ASSUME Basics, Basics', NamesInv, SomeoneEdits
    PROVE  NamesInv'
  <1>1. /\ calls' = calls /\ kind' = kind
        /\ dir \in [Names -> Files \union {NoFile}]
        /\ \A n \in Names : n # Target => dir'[n] = dir[n]
        /\ dir'[Target] \in {dir[Target], NoFile, Foreign}
    BY NamesDiffer DEF SomeoneEdits, Basics, TypeOK
  <1>2. /\ \A q \in Procs : /\ Busy(q)' = Busy(q) /\ Current(q)' = Current(q)
                            /\ Removed(q)' = Removed(q) /\ OwnRemoval(q)' = OwnRemoval(q)
        /\ \A q \in Procs : \A n : InTodo(q, n)' = InTodo(q, n)
    BY <1>1 DEF Busy, Current, Removed, OwnRemoval, InTodo
  <1>3. FreshNames'
    <2>1. \A q \in Procs, i \in Slots : dir'[Aside(q, i)] = dir[Aside(q, i)]
      BY <1>1, NamesDiffer
    <2> QED
      BY <1>1, <1>2, <2>1 DEF NamesInv, FreshNames
  <1>4. TodoShape' /\ TempOwn' /\ NoBackups'
    BY <1>1, NamesDiffer DEF NamesInv, TodoShape, TempOwn, NoBackups
  <1>5. Unpublished' /\ HandlesBacked'
    BY <1>1, NamesDiffer, FilesAssumption DEF NamesInv, Unpublished, HandlesBacked
  <1>6. TodoOwn'
    BY <1>1, <1>2 DEF NamesInv, TodoOwn
  <1>7. AsideOwn'
    <2>1. ASSUME NEW q \in Procs, OwnRemoval(q)
          PROVE  Current(q) \in Names \ {Target} /\ Removed(q) \in Names \ {Target}
      <3>1. calls[q].slot \in Slots /\ calls[q].pc \in Removing
            /\ (calls[q].pc = "untemp" \/ (calls[q].pc = "remove" /\ Removed(q) # Target))
        BY <2>1 DEF OwnRemoval, Busy, Basics, Courses, Course
      <3> QED
        BY <3>1, NamesDiffer, RemovedIs DEF Current, NamesInv
    <2> QED
      BY <1>1, <1>2, <2>1 DEF NamesInv, AsideOwn
  <1> QED
    BY <1>3, <1>4, <1>5, <1>6, <1>7 DEF NamesInv

\* Write(p) is no part of a removal.
LEMMA WriteCalm ==
    ASSUME Basics, NamesInv, NEW p \in Procs, Write(p)
    PROVE  Calm(p)
  <1>0. TypeOK /\ Course(calls[p]) /\ calls[p] \in Call
    BY DEF Basics, TypeOK, Courses
  <1>1. calls[p].step = "move" /\ calls'[p].step = calls[p].step /\ calls'[p].slot = calls[p].slot
    BY <1>0, WriteEffect DEF Course, Changes, Fields, Removing
  <1>2. calls'[p].pc = "handle" => calls'[p].backed
    BY <1>0, WriteEffect DEF Course, Call, RollbackOnly, UpdateOnly, Changes, Fields
  <1>3. Calm(p)
    BY <1>0, <1>1, <1>2, WriteEffect DEF Calm, Busy, Removing, Preparing, outside
  <1> QED
    BY <1>3

\* TakeClaim(p) is no part of a removal.
LEMMA TakeClaimCalm ==
    ASSUME Basics, NamesInv, NEW p \in Procs, TakeClaim(p)
    PROVE  Calm(p)
  <1>0. TypeOK /\ Course(calls[p]) /\ calls[p] \in Call
    BY DEF Basics, TypeOK, Courses
  <1>1. calls[p].step = "move" /\ calls'[p].step = calls[p].step /\ calls'[p].slot = calls[p].slot
    BY <1>0, TakeClaimEffect DEF Course, Changes, Fields, Removing
  <1>3. Calm(p)
    BY <1>0, <1>1, TakeClaimEffect DEF Calm, Busy, Removing, Preparing, outside
  <1> QED
    BY <1>3

\* Link(p) is no part of a removal.
LEMMA LinkCalm ==
    ASSUME Basics, NamesInv, NEW p \in Procs, Link(p)
    PROVE  Calm(p)
  <1>0. TypeOK /\ Course(calls[p]) /\ calls[p] \in Call
    BY DEF Basics, TypeOK, Courses
  <1>1. calls[p].step = "move" /\ calls'[p].step = calls[p].step /\ calls'[p].slot = calls[p].slot
    BY <1>0, LinkEffect DEF Course, Changes, Fields, Removing
  <1>3. Calm(p)
    BY <1>0, <1>1, LinkEffect DEF Calm, Busy, Removing, Preparing, outside
  <1> QED
    BY <1>3

\* Verify(p) is no part of a removal.
LEMMA VerifyCalm ==
    ASSUME Basics, NamesInv, NEW p \in Procs, Verify(p)
    PROVE  Calm(p)
  <1>0. TypeOK /\ Course(calls[p]) /\ calls[p] \in Call
    BY DEF Basics, TypeOK, Courses
  <1>1. calls[p].step = "move" /\ calls'[p].step = calls[p].step /\ calls'[p].slot = calls[p].slot
    BY <1>0, VerifyEffect DEF Course, Changes, Fields, Removing
  <1>2. calls'[p].pc = "handle" => calls'[p].backed
    BY <1>0, VerifyEffect DEF Course, Call, RollbackOnly, UpdateOnly, Changes, Fields
  <1>3. Calm(p)
    BY <1>0, <1>1, <1>2, VerifyEffect DEF Calm, Busy, Removing, Preparing, outside
  <1> QED
    BY <1>3

\* Release(p) is no part of a removal.
LEMMA ReleaseCalm ==
    ASSUME Basics, NamesInv, NEW p \in Procs, Release(p)
    PROVE  Calm(p)
  <1>0. TypeOK /\ Course(calls[p]) /\ calls[p] \in Call
    BY DEF Basics, TypeOK, Courses
  <1>1. calls[p].step = "move" /\ calls'[p].step = calls[p].step /\ calls'[p].slot = calls[p].slot
    BY <1>0, ReleaseEffect DEF Course, Changes, Fields, Removing
  <1>3. Calm(p)
    BY <1>0, <1>1, ReleaseEffect DEF Calm, Busy, Removing, Preparing, outside
  <1> QED
    BY <1>3

\* BeginCreate(p) is no part of a removal.
LEMMA BeginCreateCalm ==
    ASSUME Basics, NamesInv, NEW p \in Procs, BeginCreate(p)
    PROVE  Calm(p)
  <1>0. TypeOK /\ Course(calls[p]) /\ calls[p] \in Call
    BY DEF Basics, TypeOK, Courses
  <1>1. calls[p].step = "move" /\ calls'[p].step = calls[p].step /\ calls'[p].slot = calls[p].slot
    BY <1>0, BeginCreateEffect DEF Course, Changes, Fields, Removing
  <1>3. Calm(p)
    BY <1>0, <1>1, BeginCreateEffect DEF Calm, Busy, Removing, Preparing, outside
  <1> QED
    BY <1>3

\* BeginUpdate(p) is no part of a removal.
LEMMA BeginUpdateCalm ==
    ASSUME Basics, NamesInv, NEW p \in Procs, BeginUpdate(p)
    PROVE  Calm(p)
  <1>0. TypeOK /\ Course(calls[p]) /\ calls[p] \in Call
    BY DEF Basics, TypeOK, Courses
  <1>1. calls[p].step = "move" /\ calls'[p].step = calls[p].step /\ calls'[p].slot = calls[p].slot
    BY <1>0, BeginUpdateEffect DEF Course, Changes, Fields, Removing
  <1>3. Calm(p)
    BY <1>0, <1>1, BeginUpdateEffect DEF Calm, Busy, Removing, Preparing, outside
  <1> QED
    BY <1>3

\* Read(p) is no part of a removal.
LEMMA ReadCalm ==
    ASSUME Basics, NamesInv, NEW p \in Procs, Read(p)
    PROVE  Calm(p)
  <1>0. TypeOK /\ Course(calls[p]) /\ calls[p] \in Call
    BY DEF Basics, TypeOK, Courses
  <1>1. calls[p].step = "move" /\ calls'[p].step = calls[p].step /\ calls'[p].slot = calls[p].slot
    BY <1>0, ReadEffect DEF Course, Changes, Fields, Removing
  <1>3. Calm(p)
    BY <1>0, <1>1, ReadEffect DEF Calm, Busy, Removing, Preparing, outside
  <1> QED
    BY <1>3

\* Open(p) is no part of a removal.
LEMMA OpenCalm ==
    ASSUME Basics, NamesInv, NEW p \in Procs, Open(p)
    PROVE  Calm(p)
  <1>0. TypeOK /\ Course(calls[p]) /\ calls[p] \in Call
    BY DEF Basics, TypeOK, Courses
  <1>1. calls[p].step = "move" /\ calls'[p].step = calls[p].step /\ calls'[p].slot = calls[p].slot
    BY <1>0, OpenEffect DEF Course, Changes, Fields, Removing
  <1>3. Calm(p)
    BY <1>0, <1>1, OpenEffect DEF Calm, Busy, Removing, Preparing, outside
  <1> QED
    BY <1>3

\* MakeBackup(p) is no part of a removal.
LEMMA MakeBackupCalm ==
    ASSUME Basics, NamesInv, NEW p \in Procs, MakeBackup(p)
    PROVE  Calm(p)
  <1>0. TypeOK /\ Course(calls[p]) /\ calls[p] \in Call
    BY DEF Basics, TypeOK, Courses
  <1>1. calls[p].step = "move" /\ calls'[p].step = calls[p].step /\ calls'[p].slot = calls[p].slot
    BY <1>0, MakeBackupEffect DEF Course, Changes, Fields, Removing
  <1>2. calls'[p].pc = "handle" => calls'[p].backed \/ (~calls'[p].published /\ dir'[Target] # p)
    <2>1. ~calls[p].published /\ calls'[p].published = calls[p].published
      BY <1>0, MakeBackupEffect DEF Course, Preparing, Changes, Fields
    <2>2. dir[Target] # p
      BY <1>0, MakeBackupEffect, NamesDiffer DEF NamesInv, Unpublished, Preparing
    <2>3. dir'[Target] = dir[Target]
      BY <1>0, MakeBackupEffect, NamesDiffer DEF TypeOK
    <2> QED
      BY <2>1, <2>2, <2>3
  <1>3. Calm(p)
    BY <1>0, <1>1, <1>2, MakeBackupEffect DEF Calm, Busy, Removing, Preparing, outside
  <1> QED
    BY <1>3

\* Recheck(p) is no part of a removal.
LEMMA RecheckCalm ==
    ASSUME Basics, NamesInv, NEW p \in Procs, Recheck(p)
    PROVE  Calm(p)
  <1>0. TypeOK /\ Course(calls[p]) /\ calls[p] \in Call
    BY DEF Basics, TypeOK, Courses
  <1>1. calls[p].step = "move" /\ calls'[p].step = calls[p].step /\ calls'[p].slot = calls[p].slot
    BY <1>0, RecheckEffect DEF Course, Changes, Fields, Removing
  <1>2. calls'[p].pc = "handle" => calls'[p].backed
    BY <1>0, RecheckEffect DEF Course, Call, RollbackOnly, UpdateOnly, Changes, Fields
  <1>3. Calm(p)
    BY <1>0, <1>1, <1>2, RecheckEffect DEF Calm, Busy, Removing, Preparing, outside
  <1> QED
    BY <1>3

\* Rename(p) is no part of a removal.
LEMMA RenameCalm ==
    ASSUME Basics, NamesInv, NEW p \in Procs, Rename(p)
    PROVE  Calm(p)
  <1>0. TypeOK /\ Course(calls[p]) /\ calls[p] \in Call
    BY DEF Basics, TypeOK, Courses
  <1>1. calls[p].step = "move" /\ calls'[p].step = calls[p].step /\ calls'[p].slot = calls[p].slot
    BY <1>0, RenameEffect DEF Course, Changes, Fields, Removing
  <1>2. calls'[p].pc = "handle" => calls'[p].backed
    BY <1>0, RenameEffect DEF Course, Call, RollbackOnly, UpdateOnly, Changes, Fields
  <1>3. Calm(p)
    BY <1>0, <1>1, <1>2, RenameEffect DEF Calm, Busy, Removing, Preparing, outside
  <1> QED
    BY <1>3

\* Handle(p) is no part of a removal.
LEMMA HandleCalm ==
    ASSUME Basics, NamesInv, NEW p \in Procs, Handle(p)
    PROVE  Calm(p)
  <1>0. TypeOK /\ Course(calls[p]) /\ calls[p] \in Call
    BY DEF Basics, TypeOK, Courses
  <1>1. calls[p].step = "move" /\ calls'[p].step = calls[p].step /\ calls'[p].slot = calls[p].slot
    BY <1>0, HandleEffect DEF Course, Changes, Fields, Removing
  <1>3. Calm(p)
    BY <1>0, <1>1, HandleEffect DEF Calm, Busy, Removing, Preparing, outside
  <1> QED
    BY <1>3

\* Restore(p) is no part of a removal.
LEMMA RestoreCalm ==
    ASSUME Basics, NamesInv, NEW p \in Procs, Restore(p)
    PROVE  Calm(p)
  <1>0. TypeOK /\ Course(calls[p]) /\ calls[p] \in Call
    BY DEF Basics, TypeOK, Courses
  <1>1. calls[p].step = "move" /\ calls'[p].step = calls[p].step /\ calls'[p].slot = calls[p].slot
    BY <1>0, RestoreEffect DEF Course, Changes, Fields, Removing
  <1>3. Calm(p)
    BY <1>0, <1>1, RestoreEffect DEF Calm, Busy, Removing, Preparing, outside
  <1> QED
    BY <1>3

\* Keep(p) is no part of a removal.
LEMMA KeepCalm ==
    ASSUME Basics, NamesInv, NEW p \in Procs, Keep(p)
    PROVE  Calm(p)
  <1>0. TypeOK /\ Course(calls[p]) /\ calls[p] \in Call
    BY DEF Basics, TypeOK, Courses
  <1>1. calls[p].step = "move" /\ calls'[p].step = calls[p].step /\ calls'[p].slot = calls[p].slot
    BY <1>0, KeepEffect DEF Course, Changes, Fields, Removing
  <1>3. Calm(p)
    BY <1>0, <1>1, KeepEffect DEF Calm, Busy, Removing, Preparing, outside
  <1> QED
    BY <1>3

\* SaveFails(p) is no part of a removal.
LEMMA SaveFailsCalm ==
    ASSUME Basics, NamesInv, NEW p \in Procs, SaveFails(p)
    PROVE  Calm(p)
  <1>0. TypeOK /\ Course(calls[p]) /\ calls[p] \in Call
    BY DEF Basics, TypeOK, Courses
  <1>1. calls[p].step = "move" /\ calls'[p].step = calls[p].step /\ calls'[p].slot = calls[p].slot
    BY <1>0, SaveFailsEffect DEF Course, Changes, Fields, Removing
  <1>3. Calm(p)
    BY <1>0, <1>1, SaveFailsEffect DEF Calm, Busy, Removing, Preparing, outside
  <1> QED
    BY <1>3

\* Crash(p) is no part of a removal.
LEMMA CrashCalm ==
    ASSUME Basics, NamesInv, NEW p \in Procs, Crash(p)
    PROVE  Calm(p)
  <1>0. TypeOK /\ Course(calls[p]) /\ calls[p] \in Call
    BY DEF Basics, TypeOK, Courses
  <1>1. calls'[p].slot = calls[p].slot /\ calls'[p].pc = "crashed"
    BY <1>0, CrashEffect DEF Changes, Fields
  <1>3. Calm(p)
    BY <1>0, <1>1, CrashEffect DEF Calm, Busy, Removing, Preparing, outside
  <1> QED
    BY <1>3

\* Each step keeps to the names it may work on.
LEMMA NamesStep ==
    ASSUME Basics, NamesInv, [Next]_vars
    PROVE  NamesInv'
  <1>0. Basics' /\ TypeOK /\ \A p \in Procs : Course(calls[p]) /\ calls[p] \in Call
    BY BasicsStep DEF Basics, TypeOK, Courses
  <1>1. ASSUME NEW p \in Procs, Write(p) PROVE NamesInv'
    BY <1>0, <1>1, WriteEffect, WriteCalm, CalmNames
  <1>2. ASSUME NEW p \in Procs, TakeClaim(p) PROVE NamesInv'
    BY <1>0, <1>2, TakeClaimEffect, TakeClaimCalm, CalmNames
  <1>3. ASSUME NEW p \in Procs, Link(p) PROVE NamesInv'
    BY <1>0, <1>3, LinkEffect, LinkCalm, CalmNames DEF Preparing
  <1>4. ASSUME NEW p \in Procs, Verify(p) PROVE NamesInv'
    BY <1>0, <1>4, VerifyEffect, VerifyCalm, CalmNames
  <1>5. ASSUME NEW p \in Procs, Release(p) PROVE NamesInv'
    BY <1>0, <1>5, ReleaseEffect, ReleaseCalm, CalmNames
  <1>6. ASSUME NEW p \in Procs, BeginCreate(p) PROVE NamesInv'
    BY <1>0, <1>6, BeginCreateEffect, BeginCreateCalm, CalmNames
  <1>7. ASSUME NEW p \in Procs, BeginUpdate(p) PROVE NamesInv'
    BY <1>0, <1>7, BeginUpdateEffect, BeginUpdateCalm, CalmNames
  <1>8. ASSUME NEW p \in Procs, Read(p) PROVE NamesInv'
    BY <1>0, <1>8, ReadEffect, ReadCalm, CalmNames
  <1>9. ASSUME NEW p \in Procs, Open(p) PROVE NamesInv'
    BY <1>0, <1>9, OpenEffect, OpenCalm, CalmNames
  <1>10. ASSUME NEW p \in Procs, MakeBackup(p) PROVE NamesInv'
    <2>1. kind = "case"
      BY <1>0, <1>10, MakeBackupEffect DEF Course, UpdateOnly
    <2> QED
      BY <1>0, <1>10, <2>1, MakeBackupEffect, MakeBackupCalm, CalmNames
  <1>11. ASSUME NEW p \in Procs, Recheck(p) PROVE NamesInv'
    BY <1>0, <1>11, RecheckEffect, RecheckCalm, CalmNames
  <1>12. ASSUME NEW p \in Procs, Rename(p) PROVE NamesInv'
    BY <1>0, <1>12, RenameEffect, RenameCalm, CalmNames DEF Preparing
  <1>13. ASSUME NEW p \in Procs, Handle(p) PROVE NamesInv'
    BY <1>0, <1>13, HandleEffect, HandleCalm, CalmNames
  <1>14. ASSUME NEW p \in Procs, Restore(p) PROVE NamesInv'
    <2>1. claim = p
      BY <1>0, <1>14, RestoreEffect DEF Basics, OneAtATime, Claiming, UpdateOnly
    <2> QED
      BY <1>0, <1>14, <2>1, RestoreEffect, RestoreCalm, CalmNames
  <1>15. ASSUME NEW p \in Procs, Keep(p) PROVE NamesInv'
    BY <1>0, <1>15, KeepEffect, KeepCalm, CalmNames
  <1>16. ASSUME NEW p \in Procs, SaveFails(p) PROVE NamesInv'
    BY <1>0, <1>16, SaveFailsEffect, SaveFailsCalm, CalmNames
  <1>17. ASSUME NEW p \in Procs, Crash(p) PROVE NamesInv'
    BY <1>0, <1>17, CrashEffect, CrashCalm, CalmNames
  <1>18. ASSUME NEW p \in Procs, Check(p) PROVE NamesInv'
    BY <1>0, <1>18, CheckNames
  <1>19. ASSUME NEW p \in Procs, Move(p) \/ Judge(p) \/ Relink(p) \/ Drop(p) PROVE NamesInv'
    BY <1>0, <1>19, RemovalKinds, MovesNames, ErasesNames, RelinksNames
  <1>20. CASE SomeoneEdits
    BY <1>0, <1>20, EditNames
  <1>21. CASE UNCHANGED vars
    <2>1. dir' = dir /\ calls' = calls /\ kind' = kind
      BY <1>21 DEF vars
    <2>2. \A q \in Procs : /\ Busy(q)' = Busy(q) /\ Current(q)' = Current(q)
                            /\ Removed(q)' = Removed(q) /\ OwnRemoval(q)' = OwnRemoval(q)
                            /\ \A n : InTodo(q, n)' = InTodo(q, n)
      BY <2>1 DEF Busy, Current, Removed, OwnRemoval, InTodo
    <2>3. FreshNames' /\ TodoOwn' /\ AsideOwn'
      BY <2>1, <2>2 DEF NamesInv, FreshNames, TodoOwn, AsideOwn
    <2> QED
      BY <2>1, <2>3 DEF NamesInv, TodoShape, TempOwn, Unpublished, NoBackups, HandlesBacked
  <1> QED
    BY <1>1, <1>2, <1>3, <1>4, <1>5, <1>6, <1>7, <1>8, <1>9, <1>10, <1>11, <1>12, <1>13, <1>14,
       <1>15, <1>16, <1>17, <1>18, <1>19, <1>20, <1>21 DEF Next, Continue

-----------------------------------------------------------------------------
\* Only complete texts get out.

Unwritten(f) == f \in Procs /\ ~calls[f].written

\* An incomplete text has the names of its own call alone; what a removal moved
\* away from another name is complete, and so is what was reported.
WrittenInv ==
    /\ \A n \in Names : \A f \in Procs :
         Unwritten(f) /\ dir[n] = f => n = Temp(f) \/ \E i \in Slots : n = Aside(f, i)
    /\ \A p \in Procs : Busy(p) /\ calls[p].pc # "untemp" => ~Unwritten(dir[Current(p)])
    /\ \A p \in Procs : calls[p].committed => calls[p].written

\* Steps that are no part of a removal publish complete texts only.
LEMMA CalmWritten ==
    ASSUME Basics, Basics', NamesInv, WrittenInv, NEW p \in Procs, NEW S, Changes(p, S), Calm(p),
           calls[p].written => calls'[p].written,
           calls'[p].committed => calls'[p].written,
           \/ dir' = dir
           \/ dir' = [dir EXCEPT ![Temp(p)] = p]
           \/ dir' = [dir EXCEPT ![Target] = p] /\ calls'[p].written
           \/ dir' = [dir EXCEPT ![Backup(p)] = dir[Target]]
           \/ dir' = [dir EXCEPT ![Target] = p, ![Temp(p)] = NoFile] /\ calls'[p].written
           \/ dir' = [dir EXCEPT ![Target] = dir[Backup(p)], ![Backup(p)] = NoFile]
    PROVE  WrittenInv'
  <1>1. /\ dir \in [Names -> Files \union {NoFile}] /\ NoFile \notin Procs
        /\ dir' \in [Names -> Files \union {NoFile}]
    BY FilesAssumption DEF Basics, TypeOK
  <1>2. \A f \in Procs : Unwritten(f)' => Unwritten(f)
    BY DEF Unwritten, Changes
  <1>3. ASSUME NEW n \in Names, NEW f \in Procs, Unwritten(f)', dir'[n] = f
        PROVE  n = Temp(f) \/ \E i \in Slots : n = Aside(f, i)
    <2>1. Unwritten(f) /\ (f = p => ~calls'[p].written)
      BY <1>2, <1>3 DEF Unwritten
    <2>2. \A m \in Names : dir[m] = f => m = Temp(f) \/ \E i \in Slots : m = Aside(f, i)
      BY <2>1 DEF WrittenInv
    <2>3. dir[Target] # f /\ dir[Backup(p)] # f
      BY <2>2, NamesDiffer
    <2>4. dir[n] = f \/ n = Temp(f)
      BY <1>1, <1>3, <2>1, <2>3, NamesDiffer
    <2> QED
      BY <2>2, <2>4
  <1>4. ASSUME NEW q \in Procs, Busy(q)', calls'[q].pc # "untemp" PROVE ~Unwritten(dir[Current(q)])'
    <2>1. Busy(q) /\ q # p /\ Current(q)' = Current(q) /\ calls[q].pc # "untemp"
      BY <1>4, CalmTodo DEF Changes
    <2>2. calls[q].slot \in Slots
      BY <2>1 DEF Busy, Basics, Courses, Course
    <2>3. dir'[Current(q)] = dir[Current(q)]
      BY <1>1, <2>2, NamesDiffer DEF Current
    <2> QED
      BY <1>2, <2>1, <2>3 DEF WrittenInv, Unwritten
  <1>5. \A q \in Procs : calls'[q].committed => calls'[q].written
    BY DEF WrittenInv, Changes
  <1> QED
    BY <1>3, <1>4, <1>5 DEF WrittenInv

\* Removals bring no incomplete text back.
LEMMA RemovalWritten ==
    ASSUME Basics, Basics', NamesInv, NamesInv', WrittenInv, NEW p \in Procs,
           Move(p) \/ Judge(p) \/ Relink(p) \/ Drop(p)
    PROVE  WrittenInv'
  <1>1. /\ dir \in [Names -> Files \union {NoFile}] /\ NoFile \notin Procs
        /\ TodoShape /\ calls[p].pc \in Removing /\ Changes(p, RemovalFields)
    BY RemovalKinds, FilesAssumption DEF Basics, TypeOK, NamesInv
  <1>2. /\ \A q \in Procs : calls'[q].written = calls[q].written
        /\ \A q \in Procs : calls'[q].committed = calls[q].committed
    BY <1>1 DEF Changes, Fields, RemovalFields
  <1>3. \A f : Unwritten(f)' = Unwritten(f)
    BY <1>2 DEF Unwritten
  <1>4. /\ Removed(p) \in Names
        /\ \/ Removed(p) = Target
           \/ Removed(p) = Temp(p) /\ calls[p].pc = "untemp"
           \/ Removed(p) = Backup(p)
           \/ Removed(p) # Target /\ InTodo(p, Removed(p)) /\ calls[p].pc = "remove"
    BY <1>1, RemovedIs DEF Removing
  <1>5. ASSUME NEW q \in Procs, Busy(q), calls[q].pc # "untemp"
        PROVE  ~Unwritten(dir[Current(q)]) /\ Current(q) \in Names
               /\ Current(q) = Aside(q, calls[q].slot) /\ calls[q].slot \in Slots
    BY <1>5, NamesDiffer DEF WrittenInv, Current, Busy, Basics, Courses, Course
  <1>6. calls[p].pc = "remove" => calls[p].written
    BY DEF Basics, Courses, Course, RollbackOnly, WrittenInv
  <1>7. \A q \in Procs : q # p => calls'[q] = calls[q] /\ Busy(q)' = Busy(q) /\ Current(q)' = Current(q)
    BY <1>1, Others
  <1>8. CASE Erases(p) /\ (Leaves(p) \/ (Stays(p) /\ Busy(p) /\ calls'[p].slot = calls[p].slot))
    <2>1. \A n \in Names : dir'[n] \in {dir[n], NoFile}
      BY <1>8 DEF Erases
    <2>2. \A q \in Procs : Busy(q)' => Busy(q) /\ Current(q)' = Current(q) /\ calls'[q].pc = calls[q].pc
      BY <1>7, <1>8 DEF Leaves, Stays, Current
    <2>3. ASSUME NEW q \in Procs, Busy(q)', calls'[q].pc # "untemp" PROVE ~Unwritten(dir[Current(q)])'
      BY <1>1, <1>3, <1>5, <2>1, <2>2, <2>3 DEF Unwritten
    <2> QED
      BY <1>1, <1>2, <1>3, <2>1, <2>3 DEF WrittenInv
  <1>9. CASE Moves(p) /\ (Stays(p) \/ Leaves(p))
    <2> DEFINE s == calls[p].slot + 1
               a == Aside(p, s)
               n == Removed(p)
    <2>1. /\ dir' = [dir EXCEPT ![n] = NoFile, ![a] = dir[n]] /\ s \in Slots
          /\ calls'[p].slot = s
      BY <1>9 DEF Moves
    <2>2. /\ a \in Names /\ \A q \in Procs, i \in Slots : a = Aside(q, i) => q = p
      BY <2>1, NamesDiffer
    <2> HIDE DEF s
    <2>3. \A m \in Names : m # a => dir'[m] \in {dir[m], NoFile}
      BY <1>1, <1>4, <2>1, <2>2
    <2>4. dir'[a] = dir[n]
      BY <1>1, <1>4, <2>1, <2>2
    <2>5. Unwritten(dir[n]) => dir[n] = p /\ calls[p].pc = "untemp"
      <3>1. CASE n = Target \/ n = Backup(p)
        BY <3>1, NamesDiffer DEF WrittenInv, Unwritten
      <3>2. CASE n = Temp(p) /\ calls[p].pc = "untemp"
        BY <1>1, <3>2 DEF Unwritten, NamesInv, TempOwn
      <3>3. CASE n # Target /\ InTodo(p, n) /\ calls[p].pc = "remove"
        BY <1>1, <1>4, <1>6, <3>3 DEF Unwritten, NamesInv, TodoOwn
      <3> QED
        BY <1>4, <3>1, <3>2, <3>3
    <2>6. ASSUME NEW m \in Names, NEW f \in Procs, Unwritten(f)', dir'[m] = f
          PROVE  m = Temp(f) \/ \E i \in Slots : m = Aside(f, i)
      <3>1. CASE m = a
        BY <1>3, <2>1, <2>4, <2>5, <2>6, <3>1
      <3>2. CASE m # a
        BY <1>1, <1>3, <2>3, <2>6, <3>2 DEF WrittenInv
      <3> QED
        BY <3>1, <3>2
    <2>7. ASSUME NEW q \in Procs, Busy(q)', calls'[q].pc # "untemp" PROVE ~Unwritten(dir[Current(q)])'
      <3>1. CASE q = p
        <4>1. Current(p)' = a /\ calls[p].pc # "untemp"
          BY <1>9, <2>1, <2>7, <3>1 DEF Current, Stays, Leaves
        <4> QED
          BY <1>3, <2>4, <2>5, <3>1, <4>1
      <3>2. CASE q # p
        <4>1. /\ Busy(q) /\ Current(q)' = Current(q) /\ calls[q].pc # "untemp"
          BY <1>7, <2>7, <3>2
        <4>2. Current(q) # a
          BY <1>5, <2>2, <3>2, <4>1
        <4> QED
          BY <1>1, <1>3, <1>5, <2>3, <4>1, <4>2 DEF Unwritten
      <3> QED
        BY <3>1, <3>2
    <2> QED
      BY <1>2, <2>6, <2>7 DEF WrittenInv
  <1>10. CASE Relinks(p) /\ Stays(p)
    <2> DEFINE n == Removed(p)
               f == dir[Current(p)]
    <2>1. dir' = [dir EXCEPT ![n] = f] /\ Busy(p) /\ calls'[p].slot = calls[p].slot
      BY <1>10 DEF Relinks
    <2>2. Unwritten(f) => n = Temp(f) /\ calls[p].pc = "untemp"
      <3>1. Unwritten(f) => calls[p].pc = "untemp"
        BY <2>1, <1>5
      <3>2. Unwritten(f) => f = p
        BY <1>1, <2>1, <3>1 DEF NamesInv, AsideOwn, OwnRemoval, Unwritten
      <3> QED
        BY <1>1, <3>1, <3>2, RemovedIs
    <2> HIDE DEF n, f
    <2>3. \A m \in Names : dir'[m] = IF m = n THEN f ELSE dir[m]
      BY <1>1, <2>1
    <2>4. ASSUME NEW m \in Names, NEW g \in Procs, Unwritten(g)', dir'[m] = g
          PROVE  m = Temp(g) \/ \E i \in Slots : m = Aside(g, i)
      <3>1. Unwritten(g)
        BY <1>3, <2>4
      <3>2. CASE m = n
        BY <2>2, <2>3, <2>4, <3>1, <3>2
      <3>3. CASE m # n
        BY <2>3, <2>4, <3>1, <3>3 DEF WrittenInv
      <3> QED
        BY <3>2, <3>3
    <2>5. ASSUME NEW q \in Procs, Busy(q)', calls'[q].pc # "untemp" PROVE ~Unwritten(dir[Current(q)])'
      <3>1. /\ Busy(q) /\ Current(q)' = Current(q) /\ calls[q].pc # "untemp"
        BY <1>7, <1>10, <2>1, <2>5 DEF Current, Stays
      <3>2. Unwritten(f) => Current(q) # n
        BY <1>5, <2>2, <3>1, NamesDiffer DEF Unwritten
      <3> QED
        BY <1>3, <1>5, <2>3, <3>1, <3>2
    <2> QED
      BY <1>2, <2>4, <2>5 DEF WrittenInv
  <1> QED
    BY <1>8, <1>9, <1>10, RemovalKinds

\* No step publishes an incomplete text.
LEMMA WrittenStep ==
    ASSUME Basics, NamesInv, WrittenInv, [Next]_vars
    PROVE  WrittenInv'
  <1>0. /\ Basics' /\ NamesInv' /\ TypeOK
        /\ \A p \in Procs : /\ Course(calls[p]) /\ calls[p] \in Call
                            /\ calls[p].committed => calls[p].written
    BY BasicsStep, NamesStep DEF Basics, TypeOK, Courses, WrittenInv
  <1>1. ASSUME NEW p \in Procs, Write(p) PROVE WrittenInv'
    <2>1. Calm(p)
      BY <1>0, <1>1, WriteCalm
    <2>2. calls'[p].committed = calls[p].committed
      BY <1>1, <1>0, WriteEffect DEF Changes, Fields
    <2>3. calls[p].written => calls'[p].written
      BY <1>1, <1>0, WriteEffect
    <2> QED
      BY <1>0, <1>1, <2>1, <2>2, <2>3, WriteEffect, CalmWritten
  <1>2. ASSUME NEW p \in Procs, TakeClaim(p) PROVE WrittenInv'
    <2>1. Calm(p)
      BY <1>0, <1>2, TakeClaimCalm
    <2>2. calls'[p].committed = calls[p].committed
      BY <1>2, <1>0, TakeClaimEffect DEF Changes, Fields
    <2>3. calls'[p].written = calls[p].written
      BY <1>2, <1>0, TakeClaimEffect DEF Changes, Fields
    <2> QED
      BY <1>0, <1>2, <2>1, <2>2, <2>3, TakeClaimEffect, CalmWritten
  <1>3. ASSUME NEW p \in Procs, Link(p) PROVE WrittenInv'
    <2>1. Calm(p)
      BY <1>0, <1>3, LinkCalm
    <2>2. calls'[p].committed = calls[p].committed
      BY <1>3, <1>0, LinkEffect DEF Changes, Fields
    <2>3. calls'[p].written = calls[p].written
      BY <1>3, <1>0, LinkEffect DEF Changes, Fields
    <2> QED
      BY <1>0, <1>3, <2>1, <2>2, <2>3, LinkEffect, CalmWritten DEF Course
  <1>4. ASSUME NEW p \in Procs, Verify(p) PROVE WrittenInv'
    <2>1. Calm(p)
      BY <1>0, <1>4, VerifyCalm
    <2>2. calls'[p].committed => calls[p].written
      <3>1. dir[Target] = p => calls[p].written
        BY NamesDiffer DEF WrittenInv, Unwritten
      <3> QED
        BY <1>0, <1>4, <3>1, VerifyEffect DEF Course, Undecided
    <2>3. calls'[p].written = calls[p].written
      BY <1>4, <1>0, VerifyEffect DEF Changes, Fields
    <2> QED
      BY <1>0, <1>4, <2>1, <2>2, <2>3, VerifyEffect, CalmWritten
  <1>5. ASSUME NEW p \in Procs, Release(p) PROVE WrittenInv'
    <2>1. Calm(p)
      BY <1>0, <1>5, ReleaseCalm
    <2>2. calls'[p].committed = calls[p].committed
      BY <1>5, <1>0, ReleaseEffect DEF Changes, Fields
    <2>3. calls'[p].written = calls[p].written
      BY <1>5, <1>0, ReleaseEffect DEF Changes, Fields
    <2> QED
      BY <1>0, <1>5, <2>1, <2>2, <2>3, ReleaseEffect, CalmWritten
  <1>6. ASSUME NEW p \in Procs, BeginCreate(p) PROVE WrittenInv'
    <2>1. Calm(p)
      BY <1>0, <1>6, BeginCreateCalm
    <2>2. calls'[p].committed = calls[p].committed
      BY <1>6, <1>0, BeginCreateEffect DEF Changes, Fields
    <2>3. calls'[p].written = calls[p].written
      BY <1>6, <1>0, BeginCreateEffect DEF Changes, Fields
    <2> QED
      BY <1>0, <1>6, <2>1, <2>2, <2>3, BeginCreateEffect, CalmWritten
  <1>7. ASSUME NEW p \in Procs, BeginUpdate(p) PROVE WrittenInv'
    <2>1. Calm(p)
      BY <1>0, <1>7, BeginUpdateCalm
    <2>2. calls'[p].committed = calls[p].committed
      BY <1>7, <1>0, BeginUpdateEffect DEF Changes, Fields
    <2>3. calls'[p].written = calls[p].written
      BY <1>7, <1>0, BeginUpdateEffect DEF Changes, Fields
    <2> QED
      BY <1>0, <1>7, <2>1, <2>2, <2>3, BeginUpdateEffect, CalmWritten
  <1>8. ASSUME NEW p \in Procs, Read(p) PROVE WrittenInv'
    <2>1. Calm(p)
      BY <1>0, <1>8, ReadCalm
    <2>2. calls'[p].committed = calls[p].committed
      BY <1>8, <1>0, ReadEffect DEF Changes, Fields
    <2>3. calls'[p].written = calls[p].written
      BY <1>8, <1>0, ReadEffect DEF Changes, Fields
    <2> QED
      BY <1>0, <1>8, <2>1, <2>2, <2>3, ReadEffect, CalmWritten
  <1>9. ASSUME NEW p \in Procs, Open(p) PROVE WrittenInv'
    <2>1. Calm(p)
      BY <1>0, <1>9, OpenCalm
    <2>2. calls'[p].committed = calls[p].committed
      BY <1>9, <1>0, OpenEffect DEF Changes, Fields
    <2>3. calls'[p].written = calls[p].written
      BY <1>9, <1>0, OpenEffect DEF Changes, Fields
    <2> QED
      BY <1>0, <1>9, <2>1, <2>2, <2>3, OpenEffect, CalmWritten
  <1>10. ASSUME NEW p \in Procs, MakeBackup(p) PROVE WrittenInv'
    <2>1. Calm(p)
      BY <1>0, <1>10, MakeBackupCalm
    <2>2. calls'[p].committed = calls[p].committed
      BY <1>10, <1>0, MakeBackupEffect DEF Changes, Fields
    <2>3. calls'[p].written = calls[p].written
      BY <1>10, <1>0, MakeBackupEffect DEF Changes, Fields
    <2> QED
      BY <1>0, <1>10, <2>1, <2>2, <2>3, MakeBackupEffect, CalmWritten
  <1>11. ASSUME NEW p \in Procs, Recheck(p) PROVE WrittenInv'
    <2>1. Calm(p)
      BY <1>0, <1>11, RecheckCalm
    <2>2. calls'[p].committed = calls[p].committed
      BY <1>11, <1>0, RecheckEffect DEF Changes, Fields
    <2>3. calls'[p].written = calls[p].written
      BY <1>11, <1>0, RecheckEffect DEF Changes, Fields
    <2> QED
      BY <1>0, <1>11, <2>1, <2>2, <2>3, RecheckEffect, CalmWritten
  <1>12. ASSUME NEW p \in Procs, Rename(p) PROVE WrittenInv'
    <2>1. Calm(p)
      BY <1>0, <1>12, RenameCalm
    <2>2. calls'[p].committed = calls[p].committed
      BY <1>12, <1>0, RenameEffect DEF Changes, Fields
    <2>3. calls'[p].written = calls[p].written
      BY <1>12, <1>0, RenameEffect DEF Changes, Fields
    <2> QED
      BY <1>0, <1>12, <2>1, <2>2, <2>3, RenameEffect, CalmWritten DEF Course
  <1>13. ASSUME NEW p \in Procs, Handle(p) PROVE WrittenInv'
    <2>1. Calm(p)
      BY <1>0, <1>13, HandleCalm
    <2>2. calls'[p].committed = calls[p].committed
      BY <1>13, <1>0, HandleEffect DEF Changes, Fields
    <2>3. calls'[p].written = calls[p].written
      BY <1>13, <1>0, HandleEffect DEF Changes, Fields
    <2> QED
      BY <1>0, <1>13, <2>1, <2>2, <2>3, HandleEffect, CalmWritten
  <1>14. ASSUME NEW p \in Procs, Restore(p) PROVE WrittenInv'
    <2>1. Calm(p)
      BY <1>0, <1>14, RestoreCalm
    <2>2. calls'[p].committed = calls[p].committed
      BY <1>14, <1>0, RestoreEffect DEF Changes, Fields
    <2>3. calls'[p].written = calls[p].written
      BY <1>14, <1>0, RestoreEffect DEF Changes, Fields
    <2> QED
      BY <1>0, <1>14, <2>1, <2>2, <2>3, RestoreEffect, CalmWritten
  <1>15. ASSUME NEW p \in Procs, Keep(p) PROVE WrittenInv'
    <2>1. Calm(p)
      BY <1>0, <1>15, KeepCalm
    <2>2. calls'[p].committed = calls[p].committed
      BY <1>15, <1>0, KeepEffect DEF Changes, Fields
    <2>3. calls'[p].written = calls[p].written
      BY <1>15, <1>0, KeepEffect DEF Changes, Fields
    <2> QED
      BY <1>0, <1>15, <2>1, <2>2, <2>3, KeepEffect, CalmWritten
  <1>16. ASSUME NEW p \in Procs, SaveFails(p) PROVE WrittenInv'
    <2>1. Calm(p)
      BY <1>0, <1>16, SaveFailsCalm
    <2>2. calls'[p].committed = calls[p].committed
      BY <1>16, <1>0, SaveFailsEffect DEF Changes, Fields
    <2>3. calls'[p].written = calls[p].written
      BY <1>16, <1>0, SaveFailsEffect DEF Changes, Fields
    <2> QED
      BY <1>0, <1>16, <2>1, <2>2, <2>3, SaveFailsEffect, CalmWritten
  <1>17. ASSUME NEW p \in Procs, Crash(p) PROVE WrittenInv'
    <2>1. Calm(p)
      BY <1>0, <1>17, CrashCalm
    <2>2. calls'[p].committed = calls[p].committed
      BY <1>17, <1>0, CrashEffect DEF Changes, Fields
    <2>3. calls'[p].written = calls[p].written
      BY <1>17, <1>0, CrashEffect DEF Changes, Fields
    <2> QED
      BY <1>0, <1>17, <2>1, <2>2, <2>3, CrashEffect, CalmWritten
  <1>18. ASSUME NEW p \in Procs, Check(p) PROVE WrittenInv'
    <2>1. /\ Changes(p, {"pc", "todo"}) /\ dir' = dir
          /\ calls'[p].written = calls[p].written /\ calls'[p].committed = calls[p].committed
      BY <1>0, <1>18, CheckEffect DEF Changes, Fields
    <2>2. ~Busy(p)'
      BY <1>0, <1>18, CheckEffect DEF Course, Busy, Changes, Fields, Removing
    <2>3. \A q \in Procs : q # p =>
            /\ calls'[q] = calls[q] /\ Busy(q)' = Busy(q) /\ Current(q)' = Current(q)
      BY <2>1, Others
    <2>4. \A f : Unwritten(f)' = Unwritten(f)
      BY <2>1, <2>3 DEF Unwritten
    <2> QED
      BY <2>1, <2>2, <2>3, <2>4 DEF WrittenInv
  <1>19. ASSUME NEW p \in Procs, Move(p) \/ Judge(p) \/ Relink(p) \/ Drop(p) PROVE WrittenInv'
    BY <1>0, <1>19, RemovalWritten
  <1>20. CASE SomeoneEdits
    <2>1. /\ calls' = calls /\ dir \in [Names -> Files \union {NoFile}]
          /\ \A m \in Names : dir'[m] \in {dir[m], NoFile, Foreign}
      BY <1>0, <1>20 DEF SomeoneEdits, TypeOK
    <2>2. \A f : Unwritten(f)' = Unwritten(f) /\ (Unwritten(f) => f \notin {NoFile, Foreign})
      BY <2>1, FilesAssumption DEF Unwritten
    <2>3. ASSUME NEW q \in Procs, Busy(q)', calls'[q].pc # "untemp" PROVE ~Unwritten(dir[Current(q)])'
      <3>1. /\ Busy(q) /\ Current(q)' = Current(q) /\ calls[q].pc # "untemp"
            /\ calls[q].slot \in Slots
        BY <2>1, <2>3 DEF Busy, Current, Basics, Courses, Course
      <3>2. Current(q) \in Names
        BY <3>1, NamesDiffer DEF Current
      <3> QED
        BY <2>1, <2>2, <3>1, <3>2 DEF WrittenInv
    <2> QED
      BY <2>1, <2>2, <2>3, FilesAssumption DEF WrittenInv
  <1>21. CASE UNCHANGED vars
    BY <1>21 DEF vars, WrittenInv, Unwritten, Busy, Current
  <1> QED
    BY <1>1, <1>2, <1>3, <1>4, <1>5, <1>6, <1>7, <1>8, <1>9, <1>10, <1>11, <1>12, <1>13, <1>14,
       <1>15, <1>16, <1>17, <1>18, <1>19, <1>20, <1>21 DEF Next, Continue

-----------------------------------------------------------------------------
\* Cases: what is done to the record, to the update and to the backup.

\* The names that the call of a case works on.
Reaches(p, n) ==
    \/ n \in {Temp(p), Backup(p)}
    \/ \E i \in Slots : n = Aside(p, i)
    \/ n = Target /\ Claiming(p)

\* A step of p changes no other names, and puts no other files there.
Within(p) ==
    /\ \A q \in Procs : q # p => calls'[q] = calls[q]
    /\ kind' = kind /\ taken' = taken
    /\ \A n \in Names : ~Reaches(p, n) => dir'[n] = dir[n]
    /\ \A n \in Names :
         \/ dir'[n] \in {dir[n], NoFile, p}
         \/ Claiming(p) /\ \E k \in Names : Reaches(p, k) /\ dir'[n] = dir[k]

\* Steps that are no part of a removal keep to the names in their reach.
LEMMA CalmWithin ==
    ASSUME Basics, NEW p \in Procs, NEW S, Changes(p, S), kind' = kind, taken' = taken,
           \/ dir' = dir
           \/ dir' = [dir EXCEPT ![Temp(p)] = p]
           \/ dir' = [dir EXCEPT ![Target] = p] /\ Claiming(p)
           \/ dir' = [dir EXCEPT ![Backup(p)] = dir[Target]] /\ Claiming(p)
           \/ dir' = [dir EXCEPT ![Target] = p, ![Temp(p)] = NoFile] /\ Claiming(p)
           \/ dir' = [dir EXCEPT ![Target] = dir[Backup(p)], ![Backup(p)] = NoFile] /\ Claiming(p)
    PROVE  Within(p)
  <1>1. dir \in [Names -> Files \union {NoFile}] /\ \A q \in Procs : q # p => calls'[q] = calls[q]
    BY DEF Basics, TypeOK, Changes
  <1>2. \A n \in Names : ~Reaches(p, n) => dir'[n] = dir[n]
    BY <1>1, NamesDiffer DEF Reaches
  <1>3. ASSUME NEW n \in Names
        PROVE  \/ dir'[n] \in {dir[n], NoFile, p}
               \/ Claiming(p) /\ \E k \in Names : Reaches(p, k) /\ dir'[n] = dir[k]
    BY <1>1, NamesDiffer DEF Reaches
  <1> QED
    BY <1>1, <1>2, <1>3 DEF Within

\* A removal touches the name it is about and the quarantine names of its call.
LEMMA RemovalReach ==
    ASSUME Basics, TodoShape, NEW p \in Procs, Move(p) \/ Judge(p) \/ Relink(p) \/ Drop(p)
    PROVE  /\ calls[p].pc \in Removing /\ Removed(p) \in Names
           /\ \A n \in Names : n # Removed(p) /\ (\A i \in Slots : n # Aside(p, i)) => dir'[n] = dir[n]
           /\ \A n \in Names :
                \/ dir'[n] \in {dir[n], NoFile, dir[Removed(p)]}
                \/ Busy(p) /\ Current(p) \in Names /\ calls[p].step = "relink" /\ dir'[n] = dir[Current(p)]
  <1>1. /\ TypeOK /\ Course(calls[p]) /\ dir \in [Names -> Files \union {NoFile}]
        /\ calls[p].pc = "remove" => calls[p].todo # <<>>
        /\ calls[p].step # "move" => calls[p].slot \in Slots
    BY DEF Basics, TypeOK, Courses, Course
  <1>2. calls[p].pc \in Removing
    BY RemovalKinds
  <1>3. Removed(p) \in Names
    BY <1>2, RemovedIs
  <1>4. CASE Move(p)
    <2>1. \/ dir' = dir \/ dir' = [dir EXCEPT ![Removed(p)] = NoFile]
          \/ /\ dir' = [dir EXCEPT ![Removed(p)] = NoFile, ![Aside(p, calls[p].slot + 1)] = dir[Removed(p)]]
             /\ calls[p].slot + 1 \in Slots
      BY <1>1, <1>4, MoveEffect
    <2> QED
      BY <1>1, <1>2, <1>3, <2>1, NamesDiffer
  <1>5. CASE Judge(p)
    <2>1. \/ dir' = dir \/ dir' = [dir EXCEPT ![Aside(p, calls[p].slot)] = NoFile]
      BY <1>1, <1>5, JudgeEffect
    <2>2. calls[p].slot \in Slots
      BY <1>1, <1>5, JudgeEffect
    <2> QED
      BY <1>1, <1>2, <1>3, <2>1, <2>2, NamesDiffer
  <1>6. CASE Relink(p)
    <2>1. \/ dir' = dir \/ dir' = [dir EXCEPT ![Removed(p)] = dir[Aside(p, calls[p].slot)]]
      BY <1>1, <1>6, RelinkEffect
    <2>2. calls[p].slot \in Slots /\ Busy(p) /\ calls[p].step = "relink"
      BY <1>1, <1>6, RelinkEffect DEF Busy
    <2> QED
      BY <1>1, <1>2, <1>3, <2>1, <2>2, NamesDiffer DEF Current
  <1>7. CASE Drop(p)
    <2>1. \/ dir' = dir \/ dir' = [dir EXCEPT ![Aside(p, calls[p].slot)] = NoFile]
      BY <1>1, <1>7, DropEffect
    <2>2. calls[p].slot \in Slots
      BY <1>1, <1>7, DropEffect
    <2> QED
      BY <1>1, <1>2, <1>3, <2>1, <2>2, NamesDiffer
  <1> QED
    BY <1>4, <1>5, <1>6, <1>7

\* So do removals, while cases are stored.
LEMMA RemovalWithin ==
    ASSUME Basics, NamesInv, kind = "case", NEW p \in Procs,
           Move(p) \/ Judge(p) \/ Relink(p) \/ Drop(p)
    PROVE  Within(p)
  <1>1. /\ dir \in [Names -> Files \union {NoFile}] /\ TodoShape /\ Course(calls[p])
        /\ calls[p].step # "move" => calls[p].slot \in Slots
    BY DEF Basics, TypeOK, NamesInv, Courses, Course
  <1>2. /\ Changes(p, RemovalFields) /\ calls[p].pc \in Removing /\ kind' = kind /\ taken' = taken
    BY RemovalKinds
  <1>3. /\ Removed(p) \in Names /\ Reaches(p, Removed(p))
        /\ Claiming(p) \/ (calls[p].pc = "untemp" /\ Removed(p) = Temp(p))
    <2>1. calls[p].pc # "remove"
      BY <1>1 DEF Course, RollbackOnly
    <2>2. CASE calls[p].pc \in {"unpublish", "undo"}
      <3>1. Claiming(p)
        BY <2>2 DEF Claiming, UpdateOnly
      <3>2. Removed(p) = Target /\ Removed(p) \in Names
        BY <1>1, <1>2, <2>2, RemovedIs
      <3> QED
        BY <3>1, <3>2 DEF Reaches
    <2>3. CASE calls[p].pc = "untemp"
      BY <1>1, <1>2, <2>3, RemovedIs, NamesDiffer DEF Reaches
    <2>4. CASE calls[p].pc = "unbackup"
      <3>1. Claiming(p)
        BY <2>4 DEF Claiming, UpdateOnly
      <3>2. Removed(p) = Backup(p) /\ Removed(p) \in Names
        BY <1>1, <1>2, <2>4, RemovedIs
      <3> QED
        BY <3>1, <3>2 DEF Reaches
    <2> QED
      BY <1>2, <2>1, <2>2, <2>3, <2>4 DEF Removing
  <1>4. \A n \in Names : ~Reaches(p, n) => dir'[n] = dir[n]
    BY <1>1, <1>3, RemovalReach DEF Reaches
  <1>5. ASSUME NEW n \in Names
        PROVE  \/ dir'[n] \in {dir[n], NoFile, p}
               \/ Claiming(p) /\ \E k \in Names : Reaches(p, k) /\ dir'[n] = dir[k]
    <2>1. CASE dir'[n] \in {dir[n], NoFile, dir[Removed(p)]}
      BY <1>3, <2>1 DEF NamesInv, TempOwn
    <2>2. CASE Busy(p) /\ Current(p) \in Names /\ calls[p].step = "relink" /\ dir'[n] = dir[Current(p)]
      <3>1. Reaches(p, Current(p))
        BY <1>1, <2>2 DEF Busy, Current, Reaches
      <3>2. Claiming(p) \/ OwnRemoval(p)
        BY <1>3, <2>2 DEF OwnRemoval
      <3> QED
        BY <2>2, <3>1, <3>2 DEF NamesInv, AsideOwn
    <2> QED
      BY <1>1, <2>1, <2>2, RemovalReach
  <1>6. \A q \in Procs : q # p => calls'[q] = calls[q]
    BY <1>2 DEF Changes
  <1> QED
    BY <1>2, <1>4, <1>5, <1>6 DEF Within

\* So do all steps of calls, while cases are stored.
LEMMA StepWithin ==
    ASSUME Basics, NamesInv, kind = "case", NEW p \in Procs,
           BeginCreate(p) \/ BeginUpdate(p) \/ Continue(p) \/ Crash(p)
    PROVE  Within(p)
  <1>0. TypeOK /\ Course(calls[p])
    BY DEF Basics, Courses
  <1>1. CASE Write(p)
    BY <1>0, <1>1, WriteEffect, CalmWithin DEF outside
  <1>2. CASE TakeClaim(p)
    BY <1>0, <1>2, TakeClaimEffect, CalmWithin DEF outside
  <1>3. CASE Link(p)
    BY <1>0, <1>3, LinkEffect, CalmWithin DEF outside, Claiming
  <1>4. CASE Verify(p)
    BY <1>0, <1>4, VerifyEffect, CalmWithin DEF outside
  <1>5. CASE Release(p)
    BY <1>0, <1>5, ReleaseEffect, CalmWithin DEF outside
  <1>6. CASE BeginCreate(p)
    BY <1>0, <1>6, BeginCreateEffect, CalmWithin DEF outside
  <1>7. CASE BeginUpdate(p)
    BY <1>0, <1>7, BeginUpdateEffect, CalmWithin DEF outside
  <1>8. CASE Read(p)
    BY <1>0, <1>8, ReadEffect, CalmWithin DEF outside
  <1>9. CASE Open(p)
    BY <1>0, <1>9, OpenEffect, CalmWithin DEF outside
  <1>10. CASE MakeBackup(p)
    BY <1>0, <1>10, MakeBackupEffect, CalmWithin DEF outside, Claiming, UpdateOnly
  <1>11. CASE Recheck(p)
    BY <1>0, <1>11, RecheckEffect, CalmWithin DEF outside
  <1>12. CASE Rename(p)
    BY <1>0, <1>12, RenameEffect, CalmWithin DEF outside, Claiming, UpdateOnly
  <1>13. CASE Handle(p)
    BY <1>0, <1>13, HandleEffect, CalmWithin DEF outside
  <1>14. CASE Restore(p)
    BY <1>0, <1>14, RestoreEffect, CalmWithin DEF outside, Claiming, UpdateOnly
  <1>15. CASE Keep(p)
    BY <1>0, <1>15, KeepEffect, CalmWithin DEF outside
  <1>16. CASE SaveFails(p)
    BY <1>0, <1>16, SaveFailsEffect, CalmWithin DEF outside
  <1>17. CASE Crash(p)
    BY <1>0, <1>17, CrashEffect, CalmWithin DEF outside
  <1>18. CASE Check(p)
    BY <1>0, <1>18, CheckEffect, CalmWithin DEF outside
  <1>19. CASE Move(p) \/ Judge(p) \/ Relink(p) \/ Drop(p)
    BY <1>19, RemovalWithin
  <1> QED
    BY <1>1, <1>2, <1>3, <1>4, <1>5, <1>6, <1>7, <1>8, <1>9, <1>10, <1>11, <1>12, <1>13, <1>14,
       <1>15, <1>16, <1>17, <1>18, <1>19 DEF Continue

\* Only the private names of p lead to its file.
Confined(p) == \A n \in Names : dir[n] = p => n = Temp(p) \/ \E i \in Slots : n = Aside(p, i)

\* What the steps of another call leave alone.
LEMMA Untouched ==
    ASSUME Basics, NEW p \in Procs, NEW q \in Procs, q # p, Within(q)
    PROVE  /\ calls'[p] = calls[p] /\ kind' = kind /\ taken' = taken
           /\ Busy(p)' = Busy(p) /\ Current(p)' = Current(p) /\ Removed(p)' = Removed(p)
           /\ dir'[Temp(p)] = dir[Temp(p)] /\ dir'[Backup(p)] = dir[Backup(p)]
           /\ \A i \in Slots : dir'[Aside(p, i)] = dir[Aside(p, i)]
           /\ claim = p => /\ dir'[Target] = dir[Target]
                           /\ \A n \in Names : dir'[n] = p => dir[n] = p
           /\ Confined(p) => Confined(p)'
  <1>1. /\ calls'[p] = calls[p] /\ kind' = kind /\ taken' = taken
        /\ Busy(p)' = Busy(p) /\ Current(p)' = Current(p) /\ Removed(p)' = Removed(p)
    BY Zenon DEF Within, Busy, Current, Removed
  <1>2. /\ ~Reaches(q, Temp(p)) /\ ~Reaches(q, Backup(p))
        /\ \A i \in Slots : ~Reaches(q, Aside(p, i))
    BY NamesDiffer DEF Reaches
  <1>3. /\ dir'[Temp(p)] = dir[Temp(p)] /\ dir'[Backup(p)] = dir[Backup(p)]
        /\ \A i \in Slots : dir'[Aside(p, i)] = dir[Aside(p, i)]
    BY <1>2, NamesDiffer DEF Within
  <1>4. p # NoFile
    BY FilesAssumption
  <1>5. ASSUME claim = p
        PROVE  dir'[Target] = dir[Target] /\ \A n \in Names : dir'[n] = p => dir[n] = p
    <2>1. ~Claiming(q)
      BY <1>5 DEF Basics, OneAtATime
    <2>2. ~Reaches(q, Target)
      BY <2>1, NamesDiffer DEF Reaches
    <2>3. dir'[Target] = dir[Target]
      BY <2>2, NamesDiffer DEF Within
    <2>4. \A n \in Names : dir'[n] = p => dir[n] = p
      BY <1>4, <2>1 DEF Within
    <2> QED
      BY <2>3, <2>4
  <1>6. ASSUME Confined(p) PROVE Confined(p)'
    <2>1. ASSUME NEW n \in Names, dir'[n] = p
          PROVE  n = Temp(p) \/ \E i \in Slots : n = Aside(p, i)
      <3>1. CASE dir[n] = p
        BY <1>6, <3>1 DEF Confined
      <3>2. CASE dir[n] # p
        <4>1. PICK k \in Names : Reaches(q, k) /\ dir[k] = p
          BY <1>4, <2>1, <3>2 DEF Within
        <4> QED
          BY <1>2, <1>6, <4>1 DEF Confined
      <3> QED
        BY <3>1, <3>2
    <2> QED
      BY <2>1 DEF Confined
  <1> QED
    BY <1>1, <1>3, <1>5, <1>6

\* What may be under the target's name once the call of p has put its file there.
Strange(p) == {p, Foreign, NoFile}

\* The record that an update was given is still there until the update replaces it,
\* and afterwards under the backup's name; whatever is under the target's name
\* instead was put there by others, who are to blame.
Outset(p) ==
    LET now == dir[Target] IN
    calls[p].op = "update" =>
    /\ calls[p].pc \in {"read", "open", "backup", "write", "recheck", "rename"} =>
         /\ now \in {calls[p].found, Foreign, NoFile}
         /\ now # calls[p].found => calls[p].found \in taken
    /\ calls[p].pc \in {"verify", "handle"} =>
         /\ now \in {calls[p].found, p, Foreign, NoFile}
         /\ now \notin {calls[p].found, p} => calls[p].found \in taken
         /\ \A n \in Names : dir[n] = p => n \in {Temp(p), Target}

Withdrawing(p) ==
    LET now == dir[Target] IN
    /\ calls[p].pc = "verify" \/ (calls[p].pc = "handle" /\ calls[p].published) => now \in Strange(p)
    /\ calls[p].pc \in {"unpublish", "undo"} =>
         /\ now \in Strange(p)
         /\ Busy(p) => dir[Current(p)] \in Strange(p)
         /\ Busy(p) /\ calls[p].step # "drop" => now = NoFile
    /\ calls[p].pc = "undo" =>
         \A n \in Names : dir[n] = p => n \in {Temp(p), Target} \/ \E i \in Slots : n = Aside(p, i)
    /\ calls[p].pc = "restore" => now = NoFile /\ Confined(p)

Safekeeping(p) ==
    LET c == calls[p] IN
    /\ c.backed /\ c.pc \in {"write", "recheck", "rename", "verify", "handle", "undo", "restore"}
         => dir[Backup(p)] = c.found
    /\ c.pc \in {"claim", "read", "open", "backup"} => ~c.backed
    /\ c.pc = "untemp" /\ c.backed /\ ~c.preserve => dir[Backup(p)] = c.found
    /\ c.pc = "unbackup" =>
         IF Busy(p) THEN dir[Current(p)] \in {c.found, NoFile} ELSE dir[Backup(p)] = c.found
    /\ c.op = "update" /\ ~c.committed /\ c.pc \in {"untemp", "unbackup", "release", "failed"} =>
         \/ Confined(p)
         \/ /\ dir[Backup(p)] = c.found /\ c.pc # "unbackup"
            /\ c.pc = "untemp" => c.preserve

CaseInv ==
    kind = "case" =>
      \A p \in Procs : calls[p].found # p /\ Outset(p) /\ Withdrawing(p) /\ Safekeeping(p)

\* Other calls do not disturb an update, for they are not under the claim.
LEMMA OthersCase ==
    ASSUME Basics, kind = "case", CaseInv, NEW p \in Procs, NEW q \in Procs, q # p, Within(q)
    PROVE  (calls[p].found # p /\ Outset(p) /\ Withdrawing(p) /\ Safekeeping(p))'
  <1>1. calls[p].found # p /\ Outset(p) /\ Withdrawing(p) /\ Safekeeping(p)
    BY DEF CaseInv
  <1>2. /\ calls'[p] = calls[p] /\ taken' = taken /\ Busy(p)' = Busy(p) /\ Current(p)' = Current(p)
        /\ dir'[Backup(p)] = dir[Backup(p)] /\ (Confined(p) => Confined(p)')
        /\ claim = p => /\ dir'[Target] = dir[Target]
                        /\ \A n \in Names : dir'[n] = p => dir[n] = p
    BY Untouched
  <1>3. Busy(p) => dir'[Current(p)] = dir[Current(p)]
    <2>1. Busy(p) => calls[p].slot \in Slots
      BY DEF Busy, Basics, Courses, Course
    <2> QED
      BY <2>1, Untouched DEF Current
  <1>4. Claiming(p) => claim = p
    BY DEF Basics, OneAtATime
  <1>5. Outset(p)'
    <2>1. ASSUME calls[p].op = "update",
                 calls[p].pc \in {"read", "open", "backup", "write", "recheck", "rename",
                                  "verify", "handle"}
          PROVE  Claiming(p)
      BY <2>1 DEF Claiming, UpdateOnly
    <2> QED
      BY <1>1, <1>2, <1>4, <2>1 DEF Outset
  <1>6. Withdrawing(p)'
    <2>1. calls[p].pc \in {"verify", "handle", "unpublish", "undo", "restore"} => Claiming(p)
      BY DEF Claiming, UpdateOnly
    <2> QED
      BY <1>1, <1>2, <1>3, <1>4, <2>1 DEF Withdrawing, Strange
  <1>7. Safekeeping(p)'
    BY <1>1, <1>2, <1>3 DEF Safekeeping
  <1> QED
    BY <1>1, <1>2, <1>5, <1>6, <1>7

\* Someone who ignores claims takes the record, and is to blame.
LEMMA EditCase ==
    ASSUME Basics, CaseInv, SomeoneEdits
    PROVE  CaseInv'
  <1>1. /\ calls' = calls /\ kind' = kind /\ taken \subseteq taken' /\ NoFile \notin Procs
        /\ dir \in [Names -> Files \union {NoFile}] /\ Foreign \notin Procs
        /\ dir[Target] \in Procs
        /\ \A n \in Names : n # Target => dir'[n] = dir[n]
        /\ \/ dir' = dir
           \/ /\ dir'[Target] \in {NoFile, Foreign}
              /\ {dir[Target], calls[dir[Target]].found} \subseteq taken'
    BY NamesDiffer, FilesAssumption DEF SomeoneEdits, Basics, TypeOK
  <1>2. ASSUME NEW p \in Procs, kind = "case"
        PROVE  (calls[p].found # p /\ Outset(p) /\ Withdrawing(p) /\ Safekeeping(p))'
    <2>1. calls[p].found # p /\ Outset(p) /\ Withdrawing(p) /\ Safekeeping(p)
      BY <1>2 DEF CaseInv
    <2>2. /\ dir'[Backup(p)] = dir[Backup(p)]
          /\ \A n \in Names : dir'[n] = p => dir[n] = p
          /\ Busy(p)' = Busy(p) /\ Current(p)' = Current(p)
      BY <1>1, NamesDiffer DEF Busy, Current
    <2>3. Confined(p) => Confined(p)'
      BY <2>2 DEF Confined
    <2>4. Busy(p) => dir'[Current(p)] = dir[Current(p)]
      <3>1. Busy(p) => calls[p].slot \in Slots
        BY DEF Busy, Basics, Courses, Course
      <3> QED
        BY <1>1, <3>1, NamesDiffer DEF Current
    <2>5. Outset(p)'
      BY <1>1, <2>1, <2>2 DEF Outset
    <2>6. Withdrawing(p)'
      BY <1>1, <2>1, <2>2, <2>3, <2>4 DEF Withdrawing, Strange
    <2>7. Safekeeping(p)'
      BY <1>1, <2>1, <2>2, <2>3, <2>4 DEF Safekeeping
    <2> QED
      BY <1>1, <2>1, <2>5, <2>6, <2>7
  <1> QED
    BY <1>1, <1>2 DEF CaseInv

\* What the steps of a call itself make of this, one lemma for each.

\* Write(p) leaves the update of p its record or its backup.
LEMMA WriteCase ==
    ASSUME Basics, Basics', NamesInv, kind = "case", CaseInv, NEW p \in Procs, Write(p)
    PROVE  (calls[p].found # p /\ Outset(p) /\ Withdrawing(p) /\ Safekeeping(p))'
  <1> DEFINE c == calls[p]
             d == calls'[p]
             now == dir[Target]
  <1>0. /\ TypeOK /\ Course(c) /\ c \in Call /\ dir \in [Names -> Files \union {NoFile}]
        /\ c.found # p /\ Outset(p) /\ Withdrawing(p) /\ Safekeeping(p)
    BY DEF Basics, TypeOK, Courses, CaseInv
  <1>1. /\ d.op = c.op /\ d.step = c.step /\ d.slot = c.slot /\ d.found = c.found
        /\ d.published = c.published /\ d.committed = c.committed
        /\ d.backed = c.backed /\ d.preserve = c.preserve
    BY <1>0, WriteEffect DEF Changes, Fields
  <1>2. c.step = "move"
    BY <1>0, WriteEffect DEF Course, Removing
  <1>3. \A n \in Names : dir[n] = p => n = Temp(p)
    BY WriteEffect, <1>0 DEF NamesInv, Unpublished, Preparing
  <1>4. d.found # p
    BY <1>0, <1>1, <1>3, WriteEffect
  <1>5. Outset(p)'
    BY <1>0, <1>1, <1>3, WriteEffect, NamesDiffer DEF Outset, Course, UpdateOnly, outside
  <1>6. Withdrawing(p)'
    BY <1>0, <1>1, <1>2, <1>3, WriteEffect, NamesDiffer DEF Withdrawing, Outset, Strange,
       Course, Busy, Preparing
  <1>7. Safekeeping(p)'
    BY <1>0, <1>1, <1>2, <1>3, WriteEffect, NamesDiffer DEF Safekeeping, Outset, Course,
       Confined, UpdateOnly, RollbackOnly
  <1> QED
    BY <1>4, <1>5, <1>6, <1>7

\* TakeClaim(p) leaves the update of p its record or its backup.
LEMMA TakeClaimCase ==
    ASSUME Basics, Basics', NamesInv, kind = "case", CaseInv, NEW p \in Procs, TakeClaim(p)
    PROVE  (calls[p].found # p /\ Outset(p) /\ Withdrawing(p) /\ Safekeeping(p))'
  <1> DEFINE c == calls[p]
             d == calls'[p]
             now == dir[Target]
  <1>0. /\ TypeOK /\ Course(c) /\ c \in Call /\ dir \in [Names -> Files \union {NoFile}]
        /\ c.found # p /\ Outset(p) /\ Withdrawing(p) /\ Safekeeping(p)
    BY DEF Basics, TypeOK, Courses, CaseInv
  <1>1. /\ d.op = c.op /\ d.step = c.step /\ d.slot = c.slot
        /\ d.published = c.published /\ d.committed = c.committed
        /\ d.backed = c.backed /\ d.preserve = c.preserve
    BY <1>0, TakeClaimEffect DEF Changes, Fields
  <1>2. c.step = "move"
    BY <1>0, TakeClaimEffect DEF Course, Removing
  <1>3. \A n \in Names : dir[n] = p => n = Temp(p)
    BY TakeClaimEffect, <1>0 DEF NamesInv, Unpublished, Preparing
  <1>4. d.found # p
    BY <1>0, <1>3, TakeClaimEffect, NamesDiffer
  <1>5. Outset(p)'
    BY <1>0, <1>1, <1>3, TakeClaimEffect, NamesDiffer DEF Outset, Course, UpdateOnly, outside
  <1>6. Withdrawing(p)'
    BY <1>0, <1>1, <1>2, <1>3, TakeClaimEffect, NamesDiffer DEF Withdrawing, Outset, Strange,
       Course, Busy, Preparing
  <1>7. Safekeeping(p)'
    BY <1>0, <1>1, <1>2, <1>3, TakeClaimEffect, NamesDiffer DEF Safekeeping, Outset, Course,
       Confined, UpdateOnly, RollbackOnly
  <1> QED
    BY <1>4, <1>5, <1>6, <1>7

\* Link(p) leaves the update of p its record or its backup.
LEMMA LinkCase ==
    ASSUME Basics, Basics', NamesInv, kind = "case", CaseInv, NEW p \in Procs, Link(p)
    PROVE  (calls[p].found # p /\ Outset(p) /\ Withdrawing(p) /\ Safekeeping(p))'
  <1> DEFINE c == calls[p]
             d == calls'[p]
             now == dir[Target]
  <1>0. /\ TypeOK /\ Course(c) /\ c \in Call /\ dir \in [Names -> Files \union {NoFile}]
        /\ c.found # p /\ Outset(p) /\ Withdrawing(p) /\ Safekeeping(p)
    BY DEF Basics, TypeOK, Courses, CaseInv
  <1>1. /\ d.op = c.op /\ d.step = c.step /\ d.slot = c.slot /\ d.found = c.found
        /\ d.published = c.published /\ d.committed = c.committed
        /\ d.backed = c.backed /\ d.preserve = c.preserve
    BY <1>0, LinkEffect DEF Changes, Fields
  <1>2. c.step = "move"
    BY <1>0, LinkEffect DEF Course, Removing
  <1>4. d.found # p
    BY <1>0, <1>1, LinkEffect
  <1>5. Outset(p)'
    BY <1>0, <1>1, LinkEffect, NamesDiffer DEF Outset, Course, UpdateOnly, outside
  <1>6. Withdrawing(p)'
    BY <1>0, <1>1, <1>2, LinkEffect, NamesDiffer DEF Withdrawing, Outset, Strange, Course, Busy,
       Preparing
  <1>7. Safekeeping(p)'
    BY <1>0, <1>1, <1>2, LinkEffect, NamesDiffer DEF Safekeeping, Outset, Course, Confined,
       UpdateOnly, RollbackOnly
  <1> QED
    BY <1>4, <1>5, <1>6, <1>7

\* Verify(p) leaves the update of p its record or its backup.
LEMMA VerifyCase ==
    ASSUME Basics, Basics', NamesInv, kind = "case", CaseInv, NEW p \in Procs, Verify(p)
    PROVE  (calls[p].found # p /\ Outset(p) /\ Withdrawing(p) /\ Safekeeping(p))'
  <1> DEFINE c == calls[p]
             d == calls'[p]
             now == dir[Target]
  <1>0. /\ TypeOK /\ Course(c) /\ c \in Call /\ dir \in [Names -> Files \union {NoFile}]
        /\ c.found # p /\ Outset(p) /\ Withdrawing(p) /\ Safekeeping(p)
    BY DEF Basics, TypeOK, Courses, CaseInv
  <1>1. /\ d.op = c.op /\ d.step = c.step /\ d.slot = c.slot /\ d.found = c.found
        /\ d.published = c.published /\ d.backed = c.backed
        /\ d.preserve = c.preserve
    BY <1>0, VerifyEffect DEF Changes, Fields
  <1>2. c.step = "move"
    BY <1>0, VerifyEffect DEF Course, Removing
  <1>4. d.found # p
    BY <1>0, <1>1, VerifyEffect
  <1>5. Outset(p)'
    BY <1>0, <1>1, VerifyEffect, NamesDiffer DEF Outset, Course, UpdateOnly, outside
  <1>6. Withdrawing(p)'
    BY <1>0, <1>1, <1>2, VerifyEffect, NamesDiffer DEF Withdrawing, Outset, Strange, Course,
       Busy, Preparing
  <1>7. Safekeeping(p)'
    BY <1>0, <1>1, <1>2, VerifyEffect, NamesDiffer DEF Safekeeping, Outset, Course, Confined,
       UpdateOnly, RollbackOnly
  <1> QED
    BY <1>4, <1>5, <1>6, <1>7

\* Release(p) leaves the update of p its record or its backup.
LEMMA ReleaseCase ==
    ASSUME Basics, Basics', NamesInv, kind = "case", CaseInv, NEW p \in Procs, Release(p)
    PROVE  (calls[p].found # p /\ Outset(p) /\ Withdrawing(p) /\ Safekeeping(p))'
  <1> DEFINE c == calls[p]
             d == calls'[p]
             now == dir[Target]
  <1>0. /\ TypeOK /\ Course(c) /\ c \in Call /\ dir \in [Names -> Files \union {NoFile}]
        /\ c.found # p /\ Outset(p) /\ Withdrawing(p) /\ Safekeeping(p)
    BY DEF Basics, TypeOK, Courses, CaseInv
  <1>1. /\ d.op = c.op /\ d.step = c.step /\ d.slot = c.slot /\ d.found = c.found
        /\ d.published = c.published /\ d.committed = c.committed
        /\ d.backed = c.backed /\ d.preserve = c.preserve
    BY <1>0, ReleaseEffect DEF Changes, Fields
  <1>2. c.step = "move"
    BY <1>0, ReleaseEffect DEF Course, Removing
  <1>4. d.found # p
    BY <1>0, <1>1, ReleaseEffect
  <1>5. Outset(p)'
    BY <1>0, <1>1, ReleaseEffect, NamesDiffer DEF Outset, Course, UpdateOnly, outside
  <1>6. Withdrawing(p)'
    BY <1>0, <1>1, <1>2, ReleaseEffect, NamesDiffer DEF Withdrawing, Outset, Strange, Course,
       Busy, Preparing
  <1>7. Safekeeping(p)'
    BY <1>0, <1>1, <1>2, ReleaseEffect, NamesDiffer DEF Safekeeping, Outset, Course, Confined,
       UpdateOnly, RollbackOnly
  <1> QED
    BY <1>4, <1>5, <1>6, <1>7

\* BeginCreate(p) leaves the update of p its record or its backup.
LEMMA BeginCreateCase ==
    ASSUME Basics, Basics', NamesInv, kind = "case", CaseInv, NEW p \in Procs, BeginCreate(p)
    PROVE  (calls[p].found # p /\ Outset(p) /\ Withdrawing(p) /\ Safekeeping(p))'
  <1> DEFINE c == calls[p]
             d == calls'[p]
             now == dir[Target]
  <1>0. /\ TypeOK /\ Course(c) /\ c \in Call /\ dir \in [Names -> Files \union {NoFile}]
        /\ c.found # p /\ Outset(p) /\ Withdrawing(p) /\ Safekeeping(p)
    BY DEF Basics, TypeOK, Courses, CaseInv
  <1>1. /\ d.op = c.op /\ d.step = c.step /\ d.slot = c.slot /\ d.found = c.found
        /\ d.published = c.published /\ d.committed = c.committed
        /\ d.backed = c.backed /\ d.preserve = c.preserve
    BY <1>0, BeginCreateEffect DEF Changes, Fields
  <1>2. c.step = "move"
    BY <1>0, BeginCreateEffect DEF Course, Removing
  <1>4. d.found # p
    BY <1>0, <1>1, BeginCreateEffect
  <1>5. Outset(p)'
    BY <1>0, <1>1, BeginCreateEffect, NamesDiffer DEF Outset, Course, UpdateOnly, outside
  <1>6. Withdrawing(p)'
    BY <1>0, <1>1, <1>2, BeginCreateEffect, NamesDiffer DEF Withdrawing, Outset, Strange,
       Course, Busy, Preparing
  <1>7. Safekeeping(p)'
    BY <1>0, <1>1, <1>2, BeginCreateEffect, NamesDiffer DEF Safekeeping, Outset, Course,
       Confined, UpdateOnly, RollbackOnly
  <1> QED
    BY <1>4, <1>5, <1>6, <1>7

\* BeginUpdate(p) leaves the update of p its record or its backup.
LEMMA BeginUpdateCase ==
    ASSUME Basics, Basics', NamesInv, kind = "case", CaseInv, NEW p \in Procs, BeginUpdate(p)
    PROVE  (calls[p].found # p /\ Outset(p) /\ Withdrawing(p) /\ Safekeeping(p))'
  <1> DEFINE c == calls[p]
             d == calls'[p]
             now == dir[Target]
  <1>0. /\ TypeOK /\ Course(c) /\ c \in Call /\ dir \in [Names -> Files \union {NoFile}]
        /\ c.found # p /\ Outset(p) /\ Withdrawing(p) /\ Safekeeping(p)
    BY DEF Basics, TypeOK, Courses, CaseInv
  <1>1. /\ d.step = c.step /\ d.slot = c.slot /\ d.found = c.found
        /\ d.published = c.published /\ d.committed = c.committed
        /\ d.backed = c.backed /\ d.preserve = c.preserve
    BY <1>0, BeginUpdateEffect DEF Changes, Fields
  <1>2. c.step = "move"
    BY <1>0, BeginUpdateEffect DEF Course, Removing
  <1>4. d.found # p
    BY <1>0, <1>1, BeginUpdateEffect
  <1>5. Outset(p)'
    BY <1>0, <1>1, BeginUpdateEffect, NamesDiffer DEF Outset, Course, UpdateOnly, outside
  <1>6. Withdrawing(p)'
    BY <1>0, <1>1, <1>2, BeginUpdateEffect, NamesDiffer DEF Withdrawing, Outset, Strange,
       Course, Busy, Preparing
  <1>7. Safekeeping(p)'
    BY <1>0, <1>1, <1>2, BeginUpdateEffect, NamesDiffer DEF Safekeeping, Outset, Course,
       Confined, UpdateOnly, RollbackOnly
  <1> QED
    BY <1>4, <1>5, <1>6, <1>7

\* Read(p) leaves the update of p its record or its backup.
LEMMA ReadCase ==
    ASSUME Basics, Basics', NamesInv, kind = "case", CaseInv, NEW p \in Procs, Read(p)
    PROVE  (calls[p].found # p /\ Outset(p) /\ Withdrawing(p) /\ Safekeeping(p))'
  <1> DEFINE c == calls[p]
             d == calls'[p]
             now == dir[Target]
  <1>0. /\ TypeOK /\ Course(c) /\ c \in Call /\ dir \in [Names -> Files \union {NoFile}]
        /\ c.found # p /\ Outset(p) /\ Withdrawing(p) /\ Safekeeping(p)
    BY DEF Basics, TypeOK, Courses, CaseInv
  <1>1. /\ d.op = c.op /\ d.step = c.step /\ d.slot = c.slot /\ d.found = c.found
        /\ d.published = c.published /\ d.committed = c.committed
        /\ d.backed = c.backed /\ d.preserve = c.preserve
    BY <1>0, ReadEffect DEF Changes, Fields
  <1>2. c.step = "move"
    BY <1>0, ReadEffect DEF Course, Removing
  <1>3. \A n \in Names : dir[n] = p => n = Temp(p)
    BY ReadEffect, <1>0 DEF NamesInv, Unpublished, Preparing
  <1>4. d.found # p
    BY <1>0, <1>1, <1>3, ReadEffect
  <1>5. Outset(p)'
    BY <1>0, <1>1, <1>3, ReadEffect, NamesDiffer DEF Outset, Course, UpdateOnly, outside
  <1>6. Withdrawing(p)'
    BY <1>0, <1>1, <1>2, <1>3, ReadEffect, NamesDiffer DEF Withdrawing, Outset, Strange, Course,
       Busy, Preparing
  <1>7. Safekeeping(p)'
    BY <1>0, <1>1, <1>2, <1>3, ReadEffect, NamesDiffer DEF Safekeeping, Outset, Course,
       Confined, UpdateOnly, RollbackOnly
  <1> QED
    BY <1>4, <1>5, <1>6, <1>7

\* Open(p) leaves the update of p its record or its backup.
LEMMA OpenCase ==
    ASSUME Basics, Basics', NamesInv, kind = "case", CaseInv, NEW p \in Procs, Open(p)
    PROVE  (calls[p].found # p /\ Outset(p) /\ Withdrawing(p) /\ Safekeeping(p))'
  <1> DEFINE c == calls[p]
             d == calls'[p]
             now == dir[Target]
  <1>0. /\ TypeOK /\ Course(c) /\ c \in Call /\ dir \in [Names -> Files \union {NoFile}]
        /\ c.found # p /\ Outset(p) /\ Withdrawing(p) /\ Safekeeping(p)
    BY DEF Basics, TypeOK, Courses, CaseInv
  <1>1. /\ d.op = c.op /\ d.step = c.step /\ d.slot = c.slot /\ d.found = c.found
        /\ d.published = c.published /\ d.committed = c.committed
        /\ d.backed = c.backed /\ d.preserve = c.preserve
    BY <1>0, OpenEffect DEF Changes, Fields
  <1>2. c.step = "move"
    BY <1>0, OpenEffect DEF Course, Removing
  <1>3. \A n \in Names : dir[n] = p => n = Temp(p)
    BY OpenEffect, <1>0 DEF NamesInv, Unpublished, Preparing
  <1>4. d.found # p
    BY <1>0, <1>1, <1>3, OpenEffect
  <1>5. Outset(p)'
    BY <1>0, <1>1, <1>3, OpenEffect, NamesDiffer DEF Outset, Course, UpdateOnly, outside
  <1>6. Withdrawing(p)'
    BY <1>0, <1>1, <1>2, <1>3, OpenEffect, NamesDiffer DEF Withdrawing, Outset, Strange, Course,
       Busy, Preparing
  <1>7. Safekeeping(p)'
    BY <1>0, <1>1, <1>2, <1>3, OpenEffect, NamesDiffer DEF Safekeeping, Outset, Course,
       Confined, UpdateOnly, RollbackOnly
  <1> QED
    BY <1>4, <1>5, <1>6, <1>7

\* MakeBackup(p) leaves the update of p its record or its backup.
LEMMA MakeBackupCase ==
    ASSUME Basics, Basics', NamesInv, kind = "case", CaseInv, NEW p \in Procs, MakeBackup(p)
    PROVE  (calls[p].found # p /\ Outset(p) /\ Withdrawing(p) /\ Safekeeping(p))'
  <1> DEFINE c == calls[p]
             d == calls'[p]
             now == dir[Target]
  <1>0. /\ TypeOK /\ Course(c) /\ c \in Call /\ dir \in [Names -> Files \union {NoFile}]
        /\ c.found # p /\ Outset(p) /\ Withdrawing(p) /\ Safekeeping(p)
    BY DEF Basics, TypeOK, Courses, CaseInv
  <1>1. /\ d.op = c.op /\ d.step = c.step /\ d.slot = c.slot /\ d.found = c.found
        /\ d.published = c.published /\ d.committed = c.committed
        /\ d.preserve = c.preserve
    BY <1>0, MakeBackupEffect DEF Changes, Fields
  <1>2. c.step = "move"
    BY <1>0, MakeBackupEffect DEF Course, Removing
  <1>3. \A n \in Names : dir[n] = p => n = Temp(p)
    BY MakeBackupEffect, <1>0 DEF NamesInv, Unpublished, Preparing
  <1>4. d.found # p
    BY <1>0, <1>1, <1>3, MakeBackupEffect
  <1>5. Outset(p)'
    BY <1>0, <1>1, <1>3, MakeBackupEffect, NamesDiffer DEF Outset, Course, UpdateOnly, outside
  <1>6. Withdrawing(p)'
    BY <1>0, <1>1, <1>2, <1>3, MakeBackupEffect, NamesDiffer DEF Withdrawing, Outset, Strange,
       Course, Busy, Preparing
  <1>7. Safekeeping(p)'
    BY <1>0, <1>1, <1>2, <1>3, MakeBackupEffect, NamesDiffer DEF Safekeeping, Outset, Course,
       Confined, UpdateOnly, RollbackOnly
  <1> QED
    BY <1>4, <1>5, <1>6, <1>7

\* Recheck(p) leaves the update of p its record or its backup.
LEMMA RecheckCase ==
    ASSUME Basics, Basics', NamesInv, kind = "case", CaseInv, NEW p \in Procs, Recheck(p)
    PROVE  (calls[p].found # p /\ Outset(p) /\ Withdrawing(p) /\ Safekeeping(p))'
  <1> DEFINE c == calls[p]
             d == calls'[p]
             now == dir[Target]
  <1>0. /\ TypeOK /\ Course(c) /\ c \in Call /\ dir \in [Names -> Files \union {NoFile}]
        /\ c.found # p /\ Outset(p) /\ Withdrawing(p) /\ Safekeeping(p)
    BY DEF Basics, TypeOK, Courses, CaseInv
  <1>1. /\ d.op = c.op /\ d.step = c.step /\ d.slot = c.slot /\ d.found = c.found
        /\ d.published = c.published /\ d.committed = c.committed
        /\ d.backed = c.backed
    BY <1>0, RecheckEffect DEF Changes, Fields
  <1>2. c.step = "move"
    BY <1>0, RecheckEffect DEF Course, Removing
  <1>3. \A n \in Names : dir[n] = p => n = Temp(p)
    BY RecheckEffect, <1>0 DEF NamesInv, Unpublished, Preparing
  <1>4. d.found # p
    BY <1>0, <1>1, <1>3, RecheckEffect
  <1>5. Outset(p)'
    BY <1>0, <1>1, <1>3, RecheckEffect, NamesDiffer DEF Outset, Course, UpdateOnly, outside
  <1>6. Withdrawing(p)'
    BY <1>0, <1>1, <1>2, <1>3, RecheckEffect, NamesDiffer DEF Withdrawing, Outset, Strange,
       Course, Busy, Preparing
  <1>7. Safekeeping(p)'
    BY <1>0, <1>1, <1>2, <1>3, RecheckEffect, NamesDiffer DEF Safekeeping, Outset, Course,
       Confined, UpdateOnly, RollbackOnly
  <1> QED
    BY <1>4, <1>5, <1>6, <1>7

\* Rename(p) leaves the update of p its record or its backup.
LEMMA RenameCase ==
    ASSUME Basics, Basics', NamesInv, kind = "case", CaseInv, NEW p \in Procs, Rename(p)
    PROVE  (calls[p].found # p /\ Outset(p) /\ Withdrawing(p) /\ Safekeeping(p))'
  <1> DEFINE c == calls[p]
             d == calls'[p]
             now == dir[Target]
  <1>0. /\ TypeOK /\ Course(c) /\ c \in Call /\ dir \in [Names -> Files \union {NoFile}]
        /\ c.found # p /\ Outset(p) /\ Withdrawing(p) /\ Safekeeping(p)
    BY DEF Basics, TypeOK, Courses, CaseInv
  <1>1. /\ d.op = c.op /\ d.step = c.step /\ d.slot = c.slot /\ d.found = c.found
        /\ d.committed = c.committed /\ d.backed = c.backed
        /\ d.preserve = c.preserve
    BY <1>0, RenameEffect DEF Changes, Fields
  <1>2. c.step = "move"
    BY <1>0, RenameEffect DEF Course, Removing
  <1>3. \A n \in Names : dir[n] = p => n = Temp(p)
    BY RenameEffect, <1>0 DEF NamesInv, Unpublished, Preparing
  <1>4. d.found # p
    BY <1>0, <1>1, <1>3, RenameEffect
  <1>5. Outset(p)'
    BY <1>0, <1>1, <1>3, RenameEffect, NamesDiffer DEF Outset, Course, UpdateOnly, outside
  <1>6. Withdrawing(p)'
    BY <1>0, <1>1, <1>2, <1>3, RenameEffect, NamesDiffer DEF Withdrawing, Outset, Strange,
       Course, Busy, Preparing
  <1>7. Safekeeping(p)'
    BY <1>0, <1>1, <1>2, <1>3, RenameEffect, NamesDiffer DEF Safekeeping, Outset, Course,
       Confined, UpdateOnly, RollbackOnly
  <1> QED
    BY <1>4, <1>5, <1>6, <1>7

\* Handle(p) leaves the update of p its record or its backup.
LEMMA HandleCase ==
    ASSUME Basics, Basics', NamesInv, kind = "case", CaseInv, NEW p \in Procs, Handle(p)
    PROVE  (calls[p].found # p /\ Outset(p) /\ Withdrawing(p) /\ Safekeeping(p))'
  <1> DEFINE c == calls[p]
             d == calls'[p]
             now == dir[Target]
  <1>0. /\ TypeOK /\ Course(c) /\ c \in Call /\ dir \in [Names -> Files \union {NoFile}]
        /\ c.found # p /\ Outset(p) /\ Withdrawing(p) /\ Safekeeping(p)
    BY DEF Basics, TypeOK, Courses, CaseInv
  <1>1. /\ d.op = c.op /\ d.step = c.step /\ d.slot = c.slot /\ d.found = c.found
        /\ d.published = c.published /\ d.committed = c.committed
        /\ d.backed = c.backed
    BY <1>0, HandleEffect DEF Changes, Fields
  <1>2. c.step = "move"
    BY <1>0, HandleEffect DEF Course, Removing
  <1>4. d.found # p
    BY <1>0, <1>1, HandleEffect
  <1>5. Outset(p)'
    BY <1>0, <1>1, HandleEffect, NamesDiffer DEF Outset, Course, UpdateOnly, outside
  <1>6. Withdrawing(p)'
    BY <1>0, <1>1, <1>2, HandleEffect, NamesDiffer DEF Withdrawing, Outset, Strange, Course,
       Busy, Preparing
  <1>7. Safekeeping(p)'
    <2>1. /\ c.pc = "handle" /\ c.op = "update" /\ dir' = dir /\ d.pc \in {"untemp", "undo"}
          /\ d.pc = "undo" => d.backed
          /\ c.backed => dir[Backup(p)] = c.found
      BY <1>0, <1>1, HandleEffect DEF Safekeeping, Course, UpdateOnly
    <2>2. d.pc = "untemp" => Confined(p)'
      <3>1. d.pc = "untemp" => now # p
        BY <1>0, <2>1, HandleEffect DEF NamesInv, HandlesBacked
      <3> QED
        BY <1>0, <2>1, <3>1 DEF Outset, Confined
    <2> QED
      BY <1>0, <1>1, <2>1, <2>2 DEF Safekeeping
  <1> QED
    BY <1>4, <1>5, <1>6, <1>7

\* Restore(p) leaves the update of p its record or its backup.
LEMMA RestoreCase ==
    ASSUME Basics, Basics', NamesInv, kind = "case", CaseInv, NEW p \in Procs, Restore(p)
    PROVE  (calls[p].found # p /\ Outset(p) /\ Withdrawing(p) /\ Safekeeping(p))'
  <1> DEFINE c == calls[p]
             d == calls'[p]
             now == dir[Target]
  <1>0. /\ TypeOK /\ Course(c) /\ c \in Call /\ dir \in [Names -> Files \union {NoFile}]
        /\ c.found # p /\ Outset(p) /\ Withdrawing(p) /\ Safekeeping(p)
    BY DEF Basics, TypeOK, Courses, CaseInv
  <1>1. /\ d.op = c.op /\ d.step = c.step /\ d.slot = c.slot /\ d.found = c.found
        /\ d.published = c.published /\ d.committed = c.committed
    BY <1>0, RestoreEffect DEF Changes, Fields
  <1>2. c.step = "move"
    BY <1>0, RestoreEffect DEF Course, Removing
  <1>4. d.found # p
    BY <1>0, <1>1, RestoreEffect
  <1>5. Outset(p)'
    BY <1>0, <1>1, RestoreEffect, NamesDiffer DEF Outset, Course, UpdateOnly, outside
  <1>6. Withdrawing(p)'
    BY <1>0, <1>1, <1>2, RestoreEffect, NamesDiffer DEF Withdrawing, Outset, Strange, Course,
       Busy, Preparing
  <1>7. Safekeeping(p)'
    <2>1. /\ c.pc = "restore" /\ d.pc = "untemp"
          /\ d.backed => d.preserve
          /\ dir' = dir \/ dir' = [dir EXCEPT ![Target] = dir[Backup(p)], ![Backup(p)] = NoFile]
      BY <1>0, RestoreEffect
    <2>2. dir[Backup(p)] = c.found /\ Confined(p)
      BY <1>0, <2>1 DEF Safekeeping, Withdrawing, Course, UpdateOnly
    <2>3. Confined(p)'
      BY <1>0, <2>1, <2>2, NamesDiffer, FilesAssumption DEF Confined
    <2> QED
      BY <1>1, <2>1, <2>3 DEF Safekeeping
  <1> QED
    BY <1>4, <1>5, <1>6, <1>7

\* Keep(p) leaves the update of p its record or its backup.
LEMMA KeepCase ==
    ASSUME Basics, Basics', NamesInv, kind = "case", CaseInv, NEW p \in Procs, Keep(p)
    PROVE  (calls[p].found # p /\ Outset(p) /\ Withdrawing(p) /\ Safekeeping(p))'
  <1> DEFINE c == calls[p]
             d == calls'[p]
             now == dir[Target]
  <1>0. /\ TypeOK /\ Course(c) /\ c \in Call /\ dir \in [Names -> Files \union {NoFile}]
        /\ c.found # p /\ Outset(p) /\ Withdrawing(p) /\ Safekeeping(p)
    BY DEF Basics, TypeOK, Courses, CaseInv
  <1> QED
    BY <1>0, KeepEffect DEF Course

\* SaveFails(p) leaves the update of p its record or its backup.
LEMMA SaveFailsCase ==
    ASSUME Basics, Basics', NamesInv, kind = "case", CaseInv, NEW p \in Procs, SaveFails(p)
    PROVE  (calls[p].found # p /\ Outset(p) /\ Withdrawing(p) /\ Safekeeping(p))'
  <1> DEFINE c == calls[p]
             d == calls'[p]
             now == dir[Target]
  <1>0. /\ TypeOK /\ Course(c) /\ c \in Call /\ dir \in [Names -> Files \union {NoFile}]
        /\ c.found # p /\ Outset(p) /\ Withdrawing(p) /\ Safekeeping(p)
    BY DEF Basics, TypeOK, Courses, CaseInv
  <1> QED
    BY <1>0, SaveFailsEffect DEF Course

\* Crash(p) leaves the update of p its record or its backup.
LEMMA CrashCase ==
    ASSUME Basics, Basics', NamesInv, kind = "case", CaseInv, NEW p \in Procs, Crash(p)
    PROVE  (calls[p].found # p /\ Outset(p) /\ Withdrawing(p) /\ Safekeeping(p))'
  <1> DEFINE c == calls[p]
             d == calls'[p]
             now == dir[Target]
  <1>0. /\ TypeOK /\ Course(c) /\ c \in Call /\ dir \in [Names -> Files \union {NoFile}]
        /\ c.found # p /\ Outset(p) /\ Withdrawing(p) /\ Safekeeping(p)
    BY DEF Basics, TypeOK, Courses, CaseInv
  <1>1. /\ d.op = c.op /\ d.step = c.step /\ d.slot = c.slot /\ d.found = c.found
        /\ d.published = c.published /\ d.committed = c.committed
        /\ d.backed = c.backed /\ d.preserve = c.preserve
    BY <1>0, CrashEffect DEF Changes, Fields
  <1>4. d.found # p
    BY <1>0, <1>1, CrashEffect
  <1>5. Outset(p)'
    BY <1>0, <1>1, CrashEffect, NamesDiffer DEF Outset, Course, UpdateOnly, outside
  <1>6. Withdrawing(p)'
    BY <1>0, <1>1, CrashEffect, NamesDiffer DEF Withdrawing, Outset, Strange, Course, Busy,
       Preparing
  <1>7. Safekeeping(p)'
    BY <1>0, <1>1, CrashEffect, NamesDiffer DEF Safekeeping, Outset, Course, Confined,
       UpdateOnly, RollbackOnly
  <1> QED
    BY <1>4, <1>5, <1>6, <1>7

\* Removing, in the call of a case: what a step leaves under the names that matter.
LEMMA RemovalCase ==
    ASSUME Basics, Basics', NamesInv, kind = "case", CaseInv, NEW p \in Procs,
           Move(p) \/ Judge(p) \/ Relink(p) \/ Drop(p)
    PROVE  (calls[p].found # p /\ Outset(p) /\ Withdrawing(p) /\ Safekeeping(p))'
  <1> DEFINE c == calls[p]
             d == calls'[p]
             now == dir[Target]
             n == Removed(p)
             a == Current(p)
  <1>0. /\ TypeOK /\ Course(c) /\ c \in Call /\ dir \in [Names -> Files \union {NoFile}]
        /\ c.found # p /\ Outset(p) /\ Withdrawing(p) /\ Safekeeping(p)
        /\ TodoShape /\ d \in Call
    BY DEF Basics, TypeOK, Courses, CaseInv, NamesInv
  <1>1. /\ d.op = c.op /\ d.found = c.found /\ d.published = c.published
        /\ d.committed = c.committed /\ d.backed = c.backed
        /\ c.pc \in {"unpublish", "untemp", "undo", "unbackup"}
    <2>1. Changes(p, RemovalFields) /\ c.pc \in Removing
      BY RemovalKinds
    <2>2. c.pc # "remove"
      BY <1>0 DEF Course, RollbackOnly
    <2> QED
      BY <2>1, <2>2 DEF Changes, Fields, RemovalFields, Removing
  <1>2. /\ n \in Names
        /\ c.pc \in {"unpublish", "undo"} => n = Target
        /\ c.pc = "untemp" => n = Temp(p)
        /\ c.pc = "unbackup" => n = Backup(p)
    BY <1>0, <1>1, RemovedIs DEF Removing
  <1>3. /\ \A m \in Names : m # n /\ (\A i \in Slots : m # Aside(p, i)) => dir'[m] = dir[m]
        /\ \A m \in Names :
             \/ dir'[m] \in {dir[m], NoFile, dir[n]}
             \/ Busy(p) /\ c.step = "relink" /\ a \in Names /\ dir'[m] = dir[a]
    BY <1>0, RemovalReach
  <1>4. \/ /\ ~Busy(p)
           /\ \/ EndsRemoval(c, d, "missing") /\ dir[n] = NoFile
              \/ EndsRemoval(c, d, "error")
              \/ /\ d.step = "judge" /\ d.pc = c.pc /\ d.preserve = c.preserve
                 /\ d.slot \in Slots /\ dir'[n] = NoFile /\ dir'[Current(p)'] = dir[n]
        \/ /\ Busy(p) /\ c.slot \in Slots /\ d.slot = c.slot
           /\ \/ EndsRemoval(c, d, "error")
              \/ EndsRemoval(c, d, "done") /\ c.step = "judge"
              \/ /\ d.step = "relink" /\ d.pc = c.pc /\ d.preserve = c.preserve /\ c.step = "judge"
                 /\ dir'[a] \in {dir[a], NoFile} /\ dir'[n] \in {dir[n], NoFile}
              \/ /\ d.step = "drop" /\ d.pc = c.pc /\ d.preserve = c.preserve /\ c.step = "relink"
                 /\ dir'[n] = dir[a] /\ dir'[a] \in {dir[a], NoFile}
    <2>1. /\ c.pc = "remove" => c.todo # <<>>
          /\ c.step # "move" => c.slot \in Slots
          /\ \A i \in Slots : Aside(p, i) \in Names /\ Aside(p, i) # n
      BY <1>0, <1>1, <1>2, NamesDiffer DEF Course
    <2>2. CASE Move(p)
      BY <1>0, <1>2, <2>1, <2>2, MoveEffect DEF Busy, Current
    <2>3. CASE Judge(p)
      BY <1>0, <1>1, <1>2, <2>1, <2>3, JudgeEffect DEF Busy, Current
    <2>4. CASE Relink(p)
      BY <1>0, <1>1, <1>2, <2>1, <2>4, RelinkEffect DEF Busy, Current
    <2>5. CASE Drop(p)
      BY <1>0, <1>1, <1>2, <2>1, <2>5, DropEffect DEF Busy, Current
    <2> QED
      BY <2>2, <2>3, <2>4, <2>5
  <1>5. /\ ~Busy(p) \/ ~Busy(p)' \/ (Current(p)' = a /\ Busy(p))
        /\ d.step = "move" => ~Busy(p)'
        /\ a \in Names \/ ~Busy(p)
    BY <1>4, NamesDiffer DEF Current, Busy
  <1> HIDE DEF n, a
  <1>6. Outset(p)'
    <2>1. d.pc \notin {"read", "open", "backup", "write", "recheck", "rename", "verify", "handle"}
      BY <1>1, <1>4 DEF EndsRemoval
    <2> QED
      BY <2>1 DEF Outset
  <1>7. CASE c.pc = "unpublish"
    <2>1. ~d.backed /\ d.op # "update" /\ d.pc \in {"unpublish", "untemp"}
      BY <1>0, <1>1, <1>4, <1>7 DEF Course, EndsRemoval
    <2>2. Safekeeping(p)'
      BY <2>1 DEF Safekeeping
    <2>3. n = Target /\ now \in Strange(p)
          /\ (Busy(p) => dir[a] \in Strange(p) /\ (c.step # "drop" => now = NoFile))
      BY <1>0, <1>2, <1>7 DEF Withdrawing, a
    <2>4. Withdrawing(p)'
      <3>1. CASE d.pc = "untemp"
        BY <3>1 DEF Withdrawing
      <3>2. CASE d.pc = "unpublish"
        <4>1. ~(\E result : EndsRemoval(c, d, result))
          BY <1>7, <3>2 DEF EndsRemoval
        <4>2. dir'[Target] \in Strange(p)
          BY <1>4, <2>3, <4>1 DEF Strange
        <4>3. Busy(p)' => dir'[Current(p)'] \in Strange(p) /\ (d.step # "drop" => dir'[Target] = NoFile)
          BY <1>4, <1>5, <2>3, <4>1 DEF Strange
        <4> QED
          BY <3>2, <4>2, <4>3 DEF Withdrawing, Strange
      <3> QED
        BY <2>1, <3>1, <3>2
    <2> QED
      BY <1>0, <1>1, <1>6, <2>2, <2>4
  <1>8. CASE c.pc = "untemp"
    <2>1. d.pc \in {"untemp", "unbackup", "release"}
      BY <1>4, <1>8 DEF EndsRemoval
    <2>2. Withdrawing(p)'
      BY <2>1 DEF Withdrawing
    <2>3. n = Temp(p) /\ dir'[Backup(p)] = dir[Backup(p)]
      BY <1>2, <1>3, <1>8, NamesDiffer
    <2>4. Confined(p) => Confined(p)'
      BY <1>2, <1>3, <2>3 DEF Confined
    <2>5. /\ d.pc = "unbackup" => c.backed /\ ~c.preserve /\ ~Busy(p)'
          /\ d.preserve = c.preserve
      BY <1>4, <1>8, <1>5 DEF EndsRemoval
    <2>6. Safekeeping(p)'
      BY <1>0, <1>1, <1>8, <2>1, <2>3, <2>4, <2>5 DEF Safekeeping
    <2> QED
      BY <1>0, <1>1, <1>6, <2>2, <2>6
  <1>9. CASE c.pc = "undo"
    <2>1. /\ n = Target /\ now \in Strange(p) /\ c.op = "update" /\ c.backed
          /\ Busy(p) => dir[a] \in Strange(p) /\ (c.step # "drop" => now = NoFile)
          /\ \A m \in Names : dir[m] = p => m \in {Temp(p), Target} \/ \E i \in Slots : m = Aside(p, i)
          /\ dir[Backup(p)] = c.found
      BY <1>0, <1>2, <1>9 DEF Withdrawing, Safekeeping, Course, UpdateOnly, a
    <2>2. dir'[Backup(p)] = c.found
      BY <1>2, <1>3, <2>1, NamesDiffer
    <2>3. \A m \in Names : dir'[m] = p => m \in {Temp(p), Target} \/ \E i \in Slots : m = Aside(p, i)
      BY <1>3, <2>1
    <2>4. CASE \E result : EndsRemoval(c, d, result)
      <3>1. PICK result : EndsRemoval(c, d, result) /\ (result = "done" => Busy(p) /\ c.step = "judge")
        BY <1>4, <1>9, <2>4 DEF EndsRemoval
      <3>2. CASE d.pc = "untemp"
        <4>1. d.preserve
          BY <1>9, <3>1, <3>2 DEF EndsRemoval
        <4> QED
          BY <1>0, <1>1, <1>6, <2>2, <3>2, <4>1 DEF Withdrawing, Safekeeping
      <3>3. CASE d.pc = "restore"
        <4>1. Busy(p) /\ c.step = "judge" /\ now = NoFile
          BY <1>9, <2>1, <3>1, <3>3 DEF EndsRemoval
        <4>2. dir'[Target] = NoFile
          BY <1>2, <1>3, <1>4, <2>1, <4>1
        <4>3. Confined(p)'
          BY <2>3, <4>2, FilesAssumption DEF Confined
        <4> QED
          BY <1>0, <1>1, <1>6, <2>2, <3>3, <4>2, <4>3 DEF Withdrawing, Safekeeping
      <3> QED
        BY <1>9, <3>1, <3>2, <3>3 DEF EndsRemoval
    <2>5. CASE ~(\E result : EndsRemoval(c, d, result))
      <3>1. d.pc = "undo"
        BY <1>4, <1>9, <2>5
      <3>2. dir'[Target] \in Strange(p)
        BY <1>4, <2>1, <2>5 DEF Strange
      <3>3. Busy(p)' => dir'[Current(p)'] \in Strange(p) /\ (d.step # "drop" => dir'[Target] = NoFile)
        BY <1>4, <1>5, <2>1, <2>5 DEF Strange
      <3> QED
        BY <1>0, <1>1, <1>6, <2>2, <2>3, <3>1, <3>2, <3>3 DEF Withdrawing, Safekeeping, Strange
    <2> QED
      BY <2>4, <2>5
  <1>10. CASE c.pc = "unbackup"
    <2>1. /\ n = Backup(p) /\ (c.op = "update" /\ ~c.committed => Confined(p))
          /\ IF Busy(p) THEN dir[a] \in {c.found, NoFile} ELSE dir[n] = c.found
      BY <1>0, <1>2, <1>10 DEF Safekeeping, a
    <2>2. d.pc \in {"unbackup", "release"}
      BY <1>4, <1>10 DEF EndsRemoval
    <2>3. Withdrawing(p)'
      BY <2>2 DEF Withdrawing
    <2>4. Confined(p) => Confined(p)'
      <3>1. ASSUME Confined(p), NEW m \in Names, dir'[m] = p
            PROVE  m = Temp(p) \/ \E i \in Slots : m = Aside(p, i)
        <4>1. dir'[m] = dir[m] \/ (\E i \in Slots : m = Aside(p, i)) \/ m = n
          BY <1>3
        <4>2. m # n
          BY <1>0, <1>2, <1>3, <2>1, <3>1, FilesAssumption, NamesDiffer DEF Confined
        <4> QED
          BY <3>1, <4>1, <4>2 DEF Confined
      <3> QED
        BY <3>1 DEF Confined
    <2>5. d.pc = "unbackup" => Busy(p)' /\ dir'[Current(p)'] \in {c.found, NoFile}
      <3>1. ASSUME d.pc = "unbackup" PROVE ~(\E result : EndsRemoval(c, d, result))
        BY <1>10, <3>1 DEF EndsRemoval
      <3> QED
        BY <1>4, <1>5, <1>10, <2>1, <3>1 DEF Busy, Removing
    <2>6. Safekeeping(p)'
      BY <1>0, <1>1, <1>10, <2>1, <2>2, <2>4, <2>5 DEF Safekeeping
    <2> QED
      BY <1>0, <1>1, <1>6, <2>3, <2>6
  <1> QED
    BY <1>1, <1>7, <1>8, <1>9, <1>10

\* Each step leaves an update its record or the backup of it.
LEMMA CaseStep ==
    ASSUME Basics, NamesInv, CaseInv, [Next]_vars
    PROVE  CaseInv'
  <1>0. Basics'
    BY BasicsStep
  <1>1. ASSUME NEW p \in Procs, BeginCreate(p) \/ BeginUpdate(p) \/ Continue(p) \/ Crash(p)
        PROVE  CaseInv'
    <2>1. CASE kind = "case"
      <3>1. Within(p)
        BY <1>1, <2>1, StepWithin
      <3>2. (calls[p].found # p /\ Outset(p) /\ Withdrawing(p) /\ Safekeeping(p))'
        BY Zenon, <1>0, <1>1, <2>1, WriteCase, TakeClaimCase, LinkCase, VerifyCase, ReleaseCase,
           BeginCreateCase, BeginUpdateCase, ReadCase, OpenCase, MakeBackupCase, RecheckCase,
           RenameCase, HandleCase, RestoreCase, KeepCase, SaveFailsCase, CrashCase,
           RemovalCase, CheckEffect DEF Continue, Basics, Courses, Course, RollbackOnly
      <3> QED
        BY <2>1, <3>1, <3>2, OthersCase DEF CaseInv
    <2>2. CASE kind # "case"
      <3>1. kind' = kind
        BY Zenon, <1>1 DEF BeginCreate, BeginUpdate, Continue, Crash, outside, Write,
           TakeClaim, Link,
           Verify, Release, Read, Open, MakeBackup, Recheck, Rename, Handle, Restore, Move,
           Judge, Relink, Drop, Keep, SaveFails, Check
      <3> QED
        BY <2>2, <3>1 DEF CaseInv
    <2> QED
      BY <2>1, <2>2
  <1>2. CASE SomeoneEdits
    BY <1>2, EditCase
  <1>3. CASE UNCHANGED vars
    BY <1>3 DEF vars, CaseInv, Outset, Withdrawing, Safekeeping, Confined, Busy, Current,
       Strange
  <1> QED
    BY <1>1, <1>2, <1>3 DEF Next

-----------------------------------------------------------------------------
\* Who replaces what.

\* A removal goes on or ends.
LEMMA RemovalEnds ==
    ASSUME Basics, NEW p \in Procs, Move(p) \/ Judge(p) \/ Relink(p) \/ Drop(p)
    PROVE  \/ calls'[p].pc = calls[p].pc /\ calls'[p].preserve = calls[p].preserve
           \/ \E result : EndsRemoval(calls[p], calls'[p], result)
  <1>1. TypeOK /\ (calls[p].pc = "remove" => calls[p].todo # <<>>)
    BY DEF Basics, Courses, Course
  <1>2. CASE Move(p)
    BY <1>1, <1>2, MoveEffect
  <1>3. CASE Judge(p)
    BY <1>1, <1>3, JudgeEffect
  <1>4. CASE Relink(p)
    BY <1>1, <1>4, RelinkEffect
  <1>5. CASE Drop(p)
    BY <1>1, <1>5, DropEffect
  <1> QED
    BY <1>2, <1>3, <1>4, <1>5

\* Calls only go on: what was reported stays reported, and only a call that gets
\* the claim chooses the record it works on.
LEMMA Progress ==
    ASSUME Basics, NEW p \in Procs, BeginCreate(p) \/ BeginUpdate(p) \/ Continue(p) \/ Crash(p)
    PROVE  /\ calls'[p].pc \in Undecided => calls[p].pc \in Undecided
           /\ calls'[p].pc = "untemp" => calls[p].pc \in Undecided \union {"untemp"}
           /\ calls'[p].pc \in {"check", "rollback_refused"} => calls[p].pc \in {"created", "check"}
           /\ calls'[p].op # calls[p].op => calls[p].pc \in {"begin", "created"}
           /\ calls'[p].found # calls[p].found =>
                calls[p].pc = "claim" /\ claim = NoFile /\ calls'[p].found = dir[Target]
           /\ calls'[p].committed # calls[p].committed =>
                calls'[p].committed /\ calls[p].pc = "verify" /\ dir[Target] = p
           /\ /\ calls'[p].pc \in Undecided \ {"begin", "claim"}
              /\ calls'[p].op = "update"
              => \/ calls[p].pc \in Undecided \ {"begin", "claim"} /\ calls[p].op = "update"
                 \/ calls[p].pc = "claim" /\ calls'[p].found = dir[Target]
           /\ \A q \in Procs : q # p => calls'[q] = calls[q]
           /\ kind' = kind /\ taken' = taken
  <1> DEFINE c == calls[p]
             d == calls'[p]
             Goal == /\ d.pc \in Undecided => c.pc \in Undecided
                     /\ d.pc = "untemp" => c.pc \in Undecided \union {"untemp"}
                     /\ d.pc \in {"check", "rollback_refused"} => c.pc \in {"created", "check"}
                     /\ d.op # c.op => c.pc \in {"begin", "created"}
                     /\ d.found # c.found => c.pc = "claim" /\ claim = NoFile /\ d.found = dir[Target]
                     /\ d.committed # c.committed => d.committed /\ c.pc = "verify" /\ dir[Target] = p
                     /\ d.pc \in Undecided \ {"begin", "claim"} /\ d.op = "update" =>
                          \/ c.pc \in Undecided \ {"begin", "claim"} /\ c.op = "update"
                          \/ c.pc = "claim" /\ d.found = dir[Target]
                     /\ \A q \in Procs : q # p => calls'[q] = calls[q]
                     /\ kind' = kind /\ taken' = taken
  <1> SUFFICES Goal
    OBVIOUS
  <1>0. TypeOK /\ Course(c) /\ c \in Call
    BY DEF Basics, Courses, TypeOK
  <1>1. CASE Write(p)
    BY <1>0, <1>1, WriteEffect DEF Changes, Fields, Undecided, Preparing, Course, UpdateOnly,
       outside
  <1>2. CASE TakeClaim(p)
    BY <1>0, <1>2, TakeClaimEffect DEF Changes, Fields, Undecided, Preparing, Course,
       UpdateOnly, outside
  <1>3. CASE Link(p)
    BY <1>0, <1>3, LinkEffect DEF Changes, Fields, Undecided, Preparing, Course, UpdateOnly,
       outside
  <1>4. CASE Verify(p)
    BY <1>0, <1>4, VerifyEffect DEF Changes, Fields, Undecided, Preparing, Course, UpdateOnly,
       outside
  <1>5. CASE Release(p)
    BY <1>0, <1>5, ReleaseEffect DEF Changes, Fields, Undecided, Preparing, Course, UpdateOnly,
       outside
  <1>6. CASE BeginCreate(p)
    BY <1>0, <1>6, BeginCreateEffect DEF Changes, Fields, Undecided, Preparing, Course,
       UpdateOnly, outside
  <1>7. CASE BeginUpdate(p)
    BY <1>0, <1>7, BeginUpdateEffect DEF Changes, Fields, Undecided, Preparing, Course,
       UpdateOnly, outside
  <1>8. CASE Read(p)
    BY <1>0, <1>8, ReadEffect DEF Changes, Fields, Undecided, Preparing, Course, UpdateOnly,
       outside
  <1>9. CASE Open(p)
    BY <1>0, <1>9, OpenEffect DEF Changes, Fields, Undecided, Preparing, Course, UpdateOnly,
       outside
  <1>10. CASE MakeBackup(p)
    BY <1>0, <1>10, MakeBackupEffect DEF Changes, Fields, Undecided, Preparing, Course,
       UpdateOnly, outside
  <1>11. CASE Recheck(p)
    BY <1>0, <1>11, RecheckEffect DEF Changes, Fields, Undecided, Preparing, Course, UpdateOnly,
       outside
  <1>12. CASE Rename(p)
    BY <1>0, <1>12, RenameEffect DEF Changes, Fields, Undecided, Preparing, Course, UpdateOnly,
       outside
  <1>13. CASE Handle(p)
    BY <1>0, <1>13, HandleEffect DEF Changes, Fields, Undecided, Preparing, Course, UpdateOnly,
       outside
  <1>14. CASE Restore(p)
    BY <1>0, <1>14, RestoreEffect DEF Changes, Fields, Undecided, Preparing, Course, UpdateOnly,
       outside
  <1>15. CASE Keep(p)
    BY <1>0, <1>15, KeepEffect DEF Changes, Fields, Undecided, Preparing, Course, UpdateOnly,
       outside
  <1>16. CASE SaveFails(p)
    BY <1>0, <1>16, SaveFailsEffect DEF Changes, Fields, Undecided, Preparing, Course,
       UpdateOnly, outside
  <1>17. CASE Crash(p)
    BY <1>0, <1>17, CrashEffect DEF Changes, Fields, Undecided, Preparing, Course, UpdateOnly,
       outside
  <1>18. CASE Check(p)
    BY <1>0, <1>18, CheckEffect DEF Changes, Fields, Undecided, Preparing, Course, UpdateOnly,
       outside
  <1>19. CASE Move(p) \/ Judge(p) \/ Relink(p) \/ Drop(p)
    <2>1. /\ Changes(p, RemovalFields) /\ c.pc \in Removing /\ kind' = kind /\ taken' = taken
          /\ d.pc = c.pc \/ \E result : EndsRemoval(c, d, result)
      BY <1>0, <1>19, RemovalKinds, RemovalEnds
    <2>2. /\ d.op = c.op /\ d.found = c.found /\ d.committed = c.committed
          /\ \A q \in Procs : q # p => calls'[q] = calls[q]
      BY <2>1 DEF Changes, Fields, RemovalFields
    <2>3. CASE d.pc = c.pc
      BY <2>1, <2>2, <2>3 DEF Removing
    <2>4. CASE \E result : EndsRemoval(c, d, result)
      BY <2>1, <2>2, <2>4, <1>0 DEF EndsRemoval, Removing, Undecided, Preparing, Course,
         UpdateOnly
    <2> QED
      BY <2>1, <2>3, <2>4
  <1> QED
    BY <1>1, <1>2, <1>3, <1>4, <1>5, <1>6, <1>7, <1>8, <1>9, <1>10, <1>11, <1>12, <1>13, <1>14,
       <1>15, <1>16, <1>17, <1>18, <1>19 DEF Continue

\* What a call brings back to the target's name is its own text or the record
\* it was to replace, and only for its own text or while there is nothing does
\* it take away what it finds.
LEMMA TargetStep ==
    ASSUME Basics, NamesInv, kind = "case", CaseInv, NEW p \in Procs,
           BeginCreate(p) \/ BeginUpdate(p) \/ Continue(p) \/ Crash(p)
    PROVE  /\ \/ dir'[Target] \in {dir[Target], NoFile, Foreign}
              \/ dir'[Target] = p /\ calls[p].pc \in Undecided
              \/ /\ dir'[Target] = calls[p].found /\ calls[p].pc = "restore"
                 /\ calls[p].op = "update"
           /\ \/ dir'[Target] = dir[Target]
              \/ dir[Target] \in Strange(p) /\ calls[p].pc \in Undecided
              \/ /\ calls[p].pc = "rename" /\ calls'[p].pc \in {"verify", "handle"}
                 /\ dir'[Backup(p)] = dir[Backup(p)]
  <1>0. /\ TypeOK /\ Course(calls[p]) /\ dir \in [Names -> Files \union {NoFile}] /\ TodoShape
        /\ Withdrawing(p) /\ Safekeeping(p)
    BY DEF Basics, Courses, TypeOK, CaseInv, NamesInv
  <1>1. CASE Write(p)
    BY <1>0, <1>1, WriteEffect
  <1>2. CASE TakeClaim(p)
    BY <1>0, <1>2, TakeClaimEffect
  <1>3. CASE Verify(p)
    BY <1>0, <1>3, VerifyEffect
  <1>4. CASE Release(p)
    BY <1>0, <1>4, ReleaseEffect
  <1>5. CASE BeginUpdate(p)
    BY <1>0, <1>5, BeginUpdateEffect
  <1>6. CASE Read(p)
    BY <1>0, <1>6, ReadEffect
  <1>7. CASE Recheck(p)
    BY <1>0, <1>7, RecheckEffect
  <1>8. CASE Handle(p)
    BY <1>0, <1>8, HandleEffect
  <1>9. CASE Keep(p)
    BY <1>0, <1>9, KeepEffect
  <1>10. CASE SaveFails(p)
    BY <1>0, <1>10, SaveFailsEffect
  <1>11. CASE Crash(p)
    BY <1>0, <1>11, CrashEffect
  <1>12. CASE Check(p)
    BY <1>0, <1>12, CheckEffect
  <1>13. CASE BeginCreate(p)
    BY <1>0, <1>13, BeginCreateEffect, NamesDiffer
  <1>14. CASE Open(p)
    BY <1>0, <1>14, OpenEffect, NamesDiffer
  <1>15. CASE MakeBackup(p)
    BY <1>0, <1>15, MakeBackupEffect, NamesDiffer
  <1>16. CASE Link(p)
    BY <1>0, <1>16, LinkEffect, NamesDiffer DEF Undecided, Preparing, Strange
  <1>17. CASE Rename(p)
    BY <1>0, <1>17, RenameEffect, NamesDiffer DEF Undecided, Preparing
  <1>18. CASE Restore(p)
    <2>1. calls[p].pc = "restore" /\ calls[p].op = "update" /\ calls[p].backed
      BY <1>0, <1>18, RestoreEffect DEF Course, UpdateOnly
    <2>2. dir[Backup(p)] = calls[p].found /\ dir[Target] = NoFile
      BY <1>0, <2>1 DEF Withdrawing, Safekeeping
    <2> QED
      BY <1>0, <1>18, <2>1, <2>2, RestoreEffect, NamesDiffer DEF Undecided, Strange
  <1>19. CASE Move(p) \/ Judge(p) \/ Relink(p) \/ Drop(p)
    <2>1. calls[p].pc \in Removing \ {"remove"}
      BY <1>0, <1>19, RemovalReach DEF Course, RollbackOnly
    <2>2. CASE calls[p].pc \in {"untemp", "unbackup"}
      <3>1. Removed(p) # Target
        BY <1>0, <2>2, RemovedIs, NamesDiffer DEF Removing
      <3> QED
        BY <1>0, <1>19, <3>1, RemovalReach, NamesDiffer
    <2>3. CASE calls[p].pc \in {"unpublish", "undo"}
      <3>1. Removed(p) = Target
        BY <1>0, <2>3, RemovedIs DEF Removing
      <3>2. dir[Target] \in Strange(p) /\ (Busy(p) => dir[Current(p)] \in Strange(p))
        BY <1>0, <2>3 DEF Withdrawing
      <3> QED
        BY <1>0, <1>19, <2>3, <3>1, <3>2, RemovalReach, NamesDiffer DEF Strange, Undecided
    <2> QED
      BY <2>1, <2>2, <2>3 DEF Removing
  <1> QED
    BY <1>1, <1>2, <1>3, <1>4, <1>5, <1>6, <1>7, <1>8, <1>9, <1>10, <1>11, <1>12, <1>13, <1>14,
       <1>15, <1>16, <1>17, <1>18, <1>19 DEF Continue

\* An update that works on its record, and one that was reported.
Holding(q) == calls[q].op = "update" /\ calls[q].pc \in Undecided \ {"begin", "claim"}
Reported(q) == calls[q].op = "update" /\ calls[q].committed

\* The record given to an update is that of a call which is past its own decision;
\* a record that was replaced never returns, and nobody else has it in hand.
OutcomeInv ==
    kind = "case" =>
    /\ \A q \in Procs : calls[q].found \in Procs => calls[calls[q].found].pc \notin Undecided
    /\ \A q \in Procs : Reported(q) /\ calls[q].found \in Procs =>
         /\ dir[Target] # calls[q].found
         /\ \A h \in Procs \ {q} : Holding(h) \/ Reported(h) => calls[h].found # calls[q].found

\* No step brings a record back that an update has replaced.
LEMMA OutcomeStep ==
    ASSUME Basics, NamesInv, CaseInv, OutcomeInv, [Next]_vars
    PROVE  OutcomeInv'
  <1>0. /\ dir \in [Names -> Files \union {NoFile}] /\ \A q \in Procs : Course(calls[q])
        /\ \A q \in Procs : calls[q].committed \in BOOLEAN
        /\ \A q \in Procs : calls'[q].committed \in BOOLEAN
        /\ NoFile \notin Procs /\ Foreign \notin Procs
    BY BasicsStep, FilesAssumption DEF Basics, TypeOK, Courses, Call
  <1>1. ASSUME NEW p \in Procs, BeginCreate(p) \/ BeginUpdate(p) \/ Continue(p) \/ Crash(p),
               kind = "case"
        PROVE  OutcomeInv'
    <2>1. /\ \A q \in Procs : calls'[q].pc \in Undecided => calls[q].pc \in Undecided
          /\ \A q \in Procs : calls'[q].found = calls[q].found \/
               (q = p /\ calls[p].pc = "claim" /\ claim = NoFile /\ calls'[p].found = dir[Target])
          /\ \A q \in Procs : Holding(q)' => Holding(q) \/ (q = p /\ calls'[q].found = dir[Target])
          /\ \A q \in Procs : Reported(q)' => /\ Reported(q) \/ (q = p /\ calls[p].pc = "verify" /\ dir[Target] = p)
                                              /\ calls[q].op = "update" /\ calls[q].pc # "claim"
          /\ kind' = kind
      <3>1. ASSUME NEW q \in Procs, Reported(q)'
            PROVE  /\ Reported(q) \/ (q = p /\ calls[p].pc = "verify" /\ dir[Target] = p)
                   /\ calls[q].op = "update" /\ calls[q].pc # "claim"
        <4>1. calls[q].committed \/ (q = p /\ calls[p].pc = "verify" /\ dir[Target] = p)
          BY <1>0, <1>1, <3>1, Progress DEF Reported
        <4>2. calls[q].pc \notin {"begin", "claim"}
          BY <1>0, <4>1 DEF Course, Undecided, Preparing
        <4>3. calls[q].pc = "created" => kind # "case"
          BY <1>0, <1>1 DEF Course
        <4>4. calls'[q].op = "update" => calls[q].op = "update"
          BY <1>1, <4>2, <4>3, Progress
        <4> QED
          BY <3>1, <4>1, <4>2, <4>4 DEF Reported
      <3> QED
        BY <1>1, <3>1, Progress DEF Holding
    <2>2. ASSUME NEW q \in Procs, calls'[q].found \in Procs
          PROVE  calls[calls'[q].found].pc \notin Undecided
      <3>1. CASE calls'[q].found = calls[q].found
        BY <1>1, <2>2, <3>1 DEF OutcomeInv
      <3>2. CASE claim = NoFile /\ calls'[q].found = dir[Target]
        <4> DEFINE f == dir[Target]
        <4>1. ~Claiming(f) /\ f \in Procs
          BY <1>0, <2>2, <3>2 DEF Basics, OneAtATime
        <4>2. calls[f].pc \notin Preparing
          BY <4>1, NamesDiffer DEF NamesInv, Unpublished
        <4> QED
          BY <3>2, <4>1, <4>2 DEF Undecided, Claiming, UpdateOnly
      <3> QED
        BY <2>1, <3>1, <3>2
    <2>3. ASSUME NEW q \in Procs, Reported(q)', calls'[q].found \in Procs
          PROVE  /\ dir'[Target] # calls'[q].found
                 /\ \A h \in Procs \ {q} : Holding(h)' \/ Reported(h)' => calls'[h].found # calls'[q].found
      <3> DEFINE f == calls[q].found
      <3>1. calls'[q].found = f /\ f \in Procs /\ calls[f].pc \notin Undecided
        BY <1>1, <2>1, <2>3 DEF OutcomeInv
      <3>2. dir[Target] # f
        <4>1. CASE Reported(q)
          BY <1>1, <3>1, <4>1 DEF OutcomeInv
        <4>2. CASE dir[Target] = q
          BY <1>1, <4>2 DEF CaseInv
        <4> QED
          BY <2>1, <2>3, <4>1, <4>2
      <3>3. ASSUME NEW h \in Procs \ {q}, Holding(h) \/ Reported(h) PROVE calls[h].found # f
        <4>1. CASE Reported(q)
          BY <1>1, <3>1, <3>3, <4>1 DEF OutcomeInv
        <4>2. CASE Reported(h)
          <5>1. CASE Reported(q)
            BY <4>1, <5>1
          <5>2. CASE q = p /\ calls[p].pc = "verify" /\ dir[Target] = p
            <6>1. Holding(q)
              BY <2>1, <2>3, <5>2 DEF Holding, Undecided
            <6> QED
              BY <1>1, <3>1, <4>2, <6>1 DEF OutcomeInv
          <5> QED
            BY <2>1, <2>3, <5>1, <5>2
        <4>3. CASE Holding(h) /\ q = p /\ calls[p].pc = "verify"
          <5>1. claim = q
            BY <4>3 DEF Basics, OneAtATime, Claiming
          <5>2. Claiming(h)
            BY <1>0, <4>3 DEF Holding, Claiming, Undecided, Preparing, UpdateOnly, Course
          <5> QED
            BY <5>1, <5>2 DEF Basics, OneAtATime
        <4> QED
          BY <2>1, <2>3, <3>3, <4>1, <4>2, <4>3
      <3> HIDE DEF f
      <3>4. dir'[Target] # f
        <4>1. CASE dir'[Target] \in {dir[Target], NoFile, Foreign}
          BY <1>0, <3>1, <3>2, <4>1
        <4>2. CASE dir'[Target] = p /\ calls[p].pc \in Undecided
          BY <3>1, <4>2
        <4>3. CASE dir'[Target] = calls[p].found /\ calls[p].pc = "restore" /\ calls[p].op = "update"
          <5>1. Holding(p)
            BY <4>3 DEF Holding, Undecided
          <5>2. p # q
            <6>1. ~Reported(p)
              BY <1>0, <4>3 DEF Reported, Course, Undecided
            <6> QED
              BY <2>1, <2>3, <4>3, <6>1
          <5> QED
            BY <3>3, <4>3, <5>1, <5>2
        <4> QED
          BY <1>1, <4>1, <4>2, <4>3, TargetStep
      <3>5. ASSUME NEW h \in Procs \ {q}, Holding(h)' \/ Reported(h)' PROVE calls'[h].found # f
        <4>1. CASE calls'[h].found = dir[Target]
          BY <3>2, <4>1
        <4>2. CASE calls'[h].found = calls[h].found /\ (Holding(h) \/ Reported(h))
          BY <3>3, <4>2
        <4>3. CASE calls'[h].found = calls[h].found /\ h = p /\ calls[p].pc = "verify" /\ Reported(h)'
          <5>1. Holding(h)
            BY <2>1, <4>3 DEF Holding, Undecided
          <5> QED
            BY <3>3, <4>3, <5>1
        <4> QED
          BY <2>1, <3>5, <4>1, <4>2, <4>3
      <3> QED
        BY <3>1, <3>4, <3>5
    <2>4. \A q \in Procs : calls'[q].found \in Procs => calls'[calls'[q].found].pc \notin Undecided
      BY <2>1, <2>2
    <2> QED
      BY <2>1, <2>3, <2>4 DEF OutcomeInv
  <1>2. CASE SomeoneEdits
    <2>1. /\ calls' = calls /\ kind' = kind
          /\ dir'[Target] \in {dir[Target], NoFile, Foreign}
      BY <1>0, <1>2, NamesDiffer DEF SomeoneEdits
    <2> QED
      BY <1>0, <2>1 DEF OutcomeInv, Holding, Reported
  <1>3. CASE UNCHANGED vars
    BY <1>3 DEF vars, OutcomeInv, Holding, Reported
  <1>4. ASSUME NEW p \in Procs, BeginCreate(p) \/ BeginUpdate(p) \/ Continue(p) \/ Crash(p),
               kind # "case"
        PROVE  OutcomeInv'
    BY <1>4, Progress DEF OutcomeInv
  <1> QED
    BY <1>1, <1>2, <1>3, <1>4 DEF Next

-----------------------------------------------------------------------------
\* Cases are kept: under the target's name or under that of a backup.

KeptCase(f) == calls[f].committed /\ f \notin taken /\ ~Superseded(f)

\* An update has f in hand, and will not remove its backup.
BackedUp(f, q) ==
    LET c == calls[q] IN
    /\ c.found = f /\ c.op = "update" /\ dir[Backup(q)] = f
    /\ c.pc \notin Preparing \ {"write", "recheck", "rename"}
    /\ ~(c.pc \in {"untemp", "unbackup"} /\ c.backed /\ ~c.preserve)

CaseKept ==
    kind = "case" => \A f \in Procs : KeptCase(f) =>
      dir[Target] = f \/ \E q \in Procs : BackedUp(f, q)

\* Calls that are not reported keep the backup or have put it back.
LEMMA BackedStep ==
    ASSUME Basics, NamesInv, kind = "case", CaseInv, NEW p \in Procs, NEW f \in Procs,
           BeginCreate(p) \/ BeginUpdate(p) \/ Continue(p) \/ Crash(p),
           f \notin taken, BackedUp(f, p),
           ~(calls'[p].op = "update" /\ calls'[p].committed /\ calls'[p].found = f)
    PROVE  dir'[Target] = f \/ BackedUp(f, p)'
  <1> DEFINE c == calls[p]
             d == calls'[p]
  <1>0. /\ TypeOK /\ Course(c) /\ c \in Call /\ dir \in [Names -> Files \union {NoFile}]
        /\ c.found = f /\ c.op = "update" /\ dir[Backup(p)] = f
        /\ c.pc \notin Preparing \ {"write", "recheck", "rename"}
        /\ ~(c.pc \in {"untemp", "unbackup"} /\ c.backed /\ ~c.preserve)
        /\ Outset(p) /\ NoFile \notin Procs /\ Foreign \notin Procs /\ f # p /\ TodoShape
    BY FilesAssumption DEF Basics, Courses, TypeOK, BackedUp, CaseInv, NamesInv
  <1>1. CASE Write(p)
    <2>1. d.found = f /\ d.op = "update" /\ dir' = dir /\ d.pc \in {"recheck", "handle"}
      BY <1>0, <1>1, WriteEffect DEF Changes, Fields
    <2> QED
      BY <1>0, <2>1 DEF BackedUp, Preparing
  <1>2. CASE Verify(p)
    <2>1. d.found = f /\ d.op = "update" /\ dir' = dir /\ d.pc = "handle"
      BY <1>0, <1>2, VerifyEffect DEF Changes, Fields
    <2> QED
      BY <1>0, <2>1 DEF BackedUp, Preparing
  <1>3. CASE Release(p)
    <2>1. d.found = f /\ d.op = "update" /\ dir' = dir /\ d.pc \in {"failed", "updated"}
      BY <1>0, <1>3, ReleaseEffect DEF Changes, Fields
    <2> QED
      BY <1>0, <2>1 DEF BackedUp, Preparing
  <1>4. CASE Recheck(p)
    <2>1. d.found = f /\ d.op = "update" /\ dir' = dir /\ d.pc \in {"rename", "handle"}
      BY <1>0, <1>4, RecheckEffect DEF Changes, Fields
    <2> QED
      BY <1>0, <2>1 DEF BackedUp, Preparing
  <1>5. CASE Rename(p)
    <2>1. /\ d.found = f /\ d.op = "update" /\ d.pc \in {"verify", "handle"}
          /\ dir' = dir \/ dir' = [dir EXCEPT ![Target] = p, ![Temp(p)] = NoFile]
      BY <1>0, <1>5, RenameEffect DEF Changes, Fields
    <2> QED
      BY <1>0, <2>1, NamesDiffer DEF BackedUp, Preparing
  <1>6. CASE Handle(p)
    <2>1. /\ d.found = f /\ d.op = "update" /\ d.backed = c.backed /\ dir' = dir
          /\ c.pc = "handle" /\ d.pc \in {"untemp", "undo"}
      BY <1>0, <1>6, HandleEffect DEF Changes, Fields
    <2>2. CASE d.pc = "untemp" /\ c.backed /\ ~d.preserve
      <3>1. dir[Target] \notin {p, NoFile}
        BY <1>0, <1>6, <2>2, HandleEffect
      <3>2. dir[Target] = f
        BY <1>0, <2>1, <3>1 DEF Outset
      <3> QED
        BY <2>1, <3>2
    <2>3. CASE ~(d.pc = "untemp" /\ c.backed /\ ~d.preserve)
      BY <1>0, <2>1, <2>3 DEF BackedUp, Preparing
    <2> QED
      BY <2>2, <2>3
  <1>7. CASE Restore(p)
    <2>1. /\ d.found = f /\ d.op = "update" /\ d.pc = "untemp"
          /\ \/ dir' = [dir EXCEPT ![Target] = dir[Backup(p)], ![Backup(p)] = NoFile]
             \/ dir' = dir /\ d.preserve
      BY <1>0, <1>7, RestoreEffect DEF Changes, Fields
    <2> QED
      BY <1>0, <2>1, NamesDiffer DEF BackedUp, Preparing
  <1>8. CASE Crash(p)
    <2>1. d.found = f /\ d.op = "update" /\ dir' = dir /\ d.pc = "crashed"
      BY <1>0, <1>8, CrashEffect DEF Changes, Fields
    <2> QED
      BY <1>0, <2>1 DEF BackedUp, Preparing
  <1>9. CASE Move(p) \/ Judge(p) \/ Relink(p) \/ Drop(p)
    <2>1. Changes(p, RemovalFields) /\ c.pc \in Removing
      BY <1>9, RemovalKinds
    <2>2. d.found = f /\ d.op = "update" /\ d.backed = c.backed
      BY <1>0, <2>1 DEF Changes, Fields, RemovalFields
    <2>3. c.pc \in {"untemp", "undo"}
      BY <1>0, <2>1 DEF Course, Removing, UpdateOnly, RollbackOnly
    <2>4. dir'[Backup(p)] = f
      <3>1. Removed(p) # Backup(p)
        BY <1>0, <2>1, <2>3, RemovedIs, NamesDiffer
      <3> QED
        BY <1>0, <1>9, <3>1, RemovalReach, NamesDiffer
    <2>5. /\ d.pc \notin Preparing
          /\ ~(d.pc \in {"untemp", "unbackup"} /\ d.backed /\ ~d.preserve)
      <3>1. CASE d.pc = c.pc /\ d.preserve = c.preserve
        BY <1>0, <2>2, <2>3, <3>1 DEF Preparing
      <3>2. CASE \E result : EndsRemoval(c, d, result)
        BY <1>0, <2>2, <2>3, <3>2 DEF EndsRemoval, Preparing
      <3> QED
        BY <1>0, <1>9, <3>1, <3>2, RemovalEnds
    <2> QED
      BY <2>2, <2>4, <2>5 DEF BackedUp
  <1>10. CASE TakeClaim(p) \/ Link(p) \/ Read(p) \/ Open(p) \/ MakeBackup(p) \/ BeginCreate(p) \/ BeginUpdate(p)
    BY <1>0, <1>10, TakeClaimEffect, LinkEffect, ReadEffect, OpenEffect, MakeBackupEffect,
       BeginCreateEffect, BeginUpdateEffect DEF Preparing
  <1>11. CASE Keep(p) \/ SaveFails(p) \/ Check(p)
    BY <1>0, <1>11, KeepEffect, SaveFailsEffect, CheckEffect DEF Course, RollbackOnly
  <1> QED
    BY <1>1, <1>2, <1>3, <1>4, <1>5, <1>6, <1>7, <1>8, <1>9, <1>10, <1>11 DEF Continue

\* No step loses the text of a case that was reported.
LEMMA CaseKeptStep ==
    ASSUME Basics, NamesInv, CaseInv, CaseKept, [Next]_vars
    PROVE  CaseKept'
  <1>0. /\ dir \in [Names -> Files \union {NoFile}] /\ \A q \in Procs : Course(calls[q])
        /\ \A q \in Procs : calls[q].committed \in BOOLEAN
        /\ \A q \in Procs : calls'[q].committed \in BOOLEAN
        /\ NoFile \notin Procs /\ Foreign \notin Procs
    BY BasicsStep, FilesAssumption DEF Basics, TypeOK, Courses, Call
  <1>1. ASSUME NEW p \in Procs, BeginCreate(p) \/ BeginUpdate(p) \/ Continue(p) \/ Crash(p),
               kind = "case", NEW f \in Procs, KeptCase(f)'
        PROVE  dir'[Target] = f \/ \E q \in Procs : BackedUp(f, q)'
    <2>1. /\ \A q \in Procs : q # p => calls'[q] = calls[q]
          /\ calls[p].committed => calls'[p].committed
          /\ calls[p].committed => calls'[p].op = calls[p].op /\ calls'[p].found = calls[p].found
          /\ calls'[f].committed => calls[f].committed \/ (f = p /\ dir[Target] = f /\ calls[p].pc = "verify")
          /\ taken' = taken
      <3>1. calls[p].committed => calls[p].pc \notin {"begin", "claim", "created"}
        BY <1>0, <1>1 DEF Course, Undecided, Preparing
      <3> QED
        BY <1>0, <1>1, <3>1, Progress
    <2>2. ~Superseded(f)
      <3>1. ASSUME NEW q \in Procs, calls[q].op = "update", calls[q].committed, calls[q].found = f
            PROVE  FALSE
        BY <1>1, <2>1, <3>1 DEF KeptCase, Superseded
      <3> QED
        BY <3>1 DEF Superseded
    <2>3. CASE ~calls[f].committed
      <3>1. f = p /\ dir[Target] = f /\ calls[p].pc = "verify"
        BY <1>1, <2>1, <2>3 DEF KeptCase
      <3>2. dir'[Target] = f
        <4>1. Verify(p) \/ Crash(p)
          BY <1>1, <3>1 DEF BeginCreate, BeginUpdate, Continue, Crash, At, In, Write, TakeClaim,
             Link,
             Read, Open, MakeBackup, Recheck, Rename, Handle, Restore, Release, Move, Judge,
             Relink, Drop, Keep, SaveFails, Check, Removing
        <4> QED
          BY <3>1, <4>1 DEF Verify, Crash
      <3> QED
        BY <3>2
    <2>4. CASE calls[f].committed
      <3>1. f \notin taken /\ (dir[Target] = f \/ \E q \in Procs : BackedUp(f, q))
        BY <1>1, <2>1, <2>2, <2>4 DEF KeptCase, CaseKept
      <3>2. ASSUME NEW q \in Procs, BackedUp(f, q)
            PROVE  dir'[Target] = f \/ \E r \in Procs : BackedUp(f, r)'
        <4>1. CASE q = p
          <5>1. ~(calls'[p].op = "update" /\ calls'[p].committed /\ calls'[p].found = f)
            BY <1>1 DEF KeptCase, Superseded
          <5>2. dir'[Target] = f \/ BackedUp(f, p)'
            BY <1>1, <3>1, <3>2, <4>1, <5>1, BackedStep
          <5> QED
            BY <5>2
        <4>2. CASE q # p
          <5>1. Within(p)
            BY <1>1, StepWithin
          <5>2. calls'[q] = calls[q] /\ dir'[Backup(q)] = dir[Backup(q)]
            BY <4>2, <5>1, Untouched
          <5>3. BackedUp(f, q)'
            BY <3>2, <5>2 DEF BackedUp
          <5> QED
            BY <5>3
        <4> QED
          BY <4>1, <4>2
      <3>3. CASE dir[Target] = f
        <4>1. CASE dir'[Target] = dir[Target]
          BY <3>3, <4>1
        <4>2. CASE dir[Target] \in Strange(p) /\ calls[p].pc \in Undecided
          <5>1. f = p
            BY <1>0, <3>3, <4>2 DEF Strange
          <5> QED
            BY <1>0, <2>4, <4>2, <5>1 DEF Course
        <4>3. CASE /\ calls[p].pc = "rename" /\ calls'[p].pc \in {"verify", "handle"}
                   /\ dir'[Backup(p)] = dir[Backup(p)]
          <5>1. calls[p].op = "update" /\ calls[p].backed
            BY <1>0, <4>3 DEF Course, UpdateOnly
          <5>2. calls[p].found = f /\ dir[Backup(p)] = f
            BY <1>0, <1>1, <3>3, <4>3, <5>1 DEF CaseInv, Outset, Safekeeping
          <5>3. calls'[p].op = "update" /\ calls'[p].found = f
            BY <1>1, <4>3, <5>1, <5>2, Progress
          <5>4. BackedUp(f, p)'
            BY <4>3, <5>2, <5>3 DEF BackedUp, Preparing
          <5> QED
            BY <5>4
        <4> QED
          BY <1>1, <4>1, <4>2, <4>3, TargetStep
      <3> QED
        BY <3>1, <3>2, <3>3
    <2> QED
      BY <2>3, <2>4
  <1>2. CASE SomeoneEdits
    <2>1. /\ calls' = calls /\ kind' = kind /\ taken \subseteq taken'
          /\ dir'[Target] = dir[Target] \/ dir[Target] \in taken'
          /\ \A q \in Procs : dir'[Backup(q)] = dir[Backup(q)]
      BY <1>0, <1>2, NamesDiffer DEF SomeoneEdits
    <2>2. \A f : /\ KeptCase(f)' => KeptCase(f) /\ f \notin taken'
                 /\ \A q \in Procs : BackedUp(f, q) => BackedUp(f, q)'
      BY <2>1 DEF KeptCase, Superseded, BackedUp
    <2> QED
      BY <2>1, <2>2 DEF CaseKept
  <1>3. CASE UNCHANGED vars
    BY <1>3 DEF vars, CaseKept, KeptCase, Superseded, BackedUp
  <1>4. ASSUME NEW p \in Procs, BeginCreate(p) \/ BeginUpdate(p) \/ Continue(p) \/ Crash(p)
        PROVE  CaseKept'
    <2>1. kind' = kind
      BY <1>4, Progress
    <2> QED
      BY <1>1, <1>4, <2>1 DEF CaseKept
  <1> QED
    BY <1>2, <1>3, <1>4 DEF Next

-----------------------------------------------------------------------------
\* Reports are kept: some name leads to them that no removal is about to drop.

KeptReport(f) ==
    /\ calls[f].committed /\ f \notin taken
    /\ calls[f].op = "rollback" => f \in edited \/ calls[f].pc \in {"check", "rollback_refused"}

Drops == {Current(r) : r \in {q \in Procs : Busy(q) /\ calls[q].step = "drop"}}

\* A name that is going to be dropped, from which a file is going to be moved back to
\* such a name, or that a call removes for being its temporary.
Doomed(f, n) ==
    \/ n \in Drops
    \/ /\ calls[f].pc = "remove" /\ calls[f].step \in {"judge", "relink"}
       /\ n = Current(f) /\ Removed(f) \in Drops
    \/ /\ calls[f].pc = "untemp"
       /\ n = Temp(f) \/ (Busy(f) /\ n = Current(f))

ReportKept ==
    kind = "report" => \A f \in Procs : KeptReport(f) =>
      \E n \in Names : dir[n] = f /\ ~Doomed(f, n)

\* What is no longer under its name was moved, was the file a removal looks for, or
\* was dropped.
LEMMA RemovalTakes ==
    ASSUME Basics, NamesInv, NEW p \in Procs, Move(p) \/ Judge(p) \/ Relink(p) \/ Drop(p),
           NEW m \in Names, dir[m] # NoFile, dir'[m] # dir[m]
    PROVE  \/ Moves(p) /\ m = Removed(p)
           \/ m = Removed(p) /\ Expected(p, dir[m])
           \/ m = Current(p) /\ Busy(p) /\ (Expected(p, dir[m]) \/ calls[p].step = "drop")
  <1>1. /\ TypeOK /\ Course(calls[p]) /\ dir \in [Names -> Files \union {NoFile}] /\ TodoShape
        /\ calls[p].pc = "remove" => calls[p].todo # <<>>
        /\ calls[p].step # "move" => calls[p].slot \in Slots
        /\ calls[p].slot \in Nat
    BY FilesAssumption DEF Basics, TypeOK, Courses, Course, NamesInv, Call, Slots
  <1>2. CASE Move(p)
    <2> DEFINE a == Aside(p, calls[p].slot + 1)
    <2>1. \/ dir' = dir
          \/ /\ dir' = [dir EXCEPT ![Removed(p)] = NoFile, ![a] = dir[Removed(p)]]
             /\ calls'[p].slot = calls[p].slot + 1 /\ calls'[p].slot \in Slots
             /\ dir[Removed(p)] # NoFile /\ calls[p].step = "move"
          \/ dir' = [dir EXCEPT ![Removed(p)] = NoFile] /\ Expected(p, dir[Removed(p)])
      BY <1>1, <1>2, MoveEffect
    <2>2. calls[p].slot + 1 \in Slots => dir[a] = NoFile
      BY <1>1 DEF NamesInv, FreshNames
    <2>3. Removed(p) \in Names
      BY <1>1, <1>2, MoveEffect
    <2> QED
      BY <1>1, <2>1, <2>2, <2>3 DEF Moves, Busy
  <1>3. CASE Judge(p)
    <2>1. /\ dir' = dir \/ (dir' = [dir EXCEPT ![Aside(p, calls[p].slot)] = NoFile]
                             /\ Expected(p, dir[Aside(p, calls[p].slot)]))
          /\ Busy(p)
      BY <1>1, <1>3, JudgeEffect DEF Busy
    <2> QED
      BY <1>1, <2>1, NamesDiffer DEF Current
  <1>4. CASE Relink(p)
    <2>1. \/ dir' = dir
          \/ /\ dir' = [dir EXCEPT ![Removed(p)] = dir[Aside(p, calls[p].slot)]]
             /\ dir[Removed(p)] = NoFile
      BY <1>1, <1>4, RelinkEffect
    <2> QED
      BY <1>1, <2>1, NamesDiffer
  <1>5. CASE Drop(p)
    <2>1. /\ dir' = dir \/ dir' = [dir EXCEPT ![Aside(p, calls[p].slot)] = NoFile]
          /\ Busy(p) /\ calls[p].step = "drop"
      BY <1>1, <1>5, DropEffect DEF Busy
    <2> QED
      BY <1>1, <2>1, NamesDiffer DEF Current
  <1> QED
    BY <1>2, <1>3, <1>4, <1>5

\* A step that is no part of a removal dooms no name.
LEMMA CalmDoom ==
    ASSUME Basics, NEW p \in Procs, NEW f \in Procs, NEW n, calls[f].committed,
           \A q \in Procs : q # p => calls'[q] = calls[q], ~Busy(p)',
           calls'[p].pc = "untemp" => calls[p].pc \in Undecided \union {"untemp"},
           Doomed(f, n)'
    PROVE  Doomed(f, n)
  <1>1. \A q \in Procs : q # p => /\ calls'[q] = calls[q] /\ Busy(q)' = Busy(q)
                                  /\ Current(q)' = Current(q) /\ Removed(q)' = Removed(q)
    BY Zenon DEF Busy, Current, Removed
  <1>2. \A m : m \in Drops' => m \in Drops
    BY <1>1 DEF Drops
  <1>3. Course(calls[f])
    BY DEF Basics, Courses
  <1>4. CASE n \in Drops'
    BY <1>2, <1>4 DEF Doomed
  <1>5. CASE /\ calls'[f].pc = "remove" /\ calls'[f].step \in {"judge", "relink"}
             /\ n = Current(f)' /\ Removed(f)' \in Drops'
    <2>1. f # p
      BY <1>5 DEF Busy, Removing
    <2>2. n = Current(f) /\ Removed(f)' \in Drops' /\ Removed(f)' = Removed(f) /\ calls'[f] = calls[f]
      BY <1>1, <1>5, <2>1
    <2>3. Removed(f) \in Drops
      BY <1>1, <2>2 DEF Drops
    <2> QED
      BY <1>5, <2>2, <2>3 DEF Doomed
  <1>6. CASE /\ calls'[f].pc = "untemp"
             /\ n = Temp(f) \/ (Busy(f)' /\ n = Current(f)')
    <2>1. CASE f = p
      BY <1>3, <1>6, <2>1 DEF Doomed, Course
    <2>2. CASE f # p
      BY <1>1, <1>6, <2>2 DEF Doomed
    <2> QED
      BY <2>1, <2>2
  <1> QED
    BY <1>4, <1>5, <1>6 DEF Doomed

\* Which names are going to be dropped after a step of a removal.
LEMMA RemovalDrops ==
    ASSUME Basics, NEW p \in Procs, Move(p) \/ Judge(p) \/ Relink(p) \/ Drop(p)
    PROVE  /\ \A m : m \in Drops' =>
                m \in Drops \/ (m = Current(p) /\ Relinks(p) /\ calls'[p].step = "drop")
           /\ \A q \in Procs : q # p =>
                /\ calls'[q] = calls[q] /\ Busy(q)' = Busy(q)
                /\ Current(q)' = Current(q) /\ Removed(q)' = Removed(q)
  <1>1. /\ Changes(p, RemovalFields) /\ calls[p].pc \in Removing
        /\ \/ Moves(p) /\ Stays(p) /\ calls'[p].step = "judge"
           \/ Moves(p) /\ Leaves(p)
           \/ Relinks(p) /\ Stays(p) /\ calls'[p].step = "drop"
           \/ Erases(p) /\ Leaves(p)
           \/ Erases(p) /\ Stays(p) /\ Busy(p) /\ calls'[p].slot = calls[p].slot
              /\ calls'[p].step = "relink" /\ calls[p].step = "judge"
    BY RemovalKinds
  <1>2. \A q \in Procs : q # p =>
          /\ calls'[q] = calls[q] /\ Busy(q)' = Busy(q)
          /\ Current(q)' = Current(q) /\ Removed(q)' = Removed(q)
    BY <1>1, Others
  <1>3. Busy(p)' /\ calls'[p].step = "drop" => Relinks(p) /\ Current(p)' = Current(p)
    BY <1>1 DEF Leaves, Relinks, Current
  <1> QED
    BY <1>2, <1>3 DEF Drops

\* What a removal dooms is not the last name of a report.
LEMMA RemovalDoom ==
    ASSUME Basics, NamesInv, NEW p \in Procs, Move(p) \/ Judge(p) \/ Relink(p) \/ Drop(p),
           NEW f \in Procs, calls[f].committed, NEW n \in Names, dir[n] = f, ~Doomed(f, n),
           ~(Relinks(p) /\ calls'[p].step = "drop" /\ n = Current(p))
    PROVE  ~Doomed(f, n)'
  <1>1. /\ Changes(p, RemovalFields) /\ calls[p].pc \in Removing
        /\ \/ Moves(p) /\ Stays(p) /\ calls'[p].step = "judge"
           \/ Moves(p) /\ Leaves(p)
           \/ Relinks(p) /\ Stays(p) /\ calls'[p].step = "drop"
           \/ Erases(p) /\ Leaves(p)
           \/ Erases(p) /\ Stays(p) /\ Busy(p) /\ calls'[p].slot = calls[p].slot
              /\ calls'[p].step = "relink" /\ calls[p].step = "judge"
    BY RemovalKinds
  <1>2. /\ \A m : m \in Drops' =>
             m \in Drops \/ (m = Current(p) /\ Relinks(p) /\ calls'[p].step = "drop")
        /\ \A q \in Procs : q # p =>
             /\ calls'[q] = calls[q] /\ Busy(q)' = Busy(q)
             /\ Current(q)' = Current(q) /\ Removed(q)' = Removed(q)
    BY RemovalDrops
  <1>3. /\ NoFile \notin Procs /\ Course(calls[f]) /\ calls[p].slot \in Nat
        /\ \A i \in Slots : dir[Aside(p, i)] # NoFile => i <= calls[p].slot
    BY FilesAssumption DEF Basics, Courses, TypeOK, Call, Slots, NamesInv, FreshNames
  <1>4. Moves(p) => n # Current(p)'
    <2>1. ASSUME Moves(p), n = Current(p)' PROVE FALSE
      <3>1. n = Aside(p, calls[p].slot + 1) /\ calls[p].slot + 1 \in Slots
        BY <2>1 DEF Moves, Current
      <3>2. calls[p].slot + 1 <= calls[p].slot
        BY <1>3, <3>1
      <3> QED
        BY <1>3, <3>2
    <2> QED
      BY <2>1
  <1>5. /\ Stays(p) => Removed(p)' = Removed(p) /\ calls'[p].pc = calls[p].pc
        /\ Leaves(p) => ~Busy(p)'
        /\ Relinks(p) \/ (Busy(p) /\ calls'[p].slot = calls[p].slot) => Current(p)' = Current(p) /\ Busy(p)
    BY HeldTodo DEF Stays, Leaves, Relinks, Current
  <1>6. n \notin Drops'
    BY <1>2 DEF Doomed
  <1>7. ASSUME calls'[f].pc = "remove", calls'[f].step \in {"judge", "relink"},
               n = Current(f)', Removed(f)' \in Drops'
        PROVE  FALSE
    <2>1. CASE f = p
      <3>1. Busy(p)'
        BY <1>7, <2>1 DEF Busy, Removing
      <3>2. /\ Erases(p) /\ Stays(p) /\ Current(p)' = Current(p)
            /\ calls[p].step = "judge" /\ calls'[p].step = "relink"
        BY <1>1, <1>4, <1>5, <1>7, <2>1, <3>1
      <3>3. Removed(p) \in Drops
        BY <1>2, <1>5, <1>7, <2>1, <3>2
      <3> QED
        BY <1>5, <1>7, <2>1, <3>2, <3>3 DEF Doomed
    <2>2. CASE f # p
      <3>1. /\ calls[f].pc = "remove" /\ calls[f].step \in {"judge", "relink"} /\ n = Current(f)
            /\ Removed(f) \in Drops'
        BY <1>2, <1>7, <2>2
      <3>2. Removed(f) = Current(p) /\ Relinks(p)
        BY <1>2, <3>1 DEF Doomed
      <3>3. calls[p].slot \in Slots
        BY <3>2 DEF Relinks, Busy, Basics, Courses, Course
      <3>4. OwnRemoval(f)
        BY <3>1, <3>2, <3>3, NamesDiffer DEF OwnRemoval, Busy, Removing, Current
      <3>5. dir[Removed(f)] = NoFile
        BY <3>1, <3>4 DEF NamesInv, AsideOwn
      <3> QED
        BY <3>2, <3>5 DEF Relinks
    <2> QED
      BY <2>1, <2>2
  <1>8. ASSUME calls'[f].pc = "untemp", n = Temp(f) \/ (Busy(f)' /\ n = Current(f)')
        PROVE  FALSE
    <2>1. CASE f # p
      BY <1>2, <1>8, <2>1 DEF Doomed
    <2>2. CASE f = p
      <3>1. calls[p].pc = "untemp"
        <4>1. calls[p].pc \in Undecided \union {"untemp"}
          BY <1>8, <2>2, Progress DEF Continue
        <4> QED
          BY <1>3, <2>2, <4>1 DEF Course
      <3>2. n # Temp(p)
        BY <2>2, <3>1 DEF Doomed
      <3>3. Busy(p)' /\ n = Current(p)'
        BY <1>8, <2>2, <3>2
      <3>4. Busy(p) /\ Current(p)' = Current(p)
        BY <1>1, <1>4, <1>5, <3>3
      <3> QED
        BY <2>2, <3>1, <3>3, <3>4 DEF Doomed
    <2> QED
      BY <2>1, <2>2
  <1> QED
    BY <1>6, <1>7, <1>8 DEF Doomed

\* A file that is linked back is as safe there as it was aside.
LEMMA RelinkDoom ==
    ASSUME Basics, NamesInv, kind = "report", NEW p \in Procs,
           Move(p) \/ Judge(p) \/ Relink(p) \/ Drop(p),
           Relinks(p), calls'[p].step = "drop",
           NEW f \in Procs, calls[f].committed, dir[Current(p)] = f, ~Doomed(f, Current(p)),
           NEW m \in Names, m = Removed(p)
    PROVE  dir'[m] = f /\ ~Doomed(f, m)'
  <1>1. /\ NoFile \notin Procs /\ Course(calls[f]) /\ Course(calls[p]) /\ TodoShape
        /\ dir \in [Names -> Files \union {NoFile}] /\ calls[p].pc \in Removing
        /\ Busy(p) /\ calls[p].step = "relink" /\ calls[p].slot \in Slots
        /\ dir[m] = NoFile /\ dir' = [dir EXCEPT ![m] = f]
    BY RemovalKinds, FilesAssumption DEF Basics, Courses, Course, TypeOK, Relinks, Busy,
       NamesInv
  <1>2. /\ m \in Names
        /\ calls[p].pc \in {"unpublish", "undo"} => m = Target
        /\ calls[p].pc = "untemp" => m = Temp(p)
        /\ calls[p].pc # "unbackup"
    BY <1>1, RemovedIs
  <1>3. m # Target => OwnRemoval(p) /\ f = p
    <2>1. m # Target => OwnRemoval(p)
      BY <1>1, <1>2 DEF OwnRemoval, Removing
    <2> QED
      BY <1>1, <2>1 DEF NamesInv, AsideOwn
  <1>4. calls[p].pc = "remove" /\ f = p => m \notin Drops
    BY <1>1 DEF Doomed
  <1>5. calls[p].pc = "untemp" => f # p
    BY <1>1 DEF Doomed
  <1>6. /\ \A k : k \in Drops' => k \in Drops \/ k = Current(p)
        /\ \A q \in Procs : q # p =>
             /\ calls'[q] = calls[q] /\ Busy(q)' = Busy(q)
             /\ Current(q)' = Current(q) /\ Removed(q)' = Removed(q)
    BY RemovalDrops
  <1>7. /\ \A k : k \in Drops => k # Target
        /\ m # Current(p)
    <2>1. \A r \in Procs : Busy(r) => Current(r) # Target
      BY NamesDiffer DEF Busy, Basics, Courses, Course, Current
    <2> QED
      BY <1>1, <2>1 DEF Drops
  <1>8. m \notin Drops'
    <2>1. CASE m = Target
      BY <1>6, <1>7, <2>1
    <2>2. CASE m # Target
      <3>1. calls[p].pc = "remove" /\ f = p
        BY <1>1, <1>2, <1>3, <1>5, <2>2 DEF Removing
      <3> QED
        BY <1>4, <1>6, <1>7, <3>1
    <2> QED
      BY <2>1, <2>2
  <1>9. ASSUME calls'[f].pc = "remove", calls'[f].step \in {"judge", "relink"}, m = Current(f)'
        PROVE  FALSE
    <2>1. f # p
      BY <1>9
    <2>2. Busy(f) /\ m = Current(f)
      BY <1>6, <1>9, <2>1 DEF Busy, Removing
    <2>3. m # Target
      BY <2>2, NamesDiffer DEF Busy, Basics, Courses, Course, Current
    <2> QED
      BY <1>3, <2>1, <2>3
  <1>10. ASSUME calls'[f].pc = "untemp", m = Temp(f) \/ (Busy(f)' /\ m = Current(f)')
         PROVE  FALSE
    <2>1. CASE f = p
      <3>1. calls[p].pc \in Undecided \union {"untemp"}
        BY <1>10, <2>1, Progress DEF Continue
      <3> QED
        BY <1>1, <1>5, <2>1, <3>1 DEF Course
    <2>2. CASE f # p
      <3>1. m # Target
        <4>1. m = Temp(f) \/ (Busy(f) /\ m = Current(f))
          BY <1>6, <1>10, <2>2
        <4> QED
          BY <4>1, NamesDiffer DEF Busy, Basics, Courses, Course, Current
      <3> QED
        BY <1>3, <2>2, <3>1
    <2> QED
      BY <2>1, <2>2
  <1>11. dir'[m] = f
    BY <1>1, <1>2
  <1> QED
    BY <1>2, <1>8, <1>9, <1>10, <1>11 DEF Doomed

\* A file that is moved aside is as safe there as it was under its name.
LEMMA MoveDoom ==
    ASSUME Basics, Basics', NamesInv, NEW p \in Procs, Move(p) \/ Judge(p) \/ Relink(p) \/ Drop(p),
           Moves(p), NEW f \in Procs, calls[f].committed, NEW n \in Names, n = Removed(p), dir[n] = f,
           ~Doomed(f, n), NEW s \in Slots, s = calls[p].slot + 1
    PROVE  dir'[Aside(p, s)] = f /\ ~Doomed(f, Aside(p, s))'
  <1> DEFINE a == Aside(p, s)
  <1>1. /\ dir \in [Names -> Files \union {NoFile}] /\ calls[p].pc \in Removing /\ n \in Names
        /\ s \in Slots /\ calls'[p].slot = s /\ dir' = [dir EXCEPT ![n] = NoFile, ![a] = f]
        /\ calls[p].step = "move" /\ Course(calls[f]) /\ ~Busy(p) /\ TodoShape
    <2>1. calls[p].pc \in Removing
      BY RemovalKinds
    <2> QED
      BY <2>1, RemovedIs DEF Moves, Basics, TypeOK, Courses, NamesInv
  <1>2. /\ \A m : m \in Drops' => m \in Drops
        /\ \A q \in Procs : q # p =>
             /\ calls'[q] = calls[q] /\ Busy(q)' = Busy(q)
             /\ Current(q)' = Current(q) /\ Removed(q)' = Removed(q)
    BY Zenon, <1>1, RemovalDrops DEF Relinks
  <1>3. a \in Names /\ \A q \in Procs, i \in Slots : a = Aside(q, i) => q = p
    BY <1>1, NamesDiffer
  <1>4. /\ Busy(p)' => Stays(p) /\ Removed(p)' = n /\ calls'[p].pc = calls[p].pc
        /\ calls'[p].step \in {"move", "judge"}
        /\ n \notin Drops
        /\ calls[p].pc = "untemp" => f # p
    <2>1. /\ Busy(p)' => Stays(p)
          /\ calls'[p].step \in {"move", "judge"}
      BY Zenon, <1>1, RemovalKinds, RemovalEnds DEF Leaves, Relinks, Erases, Busy, EndsRemoval
    <2>2. calls[p].pc = "untemp" => n = Temp(p)
      BY <1>1, RemovedIs
    <2> QED
      BY <2>1, <2>2, HeldTodo DEF Doomed, Stays
  <1> HIDE DEF a
  <1>5. \A q \in Procs : Busy(q)' /\ a = Current(q)' => q = p
    <2>1. ASSUME NEW q \in Procs, Busy(q)', a = Current(q)' PROVE q = p
      <3>1. a = Aside(q, calls'[q].slot) /\ calls'[q].slot \in Slots
        BY <2>1 DEF Current, Busy, Basics, Courses, Course
      <3> QED
        BY Zenon, <1>3, <3>1
    <2> QED
      BY <2>1
  <1>6. a \notin Drops'
    BY <1>4, <1>5 DEF Drops
  <1>7. ASSUME calls'[f].pc = "remove", calls'[f].step \in {"judge", "relink"},
               a = Current(f)', Removed(f)' \in Drops'
        PROVE  FALSE
    <2>1. f = p /\ Busy(p)'
      BY <1>5, <1>7 DEF Busy, Removing
    <2> QED
      BY <1>2, <1>4, <1>7, <2>1
  <1>8. ASSUME calls'[f].pc = "untemp", a = Temp(f) \/ (Busy(f)' /\ a = Current(f)')
        PROVE  FALSE
    <2>1. a # Temp(f)
      BY <1>1, NamesDiffer DEF a
    <2>2. f = p /\ Busy(p)'
      BY <1>5, <1>8, <2>1
    <2> QED
      BY <1>4, <1>8, <2>2
  <1>9. dir'[a] = f
    BY <1>1, <1>3
  <1> QED
    BY <1>3, <1>6, <1>7, <1>8, <1>9 DEF Doomed, a

\* No step loses the text of a report.
LEMMA ReportKeptStep ==
    ASSUME Basics, NamesInv, ReportKept, [Next]_vars
    PROVE  ReportKept'
  <1>0. /\ dir \in [Names -> Files \union {NoFile}] /\ \A q \in Procs : Course(calls[q])
        /\ \A q \in Procs : calls[q].committed \in BOOLEAN
        /\ \A q \in Procs : calls'[q].committed \in BOOLEAN
        /\ NoFile \notin Procs /\ Foreign \notin Procs /\ Basics'
    BY BasicsStep, FilesAssumption DEF Basics, TypeOK, Courses, Call
  <1>1. ASSUME NEW p \in Procs, BeginCreate(p) \/ BeginUpdate(p) \/ Continue(p) \/ Crash(p),
               kind = "report", NEW f \in Procs, KeptReport(f)'
        PROVE  \E n \in Names : dir'[n] = f /\ ~Doomed(f, n)'
    <2>1. /\ \A q \in Procs : q # p => calls'[q] = calls[q]
          /\ calls'[f].committed => calls[f].committed \/ (f = p /\ dir[Target] = f /\ calls[p].pc = "verify")
          /\ calls'[p].pc = "untemp" => calls[p].pc \in Undecided \union {"untemp"}
          /\ taken' = taken
      BY <1>0, <1>1, Progress
    <2>2. edited' = edited
      BY Zenon, <1>1 DEF BeginCreate, BeginUpdate, Continue, Crash, outside, Write, TakeClaim, Link,
         Verify, Release, Read, Open, MakeBackup, Recheck, Rename, Handle, Restore, Move,
         Judge, Relink, Drop, Keep, SaveFails, Check
    <2>3. CASE ~calls[f].committed
      <3>1. f = p /\ dir[Target] = f /\ calls[p].pc = "verify"
        BY <1>1, <2>1, <2>3 DEF KeptReport
      <3>2. Verify(p) \/ Crash(p)
        BY <1>1, <3>1 DEF BeginCreate, BeginUpdate, Continue, Crash, At, In, Write, TakeClaim,
           Link,
           Read, Open, MakeBackup, Recheck, Rename, Handle, Restore, Release, Move, Judge,
           Relink, Drop, Keep, SaveFails, Check, Removing
      <3>3. dir' = dir
        BY <3>2 DEF Verify, Crash
      <3>4. ~Doomed(f, Target)'
        <4>1. \A r \in Procs : Busy(r)' => Current(r)' # Target
          BY <1>0, NamesDiffer DEF Busy, Basics, Courses, Course, Current
        <4> QED
          BY <4>1, NamesDiffer DEF Doomed, Drops, Busy, Removing
      <3> QED
        BY <3>1, <3>3, <3>4, NamesDiffer
    <2>4. CASE calls[f].committed
      <3>1. KeptReport(f)
        <4>1. ASSUME calls[f].op = "rollback"
              PROVE  f \in edited \/ calls[f].pc \in {"check", "rollback_refused"}
          <5>1. calls'[f].op = "rollback"
            <6>1. calls[f].pc \in RollbackOnly \union {"crashed"}
              BY <1>0, <4>1 DEF Course
            <6> QED
              BY <1>1, <2>1, <4>1, <6>1, Progress DEF RollbackOnly
          <5>2. f \in edited \/ calls'[f].pc \in {"check", "rollback_refused"}
            BY <1>1, <2>2, <5>1 DEF KeptReport
          <5>3. calls'[f].pc \in {"check", "rollback_refused"} =>
                  calls[f].pc \in {"created", "check", "rollback_refused"}
            BY <1>1, <2>1, Progress
          <5>4. calls[f].pc # "created"
            BY <1>0, <4>1 DEF Course, RollbackOnly
          <5> QED
            BY <5>2, <5>3, <5>4
        <4> QED
          BY <1>1, <2>1, <2>4, <4>1 DEF KeptReport
      <3>2. PICK n \in Names : dir[n] = f /\ ~Doomed(f, n)
        BY <1>1, <3>1 DEF ReportKept
      <3>3. CASE Move(p) \/ Judge(p) \/ Relink(p) \/ Drop(p)
        <4>1. CASE dir'[n] = f /\ ~(Relinks(p) /\ calls'[p].step = "drop" /\ n = Current(p))
          <5>1. ~Doomed(f, n)'
            BY <2>4, <3>2, <3>3, <4>1, RemovalDoom
          <5> QED
            BY <4>1, <5>1
        <4>2. CASE Relinks(p) /\ calls'[p].step = "drop" /\ n = Current(p)
          <5>1. Removed(p) \in Names
            BY <3>3, RemovalReach DEF NamesInv
          <5>2. PICK m \in Names : m = Removed(p)
            BY <5>1
          <5>3. dir'[m] = f /\ ~Doomed(f, m)'
            BY <1>1, <2>4, <3>2, <3>3, <4>2, <5>2, RelinkDoom
          <5> QED
            BY <5>3
        <4>3. CASE dir'[n] # f
          <5>1. \/ Moves(p) /\ n = Removed(p)
                \/ n = Removed(p) /\ Expected(p, f)
                \/ n = Current(p) /\ Busy(p) /\ (Expected(p, f) \/ calls[p].step = "drop")
            BY <1>0, <3>2, <3>3, <4>3, RemovalTakes
          <5>2. ~(n = Current(p) /\ Busy(p) /\ calls[p].step = "drop")
            BY <3>2 DEF Doomed, Drops
          <5>3. /\ calls[p].pc \in Removing /\ calls[p].pc # "unbackup"
                /\ calls[p].pc = "untemp" => Removed(p) = Temp(p)
            BY <1>0, <1>1, <3>3, RemovalReach, RemovedIs DEF NamesInv
          <5>4. ~(Expected(p, f) /\ (n = Removed(p) \/ (n = Current(p) /\ Busy(p))))
            <6>1. ASSUME Expected(p, f), n = Removed(p) \/ (n = Current(p) /\ Busy(p))
                  PROVE  FALSE
              <7>1. f = p
                BY <5>3, <6>1 DEF Expected
              <7>2. CASE calls[p].pc \in {"unpublish", "undo"}
                BY <1>0, <2>4, <7>1, <7>2 DEF Course, Undecided
              <7>3. CASE calls[p].pc = "untemp"
                BY <3>2, <5>3, <6>1, <7>1, <7>3 DEF Doomed
              <7>4. CASE calls[p].pc = "remove"
                <8>1. p \notin edited /\ calls[p].op = "rollback"
                  BY <1>0, <6>1, <7>4 DEF Expected, Course, RollbackOnly
                <8> QED
                  BY <3>1, <7>1, <7>4, <8>1 DEF KeptReport
              <7> QED
                BY <5>3, <7>2, <7>3, <7>4 DEF Removing
            <6> QED
              BY <6>1
          <5>5. Moves(p) /\ n = Removed(p)
            BY <5>1, <5>2, <5>4
          <5>6. PICK s \in Slots : s = calls[p].slot + 1
            BY <5>5 DEF Moves
          <5>7. dir'[Aside(p, s)] = f /\ ~Doomed(f, Aside(p, s))'
            BY <1>0, <2>4, <3>2, <3>3, <5>5, <5>6, MoveDoom
          <5>8. Aside(p, s) \in Names
            BY NamesDiffer
          <5> QED
            BY <5>7, <5>8
        <4> QED
          BY <4>1, <4>2, <4>3
      <3>4. CASE ~(Move(p) \/ Judge(p) \/ Relink(p) \/ Drop(p))
        <4>1. ~Busy(p)'
          <5>0. TypeOK
            BY DEF Basics
          <5>1. CASE Check(p)
            <6>1. calls'[p].step = calls[p].step /\ calls[p].pc = "check"
              BY <5>0, <5>1, CheckEffect DEF Changes, Fields
            <6> QED
              BY <1>0, <6>1 DEF Busy, Course, Removing
          <5>2. CASE ~Check(p)
            BY <1>1, <3>4, <5>2, WriteCalm, TakeClaimCalm, LinkCalm, VerifyCalm, ReleaseCalm,
               BeginCreateCalm, BeginUpdateCalm, ReadCalm, OpenCalm, MakeBackupCalm, RecheckCalm,
               RenameCalm, HandleCalm, RestoreCalm, KeepCalm, SaveFailsCalm, CrashCalm DEF Continue, Calm
          <5> QED
            BY <5>1, <5>2
        <4>2. ~Doomed(f, n)'
          BY <2>1, <2>4, <3>2, <4>1, CalmDoom
        <4>3. dir'[n] = f
          <5>0. TypeOK
            BY DEF Basics
          <5>1. CASE BeginCreate(p)
            <6>1. calls[p].pc = "begin" /\ (dir' = dir \/ dir' = [dir EXCEPT ![Temp(p)] = p])
              BY <5>0, <5>1, BeginCreateEffect
            <6>2. n # Temp(p)
              <7>1. n = Temp(p) => f = p
                BY <1>0, <3>2 DEF NamesInv, TempOwn
              <7>2. ~calls[p].committed
                BY <1>0, <6>1 DEF Course, Undecided, Preparing
              <7> QED
                BY <2>4, <7>1, <7>2
            <6> QED
              BY <1>0, <3>2, <6>1, <6>2
          <5>2. CASE Link(p)
            <6>1. dir' = dir \/ (dir' = [dir EXCEPT ![Target] = p] /\ dir[Target] = NoFile)
              BY <5>0, <5>2, LinkEffect
            <6> QED
              BY <1>0, <3>2, <6>1
          <5>3. CASE Open(p) \/ MakeBackup(p) \/ Rename(p) \/ Restore(p)
            BY <1>0, <1>1, <5>0, <5>3, OpenEffect, MakeBackupEffect, RenameEffect, RestoreEffect
               DEF Course, UpdateOnly
          <5>4. CASE ~(BeginCreate(p) \/ Link(p) \/ Open(p) \/ MakeBackup(p) \/ Rename(p) \/ Restore(p))
            <6>1. dir' = dir
              BY <1>1, <3>4, <5>0, <5>4, WriteEffect, TakeClaimEffect, VerifyEffect,
                 ReleaseEffect, BeginUpdateEffect,
                 ReadEffect, RecheckEffect, HandleEffect, KeepEffect, SaveFailsEffect, CrashEffect,
                 CheckEffect DEF Continue
            <6> QED
              BY <3>2, <6>1
          <5> QED
            BY <5>1, <5>2, <5>3, <5>4
        <4> QED
          BY <4>2, <4>3
      <3> QED
        BY <3>3, <3>4
    <2> QED
      BY <2>3, <2>4
  <1>2. ASSUME SomeoneEdits, kind = "report", NEW f \in Procs, KeptReport(f)'
        PROVE  \E n \in Names : dir'[n] = f /\ ~Doomed(f, n)'
    <2>1. /\ calls' = calls /\ taken \subseteq taken' /\ dir[Target] \in Procs
          /\ \/ dir' = dir /\ edited' \subseteq edited \union {dir[Target]}
             \/ dir[Target] \in taken' /\ edited' = edited
          /\ \A n \in Names : n # Target => dir'[n] = dir[n]
      BY <1>0, <1>2, NamesDiffer DEF SomeoneEdits
    <2>2. \A n : Doomed(f, n)' <=> Doomed(f, n)
      BY <2>1 DEF Doomed, Drops, Busy, Current, Removed
    <2>3. CASE KeptReport(f)
      <3>1. PICK n \in Names : dir[n] = f /\ ~Doomed(f, n)
        BY <1>2, <2>3 DEF ReportKept
      <3>2. f \notin taken'
        BY <1>2 DEF KeptReport
      <3> QED
        BY <2>1, <2>2, <3>1, <3>2
    <2>4. CASE ~KeptReport(f)
      <3>1. dir' = dir /\ dir[Target] = f
        BY <1>2, <2>1, <2>4 DEF KeptReport
      <3>2. ~Doomed(f, Target)
        <4>1. \A r \in Procs : Busy(r) => Current(r) # Target
          BY NamesDiffer DEF Busy, Basics, Courses, Course, Current
        <4> QED
          BY <4>1, NamesDiffer DEF Doomed, Drops, Busy, Removing
      <3>3. ~Doomed(f, Target)'
        BY <2>1, <3>2 DEF Doomed, Drops, Busy, Current, Removed
      <3> QED
        BY <3>1, <3>3, NamesDiffer
    <2> QED
      BY <2>3, <2>4
  <1>3. CASE UNCHANGED vars
    <2>1. /\ calls' = calls /\ dir' = dir /\ kind' = kind /\ taken' = taken /\ edited' = edited
      BY <1>3 DEF vars
    <2>2. \A f, n : Doomed(f, n)' <=> Doomed(f, n)
      BY <2>1 DEF Doomed, Drops, Busy, Current, Removed
    <2> QED
      BY <2>1, <2>2 DEF ReportKept, KeptReport
  <1>4. ASSUME NEW p \in Procs, BeginCreate(p) \/ BeginUpdate(p) \/ Continue(p) \/ Crash(p)
        PROVE  ReportKept'
    <2>1. kind' = kind
      BY <1>4, Progress
    <2> QED
      BY <1>1, <1>4, <2>1 DEF ReportKept
  <1>5. CASE SomeoneEdits
    <2>1. kind' = kind
      BY <1>5 DEF SomeoneEdits
    <2> QED
      BY <1>2, <1>5, <2>1 DEF ReportKept
  <1> QED
    BY <1>3, <1>4, <1>5 DEF Next

-----------------------------------------------------------------------------
\* Rollbacks that nobody disturbs.

Quiet == kind = "report" /\ edited = {} /\ taken = {}

\* The names that a call's own steps may give its file.
AtHome(f, n) == n \in {Target, Temp(f)} \/ \E i \in Slots : n = Aside(f, i)

\* The call counts on its file being under the target's name.
OnTarget(p) ==
    \/ calls[p].pc = "verify"
    \/ calls[p].pc = "unpublish" /\ ~Busy(p)
    \/ calls[p].pc = "remove" /\ ~Busy(p) /\ Removed(p) = Target

\* Where its file is, the call of p knows of: a temporary left behind is on the
\* receipt, and what a rollback without trouble has not removed is on its list.
Traced(p) ==
    LET c == calls[p] IN
    /\ OnTarget(p) => dir[Target] = p
    /\ c.pc \in {"release", "created", "check"} /\ c.committed /\ dir[Temp(p)] = p => c.orphan
    /\ c.pc = "remove" => \A n : Lists(c.todo, n) => AtHome(p, n)
    /\ c.pc = "remove" /\ Busy(p) /\ c.step # "drop" => dir[Removed(p)] # p
    /\ c.pc = "remove" /\ ~c.trouble =>
         \A n \in Names : dir[n] = p => Lists(c.todo, n) \/ (Busy(p) /\ n = Current(p))
    /\ c.pc = "rolled_back" => \A n \in Names : dir[n] # p

QuietInv ==
    Quiet =>
    /\ \A n \in Names : dir[n] # NoFile => dir[n] \in Procs /\ AtHome(dir[n], n)
    /\ \A p \in Procs : Traced(p)

\* Nobody's step touches the files of others.
OwnFiles(p) ==
    \A n \in Names : dir'[n] # dir[n] =>
      dir[n] \in {p, NoFile} /\ (dir'[n] = NoFile \/ (dir'[n] = p /\ AtHome(p, n)))

\* Undisturbed, a removal takes the names of its own file only.
LEMMA RemovalQuiet ==
    ASSUME Basics, NamesInv, Quiet, QuietInv, NEW p \in Procs,
           Move(p) \/ Judge(p) \/ Relink(p) \/ Drop(p)
    PROVE  OwnFiles(p)
  <1>1. /\ dir \in [Names -> Files \union {NoFile}] /\ NoFile \notin Procs /\ TodoShape
        /\ kind = "report" /\ Traced(p) /\ calls[p].pc \in Removing
        /\ \A n \in Names : dir[n] # NoFile => dir[n] \in Procs /\ AtHome(dir[n], n)
    BY RemovalKinds, FilesAssumption DEF Basics, TypeOK, NamesInv, Quiet, QuietInv
  <1>2. /\ Removed(p) \in Names /\ calls[p].pc # "unbackup"
        /\ calls[p].pc \in {"unpublish", "undo"} => Removed(p) = Target
        /\ calls[p].pc = "untemp" => Removed(p) = Temp(p)
        /\ calls[p].pc = "remove" => InTodo(p, Removed(p))
    BY <1>1, RemovedIs
  <1>3. AtHome(p, Removed(p))
    <2>1. calls[p].pc = "remove" => AtHome(p, Removed(p))
      BY <1>1, <1>2 DEF Traced, InTodo
    <2> QED
      BY <1>1, <1>2, <2>1 DEF AtHome, Removing
  <1>4. ~Busy(p) => dir[Removed(p)] \in {p, NoFile}
    <2>1. calls[p].pc # "undo"
      BY <1>1 DEF Basics, Courses, Course, UpdateOnly
    <2>2. CASE ~Busy(p) /\ Removed(p) = Target
      <3>1. OnTarget(p)
        BY <1>1, <1>2, <2>1, <2>2, NamesDiffer DEF OnTarget, Removing
      <3> QED
        BY <1>1, <2>2, <3>1 DEF Traced
    <2>3. CASE Removed(p) # Target
      BY <1>1, <1>2, <2>1, <2>3 DEF NamesInv, TempOwn, TodoOwn, Removing
    <2> QED
      BY <2>2, <2>3
  <1>5. Busy(p) => Current(p) \in Names /\ dir[Current(p)] \in {p, NoFile}
    <2>1. Busy(p) => calls[p].slot \in Slots
      BY DEF Busy, Basics, Courses, Course
    <2>2. ASSUME Busy(p), dir[Current(p)] # NoFile PROVE dir[Current(p)] = p
      <3>1. PICK q \in Procs : q = dir[Current(p)] /\ AtHome(q, Current(p))
        BY <1>1, <2>1, <2>2, NamesDiffer DEF Current
      <3> QED
        BY <2>1, <2>2, <3>1, NamesDiffer DEF AtHome, Current
    <2> QED
      BY <2>1, <2>2, NamesDiffer DEF Current
  <1>6. ASSUME NEW n \in Names, dir'[n] # dir[n] PROVE dir[n] \in {p, NoFile}
    <2>1. CASE dir[n] # NoFile
      <3>1. \A f : Expected(p, f) => f = p
        BY <1>1, <1>2 DEF Expected, Removing
      <3> QED
        BY <1>4, <1>5, <1>6, <2>1, <3>1, RemovalTakes DEF Moves
    <2> QED
      BY <2>1
  <1>7. ASSUME NEW n \in Names, dir'[n] # dir[n]
        PROVE  dir'[n] = NoFile \/ (dir'[n] = p /\ AtHome(p, n))
    <2>1. CASE Moves(p)
      <3>1. PICK s \in Slots : s = calls[p].slot + 1
        BY <2>1 DEF Moves
      <3>2. AtHome(p, Aside(p, s)) /\ Aside(p, s) \in Names
        BY NamesDiffer DEF AtHome
      <3>3. /\ dir' = [dir EXCEPT ![Removed(p)] = NoFile, ![Aside(p, s)] = dir[Removed(p)]]
            /\ dir[Removed(p)] = p
        BY <1>4, <2>1, <3>1 DEF Moves
      <3> QED
        BY <1>1, <1>2, <1>7, <3>2, <3>3
    <2>2. CASE Relinks(p)
      <3>1. dir' = [dir EXCEPT ![Removed(p)] = p]
        BY Zenon, <1>5, <2>2 DEF Relinks
      <3> QED
        BY <1>1, <1>3, <1>7, <3>1
    <2>3. CASE Erases(p)
      BY <1>7, <2>3 DEF Erases
    <2> QED
      BY <2>1, <2>2, <2>3, RemovalKinds
  <1> QED
    BY <1>6, <1>7 DEF OwnFiles

\* Undisturbed, so do all steps.
LEMMA StepQuiet ==
    ASSUME Basics, NamesInv, Quiet, QuietInv, NEW p \in Procs,
           BeginCreate(p) \/ BeginUpdate(p) \/ Continue(p) \/ Crash(p)
    PROVE  OwnFiles(p)
  <1>0. /\ TypeOK /\ Course(calls[p]) /\ dir \in [Names -> Files \union {NoFile}]
        /\ kind = "report"
    BY DEF Basics, Courses, TypeOK, Quiet
  <1>1. CASE BeginCreate(p)
    <2>1. dir' = dir \/ dir' = [dir EXCEPT ![Temp(p)] = p]
      BY <1>0, <1>1, BeginCreateEffect
    <2> QED
      BY <1>0, <2>1 DEF OwnFiles, AtHome, NamesInv, TempOwn
  <1>2. CASE Link(p)
    <2>1. dir' = dir \/ (dir' = [dir EXCEPT ![Target] = p] /\ dir[Target] = NoFile)
      BY <1>0, <1>2, LinkEffect
    <2> QED
      BY <1>0, <2>1 DEF OwnFiles, AtHome
  <1>3. CASE Open(p) \/ MakeBackup(p) \/ Rename(p) \/ Restore(p)
    BY <1>0, <1>3, OpenEffect, MakeBackupEffect, RenameEffect, RestoreEffect DEF Course,
       UpdateOnly
  <1>4. CASE Move(p) \/ Judge(p) \/ Relink(p) \/ Drop(p)
    BY <1>4, RemovalQuiet
  <1>5. CASE ~(\/ BeginCreate(p) \/ Link(p) \/ Open(p) \/ MakeBackup(p) \/ Rename(p) \/ Restore(p)
               \/ Move(p) \/ Judge(p) \/ Relink(p) \/ Drop(p))
    <2>1. dir' = dir
      BY <1>0, <1>5, WriteEffect, TakeClaimEffect, VerifyEffect, ReleaseEffect,
         BeginUpdateEffect,
         ReadEffect, RecheckEffect, HandleEffect, KeepEffect, SaveFailsEffect, CrashEffect,
         CheckEffect DEF Continue
    <2> QED
      BY <2>1 DEF OwnFiles
  <1> QED
    BY <1>1, <1>2, <1>3, <1>4, <1>5

\* Others leave the call of p where it is.
LEMMA OthersTraced ==
    ASSUME Basics, NEW p \in Procs, NEW q \in Procs, q # p,
           calls'[p] = calls[p], OwnFiles(q), Traced(p)
    PROVE  Traced(p)'
  <1>1. /\ Busy(p)' = Busy(p) /\ Current(p)' = Current(p) /\ Removed(p)' = Removed(p)
        /\ (OnTarget(p)' <=> OnTarget(p)) /\ NoFile \notin Procs
    BY FilesAssumption DEF Busy, Current, Removed, OnTarget
  <1>2. \A n \in Names : (dir'[n] = p <=> dir[n] = p)
    BY <1>1 DEF OwnFiles
  <1>3. calls[p].pc = "remove" /\ Busy(p) => Removed(p) \in Names
    BY RemovedTyped DEF Basics, TypeOK, Courses, Course, Busy
  <1> QED
    BY <1>1, <1>2, <1>3, NamesDiffer DEF Traced

\* A rollback finds every name of its file.
LEMMA CheckTraced ==
    ASSUME Basics, NamesInv, Quiet, QuietInv, NEW p \in Procs, Check(p)
    PROVE  Traced(p)'
  <1> DEFINE d == calls'[p]
  <1>1. /\ Changes(p, {"pc", "todo"}) /\ calls[p].pc = "check" /\ dir' = dir
        /\ \A k \in DOMAIN d.todo :
             \/ d.todo[k] = Target /\ k = 1
             \/ d.todo[k] = Temp(p)
             \/ d.todo[k] \in QuarantineNames /\ Own(p, d.todo[k])
        /\ dir[Target] # NoFile => Lists(d.todo, Target)
        /\ calls[p].orphan /\ dir[Temp(p)] # NoFile => Lists(d.todo, Temp(p))
        /\ \A n \in QuarantineNames : Own(p, n) => Lists(d.todo, n)
        /\ d.pc \in {"remove", "rolled_back", "rollback_refused"}
        /\ d.pc = "remove" => d.todo # <<>> /\ \A k \in DOMAIN d.todo : Own(p, d.todo[k])
        /\ d.pc = "rolled_back" => d.todo = <<>>
    BY CheckEffect DEF Basics
  <1>2. /\ calls[p].committed /\ calls[p].step = "move" /\ d.step = calls[p].step
        /\ Traced(p) /\ edited = {} /\ NoFile \notin Procs
        /\ \A n \in Names : dir[n] # NoFile => dir[n] \in Procs /\ AtHome(dir[n], n)
        /\ calls'[p] \in Call
    BY <1>1, FilesAssumption DEF Basics, Courses, Course, RollbackOnly, Removing, Changes,
       Fields, Quiet, QuietInv
  <1>3. ~Busy(p)'
    BY <1>2 DEF Busy
  <1>4. ASSUME NEW n \in Names, dir[n] = p PROVE Lists(d.todo, n)
    <2>1. AtHome(p, n)
      BY <1>2, <1>4
    <2>2. CASE n = Target
      BY <1>1, <1>2, <1>4, <2>2
    <2>3. CASE n = Temp(p)
      BY <1>1, <1>2, <1>4, <2>3 DEF Traced
    <2>4. CASE \E i \in Slots : n = Aside(p, i)
      <3>1. n \in QuarantineNames
        BY <2>4 DEF QuarantineNames
      <3> QED
        BY <1>1, <1>2, <1>4, <3>1 DEF Own
    <2> QED
      BY <2>1, <2>2, <2>3, <2>4 DEF AtHome
  <1>5. d.pc = "remove" => \A n : Lists(d.todo, n) => AtHome(p, n) /\ dir[n] = p
    <2>1. ASSUME d.pc = "remove", NEW k \in DOMAIN d.todo PROVE AtHome(p, d.todo[k]) /\ dir[d.todo[k]] = p
      <3>1. dir[d.todo[k]] = p
        BY <1>1, <2>1 DEF Own
      <3>2. d.todo[k] \in Names
        BY <1>1, <2>1, NamesDiffer DEF Names
      <3> QED
        BY <1>2, <3>1, <3>2
    <2> QED
      BY <2>1 DEF Lists
  <1>6. d.pc = "rolled_back" => \A n \in Names : dir[n] # p
    <2>1. \A n : ~Lists(<<>>, n)
      BY DEF Lists
    <2> QED
      BY <1>1, <1>4, <2>1
  <1>7. OnTarget(p)' => dir[Target] = p
    <2>1. ASSUME d.pc = "remove", Removed(p)' = Target PROVE dir[Target] = p
      <3>1. Removed(p)' = Head(d.todo)
        BY <2>1 DEF Removed
      <3>2. Head(d.todo) = d.todo[1] /\ 1 \in DOMAIN d.todo
        <4>1. d.todo \in Seq(Names) /\ d.todo # <<>>
          BY <1>1, <1>2, <2>1 DEF Call
        <4> HIDE DEF d
        <4> QED
          BY <4>1, Tails, LenProperties
      <3> QED
        BY <1>5, <2>1, <3>1, <3>2 DEF Lists
    <2> QED
      BY <1>1, <2>1 DEF OnTarget
  <1> QED
    BY <1>1, <1>3, <1>4, <1>5, <1>6, <1>7 DEF Traced

\* A rollback loses no name of its file while it removes them.
LEMMA RemovalTraced ==
    ASSUME Basics, Basics', NamesInv, Quiet, QuietInv, NEW p \in Procs,
           Move(p) \/ Judge(p) \/ Relink(p) \/ Drop(p)
    PROVE  Traced(p)'
  <1> DEFINE c == calls[p]
             d == calls'[p]
  <1>1. /\ dir \in [Names -> Files \union {NoFile}] /\ NoFile \notin Procs /\ TodoShape
        /\ kind = "report" /\ Traced(p) /\ c.pc \in Removing /\ Course(c) /\ TypeOK
        /\ c \in Call /\ d \in Call
        /\ c.pc = "remove" => c.todo # <<>>
        /\ c.step # "move" => c.slot \in Slots
    BY RemovalKinds, FilesAssumption DEF Basics, TypeOK, NamesInv, Quiet, QuietInv, Courses,
       Course
  <1>2. /\ Removed(p) \in Names /\ c.pc \in {"unpublish", "untemp", "remove"}
        /\ c.pc = "unpublish" => Removed(p) = Target
        /\ c.pc = "untemp" => Removed(p) = Temp(p)
        /\ c.pc = "remove" => InTodo(p, Removed(p))
    <2>1. c.pc \in {"unpublish", "untemp", "remove"}
      BY <1>1 DEF Course, Removing, UpdateOnly
    <2> QED
      BY <1>1, <2>1, RemovedIs
  <1>3. /\ Changes(p, RemovalFields) /\ d.committed = c.committed
    BY RemovalKinds DEF Changes, Fields, RemovalFields
  <1>4. OwnFiles(p)
    BY RemovalQuiet
  <1>5. \/ Moves(p) /\ Stays(p) /\ d.step = "judge"
        \/ Moves(p) /\ Leaves(p)
        \/ Relinks(p) /\ Stays(p) /\ d.step = "drop"
        \/ Erases(p) /\ Leaves(p)
        \/ Erases(p) /\ Stays(p) /\ Busy(p) /\ d.slot = c.slot
           /\ d.step = "relink" /\ c.step = "judge"
    BY RemovalKinds
  <1>6. CASE Stays(p)
    <2>1. /\ d.pc = c.pc /\ d.todo = c.todo /\ Busy(p)' /\ Removed(p)' = Removed(p)
          /\ ~OnTarget(p)'
      <3>1. d.pc = c.pc /\ d.todo = c.todo /\ Busy(p)' /\ Removed(p)' = Removed(p)
        BY <1>1, <1>6, HeldTodo DEF Stays, Busy
      <3> QED
        BY <1>2, <3>1 DEF OnTarget
    <2>2. d.trouble = c.trouble
      BY <1>1, <1>2, <1>6, MoveEffect, JudgeEffect, RelinkEffect, DropEffect DEF Stays,
         EndsRemoval
    <2>3. d.pc = "remove" /\ d.step # "drop" => dir'[Removed(p)] # p
      <3>1. CASE Moves(p)
        <4>1. PICK s \in Slots : s = c.slot + 1
          BY <3>1 DEF Moves
        <4>2. Aside(p, s) # Removed(p)
          <5>1. dir[Aside(p, s)] = NoFile
            <6>1. ~(s <= c.slot)
              BY <1>1, <4>1, FilesAssumption DEF Call, Slots
            <6> QED
              BY <6>1 DEF NamesInv, FreshNames
          <5> QED
            BY <3>1, <5>1 DEF Moves
        <4> QED
          BY <1>1, <1>2, <3>1, <4>1, <4>2, NamesDiffer DEF Moves
      <3>2. CASE Erases(p) /\ Busy(p) /\ c.step = "judge"
        BY <1>1, <1>2, <2>1, <3>2 DEF Erases, Traced
      <3>3. CASE d.step = "drop"
        BY <3>3
      <3> QED
        BY <1>5, <1>6, <3>1, <3>2, <3>3 DEF Leaves, Stays, Busy, Removing
    <2>4. d.pc = "remove" /\ ~d.trouble =>
            \A n \in Names : dir'[n] = p => Lists(d.todo, n) \/ n = Current(p)'
      <3>1. ASSUME c.pc = "remove", ~c.trouble, NEW n \in Names, dir'[n] = p
            PROVE  Lists(c.todo, n) \/ n = Current(p)'
        <4>1. dir[n] = p => Lists(c.todo, n) \/ (Busy(p) /\ n = Current(p))
          BY <1>1, <3>1 DEF Traced
        <4>2. CASE Moves(p)
          <5>1. PICK s \in Slots : s = c.slot + 1
            BY <4>2 DEF Moves
          <5>2. /\ dir' = [dir EXCEPT ![Removed(p)] = NoFile, ![Aside(p, s)] = dir[Removed(p)]]
                /\ Current(p)' = Aside(p, s) /\ ~Busy(p)
            BY <4>2, <5>1 DEF Moves, Current
          <5> QED
            BY <1>1, <1>2, <3>1, <4>1, <5>2
        <4>3. CASE Relinks(p)
          <5>1. /\ dir' = [dir EXCEPT ![Removed(p)] = dir[Current(p)]]
                /\ Current(p)' = Current(p)
            BY <4>3 DEF Relinks, Current
          <5> QED
            BY <1>1, <1>2, <3>1, <4>1, <5>1 DEF InTodo
        <4>4. CASE Erases(p) /\ d.slot = c.slot
          <5>1. dir[n] = p /\ Current(p)' = Current(p)
            BY <1>1, <3>1, <4>4 DEF Erases, Current
          <5> QED
            BY <4>1, <5>1
        <4> QED
          BY <1>5, <1>6, <2>1, <4>2, <4>3, <4>4 DEF Leaves
      <3> QED
        BY <2>1, <2>2, <3>1
    <2> QED
      BY <1>1, <1>2, <2>1, <2>3, <2>4 DEF Traced
  <1>7. CASE ~Stays(p)
    <2>1. Leaves(p) /\ ~Busy(p)'
      BY <1>5, <1>7 DEF Leaves
    <2>2. \/ EndsRemoval(c, d, "missing") /\ dir' = dir /\ dir[Removed(p)] = NoFile
          \/ EndsRemoval(c, d, "error")
          \/ /\ EndsRemoval(c, d, "done") /\ dir' = [dir EXCEPT ![Current(p)] = NoFile]
             /\ Busy(p) /\ c.step = "judge"
      <3>1. d.pc = c.pc /\ d.todo = c.todo => d.step = "move" \/ d.slot \notin Slots
        BY <1>7 DEF Stays
      <3>2. CASE Move(p)
        BY <1>1, <3>1, <3>2, MoveEffect
      <3>3. CASE Judge(p)
        BY <1>1, <3>1, <3>3, JudgeEffect DEF Busy, Current, EndsRemoval
      <3>4. CASE Relink(p)
        BY <1>1, <3>1, <3>4, RelinkEffect
      <3>5. CASE Drop(p)
        BY <1>1, <3>1, <3>5, DropEffect
      <3> QED
        BY <3>2, <3>3, <3>4, <3>5
    <2>3. CASE c.pc = "unpublish"
      <3>1. d.pc = "untemp"
        BY <2>2, <2>3 DEF EndsRemoval
      <3> QED
        BY <3>1 DEF Traced, OnTarget
    <2>4. CASE c.pc = "untemp"
      <3>1. d.pc \in {"unbackup", "release"}
        BY <2>2, <2>4 DEF EndsRemoval
      <3>2. d.committed /\ dir'[Temp(p)] = p => d.orphan
        <4>1. CASE dir' = dir /\ dir[Removed(p)] = NoFile
          BY <1>1, <1>2, <2>4, <4>1
        <4>2. CASE EndsRemoval(c, d, "error")
          BY <1>3, <2>4, <4>2 DEF EndsRemoval
        <4>3. CASE dir' = [dir EXCEPT ![Current(p)] = NoFile] /\ Busy(p) /\ c.step = "judge"
          <5>1. dir[Temp(p)] = NoFile
            BY <1>2, <2>4, <4>3 DEF NamesInv, AsideOwn, OwnRemoval
          <5> QED
            BY <1>1, <4>3, <5>1, NamesDiffer
        <4> QED
          BY <2>2, <4>1, <4>2, <4>3
      <3> QED
        BY <3>1, <3>2 DEF Traced, OnTarget
    <2>5. CASE c.pc = "remove"
      <3>1. /\ c.todo \in Seq(Names) /\ c.todo # <<>> /\ d.todo = Tail(c.todo)
            /\ d.pc \in {"remove", "rolled_back", "rollback_failed"}
            /\ d.pc = "rolled_back" => ~d.trouble /\ ~(Len(c.todo) > 1)
            /\ d.pc = "remove" => d.todo # <<>>
            /\ d.todo \in Seq(Names)
        <4>1. \E result : EndsRemoval(c, d, result)
          BY <2>2
        <4>2. c.todo \in Seq(Names) /\ c.todo # <<>>
          BY <1>1, <2>5 DEF Call
        <4> HIDE DEF c, d
        <4> QED
          BY Zenon, <2>5, <4>1, <4>2, Tails DEF EndsRemoval
      <3>2. /\ Removed(p) = c.todo[1]
            /\ \A k \in DOMAIN d.todo : k + 1 \in DOMAIN c.todo /\ k + 1 # 1 /\ d.todo[k] = c.todo[k + 1]
            /\ \A k \in DOMAIN c.todo : k = 1 \/ (k - 1 \in DOMAIN d.todo /\ d.todo[k - 1] = c.todo[k])
        <4>1. Removed(p) = Head(c.todo)
          BY <2>5 DEF Removed
        <4> HIDE DEF c, d
        <4> QED
          BY <3>1, <4>1, Tails
      <3>3. /\ \A n : Lists(d.todo, n) => Lists(c.todo, n)
            /\ \A n : Lists(c.todo, n) => Lists(d.todo, n) \/ n = Removed(p)
        BY <3>2 DEF Lists
      <3>4. d.pc = "remove" => ~(Removed(p)' = Target)
        <4>1. ASSUME d.pc = "remove" PROVE Removed(p)' # Target
          <5>1. Removed(p)' = Head(d.todo)
            BY <4>1 DEF Removed
          <5>2. Head(d.todo) = d.todo[1] /\ 1 \in DOMAIN d.todo
            <6>1. d.todo \in Seq(Names) /\ d.todo # <<>>
              BY <3>1, <4>1
            <6> HIDE DEF d
            <6> QED
              BY <6>1, Tails, LenProperties
          <5>3. 1 + 1 \in DOMAIN c.todo /\ d.todo[1] = c.todo[1 + 1] /\ 1 + 1 # 1
            BY <3>2, <5>2
          <5>4. d.todo[1] # Target
            BY <1>1, <2>5, <5>3, NamesDiffer DEF TodoShape
          <5> QED
            BY <5>1, <5>2, <5>4
        <4> QED
          BY <4>1
      <3>5. ~d.trouble => \A n \in Names : dir'[n] = p => Lists(d.todo, n)
        <4>1. ASSUME ~d.trouble, NEW n \in Names, dir'[n] = p PROVE Lists(d.todo, n)
          <5>1. /\ dir' = [dir EXCEPT ![Current(p)] = NoFile] /\ Busy(p) /\ c.step = "judge"
                /\ ~c.trouble
            BY <2>2, <2>5, <4>1 DEF EndsRemoval
          <5>2. dir[n] = p /\ n # Current(p)
            BY <1>1, <4>1, <5>1
          <5>3. Lists(c.todo, n) /\ n # Removed(p)
            BY <1>1, <2>5, <5>1, <5>2 DEF Traced
          <5> QED
            BY <3>3, <5>3
        <4> QED
          BY <4>1
      <3>6. d.pc = "rolled_back" => \A n \in Names : dir'[n] # p
        <4>1. ASSUME d.pc = "rolled_back", NEW n PROVE ~Lists(d.todo, n)
          <5>1. Len(d.todo) = Len(c.todo) - 1 /\ Len(c.todo) \in Nat /\ DOMAIN d.todo = 1..Len(d.todo)
            <6> HIDE DEF c, d
            <6> QED
              BY <3>1, Tails, LenProperties
          <5>2. DOMAIN d.todo = {}
            BY <3>1, <4>1, <5>1
          <5> QED
            BY <5>2 DEF Lists
        <4> QED
          BY <3>1, <3>5, <4>1
      <3> QED
        BY <1>1, <2>1, <2>5, <3>1, <3>3, <3>4, <3>5, <3>6 DEF Traced, OnTarget
    <2> QED
      BY <1>2, <2>3, <2>4, <2>5
  <1> QED
    BY <1>6, <1>7

\* The other steps of a call know where its file is, too.
LEMMA CalmTraced ==
    ASSUME Basics, Basics', NamesInv, Quiet, QuietInv, NEW p \in Procs,
           \/ BeginCreate(p) \/ Write(p) \/ TakeClaim(p) \/ Link(p) \/ Verify(p)
           \/ Release(p) \/ Keep(p) \/ SaveFails(p) \/ Crash(p)
    PROVE  Traced(p)'
  <1> DEFINE c == calls[p]
             d == calls'[p]
  <1>1. /\ TypeOK /\ kind = "report" /\ Traced(p) /\ Course(c) /\ Course(c)' /\ c.op # "update"
        /\ dir \in [Names -> Files \union {NoFile}] /\ Calm(p)
    <2>1. TypeOK /\ kind = "report" /\ Traced(p) /\ Course(c)
      BY DEF Basics, Courses, Quiet, QuietInv
    <2>2. Course(calls[p])'
      BY DEF Basics, Courses
    <2>3. dir \in [Names -> Files \union {NoFile}] /\ c.op # "update"
      BY <2>1 DEF TypeOK, Course
    <2>4. Calm(p)
      BY BeginCreateCalm, WriteCalm, TakeClaimCalm, LinkCalm, VerifyCalm, ReleaseCalm, KeepCalm,
         SaveFailsCalm, CrashCalm
    <2> QED
      BY <2>1, <2>2, <2>3, <2>4
  <1>2. ~Busy(p)' /\ d.pc # "remove" /\ d.pc # "rolled_back"
    <2>1. d.pc # "rolled_back"
      BY <1>1, BeginCreateEffect, WriteEffect, TakeClaimEffect, LinkEffect, VerifyEffect,
         ReleaseEffect, KeepEffect, SaveFailsEffect, CrashEffect
    <2> QED
      BY <1>1, <2>1 DEF Calm
  <1>3. d.pc \in {"verify", "unpublish"} => dir'[Target] = p
    <2>1. CASE Link(p)
      BY <1>1, <2>1, LinkEffect, NamesDiffer
    <2>2. CASE Verify(p)
      BY <1>1, <2>2, VerifyEffect DEF Traced, OnTarget
    <2>3. CASE ~(Link(p) \/ Verify(p))
      BY <1>1, <2>3, BeginCreateEffect, WriteEffect, TakeClaimEffect, ReleaseEffect, KeepEffect,
         SaveFailsEffect, CrashEffect
    <2> QED
      BY <2>1, <2>2, <2>3
  <1>4. d.pc \in {"release", "created", "check"} /\ d.committed /\ dir'[Temp(p)] = p => d.orphan
    <2>1. CASE Release(p)
      BY <1>1, <2>1, ReleaseEffect DEF Traced, Changes, Fields
    <2>2. CASE SaveFails(p)
      BY <1>1, <2>2, SaveFailsEffect DEF Traced, Changes, Fields
    <2>3. CASE ~(Release(p) \/ SaveFails(p))
      BY <1>1, <2>3, BeginCreateEffect, WriteEffect, TakeClaimEffect, LinkEffect, VerifyEffect,
         KeepEffect, CrashEffect DEF Course, Undecided, Preparing, Changes, Fields
    <2> QED
      BY <2>1, <2>2, <2>3
  <1> QED
    BY <1>2, <1>3, <1>4 DEF Traced, OnTarget

\* Undisturbed, each step leaves every file traced.
LEMMA QuietStep ==
    ASSUME Basics, NamesInv, QuietInv, [Next]_vars
    PROVE  QuietInv'
  <1>0. Basics' /\ dir \in [Names -> Files \union {NoFile}] /\ NoFile \notin Procs
    BY BasicsStep, FilesAssumption DEF Basics, TypeOK
  <1>1. ASSUME NEW p \in Procs, BeginCreate(p) \/ BeginUpdate(p) \/ Continue(p) \/ Crash(p), Quiet
        PROVE  /\ \A n \in Names : dir'[n] # NoFile => dir'[n] \in Procs /\ AtHome(dir'[n], n)
               /\ \A q \in Procs : Traced(q)'
    <2>1. OwnFiles(p)
      BY <1>1, StepQuiet
    <2>2. ASSUME NEW n \in Names, dir'[n] # NoFile PROVE dir'[n] \in Procs /\ AtHome(dir'[n], n)
      BY <1>1, <2>1, <2>2 DEF OwnFiles, QuietInv
    <2>3. Traced(p)'
      <3>1. CASE BeginUpdate(p) \/ Read(p) \/ Open(p) \/ MakeBackup(p) \/ Recheck(p) \/ Rename(p)
                 \/ Handle(p) \/ Restore(p)
        BY <1>1, <3>1, BeginUpdateEffect, ReadEffect, OpenEffect, MakeBackupEffect,
           RecheckEffect,
           RenameEffect, HandleEffect, RestoreEffect DEF Quiet, Basics, Courses, Course, UpdateOnly
      <3>2. CASE Move(p) \/ Judge(p) \/ Relink(p) \/ Drop(p)
        BY <1>0, <1>1, <3>2, RemovalTraced
      <3>3. CASE Check(p)
        BY <1>1, <3>3, CheckTraced
      <3>4. CASE ~(\/ BeginUpdate(p) \/ Read(p) \/ Open(p) \/ MakeBackup(p) \/ Recheck(p)
                   \/ Rename(p) \/ Handle(p) \/ Restore(p)
                   \/ Move(p) \/ Judge(p) \/ Relink(p) \/ Drop(p) \/ Check(p))
        BY <1>0, <1>1, <3>4, CalmTraced DEF Continue
      <3> QED
        BY <3>1, <3>2, <3>3, <3>4
    <2>4. ASSUME NEW q \in Procs, q # p PROVE Traced(q)'
      <3>1. calls'[q] = calls[q]
        BY <1>1, <2>4, Progress
      <3> QED
        BY <1>1, <2>1, <2>4, <3>1, OthersTraced DEF QuietInv
    <2> QED
      BY <2>2, <2>3, <2>4
  <1>2. ASSUME NEW p \in Procs, BeginCreate(p) \/ BeginUpdate(p) \/ Continue(p) \/ Crash(p)
        PROVE  QuietInv'
    <2>1. Quiet' => Quiet
      BY Zenon, <1>2 DEF Quiet, BeginCreate, BeginUpdate, Continue, Crash, outside, Write,
         TakeClaim,
         Link,
         Verify, Release, Read, Open, MakeBackup, Recheck, Rename, Handle, Restore, Move,
         Judge, Relink, Drop, Keep, SaveFails, Check
    <2>2. CASE Quiet
      <3>1. \A n \in Names : dir'[n] # NoFile => dir'[n] \in Procs /\ AtHome(dir'[n], n)
        BY <1>1, <1>2, <2>2
      <3>2. \A q \in Procs : Traced(q)'
        BY <1>1, <1>2, <2>2
      <3> QED
        BY <3>1, <3>2 DEF QuietInv, AtHome
    <2> QED
      BY <2>1, <2>2 DEF QuietInv
  <1>3. CASE SomeoneEdits
    <2>1. edited' # {} \/ taken' # {}
      BY <1>3 DEF SomeoneEdits
    <2> QED
      BY <2>1 DEF QuietInv, Quiet
  <1>4. CASE UNCHANGED vars
    <2>1. Quiet' <=> Quiet
      BY <1>4 DEF vars, Quiet
    <2>2. ASSUME NEW p \in Procs PROVE Traced(p)' <=> Traced(p)
      BY <1>4 DEF vars, Traced, OnTarget, Busy, Current, Removed
    <2>3. dir' = dir
      BY <1>4 DEF vars
    <2> QED
      BY <2>1, <2>2, <2>3 DEF QuietInv, AtHome
  <1> QED
    BY <1>2, <1>3, <1>4 DEF Next

-----------------------------------------------------------------------------
\* The theorems.

FilesInv ==
    /\ Basics /\ NamesInv /\ WrittenInv /\ CaseInv /\ OutcomeInv
    /\ CaseKept /\ ReportKept /\ QuietInv

\* At first no call has begun.
LEMMA InitBasics ==
    ASSUME Init
    PROVE  Basics
  <1> DEFINE c == [op |-> "create", pc |-> "begin", step |-> "move", slot |-> 0,
                   found |-> NoFile, written |-> FALSE, published |-> FALSE,
                   committed |-> FALSE, backed |-> FALSE, preserve |-> FALSE,
                   orphan |-> FALSE, trouble |-> FALSE, todo |-> <<>>]
  <1>1. c \in Call
    BY DEF Call, Places
  <1>2. Course(c)
    BY DEF Course, UpdateOnly, RollbackOnly, Removing
  <1>3. \A p \in Procs : calls[p] = c
    BY DEF Init
  <1>4. TypeOK
    BY <1>1, FilesAssumption DEF Init, TypeOK
  <1>5. Courses
    BY Zenon, <1>2, <1>3 DEF Courses
  <1>6. OneAtATime
    BY <1>3 DEF OneAtATime, Claiming, UpdateOnly
  <1> QED
    BY <1>4, <1>5, <1>6 DEF Basics

\* At first there are no files.
LEMMA InitFiles ==
    ASSUME Init
    PROVE  FilesInv
  <1>1. /\ \A p \in Procs : /\ calls[p].pc = "begin" /\ calls[p].op = "create"
                            /\ ~calls[p].committed /\ calls[p].found = NoFile /\ ~calls[p].backed
        /\ \A n \in Names : dir[n] = NoFile
        /\ NoFile \notin Procs
    BY FilesAssumption DEF Init
  <1>2. \A p \in Procs : ~Busy(p) /\ ~OwnRemoval(p) /\ \A n : ~InTodo(p, n)
    BY <1>1 DEF Busy, OwnRemoval, InTodo, Removing
  <1>3. NamesInv
    <2>1. FreshNames /\ TodoOwn /\ AsideOwn
      BY <1>1, <1>2, NamesDiffer DEF FreshNames, TodoOwn, AsideOwn
    <2>2. TodoShape /\ TempOwn /\ Unpublished /\ NoBackups /\ HandlesBacked
      BY <1>1, NamesDiffer DEF TodoShape, TempOwn, Unpublished, NoBackups, HandlesBacked
    <2> QED
      BY <2>1, <2>2 DEF NamesInv
  <1>4. WrittenInv
    BY <1>1, <1>2 DEF WrittenInv
  <1>5. CaseInv /\ OutcomeInv
    BY <1>1 DEF CaseInv, Outset, Withdrawing, Safekeeping, OutcomeInv, Reported
  <1>6. CaseKept /\ ReportKept
    BY <1>1 DEF CaseKept, KeptCase, ReportKept, KeptReport
  <1>7. QuietInv
    BY <1>1, <1>2 DEF QuietInv, Traced, OnTarget
  <1> QED
    BY <1>3, <1>4, <1>5, <1>6, <1>7, InitBasics DEF FilesInv

\* Every step keeps the invariant.
LEMMA FilesStep ==
    ASSUME FilesInv, [Next]_vars
    PROVE  FilesInv'
  BY BasicsStep, NamesStep, WrittenStep, CaseStep, OutcomeStep, CaseKeptStep, ReportKeptStep,
     QuietStep DEF FilesInv

\* The invariant holds throughout.
LEMMA Invariance == Spec => []FilesInv
  <1>1. Init => FilesInv
    BY InitFiles
  <1>2. FilesInv /\ [Next]_vars => FilesInv'
    BY FilesStep
  <1> QED
    BY <1>1, <1>2, PTL DEF Spec

\* Every call is in a state of its course.
THEOREM TypeCorrect == Spec => []TypeOK
  <1>1. FilesInv => TypeOK
    BY DEF FilesInv, Basics
  <1> QED
    BY <1>1, Invariance, PTL

\* A reader of the name never finds an incomplete text.
THEOREM RecordsWhole == Spec => []WholeRecord
  <1>1. FilesInv => WholeRecord
    BY NamesDiffer DEF FilesInv, WrittenInv, Unwritten, WholeRecord
  <1> QED
    BY <1>1, Invariance, PTL

\* No two updates commit an outcome over the same record.
THEOREM OutcomesUnique == Spec => []OneOutcome
  <1>1. ASSUME FilesInv PROVE OneOutcome
    <2>1. ASSUME NEW p \in Procs, NEW q \in Procs, p # q, Reported(p), Reported(q),
                 calls[p].found = calls[q].found, calls[p].found \in Procs
          PROVE  FALSE
      <3>1. kind = "case"
        BY <1>1, <2>1 DEF FilesInv, Basics, Courses, Course, Reported
      <3> QED
        BY <1>1, <2>1, <3>1 DEF FilesInv, OutcomeInv
    <2> QED
      BY <2>1 DEF OneOutcome, Reported
  <1> QED
    BY <1>1, Invariance, PTL

\* An update that failed has left the record, or its backup.
THEOREM FailuresReversible == Spec => []FailedUpdateReversible
  <1>1. ASSUME FilesInv PROVE FailedUpdateReversible
    <2>1. ASSUME NEW p \in Procs, calls[p].pc = "failed", calls[p].op = "update", dir[Target] = p
          PROVE  dir[Backup(p)] = calls[p].found
      <3>1. kind = "case" /\ ~calls[p].committed
        BY <1>1, <2>1 DEF FilesInv, Basics, Courses, Course
      <3>2. Safekeeping(p)
        BY <1>1, <3>1 DEF FilesInv, CaseInv
      <3>3. ~Confined(p)
        BY <2>1, NamesDiffer DEF Confined
      <3> QED
        BY <2>1, <3>1, <3>2, <3>3 DEF Safekeeping
    <2> QED
      BY <2>1 DEF FailedUpdateReversible
  <1> QED
    BY <1>1, Invariance, PTL

\* A reported text is not lost.
THEOREM ReportedTextsStay == Spec => []NothingLost
  <1>1. ASSUME FilesInv PROVE NothingLost
    <2>1. ASSUME NEW p \in Procs, calls[p].committed, p \notin taken, ~Superseded(p),
                 calls[p].op = "rollback" => p \in edited \/ calls[p].pc = "rollback_refused"
          PROVE  \E n \in Names : dir[n] = p
      <3>1. Basics /\ Course(calls[p]) /\ kind \in {"report", "case"}
        BY <1>1 DEF FilesInv, Basics, Courses, TypeOK
      <3>2. CASE kind = "case"
        <4>1. dir[Target] = p \/ \E q \in Procs : dir[Backup(q)] = p
          BY <1>1, <2>1, <3>2 DEF FilesInv, CaseKept, KeptCase, BackedUp
        <4> QED
          BY <4>1, NamesDiffer
      <3>3. CASE kind = "report"
        BY <1>1, <2>1, <3>3 DEF FilesInv, ReportKept, KeptReport
      <3> QED
        BY <3>1, <3>2, <3>3
    <2> QED
      BY <2>1 DEF NothingLost
  <1> QED
    BY <1>1, Invariance, PTL

\* A rollback that succeeds leaves no name of its file behind.
THEOREM RollbacksComplete == Spec => []RollbackComplete
  <1>1. ASSUME FilesInv PROVE RollbackComplete
    <2>1. ASSUME NEW p \in Procs, calls[p].pc = "rolled_back", edited \union taken = {}
          PROVE  \A n \in Names : dir[n] # p
      <3>1. kind = "report"
        BY <1>1, <2>1 DEF FilesInv, Basics, Courses, Course, RollbackOnly
      <3>2. Traced(p)
        BY <1>1, <2>1, <3>1 DEF FilesInv, QuietInv, Quiet
      <3> QED
        BY <2>1, <3>2 DEF Traced
    <2> QED
      BY <2>1 DEF RollbackComplete
  <1> QED
    BY <1>1, Invariance, PTL
=============================================================================
