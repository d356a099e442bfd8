-------------------------- MODULE GateInputsProofs --------------------------
(***************************************************************************)
(* What the gate may rely on, for any limits, diffs, criteria and number   *)
(* of pushes during a fetch: a snapshot is one revision, a ready verdict   *)
(* was reached on all of it, and worse inputs never make a verdict milder. *)
(***************************************************************************)
EXTENDS GateInputs, TLAPS, SequenceTheorems, FunctionTheorems, FiniteSetTheorems

-----------------------------------------------------------------------------
(* The invariant of a fetch.                                               *)

\* The values of the fields of a fetch.
FileRecords == UNION {Contents(h.diff) : h \in Histories}

CommitRecords == UNION {Contents(h.commits) : h \in Histories}

FileLists == Seq(FileRecords)

CommitLists == Seq(CommitRecords)

FetchSteps == {"pull", "files", "commits", "checks", "compare", "final", "failed", "done",
               "adopted"}

Counts == Nat

Pages == Nat \ {0}

FetchRecord ==
    [pc: FetchSteps, at: Revision, files: FileLists, commits: CommitLists, page: Pages,
     filesCut: BOOLEAN, commitsCut: BOOLEAN, check: CheckState, doubtful: BOOLEAN,
     requests: Counts, pages: Counts, items: Counts]

\* The types of a fetch.
IngestionType ==
    /\ history \in [Revision -> Histories]
    /\ pull \in Revision
    /\ fetch \in FetchRecord

\* Once the files were read, their number tells whether they were cut off.
CutIsFull(f) ==
    f.pc \notin {"pull", "files", "failed"} =>
        IF f.filesCut THEN Len(f.files) >= MaxFiles ELSE Len(f.files) <= MaxFiles

PassingIsSure(f) == f.check = "passing" => ~f.doubtful

\* What was compared is what is returned.
ComparedAgrees ==
    fetch.pc \in {"final", "done", "adopted"} =>
        Agrees(fetch.files, fetch.commits, history[fetch.at])

\* The invariant of a fetch.
IngestionInv ==
    /\ IngestionType
    /\ CutIsFull(fetch)
    /\ PassingIsSure(fetch)
    /\ ComparedAgrees

-----------------------------------------------------------------------------
(* Lists and pages.                                                        *)

\* What a history shows of a revision are files and commits.
LEMMA HistoryTypes ==
    ASSUME NEW h \in Histories
    PROVE  h.diff \in Seq(FileRecords) /\ h.commits \in Seq(CommitRecords)
BY HistoriesAssumption, SeqMonotonic DEF FileRecords, CommitRecords

\* The first n entries of a list, or all of them.
LEMMA PrefixProperties ==
    ASSUME NEW S, NEW list \in Seq(S), NEW n \in Nat
    PROVE  /\ Prefix(list, n) \in Seq(S)
           /\ Len(Prefix(list, n)) = Smaller(n, Len(list))
           /\ \A i \in 1..Smaller(n, Len(list)) : Prefix(list, n)[i] = list[i]
<1> DEFINE m == Smaller(n, Len(list))
<1>1. m \in Nat /\ m <= Len(list) /\ Len(list) \in Nat
  BY LenProperties DEF Smaller
<1>2. \A i \in 1..m : list[i] \in S
  BY <1>1, ElementOfSeq
<1> HIDE DEF m
<1>3. /\ SubSeq(list, 1, m) \in Seq(S)
      /\ Len(SubSeq(list, 1, m)) = IF 1 <= m THEN m - 1 + 1 ELSE 0
      /\ \A i \in 1..(m - 1 + 1) : SubSeq(list, 1, m)[i] = list[1 + i - 1]
  BY <1>1, <1>2, SubSeqProperties
<1> QED
  BY <1>1, <1>3 DEF Prefix, m

\* One page more of a list, as ReadPage retains it.
LEMMA PageProperties ==
    ASSUME NEW S, NEW list \in Seq(S), NEW read \in Seq(S), NEW page \in Nat \ {0},
           NEW size \in Nat, NEW limit \in Nat
    PROVE  LET served == SubSeq(list, (page - 1) * size + 1, Smaller(page * size, Len(list)))
               items == Prefix(read \o served, limit + 1)
           IN  /\ items \in Seq(S) /\ Len(items) \in Nat
               /\ Len(served) \in Nat
<1> DEFINE first == (page - 1) * size + 1
           last == Smaller(page * size, Len(list))
           served == SubSeq(list, first, last)
<1>1. first \in Nat \ {0}
  OBVIOUS
<1>2. page * size \in Nat
  OBVIOUS
<1>3. last \in Nat /\ last <= Len(list)
  BY <1>2, LenProperties DEF Smaller
<1>4. \A i \in first..last : list[i] \in S
  BY <1>1, <1>3, ElementOfSeq, LenProperties
<1> HIDE DEF first, last
<1>5. served \in Seq(S)
  BY <1>1, <1>3, <1>4, SubSeqProperties
<1> HIDE DEF served
<1>6. read \o served \in Seq(S)
  BY <1>5, ConcatProperties
<1>7. limit + 1 \in Nat
  OBVIOUS
<1>8. Prefix(read \o served, limit + 1) \in Seq(S)
  BY <1>6, <1>7, PrefixProperties
<1> QED
  BY <1>5, <1>8, LenProperties DEF served, first, last

\* Counts and pages are closed under what is done with them.
LEMMA Counting ==
    /\ \A m, n \in Counts : m + n \in Counts /\ m + 1 \in Counts
    /\ \A page \in Pages : page + 1 \in Pages
    /\ 1 \in Pages
BY DEF Counts, Pages

\* The steps a fetch can be at.
LEMMA StepNames == {"files", "commits", "checks", "failed"} \subseteq FetchSteps
BY DEF FetchSteps

-----------------------------------------------------------------------------
(* The steps of a fetch.                                                   *)

\* Before the first request nothing was collected.
LEMMA InitIngestionInv == InitIngestion => IngestionInv
<1> SUFFICES ASSUME InitIngestion PROVE IngestionInv
  OBVIOUS
<1>1. fetch \in FetchRecord
  BY EmptySeq
     DEF InitIngestion, FetchRecord, FetchSteps, CheckState, FileLists, CommitLists, Counts, Pages
<1> QED
  BY <1>1 DEF InitIngestion, IngestionInv, IngestionType, CutIsFull, PassingIsSure,
     ComparedAgrees

\* A request that was counted.
Counted(f) == [f EXCEPT !.requests = @ + 1]

\* Counting a request changes nothing else.
LEMMA CountedType ==
    ASSUME NEW f \in FetchRecord
    PROVE  /\ Counted(f) \in FetchRecord /\ Counted(f).pc = f.pc
           /\ Counted(f).at = f.at
           /\ Counted(f).files = f.files /\ Counted(f).filesCut = f.filesCut
           /\ Counted(f).commits = f.commits /\ Counted(f).commitsCut = f.commitsCut
           /\ Counted(f).check = f.check /\ Counted(f).doubtful = f.doubtful
<1>1. f.requests + 1 \in Counts
  BY Counting DEF FetchRecord
<1> QED
  BY <1>1 DEF FetchRecord, Counted

\* A request fails the fetch, or it takes it to the next step.
LEMMA RequestStep ==
    ASSUME NEW next, Request(next)
    PROVE  /\ UNCHANGED <<history, pull>>
           /\ fetch' = Failed \/ fetch' = Counted(next)
BY DEF Request, Counted

\* A fetch that fails keeps what it found out about the checks.
LEMMA FailedType ==
    ASSUME IngestionInv
    PROVE  /\ Failed \in FetchRecord /\ Failed.pc = "failed"
           /\ Failed.check = fetch.check /\ Failed.doubtful = fetch.doubtful
<1>1. fetch \in FetchRecord
  BY DEF IngestionInv, IngestionType
<1>2. <<>> \in FileLists /\ <<>> \in CommitLists
  BY EmptySeq DEF FileLists, CommitLists
<1> QED
  BY <1>1, <1>2, Counting, StepNames DEF Failed, FetchRecord

\* A fetch that is still collecting, or failed, has nothing to keep but this.
LEMMA FetchStep ==
    ASSUME IngestionInv, UNCHANGED <<history, pull>>, fetch' \in FetchRecord,
           fetch'.pc \notin {"final", "done", "adopted"},
           CutIsFull(fetch'), PassingIsSure(fetch')
    PROVE  IngestionInv'
BY DEF IngestionInv, IngestionType, ComparedAgrees

\* A request that fails, whichever it was, ends the fetch.
LEMMA FailedStep ==
    ASSUME IngestionInv, UNCHANGED <<history, pull>>,
           fetch' = Failed \/ fetch' = Counted(Failed)
    PROVE  IngestionInv'
<1>1. /\ fetch' \in FetchRecord /\ fetch'.pc = "failed"
      /\ fetch'.check = fetch.check /\ fetch'.doubtful = fetch.doubtful
  <2> DEFINE f == Failed
  <2>1. /\ f \in FetchRecord /\ f.pc = "failed"
        /\ f.check = fetch.check /\ f.doubtful = fetch.doubtful
    BY FailedType
  <2> HIDE DEF f
  <2>2. CASE fetch' = f
    BY <2>1, <2>2
  <2>3. CASE fetch' = Counted(f)
    BY <2>1, <2>3, CountedType
  <2> QED
    BY <2>2, <2>3 DEF f
<1> QED
  BY <1>1, FetchStep DEF IngestionInv, PassingIsSure, CutIsFull

\* The requests of a fetch, one lemma for each.
LEMMA ReadPullInv ==
    ASSUME IngestionInv, ReadPull
    PROVE  IngestionInv'
<1> DEFINE next == [fetch EXCEPT !.at = pull, !.pc = "files"]
<1>1. next \in FetchRecord /\ next.pc = "files" /\ next.check = fetch.check
      /\ next.doubtful = fetch.doubtful
  BY DEF IngestionInv, IngestionType, FetchRecord, FetchSteps
<1>2. Request(next)
  BY DEF ReadPull
<1> HIDE DEF next
<1>3. /\ UNCHANGED <<history, pull>>
      /\ fetch' = Failed \/ fetch' = Counted(next)
  BY <1>2, RequestStep
<1>4. CASE fetch' = Counted(next)
  <2>1. fetch' \in FetchRecord /\ fetch'.pc = "files" /\ fetch'.check = fetch.check
        /\ fetch'.doubtful = fetch.doubtful
    BY <1>1, <1>4, CountedType
  <2> QED
    BY <1>3, <2>1, FetchStep DEF CutIsFull, PassingIsSure, IngestionInv
<1> QED
  BY <1>3, <1>4, FailedStep

\* Reading a list up to its limit: what is retained, and whether it is cut off.
LEMMA ReadFilesInv ==
    ASSUME IngestionInv, ReadFiles
    PROVE  IngestionInv'
<1> DEFINE list == history[pull].diff
           size == Smaller(PageSize, MaxFiles + 1)
           served == SubSeq(list, (fetch.page - 1) * size + 1,
                            Smaller(fetch.page * size, Len(list)))
           items == Prefix(fetch.files \o served, MaxFiles + 1)
           more == HasNext(list, size)
           over == Len(items) > MaxFiles \/ (more /\ Len(items) = MaxFiles)
           read == [fetch EXCEPT !.files = items, !.pages = @ + 1, !.items = @ + Len(served)]
           onward == [read EXCEPT !.page = @ + 1]
           ended == [read EXCEPT !.page = 1, !.pc = "commits", !.filesCut = over]
           next == IF read.pages > MaxPages \/ read.items > MaxItems THEN Failed
                   ELSE IF more /\ ~over THEN onward ELSE ended
<1>1. Request(next)
  BY DEF ReadFiles, ReadPage
<1>2. fetch \in FetchRecord /\ fetch.pc = "files" /\ PassingIsSure(fetch)
  BY DEF ReadFiles, ReadPage, IngestionInv, IngestionType
<1>3. list \in FileLists
  BY HistoryTypes DEF IngestionInv, IngestionType, FileLists
<1>4. MaxFiles \in Nat /\ size \in Nat
  BY IngestionAssumption DEF Smaller
<1>5. items \in FileLists /\ Len(items) \in Nat /\ Len(served) \in Nat
  BY <1>2, <1>3, <1>4, PageProperties DEF FetchRecord, FileLists, Pages
<1> HIDE DEF size, served, items, list
<1>6. over \in BOOLEAN
  OBVIOUS
<1>7. IF over THEN Len(items) >= MaxFiles ELSE Len(items) <= MaxFiles
  BY <1>4, <1>5
<1> HIDE DEF more, over
<1>8. fetch.pages + 1 \in Counts /\ fetch.items + Len(served) \in Counts
      /\ fetch.page + 1 \in Pages
  BY <1>2, <1>5, Counting DEF FetchRecord, Counts
<1>9. read \in FetchRecord /\ read.pc = "files" /\ read.files = items /\ read.page = fetch.page
      /\ read.check = fetch.check /\ read.doubtful = fetch.doubtful
  BY <1>2, <1>5, <1>8 DEF FetchRecord
<1> HIDE DEF read
<1>10. /\ onward \in FetchRecord /\ onward.pc = "files"
       /\ onward.check = fetch.check /\ onward.doubtful = fetch.doubtful
  BY <1>8, <1>9 DEF FetchRecord
<1>11. /\ ended \in FetchRecord /\ ended.pc = "commits"
       /\ ended.files = items /\ ended.filesCut = over
       /\ ended.check = fetch.check /\ ended.doubtful = fetch.doubtful
  BY <1>6, <1>9, Counting, StepNames DEF FetchRecord
<1> HIDE DEF onward, ended
<1>12. /\ UNCHANGED <<history, pull>>
       /\ \/ fetch' = Failed \/ fetch' = Counted(Failed)
          \/ fetch' = Counted(onward) \/ fetch' = Counted(ended)
  BY <1>1, RequestStep
<1>13. CASE fetch' = Counted(onward)
  <2>1. fetch' \in FetchRecord /\ fetch'.pc = "files" /\ fetch'.check = fetch.check
        /\ fetch'.doubtful = fetch.doubtful
    BY <1>10, <1>13, CountedType
  <2> QED
    BY <1>2, <1>12, <2>1, FetchStep DEF CutIsFull, PassingIsSure
<1>14. CASE fetch' = Counted(ended)
  <2>1. fetch' \in FetchRecord /\ fetch'.pc = "commits" /\ fetch'.check = fetch.check
        /\ fetch'.doubtful = fetch.doubtful /\ fetch'.files = items /\ fetch'.filesCut = over
    BY <1>11, <1>14, CountedType
  <2> QED
    BY <1>2, <1>7, <1>12, <2>1, FetchStep DEF CutIsFull, PassingIsSure
<1> QED
  BY <1>12, <1>13, <1>14, FailedStep

LEMMA ReadCommitsInv ==
    ASSUME IngestionInv, ReadCommits
    PROVE  IngestionInv'
<1> DEFINE list == history[pull].commits
           size == Smaller(PageSize, MaxCommits + 1)
           served == SubSeq(list, (fetch.page - 1) * size + 1,
                            Smaller(fetch.page * size, Len(list)))
           items == Prefix(fetch.commits \o served, MaxCommits + 1)
           more == HasNext(list, size)
           over == Len(items) > MaxCommits \/ (more /\ Len(items) = MaxCommits)
           read == [fetch EXCEPT !.commits = items, !.pages = @ + 1, !.items = @ + Len(served)]
           onward == [read EXCEPT !.page = @ + 1]
           ended == [read EXCEPT !.page = 1, !.pc = "checks", !.commitsCut = over]
           next == IF read.pages > MaxPages \/ read.items > MaxItems THEN Failed
                   ELSE IF more /\ ~over THEN onward ELSE ended
<1>1. Request(next)
  BY DEF ReadCommits, ReadPage
<1>2. fetch \in FetchRecord /\ fetch.pc = "commits" /\ PassingIsSure(fetch) /\ CutIsFull(fetch)
  BY DEF ReadCommits, ReadPage, IngestionInv, IngestionType
<1>3. list \in CommitLists
  BY HistoryTypes DEF IngestionInv, IngestionType, CommitLists
<1>4. MaxCommits \in Nat /\ size \in Nat
  BY IngestionAssumption DEF Smaller
<1>5. items \in CommitLists /\ Len(items) \in Nat /\ Len(served) \in Nat
  BY <1>2, <1>3, <1>4, PageProperties DEF FetchRecord, CommitLists, Pages
<1> HIDE DEF size, served, items, list
<1>6. over \in BOOLEAN
  OBVIOUS
<1> HIDE DEF more, over
<1>7. fetch.pages + 1 \in Counts /\ fetch.items + Len(served) \in Counts
      /\ fetch.page + 1 \in Pages
  BY <1>2, <1>5, Counting DEF FetchRecord, Counts
<1>8. read \in FetchRecord /\ read.pc = "commits" /\ read.files = fetch.files
      /\ read.page = fetch.page /\ read.filesCut = fetch.filesCut
      /\ read.check = fetch.check /\ read.doubtful = fetch.doubtful
  BY <1>2, <1>5, <1>7 DEF FetchRecord
<1> HIDE DEF read
<1>9. ASSUME NEW f \in {onward, ended}
      PROVE  /\ f \in FetchRecord /\ f.pc \in {"commits", "checks"}
             /\ f.files = fetch.files /\ f.filesCut = fetch.filesCut
             /\ f.check = fetch.check /\ f.doubtful = fetch.doubtful
  BY <1>6, <1>7, <1>8, Counting, StepNames DEF FetchRecord
<1> HIDE DEF onward, ended
<1>10. /\ UNCHANGED <<history, pull>>
       /\ \/ fetch' = Failed \/ fetch' = Counted(Failed)
          \/ \E f \in {onward, ended} : fetch' = Counted(f)
  BY <1>1, RequestStep
<1>11. ASSUME NEW f \in {onward, ended}, fetch' = Counted(f) PROVE IngestionInv'
  <2>1. fetch' \in FetchRecord /\ fetch'.pc \in {"commits", "checks"}
        /\ fetch'.files = fetch.files /\ fetch'.filesCut = fetch.filesCut
        /\ fetch'.check = fetch.check /\ fetch'.doubtful = fetch.doubtful
    BY <1>9, <1>11, CountedType
  <2> QED
    BY <1>2, <1>10, <2>1, FetchStep DEF CutIsFull, PassingIsSure
<1> QED
  BY <1>10, <1>11, FailedStep

\* A complete collection shows all of its entries, which are of known kinds.
LEMMA CompleteShowsAll ==
    ASSUME NEW answer \in Answer, CollectionComplete(answer)
    PROVE  /\ answer.ok
           /\ \A i \in DOMAIN answer.entries :
                answer.entries[i] \in Shown(answer) /\ answer.entries[i] # "malformed"
<1>1. answer.ok
  BY DEF CollectionComplete
<1>2. answer.entries \in UNION {[1..n -> Kind] : n \in 0..(ChecksShown + 1)}
  BY <1>1 DEF Answer
<1>3. PICK n \in 0..(ChecksShown + 1) : answer.entries \in [1..n -> Kind]
  BY <1>2
<1>4. n \in Nat
  BY IngestionAssumption
<1>5. Len(answer.entries) = n /\ DOMAIN answer.entries = 1..n
  BY <1>3, <1>4
<1>6. n <= ChecksShown /\ ChecksShown \in Nat
  BY <1>5, IngestionAssumption DEF CollectionComplete
<1>7. Smaller(ChecksShown, Len(answer.entries)) = n
  BY <1>4, <1>5, <1>6 DEF Smaller
<1>8. Shown(answer) = {answer.entries[i] : i \in 1..n}
  BY <1>1, <1>7 DEF Shown
<1> QED
  BY <1>1, <1>5, <1>8 DEF CollectionComplete

\* Checks pass only if neither of the two answers is in doubt.
LEMMA PassingChecks ==
    ASSUME NEW runs \in Answer, NEW statuses \in Answer,
           CheckObservation(runs, statuses) = "passing"
    PROVE  ~Doubtful(runs) /\ ~Doubtful(statuses)
<1>1. /\ CollectionComplete(runs) /\ CollectionComplete(statuses)
      /\ {"failure", "pending"} \intersect (Shown(runs) \union Shown(statuses)) = {}
  BY DEF CheckObservation
<1> QED
  BY <1>1, CompleteShowsAll DEF Doubtful

\* An observation of the checks has its type.
LEMMA ObservationType ==
    ASSUME NEW runs, NEW statuses
    PROVE  /\ CheckObservation(runs, statuses) \in CheckState
           /\ Doubtful(runs) \in BOOLEAN
BY DEF CheckObservation, CheckState, Doubtful

LEMMA ReadChecksInv ==
    ASSUME IngestionInv, ReadChecks
    PROVE  IngestionInv'
<1>1. fetch \in FetchRecord /\ fetch.pc = "checks" /\ CutIsFull(fetch)
      /\ UNCHANGED <<history, pull>>
  BY DEF ReadChecks, IngestionInv, IngestionType
<1> DEFINE Checked(runs, statuses) ==
             [fetch EXCEPT !.pc = "compare", !.requests = @ + 2,
                           !.check = CheckObservation(runs, statuses),
                           !.doubtful = Doubtful(runs) \/ Doubtful(statuses)]
<1>2. ASSUME NEW runs \in Answer, NEW statuses \in Answer, fetch' = Checked(runs, statuses)
      PROVE  IngestionInv'
  <2> DEFINE check == CheckObservation(runs, statuses)
             doubtful == Doubtful(runs) \/ Doubtful(statuses)
  <2>1. check \in CheckState /\ doubtful \in BOOLEAN /\ (check = "passing" => ~doubtful)
    BY ObservationType, PassingChecks
  <2>2. fetch.requests + 2 \in Counts /\ "compare" \in FetchSteps
    BY <1>1 DEF FetchRecord, Counts, FetchSteps
  <2>3. fetch' = [fetch EXCEPT !.pc = "compare", !.requests = @ + 2, !.check = check,
                               !.doubtful = doubtful]
    BY <1>2
  <2> HIDE DEF check, doubtful, Checked
  <2>4. /\ fetch' \in FetchRecord /\ fetch'.pc = "compare"
        /\ fetch'.files = fetch.files /\ fetch'.filesCut = fetch.filesCut
        /\ fetch'.check = check /\ fetch'.doubtful = doubtful
    BY <1>1, <2>1, <2>2, <2>3 DEF FetchRecord
  <2> QED
    BY <1>1, <2>1, <2>4, FetchStep DEF CutIsFull, PassingIsSure
<1>3. fetch' = Failed \/ \E runs, statuses \in Answer : fetch' = Checked(runs, statuses)
  BY DEF ReadChecks
<1> HIDE DEF Checked
<1> QED
  BY <1>1, <1>2, <1>3, FailedStep

\* A step that keeps what was collected, and that was compared.
LEMMA KeepingStep ==
    ASSUME IngestionInv, NEW pc \in FetchSteps, UNCHANGED history, pull' \in Revision,
           fetch' \in FetchRecord, fetch'.pc = pc,
           \A field \in {"at", "files", "filesCut", "commits", "commitsCut", "check",
                         "doubtful"} : fetch'[field] = fetch[field],
           pc \notin {"pull", "files", "failed"} =>
             fetch.pc \notin {"pull", "files", "failed"},
           pc \in {"final", "done", "adopted"} =>
             Agrees(fetch.files, fetch.commits, history[fetch.at])
    PROVE  IngestionInv'
<1>1. /\ fetch'.at = fetch.at /\ fetch'.files = fetch.files
      /\ fetch'.filesCut = fetch.filesCut /\ fetch'.commits = fetch.commits
      /\ fetch'.commitsCut = fetch.commitsCut /\ fetch'.check = fetch.check
      /\ fetch'.doubtful = fetch.doubtful
  OBVIOUS
<1>2. CutIsFull(fetch)' /\ PassingIsSure(fetch)'
  BY <1>1 DEF IngestionInv, CutIsFull, PassingIsSure
<1>3. ComparedAgrees'
  BY <1>1 DEF ComparedAgrees, Agrees
<1> QED
  BY <1>2, <1>3 DEF IngestionInv, IngestionType

LEMMA CompareInv ==
    ASSUME IngestionInv, Compare
    PROVE  IngestionInv'
<1> DEFINE next == [fetch EXCEPT !.pc = "final"]
<1>1. fetch \in FetchRecord /\ fetch.pc = "compare"
  BY DEF Compare, IngestionInv, IngestionType
<1>2. /\ next \in FetchRecord /\ next.pc = "final"
      /\ next.at = fetch.at /\ next.files = fetch.files
      /\ next.filesCut = fetch.filesCut /\ next.commits = fetch.commits
      /\ next.commitsCut = fetch.commitsCut /\ next.check = fetch.check
      /\ next.doubtful = fetch.doubtful
  BY <1>1 DEF FetchRecord, FetchSteps
<1> HIDE DEF next
<1>3. /\ UNCHANGED <<history, pull>>
      /\ \/ fetch' = Failed \/ fetch' = Counted(Failed)
         \/ /\ fetch' = Counted(next)
            /\ Agrees(fetch.files, fetch.commits, history[fetch.at])
  BY RequestStep DEF Compare, next
<1>4. CASE /\ fetch' = Counted(next)
           /\ Agrees(fetch.files, fetch.commits, history[fetch.at])
  <2>1. /\ fetch' \in FetchRecord /\ fetch'.pc = "final"
        /\ fetch'.at = fetch.at /\ fetch'.files = fetch.files
        /\ fetch'.filesCut = fetch.filesCut /\ fetch'.commits = fetch.commits
        /\ fetch'.commitsCut = fetch.commitsCut /\ fetch'.check = fetch.check
        /\ fetch'.doubtful = fetch.doubtful
    BY <1>2, <1>4, CountedType
  <2>2. pull' \in Revision /\ "final" \in FetchSteps
    BY <1>3 DEF IngestionInv, IngestionType, FetchSteps
  <2> QED
    BY <1>1, <1>3, <1>4, <2>1, <2>2, KeepingStep
<1> QED
  BY <1>3, <1>4, FailedStep

LEMMA ReadFinalInv ==
    ASSUME IngestionInv, ReadFinal
    PROVE  IngestionInv'
<1> DEFINE next == [fetch EXCEPT !.pc = "done"]
<1>1. fetch \in FetchRecord /\ fetch.pc = "final"
      /\ Agrees(fetch.files, fetch.commits, history[fetch.at])
  BY DEF ReadFinal, IngestionInv, IngestionType, ComparedAgrees
<1>2. /\ next \in FetchRecord /\ next.pc = "done"
      /\ next.at = fetch.at /\ next.files = fetch.files
      /\ next.filesCut = fetch.filesCut /\ next.commits = fetch.commits
      /\ next.commitsCut = fetch.commitsCut /\ next.check = fetch.check
      /\ next.doubtful = fetch.doubtful
  BY <1>1 DEF FetchRecord, FetchSteps
<1> HIDE DEF next
<1>3. /\ UNCHANGED <<history, pull>>
      /\ fetch' = Failed \/ fetch' = Counted(Failed) \/ fetch' = Counted(next)
  BY RequestStep DEF ReadFinal, next
<1>4. CASE fetch' = Counted(next)
  <2>1. /\ fetch' \in FetchRecord /\ fetch'.pc = "done"
        /\ fetch'.at = fetch.at /\ fetch'.files = fetch.files
        /\ fetch'.filesCut = fetch.filesCut /\ fetch'.commits = fetch.commits
        /\ fetch'.commitsCut = fetch.commitsCut /\ fetch'.check = fetch.check
        /\ fetch'.doubtful = fetch.doubtful
    BY <1>2, <1>4, CountedType
  <2>2. pull' \in Revision /\ "done" \in FetchSteps
    BY <1>3 DEF IngestionInv, IngestionType, FetchSteps
  <2> QED
    BY <1>1, <1>3, <2>1, <2>2, KeepingStep
<1> QED
  BY <1>3, <1>4, FailedStep

\* Every step of an ingestion keeps the invariant.
LEMMA NextIngestionInv ==
    ASSUME IngestionInv, NextIngestion
    PROVE  IngestionInv'
<1>1. CASE \E revision \in Revision : Move(revision)
  BY <1>1 DEF Move, IngestionInv, IngestionType, ComparedAgrees, Agrees
<1> QED
  BY <1>1, ReadPullInv, ReadFilesInv, ReadCommitsInv, ReadChecksInv, CompareInv, ReadFinalInv
     DEF NextIngestion

-----------------------------------------------------------------------------
(* What a fetch returns.                                                   *)

\* As many paths as files: no path occurs twice.
LEMMA PathsDiffer ==
    ASSUME NEW S, NEW list \in Seq(S), Cardinality(Paths(list)) = Len(list),
           NEW i \in DOMAIN list, NEW j \in DOMAIN list, list[i].path = list[j].path
    PROVE  i = j
<1> DEFINE n == Len(list)
           f == [k \in 1..n |-> list[k].path]
<1>1. n \in Nat /\ DOMAIN list = 1..n
  BY LenProperties
<1>2. f \in Surjection(1..n, Paths(list))
  BY <1>1 DEF Surjection, Paths
<1>3. IsFiniteSet(1..n) /\ Cardinality(1..n) = n
  <2>1. 1 \in Int /\ n \in Int /\ (IF 1 > n THEN 0 ELSE n - 1 + 1) = n
    BY <1>1
  <2> QED
    BY <2>1, FS_Interval
<1>4. f \in Injection(1..n, Paths(list))
  BY <1>2, <1>3, FS_Surjection
<1> QED
  BY <1>1, <1>4 DEF Injection, IsInjective

\* The snapshot of a fetch that compared what it collected, and did not fail.
SnapshotHolds ==
    LET whole == history[fetch.at] IN
      /\ Inspected \subseteq Contents(whole.diff)
      /\ Prefix(whole.commits, Len(fetch.commits)) = fetch.commits
      /\ ~Limited => Inspected = Contents(whole.diff) /\ fetch.commits = whole.commits
      /\ \A path \in Paths(whole.diff) \ {file.path : file \in Inspected} :
            path \in Skipped \/ (fetch.filesCut /\ Len(Retained) = MaxFiles)

\* After the comparison, whatever is pushed, the snapshot is of one revision: every list
\* that was not cut was compared with the totals of that revision.
LEMMA SnapshotIsWhole ==
    ASSUME IngestionInv, fetch.pc \in {"final", "done", "adopted"}
    PROVE  SnapshotHolds
<1> DEFINE whole == history[fetch.at]
           files == fetch.files
<1>1. files \in Seq(FileRecords) /\ MaxFiles \in Nat
  BY IngestionAssumption DEF IngestionInv, IngestionType, FetchRecord, FileLists
<1>2. Agrees(files, fetch.commits, whole)
  BY DEF IngestionInv, ComparedAgrees
<1>3. IF fetch.filesCut THEN Len(files) >= MaxFiles ELSE Len(files) <= MaxFiles
  BY DEF IngestionInv, CutIsFull
<1>4. /\ Len(files) \in Nat /\ DOMAIN files = 1..Len(files)
      /\ Retained \in Seq(FileRecords)
      /\ Len(Retained) = Smaller(MaxFiles, Len(files))
      /\ DOMAIN Retained = 1..Len(Retained)
      /\ \A i \in DOMAIN Retained : i \in DOMAIN files /\ Retained[i] = files[i]
  BY <1>1, PrefixProperties, LenProperties DEF Retained, Smaller
<1>5. Inspected \subseteq Contents(files)
  BY <1>4 DEF Inspected, Contents
<1>6. ~fetch.filesCut => DOMAIN Retained = DOMAIN files
  BY <1>1, <1>3, <1>4 DEF Smaller
<1>7. fetch.filesCut => Len(Retained) = MaxFiles
  BY <1>1, <1>3, <1>4 DEF Smaller
<1>8. ASSUME ~fetch.filesCut, Skipped = {} PROVE Contents(files) \subseteq Inspected
  <2> SUFFICES ASSUME NEW i \in DOMAIN files PROVE files[i] \in Inspected
    BY DEF Contents
  <2>1. PICK file \in Inspected : file.path = files[i].path
    BY <1>8 DEF Skipped, Paths
  <2>2. PICK j \in DOMAIN files : file = files[j]
    BY <1>5 DEF Contents
  <2>3. i = j
    BY <1>1, <1>2, <2>1, <2>2, PathsDiffer DEF Agrees
  <2> QED
    BY <2>2, <2>3
<1>9. ~Limited => Inspected = Contents(whole.diff) /\ fetch.commits = whole.commits
  BY <1>2, <1>5, <1>8 DEF Limited, Agrees
<1>10. ASSUME NEW path \in Paths(whole.diff) \ {file.path : file \in Inspected}
       PROVE  path \in Skipped \/ (fetch.filesCut /\ Len(Retained) = MaxFiles)
  <2>1. CASE ~fetch.filesCut
    <3>1. PICK i \in DOMAIN whole.diff : path = whole.diff[i].path
      BY DEF Paths
    <3>2. whole.diff[i] \in Contents(files)
      BY <1>2, <2>1 DEF Agrees, Contents
    <3>3. PICK j \in DOMAIN files : whole.diff[i] = files[j]
      BY <3>2 DEF Contents
    <3>4. path \in Paths(files)
      BY <3>1, <3>3 DEF Paths
    <3> QED
      BY <3>4 DEF Skipped
  <2> QED
    BY <1>7, <2>1
<1> QED
  BY <1>2, <1>5, <1>9, <1>10 DEF SnapshotHolds, Agrees

-----------------------------------------------------------------------------
(* The truth table.                                                        *)

\* Each criterion is treated in one way, by the one decision about it or by
\* its finding, and the verdict follows from the lists.
LEMMA GateLists ==
    ASSUME NEW rev, NEW f, NEW cs, NEW fs, NEW rs, NEW ci, NEW sc
    PROVE  LET g == EvaluateGate(rev, f, cs, fs, rs, ci, sc) IN
           /\ g.blocking \intersect (g.conditional \union g.unresolved
                                     \union g.exceptions) = {}
           /\ g.unresolved \intersect (g.conditional \union g.exceptions) = {}
           /\ g.verdict = "ready" =>
                g.blocking \union g.conditional \union g.unresolved
                  \union g.exceptions = {}
           /\ g.verdict = "blocked" => g.blocking # {} \/ f.check = "failing"
<1> DEFINE g == EvaluateGate(rev, f, cs, fs, rs, ci, sc)
<1>1. CASE InvalidGateInput(rev, cs, fs, rs)
  BY <1>1 DEF EvaluateGate
<1>2. CASE ~InvalidGateInput(rev, cs, fs, rs)
  <2>1. /\ g.verdict = Verdict(rev, f, cs, fs, rs, ci, sc)
        /\ g.blocking = Blocking(cs, fs, rs)
        /\ g.conditional = Conditional(cs, fs, rs)
        /\ g.unresolved = Unresolved(cs, fs, rs)
        /\ g.exceptions = Exceptions(cs, rs)
    BY <1>2 DEF EvaluateGate
  <2>2. \A r, s \in rs : r.target = s.target => r.decision = s.decision
    BY <1>2 DEF InvalidGateInput
  <2>3. ASSUME NEW c, NEW D, NEW E, DecidedAs(rs, c, D), DecidedAs(rs, c, E), D \intersect E = {}
        PROVE  FALSE
    BY <2>2, <2>3 DEF DecidedAs
  <2>4. ASSUME NEW c, NEW d \in HumanDecision \ {"rejected_finding"}, DecidedAs(rs, c, {d})
        PROVE  ~Open(rs, c)
    BY <2>3, <2>4 DEF Open, DecidedAs, HumanDecision
  <2>5. \A c : Unlinked(rs, c) => DecidedAs(rs, c, {"manually_verified"})
    BY DEF Unlinked, DecidedAs
  <2>6. \A c : DecidedAs(rs, c, {"accepted_exception", "not_in_scope"}) =>
               \/ DecidedAs(rs, c, {"accepted_exception"})
               \/ DecidedAs(rs, c, {"not_in_scope"})
    BY DEF DecidedAs
  <2>7. Blocking(cs, fs, rs) \intersect (Conditional(cs, fs, rs) \union Unresolved(cs, fs, rs)
                                         \union Exceptions(cs, rs)) = {}
    BY <2>3, <2>4, <2>5, <2>6 DEF Blocking, Conditional, Unresolved, Exceptions, HumanDecision
  <2>8. Unresolved(cs, fs, rs) \intersect (Conditional(cs, fs, rs) \union Exceptions(cs, rs)) = {}
    BY <2>3, <2>4, <2>5, <2>6 DEF Conditional, Unresolved, Exceptions, HumanDecision
  <2>9. g.verdict = "ready" =>
          Blocking(cs, fs, rs) \union Conditional(cs, fs, rs) \union Unresolved(cs, fs, rs)
            \union Exceptions(cs, rs) = {}
    BY <2>1 DEF Verdict, Blocked, Incomplete, Qualified
  <2>10. g.verdict = "blocked" => Blocking(cs, fs, rs) # {} \/ f.check = "failing"
    BY <2>1 DEF Verdict, Blocked
  <2> QED
    BY <2>1, <2>7, <2>8, <2>9, <2>10
<1> QED
  BY <1>1, <1>2

\* What a ready verdict rests on.
LEMMA ReadyInputs ==
    ASSUME NEW rev, NEW f \in Facts, NEW cs, NEW fs, NEW rs, NEW ci,
           EvaluateGate(rev, f, cs, fs, rs, ci, << >>).verdict = "ready"
    PROVE  Files \subseteq ci /\ ~f.limited /\ f.check = "passing"
<1>1. Verdict(rev, f, cs, fs, rs, ci, << >>) = "ready"
  BY DEF EvaluateGate
<1>2. /\ FilesResolved(f, ci, << >>) /\ ~f.limited
      /\ f.check \notin {"pending", "unavailable", "failing"}
  BY <1>1 DEF Verdict, Blocked, Incomplete
<1>3. \A p : ~LatestScope(<< >>, p, "outside")
  BY DEF LatestScope
<1>4. Files \subseteq ci
  BY <1>2, <1>3 DEF FilesResolved, UnresolvedChangedFilePaths
<1> QED
  BY <1>2, <1>4 DEF Facts, CheckState

-----------------------------------------------------------------------------
(* The invariant.                                                          *)

\* The reviewer saw what the gate is told, or more of it.
SeenEnough ==
    fetch.pc = "adopted" =>
      /\ ~facts.limited => seen.whole
      /\ facts.check = "passing" => ~seen.doubtful
      /\ seen.paths \subseteq Files

\* The invariant of the composition.
InputsInv ==
    /\ IngestionInv
    /\ review \in [confirmed: BOOLEAN, final: BOOLEAN, provenance: [criteria: SUBSET Criteria]]
    /\ facts \in Facts
    /\ findings \in [DOMAIN findings -> [status: FindingStatus]]
    /\ DOMAIN findings \subseteq Criterions
    /\ Decided => fetch.pc = "adopted"
    /\ SeenEnough

\* In the beginning nothing is adopted.
LEMMA InitInputsInv == Init => InputsInv
<1> SUFFICES ASSUME Init PROVE InputsInv
  OBVIOUS
<1>1. IngestionInv
  BY InitIngestionInv DEF Init
<1>2. facts \in Facts
  BY DEF Init, Facts, CheckState, IngestionState
<1>3. review \in [confirmed: BOOLEAN, final: BOOLEAN, provenance: [criteria: SUBSET Criteria]]
      /\ review.provenance.criteria = {}
  BY DEF Init
<1>4. findings \in [DOMAIN findings -> [status: FindingStatus]] /\ DOMAIN findings = {}
  BY DEF Init
<1>5. fetch.pc # "adopted"
  BY DEF Init, InitIngestion
<1> QED
  BY <1>1, <1>2, <1>3, <1>4, <1>5 DEF InputsInv, SeenEnough, Decided, Criterions

\* While a fetch runs, the gate has no inputs.
LEMMA FetchKeepsInputs ==
    ASSUME InputsInv, Fetch
    PROVE  InputsInv'
<1>1. IngestionInv'
  BY NextIngestionInv DEF InputsInv, Fetch
<1>2. fetch.pc # "adopted" /\ fetch'.pc # "adopted"
  <2>1. fetch \in FetchRecord
    BY DEF InputsInv, IngestionInv, IngestionType
  <2>2. CASE \E revision \in Revision : Move(revision)
    BY <2>2 DEF Move
  <2>3. CASE ReadPull
    BY <2>1, <2>3 DEF ReadPull, Request, Failed, FetchRecord
  <2>4. CASE ReadFiles
    BY <2>1, <2>4 DEF ReadFiles, ReadPage, Request, Failed, FetchRecord
  <2>5. CASE ReadCommits
    BY <2>1, <2>5 DEF ReadCommits, ReadPage, Request, Failed, FetchRecord
  <2>6. CASE ReadChecks
    BY <2>1, <2>6 DEF ReadChecks, Failed, FetchRecord
  <2>7. CASE Compare \/ ReadFinal
    BY <2>1, <2>7 DEF Compare, ReadFinal, Request, Failed, FetchRecord
  <2> QED
    BY <2>2, <2>3, <2>4, <2>5, <2>6, <2>7 DEF Fetch, NextIngestion
<1> QED
  BY <1>1, <1>2 DEF InputsInv, SeenEnough, Decided, Criterions, Fetch, inputs

\* A snapshot is adopted as it was collected.
LEMMA AdoptInv ==
    ASSUME InputsInv, Adopt
    PROVE  InputsInv'
<1>1. fetch \in FetchRecord /\ fetch.pc = "done" /\ "adopted" \in FetchSteps
      /\ IngestionInv /\ UNCHANGED <<history, pull>>
  BY DEF Adopt, InputsInv, IngestionInv, IngestionType, FetchSteps
<1>2. /\ fetch' \in FetchRecord /\ fetch'.pc = "adopted"
      /\ fetch'.at = fetch.at /\ fetch'.files = fetch.files
      /\ fetch'.filesCut = fetch.filesCut /\ fetch'.commits = fetch.commits
      /\ fetch'.commitsCut = fetch.commitsCut /\ fetch'.check = fetch.check
      /\ fetch'.doubtful = fetch.doubtful
  BY <1>1 DEF Adopt, FetchRecord
<1>3. IngestionInv'
  <2>1. pull' \in Revision /\ Agrees(fetch.files, fetch.commits, history[fetch.at])
    BY <1>1 DEF IngestionInv, IngestionType, ComparedAgrees
  <2> QED
    BY <1>1, <1>2, <2>1, KeepingStep
<1>4. SnapshotHolds
  BY <1>1, SnapshotIsWhole
<1>5. facts' \in Facts /\ facts'.limited = Limited /\ facts'.check = fetch.check
  BY <1>1 DEF Adopt, SnapshotFacts, Facts, IngestionState, Limited, FetchRecord
<1>6. SeenEnough'
  <2>1. history[fetch.at] \in Histories
    BY <1>1 DEF IngestionInv, IngestionType, FetchRecord
  <2>2. seen'.paths \subseteq Files
    BY <2>1, HistoriesAssumption DEF Adopt
  <2>3. ~Limited => seen'.whole
    BY <1>4 DEF Adopt, SnapshotHolds
  <2>4. fetch.check = "passing" => ~seen'.doubtful
    BY <1>1 DEF Adopt, IngestionInv, PassingIsSure
  <2> QED
    BY <1>5, <2>2, <2>3, <2>4 DEF SeenEnough
<1> QED
  BY <1>2, <1>3, <1>5, <1>6 DEF InputsInv, Decided, Criterions, Adopt

\* Findings and decisions are put beside it.
LEMMA DecideInv ==
    ASSUME InputsInv, NEW cs \in SUBSET Criteria, Decide(cs)
    PROVE  InputsInv'
<1>1. review' \in [confirmed: BOOLEAN, final: BOOLEAN, provenance: [criteria: SUBSET Criteria]]
      /\ review'.provenance.criteria = cs
  BY DEF Decide
<1>2. findings' \in [DOMAIN findings' -> [status: FindingStatus]] /\ DOMAIN findings' = cs
  BY DEF Decide
<1>3. IngestionInv'
  BY DEF Decide, InputsInv, IngestionInv, IngestionType, ComparedAgrees, Agrees, ingestion
<1> QED
  BY <1>1, <1>2, <1>3 DEF Decide, InputsInv, SeenEnough, Decided, Criterions, ingestion

\* A worse input never shows the gate more than the reviewer saw.
LEMMA WorsenInv ==
    ASSUME InputsInv, Worsen
    PROVE  InputsInv'
<1>1. IngestionInv' /\ UNCHANGED <<fetch, seen>>
  BY DEF Worsen, InputsInv, IngestionInv, IngestionType, ComparedAgrees, Agrees, ingestion
<1>2. review' \in [confirmed: BOOLEAN, final: BOOLEAN, provenance: [criteria: SUBSET Criteria]]
      /\ review'.provenance.criteria = review.provenance.criteria
  BY DEF Worsen, InputsInv, CheckWorsens, IngestionWorsens, ReviewWorsens, EvidenceWorsens,
     FindingLost
<1>3. /\ facts' \in Facts
      /\ ~facts'.limited => ~facts.limited
      /\ facts'.check = "passing" => facts.check = "passing"
  <2>1. CASE CheckWorsens
    BY <2>1 DEF InputsInv, CheckWorsens, Facts, CheckState
  <2>2. CASE IngestionWorsens
    BY <2>2 DEF InputsInv, IngestionWorsens, Facts, IngestionState
  <2> QED
    BY <2>1, <2>2 DEF Worsen, InputsInv, ReviewWorsens, EvidenceWorsens, FindingLost
<1>4. findings' \in [DOMAIN findings' -> [status: FindingStatus]]
      /\ DOMAIN findings' \subseteq DOMAIN findings
  <2>1. CASE EvidenceWorsens
    BY <2>1 DEF InputsInv, EvidenceWorsens
  <2>2. CASE FindingLost
    BY <2>2 DEF InputsInv, FindingLost
  <2> QED
    BY <2>1, <2>2 DEF Worsen, InputsInv, CheckWorsens, IngestionWorsens, ReviewWorsens
<1> QED
  BY <1>1, <1>2, <1>3, <1>4 DEF InputsInv, SeenEnough, Decided, Criterions

\* The invariant holds throughout.
LEMMA InputsInvariant == Spec => []InputsInv
<1>1. InputsInv /\ [Next]_vars => InputsInv'
  <2> SUFFICES ASSUME InputsInv, [Next]_vars PROVE InputsInv'
    OBVIOUS
  <2>1. CASE UNCHANGED vars
    BY <2>1 DEF vars, inputs, ingestion, InputsInv, IngestionInv, IngestionType,
       ComparedAgrees, Agrees, SeenEnough, Decided, Criterions
  <2> QED
    BY <2>1, FetchKeepsInputs, AdoptInv, DecideInv, WorsenInv DEF Next
<1> QED
  BY <1>1, InitInputsInv, PTL DEF Spec

-----------------------------------------------------------------------------
(* Theorems.                                                               *)

\* SnapshotOfOneRevision: whatever is pushed or moved while a pull request is
\* read, under any limits, the snapshot is of the one revision it names, is
\* whole unless it says otherwise, and lists what it leaves out.
THEOREM SnapshotOfOneRevision == Spec => []SnapshotIsOneRevision
<1>1. InputsInv => SnapshotIsOneRevision
  BY SnapshotIsWhole DEF InputsInv, SnapshotIsOneRevision, SnapshotHolds
<1> QED
  BY <1>1, InputsInvariant, PTL

\* ReadyWasSeen: a ready verdict was reached on the whole diff of the revision
\* reviewed, with every path cited and no check that is in doubt.
THEOREM ReadyWasSeen == Spec => []ReadyShowsEverything
<1>1. ASSUME InputsInv PROVE ReadyShowsEverything
  <2> SUFFICES ASSUME Decided, TheGate.verdict = "ready"
               PROVE  seen.whole /\ seen.paths \subseteq cited /\ ~seen.doubtful
    BY DEF ReadyShowsEverything
  <2>1. facts \in Facts
    BY <1>1 DEF InputsInv
  <2>2. EvaluateGate(review, facts, Criterions, findings, resolutions, cited, << >>).verdict
          = "ready"
    BY DEF TheGate
  <2>3. Files \subseteq cited /\ ~facts.limited /\ facts.check = "passing"
    BY <2>1, <2>2, ReadyInputs
  <2> QED
    BY <1>1, <2>3 DEF InputsInv, SeenEnough
<1> QED
  BY <1>1, InputsInvariant, PTL

\* VerdictIsExplained: the lists of every gate decision agree with its verdict
\* and with each other.
THEOREM VerdictIsExplained == Spec => []ListsExplainVerdict
<1>1. ListsExplainVerdict
  BY GateLists DEF ListsExplainVerdict, TheGate
<1> QED
  BY <1>1, PTL

\* How severe the verdict is.
LEMMA SeverityIs ==
    ASSUME NEW rev, NEW f, NEW cs, NEW fs, NEW rs, NEW ci, NEW sc
    PROVE  Severity(Verdict(rev, f, cs, fs, rs, ci, sc)) =
             IF Blocked(f, cs, fs, rs) THEN 3
             ELSE IF Incomplete(rev, f, cs, fs, rs, ci, sc) THEN 2
             ELSE IF Qualified(cs, fs, rs) THEN 1
             ELSE IF rev.final THEN 0 ELSE 2
BY DEF Severity, Verdict

\* Inputs that differ in nothing the lists are made of.
LEMMA SameLists ==
    ASSUME NEW rev, NEW f, NEW cs, NEW fs, NEW rs, NEW ci, NEW sc, NEW rev2, NEW f2, NEW ci2,
           f.check = "failing" => f2.check = "failing",
           Incomplete(rev, f, cs, fs, rs, ci, sc) =>
             Incomplete(rev2, f2, cs, fs, rs, ci2, sc) \/ f2.check = "failing",
           rev2.final => rev.final
    PROVE  Severity(Verdict(rev2, f2, cs, fs, rs, ci2, sc))
             >= Severity(Verdict(rev, f, cs, fs, rs, ci, sc))
<1>1. Blocked(f, cs, fs, rs) => Blocked(f2, cs, fs, rs)
  BY DEF Blocked
<1>2. f2.check = "failing" => Blocked(f2, cs, fs, rs)
  BY DEF Blocked
<1> QED
  BY <1>1, <1>2, SeverityIs

\* A criterion loses its evidence: it becomes a gap, or it stays open.
LEMMA EvidenceLost ==
    ASSUME NEW rev, rev.final \in BOOLEAN, NEW f, NEW cs, NEW fs, NEW rs, NEW ci, NEW sc, NEW fs2,
           NEW c, fs[c].status = "evidence_found",
           fs2[c].status \in FindingStatus,
           \A d \in cs \ {c} : fs2[d] = fs[d]
    PROVE  LET before == Verdict(rev, f, cs, fs, rs, ci, sc)
               after == Verdict(rev, f, cs, fs2, rs, ci, sc)
           IN  \/ Severity(after) >= Severity(before)
               \/ ~rev.final /\ Unresolved(cs, fs, rs) = {} /\ after = "conditional"
<1>1. Blocking(cs, fs, rs) \subseteq Blocking(cs, fs2, rs)
  BY DEF Blocking, Gap
<1>2. Conditional(cs, fs, rs) \subseteq Conditional(cs, fs2, rs)
  BY DEF Conditional, Gap
<1>3. Unresolved(cs, fs, rs) \subseteq Unresolved(cs, fs2, rs) \union Blocking(cs, fs2, rs)
  BY DEF Unresolved, Blocking, Gap, FindingStatus
<1>4. Blocked(f, cs, fs, rs) => Blocked(f, cs, fs2, rs)
  BY <1>1 DEF Blocked
<1>5. Qualified(cs, fs, rs) => Qualified(cs, fs2, rs)
  BY <1>2 DEF Qualified
<1>6. Unresolved(cs, fs, rs) # {} =>
        Blocked(f, cs, fs2, rs) \/ Incomplete(rev, f, cs, fs2, rs, ci, sc)
  BY <1>3 DEF Blocked, Incomplete
<1>7. Incomplete(rev, f, cs, fs, rs, ci, sc) =>
        Blocked(f, cs, fs2, rs) \/ Incomplete(rev, f, cs, fs2, rs, ci, sc)
  BY <1>6 DEF Incomplete
<1>8. CASE Blocked(f, cs, fs2, rs) \/ Incomplete(rev, f, cs, fs2, rs, ci, sc)
           \/ ~Qualified(cs, fs2, rs) \/ rev.final \/ Qualified(cs, fs, rs)
  BY <1>4, <1>5, <1>7, <1>8, SeverityIs
<1>9. CASE ~(Blocked(f, cs, fs2, rs) \/ Incomplete(rev, f, cs, fs2, rs, ci, sc)
             \/ ~Qualified(cs, fs2, rs) \/ rev.final \/ Qualified(cs, fs, rs))
  <2>1. Verdict(rev, f, cs, fs2, rs, ci, sc) = "conditional"
    BY <1>9 DEF Verdict
  <2> QED
    BY <1>6, <1>9, <2>1
<1> QED
  BY <1>8, <1>9

\* Fewer paths are accounted for.
LEMMA PathUncited ==
    ASSUME NEW f, NEW ci, NEW ci2, NEW sc, ci2 \subseteq ci, FilesResolved(f, ci2, sc)
    PROVE  FilesResolved(f, ci, sc)
BY DEF FilesResolved, UnresolvedChangedFilePaths

\* What FailsClosed says of a step.
NotMilder ==
    \/ Severity(TheGate'.verdict) >= Severity(TheGate.verdict)
    \/ TheGate'.verdict = "needs_review" /\ DOMAIN findings' # Criterions'
    \/ /\ ~review.final
       /\ findings' # findings
       /\ TheGate.unresolved = {} /\ TheGate'.verdict = "conditional"

\* A worse input gets no milder answer.
LEMMA WorsenNotMilder ==
    ASSUME InputsInv, Worsen, Decided
    PROVE  NotMilder
<1> DEFINE invalid == InvalidGateInput(review, Criterions, findings, resolutions)
<1>1. Criterions' = Criterions /\ UNCHANGED resolutions
      /\ review'.provenance = review.provenance
  BY DEF Worsen, InputsInv, Criterions, CheckWorsens, IngestionWorsens, ReviewWorsens,
     EvidenceWorsens, FindingLost
<1>2. CASE invalid /\ DOMAIN findings' = DOMAIN findings
  <2>1. invalid'
    BY <1>1, <1>2 DEF InvalidGateInput
  <2>2. TheGate.verdict = "needs_review" /\ TheGate'.verdict = "needs_review"
    BY <1>2, <2>1 DEF TheGate, EvaluateGate
  <2> QED
    BY <2>2 DEF NotMilder, Severity
<1>3. CASE FindingLost
  <2>1. DOMAIN findings' # Criterions'
    BY <1>1, <1>3 DEF FindingLost, InputsInv
  <2>2. invalid'
    BY <2>1 DEF InvalidGateInput
  <2>3. TheGate'.verdict = "needs_review"
    BY <2>2 DEF TheGate, EvaluateGate
  <2> QED
    BY <2>1, <2>3 DEF NotMilder
<1>4. CASE ~invalid /\ DOMAIN findings' = DOMAIN findings
  <2>1. ~invalid'
    BY <1>1, <1>4 DEF InvalidGateInput
  <2> HIDE DEF invalid
  <2>2. /\ TheGate.verdict = Verdict(review, facts, Criterions, findings, resolutions, cited, << >>)
        /\ TheGate.unresolved = Unresolved(Criterions, findings, resolutions)
        /\ TheGate'.verdict =
             Verdict(review', facts', Criterions, findings', resolutions, cited', << >>)
    BY <1>1, <1>4, <2>1 DEF TheGate, EvaluateGate, invalid
  <2>3. ASSUME UNCHANGED findings,
               facts.check = "failing" => facts'.check = "failing",
               Incomplete(review, facts, Criterions, findings, resolutions, cited, << >>) =>
                 \/ Incomplete(review', facts', Criterions, findings, resolutions, cited', << >>)
                 \/ facts'.check = "failing",
               review'.final => review.final
        PROVE  NotMilder
    BY <2>2, <2>3, SameLists DEF NotMilder
  <2>4. CASE CheckWorsens
    <3>1. /\ facts'.check \notin {"passing"}
          /\ facts'.check \notin {"pending", "unavailable"} => facts'.check = "failing"
          /\ facts.check # "failing"
          /\ UNCHANGED <<review, findings, resolutions, cited>>
      BY <2>4 DEF CheckWorsens, InputsInv, Facts, CheckState
    <3> QED
      BY <2>3, <3>1 DEF Incomplete
  <2>5. CASE IngestionWorsens
    <3>1. /\ facts'.check = facts.check
          /\ facts'.ingestion = "complete" => facts.ingestion = "complete"
          /\ facts.limited => facts'.limited
          /\ facts'.inventoried => facts.inventoried
          /\ UNCHANGED <<review, findings, resolutions, cited>>
      BY <2>5 DEF IngestionWorsens, InputsInv, Facts
    <3> QED
      BY <2>3, <3>1 DEF Incomplete, FilesResolved
  <2>6. CASE ReviewWorsens
    <3>1. /\ review'.confirmed => review.confirmed
          /\ review'.final => review.final
          /\ UNCHANGED <<facts, findings, resolutions, cited>>
      BY <2>6 DEF ReviewWorsens, InputsInv
    <3> QED
      BY <1>1, <2>3, <3>1 DEF Incomplete
  <2>7. CASE EvidenceWorsens
    <3>1. CASE /\ UNCHANGED <<review, facts, resolutions, findings>>
               /\ \E p \in cited : cited' = cited \ {p}
      <4>1. FilesResolved(facts, cited', << >>) => FilesResolved(facts, cited, << >>)
        BY <3>1, PathUncited
      <4> QED
        BY <2>3, <3>1, <4>1 DEF Incomplete
    <3>2. CASE /\ UNCHANGED <<review, facts, resolutions, cited>>
               /\ \E c \in DOMAIN findings :
                    /\ findings[c].status = "evidence_found"
                    /\ \E s \in FindingStatus \ {"evidence_found"} :
                         findings' = [findings EXCEPT ![c].status = s]
      <4>1. PICK c \in DOMAIN findings, s \in FindingStatus \ {"evidence_found"} :
               /\ findings[c].status = "evidence_found"
               /\ findings' = [findings EXCEPT ![c].status = s]
        BY <3>2
      <4>2. /\ findings'[c].status = s
            /\ \A d \in Criterions \ {c} : findings'[d] = findings[d]
            /\ findings' # findings
        BY <1>4, <4>1 DEF InputsInv
      <4>3. /\ review.final \in BOOLEAN
            /\ findings[c].status = "evidence_found" /\ findings'[c].status \in FindingStatus
        BY <4>1, <4>2 DEF InputsInv
      <4> DEFINE after == Verdict(review, facts, Criterions, findings', resolutions, cited,
                                    << >>)
                  before == Verdict(review, facts, Criterions, findings, resolutions, cited,
                                    << >>)
      <4>4. \/ Severity(after) >= Severity(before)
            \/ /\ ~review.final /\ Unresolved(Criterions, findings, resolutions) = {}
               /\ after = "conditional"
        BY <4>2, <4>3, EvidenceLost
      <4> QED
        BY <2>2, <3>2, <4>2, <4>4 DEF NotMilder
    <3> QED
      BY <2>7, <3>1, <3>2 DEF EvidenceWorsens
  <2> QED
    BY <1>3, <2>4, <2>5, <2>6, <2>7 DEF Worsen
<1>5. DOMAIN findings' = DOMAIN findings \/ FindingLost
  BY DEF Worsen, InputsInv, CheckWorsens, IngestionWorsens, ReviewWorsens, EvidenceWorsens
<1> QED
  BY <1>2, <1>3, <1>4, <1>5

\* WorseInputsNeverMilder: however the inputs of a decided review get worse,
\* the gate does not answer more mildly, but for the one exception its truth
\* table makes.
THEOREM WorseInputsNeverMilder == Spec => FailsClosed
<1>1. ASSUME InputsInv, [Next]_vars
      PROVE  \/ ~Decided
             \/ NotMilder
             \/ UNCHANGED vars
  <2>1. ASSUME Decided, Fetch \/ Adopt PROVE FALSE
    <3>1. fetch.pc = "adopted" /\ fetch \in FetchRecord
      BY <1>1, <2>1 DEF InputsInv, IngestionInv, IngestionType
    <3> QED
      BY <2>1, <3>1 DEF Fetch, NextIngestion, Move, ReadPull, ReadFiles, ReadCommits, ReadPage,
         ReadChecks, Compare, ReadFinal, Adopt
  <2>2. ASSUME Decided, NEW cs, Decide(cs) PROVE FALSE
    BY <2>2 DEF Decided, Decide
  <2> QED
    BY <1>1, <2>1, <2>2, WorsenNotMilder DEF Next
<1>2. InputsInv /\ [Next]_vars =>
        [\/ ~Decided
         \/ Severity(TheGate'.verdict) >= Severity(TheGate.verdict)
         \/ TheGate'.verdict = "needs_review" /\ DOMAIN findings' # Criterions'
         \/ /\ ~review.final
            /\ findings' # findings
            /\ TheGate.unresolved = {} /\ TheGate'.verdict = "conditional"]_vars
  BY <1>1 DEF NotMilder
<1> QED
  BY <1>2, InputsInvariant, PTL DEF Spec, FailsClosed

=============================================================================
