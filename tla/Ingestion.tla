------------------------------ MODULE Ingestion ------------------------------
(***************************************************************************)
(* GitHubClient.fetch_pull_request of scopeproof_core/github/client.py:    *)
(* one pull request is read page by page, under limits and a budget, while *)
(* its head can be pushed, forced back and its base moved between any two  *)
(* requests.                                                               *)
(*                                                                         *)
(* A revision is a pair of base and head.  What GitHub shows of a revision *)
(* never changes: its diff, a sequence of files with a path, the text of   *)
(* the patch and its size, and its commits.  The mutable lists show the    *)
(* revision of the moment, the comparison base...head that of its name.    *)
(* Any request can fail, and any answer can be malformed, too long or      *)
(* about a repository that is not public: all that ends the fetch alike.   *)
(***************************************************************************)
EXTENDS Gate

CONSTANTS
    Revision,      \* base and head of the pull request
    Histories,     \* what a revision can hold: a diff and commits
    PageSize,      \* most items per page GitHub serves (100)
    MaxFiles, MaxCommits,                \* items retained
    MaxPatchBytes, MaxTotalDiffBytes,    \* patch text retained
    MaxRequests, MaxPages, MaxItems,     \* the budget of one fetch
    ChecksShown,   \* checks and statuses on the one page requested (100)
    MaxMoves       \* bound: pushes and base moves during the fetch

ASSUME IngestionAssumption ==
    /\ {PageSize, MaxFiles, MaxCommits, MaxPatchBytes} \subseteq Nat \ {0}
    /\ {MaxTotalDiffBytes, MaxRequests, MaxPages, MaxItems, ChecksShown, MaxMoves} \subseteq Nat

Paths(list) == {list[i].path : i \in DOMAIN list}

Contents(list) == {list[i] : i \in DOMAIN list}

\* A diff is a list of files of the inventory, and commits are a list.
ASSUME HistoriesAssumption ==
    \A h \in Histories :
      /\ h.diff \in Seq(Contents(h.diff)) /\ h.commits \in Seq(Contents(h.commits))
      /\ Paths(h.diff) \subseteq Files

VARIABLES
    history,   \* what GitHub holds for each revision
    pull,      \* the revision the pull request is at
    fetch,     \* the fetch: the request it makes next and what it collected
    moves      \* how much of the bound is used

ingestion == <<history, pull, fetch, moves>>

Smaller(a, b) == IF a < b THEN a ELSE b

Prefix(list, n) == SubSeq(list, 1, Smaller(n, Len(list)))

InitIngestion ==
    /\ history \in [Revision -> Histories]
    /\ pull \in Revision
    /\ fetch = [pc |-> "pull", at |-> pull, files |-> <<>>, commits |-> <<>>, page |-> 1,
                filesCut |-> FALSE, commitsCut |-> FALSE, check |-> "unavailable",
                doubtful |-> FALSE, requests |-> 0, pages |-> 0, items |-> 0]
    /\ moves = 0

-----------------------------------------------------------------------------
(* The pull request.                                                       *)

Move(revision) ==
    /\ fetch.pc \notin {"pull", "failed", "done", "adopted"}
    /\ moves < MaxMoves /\ revision # pull
    /\ pull' = revision
    /\ moves' = moves + 1
    /\ UNCHANGED <<history, fetch>>

-----------------------------------------------------------------------------
(* The fetch.  It keeps nothing when it fails.                             *)

Failed == [fetch EXCEPT !.pc = "failed", !.files = <<>>, !.commits = <<>>, !.page = 1]

\* One more request, when the budget and the network allow it.
Request(next) ==
    /\ fetch' \in {Failed, IF fetch.requests >= MaxRequests THEN Failed
                           ELSE [next EXCEPT !.requests = @ + 1]}
    /\ UNCHANGED <<history, pull, moves>>

ReadPull ==
    /\ fetch.pc = "pull"
    /\ Request([fetch EXCEPT !.at = pull, !.pc = "files"])

\* A page links to the next one; a link that leads elsewhere fails the fetch.
HasNext(list, size) == fetch.page * size < Len(list)

\* _get_paginated: one page of a list is charged and retained, up to one item
\* more than the limit; then the list is cut off, read on or complete.
ReadPage(name, list, limit, cut, next) ==
    LET size == Smaller(PageSize, limit + 1)
        served == SubSeq(list, (fetch.page - 1) * size + 1,
                         Smaller(fetch.page * size, Len(list)))
        items == Prefix(fetch[name] \o served, limit + 1)
        more == HasNext(list, size)
        over == Len(items) > limit \/ (more /\ Len(items) = limit)
        read == [fetch EXCEPT ![name] = items, !.pages = @ + 1, !.items = @ + Len(served)]
    IN /\ fetch.pc = name
       /\ Request(IF read.pages > MaxPages \/ read.items > MaxItems THEN Failed
                  ELSE IF more /\ ~over THEN [read EXCEPT !.page = @ + 1]
                       ELSE [read EXCEPT !.page = 1, !.pc = next, ![cut] = over])

ReadFiles == ReadPage("files", history[pull].diff, MaxFiles, "filesCut", "commits")

ReadCommits ==
    ReadPage("commits", history[pull].commits, MaxCommits, "commitsCut", "checks")

\* Answers of the check-runs and of the status endpoint: unavailable, or what
\* exists for the head, of which one page is shown under the number of all.
Kind == {"success", "pending", "failure", "neutral", "malformed"}
Answer == [ok : {FALSE}, entries : {<<>>}] \union
          [ok : {TRUE}, entries : UNION {[1..n -> Kind] : n \in 0..(ChecksShown + 1)}]

Shown(answer) ==
    IF answer.ok THEN {answer.entries[i] : i \in 1..Smaller(ChecksShown, Len(answer.entries))}
    ELSE {}

\* Nothing is malformed, and as many valid entries were read as there are.
CollectionComplete(answer) ==
    /\ answer.ok /\ "malformed" \notin Shown(answer)
    /\ Len(answer.entries) <= ChecksShown

\* Mutant: what was read is taken for all there is.
ObserveShown(runs, statuses) ==
    LET seen == Shown(runs) \union Shown(statuses)
    IN IF "failure" \in seen THEN "failing"
       ELSE IF "pending" \in seen THEN "pending"
            ELSE IF "success" \in seen THEN "passing" ELSE "unavailable"

\* _check_observation: passing only when both collections are complete.
CheckObservation(runs, statuses) ==
    LET seen == Shown(runs) \union Shown(statuses)
    IN IF "failure" \in seen THEN "failing"
       ELSE IF "pending" \in seen THEN "pending"
            ELSE IF /\ "success" \in seen
                    /\ CollectionComplete(runs) /\ CollectionComplete(statuses)
                 THEN "passing" ELSE "unavailable"

\* History: something fails or is pending, whether it was shown or not, or
\* nobody can say.
Doubtful(answer) ==
    \/ ~answer.ok
    \/ \E i \in DOMAIN answer.entries : answer.entries[i] \in {"failure", "pending", "malformed"}

\* Two requests about the head first seen.  No push changes what they return,
\* so they are one step.
ReadChecks ==
    /\ fetch.pc = "checks"
    /\ \/ fetch' = Failed
       \/ /\ fetch.requests + 2 <= MaxRequests
          /\ \E runs, statuses \in Answer :
               fetch' = [fetch EXCEPT !.pc = "compare", !.requests = @ + 2,
                                      !.check = CheckObservation(runs, statuses),
                                      !.doubtful = Doubtful(runs) \/ Doubtful(statuses)]
    /\ UNCHANGED <<history, pull, moves>>

\* Mutant: the comparison looks at the paths, not at what was changed in them.
ComparePaths(files, commits, compared) ==
    /\ Cardinality(Paths(files)) = Len(files)
    /\ Paths(files) \subseteq Paths(compared.diff)
    /\ fetch.filesCut \/ Paths(files) = Paths(compared.diff)
    /\ Prefix(compared.commits, Len(commits)) = commits
    /\ fetch.commitsCut \/ compared.commits = commits

\* _verify_immutable_comparison: what the mutable lists showed, from one page to
\* the next, is the diff and the commits of base...head, or their beginning.
Agrees(files, commits, compared) ==
    /\ Cardinality(Paths(files)) = Len(files)
    /\ Contents(files) \subseteq Contents(compared.diff)
    /\ fetch.filesCut \/ Contents(files) = Contents(compared.diff)
    /\ Prefix(compared.commits, Len(commits)) = commits
    /\ fetch.commitsCut \/ compared.commits = commits

Compare ==
    /\ fetch.pc = "compare"
    /\ Request(IF Agrees(fetch.files, fetch.commits, history[fetch.at])
               THEN [fetch EXCEPT !.pc = "final"] ELSE Failed)

\* The pull request is read again: it must be where it was at the start.
ReadFinal ==
    /\ fetch.pc = "final"
    /\ Request(IF pull = fetch.at THEN [fetch EXCEPT !.pc = "done"] ELSE Failed)

NextIngestion ==
    \/ \E revision \in Revision : Move(revision)
    \/ ReadPull \/ ReadFiles \/ ReadCommits \/ ReadChecks \/ Compare \/ ReadFinal

-----------------------------------------------------------------------------
(* What the fetch returns.                                                 *)

Retained == Prefix(fetch.files, MaxFiles)

\* Patch bytes kept of the first n files.  A file without a patch, or whose
\* whole patch would exceed the total, is skipped; a long patch is cut.
Fits(size, used) == size > 0 /\ used + size <= MaxTotalDiffBytes

Used[n \in 0..MaxFiles] ==
    IF n = 0 THEN 0
    ELSE IF n <= Len(Retained) /\ Fits(Retained[n].size, Used[n - 1])
         THEN Used[n - 1] + Smaller(Retained[n].size, MaxPatchBytes)
         ELSE Used[n - 1]

Inspected == {Retained[n] : n \in {m \in DOMAIN Retained : Fits(Retained[m].size, Used[m - 1])}}

Truncated == {file \in Inspected : file.size > MaxPatchBytes}

Skipped == Paths(fetch.files) \ {file.path : file \in Inspected}

Limited == fetch.filesCut \/ fetch.commitsCut \/ Skipped # {} \/ Truncated # {}

SnapshotFacts ==
    [check |-> fetch.check, ingestion |-> IF Limited THEN "partial" ELSE "complete",
     limited |-> Limited, inventoried |-> TRUE]

\* A snapshot is one revision, whatever moved while it was read: every file and
\* commit in it is of the revision it names, a snapshot that is not partial has
\* the whole diff and all commits, and what is missing from a partial one is
\* listed as skipped or lies behind a limit that was reached.
SnapshotIsOneRevision ==
    fetch.pc = "done" =>
      LET whole == history[fetch.at] IN
        /\ Inspected \subseteq Contents(whole.diff)
        /\ Prefix(whole.commits, Len(fetch.commits)) = fetch.commits
        /\ ~Limited => Inspected = Contents(whole.diff) /\ fetch.commits = whole.commits
        /\ \A path \in Paths(whole.diff) \ {file.path : file \in Inspected} :
              path \in Skipped \/ (fetch.filesCut /\ Len(Retained) = MaxFiles)

=============================================================================
