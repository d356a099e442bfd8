# ScopeProof in TLA+

ScopeProof reviews a pull request against acceptance criteria: it ingests the
request from GitHub, retrieves candidate evidence, derives findings, records
what human reviewers decide about them, and computes a deterministic gate
verdict. It never decides on behalf of a reviewer. The program is a Python
package (`scopeproof_core`), a command line, a Streamlit workbench
(`apps/web`) and a GitHub Action that publishes an informational Check.

This directory holds TLA+ modules that model the parts of the program whose
correctness rests on state, order and concurrency, TLC configurations that
model-check them on small instances, and proofs, checked by TLAPS, that some of
the results hold for every instance. `PROJECT.json` relates definitions to source
lines and lists runs, mutants, hazards, findings and theorems.

    tlc -workers 2 -config ReviewStore.cfg ReviewStore      # a run
    tlapm ReviewStoreProofs.tla                             # a proof

Contents: [1 Inventory](#1-inventory), [2 Modules](#2-modules),
[3 Runs](#3-runs), [4 Fairness](#4-fairness), [5 Proofs](#5-proofs),
[6 Findings](#6-findings), [7 Not modelled](#7-what-is-not-modelled),
[8 Plan](#8-plan).

## 1 Inventory

Paths are relative to `scopeproof_core/` unless they start with `apps/` or `.github/`.

| component | state | operations | talks to |
|---|---|---|---|
| Gate (`gates/evaluator.py`, `review_policy.py`) | none | `evaluate_gate`, `unresolved_changed_file_paths`, `acceptance_requires_comment` | called by every operation of the lifecycle and by validation |
| Findings (`verification/service.py`) | none | `build_findings` | feeds an analysis into the lifecycle |
| State validation (`gates/validation.py`, `schemas/models.py`, `resolution_events.py`) | none | `validated_review_state`, the model validators, `current_resolutions`, `final_acceptance` | before and after every operation, on every load and save |
| Review lifecycle (`reviews/lifecycle.py`) | a `ReviewState`: review, revision, active bundle, archived bundles, event list | new, revise, confirm, attach analysis, file scope decision, decision, final acceptance, runtime evidence, external verification, JUnit import | workbench and command line, which load, transform and save |
| Review store (`storage/json_store.py`) | `<id>.json` and a lock file per review | load, locked load of one or several records, save with expected fingerprint, mutate, delete | workbench sessions and command-line processes, all on one directory |
| Transfer, discovery (`storage/transfer.py`, `discovery.py`) | none | import, export, unlocked previews | store |
| Web workbench (`apps/web/app.py`) | the session state of each browser session | one pass of the page script per interaction: refresh, autosave, handler, status, storage controls | store |
| Command line (`cli*.py`) | none | one store call per command; `analyze` also writes a report | store, atomic files, ingestion |
| Check planner, publisher, runner (`github_action*.py`, `.github/workflows/scopeproof*.yml`) | the check runs on GitHub | publish, compensate, withdraw, revoke on unavailable requirements, revoke on base advance | GitHub, concurrently with everyone who changes the pull request |
| GitHub ingestion (`github/client.py`) | a request budget | paged fetches of files, checks, candidate contents, with re-reads of the head | GitHub |
| Atomic files (`storage/atomic_files.py`) | files, backups, claim files | create, replace, roll back, delete | exports, backups, alpha cases |
| Alpha cases, rehearsals (`alpha/`) | files of a case directory | create, update, finish | atomic files |
| JUnit import and audit (`importers/junit*.py`, `reviews/junit_*.py`, `apps/web/junit_*.py`, `cli_junit_audit.py`) | imports and audit events inside an analysis; a staged draft per session | stage, import, correct mappings, withdraw; replay | lifecycle validation, store, workbench, command line |
| Selected references (`reviews/selected_references.py`, `reference_audit.py`) | references and their events inside an analysis | select, correct, withdraw; replay | source held by a session, store |
| Source attachment (`reviews/source_attachment.py`, `apps/web/source_attachment.py`) | per session: the source it holds, a receipt, the contexts found contradicted | load matching source, check the head, attach a pending analysis | GitHub ingestion, store, every handler that builds on source |
| Comparisons, history (`reviews/*comparison*.py`, `history_catalog.py`, ...) | none | pure projections of one or two loaded states | store (locked load of two records) |
| Criteria, retrieval, rule packs | none | text in, values out | analysis |
| Reporting, presentation (`reporting/`, `presentation.py`, `gates/guidance.py`) | none | Markdown, JSON, tables | workbench, command line |
| Benchmark cache (`evals/r002_cache.py`) | objects, markers, the annotation pair, a lock file | publish, replace, write the pair, put it back | benchmark commands |
| Evaluation harness (`evals/`) | criteria, labels and results, edited by the owner in between | prepare, annotate, run, score | the cache; the gate as a library |

### What is hard, and what makes each part correct

* **Gate and lifecycle.** The state is a log of human events beside values derived
  from it (current resolutions, final acceptance, gate), which must never disagree.
  A long sequence of legal calls must not reach a ready verdict its own record does
  not support; a new revision must start undecided; nothing decided may be lost or
  rewritten; and what `revise_criteria`, the one operation that does not revalidate
  its result, returns must still be loadable.
* **Store.** Processes interleave, fail and die between lock, load and replacement.
  No saved event may be lost, a deletion removes what was previewed, comparisons lock
  two records and must not wait for each other.
* **Workbench.** Session state is stale as soon as it exists; autosave runs on every
  rerun. It must neither overwrite others nor resurrect what was deleted, must not
  discard unsaved work, and its two refreshes must agree or the page reruns forever.
* **Publisher.** Runs are delayed, reordered and cut short while head, base and label
  of the pull request move. Stale verdicts must disappear, withdrawn ones must not
  come back, and there must never be two Checks among which every later run refuses
  to choose.
* **Atomic files.** A call is a chain of system calls on one directory, any of which may
  fail, be interrupted or be the last one of its process, with other calls and other
  programs in between. Readers must see complete texts, failures must be undone or leave a
  backup, a rollback must remove all of its file and nothing else, two updates must not both
  succeed, and the claim of a dead process must refuse others, not block them.
* **Ingestion.** Files, commits and checks come in pages, within a budget, from a pull
  request that is pushed to and forced back meanwhile. A complete snapshot must be one
  revision, and whatever was cut off must keep a review from becoming ready.
* **Evidence.** Imports, references and their audit events accumulate in one analysis, from
  browsers and shells that opened it at different times. An event must land on the ledger its
  author saw, nothing may be lost, and a comparison with an earlier analysis must list every
  decision whose grounds changed, also when the change was undone again. Source that was
  found to contradict a review must not be built on, however the review is reopened.
* **Benchmark.** Several commands share a cache whose system calls may fail after they took
  effect, and files the owner edits. What was reported as written must be on disk, a pair is
  whole or as before, and a result must name inputs that belong together.

## 2 Modules

```
MCGateInputs, GateInputsProofs ──▶ GateInputs ──▶ Ingestion ──▶ Gate
MCReviewLifecycle, ReviewLifecycleProofs ──▶ ReviewLifecycle ──▶ Gate
ReviewStoreProofs ──▶ ReviewStore ──▶ ReviewRecords
MCWorkbench, WorkbenchProofs ──▶ Workbench ──▶ ReviewRecords
MCEvidence, EvidenceProofs ──▶ Evidence ──▶ Comparison ──▶ Ledger
CheckPublisherProofs ──▶ CheckPublisher
AtomicFilesProofs ──▶ AtomicFiles
BenchmarkProofs ──▶ BenchmarkCache
                ──▶ MCBenchmark ──▶ Benchmark ──▶ Gate
```

**Gate** is the truth table as pure operators: which criteria are blocking,
conditional, unresolved or exceptions, the precedence of the four verdicts, the
inputs the gate refuses to interpret, and the accounting for changed files. A
criterion's evidence is reduced to what the gate tells apart, the status of its
finding and whether its evidence is below the required level. `DerivableFindings`
is what `build_findings` can return. Reason codes are wording.

**Ingestion** is `fetch_pull_request`, one step per request: the pull request, pages of
files and of commits, the checks, the comparison of the two commits, a last look. What GitHub
shows of a revision never changes, but which revision the lists show does, between any two
requests. Any request may fail or be malformed, which ends the fetch; the two check requests
are one step. **GateInputs** composes it with the gate: a snapshot is adopted as
`_build_bundle` does, any findings and decisions are put beside it, and the gate is asked.
Further steps make one input worse, since the gate is also applied to decoded and
migrated records.

**ReviewLifecycle** has one action per operation of `lifecycle.py`. An operation that
raises leaves the state alone, so it is an action that is not enabled. `ValidState` is
`validated_review_state`, with its parts named after the functions it calls; it guards
`Next`, because every operation revalidates what it is given, and `ValidState'` ends
every action but `ReviseCriteria`, as in the code. Resolutions, final acceptance and gate
are stored beside the events, so that they could disagree. Identifiers are made up by
callers and numbered by first use; a caller may submit one again.

**ReviewRecords** is the abstract specification of the store: a record is created whole,
grows by events, and is deleted. **ReviewStore** is the protocol of `json_store.py`: take
the locks, load, decide, replace or unlink at most one file, release. The content of a
record is the set of events recorded in it, so equal content means equal fingerprint and
only extending what others saved keeps their events. The identity a deletion is bound to
(inode, times) is reduced to the content. A process can die at any step; the kernel then
drops its locks. `NoEventLost` states that it implements ReviewRecords.

**Workbench** is the page script of `app.py` as the steps of one pass: the refresh of a
clean review, autosave, the handler of the widget that was used, the status snapshot, the
storage controls. Sessions and command-line calls act on the saved record between any two
steps. Its store calls are atomic, which is what ReviewStore shows of them, and the record
again implements ReviewRecords (`RecordsKept`). Names follow the code: `saved`, `failed`,
`deleted` are the fingerprints of the last save, the last failed save and the deletion
the session learned of. What a click does is modelled if the page as last drawn offered
it. That a deletion is bound to the confirmed preview is shown in ReviewStore and not
repeated.

**CheckPublisher** models one pull request, its check runs, and workflow runs of four
kinds. Every change of the pull request starts a run that carries the commits of its event
and waits as long as it likes; a run then reads and writes GitHub in separate requests:
look at the pull request, list the check runs, look again, write, look a third time,
compensate. Review runs are subject to the concurrency group of their workflow, which runs
the first of a group and keeps one waiting; the others are not. A run may be cut short
anywhere. A verdict is represented by the commits that were analysed. Forks and runs
without a token write nothing and are left out; so are the texts of a Check and the
comments, which no workflow publishes. The base of the pull request is the default branch,
and its head may be pushed back to an earlier commit.

**AtomicFiles** is `atomic_files.py` on one name, as its users call it: a `report` is created
and, if `analyze` cannot save its record, rolled back (`cli.py`); a `case` is created and
updated under a claim (`alpha/storage.py`). The directory is a function from names to files,
so that linking, renaming and unlinking are what they are on disk: several names may lead to
one file, and a file whose last name goes is lost. A call writes one file, which is named
after its process. `BeginCreate` to `Release` are creation, `BeginUpdate` to `Restore`
replacement, `Check` starts a rollback, and `Move`, `Judge`, `Relink`, `Drop` are
`_quarantine_and_remove_at`, which all of them use; `After` says where each goes on. A step may
fail where the code handles it, a process may die between any two, and others may edit, delete
or replace the target without regard to claims. What they delete, or replace while an update of
it is under way, is not held against the program (`taken`); the design excludes such programs
altogether. The steps are those of the backend with directory descriptors; the other one takes
the same steps on paths. Looking at a file and hashing it is one step, as is the listing a
rollback starts with, and the parent directory stays the same.

**Ledger**, **Comparison** and **Evidence** model what an analysis records besides decisions.
Ledger holds the data and the pure operations: JUnit imports with corrections and withdrawals
(`junit_audit.py`, `junit_correction.py`, the staging drafts), selected references with theirs
(`selected_references.py`, `reference_audit.py`), candidate evidence and findings, and the part
of `validate_cross_references` about them. What is in force is replayed from the events, as in
the code. Comparison is `comparison.py`: the pairing of candidates by three signatures, changed
imports, findings and decisions, the decisions listed for another look, and the validators of the
result. Evidence puts browsers and shells around one saved review: loading source that matches
it, the head check and the guard against contradicted source (`apps/web/source_attachment.py`),
staging and saving of imports, corrections, references, decisions and acceptance, the revision of
criteria, and the analysis of a revision with attached source. A handler and the autosave that
follows it are one step here; what can happen between them is the subject of Workbench. The
fingerprint of a state is the state.

**BenchmarkCache** is `r002_cache.py`, one step per system call. Next to the directory that
processes see stands the one a power loss would leave; a system call may fail before or after it
took effect. Objects and review bundles lie in namespace directories, which the first call that
needs one makes (`MakeSpace`) and whose entries only a flush of the root puts on disk (`rooted`): a
power loss may take any other directory with all its files. **Benchmark** is
the chain of commands above it, with publication as one step: prepare, annotate, run, the
scoring with its explanations of misses, and the validators of the result, while the owner edits
criteria and labels between any two reads. The manifest is pinned by a digest in the code, so there
is one; cases are alike, so there is one. Retrieval is any that the engine can return, chosen when a
pass needs it. **MCBenchmark** gives it names of its own, so that what TLC checks can be proved beside
the cache.

In every module, definitions whose comment starts with "Mutant" are slips a plausible edit
of the code could introduce. Each is paired in `PROJECT.json` with a property it breaks, which
shows that the property depends on that line of the code; no specification uses them.

## 3 Runs

| run | module, configuration | states | shows |
|---|---|---|---|
| gate_inputs | `MCGateInputs` | 823 k | a fetch under pushes and base moves, adopted, any findings and decisions, one input made worse: a snapshot is one revision, a ready review showed all of it, the lists of a decision explain its verdict, no worse input gets a milder one |
| lifecycle | `MCReviewLifecycle` | 274 k | decisions, external verifications, repeated scope decisions, acceptance and revisions in every order: what a ready verdict stands for, undecided start of a revision, append-only history, loadable states |
| store | `ReviewStore` | 240 k | two processes, two records, every call: refinement of ReviewRecords, loads that stay current, bound deletions, every call ends |
| workbench | `MCWorkbench` | 444 k | two sessions and the command line: nobody's events are overwritten, deleted reviews stay deleted |
| workbench_failures | `MCWorkbench_failures` | 716 k | one session, every kind of draft, failing storage: unsaved work is kept and every pass ends |
| workbench_deleted | `MCWorkbench_deleted` | violation | finding 1 |
| publisher | `CheckPublisher` | 2.3 M | four delayed runs, two heads, two bases: one Check per head, no verdict at another head, stale verdicts revoked, withdrawn ones not restored |
| publisher_withdrawal | `CheckPublisher_withdrawal` | violation | finding 2 |
| evidence | `MCEvidence` | 155 k | a browser and a shell on one saved review, its pull request moving away and back, baselines to compare with: audit events land on the ledger their author saw, ledgers only grow, unlisted decisions stand on the same grounds, nothing is built on contradicted source |
| benchmark_cache | `BenchmarkCache` | 2.1 M | two commands under failing calls, kills and power losses, with namespace directories made on the way: what was reported as written survives once its directory is on disk, a marker with everything it lists at once, a definite failure changed nothing, the annotation pair is whole or as before |
| benchmark | `MCBenchmark` | 441 k | two commands while the owner edits: a result binds one chain of inputs, accepted inputs are scored |
| files | `AtomicFiles` | 124 k | creations, updates and rollbacks of one file under failures, death and edits: complete texts, nothing lost, one outcome, reversible failures, exact rollbacks, every call ends |

**Bounds, and why they suffice.**

* `gate_inputs`: two criteria, one must-have and one should-have. The gate treats
  criteria independently and then asks whether each of four sets is empty; two criteria give
  every combination that interacts. Four paths with limits of three files, one commit and three
  bytes let every limit bite on its own and together; the budget is that of a fetch with two
  pages of each list. Two revisions and two moves allow a push and its reversal. `GateView`
  forgets the fetch once it was adopted, since only the gate's inputs are read from then on.
* `lifecycle`: one criterion and one file, three events, two scope decisions, two revisions, one
  runtime record, and at most four records altogether (`MaxRecords`). Acceptance, its revocation,
  a manual verification under either, a path declared outside and taken back, and each of them
  before and after a revision fit. Two criteria exceed five minutes; every
  property of the run is proved for any number.
* `evidence`: one browser and one shell, two criteria, one artifact with one case and an empty
  suite, two lines at each of two heads, and four baselines: at the same head, at another head,
  under older rules, of other criteria. Three records allow an import with two corrections (there
  and back), a reference corrected and withdrawn, or two decisions and an acceptance; two revisions
  and two confirmations allow an analysis to be archived and a revision to be attached. `EvidenceView`
  leaves out what cannot matter: a replaced record never returns, so a stale request of a
  shell can only be refused, a browser in conflict is only asked for its source context, and what
  is known against a context only counts while it is the saved one or the one shown.
  Two browsers, which affect one another as the shell and `import-junit` do here, were checked once
  with one record between them (436,128 states) without error, and so was this instance under a view
  that kept every contradicted context (474,024 states).
* `benchmark_cache`: two processes, one object of each of the three namespaces, two calls and
  three mishaps: every pair of commands with a failure, another one during the undo, and a power
  loss after both. Twelve files are all that two calls can write beside those of an earlier
  preparation.
* `benchmark`: two versions of the criteria, a must-have and another criterion of which one needs a
  test, two lines of different evidence type; six commands and three edits allow a whole chain,
  an edit at each of its joints and a second chain beside it.
* `store`: two processes are what a lock, a fingerprint and two records locked in two orders
  need; two events allow a lost update. Events and record IDs are used up, so processes may stop:
  the configuration does not look for deadlock, and `CallsReturn` shows instead that no
  call waits forever.
* `workbench`: two sessions with two events each way. Drafts are reduced to one kind, which
  blocks saving; storage does not fail. Sessions and events are symmetric; the properties of
  this run are safety properties, for which that is sound. `workbench_failures` has one session
  and calls from outside instead, with three events, all drafts and failures.
* `publisher`: two heads allow a force push and its reversal, two bases one advance, four runs
  a review, its withdrawal, a new label and one disturbance. When all runs are used up and over,
  nothing remains to happen, so the configuration does not look for deadlock.

* `files`: three processes, of which two may create and two may update: one creation with two
  competing updates, or two creations with an update or with two rollbacks. Two mishaps of any
  kind, since undoing a failure can itself fail, and since an edit from outside and a death may
  fall into the same window. A call may move up to four files aside (`MaxAside`), more than it
  can need after two mishaps: no call waits for a free name. Calls are used up, so the configuration does not look for deadlock;
  `EveryCallEnds` shows that no call is stuck.

Identifiers, events, revisions, runs, mishaps and base commits are bounded by constants named
`Max...`, or by the set `Events`; no counter is bounded otherwise.

## 4 Fairness

* `ReviewStore!Fairness`: a process inside a call keeps running (`WF` of its steps), and a lock
  that is released again and again is eventually granted to each process that waits for it
  (`SF` of `Acquire`): the store blocks in `flock`, whose waiters the kernel serves. Nothing
  obliges a process to make calls, or not to crash.
* `Workbench!Fairness`: Streamlit runs a started pass to its end (`WF` of `Pass`), and the user
  comes back to the page eventually (`WF` of `Click`, which needs no particular widget).
  `PassEnds` holds as long as calls from outside do not keep changing the record; its
  statement says so, since a page that is refreshed because of ever new changes is right to
  rerun.
* `AtomicFiles`: a process that has started a call runs on (`WF` of `Continue`) unless it dies;
  nothing makes it start. No system call it uses blocks on another process.
* `CheckPublisher` has no fairness: its settled properties speak of states in which every
  run is over, however long that took.
* `Ingestion`, `Evidence`, `BenchmarkCache` and `Benchmark` have none either: they promise nothing
  that must eventually happen, and every use of them may stop anywhere.

## 5 Proofs

Eight modules hold theorems, proved for all values of the constants that satisfy the named
assumptions (`LifecycleAssumption`, `GateAssumption`, `StoreAssumption`, `PublisherAssumption`,
`WorkbenchAssumption`, `IngestionAssumption`, `HistoriesAssumption`, `InputsAssumption`,
`LedgerAssumption`, `EvidenceAssumption`, `FilesAssumption`, `CacheAssumption`, `ChainAssumption`),
which TLC evaluates on its runs. They say that bounds are numbers, that values standing for "none"
are nothing else, and what the code guarantees of its inputs: a history lists its files and commits,
retrieved candidates show lines of the reviewed head, a baseline was validated when it was saved,
the manifest lists finitely many objects, at least one of each kind, under names of their own, and
the cache has room for what was prepared before; criteria and candidate lines are finitely many and
one criterion is a must. Every safety property of the passing runs has its theorem; `PROJECT.json`
pairs them.

**ReviewLifecycleProofs.** `TypeCorrect` is proved action by action, with a lemma per
operation. `Revalidation` needs `TypeOK` as a strengthening and one real argument: every
operation but one ends in `ValidState'`, so only `ReviseCriteria` must be shown to lead from
a valid state to a valid one (`ReviseValid`), that is, archiving the active bundle keeps the
replay of all events possible and leaves no event of the new revision. `ReadyEarned` follows
from validity: a stored gate is the recomputed one, a recomputed ready verdict has no
exception, no unresolved criterion and a final acceptance, which validation ties to the last
event (`SettledByEvidence`). `AcceptanceCovers` is different: validation does not relate
acceptance to file scope, so it is an invariant of its own. It is inductive with `TypeOK` and
`ValidState`, because acceptance requires coverage, scope decisions require that there is no
acceptance, and other decisions change neither (`DecisionKeepsFinal`, `DecisionKeepsCoverage`).
`StartsUndecided` again follows from validity, since what stands is replayed from the events of
the active revision. `OwnRecord` needs an invariant of its own, `Linked`: validation would let a
verification through that names no runtime record, as old records have them, and two that
name the same. `TrailOnlyGrows`, `VerificationsStand` and `DecisionsComplete` are about steps. They
rest on `StepCases`, which divides a step into operations with what each does to the log, and the
last on the argument that a gate without a final acceptance is never ready.

**ReviewStoreProofs.** `StoreInv` strengthens `LoadedIsCurrent` by `LoadedUnderLock` (what a
call has loaded it has loaded under locks it still holds, which makes it immune to others),
`KnownIds` (there is nothing under an unknown ID), `Derivations` (a saved state is the
expected one plus an event) and `FreshIds` (nobody uses the ID of a review that is saved for
the first time without a fingerprint). `LoadsStayCurrent` follows directly, and
`DeletionsAreBound` from it: what an unlinking call has compared is what is there.
`StoreImplementsRecords` shows that each step is a step of ReviewRecords or leaves the records
alone; without `FreshIds` the unconditional save of `analyze` could replace a record, without
`Derivations` a save could drop events.

**CheckPublisherProofs.** `PublisherInv` strengthens `OneCheckPerHead` and
`VerdictsShowTheirHead`. The listing on which a run decides to create is old when it writes, so
`CreatesFirst` says that nobody has created a Check of that head since, and `FirstOfGroup`, that
the concurrency group lets one review run per head out of the queue, is what makes this
inductive. `UpdatesItsHead` and `PublishesItsEvent` tie the check run that is written and the
verdict that is shown to the commits of the event. From it follow `TypeCorrect`, `SingleCheck`
and `VerdictsStayPut`, whatever fails and wherever runs are cut short. `StaleInv` is what the
settled properties need: `Covered` gives every verdict that has to go, at the wrong base or after
its withdrawal, a live run that either will write its Check as long as the pull request
stays as it is, or has written it and is about to take that back. Every change that takes such a run
away starts another, and a run that ends leaves no such verdict. When no run is left, `Covered` says that
there is none (`StaleVerdictsGo`, `WithdrawalsLast`).

**WorkbenchProofs.** `WorkbenchInv` says what the flags of a session are worth (`FlagsHold`): what
it takes for saved was saved and is part of what it shows; a content that was saved once is
remembered as saved, deleted or in conflict; after an autosave nothing that could be saved is new;
what a widget was offered for still holds when its handler runs. `OnlyUsed` and
`UnsavedIsPrivate` say that a content never saved has an event nobody else has, so that no other
session can have saved it meanwhile. From it follow the refinement of ReviewRecords
(`SessionsKeepRecords`), that no step but those that replace the review takes unsaved work
(`SessionsKeepWork`), and that an autosave creates no record out of what was deleted
(`AutosaveRevivesNothing`).

**GateInputsProofs.** `IngestionInv` follows a fetch: once the files were read their number
tells whether they were cut (`CutIsFull`), checks that pass are not in doubt (`PassingIsSure`), and
what was compared is what is returned (`ComparedAgrees`). A list that was not cut has as many entries
as the revision says, and was read while the revision it belongs to was the one compared, so it is
the whole list (`SnapshotOfOneRevision`), under any limits and any pushes. `InputsInv` adds
`SeenEnough`: the gate is never told of more than the reviewer saw, also when inputs get
worse; `ReadyWasSeen` follows. `VerdictIsExplained` and `WorseInputsNeverMilder` are about the truth table
itself, for any criteria, findings and decisions, the second with the one exception that its
statement names.

**EvidenceProofs.** `EvidenceInv` says that every analysis in the record, its history and the sessions
passes validation (`Sound`, `SessionGood`), and that what a browser last saw contradicted is in its
guard, while source it holds is for nothing contradicted (`BrowserGood`). Most lemmas are
about the operations: each leaves an analysis that validates (`...KeepsValid`) and ledgers that the old
ones are prefixes of (`...Grows`). `RecordStep` lists what a step can do to the saved record, and
`LedgersGrow`, `AuditsSeeTheRecord` and `BuiltOnMatchingSource` are read off it. `UnlistedStand` is about a pure
function, the comparison of any two valid analyses: the three rounds of pairing pair no
candidate twice (`UniquePairsMatch`, `MatchingGrows`), so that a criterion whose decision is not listed has
the same candidates, finding and imports on both sides, and the validators accept the result.

**AtomicFilesProofs.** `FilesInv` is a chain of parts, each proved with those before it. For every action a
lemma says what it does to a call (`...Effect`); the parts use these.

| part | says | needed because |
|---|---|---|
| `Basics` | the types, the course of a call (which fields go with which step), at most one call works under the claim | everything below is said by step |
| `NamesInv` | which names a call works on: its temporary, its backup, what it moved aside are its own, or the target | one call must not disturb another's files |
| `WrittenInv` | an incomplete text has private names of its call alone | `RecordsWhole` |
| `CaseInv` | an update's record is under the target until it is replaced, then under the backup, unless others took it | `FailuresReversible` |
| `OutcomeInv` | a replaced record never returns, nobody else has it in hand | `OutcomesUnique` |
| `CaseKept`, `ReportKept` | a reported text keeps a name that no removal under way is about to take | `ReportedTextsStay` |
| `QuietInv` | a call without trouble knows every name of its file | `RollbacksComplete` |

None of them depends on the number of processes, mishaps or quarantine names. Two details of the
model matter to them: each removal draws a new quarantine name, none twice, and a system call may
fail before or after it took effect.

**BenchmarkProofs.** A step of the cache may fail before or after it took effect, a process may be
killed and power lost between any two, so what is reported rests on what the steps before it have
made certain. `CacheInv` says what that is.

| part | says | needed because |
|---|---|---|
| `Links` | a name, on disk or as seen, leads to a complete file written for it | a power loss may keep either directory entry |
| `Lasting` | a name on disk, the pair's excepted, is seen too | a sync never takes a name from the disk |
| `Housed` | a file lies in a directory there is | a flush of the root makes the directories of all files durable |
| `Kept` | what was reported is in its directory as that is on disk | the directory may reach the disk later than the report |
| `OwnFiles` | nobody else works on the file a process works on | a link or swap moves that file alone |
| `Working` | before a publication the file is whole and has no name; before it is called absent it has no private name either | `DefiniteFailures`; torn files have no names |
| `Preparing` | what a preparation has behind it is on disk: every object before the marker, the source index before the cache index, and before a marker is reported the directories of all it lists | `AcknowledgedSurvives` for markers |
| `Pairing` | the first file of the pair is what this call wrote, and on disk, while it works on the second | `PairsWrittenOrRestored` |

`StepKeeps` is the rule every action is proved by: a step that changes only the process that takes
it, the name that process works on, by a file of its own (`Frame`), and shows what its next step
needs (`Shows`) keeps `CacheInv` for all the others too, since calls on one name either only add
files of the same bytes or hold the annotation lock. A power loss ends every call (`PowerLossKeeps`)
and must find that everything reported was on disk already, or goes with a directory that was not.
`DefiniteFailures` and `PairsWrittenOrRestored` are about the step that returns: which steps may
report what (`FailReports`, `WhoReturns`) and what `Working` and `Pairing` say before them.

`Benchmark` has variables of its own; `MCBenchmark` instantiates it under names that can stand
beside those of the cache, and is what TLC checks and the proofs extend. `ChainInv` says how much of
what a command has read is known to belong to the criteria it read first, step by step (`Bound`):
after the labels were loaded they name these criteria, after the recheck they fit, then the
universe, then the index. The files may have changed since, which is why nothing is said about them.
`ResultsOfOneChain` follows because only the second pass ends in a result. `AcceptedAreScored` also
needs that labels that fit pass everything after them: each missing type is explained as its
validator demands (`ExplanationsAreValid`, `ExplainedAreMissing`), the gate of a static review is
never ready and lists what keeps it so (`StaticGate`), and no ratio has more above than below
(`PartsFit`), whatever was retrieved (`FittingLabelsAreScored`). That TLC checks on two criteria and
two lines only.

**Only model-checked.** Liveness (`CallsReturn`, `PassEnds`, `EveryCallEnds`), which with fairness
and ENABLED is out of reach of TLAPS. The type invariants belong to no run but that of the
lifecycle; they are the theorems `TypeCorrect` or part of the invariant a module proves. What
recursive functions over data compute for every input would need induction that the provers cannot
instantiate; no theorem claims it, and no module uses a RECURSIVE operator.

## 6 Findings

1. **workbench_deleted.** An event is appended in a session; another process deletes the record
   before the autosave of the next pass. The save is refused as a conflict, and from then on
   the session neither matches its last save, so no refresh learns of the deletion, nor offers
   "Save now" or exports, which the conflict disables (`app.py:691-696`, `3896-3899`).
   `README.md:995-996` says that an open deleted review "remains available as unsaved session
   work".
2. **publisher_withdrawal.** The label is removed and the base branch advances before the
   withdrawal run reads the pull request. The withdrawal is bound to the base of its event and
   refuses; the base advance run lists labelled pull requests only. The verdict stays shown,
   although `docs/github-action.md:68-70` says that removing the label updates the Check to
   Needs Review.

Four smaller disagreements have no run of their own. `README.md:107` of the repository explains the
conditional verdict as "Accepted with exceptions" for explicitly accepted exceptions; the gate also
returns it for a should-have criterion with missing or partial evidence on which nobody has decided
(`gates/evaluator.py:163-167`). The design of the benchmark
(`docs/superpowers/specs/2026-07-21-r002-*-design.md`) names an explicit `reannotation_required`
state for a retrieval that outruns the labels; the command reports it as
`input_validation_failed` (`evals/r002_runner.py:1343`, `1396-1398`). The storage controls announce that exports remain
possible while the review directory is unavailable (`app.py:664-668`), though the same page
disables them (`app.py:3896-3899`), which a test expects. The mark that stops failed saves from
being retried is one field, which a failing acceptance with a note overwrites
(`app.py:477-480`, `3842`), so the older content is tried once more.

What the design of the alpha store promises
(`docs/superpowers/specs/2026-08-12-platform-safe-alpha-storage-design.md:25-31`) holds in the
model: one outcome per unresolved case, and a claim left by a dead process that is neither waited
for nor taken over. One interleaving is worth knowing. If a report is deleted and created anew by
others while its first author rolls it back, the rollback may have moved the new file aside just
when its creator verifies it; the creation then fails, and the rollback puts the file back, so
that a creation reported as failed has left its file. `NothingLost` holds throughout.

The benchmark cache keeps what its model states, with three consequences worth knowing. A process
killed between linking an object and removing its private name leaves a second link, and every later
read refuses the object (`cache_file_security`) until somebody removes the link: it fails
closed, not silently. And a command that finds an object another one has just linked may report
success while the winner's removal of the private name is not flushed; after a power loss
the bytes are there, but may again carry the second name. Finally, a namespace directory that is
missing is made with `mkdir`, and nothing flushes its entry in the root (`r002_cache.py:528`, `:1016`,
`:999`). An object reported as written in a first preparation can therefore go, with its directory,
when power is lost before the next flush of the root. Publishing a marker is such a flush, after the
objects it lists, so no marker ever stands without them; no document of the repository promises more
of an object. `AckedSurvives` says exactly this.

## 7 What is not modelled

* Lifecycle, store and workbench: record migrations; the temporary files a dead save leaves
  behind, which are never read; the `msvcrt` lock of Windows; an interaction that interrupts a
  running pass of the page; leases and deferred rendering of exports; drafts of single forms
  other than those of JUnit evidence.
* Atomic files and alpha cases: parent directories that are replaced or newly made; the contents of
  cases, and rehearsals; power failures, which only BenchmarkCache has, since only its code flushes
  with a protocol that depends on them.
* Publisher: paging and texts; pull requests into other branches than the default one, which the
  base advance workflow does not cover either.
* Ingestion: parsing of patches; GitHub always reports the total of its check lists; limits other
  than those of the configuration follow the same tests. The budget bites only in the model: with the
  default limits a fetch cannot use it up before another limit stops it.
* Evidence: input that continues after a save was refused, explicit overwriting and deletion, which
  Workbench has; the review of its own that source loaded by "Check current head" starts; uploads
  without selections; JUnit XML and its sanitizing; file scope decisions and runtime evidence in
  comparisons; saved comparison selections; requirement comparisons. The guard against
  contradicted source is per session and review context: another session, or a new confirmation of
  the same criteria, starts without it, as in the code.
* Benchmark: parsing of datasets and diffs, verification of head files, the contents of the redaction
  audit, scratch files, the creation of the cache root, which is taken to be on disk, and the flush
  of the root by the call that creates the annotation lock; the two fixture runners.
* Whole components: criteria parsing, scoring of texts and rule packs, reporting and
  presentation, identity helpers: text processing without state of its own.

## 8 Plan

The models of the first plan are written:

1. `Gate`, `ReviewLifecycle`: what the program promises its users, with proofs of validity and of
   what a ready verdict stands for.
2. `ReviewRecords`, `ReviewStore`: the shared state everything else stands on. Refinement proof.
3. `Workbench` over the records; `CheckPublisher`; their hazards.
4. `AtomicFiles`: claims, backups, publication, rollback, under failure and process death.
5. `Ingestion` and its composition with the gate.
6. `Ledger`, `Comparison`, `Evidence`: imports, references, source and what is compared.
7. `BenchmarkCache`, `Benchmark`.

Every safety property of these models that a run checks is a theorem. What could come next:

* the validators that a state passes without an operation of its own: CI observations, scope decisions
  and runtime evidence in comparisons;
* `AtomicFiles` with the directories above its name, which a rename can replace;
* rehearsals, which share the storage of alpha cases;
* parsing: patches, JUnit files and criteria documents, where only induction over texts would say
  something, so TLC on short ones.
