------------------------------ MODULE Evidence ------------------------------
(***************************************************************************)
(* One saved review and the sessions that add evidence to it.  Browsers    *)
(* (apps/web) hold the review they opened, the source they loaded for it   *)
(* and a staged mapping; shells (cli_junit_audit.py) hold the fingerprint  *)
(* a catalog printed.  JUnit imports are audited, source lines selected,   *)
(* decisions taken and final acceptance recorded; criteria are revised,    *)
(* which archives the analysis; and a revision is analysed again with      *)
(* source that was matched to the saved review.                            *)
(*                                                                         *)
(* A fingerprint is the state it is of.  A handler of a browser and the    *)
(* autosave of its next pass are one step: what may happen between them is *)
(* the subject of Workbench, as are deletion, and edits that continue      *)
(* after a save was refused.  The pull request keeps its reviewed facts or *)
(* moves away from them, and may come back.                                *)
(***************************************************************************)
EXTENDS Comparison

CONSTANTS
    Browsers,       \* workbench sessions
    Shells,         \* users of the command line
    Sources,        \* criteria sources, by identity
    Decisions,      \* human decisions
    Review,         \* the review ID
    ReviewedHead,   \* the reviewed commit
    Ruleset,        \* the installed retrieval rules
    Retrieved,      \* the candidates these rules find when every file is at hand
    MaxCandidates,  \* MAX_ATTACHED_CANDIDATE_FILES
    Baselines,      \* analyses of other saved reviews
    MaxRevisions,   \* bound: revisions of the criteria
    MaxConfirmations, \* bound: confirmations of criteria, saved or not
    MaxEntries      \* bound: records of all its analyses

\* Analyses of this review, and its states.
Owners == [review: {Review}, head: {ReviewedHead}, revision: Nat]

Imports == [artifact: Artifacts, owner: Owners, mapping: Mappings]

AuditEvents ==
    [action: {"mapping_corrected"}, artifact: Artifacts, owner: Owners,
     previous: Mappings, link: Nat, mapping: Mappings]
        \union [action: {"withdrawn"}, artifact: Artifacts, owner: Owners]

References ==
    [id: Nat, owner: Owners, criterion: Criteria,
     line: {Line(ReviewedHead, x) : x \in Content[ReviewedHead]}, note: Notes]

RefEvents == [action: {"withdrawn", "corrected"}, reference: Nat,
              by: Nat \union {None}, owner: Owners]

Findings ==
    [Criteria -> [status: {"missing", "evidence_found", "partial"},
                  cited: SUBSET {e.id : e \in Retrieved}]]

Analyses ==
    [owner: Owners, source: Sources, ruleset: {Ruleset},
     evidence: SUBSET Retrieved, findings: Findings,
     resolutions: UNION {[S -> Decisions] : S \in SUBSET Criteria},
     imports: Seq(Imports), events: Seq(AuditEvents),
     references: Seq(References), refEvents: Seq(RefEvents), final: BOOLEAN]

States == [revision: Nat, source: Sources, confirmed: Nat, decisions: Nat,
           bundle: Analyses \union {None}, history: Seq(Analyses)]

CandidatePaths == {x.path : x \in Content[ReviewedHead]} \ Inventory[ReviewedHead]

\* What a session holds.
Contexts == Nat \X Sources \X Nat

Sessions ==
    [open: States \union {None}, conflict: BOOLEAN,
     source: (SUBSET CandidatePaths) \union {None},
     receipt: [context: Contexts, saved: States \union {None}] \union {None},
     staged: [artifact: Artifacts,
              selections: SUBSET [scope: Scopes, criterion: Criteria]] \union {None},
     draft: [artifact: Artifacts,
             mapping: UNION {[S -> Criteria] : S \in SUBSET Cases}] \union {None},
     guard: SUBSET Contexts]

ASSUME EvidenceAssumption ==
    /\ Browsers \intersect Shells = {}
    /\ ReviewedHead \in Heads
    /\ DOMAIN Inventory = Heads /\ DOMAIN Content = Heads
    /\ \A e \in Retrieved :
        /\ e.commit = ReviewedHead /\ e.criterion \in Criteria
        /\ e.line \in {Line(ReviewedHead, x) : x \in Content[ReviewedHead]}
        /\ \A d \in Retrieved : e.id = d.id => e = d
    /\ None \notin Retrieved /\ None \notin Analyses /\ None \notin States
    /\ \A b \in Baselines :
        /\ ValidAnalysis(b) /\ b.owner.review # Review
        /\ IsFiniteSet(DOMAIN b.events) /\ None \notin b.evidence
    /\ MaxRevisions \in Nat /\ MaxConfirmations \in Nat /\ MaxEntries \in Nat /\ MaxCandidates \in Nat

VARIABLES
    record,     \* the saved review
    github,     \* whether the pull request still is as it was reviewed
    session,    \* the sessions
    clock,      \* the time of the last confirmation
    known       \* history: contexts a session last saw contradicted

vars == <<record, github, session, clock, known>>

\* confirmed: when the criteria were confirmed, which tells this revision
\* from one of the same number that was never saved.
\* decisions: how many resolution events there are.
State(revision, source, confirmed, decisions, bundle, history) ==
    [revision |-> revision, source |-> source, confirmed |-> confirmed,
     decisions |-> decisions, bundle |-> bundle, history |-> history]

WithBundle(st, b) == [st EXCEPT !.bundle = b]

\* Unchanged files are searched when they were loaded as candidates.
FreshAnalysis(revision, source, paths) ==
    Analysis([review |-> Review, head |-> ReviewedHead, revision |-> revision],
             source, Ruleset,
             {e \in Retrieved : e.line.scope = "unchanged" => e.line.path \in paths})

\* review_source_context_fingerprint: the review without its acceptance, and
\* the confirmed revision.
Context(st) == <<st.revision, st.source, st.confirmed>>

\* conflict: a save was refused.  source: the candidate paths held with the
\* reviewed snapshot.  receipt: the context it was matched to, and the saved
\* state, which only counts while the analysis is pending.  staged: selections
\* for an import.  draft: a staged correction.  guard: contexts that fresh
\* source contradicted.
Idle == [open |-> None, conflict |-> FALSE, source |-> None, receipt |-> None,
         staged |-> None, draft |-> None, guard |-> {}]

Init ==
    /\ \E src \in Sources, paths \in SUBSET CandidatePaths :
        record = State(1, src, 1, 0, FreshAnalysis(1, src, paths), <<>>)
    /\ github = "reviewed"
    /\ session = [s \in Browsers \union Shells |-> Idle]
    /\ clock = 1
    /\ known = [s \in Browsers |-> {}]

Set(s, new) == session' = [session EXCEPT ![s] = new]

\* Another state is shown: what was staged belongs to the one before.
Showing(x, st) ==
    IF st = x.open THEN x ELSE [x EXCEPT !.open = st, !.draft = None, !.staged = None]

\* In a conflict nothing can be imported, and what was staged for it goes.
Conflicting(x) == [x EXCEPT !.conflict = TRUE, !.staged = None]

\* A staged mapping that differs from the one in force is pending input, and
\* so are selections for an import.
AuditPending(s) ==
    LET x == session[s]
    IN  x.draft # None
            /\ x.draft.mapping # Effective(x.open.bundle, x.draft.artifact)

Pending(s) == AuditPending(s) \/ session[s].staged # None

Analysed(s) == session[s].open # None /\ session[s].open.bundle # None

Contradicted(s) == Context(session[s].open) \in session[s].guard

\* Ready for input in a review that is, as far as the session knows, saved.
Ready(s) == session[s].open # None /\ ~session[s].conflict /\ ~Pending(s)

Entries(b) ==
    IF b = None THEN 0
    ELSE Len(b.imports) + Len(b.events) + Len(b.references) + Len(b.refEvents)

\* The bound on what is recorded.
Room(st) ==
    st.decisions + Entries(st.bundle)
            + FoldSeq(LAMBDA b, n : n + Entries(b), 0, st.history) < MaxEntries

\* Mutant of SavedAsExpected: the record is overwritten whatever it holds.
SavedRegardless(s) == TRUE

\* The save is refused when the record is not what this session last saw.
SavedAsExpected(s) == record = session[s].open

Commit(s, new) ==
    /\ record' = IF SavedAsExpected(s) THEN new ELSE record
    /\ Set(s, IF SavedAsExpected(s) THEN Showing(session[s], new)
                                    ELSE Conflicting(Showing(session[s], new)))

----------------------------------------------------------------------------
(* The pull request, and looking at the saved review.                       *)

Push ==
    /\ github' = IF github = "reviewed" THEN "moved" ELSE "reviewed"
    /\ UNCHANGED <<record, session, clock, known>>

\* Mutant of Hydrated: the contradictions are cleared with the rest.
HydratedAfresh(x) ==
    [Showing(x, record) EXCEPT !.conflict = FALSE, !.source = None,
                               !.receipt = None, !.guard = {}]

\* _hydrate_reopened_review: the source is not carried over, what is known
\* against it is.
Hydrated(x) ==
    [Showing(x, record) EXCEPT !.conflict = FALSE, !.source = None,
                               !.receipt = None]

Reopen(s) ==
    /\ session[s].open = None \/ ~Pending(s)
    /\ Set(s, Hydrated(session[s]))
    /\ UNCHANGED <<record, github, clock, known>>

\* The refresh at the start of a page: an update from elsewhere is shown,
\* unless there is input that it would discard.
Refresh(s) ==
    /\ session[s].open # None /\ ~session[s].conflict
    /\ record # session[s].open
    /\ Set(s, IF Pending(s) THEN Conflicting(session[s])
                            ELSE Hydrated(session[s]))
    /\ UNCHANGED <<record, github, clock, known>>

\* The catalog of imports, with the fingerprint of the state it is of.
Read(s) ==
    /\ Set(s, [session[s] EXCEPT !.open = record])
    /\ UNCHANGED <<record, github, clock, known>>

----------------------------------------------------------------------------
(* Source for a saved review.                                               *)

Anchor(st) == IF st.bundle # None THEN st.bundle ELSE Last(st.history)

\* Unchanged files that the analysis, or the last one while a new one is
\* pending, refers to.
RequiredPaths(st) ==
    LET lines == {e.line : e \in Anchor(st).evidence}
                    \union {r.line : r \in ActiveRefs(Anchor(st))}
    IN  {x.path : x \in {y \in lines : y.scope = "unchanged"}}

\* required_source_candidate_paths has an answer.
Attachable(st) == Cardinality(RequiredPaths(st)) <= MaxCandidates

Blocked(x) ==
    [x EXCEPT !.source = None, !.receipt = None, !.guard = @ \union {Context(x.open)}]

\* prepare_saved_source_attachment
Receipt(st) == [context |-> Context(st),
                saved |-> IF st.bundle = None THEN st ELSE None]

\* "Load matching reviewed source"
LoadMatching(s) ==
    LET x == session[s] IN
    /\ Ready(s) /\ Attachable(x.open)
    /\ \/ /\ github = "moved"
          /\ Set(s, Blocked(x))
          /\ known' = [known EXCEPT ![s] = @ \union {Context(x.open)}]
       \/ /\ github = "reviewed" /\ record = x.open
          /\ Set(s, [x EXCEPT !.source = RequiredPaths(x.open),
                              !.receipt = Receipt(x.open),
                              !.guard = @ \ {Context(x.open)}])
          /\ known' = [known EXCEPT ![s] = @ \ {Context(x.open)}]
    /\ UNCHANGED <<record, github, clock>>

\* "Check current head".  What was loaded starts a review of its own, which
\* is not followed here; if the candidate files then fail to load, or the
\* saved requirements do not agree, the review stays open.  That the source
\* agrees again lifts no block.
CheckHead(s) ==
    LET x == session[s]
        y == IF github = "moved" THEN Blocked(x) ELSE x
    IN
    /\ x.open # None /\ ~Pending(s)
    /\ \/ Set(s, y)
       \/ Set(s, [Showing(y, None) EXCEPT !.source = None, !.receipt = None,
                                          !.conflict = FALSE])
    /\ known' = [known EXCEPT ![s] =
            IF github = "moved" THEN @ \union {Context(x.open)}
                                ELSE @ \ {Context(x.open)}]
    /\ UNCHANGED <<record, github, clock>>

----------------------------------------------------------------------------
(* Imported results.                                                        *)

\* Mutant of StillAsRead: a correction is applied to whatever is saved.
StillThere(s) == TRUE

\* The transition runs on the record as it is under the lock, and refuses
\* one that is not the state the request was made from.
StillAsRead(s) == record = session[s].open

Importable(s, a) ==
    /\ Analysed(s) /\ ~session[s].conflict /\ Room(session[s].open)
    /\ CanImport(session[s].open.bundle, a)

\* A file is uploaded and selections added, or more of them, or some removed.
\* An upload without selections is not followed.
StageImport(s) ==
    LET x == session[s] IN
    /\ \/ \E a \in Artifacts, c \in Criteria, scopes \in SUBSET Scopes :
            LET selections == IF x.staged = None THEN {} ELSE x.staged.selections
            IN  /\ Importable(s, a)
                /\ x.staged # None => x.staged.artifact = a
                /\ CanExtend(x.open.bundle, a, selections, c, scopes)
                /\ Set(s, [x EXCEPT !.staged =
                        [artifact |-> a,
                         selections |-> ExtendDraft(selections, c, scopes)]])
       \/ \E c \in Criteria :
            LET left == RemoveCriterion(x.staged.selections, c)
            IN  /\ x.staged # None /\ left # x.staged.selections
                /\ Set(s, IF left = {} THEN [x EXCEPT !.staged = None]
                                       ELSE [x EXCEPT !.staged.selections = left])
    /\ UNCHANGED <<record, github, clock, known>>

Import(s) ==
    LET x == session[s] IN
    /\ x.staged # None /\ ~AuditPending(s) /\ Importable(s, x.staged.artifact)
    /\ Commit(s, WithBundle(x.open,
            ImportResults(x.open.bundle, x.staged.artifact,
                          MappingOf(x.staged.selections))))
    /\ UNCHANGED <<github, clock, known>>

\* scopeproof import-junit, without a session: on the record as it is.
CliImport(a, selections) ==
    /\ record.bundle # None /\ CanImport(record.bundle, a)
    /\ Buildable(selections) /\ Room(record)
    /\ record' = WithBundle(record, ImportResults(record.bundle, a, MappingOf(selections)))
    /\ UNCHANGED <<github, session, clock, known>>

StartDraft(s, a) ==
    /\ Ready(s) /\ Analysed(s) /\ a \in ActiveImports(session[s].open.bundle)
    /\ Set(s, [session[s] EXCEPT !.draft =
            [artifact |-> a, mapping |-> Effective(session[s].open.bundle, a)]])
    /\ UNCHANGED <<record, github, clock, known>>

\* Nothing is staged while the form is disabled.
Stage(s) ==
    LET x == session[s] IN
    /\ x.draft # None /\ x.staged = None /\ ~x.conflict /\ ~Contradicted(s)
    /\ \/ \E c \in Criteria, cases \in SUBSET Cases :
            /\ CanStage(x.draft.mapping, c, cases)
            /\ Set(s, [x EXCEPT !.draft.mapping = StageGroup(@, c, cases)])
       \/ \E c \in Named(x.draft.mapping) :
            Set(s, [x EXCEPT !.draft.mapping = RemoveGroup(@, c)])
    /\ UNCHANGED <<record, github, clock, known>>

DropDraft(s) ==
    /\ session[s].draft # None
    /\ Set(s, [session[s] EXCEPT !.draft = None])
    /\ UNCHANGED <<record, github, clock, known>>

\* correct_junit_mappings and withdraw_junit_evidence_import under mutate:
\* the session shows what was saved.
Audit(s, b) ==
    /\ record' = WithBundle(record, b)
    /\ Set(s, [Showing(session[s], record') EXCEPT !.conflict = FALSE])
    /\ UNCHANGED <<github, clock, known>>

SaveCorrection(s) ==
    LET x == session[s] IN
    /\ x.draft # None /\ x.draft.mapping # <<>>
    /\ AuditPending(s) /\ x.staged = None
    /\ ~x.conflict /\ ~Contradicted(s) /\ StillAsRead(s)
    /\ record.bundle # None
    /\ CanCorrect(record.bundle, x.draft.artifact, x.draft.mapping)
    /\ Room(record)
    /\ Audit(s, CorrectMappings(record.bundle, x.draft.artifact, x.draft.mapping))

Withdraw(s, a) ==
    /\ Ready(s) /\ Analysed(s) /\ ~Contradicted(s) /\ StillAsRead(s)
    /\ record.bundle # None /\ a \in ActiveImports(record.bundle)
    /\ Room(record)
    /\ Audit(s, WithdrawImport(record.bundle, a))

\* The same commands in a shell, with --expected-state-fingerprint.
CliCorrect(s, a, mapping) ==
    /\ Analysed(s) /\ StillAsRead(s) /\ record.bundle # None
    /\ CanCorrect(record.bundle, a, mapping)
    /\ Room(record)
    /\ Audit(s, CorrectMappings(record.bundle, a, mapping))

CliWithdraw(s, a) ==
    /\ Analysed(s) /\ StillAsRead(s) /\ record.bundle # None
    /\ a \in ActiveImports(record.bundle)
    /\ Room(record)
    /\ Audit(s, WithdrawImport(record.bundle, a))

----------------------------------------------------------------------------
(* Selected references, decisions and acceptance.                           *)

\* Lines are chosen from the loaded source.
Selectable(s) ==
    IF session[s].source = None THEN {}
    ELSE EligibleLines(ReviewedHead, session[s].source)

Select(s) ==
    LET st == session[s].open
        b == st.bundle
    IN
    /\ Ready(s) /\ Analysed(s) /\ ~Contradicted(s)
    /\ Room(st)
    /\ \/ \E c \in Criteria, line \in Selectable(s), note \in Notes :
            /\ CanAddReference(b, c, line, note)
            /\ Commit(s, WithBundle(st, AddReference(b, c, line, note)))
       \/ \E r \in ActiveRefs(b), line \in Selectable(s), note \in Notes :
            /\ CanCorrectReference(b, r.id, line, note)
            /\ Commit(s, WithBundle(st, CorrectReference(b, r.id, line, note)))
       \/ \E r \in ActiveRefs(b) :
            /\ CanWithdrawReference(b, r.id)
            /\ Commit(s, WithBundle(st, WithdrawReference(b, r.id)))
    /\ UNCHANGED <<github, clock, known>>

WithDecision(resolutions, c, d) ==
    [x \in DOMAIN resolutions \union {c} |-> IF x = c THEN d ELSE resolutions[x]]

\* append_resolution: the event of a decision, which is in force from then
\* on, or of an acceptance or its revocation.
Decided(st, c, d) ==
    [st EXCEPT !.decisions = @ + 1, !.bundle.resolutions = WithDecision(@, c, d)]

AcceptanceToggled(st) == [st EXCEPT !.decisions = @ + 1, !.bundle.final = ~@]

Decide(s, c, d) ==
    /\ Analysed(s) /\ ~session[s].conflict /\ ~AuditPending(s)
    /\ Room(session[s].open)
    /\ Commit(s, Decided(session[s].open, c, d))
    /\ UNCHANGED <<github, clock, known>>

\* Recording takes a decision on every criterion, revoking nothing more.
Accept(s) ==
    LET b == session[s].open.bundle IN
    /\ Ready(s) /\ Analysed(s) /\ ~Contradicted(s) /\ Room(session[s].open)
    /\ b.final \/ DOMAIN b.resolutions = Criteria
    /\ Commit(s, AcceptanceToggled(session[s].open))
    /\ UNCHANGED <<github, clock, known>>

----------------------------------------------------------------------------
(* Criteria revisions and their analysis.                                   *)

\* revise_criteria and confirm_criteria: the analysis goes to the history as
\* it is; the snapshot stays, the receipt goes.
Revised(st, src) ==
    State(st.revision + 1, src, clock + 1, st.decisions, None,
          IF st.bundle = None THEN st.history
          ELSE Append(st.history, st.bundle))

ReviseConfirm(s, src) ==
    LET x == session[s]
        new == Revised(x.open, src)
    IN
    /\ Ready(s) /\ x.open.revision < MaxRevisions /\ clock < MaxConfirmations
    /\ clock' = clock + 1
    /\ record' = IF SavedAsExpected(s) THEN new ELSE record
    /\ Set(s, [Showing(x, new) EXCEPT !.conflict = ~SavedAsExpected(s),
                                      !.receipt = None])
    /\ UNCHANGED <<github, known>>

\* validate_source_attachment of a pending state: its context and saved
\* state are those of the receipt, and the source covers what it refers to.
AttachmentHolds(st, receipt, source) ==
    /\ receipt.context = Context(st) /\ receipt.saved = st
    /\ RequiredPaths(st) \subseteq source

\* "Run deterministic analysis" of a saved revision: without a receipt one
\* is prepared from the source at hand, narrowed to what is required.
Analyse(s) ==
    LET x == session[s]
        held == x.source \intersect RequiredPaths(x.open)
        receipt == IF x.receipt = None THEN Receipt(x.open) ELSE x.receipt
    IN
    /\ x.open # None /\ x.open.bundle = None /\ x.source # None
    /\ Attachable(x.open) /\ AttachmentHolds(x.open, receipt, held)
    /\ record = x.open
    /\ record' = WithBundle(record, FreshAnalysis(x.open.revision, x.open.source, held))
    /\ Set(s, [Showing(x, record') EXCEPT !.source = held, !.receipt = None,
                                          !.conflict = FALSE])
    /\ UNCHANGED <<github, clock, known>>

----------------------------------------------------------------------------

Next ==
    \/ Push
    \/ \E a \in Artifacts, selections \in SUBSET [scope: Scopes, criterion: Criteria] :
        CliImport(a, selections)
    \/ \E s \in Browsers :
        \/ Reopen(s) \/ Refresh(s) \/ LoadMatching(s) \/ CheckHead(s)
        \/ StageImport(s) \/ Import(s)
        \/ Stage(s) \/ DropDraft(s) \/ SaveCorrection(s)
        \/ Select(s) \/ Accept(s) \/ Analyse(s)
        \/ \E a \in Artifacts : StartDraft(s, a) \/ Withdraw(s, a)
        \/ \E c \in Criteria, d \in Decisions : Decide(s, c, d)
        \/ \E src \in Sources : ReviseConfirm(s, src)
    \/ \E s \in Shells :
        \/ Read(s)
        \/ \E a \in Artifacts :
            CliWithdraw(s, a) \/ \E mapping \in Mappings : CliCorrect(s, a, mapping)

Spec == Init /\ [][Next]_vars
----------------------------------------------------------------------------
(* Properties.                                                              *)

\* Every variable holds a value of its type.
TypeOK ==
    /\ record \in States
    /\ github \in {"reviewed", "moved"}
    /\ session \in [Browsers \union Shells -> Sessions]
    /\ clock \in Nat
    /\ known \in [Browsers -> SUBSET Contexts]

\* An audit event on imported results is recorded by a session that saw the
\* very record it extends: no correction or withdrawal lands on a ledger in
\* which somebody else recorded something meanwhile (mutate, with the state
\* fingerprint the request was made from).
CorrectionsSeeWhatTheyReplace ==
    [][ record.bundle # None /\ record'.bundle # None =>
          (record'.bundle.events # record.bundle.events =>
            \E s \in DOMAIN session :
                session[s].open = record /\ session'[s].open = record') ]_vars

\* Whatever sessions do with what they opened long ago, nothing is lost from
\* the saved ledgers: the four lists of an analysis only grow, an analysis
\* leaves the record only whole, into the history, and the history only
\* grows.
LedgerOnlyGrows ==
    [][ LET b == record.bundle
            new == record'.bundle
        IN  /\ IsPrefix(record.history, record'.history)
            /\ b # None /\ record'.revision = record.revision =>
                /\ new # None
                /\ IsPrefix(b.imports, new.imports)
                /\ IsPrefix(b.events, new.events)
                /\ IsPrefix(b.references, new.references)
                /\ IsPrefix(b.refEvents, new.refEvents)
            /\ b # None /\ record'.revision # record.revision =>
                record'.history = Append(record.history, b) ]_vars

\* Of an analysis that the current one can be compared with, this review's
\* earlier ones and those of other reviews.
ComparedWith == {b \in ToSet(record.history) \union Baselines :
                    Comparable(b, record.bundle)}

\* A decision that a comparison does not list as requiring review again was
\* taken over the same things: the head, the rules, the finding and the
\* candidates of its criterion are the same, and no import that differs was
\* ever mapped to it, not even between two corrections.  The comparison is
\* one the validators accept, and it accounts for every candidate once.
UnlistedDecisionsStand ==
    record.bundle # None =>
    /\ ValidAnalysis(record.bundle)
    /\ \A b \in ComparedWith :
        LET x == CompareReviews(b, record.bundle)
            Own(y, c) == {ExactSignature(e) : e \in {d \in y.evidence : d.criterion = c}}
        IN  /\ ComparisonAccepted(x)
            /\ \A e \in b.evidence :
                Cardinality({y \in x.evidence : y.previous = e}) = 1
            /\ \A e \in record.bundle.evidence :
                Cardinality({y \in x.evidence : y.current = e}) = 1
            /\ \A c \in DOMAIN b.resolutions \ x.listed :
                /\ b.owner.head = record.bundle.owner.head
                /\ b.ruleset = record.bundle.ruleset
                /\ b.findings[c].status = record.bundle.findings[c].status
                /\ Own(b, c) = Own(record.bundle, c)
                /\ \A a \in ChangedArtifacts(b, record.bundle) :
                    \A y \in {b, record.bundle} :
                        HasImport(y, a) => c \notin EverNamed(y, a)

\* Nothing is built on source known to be contradicted: who records a final
\* acceptance, or attaches an analysis, did not last see the pull request
\* differ from this very context, however often the review was closed,
\* reopened and refreshed since.  What is attached was pending in the saved
\* record, and was made from every file the analysis before it referred to.
NothingOnContradictedSource ==
    [][ \A s \in Browsers :
          LET mine == /\ session[s].open = record
                      /\ session'[s].open = record'
              attached == record.bundle = None /\ record'.bundle # None
              accepted == /\ record.bundle # None /\ ~record.bundle.final
                          /\ record'.bundle # None /\ record'.bundle.final
          IN  mine /\ record' # record /\ (attached \/ accepted) =>
                /\ Context(record) \notin known[s]
                /\ attached =>
                    /\ RequiredPaths(record) \subseteq session[s].source
                    /\ Context(record') = Context(record) ]_vars
=============================================================================
