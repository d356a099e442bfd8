--------------------------- MODULE ReviewLifecycle ---------------------------
(***************************************************************************)
(* One ReviewState and the operations of                                   *)
(* scopeproof_core/reviews/lifecycle.py that transform it: a criteria      *)
(* revision is drafted, confirmed and analysed; the reviewer appends       *)
(* decisions, external verifications, file scope decisions and the final   *)
(* acceptance; the gate is recomputed.  An operation that raises leaves    *)
(* the state alone, so it is an action that is not enabled.                *)
(*                                                                         *)
(* Every operation revalidates the state it is given (ValidState in Next)  *)
(* and all but revise_criteria revalidate the one they return (ValidState')*)
(* Resolutions, final acceptance and gate are stored beside the events     *)
(* they derive from, as in the code, so that they could disagree.          *)
(***************************************************************************)
EXTENDS Gate, Functions

CONSTANTS
    Decisions,     \* the decisions reviewers use, besides manual verification
    Reviewers,     \* who attests runtime evidence, and at which level
    NoBundle,      \* a pending revision has no analysis bundle
    Final,         \* the target of a final-acceptance event
    Outcomes,      \* the finding statuses analyses come back with
    AllFacts,      \* the ingestion outcomes a review may start from
    MaxRevisions,  \* bounds on criteria revisions, on resolution events, and
    MaxEvents,     \* on the file scope decisions and the runtime evidence of
    MaxScope,      \* one analysis
    MaxRuntime,
    MaxRecords     \* bound on events and scope decisions together

\* Identifiers are opaque and unique per record; callers make them up (uuid4),
\* and may submit one again.  They are numbered in the order of first use.
EventIds == 1..MaxEvents
ScopeIds == 1..MaxScope
RuntimeIds == 1..MaxRuntime

ASSUME LifecycleAssumption ==
    /\ MaxRevisions \in Nat \ {0}
    /\ MaxEvents \in Nat /\ MaxScope \in Nat /\ MaxRuntime \in Nat
    /\ MaxRecords \in Nat
    /\ AllFacts \subseteq Facts
    /\ Decisions \subseteq HumanDecision
    /\ Outcomes \subseteq FindingStatus
    /\ Final \notin Criteria
    /\ NoRuntime \notin RuntimeIds

VARIABLES
    facts,     \* Review: head, checks and ingestion, fixed for the whole review
    review,    \* Review: confirmation, provenance and final acceptance
    revision,  \* CriteriaRevision
    bundle,    \* the active ReviewBundle, or NoBundle
    history,   \* analysis_history
    events     \* resolution_events

vars == <<facts, review, revision, bundle, history, events>>

-----------------------------------------------------------------------------
(* Data.                                                                   *)

\* A confirmed source snapshot: the criteria digest, and the last revision
\* created before the confirmation was taken.
Provenance == [criteria: SUBSET Criteria, since: 1..MaxRevisions]

Review == [confirmed: BOOLEAN, final: BOOLEAN,
           provenance: Provenance \union {NoProvenance}]

Revision == [number: 1..MaxRevisions, criteria: (SUBSET Criteria) \ {{}},
             confirmed: BOOLEAN, provenance: Provenance \union {NoProvenance}]

\* A criterion decision, or a final acceptance when target = Final.
\* `commented`: the reviewer's comment is not blank.
Event == [id: EventIds, revision: 1..MaxRevisions,
          target: Criteria \union {Final},
          decision: HumanDecision \union {"accept_review", "revoke_review"},
          commented: BOOLEAN, runtime: RuntimeIds \union {NoRuntime},
          reviewer: Reviewers]

RuntimeEvidence == [id: RuntimeIds, criterion: Criteria, reviewer: Reviewers]

ScopeDecision == [id: ScopeIds, path: Files,
                  disposition: {"outside", "within"}]

-----------------------------------------------------------------------------
(* State derived from the append-only events.                              *)

SameTarget(e, f) == e.revision = f.revision /\ e.target = f.target

\* The events that no later event of the same revision and target supersedes.
CurrentEvents(es, n) ==
    {es[i] : i \in {k \in DOMAIN es :
                      /\ es[k].revision = n
                      /\ \A j \in DOMAIN es : j > k => ~SameTarget(es[k], es[j])}}

\* current_resolutions: the latest decision on each criterion.
CurrentResolutions(es, n) == {e \in CurrentEvents(es, n) : e.target # Final}

\* final_acceptance: the latest final event, FALSE when there is none.
FinalAcceptance(es, n) ==
    \E e \in CurrentEvents(es, n) :
        e.target = Final /\ e.decision = "accept_review"

GateOf(rv, b) ==
    EvaluateGate(rv, facts, b.criteria, b.findings, b.resolutions, b.cited, b.scope)

-----------------------------------------------------------------------------
(* Validation: what validated_review_state accepts.                        *)

\* The bundle cites what it knows: cross references of one ReviewBundle.
CrossReferenced(b) ==
    /\ DOMAIN b.findings = b.criteria
    /\ b.review.provenance # NoProvenance => b.review.provenance.criteria = b.criteria
    /\ \A x \in b.runtime : x.criterion \in b.criteria
    /\ \A x, y \in b.runtime : x.id = y.id => x = y
    /\ \A r \in b.resolutions : r.target \in b.criteria
    /\ \A i, j \in DOMAIN b.scope : b.scope[i].id = b.scope[j].id => i = j

Paired(e, b) ==
    e.decision = "manually_verified" /\ e.runtime # NoRuntime =>
        \E x \in b.runtime : /\ x.id = e.runtime
                             /\ x.criterion = e.target
                             /\ x.reviewer = e.reviewer

\* _review_allows_final_acceptance
AllowsFinalAcceptance(b) ==
    /\ b.review.confirmed
    /\ facts.ingestion = "complete"
    /\ ~facts.limited
    /\ facts.check = "passing"

AllResolved(b, resolutions) ==
    \A c \in b.criteria : DecidedAs(resolutions, c, ResolvedDecisions)

\* _require_evidence_integrity
EvidenceIntegrity(b) ==
    /\ \A r \in b.resolutions : Paired(r, b)
    /\ \A r \in b.resolutions :
         AcceptanceRequiresComment(r.decision, b.findings[r.target]) => r.commented
    /\ b.review.final => AllowsFinalAcceptance(b) /\ AllResolved(b, b.resolutions)

BundleOf(n) == \* bundles_by_revision
    IF bundle # NoBundle /\ bundle.number = n THEN {bundle}
    ELSE {b \in Range(history) : b.number = n}

\* _require_event_history_integrity: every event is replayed against the bundle
\* of its revision and the decisions that preceded it.
Replayable(b, es, i) ==
    LET before == SubSeq(es, 1, i - 1)
    IN  IF es[i].target # Final
        THEN /\ Paired(es[i], b)
             /\ ~ /\ FinalAcceptance(before, b.number)
                  /\ DecidedAs(CurrentResolutions(before, b.number),
                               es[i].target, {"manually_verified"})
        ELSE es[i].decision = "accept_review" =>
                /\ AllowsFinalAcceptance(b)
                /\ AllResolved(b, CurrentResolutions(before, b.number))

EventHistoryIntegrity ==
    \A i \in DOMAIN events :
        \E b \in BundleOf(events[i].revision) : Replayable(b, events, i)

\* The ReviewState model validator.
Consistent ==
    /\ \A i, j \in DOMAIN events : events[i].id = events[j].id => i = j
    /\ \A i \in DOMAIN events : events[i].revision \in 1..revision.number
    /\ review.confirmed = revision.confirmed
    /\ review.provenance = revision.provenance
    /\ revision.provenance # NoProvenance =>
         revision.confirmed /\ revision.provenance.criteria = revision.criteria
    /\ bundle # NoBundle =>
         /\ bundle.review = review
         /\ bundle.number = revision.number
         /\ bundle.criteria = revision.criteria
         /\ revision.confirmed
         /\ CrossReferenced(bundle)
    /\ \A i \in DOMAIN history :
         /\ history[i].number < revision.number
         /\ \A j \in DOMAIN history : i < j => history[i].number < history[j].number
         /\ CrossReferenced(history[i])

\* What validated_review_state recomputes for one bundle.
Derived(b) ==
    /\ b.gate = GateOf(b.review, b)
    /\ b.resolutions = CurrentResolutions(events, b.number)
    /\ b.review.final = FinalAcceptance(events, b.number)
    /\ EvidenceIntegrity(b)

ValidState ==
    /\ Consistent
    /\ \A b \in Range(history) : Derived(b)
    /\ IF bundle = NoBundle
       THEN \A i \in DOMAIN events : events[i].revision # revision.number
       ELSE Derived(bundle)
    /\ review.final = FinalAcceptance(events, revision.number)
    /\ EventHistoryIntegrity

-----------------------------------------------------------------------------
(* Analyses.                                                               *)

\* Findings and cited files an analysis of `criteria` can come back with.
AnalysisOf(criteria, f) ==
    {a \in [findings: [criteria -> {x \in DerivableFindings(f) :
                                       x.status \in Outcomes}],
            cited: SUBSET Files] :
        a.cited # {} => f.inventoried /\ HasCandidates(a.findings)}

\* A fresh bundle for revision n: no decision, no runtime evidence, and the
\* gate its content evaluates to.
FreshBundle(n, rv, criteria, a) ==
    [number |-> n, criteria |-> criteria, review |-> rv,
     findings |-> a.findings, cited |-> a.cited,
     resolutions |-> {}, runtime |-> {}, scope |-> << >>,
     gate |-> EvaluateGate(rv, facts, criteria, a.findings, {}, a.cited, << >>)]

Pending(b) == b = NoBundle

-----------------------------------------------------------------------------
(* Operations.                                                             *)

\* new_review_state: the first analysis of criteria confirmed beforehand.
Init ==
    \E f \in AllFacts, cs \in (SUBSET Criteria) \ {{}} :
      LET prov == [criteria |-> cs, since |-> 1]
          rv == [confirmed |-> TRUE, final |-> FALSE, provenance |-> prov]
      IN  /\ facts = f
          /\ review = rv
          /\ revision = [number |-> 1, criteria |-> cs, confirmed |-> TRUE,
                         provenance |-> prov]
          /\ \E a \in AnalysisOf(cs, f) : bundle = FreshBundle(1, rv, cs, a)
          /\ history = << >>
          /\ events = << >>

\* A draft revision cs under review facts rv, with bundle b and history h.
Draft(cs, rv, b, h) ==
    /\ revision.number < MaxRevisions
    /\ revision' = [number |-> revision.number + 1, criteria |-> cs,
                    confirmed |-> FALSE, provenance |-> NoProvenance]
    /\ review' = rv
    /\ bundle' = b
    /\ history' = h
    /\ UNCHANGED <<facts, events>>

Unconfirmed == [confirmed |-> FALSE, final |-> FALSE, provenance |-> NoProvenance]

Archived == IF Pending(bundle) THEN history ELSE Append(history, bundle)

\* Mutants: the final acceptance, the provenance or the active analysis is
\* carried over; the analysis is not archived; empty criteria are let through.
ReviseKeepsAcceptance(cs) ==
    cs # {} /\ Draft(cs, [Unconfirmed EXCEPT !.final = review.final], NoBundle, Archived)
ReviseKeepsProvenance(cs) ==
    cs # {} /\ Draft(cs, [Unconfirmed EXCEPT !.provenance = review.provenance],
                     NoBundle, Archived)
ReviseKeepsAnalysis(cs) == cs # {} /\ Draft(cs, Unconfirmed, bundle, history)
ReviseForgetsArchive(cs) == cs # {} /\ Draft(cs, Unconfirmed, NoBundle, history)
ReviseAcceptsNoCriteria(cs) == Draft(cs, Unconfirmed, NoBundle, Archived)

\* revise_criteria: the active analysis is archived and a draft revision takes
\* its place.  This is the one operation that returns its result unchecked.
ReviseCriteria(cs) == cs # {} /\ Draft(cs, Unconfirmed, NoBundle, Archived)

\* confirm_criteria: against a source snapshot no older than the revision.
ConfirmCriteria(prov) ==
    /\ Pending(bundle)
    /\ prov.since >= revision.number
    /\ revision' = [revision EXCEPT !.confirmed = TRUE, !.provenance = prov]
    /\ review' = [confirmed |-> TRUE, final |-> FALSE, provenance |-> prov]
    /\ UNCHANGED <<facts, bundle, history, events>>
    /\ ValidState'

\* attach_analysis: an analysis made for exactly the pending revision, under
\* provenance prov and ingestion outcome f.
AttachAnalysis(f, prov, a) ==
    /\ Pending(bundle)
    /\ revision.confirmed
    /\ revision.provenance # NoProvenance
    /\ prov = revision.provenance
    /\ review.provenance = revision.provenance
    /\ prov.criteria = revision.criteria
    /\ f = facts
    /\ bundle' = FreshBundle(revision.number, review, revision.criteria, a)
    /\ UNCHANGED <<facts, review, revision, history, events>>
    /\ ValidState'

\* _recalculate: the stored derivations of bundle b under event list es.
Recalculated(b, es) ==
    LET rv == [review EXCEPT !.final = FinalAcceptance(es, revision.number)]
        c == [b EXCEPT !.review = rv,
                       !.resolutions = CurrentResolutions(es, revision.number)]
    IN  [c EXCEPT !.gate = GateOf(rv, c)]

Record(b, e) ==
    LET es == Append(events, e)
    IN  /\ events' = es
        /\ bundle' = Recalculated(b, es)
        /\ review' = Recalculated(b, es).review
        /\ UNCHANGED <<facts, revision, history>>

NewEventId(id) == \A i \in DOMAIN events : events[i].id # id

\* The decision in force on c, while final acceptance is, is a manual
\* verification: the reviewer must revoke the acceptance before replacing it.
ManualUnderFinal(c) ==
    /\ review.final
    /\ DecidedAs(CurrentResolutions(events, revision.number), c,
                 {"manually_verified"})

\* A scope decision d made for revision number and the criteria of prov.
ScopeDecided(d, number, prov, c) ==
    /\ ~Pending(bundle)
    /\ revision.confirmed
    /\ review.provenance # NoProvenance
    /\ prov.criteria = review.provenance.criteria
    /\ number = revision.number
    /\ facts.inventoried
    /\ \A i \in DOMAIN bundle.scope : bundle.scope[i].id # d.id
    /\ d.disposition = "within" => c \in bundle.criteria
    /\ LET b == [bundle EXCEPT !.scope = Append(bundle.scope, d)]
       IN  bundle' = [b EXCEPT !.gate = GateOf(b.review, b)]
    /\ UNCHANGED <<facts, review, revision, history, events>>
    /\ ValidState'

\* Mutant: file scope may change under a standing final acceptance.
ScopeDecidedUnderFinal(d, number, prov, c) == ScopeDecided(d, number, prov, c)

\* append_file_scope_decision
AppendFileScopeDecision(d, number, prov, c) ==
    ~review.final /\ ScopeDecided(d, number, prov, c)

\* append_resolution of a criterion decision other than a manual verification.
AppendDecision(id, c, decision, commented, reviewer) ==
    /\ NewEventId(id)
    /\ ~Pending(bundle)
    /\ decision # "manually_verified"
    /\ ~ManualUnderFinal(c)
    /\ c \in bundle.criteria
    /\ AcceptanceRequiresComment(decision, bundle.findings[c]) => commented
    /\ Record(bundle, [id |-> id, revision |-> revision.number, target |-> c,
                       decision |-> decision, commented |-> commented,
                       runtime |-> NoRuntime, reviewer |-> reviewer])
    /\ ValidState'

\* can_record_final_acceptance
CanRecordFinalAcceptance ==
    /\ ~Pending(bundle)
    /\ ~review.final
    /\ review.provenance # NoProvenance
    /\ revision.provenance = review.provenance
    /\ bundle.review.provenance = review.provenance
    /\ AllowsFinalAcceptance(bundle)
    /\ FilesResolved(facts, bundle.cited, bundle.scope)
    /\ LET current == CurrentResolutions(events, revision.number)
       IN  \A c \in bundle.criteria : /\ DecidedAs(current, c, ResolvedDecisions)
                                      /\ ~Unlinked(current, c)

\* append_resolution of a final-acceptance event.
AppendFinalAcceptance(id, accept, reviewer) ==
    /\ NewEventId(id)
    /\ ~Pending(bundle)
    /\ accept => CanRecordFinalAcceptance
    /\ Record(bundle, [id |-> id, revision |-> revision.number, target |-> Final,
                       decision |-> IF accept THEN "accept_review"
                                              ELSE "revoke_review",
                       commented |-> FALSE, runtime |-> NoRuntime,
                       reviewer |-> reviewer])
    /\ ValidState'

\* Mutant: a retried submission is taken for a new one.
AnyRuntimeId(id) == TRUE

NewRuntimeId(id) == \A x \in bundle.runtime : x.id # id

\* append_runtime_evidence: context only, the gate does not read it.
AppendRuntimeEvidence(x) ==
    /\ ~Pending(bundle)
    /\ x.criterion \in bundle.criteria
    /\ NewRuntimeId(x.id)
    /\ bundle' = [bundle EXCEPT !.runtime = @ \union {x}]
    /\ UNCHANGED <<facts, review, revision, history, events>>
    /\ ValidState'

\* append_external_verification: the evidence x and the manual verification
\* of criterion c by a reviewer that rests on it, in one step.
AppendExternalVerification(x, id, c, reviewer) ==
    /\ ~Pending(bundle)
    /\ x.criterion = c
    /\ c \in bundle.criteria
    /\ x.reviewer = reviewer
    /\ NewRuntimeId(x.id)
    /\ NewEventId(id)
    /\ ~ManualUnderFinal(c)
    /\ Record([bundle EXCEPT !.runtime = @ \union {x}],
              [id |-> id, revision |-> revision.number, target |-> c,
               decision |-> "manually_verified", commented |-> TRUE,
               runtime |-> x.id, reviewer |-> reviewer])
    /\ ValidState'

\* Only the comment of an acceptance is ever read.
Comments(decision) == IF decision = "accepted" THEN BOOLEAN ELSE {TRUE}

\* The identifiers a caller can present: those in use, and the next new one.
RoomForRecord ==
    Len(events) + (IF Pending(bundle) THEN 0 ELSE Len(bundle.scope)) < MaxRecords
NewEventIds == {id \in EventIds : RoomForRecord /\ id <= Len(events) + 1}
NewRuntimeEvidence ==
    {x \in RuntimeEvidence : ~Pending(bundle) => x.id <= Cardinality(bundle.runtime) + 1}
NewScopeDecisions ==
    {d \in ScopeDecision :
        RoomForRecord /\ (~Pending(bundle) => d.id <= Len(bundle.scope) + 1)}

Operation ==
    \/ \E cs \in SUBSET Criteria : ReviseCriteria(cs)
    \/ \E prov \in Provenance : ConfirmCriteria(prov)
    \/ \E f \in AllFacts, prov \in Provenance :
         \E a \in AnalysisOf(prov.criteria, f) : AttachAnalysis(f, prov, a)
    \/ \E d \in NewScopeDecisions, n \in 1..MaxRevisions, prov \in Provenance,
          c \in Criteria : AppendFileScopeDecision(d, n, prov, c)
    \/ \E id \in NewEventIds, c \in Criteria, d \in Decisions, who \in Reviewers :
         \E commented \in Comments(d) : AppendDecision(id, c, d, commented, who)
    \/ \E id \in NewEventIds, accept \in BOOLEAN, who \in Reviewers :
         AppendFinalAcceptance(id, accept, who)
    \/ \E x \in NewRuntimeEvidence : AppendRuntimeEvidence(x)
    \/ \E x \in NewRuntimeEvidence, id \in NewEventIds, c \in Criteria,
          who \in Reviewers : AppendExternalVerification(x, id, c, who)

\* Every operation first revalidates the state it is given (_validated_state).
Next == ValidState /\ Operation

Spec == Init /\ [][Next]_vars

-----------------------------------------------------------------------------
(* Properties.                                                             *)

Gates == [verdict: GateVerdict, blocking: SUBSET Criteria,
          conditional: SUBSET Criteria, unresolved: SUBSET Criteria,
          exceptions: SUBSET Criteria]

BundleOK(b) ==
    /\ b.number \in 1..MaxRevisions
    /\ b.criteria \in (SUBSET Criteria) \ {{}}
    /\ b.review \in Review
    /\ b.findings \in [b.criteria -> Finding]
    /\ b.cited \subseteq Files
    /\ b.resolutions \subseteq Event
    /\ b.runtime \subseteq RuntimeEvidence
    /\ b.scope \in Seq(ScopeDecision)
    /\ b.gate \in Gates

\* Every variable holds a value of its type.
TypeOK ==
    /\ facts \in Facts
    /\ review \in Review
    /\ revision \in Revision
    /\ bundle # NoBundle => BundleOK(bundle)
    /\ DOMAIN history = 1..Len(history)
    /\ \A i \in DOMAIN history : BundleOK(history[i])
    /\ events \in Seq(Event)

\* Every state an operation returns is one the next operation, and the store,
\* accept.  revise_criteria does not check its own result: a state it left
\* invalid could never be loaded, revised or decided again.
Revalidates == ValidState

\* "Review complete" (README) is only shown after complete ingestion, passing
\* checks, a decision of this revision on every criterion, runtime evidence
\* behind every manual verification, every changed file accounted for and a
\* final acceptance that is still the reviewer's last word on this revision.
ReadyIsEarned ==
    ~Pending(bundle) /\ bundle.gate.verdict = "ready" =>
      /\ facts.ingestion = "complete" /\ ~facts.limited /\ facts.check = "passing"
      /\ revision.confirmed
      /\ FilesResolved(facts, bundle.cited, bundle.scope)
      /\ FinalAcceptance(events, revision.number)
      /\ \A c \in revision.criteria :
           \E e \in CurrentResolutions(events, revision.number) :
              /\ e.target = c
              /\ \/ e.decision = "accepted"
                 \/ /\ e.decision = "manually_verified"
                    /\ \E x \in bundle.runtime : x.id = e.runtime /\ x.criterion = c

\* While a final acceptance stands, no changed file is left unaccounted for.
\* Validation does not check this: it rests on the order of the operations.
AcceptanceCoversFiles ==
    review.final => FilesResolved(facts, bundle.cited, bundle.scope)

\* Each external verification rests on exactly one runtime record of its own
\* revision, and no two rest on the same one.
OneRecordPerVerification ==
    \A i \in DOMAIN events : events[i].decision = "manually_verified" =>
      /\ \A b \in BundleOf(events[i].revision) :
           \E x \in b.runtime : /\ {y \in b.runtime : y.id = events[i].runtime} = {x}
                                /\ x.criterion = events[i].target
                                /\ x.reviewer = events[i].reviewer
      /\ \A j \in DOMAIN events \ {i} :
           \/ events[j].revision # events[i].revision
           \/ events[j].runtime # events[i].runtime

\* Decisions never leak into another revision: before the reviewer decides
\* something about the active revision it is undecided and not accepted,
\* whatever was decided about the revisions before it.
RevisionStartsUndecided ==
    (\A i \in DOMAIN events : events[i].revision # revision.number) =>
      /\ ~review.final
      /\ ~Pending(bundle) => /\ bundle.resolutions = {}
                             /\ bundle.gate.verdict # "ready"

\* The audit trail only grows, and revising the criteria archives the analysis
\* they replace exactly as it stood.
AuditTrail ==
    [][/\ \E n \in 0..Len(history') : history = SubSeq(history', 1, n)
       /\ \E n \in 0..Len(events') : events = SubSeq(events', 1, n)
       /\ ~Pending(bundle) /\ revision' # revision =>
            history' = Append(history, bundle)]_vars

\* While the final acceptance stands, the manual verifications it was given
\* for are not replaced.
ManualVerificationStands ==
    [][review.final /\ review.final' =>
         \A e \in CurrentResolutions(events, revision.number) :
            e.decision = "manually_verified" =>
              e \in CurrentResolutions(events', revision'.number)]_vars

\* Only a recorded human decision completes a review: neither an analysis, nor
\* runtime evidence, nor a file scope decision turns the gate to ready.
OnlyDecisionsComplete ==
    [][~Pending(bundle') /\ bundle'.gate.verdict = "ready" =>
         \/ events' # events
         \/ ~Pending(bundle) /\ bundle.gate.verdict = "ready"]_vars

=============================================================================
