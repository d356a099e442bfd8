----------------------- MODULE ReviewLifecycleProofs -----------------------
(***************************************************************************)
(* Theorems about ReviewLifecycle, for every value of its constants.       *)
(***************************************************************************)
EXTENDS ReviewLifecycle, TLAPS

\* A gate decision is one of Gates, whatever it was asked.
LEMMA GateType ==
    ASSUME NEW rv, NEW f, NEW cs \in SUBSET Criteria, NEW fs, NEW rs,
           NEW cited, NEW scope
    PROVE  EvaluateGate(rv, f, cs, fs, rs, cited, scope) \in Gates
BY DEF EvaluateGate, Gates, Verdict, GateVerdict, Blocking, Conditional,
       Unresolved, Exceptions

\* What stands of a log are events of that log.
LEMMA CurrentType ==
    ASSUME NEW es \in Seq(Event), NEW n
    PROVE  CurrentResolutions(es, n) \subseteq Event
BY DEF CurrentResolutions, CurrentEvents

\* The bundle of a new analysis has the types of a bundle.
LEMMA FreshType ==
    ASSUME NEW n \in 1..MaxRevisions, NEW rv \in Review,
           NEW cs \in (SUBSET Criteria) \ {{}}, NEW f, NEW a \in AnalysisOf(cs, f)
    PROVE  BundleOK(FreshBundle(n, rv, cs, a))
<1>1. a.findings \in [cs -> Finding] /\ a.cited \subseteq Files
  <2>1. DerivableFindings(f) \subseteq Finding
    BY DEF DerivableFindings, Finding, FindingStatus
  <2> QED
    BY <2>1 DEF AnalysisOf
<1>2. EvaluateGate(rv, facts, cs, a.findings, {}, a.cited, << >>) \in Gates
  BY GateType
<1>3. << >> \in Seq(ScopeDecision)
  OBVIOUS
<1> QED
  BY <1>1, <1>2, <1>3 DEF BundleOK, FreshBundle

-----------------------------------------------------------------------------
(* Type correctness.                                                       *)

\* Types hold in the beginning; the lemmas below show that each operation keeps them.
LEMMA InitType == Init => TypeOK
<1> SUFFICES ASSUME Init PROVE TypeOK
  OBVIOUS
<1>1. PICK f \in AllFacts, cs \in (SUBSET Criteria) \ {{}} :
        LET prov == [criteria |-> cs, since |-> 1]
            rv == [confirmed |-> TRUE, final |-> FALSE, provenance |-> prov]
        IN  /\ facts = f
            /\ review = rv
            /\ revision = [number |-> 1, criteria |-> cs, confirmed |-> TRUE,
                           provenance |-> prov]
            /\ \E a \in AnalysisOf(cs, f) : bundle = FreshBundle(1, rv, cs, a)
            /\ history = << >>
            /\ events = << >>
  BY DEF Init
<1> DEFINE prov == [criteria |-> cs, since |-> 1]
           rv == [confirmed |-> TRUE, final |-> FALSE, provenance |-> prov]
<1>2. 1 \in 1..MaxRevisions
  BY LifecycleAssumption
<1>3. prov \in Provenance
  BY <1>2 DEF Provenance
<1>4. rv \in Review
  BY <1>3 DEF Review
<1>5. revision \in Revision
  BY <1>1, <1>2, <1>3 DEF Revision
<1>6. BundleOK(bundle)
  <2>1. PICK a \in AnalysisOf(cs, f) : bundle = FreshBundle(1, rv, cs, a)
    BY <1>1
  <2> QED
    BY <2>1, <1>2, <1>4, FreshType
<1>7. facts \in Facts
  BY <1>1, LifecycleAssumption
<1> QED
  BY <1>1, <1>4, <1>5, <1>6, <1>7 DEF TypeOK

\* An operation that records event e on bundle b keeps the types.
LEMMA RecordType ==
    ASSUME TypeOK, NEW b, BundleOK(b), b.criteria = bundle.criteria,
           NEW e \in Event, Record(b, e)
    PROVE  TypeOK'
<1> DEFINE es == Append(events, e)
           n == revision.number
           rv == [review EXCEPT !.final = FinalAcceptance(es, n)]
           c == [b EXCEPT !.review = rv, !.resolutions = CurrentResolutions(es, n)]
           r == Recalculated(b, es)
<1>1. es \in Seq(Event)
  BY DEF TypeOK
<1>2. CurrentResolutions(es, n) \subseteq Event
  BY <1>1, CurrentType
<1>3. rv \in Review
  BY DEF TypeOK, Review, FinalAcceptance
<1>4. BundleOK(c)
  BY <1>2, <1>3 DEF BundleOK
<1>5. c.criteria \in SUBSET Criteria
  BY <1>4 DEF BundleOK
<1>6. GateOf(rv, c) \in Gates
  BY <1>5, GateType DEF GateOf
<1>7. r = [c EXCEPT !.gate = GateOf(rv, c)]
  BY DEF Recalculated
<1>8. BundleOK(r) /\ r.review = rv
  BY <1>4, <1>6, <1>7 DEF BundleOK
<1> QED
  BY <1>1, <1>3, <1>8 DEF TypeOK, Record

LEMMA ReviseType ==
    ASSUME TypeOK, NEW cs \in SUBSET Criteria, ReviseCriteria(cs)
    PROVE  TypeOK'
<1> USE DEF ReviseCriteria, Draft
<1>1. revision' \in Revision
  BY LifecycleAssumption DEF TypeOK, Revision
<1>2. review' \in Review
  BY DEF Unconfirmed, Review
<1>3. /\ DOMAIN history' = 1..Len(history')
      /\ \A i \in DOMAIN history' : BundleOK(history'[i])
  <2>1. CASE Pending(bundle)
    BY <2>1 DEF TypeOK, Archived
  <2>2. CASE ~Pending(bundle)
    <3>1. history' = Append(history, bundle) /\ BundleOK(bundle)
      BY <2>2 DEF TypeOK, Archived, Pending
    <3> QED
      BY <3>1 DEF TypeOK
  <2> QED
    BY <2>1, <2>2
<1> QED
  BY <1>1, <1>2, <1>3 DEF TypeOK, BundleOK

LEMMA ConfirmType ==
    ASSUME TypeOK, NEW prov \in Provenance, ConfirmCriteria(prov)
    PROVE  TypeOK'
BY DEF TypeOK, ConfirmCriteria, Revision, Review, BundleOK

LEMMA AttachType ==
    ASSUME TypeOK, NEW f \in AllFacts, NEW prov \in Provenance,
           NEW a \in AnalysisOf(prov.criteria, f), AttachAnalysis(f, prov, a)
    PROVE  TypeOK'
<1> USE DEF AttachAnalysis
<1>1. /\ revision.number \in 1..MaxRevisions
      /\ revision.criteria \in (SUBSET Criteria) \ {{}}
      /\ review \in Review
  BY DEF TypeOK, Revision
<1>2. a \in AnalysisOf(revision.criteria, f)
  OBVIOUS
<1>3. BundleOK(bundle')
  BY <1>1, <1>2, FreshType
<1> QED
  BY <1>3 DEF TypeOK

LEMMA ScopeType ==
    ASSUME TypeOK, NEW d \in ScopeDecision, NEW n, NEW prov, NEW c,
           AppendFileScopeDecision(d, n, prov, c)
    PROVE  TypeOK'
<1> USE DEF AppendFileScopeDecision, ScopeDecided
<1> DEFINE b == [bundle EXCEPT !.scope = Append(bundle.scope, d)]
<1>1. BundleOK(bundle)
  BY DEF TypeOK, Pending
<1>2. BundleOK(b) /\ b.criteria \in SUBSET Criteria
  BY <1>1 DEF BundleOK
<1>3. GateOf(b.review, b) \in Gates
  BY <1>2, GateType DEF GateOf
<1>4. bundle' = [b EXCEPT !.gate = GateOf(b.review, b)]
  OBVIOUS
<1>5. BundleOK(bundle')
  BY <1>2, <1>3, <1>4 DEF BundleOK
<1> QED
  BY <1>5 DEF TypeOK

LEMMA DecisionType ==
    ASSUME TypeOK, NEW id \in EventIds, NEW c \in Criteria, NEW d \in Decisions,
           NEW commented \in BOOLEAN, NEW who \in Reviewers,
           AppendDecision(id, c, d, commented, who)
    PROVE  TypeOK'
<1> USE DEF AppendDecision
<1> DEFINE e == [id |-> id, revision |-> revision.number, target |-> c,
                 decision |-> d, commented |-> commented,
                 runtime |-> NoRuntime, reviewer |-> who]
<1>1. e \in Event
  BY LifecycleAssumption DEF Event, TypeOK, Revision
<1>2. BundleOK(bundle)
  BY DEF TypeOK, Pending
<1>3. Record(bundle, e)
  OBVIOUS
<1> QED
  BY <1>1, <1>2, <1>3, RecordType

LEMMA FinalType ==
    ASSUME TypeOK, NEW id \in EventIds, NEW accept \in BOOLEAN,
           NEW who \in Reviewers, AppendFinalAcceptance(id, accept, who)
    PROVE  TypeOK'
<1> USE DEF AppendFinalAcceptance
<1> DEFINE e == [id |-> id, revision |-> revision.number, target |-> Final,
                 decision |-> IF accept THEN "accept_review" ELSE "revoke_review",
                 commented |-> FALSE, runtime |-> NoRuntime, reviewer |-> who]
<1>1. e \in Event
  BY DEF Event, TypeOK, Revision
<1>2. BundleOK(bundle)
  BY DEF TypeOK, Pending
<1>3. Record(bundle, e)
  OBVIOUS
<1> QED
  BY <1>1, <1>2, <1>3, RecordType

LEMMA RuntimeType ==
    ASSUME TypeOK, NEW x \in RuntimeEvidence, AppendRuntimeEvidence(x)
    PROVE  TypeOK'
<1>1. BundleOK(bundle)
  BY DEF TypeOK, Pending, AppendRuntimeEvidence
<1>2. BundleOK(bundle')
  BY <1>1 DEF BundleOK, AppendRuntimeEvidence
<1> QED
  BY <1>2 DEF TypeOK, AppendRuntimeEvidence

LEMMA VerificationType ==
    ASSUME TypeOK, NEW x \in RuntimeEvidence, NEW id \in EventIds,
           NEW c \in Criteria, NEW who \in Reviewers,
           AppendExternalVerification(x, id, c, who)
    PROVE  TypeOK'
<1> USE DEF AppendExternalVerification
<1> DEFINE e == [id |-> id, revision |-> revision.number, target |-> c,
                 decision |-> "manually_verified", commented |-> TRUE,
                 runtime |-> x.id, reviewer |-> who]
           b == [bundle EXCEPT !.runtime = @ \union {x}]
<1>1. e \in Event
  BY DEF Event, TypeOK, Revision, RuntimeEvidence, HumanDecision
<1>2. BundleOK(bundle)
  BY DEF TypeOK, Pending
<1>3. BundleOK(b) /\ b.criteria = bundle.criteria
  BY <1>2 DEF BundleOK
<1>4. Record(b, e)
  OBVIOUS
<1> QED
  BY <1>1, <1>3, <1>4, RecordType

\* TypeCorrect: every operation keeps every variable in its type.
THEOREM TypeCorrect == Spec => []TypeOK
<1>1. TypeOK /\ [Next]_vars => TypeOK'
  <2> SUFFICES ASSUME TypeOK, [Next]_vars PROVE TypeOK'
    OBVIOUS
  <2>1. CASE Operation
    <3> USE <2>1
    <3>1. CASE \E cs \in SUBSET Criteria : ReviseCriteria(cs)
      BY <3>1, ReviseType
    <3>2. CASE \E prov \in Provenance : ConfirmCriteria(prov)
      BY <3>2, ConfirmType
    <3>3. CASE \E f \in AllFacts, prov \in Provenance :
                 \E a \in AnalysisOf(prov.criteria, f) : AttachAnalysis(f, prov, a)
      BY <3>3, AttachType
    <3>4. CASE \E d \in NewScopeDecisions, n \in 1..MaxRevisions,
                  prov \in Provenance, c \in Criteria :
                 AppendFileScopeDecision(d, n, prov, c)
      BY <3>4, ScopeType DEF NewScopeDecisions
    <3>5. CASE \E id \in NewEventIds, c \in Criteria, d \in Decisions,
                  who \in Reviewers : \E commented \in Comments(d) :
                 AppendDecision(id, c, d, commented, who)
      BY <3>5, DecisionType DEF NewEventIds, Comments
    <3>6. CASE \E id \in NewEventIds, accept \in BOOLEAN, who \in Reviewers :
                 AppendFinalAcceptance(id, accept, who)
      BY <3>6, FinalType DEF NewEventIds
    <3>7. CASE \E x \in NewRuntimeEvidence : AppendRuntimeEvidence(x)
      BY <3>7, RuntimeType DEF NewRuntimeEvidence
    <3>8. CASE \E x \in NewRuntimeEvidence, id \in NewEventIds, c \in Criteria,
                  who \in Reviewers : AppendExternalVerification(x, id, c, who)
      BY <3>8, VerificationType DEF NewRuntimeEvidence, NewEventIds
    <3> QED
      BY <2>1, <3>1, <3>2, <3>3, <3>4, <3>5, <3>6, <3>7, <3>8 DEF Operation
  <2>2. CASE UNCHANGED vars
    BY <2>2 DEF vars, TypeOK, BundleOK
  <2> QED
    BY <2>1, <2>2 DEF Next
<1> QED
  BY InitType, <1>1, PTL DEF Spec

-----------------------------------------------------------------------------
(* Revalidation: no operation leaves a state the next one would reject.    *)

\* A revision without events has neither decisions nor an acceptance.
LEMMA NoEvents ==
    ASSUME NEW es, NEW n, \A i \in DOMAIN es : es[i].revision # n
    PROVE  CurrentResolutions(es, n) = {} /\ FinalAcceptance(es, n) = FALSE
BY DEF CurrentResolutions, FinalAcceptance, CurrentEvents

\* The bundle of a new analysis carries the gate it would be given, and no decisions.
LEMMA FreshGate ==
    ASSUME NEW n, NEW rv, NEW cs, NEW a
    PROVE  LET b == FreshBundle(n, rv, cs, a)
           IN  /\ b.gate = GateOf(rv, b) /\ b.review = rv /\ b.number = n
               /\ b.criteria = cs /\ b.findings = a.findings
               /\ b.resolutions = {} /\ b.runtime = {} /\ b.scope = << >>
BY DEF FreshBundle, GateOf

\* The first bundle passes validation.
LEMMA InitValid == Init => ValidState
<1> SUFFICES ASSUME Init PROVE ValidState
  OBVIOUS
<1>1. PICK f \in AllFacts, cs \in (SUBSET Criteria) \ {{}} :
        LET prov == [criteria |-> cs, since |-> 1]
            rv == [confirmed |-> TRUE, final |-> FALSE, provenance |-> prov]
        IN  /\ facts = f
            /\ review = rv
            /\ revision = [number |-> 1, criteria |-> cs, confirmed |-> TRUE,
                           provenance |-> prov]
            /\ \E a \in AnalysisOf(cs, f) : bundle = FreshBundle(1, rv, cs, a)
            /\ history = << >>
            /\ events = << >>
  BY DEF Init
<1> DEFINE prov == [criteria |-> cs, since |-> 1]
           rv == [confirmed |-> TRUE, final |-> FALSE, provenance |-> prov]
<1>2. PICK a \in AnalysisOf(cs, f) : bundle = FreshBundle(1, rv, cs, a)
  BY <1>1
<1>3. /\ bundle.gate = GateOf(rv, bundle) /\ bundle.review = rv
      /\ bundle.number = 1 /\ bundle.criteria = cs
      /\ bundle.findings = a.findings /\ bundle.resolutions = {}
      /\ bundle.runtime = {} /\ bundle.scope = << >>
  BY <1>2, FreshGate
<1>4. DOMAIN a.findings = cs
  BY DEF AnalysisOf
<1>5. /\ review = rv /\ history = << >> /\ events = << >>
      /\ revision.number = 1 /\ revision.criteria = cs
      /\ revision.confirmed = TRUE /\ revision.provenance = prov
      /\ review.confirmed = TRUE /\ review.provenance = prov
      /\ review.final = FALSE /\ bundle.review = review /\ prov.criteria = cs
  BY <1>1, <1>3
<1> HIDE DEF prov, rv
<1>6. \A i \in DOMAIN events : events[i].revision # 1
  BY <1>5
<1>7. CurrentResolutions(events, 1) = {} /\ FinalAcceptance(events, 1) = FALSE
  BY <1>6, NoEvents
<1>8. Consistent
  <2>1. CrossReferenced(bundle)
    BY <1>3, <1>4, <1>5 DEF CrossReferenced
  <2>2. DOMAIN events = {} /\ DOMAIN history = {}
    BY <1>5
  <2>3. review.confirmed = revision.confirmed /\ review.provenance = revision.provenance
    BY <1>5
  <2>4. revision.confirmed /\ revision.provenance.criteria = revision.criteria
    BY <1>5
  <2>5. /\ bundle.review = review /\ bundle.number = revision.number
        /\ bundle.criteria = revision.criteria
    BY <1>3, <1>5
  <2> QED
    BY <2>1, <2>2, <2>3, <2>4, <2>5 DEF Consistent
<1>9. Derived(bundle)
  <2>1. bundle.gate = GateOf(bundle.review, bundle)
    BY <1>3
  <2>2. EvidenceIntegrity(bundle)
    BY <1>3, <1>5 DEF EvidenceIntegrity
  <2> QED
    BY <2>1, <2>2, <1>3, <1>5, <1>7 DEF Derived
<1>10. review.final = FinalAcceptance(events, revision.number)
  BY <1>5, <1>7
<1>11. DOMAIN events = {} /\ Range(history) = {}
  BY <1>5 DEF Range
<1> QED
  BY <1>6, <1>8, <1>9, <1>10, <1>11 DEF ValidState, EventHistoryIntegrity

\* The one operation that returns its result unchecked: archiving the active bundle
\* leaves every event replayable and none of the new revision.
LEMMA ReviseValid ==
    ASSUME TypeOK, ValidState, NEW cs \in SUBSET Criteria, ReviseCriteria(cs)
    PROVE  ValidState'
<1> USE DEF ReviseCriteria, Draft
<1>1. /\ revision.number \in Nat
      /\ revision'.number = revision.number + 1
      /\ events' = events /\ facts' = facts /\ bundle' = NoBundle
  BY LifecycleAssumption DEF TypeOK, Revision
<1>2. \A i \in DOMAIN events : events[i].revision \in 1..revision.number
  BY DEF ValidState, Consistent
<1>3. \A i \in DOMAIN history' :
        \/ i \in DOMAIN history /\ history'[i] = history[i]
        \/ /\ i = Len(history) + 1
           /\ ~Pending(bundle)
           /\ history'[i] = bundle
  BY DEF Archived, TypeOK
<1>4. \A i \in DOMAIN history : i \in DOMAIN history' /\ history'[i] = history[i]
  BY DEF Archived, TypeOK
<1>5. ~Pending(bundle) =>
        /\ Len(history) + 1 \in DOMAIN history'
        /\ history'[Len(history) + 1] = bundle
  BY DEF Archived, TypeOK
<1>6. ~Pending(bundle) =>
        /\ bundle.number = revision.number
        /\ CrossReferenced(bundle)
        /\ Derived(bundle)
  BY DEF ValidState, Consistent, Pending
<1>7. Consistent'
  <2>1. \A i \in DOMAIN history' :
          /\ history'[i].number < revision'.number
          /\ \A j \in DOMAIN history' : i < j => history'[i].number < history'[j].number
          /\ CrossReferenced(history'[i])
    <3> SUFFICES ASSUME NEW i \in DOMAIN history'
                 PROVE /\ history'[i].number < revision'.number
                       /\ \A j \in DOMAIN history' :
                            i < j => history'[i].number < history'[j].number
                       /\ CrossReferenced(history'[i])
      OBVIOUS
    <3>1. \A k \in DOMAIN history : /\ history[k].number \in Nat
                                    /\ history[k].number < revision.number
                                    /\ CrossReferenced(history[k])
      BY DEF ValidState, Consistent, TypeOK, BundleOK
    <3>2. CASE i \in DOMAIN history /\ history'[i] = history[i]
      <4>1. \A j \in DOMAIN history : i < j => history[i].number < history[j].number
        BY <3>2 DEF ValidState, Consistent
      <4> QED
        BY <3>1, <3>2, <4>1, <1>1, <1>3, <1>6
    <3>3. CASE i = Len(history) + 1 /\ ~Pending(bundle) /\ history'[i] = bundle
      BY <3>3, <1>1, <1>3, <1>6 DEF TypeOK
    <3> QED
      BY <3>2, <3>3, <1>3
  <2>2. /\ review'.confirmed = revision'.confirmed
        /\ review'.provenance = revision'.provenance
        /\ revision'.provenance = NoProvenance
    BY DEF Unconfirmed
  <2>3. \A i, j \in DOMAIN events : events[i].id = events[j].id => i = j
    BY DEF ValidState, Consistent
  <2> QED
    BY <2>1, <2>2, <2>3, <1>1, <1>2 DEF Consistent, CrossReferenced
<1>8. \A b \in Range(history') : Derived(b)'
  <2>1. \A b \in Range(history') : Derived(b)
    BY <1>3, <1>6 DEF Range, ValidState
  <2> QED
    BY <2>1, <1>1 DEF Derived, GateOf, EvidenceIntegrity, AllowsFinalAcceptance
<1>9. \A i \in DOMAIN events : events[i].revision # revision'.number
  BY <1>1, <1>2
<1>10. review'.final = FinalAcceptance(events', revision'.number)
  <2>1. FinalAcceptance(events, revision'.number) = FALSE
    BY <1>9, NoEvents
  <2> QED
    BY <2>1, <1>1 DEF Unconfirmed
<1>11. EventHistoryIntegrity'
  <2> SUFFICES ASSUME NEW i \in DOMAIN events
               PROVE  \E b \in BundleOf(events[i].revision)' : Replayable(b, events, i)'
    BY <1>1 DEF EventHistoryIntegrity
  <2>1. PICK b \in BundleOf(events[i].revision) : Replayable(b, events, i)
    BY DEF ValidState, EventHistoryIntegrity
  <2>2. b \in Range(history') /\ b.number = events[i].revision
    BY <2>1, <1>4, <1>5 DEF BundleOf, Range, Pending
  <2>3. b \in BundleOf(events[i].revision)'
    BY <2>2, <1>1 DEF BundleOf
  <2>4. Replayable(b, events, i)'
    BY <2>1, <1>1 DEF Replayable, AllowsFinalAcceptance
  <2> QED
    BY <2>3, <2>4
<1> QED
  BY <1>1, <1>7, <1>8, <1>9, <1>10, <1>11 DEF ValidState

\* Revalidation: no reachable state is one that validation would refuse, so a
\* criteria revision, which is returned unchecked, never strands the review.
THEOREM Revalidation == Spec => []Revalidates
<1>1. TypeOK /\ ValidState /\ [Next]_vars => ValidState'
  <2> SUFFICES ASSUME TypeOK, ValidState, [Next]_vars PROVE ValidState'
    OBVIOUS
  <2>1. CASE \E cs \in SUBSET Criteria : ReviseCriteria(cs)
    BY <2>1, ReviseValid
  <2>2. CASE Operation /\ ~\E cs \in SUBSET Criteria : ReviseCriteria(cs)
    BY <2>2 DEF Operation, ConfirmCriteria, AttachAnalysis,
         AppendFileScopeDecision, ScopeDecided, AppendDecision,
         AppendFinalAcceptance, AppendRuntimeEvidence, AppendExternalVerification
  <2>3. CASE UNCHANGED vars
    BY <2>3 DEF vars, ValidState, Consistent, CrossReferenced, Derived, GateOf,
         EvidenceIntegrity, AllowsFinalAcceptance, EventHistoryIntegrity,
         BundleOf, Replayable
  <2> QED
    BY <2>1, <2>2, <2>3 DEF Next
<1> QED
  BY InitValid, TypeCorrect, <1>1, PTL DEF Spec, Revalidates

-----------------------------------------------------------------------------
(* What a ready verdict stands for.                                        *)

\* A criterion settled by neither an exception nor an unlinked verification.
LEMMA SettledByEvidence ==
    ASSUME NEW b, NEW c \in b.criteria, EvidenceIntegrity(b), b.review.final,
           ~Qualified(b.criteria, b.findings, b.resolutions),
           Unresolved(b.criteria, b.findings, b.resolutions) = {}
    PROVE  \E e \in b.resolutions :
              /\ e.target = c
              /\ \/ e.decision = "accepted"
                 \/ /\ e.decision = "manually_verified"
                    /\ \E x \in b.runtime : x.id = e.runtime /\ x.criterion = c
<1>1. PICK e \in b.resolutions : e.target = c /\ e.decision \in ResolvedDecisions
  BY DEF EvidenceIntegrity, AllResolved, DecidedAs
<1>2. e.decision \notin {"accepted_exception", "not_in_scope"}
  BY <1>1 DEF Qualified, Exceptions, DecidedAs
<1>3. e.decision = "manually_verified" => e.runtime # NoRuntime
  BY <1>1 DEF Unresolved, Unlinked
<1>4. Paired(e, b)
  BY DEF EvidenceIntegrity
<1> QED
  BY <1>1, <1>2, <1>3, <1>4 DEF ResolvedDecisions, Paired

\* ReadyEarned: the final acceptance and the complete evidence behind it are
\* there whenever the gate says ready.
THEOREM ReadyEarned == Spec => []ReadyIsEarned
<1>1. ValidState => ReadyIsEarned
  <2> SUFFICES ASSUME ValidState, ~Pending(bundle), bundle.gate.verdict = "ready"
               PROVE  ReadyIsEarned
    BY DEF ReadyIsEarned
  <2>1. /\ bundle.review = review
        /\ bundle.number = revision.number
        /\ bundle.criteria = revision.criteria
        /\ revision.confirmed
    BY DEF ValidState, Consistent, Pending
  <2>2. /\ bundle.gate = GateOf(bundle.review, bundle)
        /\ bundle.resolutions = CurrentResolutions(events, revision.number)
        /\ bundle.review.final = FinalAcceptance(events, revision.number)
        /\ EvidenceIntegrity(bundle)
    BY <2>1 DEF ValidState, Derived, Pending
  <2>3. "ready" = Verdict(bundle.review, facts, bundle.criteria, bundle.findings,
                          bundle.resolutions, bundle.cited, bundle.scope)
    BY <2>2 DEF GateOf, EvaluateGate
  <2>4. /\ ~Blocked(facts, bundle.criteria, bundle.findings, bundle.resolutions)
        /\ ~Incomplete(bundle.review, facts, bundle.criteria, bundle.findings,
                       bundle.resolutions, bundle.cited, bundle.scope)
        /\ ~Qualified(bundle.criteria, bundle.findings, bundle.resolutions)
        /\ bundle.review.final
    BY <2>3 DEF Verdict
  <2>5. /\ facts.ingestion = "complete" /\ ~facts.limited
        /\ FilesResolved(facts, bundle.cited, bundle.scope)
        /\ Unresolved(bundle.criteria, bundle.findings, bundle.resolutions) = {}
    BY <2>4 DEF Incomplete
  <2>6. facts.check = "passing"
    BY <2>2, <2>4 DEF EvidenceIntegrity, AllowsFinalAcceptance
  <2>7. \A c \in revision.criteria :
          \E e \in CurrentResolutions(events, revision.number) :
             /\ e.target = c
             /\ \/ e.decision = "accepted"
                \/ /\ e.decision = "manually_verified"
                   /\ \E x \in bundle.runtime : x.id = e.runtime /\ x.criterion = c
    BY <2>1, <2>2, <2>4, <2>5, SettledByEvidence
  <2> QED
    BY <2>1, <2>2, <2>4, <2>5, <2>6, <2>7 DEF ReadyIsEarned
<1> QED
  BY <1>1, Revalidation, PTL DEF Revalidates

-----------------------------------------------------------------------------
(* The changed files under a standing final acceptance.                    *)

\* The position of an event in the log after another one is appended.
LEMMA CurrentAfterAppend ==
    ASSUME NEW es \in Seq(Event), NEW e \in Event, NEW x
    PROVE  x \in CurrentEvents(Append(es, e), e.revision) <=>
             \/ x = e
             \/ x \in CurrentEvents(es, e.revision) /\ x.target # e.target
<1> DEFINE fs == Append(es, e)
           last == Len(es) + 1
<1>1. /\ DOMAIN fs = DOMAIN es \union {last} /\ fs[last] = e
      /\ \A i \in DOMAIN es : fs[i] = es[i] /\ i \in Nat /\ i < last
  OBVIOUS
<1>2. last \in Nat /\ \A i \in DOMAIN fs : i \in Nat /\ ~(i > last)
  BY <1>1
<1> HIDE DEF fs, last
<1>3. e \in CurrentEvents(fs, e.revision)
  BY <1>1, <1>2 DEF CurrentEvents
<1>4. ASSUME x \in CurrentEvents(es, e.revision), x.target # e.target
      PROVE  x \in CurrentEvents(fs, e.revision)
  <2>1. PICK k \in DOMAIN es :
          /\ x = es[k] /\ es[k].revision = e.revision
          /\ \A j \in DOMAIN es : j > k => ~SameTarget(es[k], es[j])
    BY <1>4 DEF CurrentEvents
  <2>2. k \in DOMAIN fs /\ fs[k] = x
    BY <1>1, <2>1
  <2>3. \A j \in DOMAIN fs : j > k => ~SameTarget(fs[k], fs[j])
    BY <1>1, <1>4, <2>1, <2>2 DEF SameTarget
  <2> QED
    BY <2>1, <2>2, <2>3 DEF CurrentEvents
<1>5. ASSUME x \in CurrentEvents(fs, e.revision), x # e
      PROVE  x \in CurrentEvents(es, e.revision) /\ x.target # e.target
  <2>1. PICK k \in DOMAIN fs :
          /\ x = fs[k] /\ fs[k].revision = e.revision
          /\ \A j \in DOMAIN fs : j > k => ~SameTarget(fs[k], fs[j])
    BY <1>5 DEF CurrentEvents
  <2>2. k \in DOMAIN es /\ es[k] = x /\ last > k
    BY <1>1, <1>5, <2>1
  <2>3. x.target # e.target
    BY <1>1, <2>1, <2>2 DEF SameTarget
  <2> QED
    BY <1>1, <2>1, <2>2, <2>3 DEF CurrentEvents
<1> QED
  BY <1>3, <1>4, <1>5 DEF fs

\* A criterion decision leaves the final acceptance as it was.
LEMMA DecisionKeepsFinal ==
    ASSUME NEW es \in Seq(Event), NEW e \in Event, e.target # Final
    PROVE  FinalAcceptance(Append(es, e), e.revision) = FinalAcceptance(es, e.revision)
BY CurrentAfterAppend DEF FinalAcceptance

\* A final event decides the final acceptance.
LEMMA FinalEventDecides ==
    ASSUME NEW es \in Seq(Event), NEW e \in Event, e.target = Final
    PROVE  FinalAcceptance(Append(es, e), e.revision) = (e.decision = "accept_review")
BY CurrentAfterAppend DEF FinalAcceptance

\* No final acceptance stands on a pending revision.
LEMMA PendingUnaccepted ==
    ASSUME ValidState, Pending(bundle)
    PROVE  ~review.final
<1>1. \A i \in DOMAIN events : events[i].revision # revision.number
  BY DEF ValidState, Pending
<1>2. FinalAcceptance(events, revision.number) = FALSE
  BY <1>1, NoEvents
<1> QED
  BY <1>2 DEF ValidState

\* Recording a criterion decision keeps the changed files accounted for.
LEMMA DecisionKeepsCoverage ==
    ASSUME TypeOK, ValidState, AcceptanceCoversFiles, NEW b, NEW e \in Event,
           b.cited = bundle.cited, b.scope = bundle.scope, BundleOK(b),
           e.revision = revision.number, e.target # Final, Record(b, e)
    PROVE  AcceptanceCoversFiles'
<1>1. review'.final = FinalAcceptance(Append(events, e), revision.number)
  BY DEF Record, Recalculated, TypeOK, Review, BundleOK
<1>2. FinalAcceptance(Append(events, e), revision.number) = review.final
  BY DecisionKeepsFinal DEF TypeOK, ValidState
<1>3. bundle'.cited = bundle.cited /\ bundle'.scope = bundle.scope /\ facts' = facts
  BY DEF Record, Recalculated, BundleOK
<1> QED
  BY <1>1, <1>2, <1>3 DEF AcceptanceCoversFiles

\* AcceptanceCovers: a file scope decision never undoes, under a standing final
\* acceptance, the accounting for changed files it was given for.
THEOREM AcceptanceCovers == Spec => []AcceptanceCoversFiles
<1>1. Init => AcceptanceCoversFiles
  BY DEF Init, AcceptanceCoversFiles
<1>2. TypeOK /\ ValidState /\ AcceptanceCoversFiles /\ [Next]_vars
        => AcceptanceCoversFiles'
  <2> SUFFICES ASSUME TypeOK, ValidState, AcceptanceCoversFiles, [Next]_vars
               PROVE  AcceptanceCoversFiles'
    OBVIOUS
  <2>1. ASSUME NEW cs, ReviseCriteria(cs) PROVE AcceptanceCoversFiles'
    BY <2>1 DEF ReviseCriteria, Draft, Unconfirmed, AcceptanceCoversFiles
  <2>2. ASSUME NEW prov, ConfirmCriteria(prov) PROVE AcceptanceCoversFiles'
    BY <2>2 DEF ConfirmCriteria, AcceptanceCoversFiles
  <2>3. ASSUME NEW f, NEW prov, NEW a, AttachAnalysis(f, prov, a)
        PROVE  AcceptanceCoversFiles'
    BY <2>3, PendingUnaccepted DEF AttachAnalysis, AcceptanceCoversFiles
  <2>4. ASSUME NEW d, NEW n, NEW prov, NEW c, AppendFileScopeDecision(d, n, prov, c)
        PROVE  AcceptanceCoversFiles'
    BY <2>4 DEF AppendFileScopeDecision, ScopeDecided, AcceptanceCoversFiles
  <2>5. ASSUME NEW id \in EventIds, NEW c \in Criteria, NEW d \in Decisions,
               NEW commented \in BOOLEAN, NEW who \in Reviewers,
               AppendDecision(id, c, d, commented, who)
        PROVE  AcceptanceCoversFiles'
    <3> DEFINE e == [id |-> id, revision |-> revision.number, target |-> c,
                     decision |-> d, commented |-> commented,
                     runtime |-> NoRuntime, reviewer |-> who]
    <3>1. e \in Event /\ e.revision = revision.number /\ e.target # Final
      BY LifecycleAssumption DEF Event, TypeOK, Revision
    <3>2. BundleOK(bundle) /\ Record(bundle, e)
      BY <2>5 DEF TypeOK, Pending, AppendDecision
    <3> QED
      BY <3>1, <3>2, DecisionKeepsCoverage
  <2>6. ASSUME NEW id \in EventIds, NEW accept \in BOOLEAN, NEW who \in Reviewers,
               AppendFinalAcceptance(id, accept, who)
        PROVE  AcceptanceCoversFiles'
    <3> DEFINE e == [id |-> id, revision |-> revision.number, target |-> Final,
                     decision |-> IF accept THEN "accept_review"
                                            ELSE "revoke_review",
                     commented |-> FALSE, runtime |-> NoRuntime, reviewer |-> who]
    <3>1. e \in Event
      BY DEF Event, TypeOK, Revision
    <3>2. BundleOK(bundle) /\ Record(bundle, e)
      BY <2>6 DEF TypeOK, Pending, AppendFinalAcceptance
    <3>3. review'.final = FinalAcceptance(Append(events, e), e.revision)
      BY <3>2 DEF Record, Recalculated, TypeOK, Review, BundleOK
    <3>4. review'.final = accept
      BY <3>1, <3>3, FinalEventDecides DEF TypeOK
    <3>5. accept => FilesResolved(facts, bundle.cited, bundle.scope)
      BY <2>6 DEF AppendFinalAcceptance, CanRecordFinalAcceptance
    <3>6. bundle'.cited = bundle.cited /\ bundle'.scope = bundle.scope /\ facts' = facts
      BY <3>2 DEF Record, Recalculated, BundleOK
    <3> QED
      BY <3>4, <3>5, <3>6 DEF AcceptanceCoversFiles
  <2>7. ASSUME NEW x, AppendRuntimeEvidence(x) PROVE AcceptanceCoversFiles'
    BY <2>7 DEF AppendRuntimeEvidence, AcceptanceCoversFiles, TypeOK, BundleOK
  <2>8. ASSUME NEW x \in RuntimeEvidence, NEW id \in EventIds, NEW c \in Criteria,
               NEW who \in Reviewers, AppendExternalVerification(x, id, c, who)
        PROVE  AcceptanceCoversFiles'
    <3> DEFINE e == [id |-> id, revision |-> revision.number, target |-> c,
                     decision |-> "manually_verified", commented |-> TRUE,
                     runtime |-> x.id, reviewer |-> who]
               b == [bundle EXCEPT !.runtime = @ \union {x}]
    <3>1. e \in Event /\ e.revision = revision.number /\ e.target # Final
      BY LifecycleAssumption
         DEF Event, TypeOK, Revision, RuntimeEvidence, HumanDecision
    <3>2. BundleOK(bundle)
      BY <2>8 DEF TypeOK, Pending, AppendExternalVerification
    <3>3. BundleOK(b) /\ b.cited = bundle.cited /\ b.scope = bundle.scope
      BY <3>2 DEF BundleOK
    <3>4. Record(b, e)
      BY <2>8 DEF AppendExternalVerification
    <3> QED
      BY <3>1, <3>3, <3>4, DecisionKeepsCoverage
  <2>9. CASE UNCHANGED vars
    BY <2>9 DEF vars, AcceptanceCoversFiles
  <2> QED
    BY <2>1, <2>2, <2>3, <2>4, <2>5, <2>6, <2>7, <2>8, <2>9
       DEF Next, Operation, NewScopeDecisions, NewEventIds, NewRuntimeEvidence, Comments
<1> QED
  BY <1>1, <1>2, TypeCorrect, Revalidation, PTL DEF Spec, Revalidates

-----------------------------------------------------------------------------
(* Decisions belong to one revision and to one record of evidence.         *)

\* RevisionStartsUndecided: whatever was decided about the revisions before
\* it, the active revision is undecided until an event of its own.
THEOREM StartsUndecided == Spec => []RevisionStartsUndecided
<1>1. ValidState /\ ReadyIsEarned => RevisionStartsUndecided
  <2> SUFFICES ASSUME ValidState, ReadyIsEarned,
                      \A i \in DOMAIN events : events[i].revision # revision.number
               PROVE  /\ ~review.final
                      /\ ~Pending(bundle) => /\ bundle.resolutions = {}
                                             /\ bundle.gate.verdict # "ready"
    BY DEF RevisionStartsUndecided
  <2>1. /\ CurrentResolutions(events, revision.number) = {}
        /\ FinalAcceptance(events, revision.number) = FALSE
    BY NoEvents
  <2>2. ~review.final
    BY <2>1 DEF ValidState
  <2>3. ~Pending(bundle) => bundle.resolutions = {}
    BY <2>1 DEF ValidState, Consistent, Derived, Pending
  <2>4. ~Pending(bundle) => bundle.gate.verdict # "ready"
    BY <2>1 DEF ReadyIsEarned
  <2> QED
    BY <2>2, <2>3, <2>4
<1> QED
  BY <1>1, Revalidation, ReadyEarned, PTL DEF Revalidates

\* The link between events and runtime evidence: a manual verification names a
\* criterion and a runtime record, no other event names one, and of one
\* revision no two events name the same.  Validation alone would let a
\* verification through that names none, as records from before the link do.
Linked ==
    \A i \in DOMAIN events :
      /\ IF events[i].decision = "manually_verified"
         THEN events[i].target # Final /\ events[i].runtime \in RuntimeIds
         ELSE events[i].runtime = NoRuntime
      /\ events[i].decision = "manually_verified" =>
           \A j \in DOMAIN events \ {i} :
             \/ events[j].revision # events[i].revision
             \/ events[j].runtime # events[i].runtime

\* The analysis of a revision is the only one of its number.
LEMMA OneBundle ==
    ASSUME TypeOK, ValidState, NEW n, NEW b \in BundleOf(n), NEW c \in BundleOf(n)
    PROVE  b = c
<1>1. CASE bundle # NoBundle /\ bundle.number = n
  BY <1>1 DEF BundleOf
<1>2. CASE ~(bundle # NoBundle /\ bundle.number = n)
  <2>1. PICK i \in DOMAIN history, j \in DOMAIN history :
          /\ b = history[i] /\ c = history[j]
          /\ history[i].number = n /\ history[j].number = n
    BY <1>2 DEF BundleOf, Range
  <2>2. n \in Nat /\ i \in Nat /\ j \in Nat
    BY <2>1 DEF TypeOK, BundleOK
  <2>3. ~(i < j) /\ ~(j < i)
    BY <2>1, <2>2 DEF ValidState, Consistent
  <2> QED
    BY <2>1, <2>2, <2>3
<1> QED
  BY <1>1, <1>2

\* Every manual verification has its record in the analysis of its revision.
LEMMA RecordOfVerification ==
    ASSUME TypeOK, ValidState, Linked, NEW i \in DOMAIN events,
           events[i].decision = "manually_verified",
           NEW b \in BundleOf(events[i].revision)
    PROVE  \E x \in b.runtime : /\ {y \in b.runtime : y.id = events[i].runtime} = {x}
                                /\ x.criterion = events[i].target
                                /\ x.reviewer = events[i].reviewer
<1>1. PICK c \in BundleOf(events[i].revision) : Replayable(c, events, i)
  BY DEF ValidState, EventHistoryIntegrity
<1>2. b = c
  BY <1>1, OneBundle
<1>3. events[i].target # Final /\ events[i].runtime # NoRuntime
  BY LifecycleAssumption DEF Linked
<1>4. PICK x \in b.runtime : /\ x.id = events[i].runtime
                             /\ x.criterion = events[i].target
                             /\ x.reviewer = events[i].reviewer
  BY <1>1, <1>2, <1>3 DEF Replayable, Paired
<1>5. CrossReferenced(b)
  BY DEF BundleOf, Range, ValidState, Consistent
<1>6. {y \in b.runtime : y.id = events[i].runtime} = {x}
  BY <1>4, <1>5 DEF CrossReferenced
<1> QED
  BY <1>4, <1>6

\* An event that names no record keeps the link.
LEMMA UnlinkedEventKeeps ==
    ASSUME TypeOK, Linked, NEW e \in Event, events' = Append(events, e),
           e.decision # "manually_verified", e.runtime = NoRuntime
    PROVE  Linked'
<1> DEFINE last == Len(events) + 1
<1>1. /\ DOMAIN events' = DOMAIN events \union {last} /\ events'[last] = e
      /\ last \notin DOMAIN events
      /\ \A i \in DOMAIN events : events'[i] = events[i]
  BY DEF TypeOK
<1>2. NoRuntime \notin RuntimeIds
  BY LifecycleAssumption
<1> HIDE DEF last
<1> QED
  BY <1>1, <1>2 DEF Linked

\* A verification with a record the active analysis does not have yet.
LEMMA VerificationKeepsLink ==
    ASSUME TypeOK, ValidState, Linked, ~Pending(bundle),
           NEW x \in RuntimeEvidence, NewRuntimeId(x.id),
           NEW e \in Event, events' = Append(events, e), e.target # Final,
           e.decision = "manually_verified", e.runtime = x.id,
           e.revision = revision.number
    PROVE  Linked'
<1> DEFINE last == Len(events) + 1
<1>1. /\ DOMAIN events' = DOMAIN events \union {last} /\ events'[last] = e
      /\ last \notin DOMAIN events
      /\ \A i \in DOMAIN events : events'[i] = events[i]
  BY DEF TypeOK
<1>2. NoRuntime \notin RuntimeIds /\ x.id \in RuntimeIds
  BY LifecycleAssumption DEF RuntimeEvidence
<1>3. ASSUME NEW i \in DOMAIN events, events[i].revision = revision.number
      PROVE  events[i].runtime # x.id
  <2>1. CASE events[i].decision = "manually_verified"
    <3>1. bundle \in BundleOf(events[i].revision)
      BY <1>3 DEF BundleOf, Pending, ValidState, Consistent
    <3>2. \E y \in bundle.runtime : y.id = events[i].runtime
      BY <2>1, <3>1, RecordOfVerification
    <3> QED
      BY <3>2 DEF NewRuntimeId
  <2>2. CASE events[i].decision # "manually_verified"
    BY <2>2, <1>2 DEF Linked
  <2> QED
    BY <2>1, <2>2
<1> HIDE DEF last
<1> QED
  BY <1>1, <1>2, <1>3 DEF Linked

\* Every verification keeps a runtime record of its own.
LEMMA LinkInvariant == Spec => []Linked
<1>1. Init => Linked
  BY DEF Init, Linked
<1>2. TypeOK /\ ValidState /\ Linked /\ [Next]_vars => Linked'
  <2> SUFFICES ASSUME TypeOK, ValidState, Linked, [Next]_vars PROVE Linked'
    OBVIOUS
  <2>1. CASE events' = events
    BY <2>1 DEF Linked
  <2>2. ASSUME NEW id \in EventIds, NEW c \in Criteria, NEW d \in Decisions,
               NEW commented \in BOOLEAN, NEW who \in Reviewers,
               AppendDecision(id, c, d, commented, who)
        PROVE  Linked'
    <3> DEFINE e == [id |-> id, revision |-> revision.number, target |-> c,
                     decision |-> d, commented |-> commented,
                     runtime |-> NoRuntime, reviewer |-> who]
    <3>1. e \in Event
      BY LifecycleAssumption DEF Event, TypeOK, Revision
    <3>2. events' = Append(events, e) /\ d # "manually_verified"
      BY <2>2 DEF AppendDecision, Record
    <3> QED
      BY <3>1, <3>2, UnlinkedEventKeeps
  <2>3. ASSUME NEW id \in EventIds, NEW accept \in BOOLEAN, NEW who \in Reviewers,
               AppendFinalAcceptance(id, accept, who)
        PROVE  Linked'
    <3> DEFINE e == [id |-> id, revision |-> revision.number, target |-> Final,
                     decision |-> IF accept THEN "accept_review"
                                            ELSE "revoke_review",
                     commented |-> FALSE, runtime |-> NoRuntime, reviewer |-> who]
    <3>1. e \in Event
      BY DEF Event, TypeOK, Revision
    <3>2. events' = Append(events, e)
      BY <2>3 DEF AppendFinalAcceptance, Record
    <3>3. e.decision # "manually_verified" /\ e.runtime = NoRuntime
      OBVIOUS
    <3> QED
      BY <3>1, <3>2, <3>3, UnlinkedEventKeeps
  <2>4. ASSUME NEW x \in RuntimeEvidence, NEW id \in EventIds, NEW c \in Criteria,
               NEW who \in Reviewers, AppendExternalVerification(x, id, c, who)
        PROVE  Linked'
    <3> DEFINE e == [id |-> id, revision |-> revision.number, target |-> c,
                     decision |-> "manually_verified", commented |-> TRUE,
                     runtime |-> x.id, reviewer |-> who]
    <3>1. /\ e \in Event /\ e.target # Final /\ e.decision = "manually_verified"
          /\ e.runtime = x.id /\ e.revision = revision.number
      BY LifecycleAssumption
         DEF Event, TypeOK, Revision, RuntimeEvidence, HumanDecision
    <3>2. events' = Append(events, e) /\ ~Pending(bundle) /\ NewRuntimeId(x.id)
      BY <2>4 DEF AppendExternalVerification, Record
    <3> HIDE DEF e
    <3> QED
      BY <3>1, <3>2, VerificationKeepsLink
  <2> QED
    BY <2>1, <2>2, <2>3, <2>4
       DEF Next, Operation, NewEventIds, NewRuntimeEvidence, Comments, vars,
           ReviseCriteria, Draft, ConfirmCriteria, AttachAnalysis,
           AppendFileScopeDecision, ScopeDecided, AppendRuntimeEvidence
<1> QED
  BY <1>1, <1>2, TypeCorrect, Revalidation, PTL DEF Spec, Revalidates

\* OneRecordPerVerification: a record of runtime evidence stands behind every
\* external verification, its own, of its criterion and by its reviewer; a
\* submission that is repeated does not use one twice.
THEOREM OwnRecord == Spec => []OneRecordPerVerification
<1>1. TypeOK /\ ValidState /\ Linked => OneRecordPerVerification
  <2> SUFFICES ASSUME TypeOK, ValidState, Linked, NEW i \in DOMAIN events,
                      events[i].decision = "manually_verified"
               PROVE
      /\ \A b \in BundleOf(events[i].revision) :
           \E x \in b.runtime : /\ {y \in b.runtime : y.id = events[i].runtime} = {x}
                                /\ x.criterion = events[i].target
                                /\ x.reviewer = events[i].reviewer
      /\ \A j \in DOMAIN events \ {i} :
           \/ events[j].revision # events[i].revision
           \/ events[j].runtime # events[i].runtime
    BY DEF OneRecordPerVerification
  <2>1. \A b \in BundleOf(events[i].revision) :
           \E x \in b.runtime : /\ {y \in b.runtime : y.id = events[i].runtime} = {x}
                                /\ x.criterion = events[i].target
                                /\ x.reviewer = events[i].reviewer
    BY RecordOfVerification
  <2> QED
    BY <2>1 DEF Linked
<1> QED
  BY <1>1, TypeCorrect, Revalidation, LinkInvariant, PTL DEF Revalidates

-----------------------------------------------------------------------------
(* What one operation may do.                                              *)

\* An event of the active revision is appended to the log.
Recorded(e) ==
    /\ e.revision = revision.number
    /\ events' = Append(events, e)
    /\ UNCHANGED <<revision, history>>

\* The step of Next as its operations, each with what the others assume.
LEMMA StepCases ==
    ASSUME TypeOK, [Next]_vars
    PROVE  \/ \E cs \in SUBSET Criteria : ReviseCriteria(cs)
           \/ \E prov \in Provenance : ConfirmCriteria(prov)
           \/ \E f, prov, a : AttachAnalysis(f, prov, a)
           \/ \E d, n, prov, c : AppendFileScopeDecision(d, n, prov, c)
           \/ \E x : AppendRuntimeEvidence(x)
           \/ \E e \in Event : /\ Recorded(e)
                               /\ e.target # Final => ~ManualUnderFinal(e.target)
           \/ UNCHANGED vars
<1>1. ASSUME NEW id \in EventIds, NEW c \in Criteria, NEW d \in Decisions,
             NEW commented \in BOOLEAN, NEW who \in Reviewers,
             AppendDecision(id, c, d, commented, who)
      PROVE  \E e \in Event : /\ Recorded(e)
                              /\ e.target # Final => ~ManualUnderFinal(e.target)
  <2> DEFINE e == [id |-> id, revision |-> revision.number, target |-> c,
                   decision |-> d, commented |-> commented,
                   runtime |-> NoRuntime, reviewer |-> who]
  <2>1. e \in Event /\ e.target = c /\ e.revision = revision.number
    BY LifecycleAssumption DEF Event, TypeOK, Revision
  <2>2. Recorded(e)
    BY <1>1, <2>1 DEF AppendDecision, Record, Recorded
  <2>3. ~ManualUnderFinal(e.target)
    BY <1>1, <2>1 DEF AppendDecision
  <2> QED
    BY <2>1, <2>2, <2>3
<1>2. ASSUME NEW id \in EventIds, NEW accept \in BOOLEAN, NEW who \in Reviewers,
             AppendFinalAcceptance(id, accept, who)
      PROVE  \E e \in Event : /\ Recorded(e)
                              /\ e.target # Final => ~ManualUnderFinal(e.target)
  <2> DEFINE e == [id |-> id, revision |-> revision.number, target |-> Final,
                   decision |-> IF accept THEN "accept_review"
                                          ELSE "revoke_review",
                   commented |-> FALSE, runtime |-> NoRuntime, reviewer |-> who]
  <2>1. e \in Event /\ e.target = Final /\ e.revision = revision.number
    BY DEF Event, TypeOK, Revision
  <2>2. Recorded(e)
    BY <1>2, <2>1 DEF AppendFinalAcceptance, Record, Recorded
  <2> QED
    BY <2>1, <2>2
<1>3. ASSUME NEW x \in RuntimeEvidence, NEW id \in EventIds, NEW c \in Criteria,
             NEW who \in Reviewers, AppendExternalVerification(x, id, c, who)
      PROVE  \E e \in Event : /\ Recorded(e)
                              /\ e.target # Final => ~ManualUnderFinal(e.target)
  <2> DEFINE e == [id |-> id, revision |-> revision.number, target |-> c,
                   decision |-> "manually_verified", commented |-> TRUE,
                   runtime |-> x.id, reviewer |-> who]
  <2>1. e \in Event /\ e.target = c /\ e.revision = revision.number
    BY LifecycleAssumption
       DEF Event, TypeOK, Revision, RuntimeEvidence, HumanDecision
  <2>2. Recorded(e)
    BY <1>3, <2>1 DEF AppendExternalVerification, Record, Recorded
  <2>3. ~ManualUnderFinal(e.target)
    BY <1>3, <2>1 DEF AppendExternalVerification
  <2> QED
    BY <2>1, <2>2, <2>3
<1> QED
  BY <1>1, <1>2, <1>3
     DEF Next, Operation, NewScopeDecisions, NewEventIds, NewRuntimeEvidence, Comments

\* The stored history is a sequence.
HistoryIsSequence == history \in Seq(Range(history))

\* Appending to a sequence gives a sequence.
LEMMA AppendIsSequence ==
    ASSUME NEW S, NEW s \in Seq(S), NEW b
    PROVE  Append(s, b) \in Seq(Range(Append(s, b)))
<1> DEFINE t == Append(s, b)
<1>1. t \in Seq(S \union {b})
  OBVIOUS
<1> HIDE DEF t
<1>2. t \in [1..Len(t) -> S \union {b}] /\ Len(t) \in Nat /\ DOMAIN t = 1..Len(t)
  BY <1>1
<1>3. t \in [1..Len(t) -> Range(t)]
  BY <1>2 DEF Range
<1>4. t \in Seq(Range(t))
  BY <1>2, <1>3
<1> QED
  BY <1>4 DEF t

\* The stored history stays a sequence.
LEMMA HistoryInvariant == Spec => []HistoryIsSequence
<1>1. Init => HistoryIsSequence
  BY DEF Init, HistoryIsSequence
<1>2. TypeOK /\ HistoryIsSequence /\ [Next]_vars => HistoryIsSequence'
  <2> SUFFICES ASSUME TypeOK, HistoryIsSequence, [Next]_vars
               PROVE  HistoryIsSequence'
    OBVIOUS
  <2>1. history' = history \/ history' = Append(history, bundle)
    BY StepCases
       DEF ReviseCriteria, Draft, Archived, ConfirmCriteria, AttachAnalysis,
           AppendFileScopeDecision, ScopeDecided, AppendRuntimeEvidence, Recorded, vars
  <2>2. CASE history' = history
    BY <2>2 DEF HistoryIsSequence, Range
  <2>3. CASE history' = Append(history, bundle)
    <3>1. Append(history, bundle) \in Seq(Range(Append(history, bundle)))
      BY AppendIsSequence DEF HistoryIsSequence
    <3> QED
      BY <2>3, <3>1 DEF HistoryIsSequence, Range
  <2> QED
    BY <2>1, <2>2, <2>3
<1> QED
  BY <1>1, <1>2, TypeCorrect, PTL DEF Spec

\* A sequence is a prefix of itself and of what is appended to it.
LEMMA OwnPrefix ==
    ASSUME NEW S, NEW s \in Seq(S), NEW t, NEW e, t = s \/ t = Append(s, e)
    PROVE  \E n \in 0..Len(t) : s = SubSeq(t, 1, n)
<1>1. Len(s) \in 0..Len(t) /\ Len(s) \in Nat
  OBVIOUS
<1>2. s = SubSeq(t, 1, Len(s))
  OBVIOUS
<1> QED
  BY <1>1, <1>2

\* AuditTrail: events and archived analyses are only added to, and what a
\* revision replaces is archived as it stood.
THEOREM TrailOnlyGrows == Spec => AuditTrail
<1> DEFINE A == /\ \E n \in 0..Len(history') : history = SubSeq(history', 1, n)
                /\ \E n \in 0..Len(events') : events = SubSeq(events', 1, n)
                /\ ~Pending(bundle) /\ revision' # revision =>
                     history' = Append(history, bundle)
<1>1. TypeOK /\ HistoryIsSequence /\ [Next]_vars => A
  <2> SUFFICES ASSUME TypeOK, HistoryIsSequence, [Next]_vars PROVE A
    OBVIOUS
  <2>1. /\ history' = history \/ history' = Append(history, bundle)
        /\ ~Pending(bundle) /\ revision' # revision =>
             history' = Append(history, bundle)
    BY StepCases
       DEF ReviseCriteria, Draft, Archived, ConfirmCriteria, AttachAnalysis,
           AppendFileScopeDecision, ScopeDecided, AppendRuntimeEvidence, Recorded, vars
  <2>2. \E e : events' = events \/ events' = Append(events, e)
    BY StepCases
       DEF ReviseCriteria, Draft, ConfirmCriteria, AttachAnalysis,
           AppendFileScopeDecision, ScopeDecided, AppendRuntimeEvidence, Recorded, vars
  <2>3. \E n \in 0..Len(history') : history = SubSeq(history', 1, n)
    BY <2>1, OwnPrefix DEF HistoryIsSequence
  <2>4. \E n \in 0..Len(events') : events = SubSeq(events', 1, n)
    BY <2>2, OwnPrefix DEF TypeOK
  <2> QED
    BY <2>1, <2>3, <2>4
<1>2. TypeOK /\ HistoryIsSequence /\ [Next]_vars => [A]_vars
  BY <1>1
<1> QED
  BY <1>2, TypeCorrect, HistoryInvariant, PTL DEF Spec, AuditTrail

\* ManualVerificationStands: under a standing final acceptance no operation
\* replaces a manual verification it was given for.
THEOREM VerificationsStand == Spec => ManualVerificationStands
<1> DEFINE A == review.final /\ review.final' =>
                  \A e \in CurrentResolutions(events, revision.number) :
                     e.decision = "manually_verified" =>
                       e \in CurrentResolutions(events', revision'.number)
<1>1. TypeOK /\ [Next]_vars => A
  <2> SUFFICES ASSUME TypeOK, [Next]_vars, review.final, review.final',
                      NEW r \in CurrentResolutions(events, revision.number),
                      r.decision = "manually_verified"
               PROVE  r \in CurrentResolutions(events', revision'.number)
    OBVIOUS
  <2>1. CASE events' = events /\ revision' = revision
    BY <2>1
  <2>2. ASSUME NEW e \in Event, Recorded(e),
               e.target # Final => ~ManualUnderFinal(e.target)
        PROVE  r \in CurrentResolutions(events', revision'.number)
    <3>1. r.target # e.target
      BY <2>2 DEF ManualUnderFinal, DecidedAs, CurrentResolutions
    <3>2. r \in CurrentEvents(events, e.revision) /\ r.target # Final
      BY <2>2 DEF CurrentResolutions, Recorded
    <3>3. r \in CurrentEvents(Append(events, e), e.revision)
      BY <3>1, <3>2, CurrentAfterAppend DEF TypeOK
    <3> QED
      BY <2>2, <3>2, <3>3 DEF CurrentResolutions, Recorded
  <2>3. ASSUME NEW cs, ReviseCriteria(cs) PROVE FALSE
    BY <2>3 DEF ReviseCriteria, Draft, Unconfirmed
  <2>4. ASSUME NEW prov, ConfirmCriteria(prov) PROVE FALSE
    BY <2>4 DEF ConfirmCriteria
  <2> QED
    BY <2>1, <2>2, <2>3, <2>4, StepCases
       DEF AttachAnalysis, AppendFileScopeDecision, ScopeDecided,
           AppendRuntimeEvidence, vars
<1>2. TypeOK /\ [Next]_vars => [A]_vars
  BY <1>1
<1> QED
  BY <1>2, TypeCorrect, PTL DEF Spec, ManualVerificationStands

\* OnlyDecisionsComplete: an analysis, runtime evidence or a file scope
\* decision never turns the gate to ready; a recorded decision does.
THEOREM DecisionsComplete == Spec => OnlyDecisionsComplete
<1> DEFINE A == ~Pending(bundle') /\ bundle'.gate.verdict = "ready" =>
                  \/ events' # events
                  \/ ~Pending(bundle) /\ bundle.gate.verdict = "ready"
<1>1. TypeOK /\ ValidState /\ ReadyIsEarned' /\ [Next]_vars => A
  <2> SUFFICES ASSUME TypeOK, ValidState, ReadyIsEarned', [Next]_vars, events' = events,
                      ~Pending(bundle'), bundle'.gate.verdict = "ready"
               PROVE  ~Pending(bundle) /\ bundle.gate.verdict = "ready"
    OBVIOUS
  <2>1. FinalAcceptance(events, revision'.number)
    BY DEF ReadyIsEarned, FinalAcceptance, CurrentEvents
  <2>2. revision' = revision => review.final
    BY <2>1 DEF ValidState
  <2>3. ASSUME NEW cs, ReviseCriteria(cs) PROVE FALSE
    BY <2>3 DEF ReviseCriteria, Draft, Pending
  <2>4. ASSUME NEW prov, ConfirmCriteria(prov) PROVE FALSE
    BY <2>4 DEF ConfirmCriteria, Pending
  <2>5. ASSUME NEW f, NEW prov, NEW a, AttachAnalysis(f, prov, a) PROVE FALSE
    BY <2>2, <2>5, PendingUnaccepted DEF AttachAnalysis
  <2>6. ASSUME NEW d, NEW n, NEW prov, NEW c, AppendFileScopeDecision(d, n, prov, c)
        PROVE  FALSE
    BY <2>2, <2>6 DEF AppendFileScopeDecision, ScopeDecided
  <2>7. ASSUME NEW x, AppendRuntimeEvidence(x)
        PROVE  ~Pending(bundle) /\ bundle.gate.verdict = "ready"
    BY <2>7 DEF AppendRuntimeEvidence, TypeOK, BundleOK, Pending
  <2>8. ASSUME NEW e \in Event, Recorded(e) PROVE FALSE
    BY <2>8 DEF Recorded, TypeOK
  <2>9. CASE UNCHANGED vars
    BY <2>9 DEF vars
  <2> QED
    BY <2>3, <2>4, <2>5, <2>6, <2>7, <2>8, <2>9, StepCases
<1>2. TypeOK /\ ValidState /\ ReadyIsEarned' /\ [Next]_vars => [A]_vars
  BY <1>1
<1> QED
  BY <1>2, TypeCorrect, Revalidation, ReadyEarned, PTL
     DEF Spec, Revalidates, OnlyDecisionsComplete

=============================================================================
