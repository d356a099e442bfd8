------------------------------- MODULE Ledger -------------------------------
(***************************************************************************)
(* What one analysis records besides decisions: the candidate evidence it  *)
(* found, imported JUnit results with their audit events, and the source   *)
(* lines a reviewer selected with theirs.  Nothing is ever taken out of    *)
(* the two ledgers: a mapping is corrected and an import withdrawn, a      *)
(* reference replaced or withdrawn, by an event, and what is in force is   *)
(* replayed from the events.                                               *)
(*                                                                         *)
(* Digests and IDs are the values they stand for.  An import is named by   *)
(* its artifact, which is unique in an analysis, and told from an import   *)
(* of the same file elsewhere by its owner; a reference is named by its    *)
(* position, an audit event by its position.  Attribution and timestamps,  *)
(* which never order anything, are left out but for a note that stands for *)
(* the rationale of a reference.                                           *)
(***************************************************************************)
EXTENDS Integers, Sequences, FiniteSets, SequencesExt

CONSTANTS
    Criteria,       \* the confirmed criteria
    Cases,          \* the test cases of every artifact
    Suites,         \* its suites, as sets of cases; one may be empty
    Artifacts,      \* JUnit files, by digest
    Notes,          \* rationales of references
    Heads,          \* commits
    Inventory,      \* head -> its changed paths, all of them inspectable
    Content,        \* head -> the lines of its files: [path, number, text]
    MaxImports,     \* MAX_JUNIT_IMPORTS_PER_REVIEW
    MaxCorrections, \* MAX_JUNIT_MAPPING_CORRECTIONS_PER_REVIEW
    MaxActive,      \* MAX_REVIEWER_SELECTED_REFERENCES
    MaxReferences,  \* MAX_SELECTED_REFERENCE_RECORDS
    MaxRefEvents,   \* MAX_SELECTED_REFERENCE_EVENTS
    None            \* no value

ASSUME LedgerAssumption ==
    /\ Suites \subseteq SUBSET Cases
    /\ {MaxImports, MaxCorrections, MaxActive, MaxReferences, MaxRefEvents} \subseteq Nat

----------------------------------------------------------------------------
(* Imported test results.                                                   *)

\* criterion_mappings: every case belongs to one criterion at most, and a
\* mapping that is recorded is not empty.
Mappings == UNION {[S -> Criteria] : S \in (SUBSET Cases) \ {{}}}

\* Criteria that have a case in a mapping.
Named(mapping) == {mapping[x] : x \in DOMAIN mapping}

JUnitImport(owner, a, mapping) ==
    [artifact |-> a, owner |-> owner, mapping |-> mapping]

\* What a selection can map to a criterion: a suite, or one case.
Scopes == Suites \union {{x} : x \in Cases}

\* build_junit_evidence_import: scopes with cases, and no case for two
\* criteria.
Buildable(selections) ==
    /\ selections # {}
    /\ \A p \in selections : p.scope # {}
    /\ \A p, q \in selections :
        p.scope \intersect q.scope # {} => p.criterion = q.criterion

MappingOf(selections) ==
    [x \in UNION {p.scope : p \in selections} |->
        (CHOOSE p \in selections : x \in p.scope).criterion]

ImportOf(b, a) == CHOOSE x \in ToSet(b.imports) : x.artifact = a

EventsOf(b, a) == {i \in DOMAIN b.events : b.events[i].artifact = a}

CorrectionsOf(b, a) ==
    {i \in EventsOf(b, a) : b.events[i].action = "mapping_corrected"}

Withdrawn(b, a) == \E i \in EventsOf(b, a) : b.events[i].action = "withdrawn"

ActiveImports(b) ==
    {x.artifact : x \in {y \in ToSet(b.imports) : ~Withdrawn(b, y.artifact)}}

\* The correction in force before position n, 0 for the import itself.
LastBefore(b, a, n) == Max({0} \union {i \in CorrectionsOf(b, a) : i < n})

MappingAt(b, a, n) ==
    LET last == LastBefore(b, a, n)
    IN  IF last = 0 THEN ImportOf(b, a).mapping ELSE b.events[last].mapping

Effective(b, a) == MappingAt(b, a, Len(b.events) + 1)

\* Every criterion an import was ever mapped to.
EverNamed(b, a) ==
    Named(ImportOf(b, a).mapping)
        \union UNION {Named(b.events[i].mapping) : i \in CorrectionsOf(b, a)}

Correction(b, a, mapping) ==
    [action |-> "mapping_corrected", artifact |-> a,
     owner |-> ImportOf(b, a).owner, previous |-> Effective(b, a),
     link |-> LastBefore(b, a, Len(b.events) + 1), mapping |-> mapping]

Withdrawal(b, a) ==
    [action |-> "withdrawn", artifact |-> a, owner |-> ImportOf(b, a).owner]

\* A withdrawal is terminal, and a correction continues the one before it
\* and changes something.
Replays(b, a) ==
    \A i \in EventsOf(b, a) :
        /\ \A j \in EventsOf(b, a) : b.events[j].action = "withdrawn" => i <= j
        /\ b.events[i].action = "mapping_corrected" =>
            /\ b.events[i].previous = MappingAt(b, a, i)
            /\ b.events[i].link = LastBefore(b, a, i)
            /\ b.events[i].mapping # MappingAt(b, a, i)
            /\ b.events[i].mapping \in Mappings

JUnitValid(b) ==
    /\ IsInjective([i \in DOMAIN b.imports |-> b.imports[i].artifact])
    /\ \A x \in ToSet(b.imports) :
        x.owner = b.owner /\ x.mapping \in Mappings /\ Replays(b, x.artifact)
    /\ \A e \in ToSet(b.events) :
        \E x \in ToSet(b.imports) : x.artifact = e.artifact /\ x.owner = e.owner
    /\ Cardinality({i \in DOMAIN b.events :
            b.events[i].action = "mapping_corrected"}) <= MaxCorrections

----------------------------------------------------------------------------
(* Selected source lines.                                                   *)

\* A line where the analysis can see it: in a changed file, or in another
\* file that was fetched as a candidate.
Line(head, x) ==
    [scope |-> IF x.path \in Inventory[head] THEN "changed" ELSE "unchanged",
     path |-> x.path, number |-> x.number, text |-> x.text]

EligibleLines(head, candidates) ==
    {Line(head, x) : x \in {y \in Content[head] :
        y.path \in Inventory[head] \union candidates}}

Reference(b, c, line, note) ==
    [id |-> Len(b.references) + 1, owner |-> b.owner, criterion |-> c,
     line |-> line, note |-> note]

RetiredRefs(b) == {e.reference : e \in ToSet(b.refEvents)}

ActiveRefs(b) == {r \in ToSet(b.references) : r.id \notin RetiredRefs(b)}

RefEvent(b, id, by) ==
    [action |-> IF by = None THEN "withdrawn" ELSE "corrected",
     reference |-> id, by |-> by, owner |-> b.owner]

Location(r) == <<r.criterion, r.line.scope, r.line.path, r.line.number>>

\* Terminal links in append order: a target is active and owned; a
\* correction names a later reference to the same criterion, which nothing
\* else replaced and which is not retired yet.
ReferenceAuditValid(b) ==
    /\ Len(b.references) <= MaxReferences
    /\ Len(b.refEvents) <= MaxRefEvents
    /\ \A i \in DOMAIN b.references : b.references[i].id = i
    /\ \A i \in DOMAIN b.refEvents :
        LET e == b.refEvents[i]
        IN  /\ e.reference \in DOMAIN b.references
            /\ e.owner = b.references[e.reference].owner
            /\ \A j \in 1..i-1 : b.refEvents[j].reference # e.reference
            /\ (e.action = "corrected") = (e.by # None)
            /\ e.by # None =>
                /\ e.by \in DOMAIN b.references
                /\ e.by > e.reference
                /\ \A j \in 1..i-1 :
                    b.refEvents[j].reference # e.by /\ b.refEvents[j].by # e.by
                /\ b.references[e.by].owner = e.owner
                /\ b.references[e.by].criterion
                        = b.references[e.reference].criterion
    /\ Cardinality(ActiveRefs(b)) <= MaxActive
    /\ \A r, q \in ActiveRefs(b) : Location(r) = Location(q) => r = q

\* The scope of a line agrees with the inventory of the analysis it is in.
ScopeAgrees(b, line) == (line.scope = "changed") = (line.path \in Inventory[b.owner.head])

ReferencesOwned(b) ==
    \A r \in ToSet(b.references) :
        r.owner = b.owner /\ r.criterion \in Criteria /\ ScopeAgrees(b, r.line)

----------------------------------------------------------------------------
(* Candidate evidence, findings, and the analysis as a whole.               *)

\* A candidate: a line of the head, the rule that matched it, and whether it
\* is strong enough in score and level.
EvidenceItem(id, c, head, x, rule, strong) ==
    [id |-> id, criterion |-> c, commit |-> head, line |-> Line(head, x),
     rule |-> rule, strong |-> strong]

\* build_findings of a complete ingestion: all candidates of a criterion are
\* cited, whatever the status.
FindingsOf(evidence) ==
    [c \in Criteria |->
        LET own == {e \in evidence : e.criterion = c}
        IN  [status |-> IF own = {} THEN "missing"
                        ELSE IF \E e \in own : e.strong THEN "evidence_found"
                        ELSE "partial",
             cited |-> {e.id : e \in own}]]

EvidenceOwned(b) ==
    /\ \A e, d \in b.evidence : e.id = d.id => e = d
    /\ \A e \in b.evidence :
        /\ e.criterion \in Criteria
        /\ e.commit = b.owner.head
        /\ e.line.scope = "changed" => e.line.path \in Inventory[b.owner.head]

FindingsMatch(b) ==
    /\ DOMAIN b.findings = Criteria
    /\ \A c \in Criteria :
        /\ b.findings[c].status = "evidence_found" => b.findings[c].cited # {}
        /\ b.findings[c].cited
                \subseteq {e.id : e \in {d \in b.evidence : d.criterion = c}}

\* What this part of validate_cross_references and of the gate validation
\* asks of an analysis.
ValidAnalysis(b) ==
    /\ JUnitValid(b)
    /\ ReferenceAuditValid(b)
    /\ ReferencesOwned(b)
    /\ EvidenceOwned(b)
    /\ FindingsMatch(b)
    /\ DOMAIN b.resolutions \subseteq Criteria
    /\ b.final => DOMAIN b.resolutions = Criteria

\* A fresh analysis: nothing recorded yet.
Analysis(owner, source, ruleset, evidence) ==
    [owner |-> owner, source |-> source, ruleset |-> ruleset,
     evidence |-> evidence, findings |-> FindingsOf(evidence),
     resolutions |-> <<>>, imports |-> <<>>, events |-> <<>>,
     references |-> <<>>, refEvents |-> <<>>, final |-> FALSE]

----------------------------------------------------------------------------
(* The operations: when they are accepted, and the analysis they leave.     *)

CanImport(b, a) ==
    Len(b.imports) < MaxImports /\ \A x \in ToSet(b.imports) : x.artifact # a

ImportResults(b, a, mapping) ==
    [b EXCEPT !.imports = Append(@, JUnitImport(b.owner, a, mapping))]

CorrectMappings(b, a, mapping) ==
    [b EXCEPT !.events = Append(@, Correction(b, a, mapping))]

\* The limit on corrections and the rule that a correction changes something
\* are left to the validation of the result.
CanCorrect(b, a, mapping) ==
    a \in ActiveImports(b) /\ JUnitValid(CorrectMappings(b, a, mapping))

WithdrawImport(b, a) == [b EXCEPT !.events = Append(@, Withdrawal(b, a))]

AddReference(b, c, line, note) ==
    [b EXCEPT !.references = Append(@, Reference(b, c, line, note))]

CanAddReference(b, c, line, note) ==
    /\ ~b.final
    /\ Cardinality(ActiveRefs(b)) < MaxActive
    /\ \A r \in ActiveRefs(b) : Location(r) # Location(Reference(b, c, line, note))
    /\ ReferenceAuditValid(AddReference(b, c, line, note))

CorrectReference(b, id, line, note) ==
    [b EXCEPT !.references = Append(@,
                    Reference(b, b.references[id].criterion, line, note)),
              !.refEvents = Append(@, RefEvent(b, id, Len(b.references) + 1))]

CanCorrectReference(b, id, line, note) ==
    /\ ~b.final
    /\ \E r \in ActiveRefs(b) : r.id = id /\ (r.line # line \/ r.note # note)
    /\ ReferenceAuditValid(CorrectReference(b, id, line, note))

WithdrawReference(b, id) ==
    [b EXCEPT !.refEvents = Append(@, RefEvent(b, id, None))]

CanWithdrawReference(b, id) ==
    /\ ~b.final
    /\ \E r \in ActiveRefs(b) : r.id = id
    /\ ReferenceAuditValid(WithdrawReference(b, id))

----------------------------------------------------------------------------
(* Staging.  The draft of an import is a set of selections, each change of *)
(* which has to be importable; that of a correction is a mapping, which may *)
(* be empty meanwhile.                                                      *)

ExtendDraft(selections, c, scopes) ==
    selections \union {[scope |-> x, criterion |-> c] : x \in scopes}

CanExtend(b, a, selections, c, scopes) ==
    scopes # {} /\ CanImport(b, a) /\ Buildable(ExtendDraft(selections, c, scopes))

RemoveCriterion(selections, c) == {p \in selections : p.criterion # c}

\* A group takes the place of the one of its criterion; a case that another
\* group holds has to be removed there first.
CanStage(mapping, c, cases) ==
    cases # {} /\ \A x \in cases \intersect DOMAIN mapping : mapping[x] = c

StageGroup(mapping, c, cases) ==
    [x \in {y \in DOMAIN mapping : mapping[y] # c} \union cases |->
        IF x \in cases THEN c ELSE mapping[x]]

RemoveGroup(mapping, c) ==
    [x \in {y \in DOMAIN mapping : mapping[y] # c} |-> mapping[x]]

=============================================================================
