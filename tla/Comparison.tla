----------------------------- MODULE Comparison -----------------------------
(***************************************************************************)
(* reviews/comparison.py and the projections it holds: what changed        *)
(* between two validated analyses of one pull request, and which earlier   *)
(* decisions have to be looked at again.  File scope decisions and runtime *)
(* evidence, which these projections carry along, are left out.            *)
(***************************************************************************)
EXTENDS Ledger

\* validate_comparison_relationship: the same criteria from the same source.
\* The repository and the pull request are fixed, and exact heads are given.
Comparable(previous, current) ==
    /\ ValidAnalysis(previous) /\ ValidAnalysis(current)
    /\ previous.source = current.source

----------------------------------------------------------------------------
(* Candidate evidence: identical, moved, modified, or on one side only.     *)

ExactSignature(e) == <<e.commit, e.line, e.rule>>
RelocatedSignature(e) == <<e.line.text, e.line.scope, e.rule>>
ModifiedSignature(e) == <<e.line.path, e.line.scope, e.rule>>

\* Candidates that are the only ones on their side with a signature, which
\* a function gives for the candidates of both sides.
UniquePairs(previous, current, signature) ==
    {pair \in previous \X current :
        /\ signature[pair[1]] = signature[pair[2]]
        /\ \A e \in previous : signature[e] = signature[pair[1]] => e = pair[1]
        /\ \A e \in current : signature[e] = signature[pair[2]] => e = pair[2]}

Change(kind, previous, current) ==
    [kind |-> kind, previous |-> previous, current |-> current,
     criterion |-> IF current = None THEN previous.criterion
                                     ELSE current.criterion]

Left(candidates, pairs, side) == candidates \ {pair[side] : pair \in pairs}

\* The signatures are tried one after another on what is not paired yet.
EvidenceChangesOf(previous, current) ==
    LET all == previous \union current
        exact == UniquePairs(previous, current, [e \in all |-> ExactSignature(e)])
        moved == UniquePairs(Left(previous, exact, 1), Left(current, exact, 2),
                             [e \in all |-> RelocatedSignature(e)])
        modified == UniquePairs(Left(previous, exact \union moved, 1),
                                Left(current, exact \union moved, 2),
                                [e \in all |-> ModifiedSignature(e)])
        paired == exact \union moved \union modified
    IN  {Change("unchanged", p[1], p[2]) : p \in exact}
        \union {Change("relocated", p[1], p[2]) : p \in moved}
        \union {Change("modified", p[1], p[2]) : p \in modified}
        \union {Change("removed", e, None) : e \in Left(previous, paired, 1)}
        \union {Change("added", None, e) : e \in Left(current, paired, 2)}

EvidenceChanges(previous, current) ==
    UNION {EvidenceChangesOf({e \in previous.evidence : e.criterion = c},
                             {e \in current.evidence : e.criterion = c}) :
           c \in Criteria}

----------------------------------------------------------------------------
(* Imported results, by artifact.                                           *)

HasImport(b, a) == \E x \in ToSet(b.imports) : x.artifact = a

\* The sanitized context of an import is everything but its mapping: which
\* import it is, with its corrections and its withdrawal.
JUnitReference(b, a) ==
    [mapping |-> Effective(b, a),
     context |-> [owner |-> ImportOf(b, a).owner,
                  events |-> {<<i, b.events[i]>> : i \in EventsOf(b, a)}],
     named |-> EverNamed(b, a)]

\* JUnitImportChangeKind
JUnitKind(previous, current, a) ==
    IF ~HasImport(previous, a) THEN "added"
    ELSE IF ~HasImport(current, a) THEN "removed"
    ELSE LET old == JUnitReference(previous, a)
             new == JUnitReference(current, a)
         IN  CASE old.mapping = new.mapping /\ old.context = new.context -> "unchanged"
               [] old.mapping # new.mapping /\ old.context = new.context -> "mapping_modified"
               [] old.mapping = new.mapping /\ old.context # new.context -> "context_modified"
               [] OTHER -> "mapping_and_context_modified"

JUnitChanges(previous, current) ==
    {[artifact |-> a, kind |-> JUnitKind(previous, current, a),
      previous |-> IF HasImport(previous, a) THEN JUnitReference(previous, a) ELSE None,
      current |-> IF HasImport(current, a) THEN JUnitReference(current, a) ELSE None] :
        a \in {x \in Artifacts : HasImport(previous, x) \/ HasImport(current, x)}}

\* Artifacts with a change, and the criteria they are or ever were mapped to.
ChangedArtifacts(previous, current) ==
    {x.artifact : x \in {y \in JUnitChanges(previous, current) : y.kind # "unchanged"}}

\* Mutant of ChangedJUnitCriteria: corrections in between are not looked at.
ChangedJUnitCriteriaNow(previous, current) ==
    UNION {Named(ImportOf(x[1], x[2]).mapping) \union Named(Effective(x[1], x[2])) :
           x \in {y \in {previous, current} \X ChangedArtifacts(previous, current) :
                    HasImport(y[1], y[2])}}

ChangedJUnitCriteria(previous, current) ==
    UNION {JUnitReference(x[1], x[2]).named :
           x \in {y \in {previous, current} \X ChangedArtifacts(previous, current) :
                    HasImport(y[1], y[2])}}

----------------------------------------------------------------------------
(* Findings, decisions, final acceptance, selected references.              *)

ChangedFindings(previous, current) ==
    {c \in Criteria : previous.findings[c].status # current.findings[c].status}

DecisionOf(b, c) == IF c \in DOMAIN b.resolutions THEN b.resolutions[c] ELSE None

ResolutionChange(c, old, new) == [criterion |-> c, previous |-> old, current |-> new]

ResolutionChanges(previous, current) ==
    {ResolutionChange(c, DecisionOf(previous, c), DecisionOf(current, c)) :
        c \in {x \in DOMAIN previous.resolutions \union DOMAIN current.resolutions :
                DecisionOf(previous, x) # DecisionOf(current, x)}}

\* Reference records are compared whole.
RecordChanges(previous, current) ==
    LET old == ToSet(previous.references)
        new == ToSet(current.references)
    IN  {[kind |-> "identical_record", previous |-> r, current |-> r] :
            r \in old \intersect new}
        \union {[kind |-> "only_previous", previous |-> r, current |-> None] :
                    r \in old \ new}
        \union {[kind |-> "only_current", previous |-> None, current |-> r] :
                    r \in new \ old}

\* The latest decisions of one analysis, and who owns them.
ContextSnapshot(b) == [owner |-> b.owner, source |-> b.source, resolutions |-> b.resolutions]

AcceptanceSnapshot(b) == [owner |-> b.owner, recorded |-> b.final]

\* The paths a file scope view counts as cited: changed lines of this head
\* that a finding links to.
CitedPaths(b) ==
    {e.line.path : e \in {d \in b.evidence :
        /\ d.line.scope = "changed" /\ d.commit = b.owner.head
        /\ d.id \in b.findings[d.criterion].cited
        /\ d.line.path \in Inventory[b.owner.head]}}

ScopeSnapshot(b) ==
    [owner |-> b.owner, cited |-> CitedPaths(b),
     links |-> [c \in Criteria |-> b.findings[c].cited]]

----------------------------------------------------------------------------

\* compare_reviews
CompareReviews(previous, current) ==
    LET evidence == EvidenceChanges(previous, current)
        changed == {x.criterion : x \in {y \in evidence : y.kind # "unchanged"}}
                    \union ChangedFindings(previous, current)
                    \union ChangedJUnitCriteria(previous, current)
        everything == \/ previous.owner.head # current.owner.head
                      \/ previous.ruleset # current.ruleset
        decided == DOMAIN previous.resolutions
    IN  [previous |-> ContextSnapshot(previous), current |-> ContextSnapshot(current),
         evidence |-> evidence, imports |-> JUnitChanges(previous, current),
         resolutions |-> ResolutionChanges(previous, current),
         references |-> RecordChanges(previous, current),
         acceptance |-> <<AcceptanceSnapshot(previous), AcceptanceSnapshot(current)>>,
         scope |-> <<ScopeSnapshot(previous), ScopeSnapshot(current)>>,
         listed |-> IF everything THEN decided ELSE decided \intersect changed]

\* Reference i of a change is the candidate of the previous or current side.
SideOf(change, i) == IF i = 1 THEN change.previous ELSE change.current

\* Paired, added and removed changes have the candidates their kind says.
WellFormed(change) ==
    /\ (change.previous = None) = (change.kind = "added")
    /\ (change.current = None) = (change.kind = "removed")
    /\ \A i \in 1..2 :
        SideOf(change, i) # None => SideOf(change, i).criterion = change.criterion

\* Every candidate a finding links to is found among the changes, and the
\* paths these candidates cite are the ones of the scope view.
ScopeHolds(x, i) ==
    LET view == x.scope[i]
        shown == {SideOf(y, i) : y \in x.evidence} \ {None}
        linked == {e \in shown : e.id \in view.links[e.criterion]}
    IN  /\ \A c \in Criteria : \A id \in view.links[c] :
            \E e \in shown : e.id = id /\ e.criterion = c
        /\ view.cited = {e.line.path : e \in {d \in linked :
                /\ d.commit = view.owner.head /\ d.line.scope = "changed"
                /\ d.line.path \in Inventory[view.owner.head]}}

\* The parts were taken from one pair of analyses: the owners agree, and
\* the changed decisions are those of the two contexts.
DecisionContextHolds(x) ==
    /\ \A i \in 1..2 :
        LET context == IF i = 1 THEN x.previous ELSE x.current
        IN  context.owner = x.scope[i].owner /\ context.owner = x.acceptance[i].owner
    /\ x.previous.source = x.current.source
    /\ x.resolutions = ResolutionChanges(x.previous, x.current)

\* A reference is on the sides it was recorded on, by the owner of the side.
RecordsHold(x) ==
    \A i \in 1..2 : \A r \in {SideOf(y, i) : y \in x.references} \ {None} :
        /\ r.owner = x.scope[i].owner
        /\ r.criterion \in Criteria
        /\ (r.line.scope = "changed") = (r.line.path \in Inventory[x.scope[i].owner.head])

\* The audit events shown with the imports of a side are events of the
\* analysis that owns it, and no more than one analysis may have.
AuditHolds(x) ==
    \A i \in 1..2 :
        LET shown == UNION {SideOf(y, i).context.events :
                            y \in {z \in x.imports : SideOf(z, i) # None}}
        IN  /\ \A e \in shown : e[2].owner = x.scope[i].owner
            /\ Cardinality({e \in shown : e[2].action = "mapping_corrected"})
                    <= MaxCorrections

\* The validators of ReviewComparison and its parts: a comparison that does
\* not pass them is not shown.
ComparisonAccepted(x) ==
    /\ \A y \in x.evidence : WellFormed(y)
    /\ \A i \in 1..2 : ScopeHolds(x, i)
    /\ DecisionContextHolds(x)
    /\ RecordsHold(x)
    /\ AuditHolds(x)

=============================================================================
