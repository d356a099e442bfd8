----------------------------- MODULE GateInputs -----------------------------
(***************************************************************************)
(* From a pull request to a verdict, and beyond it to raw inputs.  A fetch *)
(* of Ingestion ends in a snapshot, _build_bundle turns it into the facts  *)
(* of a review, and any findings and decisions may stand beside them when  *)
(* the gate is asked.  evaluate_gate is also applied to decoded, migrated  *)
(* and foreign records: further steps make one of its inputs worse.        *)
(***************************************************************************)
EXTENDS Ingestion

CONSTANT MaxWorsenings     \* bound on the inputs made worse

ASSUME InputsAssumption == MaxWorsenings \in Nat

VARIABLES
    review, facts, findings, resolutions, cited,   \* the inputs of the gate
    seen,          \* history: what GitHub held when the fetch ended
    worsenings     \* how much of the bound is used

inputs == <<review, facts, findings, resolutions, cited>>

vars == <<ingestion, inputs, seen, worsenings>>

\* A decision as the gate sees it: "reconfirm" is a manual verification without
\* runtime evidence, "none" is no decision.
AsResolution(c, d) ==
    IF d = "none" THEN {}
    ELSE {[target |-> c,
           decision |-> IF d = "reconfirm" THEN "manually_verified" ELSE d,
           runtime |-> IF d = "manually_verified" THEN c ELSE NoRuntime]}

Init ==
    /\ InitIngestion
    /\ review = [confirmed |-> FALSE, final |-> FALSE, provenance |-> [criteria |-> {}]]
    /\ facts = [check |-> "unavailable", ingestion |-> "failed", limited |-> FALSE,
                inventoried |-> FALSE]
    /\ findings = << >> /\ resolutions = {} /\ cited = {}
    /\ seen = [whole |-> FALSE, paths |-> {}, doubtful |-> TRUE]
    /\ worsenings = 0

Criterions == review.provenance.criteria

Decided == Criterions # {}

Fetch == NextIngestion /\ UNCHANGED <<inputs, seen, worsenings>>

\* _build_bundle.  A path outside the inventory asks for no evidence: it counts
\* as cited.
Adopt ==
    /\ fetch.pc = "done"
    /\ fetch' = [fetch EXCEPT !.pc = "adopted"]
    /\ facts' = SnapshotFacts
    /\ cited' = Files \ {file.path : file \in Inspected}
    /\ seen' = [whole |-> Inspected = Contents(history[fetch.at].diff),
                paths |-> Paths(history[fetch.at].diff), doubtful |-> fetch.doubtful]
    /\ UNCHANGED <<history, pull, moves, review, findings, resolutions, worsenings>>

\* The findings and what people made of them: at most one path is left uncited.
Decide(cs) ==
    /\ fetch.pc = "adopted" /\ Criterions = {}
    /\ review' = [confirmed |-> TRUE, final |-> TRUE, provenance |-> [criteria |-> cs]]
    /\ \E uncited \in SUBSET (Files \ cited) :
          Cardinality(uncited) <= 1 /\ cited' = Files \ uncited
    /\ findings' \in [cs -> [status: FindingStatus]]
    /\ \E d \in [cs -> HumanDecision \union {"none", "reconfirm"}] :
         resolutions' = UNION {AsResolution(c, d[c]) : c \in cs}
    /\ UNCHANGED <<ingestion, facts, seen, worsenings>>

CheckWorsens ==
    /\ \/ facts.check = "passing" /\ \E s \in CheckState \ {"passing"} :
            facts' = [facts EXCEPT !.check = s]
       \/ facts.check \in {"pending", "unavailable"}
            /\ facts' = [facts EXCEPT !.check = "failing"]
    /\ UNCHANGED <<review, findings, resolutions, cited>>

IngestionWorsens ==
    /\ \/ facts.ingestion = "complete" /\ \E s \in {"partial", "failed"} :
            facts' = [facts EXCEPT !.ingestion = s]
       \/ ~facts.limited /\ facts' = [facts EXCEPT !.limited = TRUE]
       \/ facts.inventoried /\ facts' = [facts EXCEPT !.inventoried = FALSE]
    /\ UNCHANGED <<review, findings, resolutions, cited>>

ReviewWorsens ==
    /\ \/ review.confirmed /\ review' = [review EXCEPT !.confirmed = FALSE]
       \/ review.final /\ review' = [review EXCEPT !.final = FALSE]
    /\ UNCHANGED <<facts, findings, resolutions, cited>>

EvidenceWorsens ==
    /\ \/ \E c \in DOMAIN findings :
            /\ findings[c].status = "evidence_found"
            /\ \E s \in FindingStatus \ {"evidence_found"} :
                 findings' = [findings EXCEPT ![c].status = s]
            /\ UNCHANGED cited
       \/ \E p \in cited : cited' = cited \ {p} /\ UNCHANGED findings
    /\ UNCHANGED <<review, facts, resolutions>>

\* A record whose findings no longer cover its criteria.
FindingLost ==
    /\ \E c \in DOMAIN findings :
         findings' = [x \in DOMAIN findings \ {c} |-> findings[x]]
    /\ UNCHANGED <<review, facts, resolutions, cited>>

Worsen ==
    /\ Decided /\ worsenings < MaxWorsenings
    /\ worsenings' = worsenings + 1
    /\ \/ CheckWorsens
       \/ IngestionWorsens
       \/ ReviewWorsens
       \/ EvidenceWorsens
       \/ FindingLost
    /\ UNCHANGED <<ingestion, seen>>

Next ==
    \/ Fetch
    \/ Adopt
    \/ \E cs \in (SUBSET Criteria) \ {{}} : Decide(cs)
    \/ Worsen

Spec == Init /\ [][Next]_vars

-----------------------------------------------------------------------------
(* Properties.                                                             *)

TheGate == EvaluateGate(review, facts, Criterions, findings, resolutions, cited, << >>)

\* The README lists the verdicts from the one to the next less severe.
Severity(v) == CASE v = "ready" -> 0 [] v = "conditional" -> 1
                 [] v = "needs_review" -> 2 [] v = "blocked" -> 3

\* The gate fails closed: worse checks, worse ingestion, weaker evidence, a
\* revoked acceptance or an uncited file never make the verdict milder, and
\* inputs that no longer fit together are never accepted.  The one exception
\* is by design of the truth table: a conditional review needs no final
\* acceptance, so a review that lacks only that becomes conditional when a
\* should-have criterion loses its evidence.
FailsClosed ==
    [][\/ ~Decided
       \/ Severity(TheGate'.verdict) >= Severity(TheGate.verdict)
       \/ TheGate'.verdict = "needs_review" /\ DOMAIN findings' # Criterions'
       \/ /\ ~review.final
          /\ findings' # findings
          /\ TheGate.unresolved = {} /\ TheGate'.verdict = "conditional"]_vars

\* The lists of a decision explain its verdict: a criterion that demands a
\* change is never also reported as conditional, unresolved or an exception,
\* and a ready gate reports nothing.
ListsExplainVerdict ==
    Decided =>
      LET g == TheGate IN
      /\ g.blocking \intersect (g.conditional \union g.unresolved
                                \union g.exceptions) = {}
      /\ g.unresolved \intersect (g.conditional \union g.exceptions) = {}
      /\ g.verdict = "ready" =>
           g.blocking \union g.conditional \union g.unresolved
             \union g.exceptions = {}
      /\ g.verdict = "blocked" => g.blocking # {} \/ facts.check = "failing"

\* What the reviewer of a ready review saw is what GitHub holds: the whole diff
\* of the revision reviewed, every path of it cited, and no check of its head
\* that failed, was pending, or could not be read.
ReadyShowsEverything ==
    Decided /\ TheGate.verdict = "ready" =>
        seen.whole /\ seen.paths \subseteq cited /\ ~seen.doubtful

\* After a fetch was adopted only the inputs of the gate matter.
GateView == IF fetch.pc = "adopted" THEN <<inputs, seen, worsenings>> ELSE vars

=============================================================================
