-------------------------------- MODULE Gate --------------------------------
(***************************************************************************)
(* The deterministic gate of scopeproof_core/gates/evaluator.py and the    *)
(* derivations it reads: the findings an analysis can produce, the current *)
(* human decisions, the changed files nobody has accounted for.  Every     *)
(* definition is a pure operator.                                          *)
(*                                                                         *)
(* A criterion is an element of Criteria; the evidence attached to it is   *)
(* reduced to what the gate tells apart: the status of its finding and     *)
(* whether the evidence is below the level the criterion requires.  The    *)
(* reason codes of a GateDecision are wording and are left out.            *)
(***************************************************************************)
EXTENDS Naturals, FiniteSets, Sequences

CONSTANTS
    Criteria,      \* identifiers of acceptance criteria
    MustHave,      \* those of priority must_have; the others are should_have
    Files,         \* paths of the changed-file inventory
    NoRuntime,     \* "no runtime evidence ID", None in the code
    NoProvenance   \* "no criteria source provenance", None in the code

ASSUME GateAssumption == MustHave \subseteq Criteria

HumanDecision == {"accepted", "accepted_exception", "change_required",
                  "rejected_finding", "manually_verified", "not_in_scope"}

\* The decisions that settle a criterion.
ResolvedDecisions == {"accepted", "accepted_exception", "manually_verified",
                      "not_in_scope"}

FindingStatus == {"evidence_found", "partial", "missing", "needs_review"}

CheckState == {"passing", "failing", "pending", "unavailable"}

IngestionState == {"complete", "partial", "failed"}

GateVerdict == {"ready", "conditional", "blocked", "needs_review"}

\* What ingestion observed about one exact pull-request head.  `limited`
\* stands for ingestion warnings or skipped files, `inventoried` for a
\* changed-file inventory taken at that head.
Facts == [check: CheckState, ingestion: IngestionState,
          limited: BOOLEAN, inventoried: BOOLEAN]

\* `short`: the cited evidence is below the level the criterion requires.
Finding == [status: FindingStatus, short: BOOLEAN]

-----------------------------------------------------------------------------
(* Findings.                                                               *)

\* The findings build_findings can derive for one criterion, one per case of
\* its candidates: none, strong and sufficient, or neither.
DerivableFindings(facts) ==
    {[status |-> IF facts.ingestion = "complete" THEN "missing"
                                                 ELSE "needs_review",
      short |-> TRUE],
     [status |-> "evidence_found", short |-> FALSE],
     [status |-> "partial", short |-> FALSE],
     [status |-> "partial", short |-> TRUE]}

\* Only candidates linked to a finding can cite a changed file.
HasCandidates(findings) ==
    \E c \in DOMAIN findings : findings[c].status \in {"evidence_found", "partial"}

-----------------------------------------------------------------------------
(* Changed files.                                                          *)

\* The last scope decision recorded for a path, if any, is the one that holds.
LatestScope(scope, path, disposition) ==
    \E i \in DOMAIN scope :
        /\ scope[i].path = path
        /\ scope[i].disposition = disposition
        /\ \A j \in DOMAIN scope : j > i => scope[j].path # path

\* Inventoried paths neither cited by linked evidence nor declared outside the
\* criteria.  Only meaningful when the inventory is known (facts.inventoried).
UnresolvedChangedFilePaths(cited, scope) ==
    {p \in Files : p \notin cited /\ ~LatestScope(scope, p, "outside")}

\* unresolved_changed_file_paths(...) == set(): None is not the empty set.
FilesResolved(facts, cited, scope) ==
    /\ facts.inventoried
    /\ UnresolvedChangedFilePaths(cited, scope) = {}

-----------------------------------------------------------------------------
(* The truth table.                                                        *)

DecidedAs(resolutions, c, decisions) ==
    \E r \in resolutions : r.target = c /\ r.decision \in decisions

\* A manual verification migrated from a record that predates the link to its
\* runtime evidence: it must be reconfirmed.
Unlinked(resolutions, c) ==
    \E r \in resolutions :
        r.target = c /\ r.decision = "manually_verified" /\ r.runtime = NoRuntime

\* Mutant: only a decision that settles the criterion ends its treatment; a
\* required change is also counted through its finding.
OpenUnlessAccepted(resolutions, c) == ~DecidedAs(resolutions, c, ResolvedDecisions)

\* No human decision ends the gate's treatment of c, so its finding counts.
Open(resolutions, c) == DecidedAs(resolutions, c, {"rejected_finding"})
                        \/ ~DecidedAs(resolutions, c, HumanDecision)

Gap(finding) == finding.status \in {"missing", "partial"}

Blocking(criteria, findings, resolutions) ==
    {c \in criteria :
        \/ DecidedAs(resolutions, c, {"change_required"})
        \/ Open(resolutions, c) /\ Gap(findings[c]) /\ c \in MustHave}

Conditional(criteria, findings, resolutions) ==
    {c \in criteria :
        \/ DecidedAs(resolutions, c, {"accepted_exception"})
        \/ Open(resolutions, c) /\ Gap(findings[c]) /\ c \notin MustHave}

Unresolved(criteria, findings, resolutions) ==
    {c \in criteria :
        \/ Unlinked(resolutions, c)
        \/ /\ Open(resolutions, c)
           /\ ~Gap(findings[c])
           /\ findings[c].status = "needs_review" \/ c \in MustHave}

Exceptions(criteria, resolutions) ==
    {c \in criteria :
        DecidedAs(resolutions, c, {"accepted_exception", "not_in_scope"})}

\* Inputs the gate refuses to interpret: findings that do not cover exactly the
\* criteria, a decision about a criterion the analysis does not have, a source
\* provenance that was confirmed for other criteria.
InvalidGateInput(review, criteria, findings, resolutions) ==
    \/ DOMAIN findings # criteria
    \/ /\ criteria # {}
       /\ review.provenance # NoProvenance
       /\ review.provenance.criteria # criteria
    \/ \E r \in resolutions : r.target \notin criteria
    \/ \E r, s \in resolutions : r # s /\ r.target = s.target

\* Every reason for the review not to be complete yet.
Incomplete(review, facts, criteria, findings, resolutions, cited, scope) ==
    \/ criteria = {}
    \/ Unresolved(criteria, findings, resolutions) # {}
    \/ ~review.confirmed
    \/ review.provenance = NoProvenance
    \/ facts.ingestion # "complete"
    \/ facts.limited
    \/ ~FilesResolved(facts, cited, scope)
    \/ facts.check \in {"pending", "unavailable"}

Blocked(facts, criteria, findings, resolutions) ==
    facts.check = "failing" \/ Blocking(criteria, findings, resolutions) # {}

Qualified(criteria, findings, resolutions) ==
    \/ Conditional(criteria, findings, resolutions) # {}
    \/ Exceptions(criteria, resolutions) # {}

\* Mutant: the final acceptance is not asked for.
VerdictWithoutAcceptance(review, facts, criteria, findings, resolutions, cited, scope) ==
    IF Blocked(facts, criteria, findings, resolutions) THEN "blocked"
    ELSE IF Incomplete(review, facts, criteria, findings, resolutions, cited, scope)
         THEN "needs_review"
         ELSE IF Qualified(criteria, findings, resolutions) THEN "conditional"
                                                            ELSE "ready"

\* Mutant: exceptions take precedence over an incomplete review.
VerdictExceptionsFirst(review, facts, criteria, findings, resolutions, cited, scope) ==
    IF Blocked(facts, criteria, findings, resolutions) THEN "blocked"
    ELSE IF Qualified(criteria, findings, resolutions) THEN "conditional"
         ELSE IF Incomplete(review, facts, criteria, findings, resolutions, cited, scope)
                 \/ ~review.final
              THEN "needs_review" ELSE "ready"

\* The verdict, in the precedence the code gives it.
Verdict(review, facts, criteria, findings, resolutions, cited, scope) ==
    IF Blocked(facts, criteria, findings, resolutions) THEN "blocked"
    ELSE IF Incomplete(review, facts, criteria, findings, resolutions, cited, scope)
         THEN "needs_review"
         ELSE IF Qualified(criteria, findings, resolutions) THEN "conditional"
              ELSE IF review.final THEN "ready" ELSE "needs_review"

EvaluateGate(review, facts, criteria, findings, resolutions, cited, scope) ==
    IF InvalidGateInput(review, criteria, findings, resolutions)
    THEN [verdict |-> "needs_review", blocking |-> {}, conditional |-> {},
          unresolved |-> criteria, exceptions |-> {}]
    ELSE [verdict |-> Verdict(review, facts, criteria, findings, resolutions,
                              cited, scope),
          blocking |-> Blocking(criteria, findings, resolutions),
          conditional |-> Conditional(criteria, findings, resolutions),
          unresolved |-> Unresolved(criteria, findings, resolutions),
          exceptions |-> Exceptions(criteria, resolutions)]

-----------------------------------------------------------------------------
(* The review policy.                                                      *)

AcceptanceRequiresComment(decision, finding) ==
    decision = "accepted" /\ finding.short

=============================================================================
