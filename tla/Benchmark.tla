----------------------------- MODULE Benchmark -----------------------------
(***************************************************************************)
(* The R-002 research benchmark of scopeproof_core/evals: the commands     *)
(* `prepare` (two phases), `annotate` and `run` of r002_swebench.py and    *)
(* the miss taxonomy, which communicate through files.  The owner edits    *)
(* criteria.json and candidate_labels.json between any two of their reads, *)
(* and two commands can run at once.  How one cache file is written is     *)
(* BenchmarkCache's subject: here a publication is one step.               *)
(*                                                                         *)
(* The manifest is pinned by a digest compiled into the code, so there is  *)
(* one; the cases are alike, so there is one.  What the files are bound to *)
(* is the version of the confirmed criteria they were made for: a digest   *)
(* of the criteria set, of the index prepared for it and of the universe   *)
(* built from both is that version.                                        *)
(***************************************************************************)
EXTENDS Naturals, FiniteSets, TLC

CONSTANTS
    Proc,        \* processes the owner runs commands in
    Version,     \* digests of confirmed criteria sets
    Criterion,   \* criterion identifiers, the same in every version
    MustHave,    \* those of priority must_have
    NeedsTest,   \* those whose required evidence level is E2
    Line,        \* candidate lines, each named by the evidence type of its path
    None,        \* an absent file, a value not read yet
    MaxCalls,    \* bound: commands started
    MaxEdits     \* bound: files the owner writes

\* What MCBenchmark assumes of them.
BenchmarkAssumption ==
    /\ MustHave \subseteq Criterion /\ MustHave # {} /\ NeedsTest \subseteq Criterion
    /\ None \notin Version /\ IsFiniteSet(Criterion) /\ IsFiniteSet(Line)

VARIABLES
    criteriaFile,  \* criteria.json
    labelsFile,    \* candidate_labels.json
    sources,       \* whether the criteria-source index is published
    index,         \* the evidence index
    universe,      \* the annotation pair
    saved,         \* the saved reviews
    cmd,           \* the command each process runs
    calls, edits   \* how much of the bounds is used

vars == <<criteriaFile, labelsFile, sources, index, universe, saved, cmd, calls,
          edits>>

StaticTypes == {"implementation", "test", "documentation", "contract"}

\* A candidate of the cross product: a criterion and a changed line.
Key == Criterion \X Line

\* The product's gate, asked without resolutions.
Product == INSTANCE Gate WITH Criteria <- Criterion, Files <- {None},
                              NoRuntime <- None, NoProvenance <- None

-----------------------------------------------------------------------------
(* One pass over the case.                                                 *)

\* Types without a candidate the owner labelled relevant.
DeriveExpectedMissing(relevant) ==
    {k \in Criterion \X StaticTypes : k \notin relevant}

\* What retrieval can offer for the criteria: lines, and whether one of them
\* scores strongly.
Candidates == {f \in [lines : SUBSET Line, strong : BOOLEAN] : f.lines = {} => ~f.strong}

Retrievals == [Criterion -> Candidates]

\* The finding of a criterion, from its retrieved lines.
FindingOf(found, c) ==
    LET sufficient == c \in NeedsTest => "test" \in found[c].lines
    IN IF found[c].lines = {} THEN [status |-> "missing", short |-> TRUE]
       ELSE IF found[c].strong /\ sufficient
            THEN [status |-> "evidence_found", short |-> FALSE]
            ELSE [status |-> "partial", short |-> ~sufficient]

Retrieved(found) == {k \in Key : k[2] \in found[k[1]].lines}

\* Mutant: the product's gap is claimed even where its finding has none.
ExplainGapFirst(found, e) ==
    [criterion |-> e[1], type |-> e[2],
     status |-> FindingOf(found, e[1]).status,
     reason |-> "scopeproof_finding_explicit_gap"]

\* Why a type of evidence is missing: the finding says so, nothing of the type
\* was retrieved, or only what the owner labelled irrelevant.
Explanation(found, e) ==
    [criterion |-> e[1], type |-> e[2],
     status |-> FindingOf(found, e[1]).status,
     reason |-> IF FindingOf(found, e[1]).status # "evidence_found"
                THEN "scopeproof_finding_explicit_gap"
                ELSE IF e \notin Retrieved(found) THEN "no_candidate_retrieved_for_type"
                     ELSE "retrieved_only_owner_labelled_irrelevant"]

Conflict(found, labels) ==
    \E e \in labels.missing : e \in Retrieved(found) /\ e \in labels.relevant

\* The review of build_r002_review: static, checks never observed, no
\* inventory, no decision, no provenance, no final acceptance.
GateOfCase(found) ==
    Product!EvaluateGate(
        [confirmed |-> TRUE, provenance |-> None, final |-> FALSE],
        [check |-> "unavailable", ingestion |-> "complete",
         limited |-> FALSE, inventoried |-> FALSE],
        Criterion, [c \in Criterion |-> FindingOf(found, c)], {}, {}, <<>>)

\* What the case result's own validation accepts.
ValidExplanation(found, x, relevant) ==
    /\ x.reason = "scopeproof_finding_explicit_gap" <=>
           x.status \in {"partial", "missing", "needs_review"}
    /\ <<x.criterion, x.type>> \notin Retrieved(found) \cap relevant
    /\ x.reason = "no_candidate_retrieved_for_type" =>
           <<x.criterion, x.type>> \notin Retrieved(found)
    /\ x.reason = "retrieved_only_owner_labelled_irrelevant" =>
           <<x.criterion, x.type>> \in Retrieved(found)

ValidCaseResult(found, gate, explanations, relevant) ==
    /\ gate.verdict \in {"blocked", "needs_review"}
    /\ \/ gate.verdict = "blocked" /\ gate.blocking # {}
       \/ gate.verdict = "needs_review" /\ gate.blocking = {} /\ gate.unresolved # {}
    /\ gate.blocking \cap gate.conditional = {}
    /\ gate.blocking \cap gate.unresolved = {}
    /\ gate.conditional \cap gate.unresolved = {}
    /\ \A x \in explanations : ValidExplanation(found, x, relevant)

\* A ratio, refused when it exceeds one.
ValidMetric(some, all) == Cardinality(some) <= Cardinality(all)

WithGold(keys) == {k[1] : k \in keys}

ValidMetrics(found, explained, labels) ==
    /\ ValidMetric(Retrieved(found) \cap labels.relevant, Retrieved(found))
    /\ ValidMetric(WithGold(Retrieved(found) \cap labels.relevant), WithGold(labels.relevant))
    /\ ValidMetric({k[2] : k \in Retrieved(found)}, Line)
    /\ explained \cap labels.missing = labels.missing

\* The hard gate on a pass: what is explained is what is missing, and nothing
\* static is ever ready.
HardGate(gate, explained, labels) ==
    explained = labels.missing /\ gate.verdict # "ready"

\* How a pass ends.
Pass(found, labels) ==
    LET gate == GateOfCase(found)
        explanations == {Explanation(found, e) : e \in labels.missing}
        explained == {<<x.criterion, x.type>> : x \in explanations}
    IN IF ~(Retrieved(found) \subseteq labels.keys) THEN "reannotation_required"
       ELSE IF Conflict(found, labels) THEN "expected_missing_label_conflict"
       ELSE IF ~ValidCaseResult(found, gate, explanations, labels.relevant)
               \/ ~ValidMetrics(found, explained, labels)
            THEN "run_input_drift"
       ELSE IF HardGate(gate, explained, labels) THEN "result"
            ELSE "benchmark_gate_failed"

\* The criteria with a relevant candidate of which none was retrieved.
Misses(found, labels) ==
    WithGold(labels.relevant) \ WithGold(labels.relevant \cap Retrieved(found))

-----------------------------------------------------------------------------
(* Commands.                                                               *)

\* The stable reason a refusal is reported under.  `class` is the exception's.
MapFailure(op, class, code) ==
    CASE class = "boundary" -> code
      [] class = "run" ->
            IF code = "reannotation_required" THEN code
            ELSE IF code \in {"benchmark_gate_failed", "expected_missing_label_conflict",
                              "redaction_boundary_failed", "normalized_rerun_mismatch"}
                 THEN "benchmark_gate_failed"
                 ELSE "input_validation_failed"
      [] class = "network" ->
            IF code = "network_failure" THEN "network_unavailable"
            ELSE IF code = "redirect_limit" THEN "network_policy_failed"
                 ELSE "source_integrity_failed"
      [] class = "annotation" -> IF code = "prepared_cache_criteria_drift"
                                 THEN "criteria_not_confirmed"
                                 ELSE "annotation_required"
      [] class = "cache" -> IF op \in {"annotate", "run", "evidence"}
                            THEN "prepared_cache_missing" ELSE "filesystem_failed"

Ended(out) == [op |-> "none", pc |-> "idle", criteria |-> None, labels |-> None,
               universe |-> None, prepared |-> None, out |-> out]

At(p, pc) == cmd[p].pc = pc

Goto(p, pc) == cmd' = [cmd EXCEPT ![p].pc = pc]

Refuse(p, class, code) ==
    cmd' = [cmd EXCEPT ![p] = Ended(MapFailure(cmd[p].op, class, code))]

Finish(p, out) == cmd' = [cmd EXCEPT ![p] = Ended(out)]

\* run_r002 reports any failure that is not a run error as input drift.
RefuseRead(p, class, code) ==
    IF cmd[p].op = "run" THEN Refuse(p, "run", "run_input_drift")
    ELSE IF cmd[p].op = "taxonomy" THEN Finish(p, "traceback")
         ELSE Refuse(p, class, code)

Symmetry == Permutations(Proc) \cup Permutations(Version)

files == <<criteriaFile, labelsFile, sources, index, universe, saved>>

quiet == <<files, calls, edits>>

\* Preflight, then the first file each command needs.
Start(p, op) ==
    /\ At(p, "idle") /\ calls < MaxCalls
    /\ calls' = calls + 1
    /\ LET missing == IF op # "sources" /\ criteriaFile = None THEN "criteria_missing"
                      ELSE IF op \in {"run", "taxonomy"} /\ labelsFile = None
                           THEN "labels_missing" ELSE "nothing"
       IN cmd' = [cmd EXCEPT ![p] =
                     IF missing = "nothing"
                     THEN [Ended("running") EXCEPT !.op = op,
                               !.pc = IF op = "sources" THEN "download" ELSE "criteria"]
                     ELSE Ended(IF op = "taxonomy" THEN "traceback" ELSE missing)]
    /\ UNCHANGED <<files, edits>>

\* load_confirmed_criteria.  Confirmation is part of the schema of the file.
LoadCriteria(p) ==
    /\ At(p, "criteria")
    /\ cmd' = [cmd EXCEPT ![p].criteria = criteriaFile,
                          ![p].pc = CASE cmd[p].op = "evidence" -> "match"
                                      [] cmd[p].op = "annotate" -> "index"
                                      [] OTHER -> "labels"]
    /\ UNCHANGED quiet

-----------------------------------------------------------------------------
(* prepare.                                                                *)

\* Evidence is requested only once the statements of the same manifest were
\* prepared, whatever the criteria file says.
MatchSources(p) ==
    /\ At(p, "match")
    /\ IF sources THEN Goto(p, "download")
                  ELSE Refuse(p, "cache", "criteria_source_index")
    /\ UNCHANGED quiet

\* The pinned dataset: at most three redirects, then the exact bytes.
Download(p) ==
    /\ At(p, "download")
    /\ \E redirects \in 0..4, answer \in {"bytes", "network_failure", "dataset_identity_mismatch"} :
          IF redirects > 3 THEN Refuse(p, "network", "redirect_limit")
          ELSE IF answer # "bytes" THEN Refuse(p, "network", answer)
               ELSE Goto(p, IF cmd[p].op = "sources" THEN "publish" ELSE "fetch")
    /\ UNCHANGED quiet

\* Pull-request metadata and head files of every case; the objects written on
\* the way are content addressed and named by no index yet.
FetchEvidence(p) ==
    /\ At(p, "fetch")
    /\ \E answer \in {"bytes", "network_failure", "pr_head_sha_mismatch"} :
          IF answer = "bytes" THEN Goto(p, "publish") ELSE Refuse(p, "network", answer)
    /\ UNCHANGED quiet

\* The index is the last thing written, for the criteria read at the start.
Publish(p) ==
    /\ At(p, "publish")
    /\ IF cmd[p].op = "sources" THEN sources' = TRUE /\ UNCHANGED index
                                ELSE index' = cmd[p].criteria /\ UNCHANGED sources
    /\ Finish(p, "complete")
    /\ UNCHANGED <<criteriaFile, labelsFile, universe, saved, calls, edits>>

-----------------------------------------------------------------------------
(* annotate, run and the taxonomy.                                         *)

AfterIndex == [annotate |-> "pair", run |-> "pass", taxonomy |-> "misses"]

\* Mutant: an index is accepted whatever criteria it was prepared for.
LoadAnyIndex(p) ==
    /\ At(p, "index")
    /\ IF index = None THEN RefuseRead(p, "annotation", "prepared_cache_criteria_drift")
       ELSE cmd' = [cmd EXCEPT ![p].prepared = index, ![p].pc = AfterIndex[cmd[p].op]]
    /\ UNCHANGED quiet

\* The index, bound to the criteria read before, and the evidence it names.
LoadIndex(p) ==
    /\ At(p, "index")
    /\ IF index # cmd[p].criteria
       THEN RefuseRead(p, "annotation", "prepared_cache_criteria_drift")
       ELSE cmd' = [cmd EXCEPT ![p].prepared = index, ![p].pc = AfterIndex[cmd[p].op]]
    /\ UNCHANGED quiet

WritePair(p) ==
    /\ At(p, "pair")
    /\ universe' = cmd[p].criteria
    /\ Finish(p, "complete")
    /\ UNCHANGED <<criteriaFile, labelsFile, sources, index, saved, calls, edits>>

\* The labels file: confirmed, made for the criteria read before.
LoadLabels(p) ==
    /\ At(p, "labels")
    /\ IF labelsFile.confirmed /\ labelsFile.criteria = cmd[p].criteria
       THEN cmd' = [cmd EXCEPT ![p].labels = labelsFile, ![p].pc = "recheck"]
       ELSE RefuseRead(p, "annotation", "candidate_label_upstream_drift")
    /\ UNCHANGED quiet

\* The labels as a whole: every candidate labelled, under the digest of the
\* universe those candidates make, with exactly the types they leave missing.
LabelsFit(labels) ==
    /\ labels.keys = Key /\ labels.universe = labels.criteria
    /\ labels.missing = DeriveExpectedMissing(labels.relevant)

\* load_confirmed_labels reads the criteria file again before it checks them.
RecheckCriteria(p) ==
    /\ At(p, "recheck")
    /\ IF criteriaFile = cmd[p].criteria /\ LabelsFit(cmd[p].labels)
       THEN Goto(p, IF cmd[p].op = "run" THEN "universe" ELSE "index")
       ELSE RefuseRead(p, "annotation", "candidate_label_upstream_drift")
    /\ UNCHANGED quiet

\* The universe the labels must have been given for.
ReadUniverse(p) ==
    /\ At(p, "universe")
    /\ IF universe = cmd[p].criteria /\ cmd[p].labels.universe = universe
       THEN cmd' = [cmd EXCEPT ![p].universe = universe, ![p].pc = "index"]
       ELSE RefuseRead(p, "run", "run_input_drift")
    /\ UNCHANGED quiet

\* The first pass saves the reviews before it scores them.
FirstPass(p) ==
    /\ At(p, "pass")
    /\ saved' = cmd[p].criteria
    /\ \E found \in Retrievals :
          LET outcome == Pass(found, cmd[p].labels)
          IN IF outcome = "result" THEN Goto(p, "again") ELSE Refuse(p, "run", outcome)
    /\ UNCHANGED <<criteriaFile, labelsFile, sources, index, universe, calls,
                   edits>>

\* The reviews are read back and the pass is repeated; retrieval is a function
\* of the rows, so the projections agree.
SecondPass(p) == At(p, "again") /\ Finish(p, "result") /\ UNCHANGED quiet

\* The taxonomy lists criteria of the labels whose candidates were all missed.
ListMisses(p) ==
    /\ At(p, "misses")
    /\ \E found \in Retrievals :
          Finish(p, IF Misses(found, cmd[p].labels) = {} THEN "no_miss" ELSE "misses")
    /\ UNCHANGED quiet

\* The redaction audit of a publication needs the index and the saved reviews.
Audit(p) ==
    /\ At(p, "idle") /\ calls < MaxCalls
    /\ calls' = calls + 1
    /\ \E clean \in BOOLEAN :
          Finish(p, IF index # None /\ saved # None /\ clean THEN "audited"
                    ELSE "redaction_boundary_failed")
    /\ UNCHANGED <<files, edits>>

-----------------------------------------------------------------------------
(* The owner.                                                              *)

\* A proposal is built from the prepared statements and confirmed.
ConfirmCriteria(v) ==
    /\ sources /\ edits < MaxEdits /\ criteriaFile # v
    /\ edits' = edits + 1
    /\ criteriaFile' = v
    /\ UNCHANGED <<labelsFile, sources, index, universe, saved, cmd, calls>>

\* The candidates of the annotation pair are labelled; a slip of the owner
\* leaves one out, misstates what is missing or forgets to confirm.
ConfirmLabels(relevant, slip) ==
    /\ universe # None /\ edits < MaxEdits
    /\ edits' = edits + 1
    /\ labelsFile' = [criteria |-> universe, universe |-> universe,
                      keys |-> IF slip = "unlabelled"
                               THEN Key \ {CHOOSE k \in Key : TRUE} ELSE Key,
                      relevant |-> relevant,
                      missing |-> IF slip = "missing" THEN {}
                                  ELSE DeriveExpectedMissing(relevant),
                      confirmed |-> slip # "unconfirmed"]
    /\ UNCHANGED <<criteriaFile, sources, index, universe, saved, cmd, calls>>

-----------------------------------------------------------------------------

Init ==
    /\ criteriaFile = None /\ labelsFile = None
    /\ sources = FALSE /\ index = None /\ universe = None /\ saved = None
    /\ cmd = [p \in Proc |-> Ended("none")]
    /\ calls = 0 /\ edits = 0

Prepare(p) == MatchSources(p) \/ Download(p) \/ FetchEvidence(p) \/ Publish(p)

Score(p) == \/ LoadLabels(p) \/ RecheckCriteria(p) \/ ReadUniverse(p)
            \/ FirstPass(p) \/ SecondPass(p) \/ ListMisses(p)

Next ==
    \/ \E p \in Proc :
          \/ \E op \in {"sources", "evidence", "annotate", "run", "taxonomy"} : Start(p, op)
          \/ LoadCriteria(p) \/ Prepare(p) \/ LoadIndex(p) \/ WritePair(p)
          \/ Score(p) \/ Audit(p)
    \/ \E v \in Version : ConfirmCriteria(v)
    \/ \E relevant \in SUBSET Key : ConfirmLabels(relevant, "none")
    \/ \E slip \in {"unlabelled", "missing", "unconfirmed"} : ConfirmLabels({}, slip)

Spec == Init /\ [][Next]_vars

-----------------------------------------------------------------------------
(* Properties.                                                             *)

\* A result binds one chain: the labels it scores with, the universe in the
\* cache when they were checked and the evidence it retrieved from were all
\* made for the criteria it names, whatever was edited, prepared or annotated
\* while run_r002 read its five files one after the other.
OneChain ==
    [][\A p \in Proc :
         cmd[p].op = "run" /\ cmd'[p].out = "result" /\ cmd[p].pc # "idle" =>
             /\ cmd[p].labels.criteria = cmd[p].criteria
             /\ cmd[p].universe = cmd[p].criteria
             /\ cmd[p].prepared = cmd[p].criteria]_vars

\* Once its inputs have been accepted a run cannot fail: whatever the owner
\* labelled and whatever the product retrieves, every missing type gets one
\* explanation its validators accept, the gate is never ready, and no ratio
\* exceeds one (evaluate_r002_case, calculate_metrics, _hard_gate_codes and
\* the validators of R002CaseResult and R002Metrics agree).
AcceptedInputsAreScored ==
    [][\A p \in Proc : cmd[p].pc = "pass" /\ cmd'[p] # cmd[p] => cmd'[p].pc = "again"]_vars

=============================================================================
