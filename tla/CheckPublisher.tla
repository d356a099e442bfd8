---------------------------- MODULE CheckPublisher ----------------------------
(***************************************************************************)
(* scopeproof_core/github_action_publisher.py and its three workflows: the *)
(* informational Check of one pull request.  Every change of the pull      *)
(* request starts a workflow run, which waits for a runner as long as it   *)
(* likes.  A review run publishes the verdict of its analysis; withdrawal  *)
(* (label removed), unavailability (requirements not confirmed) and base   *)
(* advance runs turn the Check of the exact head back to Needs Review.  A  *)
(* run reads and writes GitHub in requests between which the pull request, *)
(* and other runs, may move.                                               *)
(*                                                                         *)
(* Commits are numbers.  A Check shows what was analysed, or Needs Review; *)
(* its texts are left out, and so are forks and runs without a token,      *)
(* which write nothing.                                                    *)
(***************************************************************************)
EXTENDS Naturals, Sequences

CONSTANTS
    Heads,       \* head commits; a force push may return to an earlier one
    MaxBase,     \* bound on the commits of the base branch
    MaxRuns,     \* bound on the workflow runs, so on the changes that cause one
    NeedsReview  \* what a Check shows when it shows no verdict

Bases == 1..MaxBase
Commits == [head: Heads, base: Bases]

ASSUME PublisherAssumption ==
    /\ MaxBase \in Nat \ {0} /\ MaxRuns \in Nat
    /\ Heads # {}
    /\ NeedsReview \notin Commits

VARIABLES
    pr,          \* the live pull request
    checks,      \* the trusted check runs of the repository, in order of creation
    runs,        \* the workflow runs, in order of their events
    undisturbed, \* the label is absent, and the commits are those of its removal
    aborted      \* some run was cut short by a failing request or runner

vars == <<pr, checks, runs, undisturbed, aborted>>

Pull == [at: Commits, label: BOOLEAN, open: BOOLEAN]

Check == [head: Heads, shows: Commits \union {NeedsReview}]

Kinds == {"review", "unavailability", "withdrawal", "advance"}
Phases == {"queued", "started", "validate", "list", "prewrite", "write",
           "postwrite", "compensate"}

\* `event`: the commits in the event payload; `shows`: what a review run has to
\* publish; `target`: the check run to update, 0 for a new one.
Active == [kind: Kinds, phase: Phases, event: Commits,
           shows: Commits \union {NeedsReview}, target: Nat]

Ended == [phase |-> "ended"]

Live == {i \in DOMAIN runs : runs[i] # Ended}

Init ==
    /\ \E h \in Heads :
         pr = [at |-> [head |-> h, base |-> 1], label |-> FALSE, open |-> TRUE]
    /\ checks = << >>
    /\ runs = << >>
    /\ undisturbed = TRUE
    /\ aborted = FALSE

-----------------------------------------------------------------------------
(* The pull request and its events.                                        *)

Queued(kind, p) == [kind |-> kind, phase |-> "queued", event |-> p.at,
                    shows |-> NeedsReview, target |-> 0]

SameGroup(r, head) == /\ r # Ended
                      /\ r.kind \in {"review", "unavailability"}
                      /\ r.event.head = head

\* A concurrency group runs its first run and keeps one waiting: a later run
\* takes the place of the one that waits.
Superseded(head) ==
    [i \in DOMAIN runs |->
       IF /\ SameGroup(runs[i], head)
          /\ \E j \in 1..(i - 1) : SameGroup(runs[j], head)
       THEN Ended ELSE runs[i]]

\* The pull request becomes p, which starts a run of the given kind.  A review
\* run enters its group even if its job is then skipped, as it is while the
\* label is absent.
Becomes(p, kind) ==
    /\ Len(runs) < MaxRuns
    /\ pr' = p
    /\ LET others == IF kind = "review" THEN Superseded(p.at.head) ELSE runs IN
         runs' = IF kind = "review" /\ ~p.label THEN others
                 ELSE Append(others, Queued(kind, p))
    /\ undisturbed' = (~p.label /\ (pr.label \/ (undisturbed /\ p.at = pr.at)))
    /\ UNCHANGED <<checks, aborted>>

Label == ~pr.label /\ Becomes([pr EXCEPT !.label = TRUE], "review")

Unlabel == pr.label /\ Becomes([pr EXCEPT !.label = FALSE], "withdrawal")

Push(h) == /\ pr.open /\ h # pr.at.head
           /\ Becomes([pr EXCEPT !.at.head = h], "review")

Reopen == ~pr.open /\ Becomes([pr EXCEPT !.open = TRUE], "review")

Close == pr.open /\ pr' = [pr EXCEPT !.open = FALSE]
         /\ UNCHANGED <<checks, runs, undisturbed, aborted>>

\* The base branch is the default branch.
AdvanceBase == /\ pr.at.base < MaxBase
               /\ Becomes([pr EXCEPT !.at.base = @ + 1], "advance")

PullChanges == \/ Label \/ Unlabel \/ Reopen \/ Close \/ AdvanceBase
               \/ \E h \in Heads : Push(h)

-----------------------------------------------------------------------------
(* Steps of a run.                                                         *)

In(i, phase) == i \in Live /\ runs[i].phase = phase

To(i, r) == runs' = [runs EXCEPT ![i] = r]

Ends(i) == To(i, Ended)

Reads == UNCHANGED <<pr, checks, undisturbed, aborted>>

\* _validate_live_pull
MatchesLive(r) ==
    /\ pr.at = r.event
    /\ pr.label = (r.kind # "withdrawal")
    /\ r.kind # "withdrawal" => pr.open

\* Mutant: the workflow has no concurrency group.
StartUngrouped(i) ==
    /\ In(i, "queued") /\ runs[i].kind = "review"
    /\ To(i, [runs[i] EXCEPT !.phase = "started"])
    /\ Reads

\* The first review run of a group gets a runner.
Start(i) ==
    /\ In(i, "queued") /\ runs[i].kind = "review"
    /\ \A j \in Live : SameGroup(runs[j], runs[i].event.head) => i <= j
    /\ To(i, [runs[i] EXCEPT !.phase = "started"])
    /\ Reads

\* Mutant: the identity of the result is not compared with the event.
PublishableUnchecked(r) == {NeedsReview, pr.at}

\* validate_review_result_identity: the review read the live pull request, and
\* its verdict is kept when that was the one of the event.
Publishable(r) == {NeedsReview} \union ({pr.at} \intersect {r.event})

\* The review step, or what the workflow does when it cannot confirm the
\* checked-in requirements.
Analyse(i) ==
    /\ In(i, "started") /\ runs[i].kind = "review"
    /\ \/ \E shows \in Publishable(runs[i]) :
            To(i, [runs[i] EXCEPT !.phase = "validate", !.shows = shows])
       \/ To(i, [runs[i] EXCEPT !.phase = "validate", !.kind = "unavailability"])
    /\ Reads

StartWithdrawal(i) ==
    /\ In(i, "queued") /\ runs[i].kind = "withdrawal"
    /\ To(i, [runs[i] EXCEPT !.phase = "validate"])
    /\ Reads

\* publish_base_advance_invalidations lists the open, labelled pull requests; it
\* raises when the base has moved on, and takes the head as it is now.
Enumerate(i) ==
    /\ In(i, "queued") /\ runs[i].kind = "advance"
    /\ IF pr.label /\ pr.open /\ pr.at.base = runs[i].event.base
       THEN To(i, [runs[i] EXCEPT !.phase = "validate", !.event = pr.at])
       ELSE Ends(i)
    /\ Reads

\* The first and the last look at the live pull request before a write.
Validate(i) ==
    /\ i \in Live /\ runs[i].phase \in {"validate", "prewrite"}
    /\ IF MatchesLive(runs[i])
       THEN To(i, [runs[i] EXCEPT !.phase = IF @ = "validate" THEN "list" ELSE "write"])
       ELSE Ends(i)
    /\ Reads

\* _read_existing_checks: the trusted check runs of the head in the event.
Matches(r) == {k \in DOMAIN checks : checks[k].head = r.event.head}

\* plan_check: update the one Check of this head, create it (review runs only),
\* or refuse to choose among several.
List(i) ==
    /\ In(i, "list")
    /\ LET matches == Matches(runs[i]) IN
         \/ \E k \in matches :
              matches = {k} /\ To(i, [runs[i] EXCEPT !.phase = "prewrite", !.target = k])
         \/ /\ matches = {} /\ runs[i].kind = "review"
            /\ To(i, [runs[i] EXCEPT !.phase = "prewrite"])
         \/ /\ matches = {} => runs[i].kind # "review"
            /\ \A k \in matches : matches # {k}
            /\ Ends(i)
    /\ Reads

\* POST or PATCH of a review run, which then looks again.
Publish(i) ==
    /\ In(i, "write") /\ runs[i].kind = "review"
    /\ LET check == [head |-> runs[i].event.head, shows |-> runs[i].shows] IN
         IF runs[i].target = 0
         THEN /\ checks' = Append(checks, check)
              /\ To(i, [runs[i] EXCEPT !.phase = "postwrite", !.target = Len(checks')])
         ELSE /\ checks' = [checks EXCEPT ![runs[i].target] = check]
              /\ To(i, [runs[i] EXCEPT !.phase = "postwrite"])
    /\ UNCHANGED <<pr, undisturbed, aborted>>

\* PATCH of the other runs: _publish_existing_check_needs_review
Revoke(i) ==
    /\ In(i, "write") /\ runs[i].kind # "review"
    /\ checks' = [checks EXCEPT ![runs[i].target].shows = NeedsReview]
    /\ Ends(i)
    /\ UNCHANGED <<pr, undisturbed, aborted>>

\* Mutants: the run does not look again, or looks at the commits only.
RecheckNothing(i) == In(i, "postwrite") /\ Ends(i) /\ Reads
RecheckCommits(i) ==
    /\ In(i, "postwrite")
    /\ IF pr.at = runs[i].event THEN Ends(i)
                                ELSE To(i, [runs[i] EXCEPT !.phase = "compensate"])
    /\ Reads

\* The third look, which may itself fail.
Recheck(i) ==
    /\ In(i, "postwrite")
    /\ \/ MatchesLive(runs[i]) /\ Ends(i)
       \/ To(i, [runs[i] EXCEPT !.phase = "compensate"])
    /\ Reads

\* _compensate_stale_publication
Compensate(i) ==
    /\ In(i, "compensate")
    /\ checks' = [checks EXCEPT ![runs[i].target].shows = NeedsReview]
    /\ Ends(i)
    /\ UNCHANGED <<pr, undisturbed, aborted>>

\* A request fails for good, the answer to a write is lost, or the runner dies.
Abort(i) ==
    /\ i \in Live
    /\ Ends(i)
    /\ aborted' = TRUE
    /\ UNCHANGED <<pr, checks, undisturbed>>

RunStep(i) ==
    \/ Start(i) \/ Analyse(i) \/ StartWithdrawal(i) \/ Enumerate(i)
    \/ Validate(i) \/ List(i) \/ Publish(i) \/ Revoke(i)
    \/ Recheck(i) \/ Compensate(i) \/ Abort(i)

Next == PullChanges \/ \E i \in DOMAIN runs : RunStep(i)

Spec == Init /\ [][Next]_vars

-----------------------------------------------------------------------------
(* Properties.                                                             *)

\* A run that updates a check run knows which: only a review run has none to
\* update, and creates one.
HasTarget(r) ==
    IF r.phase \in {"queued", "started", "validate", "list"} THEN r.target = 0
    ELSE \/ r.target \in DOMAIN checks
         \/ r.target = 0 /\ r.phase \in {"prewrite", "write"} /\ r.kind = "review"

\* Every variable holds a value of its type.
TypeOK ==
    /\ pr \in Pull
    /\ checks \in Seq(Check)
    /\ runs \in Seq(Active \union {Ended})
    /\ \A i \in Live : HasTarget(runs[i])
    /\ undisturbed \in BOOLEAN /\ aborted \in BOOLEAN

\* Every event was answered, and no request failed on the way.
Settled == Live = {} /\ ~aborted

\* There is never a second Check for the same head: with two of them every
\* later run would refuse to choose, and none could be revoked any more.
OneCheckPerHead ==
    \A j, k \in DOMAIN checks : checks[j].head = checks[k].head => j = k

\* A verdict is shown at the head that was analysed, whatever the pull request
\* pointed to in the meantime and whatever failed.
VerdictsShowTheirHead ==
    \A k \in DOMAIN checks :
      checks[k].shows # NeedsReview => checks[k].shows.head = checks[k].head

\* Once everything settled, the Check of an open, labelled pull request does
\* not show a verdict for another base: stale verdicts are all revoked.
SettledVerdictIsCurrent ==
    Settled /\ pr.open /\ pr.label =>
      \A k \in DOMAIN checks :
        checks[k].head = pr.at.head => checks[k].shows \in {NeedsReview, pr.at}

\* Once everything settled, no delayed run has restored a verdict after the
\* label was removed, as long as neither branch moved since.
WithdrawnStaysWithdrawn ==
    Settled /\ undisturbed =>
      \A k \in DOMAIN checks :
        checks[k].head = pr.at.head => checks[k].shows = NeedsReview

\* docs/github-action.md says of removing the label that "an existing trusted
\* exact-head Check is updated to neutral Needs Review".
RemovedLabelRevokes ==
    Settled /\ ~pr.label =>
      \A k \in DOMAIN checks :
        checks[k].head = pr.at.head => checks[k].shows = NeedsReview

=============================================================================
