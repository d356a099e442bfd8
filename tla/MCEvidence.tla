----------------------------- MODULE MCEvidence -----------------------------
(***************************************************************************)
(* One pull request with two heads: at each one changed file "a" and one   *)
(* unchanged file "b".  The baselines are analyses of other reviews: one   *)
(* at the same head, one at another, one under older rules, one of other   *)
(* criteria.                                                               *)
(***************************************************************************)
EXTENDS Evidence

CONSTANTS c1, c2

L(path, number, text) == [path |-> path, number |-> number, text |-> text]

MCSuites == {{"t"}, {}}

MCInventory == [h \in Heads |-> {"a"}]

MCContent == [h \in Heads |->
    IF h = "h1" THEN {L("a", 1, "x"), L("b", 1, "z")}
                ELSE {L("a", 2, "x"), L("b", 1, "z")}]

MCRetrieved ==
    {EvidenceItem(1, c1, "h1", L("a", 1, "x"), "lexical", TRUE),
     EvidenceItem(2, c1, "h1", L("b", 1, "z"), "lexical", FALSE)}

Decisive == (c1 :> "accepted") @@ (c2 :> "accepted")

Baseline(id, head, ruleset, source, evidence) ==
    [Analysis([review |-> id, head |-> head, revision |-> 1], source, ruleset, evidence)
        EXCEPT !.resolutions = Decisive]

MCBaselines ==
    {Baseline("same", "h1", "v2", "s1", MCRetrieved),
     Baseline("moved", "h2", "v2", "s1",
              {EvidenceItem(1, c1, "h2", L("a", 2, "x"), "lexical", TRUE)}),
     Baseline("older", "h1", "v1", "s1", {}),
     Baseline("other", "h1", "v2", "s2", {})}

\* No record comes back once it was replaced.  So a stale request of a shell
\* can only be refused, and what a browser in conflict shows only counts for
\* its source context.
Shown(x) ==
    IF x.open = None \/ ~x.conflict THEN x
    ELSE [x EXCEPT !.open = Context(x.open), !.draft = None, !.staged = None]

\* No context comes back either, and a revision has a new one: what is known
\* against a context counts while it is the saved one or the one shown.  A
\* receipt counts while the analysis is pending.
Counting(x) ==
    IF x.open = None THEN [x EXCEPT !.guard = @ \intersect {Context(record)}]
    ELSE [Shown(x) EXCEPT
            !.guard = @ \intersect {Context(record), Context(x.open)},
            !.receipt = IF x.open.bundle = None THEN @ ELSE None]

Seen(s) ==
    IF s \in Shells THEN session[s].open = record
    ELSE <<Counting(session[s]), Pending(s), Context(record) \in known[s]>>

EvidenceView == <<record, github, clock, [s \in DOMAIN session |-> Seen(s)]>>
=============================================================================
