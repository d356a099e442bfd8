------------------------- MODULE CheckPublisherProofs -------------------------
(***************************************************************************)
(* Theorems about CheckPublisher, for any heads, any number of base        *)
(* commits and any number of workflow runs.                                *)
(***************************************************************************)
EXTENDS CheckPublisher, TLAPS

\* A review run that has left the queue is the first of its concurrency group.
FirstOfGroup ==
    \A i, j \in Live :
      /\ SameGroup(runs[i], runs[i].event.head) /\ runs[i].phase # "queued"
      /\ SameGroup(runs[j], runs[i].event.head)
      => i <= j

\* A review run that is going to create a Check found none, and none was
\* created since.
CreatesFirst ==
    \A i \in Live :
      /\ runs[i].kind = "review" /\ runs[i].phase \in {"prewrite", "write"}
      /\ runs[i].target = 0
      => \A k \in DOMAIN checks : checks[k].head # runs[i].event.head

\* A run updates the Check of the head in its event.
UpdatesItsHead ==
    \A i \in Live :
      runs[i].phase \in {"prewrite", "write", "postwrite", "compensate"}
        /\ runs[i].target # 0
      => checks[runs[i].target].head = runs[i].event.head

\* A run publishes what was analysed at the commits of its event.
PublishesItsEvent ==
    \A i \in Live : runs[i].shows # NeedsReview =>
      runs[i].kind \in {"review", "unavailability"} /\ runs[i].shows = runs[i].event

\* The invariant of the publisher.
PublisherInv ==
    /\ TypeOK
    /\ FirstOfGroup /\ CreatesFirst /\ UpdatesItsHead /\ PublishesItsEvent
    /\ OneCheckPerHead /\ VerdictsShowTheirHead

-----------------------------------------------------------------------------
(* Runs and their types.                                                   *)

\* A run that has ended is not active.
LEMMA EndedIsNotActive == Ended \notin Active
  BY DEF Ended, Active, Phases

\* A live run is a run, active and not over.
LEMMA LiveIsActive ==
  ASSUME TypeOK, NEW i \in Live
  PROVE  i \in DOMAIN runs /\ runs[i] \in Active /\ runs[i] # Ended
  BY DEF TypeOK, Live

\* One run moves on or ends, the others stay as they are.
LEMMA OneRunMoves ==
  ASSUME TypeOK, NEW i \in Live, NEW r \in Active \union {Ended}, To(i, r)
  PROVE  /\ runs' \in Seq(Active \union {Ended})
         /\ DOMAIN runs' = DOMAIN runs
         /\ runs'[i] = r
         /\ \A j \in DOMAIN runs : j # i => runs'[j] = runs[j]
  BY DEF TypeOK, Live, To

\* A run ends without writing.
LEMMA EndKeepsInv ==
  ASSUME PublisherInv, NEW i \in Live, Ends(i),
         UNCHANGED checks, UNCHANGED pr, undisturbed' \in BOOLEAN, aborted' \in BOOLEAN
  PROVE  PublisherInv'
  <1>1. TypeOK BY DEF PublisherInv
  <1>2. To(i, Ended) BY DEF Ends
  <1>3. /\ runs' \in Seq(Active \union {Ended})
        /\ DOMAIN runs' = DOMAIN runs
        /\ runs'[i] = Ended
        /\ \A j \in DOMAIN runs : j # i => runs'[j] = runs[j]
    BY <1>1, <1>2, OneRunMoves
  <1>4. Live' \subseteq Live /\ \A j \in Live' : runs'[j] = runs[j]
    BY <1>3 DEF Live
  <1>5. TypeOK'
    BY <1>1, <1>3, <1>4 DEF TypeOK, HasTarget
  <1>6. FirstOfGroup' /\ CreatesFirst' /\ UpdatesItsHead' /\ PublishesItsEvent'
    BY <1>4 DEF PublisherInv, FirstOfGroup, CreatesFirst, UpdatesItsHead,
                PublishesItsEvent, SameGroup
  <1>7. OneCheckPerHead' /\ VerdictsShowTheirHead'
    BY DEF PublisherInv, OneCheckPerHead, VerdictsShowTheirHead
  <1> QED BY <1>5, <1>6, <1>7 DEF PublisherInv

\* A run goes on without writing: it keeps its event and what it publishes, or
\* obtains them as Analyse and Enumerate do.
LEMMA MoveKeepsInv ==
  ASSUME PublisherInv, NEW i \in Live, NEW r \in Active, To(i, r),
         UNCHANGED <<pr, checks, undisturbed, aborted>>,
         HasTarget(r),
         r.shows # NeedsReview =>
           r.kind \in {"review", "unavailability"} /\ r.shows = r.event,
         r.kind = "review" /\ r.phase \in {"prewrite", "write"} /\ r.target = 0
           => \A k \in DOMAIN checks : checks[k].head # r.event.head,
         r.phase \in {"prewrite", "write", "postwrite", "compensate"} /\ r.target # 0
           => checks[r.target].head = r.event.head,
         r.kind \in {"review", "unavailability"} =>
           /\ runs[i].kind \in {"review", "unavailability"}
           /\ r.event = runs[i].event
           /\ \/ r.phase = "queued"
              \/ runs[i].phase # "queued"
              \/ \A j \in Live : SameGroup(runs[j], r.event.head) => i <= j
  PROVE  PublisherInv'
  <1>1. TypeOK BY DEF PublisherInv
  <1>2. r # Ended BY EndedIsNotActive
  <1>3. /\ runs' \in Seq(Active \union {Ended})
        /\ DOMAIN runs' = DOMAIN runs
        /\ runs'[i] = r
        /\ \A j \in DOMAIN runs : j # i => runs'[j] = runs[j]
    BY <1>1, OneRunMoves
  <1>4. Live' = Live /\ \A j \in Live : j # i => runs'[j] = runs[j]
    BY <1>2, <1>3 DEF Live
  <1>5. TypeOK'
    BY <1>1, <1>3, <1>4 DEF TypeOK, HasTarget
  <1>6. FirstOfGroup'
    <2>1. SUFFICES ASSUME NEW j \in Live, NEW k \in Live,
                          SameGroup(runs'[j], runs'[j].event.head), runs'[j].phase # "queued",
                          SameGroup(runs'[k], runs'[j].event.head)
                   PROVE  j <= k
      BY <1>4 DEF FirstOfGroup
    <2>2. j \in Nat /\ k \in Nat BY <1>1 DEF Live, TypeOK
    <2>3. CASE j = i /\ k = i BY <2>2, <2>3
    <2>4. CASE j = i /\ k # i
      <3>1. SameGroup(r, r.event.head) /\ r.phase # "queued"
            /\ SameGroup(runs[k], r.event.head)
        BY <1>3, <1>4, <2>1, <2>4
      <3>2. /\ SameGroup(runs[i], runs[i].event.head) /\ r.event = runs[i].event
            /\ \/ runs[i].phase # "queued"
               \/ \A l \in Live : SameGroup(runs[l], r.event.head) => i <= l
        BY <3>1 DEF SameGroup, Live
      <3> QED BY <2>4, <3>1, <3>2 DEF PublisherInv, FirstOfGroup
    <2>5. CASE j # i /\ k = i
      <3>1. SameGroup(runs[j], runs[j].event.head) /\ runs[j].phase # "queued"
            /\ SameGroup(r, runs[j].event.head)
        BY <1>3, <1>4, <2>1, <2>5
      <3>2. SameGroup(runs[i], runs[j].event.head)
        BY <3>1 DEF SameGroup, Live
      <3> QED BY <2>5, <3>1, <3>2 DEF PublisherInv, FirstOfGroup
    <2>6. CASE j # i /\ k # i
      BY <1>4, <2>1, <2>6 DEF PublisherInv, FirstOfGroup
    <2> QED BY <2>3, <2>4, <2>5, <2>6
  <1>7. CreatesFirst' /\ UpdatesItsHead' /\ PublishesItsEvent'
    BY <1>3, <1>4 DEF PublisherInv, CreatesFirst, UpdatesItsHead, PublishesItsEvent
  <1>8. OneCheckPerHead' /\ VerdictsShowTheirHead'
    BY DEF PublisherInv, OneCheckPerHead, VerdictsShowTheirHead
  <1> QED BY <1>5, <1>6, <1>7, <1>8 DEF PublisherInv

-----------------------------------------------------------------------------
(* The initial state and the pull request.                                 *)

\* In the beginning there are no runs and no Checks.
LEMMA InitInv == Init => PublisherInv
  <1> SUFFICES ASSUME Init PROVE PublisherInv OBVIOUS
  <1>1. Live = {} BY DEF Init, Live
  <1>2. TypeOK
    <2>1. 1 \in Bases BY PublisherAssumption DEF Bases
    <2>2. pr \in Pull BY <2>1 DEF Init, Pull, Commits
    <2>3. checks \in Seq(Check) /\ runs \in Seq(Active \union {Ended}) BY DEF Init
    <2>4. undisturbed \in BOOLEAN /\ aborted \in BOOLEAN BY DEF Init
    <2> QED BY <1>1, <2>2, <2>3, <2>4 DEF TypeOK
  <1> QED
    BY <1>1, <1>2 DEF Init, PublisherInv, FirstOfGroup, CreatesFirst, UpdatesItsHead,
                      PublishesItsEvent, OneCheckPerHead, VerdictsShowTheirHead

\* An event leaves the runs that are not superseded alone and adds one that is
\* still queued.
LEMMA EventKeepsInv ==
  ASSUME PublisherInv, NEW p \in Pull, NEW kind \in {"review", "withdrawal", "advance"},
         Becomes(p, kind)
  PROVE  PublisherInv'
  <1> DEFINE new == Queued(kind, p)
             last == Len(runs) + 1
             old == IF kind = "review" THEN Superseded(p.at.head) ELSE runs
  <1>1. TypeOK BY DEF PublisherInv
  <1>2. new \in Active /\ new # Ended
    BY EndedIsNotActive DEF Queued, Active, Pull, Kinds, Phases
  <1>3. /\ old \in Seq(Active \union {Ended})
        /\ Len(old) = Len(runs)
        /\ \A j \in DOMAIN old : old[j] = runs[j] \/ old[j] = Ended
    BY <1>1 DEF Superseded, TypeOK
  <1>4. \/ runs' = Append(old, new)
        \/ runs' = old
    BY DEF Becomes
  <1>5. /\ runs' \in Seq(Active \union {Ended})
        /\ \A j \in Live' : \/ j \in Live /\ runs'[j] = runs[j]
                            \/ j = last /\ runs'[j] = new
    <2>1. CASE runs' = old BY <1>1, <1>3, <2>1 DEF Live, TypeOK
    <2>2. CASE runs' = Append(old, new)
      <3>1. runs' \in Seq(Active \union {Ended}) BY <1>2, <1>3, <2>2
      <3>2. DOMAIN runs' = 1..(Len(runs) + 1) BY <1>3, <2>2
      <3>3. \A j \in 1..Len(runs) : runs'[j] = old[j] BY <1>3, <2>2
      <3>4. runs'[Len(runs) + 1] = new BY <1>3, <2>2
      <3>5. DOMAIN old = 1..Len(runs) /\ DOMAIN runs = 1..Len(runs)
        BY <1>1, <1>3 DEF TypeOK
      <3>6. Len(runs) \in Nat BY <1>1 DEF TypeOK
      <3>7. ASSUME NEW j \in Live'
            PROVE  (j \in Live /\ runs'[j] = runs[j]) \/ (j = last /\ runs'[j] = new)
        <4>1. j \in 1..(Len(runs) + 1) /\ runs'[j] # Ended BY <3>2, <3>7 DEF Live
        <4>2. CASE j = Len(runs) + 1 BY <3>4, <4>2
        <4>3. CASE j # Len(runs) + 1
          <5>1. j \in 1..Len(runs) BY <3>6, <4>1, <4>3
          <5>2. runs'[j] = runs[j] BY <1>3, <3>3, <3>5, <4>1, <5>1
          <5> QED BY <3>5, <4>1, <5>1, <5>2 DEF Live
        <4> QED BY <4>2, <4>3
      <3> QED BY <3>1, <3>7
    <2> QED BY <1>4, <2>1, <2>2
  <1>6. new.phase = "queued" /\ new.shows = NeedsReview /\ new.target = 0 BY DEF Queued
  <1>7. checks' = checks BY DEF Becomes
  <1>8. TypeOK'
    <2>1. pr' \in Pull /\ undisturbed' \in BOOLEAN /\ aborted' \in BOOLEAN
      BY <1>1 DEF Becomes, TypeOK
    <2>2. \A j \in Live' : HasTarget(runs[j])'
      BY <1>1, <1>5, <1>6, <1>7 DEF HasTarget, TypeOK
    <2> QED BY <1>1, <1>5, <1>7, <2>1, <2>2 DEF TypeOK
  <1>9. FirstOfGroup'
    <2>1. \A j \in Live : j \in Nat /\ j <= last BY <1>1 DEF Live, TypeOK
    <2>2. last \in Nat BY <1>1 DEF TypeOK
    <2> HIDE DEF new, last, old
    <2> QED BY <1>5, <1>6, <2>1, <2>2 DEF PublisherInv, FirstOfGroup
  <1>10. CreatesFirst' /\ UpdatesItsHead' /\ PublishesItsEvent'
    BY <1>5, <1>6, <1>7 DEF PublisherInv, CreatesFirst, UpdatesItsHead, PublishesItsEvent
  <1>11. OneCheckPerHead' /\ VerdictsShowTheirHead'
    BY <1>7 DEF PublisherInv, OneCheckPerHead, VerdictsShowTheirHead
  <1> QED BY <1>8, <1>9, <1>10, <1>11 DEF PublisherInv

\* A change of the pull request starts a run at the end of the queue and writes nothing.
LEMMA PullChangeKeepsInv == PublisherInv /\ PullChanges => PublisherInv'
  <1> SUFFICES ASSUME PublisherInv, PullChanges PROVE PublisherInv' OBVIOUS
  <1>0. pr \in Pull BY DEF PublisherInv, TypeOK
  <1>1. CASE Label
    <2>1. [pr EXCEPT !.label = TRUE] \in Pull BY <1>0 DEF Pull
    <2> QED BY <1>1, <2>1, EventKeepsInv DEF Label
  <1>2. CASE Unlabel
    <2>1. [pr EXCEPT !.label = FALSE] \in Pull BY <1>0 DEF Pull
    <2> QED BY <1>2, <2>1, EventKeepsInv DEF Unlabel
  <1>3. CASE Reopen
    <2>1. [pr EXCEPT !.open = TRUE] \in Pull BY <1>0 DEF Pull
    <2> QED BY <1>3, <2>1, EventKeepsInv DEF Reopen
  <1>4. CASE Close
    <2>1. pr' \in Pull BY <1>0, <1>4 DEF Close, Pull
    <2> QED BY <1>4, <2>1 DEF Close, PublisherInv, TypeOK, Live, HasTarget, FirstOfGroup,
              CreatesFirst, UpdatesItsHead, PublishesItsEvent, OneCheckPerHead,
              VerdictsShowTheirHead
  <1>5. CASE AdvanceBase
    <2>1. [pr EXCEPT !.at.base = @ + 1] \in Pull
      BY <1>0, <1>5, PublisherAssumption DEF AdvanceBase, Pull, Commits, Bases
    <2> QED BY <1>5, <2>1, EventKeepsInv DEF AdvanceBase
  <1>6. ASSUME NEW h \in Heads, Push(h) PROVE PublisherInv'
    <2>1. [pr EXCEPT !.at.head = h] \in Pull BY <1>0 DEF Pull, Commits
    <2> QED BY <1>6, <2>1, EventKeepsInv DEF Push
  <1> QED BY <1>1, <1>2, <1>3, <1>4, <1>5, <1>6 DEF PullChanges

-----------------------------------------------------------------------------
(* Steps of a run.                                                         *)

\* A run that found the check run it writes to makes it show x, and goes on as r.
LEMMA UpdateKeepsInv ==
  ASSUME PublisherInv, NEW i \in Live, NEW x \in Commits \union {NeedsReview},
         runs[i].target \in DOMAIN checks,
         checks[runs[i].target].head = runs[i].event.head,
         x # NeedsReview => x = runs[i].event,
         checks' = [checks EXCEPT ![runs[i].target].shows = x],
         UNCHANGED <<pr, undisturbed>>, aborted' \in BOOLEAN,
         \/ Ends(i)
         \/ To(i, [runs[i] EXCEPT !.phase = "postwrite"]) /\ runs[i].phase = "write"
  PROVE  PublisherInv'
  <1>1. TypeOK BY DEF PublisherInv
  <1>2. runs[i] \in Active /\ runs[i] # Ended BY <1>1, LiveIsActive
  <1> DEFINE r == [runs[i] EXCEPT !.phase = "postwrite"]
  <1>3. r \in Active /\ r # Ended
    BY <1>2, EndedIsNotActive DEF Active, Phases
  <1>4. /\ runs' \in Seq(Active \union {Ended})
        /\ DOMAIN runs' = DOMAIN runs
        /\ \A j \in DOMAIN runs : j # i => runs'[j] = runs[j]
        /\ runs'[i] = Ended \/ (runs'[i] = r /\ runs[i].phase = "write")
    BY <1>1, <1>3, OneRunMoves DEF Ends
  <1>5. \A j \in Live' : /\ j \in Live
                        /\ \/ runs'[j] = runs[j]
                           \/ j = i /\ runs'[j] = r /\ runs[i].phase = "write"
    BY <1>4 DEF Live
  <1>6. /\ checks' \in Seq(Check)
        /\ DOMAIN checks' = DOMAIN checks
        /\ \A k \in DOMAIN checks : checks'[k].head = checks[k].head
        /\ \A k \in DOMAIN checks : k # runs[i].target => checks'[k] = checks[k]
        /\ checks'[runs[i].target].shows = x
    <2> DEFINE k == runs[i].target
    <2>1. checks \in Seq(Check) /\ k \in DOMAIN checks BY <1>1 DEF TypeOK
    <2>2. checks[k] \in Check BY <2>1
    <2>3. [checks[k] EXCEPT !.shows = x] \in Check BY <2>2 DEF Check
    <2>4. checks' = [checks EXCEPT ![k] = [checks[k] EXCEPT !.shows = x]] OBVIOUS
    <2> HIDE DEF k
    <2>5. checks' \in Seq(Check) /\ DOMAIN checks' = DOMAIN checks BY <2>1, <2>3, <2>4
    <2>6. checks'[k] = [checks[k] EXCEPT !.shows = x] BY <2>1, <2>4
    <2>7. checks'[k].shows = x /\ checks'[k].head = checks[k].head BY <2>2, <2>6 DEF Check
    <2>8. \A l \in DOMAIN checks : l # k => checks'[l] = checks[l] BY <2>1, <2>4
    <2> QED BY <2>5, <2>7, <2>8 DEF k
  <1>7. /\ r.kind = runs[i].kind /\ r.event = runs[i].event /\ r.shows = runs[i].shows
        /\ r.target = runs[i].target /\ r.phase = "postwrite"
    BY <1>2 DEF Active
  <1> HIDE DEF r
  <1>8. TypeOK'
    <2>1. ASSUME NEW j \in Live' PROVE HasTarget(runs[j])'
      <3>1. CASE runs'[j] = r BY <1>6, <1>7, <3>1 DEF HasTarget
      <3>2. CASE runs'[j] = runs[j]
        <4>1. HasTarget(runs[j]) BY <1>1, <1>5 DEF TypeOK
        <4> QED BY <1>6, <3>2, <4>1 DEF HasTarget
      <3> QED BY <1>5, <3>1, <3>2
    <2> QED BY <1>1, <1>4, <1>6, <2>1 DEF TypeOK
  <1>9. FirstOfGroup' BY <1>2, <1>5, <1>7 DEF PublisherInv, FirstOfGroup, SameGroup
  <1>10. CreatesFirst' /\ UpdatesItsHead' /\ PublishesItsEvent'
    <2>1. CreatesFirst' BY <1>5, <1>6, <1>7 DEF PublisherInv, CreatesFirst
    <2>2. UpdatesItsHead'
      <3> SUFFICES ASSUME NEW j \in Live',
                          runs'[j].phase \in {"prewrite", "write", "postwrite", "compensate"},
                          runs'[j].target # 0
                   PROVE  checks'[runs'[j].target].head = runs'[j].event.head
        BY DEF UpdatesItsHead
      <3>1. CASE runs'[j] = r /\ j = i BY <1>6, <1>7, <3>1
      <3>2. CASE runs'[j] = runs[j]
        <4>1. j \in Live BY <1>5
        <4>2. HasTarget(runs[j]) BY <1>1, <4>1 DEF TypeOK
        <4>3. runs[j].target \in DOMAIN checks BY <3>2, <4>2 DEF HasTarget
        <4>4. checks[runs[j].target].head = runs[j].event.head
          BY <3>2, <4>1 DEF PublisherInv, UpdatesItsHead
        <4> QED BY <1>6, <3>2, <4>3, <4>4
      <3> QED BY <1>5, <3>1, <3>2
    <2>3. PublishesItsEvent' BY <1>5, <1>7 DEF PublisherInv, PublishesItsEvent
    <2> QED BY <2>1, <2>2, <2>3
  <1>11. OneCheckPerHead' BY <1>6 DEF PublisherInv, OneCheckPerHead
  <1>12. VerdictsShowTheirHead'
    BY <1>6 DEF PublisherInv, VerdictsShowTheirHead
  <1> QED BY <1>8, <1>9, <1>10, <1>11, <1>12 DEF PublisherInv

\* The concurrency group is what makes creating a Check after looking safe.
LEMMA CreateKeepsInv ==
  ASSUME PublisherInv, NEW i \in Live, Publish(i), runs[i].target = 0
  PROVE  PublisherInv'
  <1>1. TypeOK BY DEF PublisherInv
  <1>2. runs[i] \in Active /\ runs[i] # Ended BY <1>1, LiveIsActive
  <1>3. runs[i].kind = "review" /\ runs[i].phase = "write" BY DEF Publish, In
  <1> DEFINE n == Len(checks) + 1
             check == [head |-> runs[i].event.head, shows |-> runs[i].shows]
             r == [runs[i] EXCEPT !.phase = "postwrite", !.target = n]
  <1>4. checks' = Append(checks, check) BY DEF Publish
  <1>5. check \in Check BY <1>2 DEF Active, Check, Commits
  <1>6. /\ checks' \in Seq(Check)
        /\ DOMAIN checks' = DOMAIN checks \union {n} /\ n \notin DOMAIN checks
        /\ n # 0 /\ n \in Nat /\ Len(checks') = n
        /\ checks'[n] = check
        /\ \A k \in DOMAIN checks : checks'[k] = checks[k]
    BY <1>1, <1>4, <1>5 DEF TypeOK
  <1>7. To(i, r) BY <1>6 DEF Publish
  <1>8. r \in Active /\ r # Ended BY <1>2, <1>6, EndedIsNotActive DEF Active, Phases
  <1>9. /\ runs' \in Seq(Active \union {Ended})
        /\ DOMAIN runs' = DOMAIN runs
        /\ runs'[i] = r
        /\ \A j \in DOMAIN runs : j # i => runs'[j] = runs[j]
    BY <1>1, <1>7, <1>8, OneRunMoves
  <1>10. Live' = Live /\ \A j \in Live : j # i => runs'[j] = runs[j]
    BY <1>8, <1>9 DEF Live
  <1>11. /\ r.kind = "review" /\ r.event = runs[i].event /\ r.shows = runs[i].shows
         /\ r.target = n /\ r.phase = "postwrite"
    BY <1>2, <1>3 DEF Active
  <1>12. check.head = runs[i].event.head /\ check.shows = runs[i].shows OBVIOUS
  <1>13. UNCHANGED <<pr, undisturbed, aborted>> BY DEF Publish
  <1> HIDE DEF r, check, n
  <1>14. TypeOK'
    <2>1. ASSUME NEW j \in Live PROVE HasTarget(runs[j])'
      <3>1. CASE j = i BY <1>6, <1>9, <1>11, <3>1 DEF HasTarget
      <3>2. CASE j # i
        <4>1. HasTarget(runs[j]) BY <1>1 DEF TypeOK
        <4> QED BY <1>6, <1>10, <3>2, <4>1 DEF HasTarget
      <3> QED BY <3>1, <3>2
    <2> QED BY <1>1, <1>6, <1>9, <1>10, <1>13, <2>1 DEF TypeOK
  <1>15. ASSUME NEW j \in Live, runs[j].kind = "review", runs[j].phase # "queued",
                runs[j].event.head = runs[i].event.head
         PROVE  j = i
    <2>1. runs[j] # Ended BY DEF Live
    <2>2. i \in Nat /\ j \in Nat BY <1>1 DEF Live, TypeOK
    <2>3. i <= j /\ j <= i
      BY <1>2, <1>3, <1>15, <2>1 DEF PublisherInv, FirstOfGroup, SameGroup
    <2> QED BY <2>2, <2>3
  <1>16. FirstOfGroup'
    BY <1>2, <1>3, <1>9, <1>10, <1>11 DEF PublisherInv, FirstOfGroup, SameGroup
  <1>17. CreatesFirst'
    BY <1>6, <1>9, <1>10, <1>11, <1>12, <1>15 DEF PublisherInv, CreatesFirst
  <1>18. UpdatesItsHead'
    <2> SUFFICES ASSUME NEW j \in Live,
                        runs'[j].phase \in {"prewrite", "write", "postwrite", "compensate"},
                        runs'[j].target # 0
                 PROVE  checks'[runs'[j].target].head = runs'[j].event.head
      BY <1>10 DEF UpdatesItsHead
    <2>1. CASE j = i BY <1>6, <1>9, <1>11, <1>12, <2>1
    <2>2. CASE j # i
      <3>1. HasTarget(runs[j]) BY <1>1 DEF TypeOK
      <3>2. runs[j].target \in DOMAIN checks BY <1>10, <2>2, <3>1 DEF HasTarget
      <3>3. checks[runs[j].target].head = runs[j].event.head
        BY <1>10, <2>2 DEF PublisherInv, UpdatesItsHead
      <3> QED BY <1>6, <1>10, <2>2, <3>2, <3>3
    <2> QED BY <2>1, <2>2
  <1>19. PublishesItsEvent'
    BY <1>9, <1>10, <1>11 DEF PublisherInv, PublishesItsEvent
  <1>20. OneCheckPerHead'
    <2>1. \A k \in DOMAIN checks : checks[k].head # check.head
      BY <1>3, <1>12 DEF PublisherInv, CreatesFirst
    <2> QED BY <1>6, <2>1 DEF PublisherInv, OneCheckPerHead
  <1>21. VerdictsShowTheirHead'
    BY <1>6, <1>12 DEF PublisherInv, VerdictsShowTheirHead, PublishesItsEvent
  <1> QED BY <1>14, <1>16, <1>17, <1>18, <1>19, <1>20, <1>21 DEF PublisherInv

\* Each step of a run keeps the invariant, one case per request it makes.
LEMMA RunStepKeepsInv ==
  ASSUME PublisherInv, NEW i \in DOMAIN runs, RunStep(i)
  PROVE  PublisherInv'
  <1>1. TypeOK BY DEF PublisherInv
  <1>2. i \in Live
    BY DEF RunStep, Start, Analyse, StartWithdrawal, Enumerate, Validate, List, Publish,
           Revoke, Recheck, Compensate, Abort, In
  <1>3. runs[i] \in Active /\ runs[i] # Ended /\ HasTarget(runs[i])
    BY <1>1, <1>2, LiveIsActive DEF TypeOK
  <1>4. runs[i].shows # NeedsReview =>
          runs[i].kind \in {"review", "unavailability"} /\ runs[i].shows = runs[i].event
    BY <1>2 DEF PublisherInv, PublishesItsEvent
  <1>5. pr.at \in Commits BY <1>1 DEF TypeOK, Pull
  <1>6. /\ undisturbed \in BOOLEAN /\ aborted \in BOOLEAN
    BY <1>1 DEF TypeOK
  \* the run with another phase
  <1> DEFINE at(ph) == [runs[i] EXCEPT !.phase = ph]
  <1>7. \A ph \in Phases : /\ at(ph) \in Active /\ at(ph).phase = ph
                          /\ at(ph).kind = runs[i].kind /\ at(ph).event = runs[i].event
                          /\ at(ph).shows = runs[i].shows
                          /\ at(ph).target = runs[i].target
    BY <1>3 DEF Active
  <1>22. runs[i].phase \in {"queued", "started", "validate", "list"} => runs[i].target = 0
    BY <1>3 DEF HasTarget
  <1>8. CASE Start(i)
    <2> DEFINE r == at("started")
    <2>1. "started" \in Phases BY DEF Phases
    <2>2. To(i, r) /\ UNCHANGED <<pr, checks, undisturbed, aborted>> BY <1>8 DEF Start, Reads
    <2>3. \A j \in Live : SameGroup(runs[j], runs[i].event.head) => i <= j
      BY <1>8 DEF Start
    <2>4. /\ r \in Active /\ r.phase = "started" /\ r.kind = runs[i].kind
          /\ r.event = runs[i].event /\ r.shows = runs[i].shows /\ r.target = 0
      BY <1>7, <1>8, <1>22, <2>1 DEF Start, In
    <2> HIDE DEF r
    <2>5. HasTarget(r) BY <2>4 DEF HasTarget
    <2> QED BY <1>2, <1>4, <2>2, <2>3, <2>4, <2>5, MoveKeepsInv
  <1>9. CASE Analyse(i)
    <2>1. runs[i].phase = "started" /\ runs[i].kind = "review"
      BY <1>9 DEF Analyse, In
    <2>2. UNCHANGED <<pr, checks, undisturbed, aborted>> BY <1>9 DEF Analyse, Reads
    <2>3. ASSUME NEW x \in Publishable(runs[i]),
                 To(i, [runs[i] EXCEPT !.phase = "validate", !.shows = x])
          PROVE  PublisherInv'
      <3> DEFINE r == [runs[i] EXCEPT !.phase = "validate", !.shows = x]
      <3>1. x = NeedsReview \/ (x = runs[i].event /\ x \in Commits)
        BY <1>3 DEF Publishable, Active
      <3>2. /\ r \in Active /\ r.phase = "validate" /\ r.kind = "review"
            /\ r.event = runs[i].event /\ r.shows = x /\ r.target = 0
        BY <1>3, <1>22, <2>1, <3>1 DEF Active, Phases
      <3>3. To(i, r) BY <2>3
      <3> HIDE DEF r
      <3>4. HasTarget(r) BY <3>2 DEF HasTarget
      <3> QED BY <1>2, <2>1, <2>2, <3>1, <3>2, <3>3, <3>4, MoveKeepsInv
    <2>4. ASSUME To(i, [runs[i] EXCEPT !.phase = "validate", !.kind = "unavailability"])
          PROVE  PublisherInv'
      <3> DEFINE r == [runs[i] EXCEPT !.phase = "validate", !.kind = "unavailability"]
      <3>1. /\ r \in Active /\ r.phase = "validate" /\ r.kind = "unavailability"
            /\ r.event = runs[i].event /\ r.shows = runs[i].shows /\ r.target = 0
        BY <1>3, <1>22, <2>1 DEF Active, Phases, Kinds
      <3>2. To(i, r) BY <2>4
      <3> HIDE DEF r
      <3>3. HasTarget(r) BY <3>1 DEF HasTarget
      <3> QED BY <1>2, <1>4, <2>1, <2>2, <3>1, <3>2, <3>3, MoveKeepsInv
    <2> QED BY <1>9, <2>3, <2>4 DEF Analyse
  <1>10. CASE StartWithdrawal(i)
    <2> DEFINE r == at("validate")
    <2>1. "validate" \in Phases BY DEF Phases
    <2>2. /\ To(i, r) /\ UNCHANGED <<pr, checks, undisturbed, aborted>>
          /\ runs[i].kind = "withdrawal"
      BY <1>10 DEF StartWithdrawal, Reads
    <2>3. /\ r \in Active /\ r.phase = "validate" /\ r.kind = runs[i].kind
          /\ r.event = runs[i].event /\ r.shows = runs[i].shows /\ r.target = 0
      BY <1>7, <1>10, <1>22, <2>1 DEF StartWithdrawal, In
    <2> HIDE DEF r
    <2>4. HasTarget(r) BY <2>3 DEF HasTarget
    <2> QED BY <1>2, <1>4, <2>2, <2>3, <2>4, MoveKeepsInv
  <1>11. CASE Enumerate(i)
    <2>1. runs[i].kind = "advance" /\ UNCHANGED <<pr, checks, undisturbed, aborted>>
      BY <1>11 DEF Enumerate, Reads
    <2>2. CASE Ends(i) BY <1>2, <1>6, <2>1, <2>2, EndKeepsInv
    <2>3. CASE To(i, [runs[i] EXCEPT !.phase = "validate", !.event = pr.at])
      <3> DEFINE r == [runs[i] EXCEPT !.phase = "validate", !.event = pr.at]
      <3>1. /\ r \in Active /\ r.phase = "validate" /\ r.kind = "advance"
            /\ r.shows = runs[i].shows /\ r.target = 0
        BY <1>3, <1>5, <1>11, <1>22, <2>1 DEF Active, Phases, Enumerate, In
      <3>2. To(i, r) BY <2>3
      <3> HIDE DEF r
      <3>3. HasTarget(r) BY <3>1 DEF HasTarget
      <3> QED BY <1>2, <1>4, <2>1, <3>1, <3>2, <3>3, MoveKeepsInv
    <2> QED BY <1>11, <2>2, <2>3 DEF Enumerate
  <1>12. CASE Validate(i)
    <2>1. UNCHANGED <<pr, checks, undisturbed, aborted>> BY <1>12 DEF Validate, Reads
    <2>2. CASE Ends(i) BY <1>2, <1>6, <2>1, <2>2, EndKeepsInv
    <2>3. CASE MatchesLive(runs[i])
      <3> DEFINE r == at(IF runs[i].phase = "validate" THEN "list" ELSE "write")
      <3>1. To(i, r) BY <1>12, <2>3 DEF Validate
      <3>2. \/ runs[i].phase = "validate" /\ r.phase = "list"
            \/ runs[i].phase = "prewrite" /\ r.phase = "write"
        BY <1>3, <1>12 DEF Validate, Active
      <3>3. /\ r \in Active /\ r.kind = runs[i].kind /\ r.event = runs[i].event
            /\ r.shows = runs[i].shows /\ r.target = runs[i].target
        BY <1>7 DEF Phases
      <3> HIDE DEF r
      <3>4. HasTarget(r) BY <1>3, <1>22, <3>2, <3>3 DEF HasTarget
      <3>5. r.kind = "review" /\ r.phase \in {"prewrite", "write"} /\ r.target = 0
              => \A k \in DOMAIN checks : checks[k].head # r.event.head
        BY <1>2, <3>2, <3>3 DEF PublisherInv, CreatesFirst
      <3>6. r.phase \in {"prewrite", "write", "postwrite", "compensate"} /\ r.target # 0
              => checks[r.target].head = r.event.head
        BY <1>2, <3>2, <3>3 DEF PublisherInv, UpdatesItsHead
      <3> QED BY <1>2, <1>4, <2>1, <3>1, <3>2, <3>3, <3>4, <3>5, <3>6, MoveKeepsInv
    <2> QED BY <1>12, <2>2, <2>3 DEF Validate
  <1>13. CASE List(i)
    <2> DEFINE matches == {k \in DOMAIN checks : checks[k].head = runs[i].event.head}
    <2>1. UNCHANGED <<pr, checks, undisturbed, aborted>> /\ runs[i].phase = "list"
      BY <1>13 DEF List, Reads, In
    <2>2. CASE Ends(i) BY <1>2, <1>6, <2>1, <2>2, EndKeepsInv
    <2>3. ASSUME NEW k \in matches,
                 To(i, [runs[i] EXCEPT !.phase = "prewrite", !.target = k])
          PROVE  PublisherInv'
      <3> DEFINE r == [runs[i] EXCEPT !.phase = "prewrite", !.target = k]
      <3>1. k \in Nat /\ k # 0 /\ k \in DOMAIN checks
        BY <1>1 DEF TypeOK
      <3>2. /\ r \in Active /\ r.phase = "prewrite" /\ r.kind = runs[i].kind
            /\ r.event = runs[i].event /\ r.shows = runs[i].shows /\ r.target = k
        BY <1>3, <3>1 DEF Active, Phases
      <3>3. To(i, r) BY <2>3
      <3> HIDE DEF r
      <3>4. HasTarget(r) BY <3>1, <3>2 DEF HasTarget
      <3> QED BY <1>2, <1>4, <2>1, <3>1, <3>2, <3>3, <3>4, MoveKeepsInv
    <2>4. CASE /\ matches = {} /\ runs[i].kind = "review"
               /\ To(i, at("prewrite"))
      <3> DEFINE r == at("prewrite")
      <3>1. "prewrite" \in Phases BY DEF Phases
      <3>2. /\ r \in Active /\ r.phase = "prewrite" /\ r.kind = "review"
            /\ r.event = runs[i].event /\ r.shows = runs[i].shows
            /\ r.target = runs[i].target
        BY <1>7, <2>4, <3>1
      <3>3. To(i, r) BY <2>4
      <3>4. \A k \in DOMAIN checks : checks[k].head # r.event.head
        BY <2>4, <3>2
      <3> HIDE DEF r
      <3>5. r.target = 0 BY <1>22, <2>1, <3>2
      <3>6. HasTarget(r) BY <3>2, <3>5 DEF HasTarget
      <3>7. runs[i].kind = "review" BY <2>4
      <3> QED BY <1>2, <1>4, <2>1, <3>2, <3>3, <3>4, <3>5, <3>6, <3>7, MoveKeepsInv
    <2> QED BY <1>13, <2>2, <2>3, <2>4 DEF List, Matches
  <1>14. CASE Publish(i)
    <2>1. runs[i].kind = "review" /\ runs[i].phase = "write" BY <1>14 DEF Publish, In
    <2>2. CASE runs[i].target = 0 BY <1>2, <1>14, <2>2, CreateKeepsInv
    <2>3. CASE runs[i].target # 0
      <3>1. runs[i].target \in DOMAIN checks BY <1>3, <2>1, <2>3 DEF HasTarget
      <3>2. checks[runs[i].target].head = runs[i].event.head
        BY <1>2, <2>1, <2>3 DEF PublisherInv, UpdatesItsHead
      <3>3. checks[runs[i].target] \in Check BY <1>1, <3>1 DEF TypeOK
      <3>4. [head |-> runs[i].event.head, shows |-> runs[i].shows]
              = [checks[runs[i].target] EXCEPT !.shows = runs[i].shows]
        BY <3>2, <3>3 DEF Check
      <3>5. checks' = [checks EXCEPT ![runs[i].target] =
                         [head |-> runs[i].event.head, shows |-> runs[i].shows]]
        BY <1>14, <2>3 DEF Publish
      <3>6. checks' = [checks EXCEPT ![runs[i].target].shows = runs[i].shows]
        BY <3>4, <3>5
      <3>7. To(i, [runs[i] EXCEPT !.phase = "postwrite"])
            /\ UNCHANGED <<pr, undisturbed, aborted>>
        BY <1>14, <2>3 DEF Publish
      <3>8. runs[i].shows \in Commits \union {NeedsReview} BY <1>3 DEF Active
      <3> QED BY <1>2, <1>4, <1>6, <2>1, <3>1, <3>2, <3>6, <3>7, <3>8, UpdateKeepsInv
    <2> QED BY <2>2, <2>3
  <1>15. ASSUME runs[i].phase \in {"write", "compensate"}, runs[i].target # 0,
                checks' = [checks EXCEPT ![runs[i].target].shows = NeedsReview],
                Ends(i), UNCHANGED <<pr, undisturbed, aborted>>
         PROVE  PublisherInv'
    <2>1. runs[i].target \in DOMAIN checks BY <1>3, <1>15 DEF HasTarget
    <2>2. checks[runs[i].target].head = runs[i].event.head
      BY <1>2, <1>15 DEF PublisherInv, UpdatesItsHead
    <2> QED BY <1>2, <1>6, <1>15, <2>1, <2>2, UpdateKeepsInv
  <1>16. 0 \notin DOMAIN checks BY <1>1 DEF TypeOK
  <1>17. CASE Revoke(i)
    <2>1. runs[i].phase = "write" /\ runs[i].target # 0
      BY <1>3, <1>16, <1>17 DEF Revoke, In, HasTarget
    <2> QED BY <1>15, <1>17, <2>1 DEF Revoke
  <1>18. CASE Recheck(i)
    <2>1. UNCHANGED <<pr, checks, undisturbed, aborted>> /\ runs[i].phase = "postwrite"
      BY <1>18 DEF Recheck, Reads, In
    <2>2. CASE Ends(i) BY <1>2, <1>6, <2>1, <2>2, EndKeepsInv
    <2>3. CASE To(i, at("compensate"))
      <3> DEFINE r == at("compensate")
      <3>1. "compensate" \in Phases BY DEF Phases
      <3>2. /\ r \in Active /\ r.phase = "compensate" /\ r.kind = runs[i].kind
            /\ r.event = runs[i].event /\ r.shows = runs[i].shows
            /\ r.target = runs[i].target
        BY <1>7, <3>1
      <3>3. To(i, r) BY <2>3
      <3> HIDE DEF r
      <3>4. r.target \in DOMAIN checks /\ HasTarget(r)
        BY <1>3, <2>1, <3>2 DEF HasTarget
      <3>5. r.target # 0 => checks[r.target].head = r.event.head
        BY <1>2, <2>1, <3>2 DEF PublisherInv, UpdatesItsHead
      <3> QED BY <1>2, <1>4, <2>1, <3>2, <3>3, <3>4, <3>5, MoveKeepsInv
    <2> QED BY <1>18, <2>2, <2>3 DEF Recheck
  <1>19. CASE Compensate(i)
    <2>1. runs[i].phase = "compensate" /\ runs[i].target # 0
      BY <1>3, <1>16, <1>19 DEF Compensate, In, HasTarget
    <2> QED BY <1>15, <1>19, <2>1 DEF Compensate
  <1>20. CASE Abort(i) BY <1>2, <1>6, <1>20, EndKeepsInv DEF Abort
  <1> QED BY <1>8, <1>9, <1>10, <1>11, <1>12, <1>13, <1>14, <1>17, <1>18, <1>19, <1>20
          DEF RunStep

-----------------------------------------------------------------------------
(* Stale verdicts.                                                         *)

\* Check k shows a verdict at the head of the pull request that has to go.
Wrong(k) ==
    /\ checks[k].head = pr.at.head /\ checks[k].shows # NeedsReview
    /\ \/ pr.open /\ pr.label /\ checks[k].shows # pr.at
       \/ undisturbed

\* As long as the pull request stays as it is, r gets to write to its Check.
WillWrite(r) ==
    /\ r.phase \notin {"postwrite", "compensate"}
    /\ \/ MatchesLive(r)
       \/ /\ r.kind = "advance" /\ r.phase = "queued"
          /\ r.event.base = pr.at.base /\ pr.open /\ pr.label

\* r wrote to Check k, and is about to take that back.
TakesBack(r, k) ==
    /\ r.kind = "review" /\ r.target = k
    /\ \/ r.phase = "compensate"
       \/ r.phase = "postwrite" /\ ~MatchesLive(r)

\* Unless some run was cut short, a verdict that has to go is never left
\* without a run that will replace it.
Covered ==
    ~aborted => \A k \in DOMAIN checks : Wrong(k) =>
                  \E i \in Live : WillWrite(runs[i]) \/ TakesBack(runs[i], k)

\* The invariant on verdicts that have to go.
StaleInv == /\ Covered
            /\ undisturbed => ~pr.label

\* In the beginning no verdict is shown.
LEMMA InitStale == Init => StaleInv
  BY DEF Init, StaleInv, Covered

\* Run i goes on as r, or ends.  Every verdict that has to go is covered by r,
\* or was before the step, by another run.
LEMMA MoveKeepsCovered ==
  ASSUME TypeOK, Covered, NEW i \in Live, NEW r \in Active \union {Ended}, To(i, r),
         UNCHANGED <<pr, undisturbed, aborted>>,
         \A k \in DOMAIN checks' : Wrong(k)' =>
           \/ r # Ended /\ (WillWrite(r) \/ TakesBack(r, k))
           \/ /\ k \in DOMAIN checks /\ Wrong(k)
              /\ ~WillWrite(runs[i]) /\ ~TakesBack(runs[i], k)
  PROVE  Covered'
  <1>1. /\ DOMAIN runs' = DOMAIN runs
        /\ runs'[i] = r
        /\ \A j \in DOMAIN runs : j # i => runs'[j] = runs[j]
    BY OneRunMoves
  <1> SUFFICES ASSUME ~aborted, NEW k \in DOMAIN checks', Wrong(k)'
               PROVE  \E j \in Live' : WillWrite(runs[j])' \/ TakesBack(runs[j], k)'
    BY DEF Covered
  <1>2. CASE r # Ended /\ (WillWrite(r) \/ TakesBack(r, k))
    <2>1. i \in Live' BY <1>1, <1>2 DEF Live
    <2>2. WillWrite(runs[i])' \/ TakesBack(runs[i], k)'
      BY <1>1, <1>2 DEF WillWrite, TakesBack, MatchesLive
    <2> QED BY <2>1, <2>2
  <1>3. CASE /\ k \in DOMAIN checks /\ Wrong(k)
             /\ ~WillWrite(runs[i]) /\ ~TakesBack(runs[i], k)
    <2>1. PICK j \in Live : WillWrite(runs[j]) \/ TakesBack(runs[j], k)
      BY <1>3 DEF Covered
    <2>2. j # i BY <1>3, <2>1
    <2>3. runs'[j] = runs[j] /\ j \in Live' BY <1>1, <2>2 DEF Live
    <2>4. WillWrite(runs[j])' \/ TakesBack(runs[j], k)'
      BY <2>1, <2>3 DEF WillWrite, TakesBack, MatchesLive
    <2> QED BY <2>3, <2>4
  <1> QED BY <1>2, <1>3

\* The same for a step that only reads: r covers what run i covered.
LEMMA ReadKeepsCovered ==
  ASSUME TypeOK, Covered, NEW i \in Live, NEW r \in Active \union {Ended}, To(i, r),
         UNCHANGED <<pr, checks, undisturbed, aborted>>,
         \A k \in DOMAIN checks :
           Wrong(k) /\ (WillWrite(runs[i]) \/ TakesBack(runs[i], k)) =>
             r # Ended /\ (WillWrite(r) \/ TakesBack(r, k))
  PROVE  Covered'
  <1>1. \A k \in DOMAIN checks' : Wrong(k)' => k \in DOMAIN checks /\ Wrong(k)
    BY DEF Wrong
  <1> QED BY <1>1, MoveKeepsCovered

\* A run that writes Needs Review leaves nothing wrong with its Check.
LEMMA WithdrawKeepsCovered ==
  ASSUME PublisherInv, Covered, NEW i \in Live, Ends(i),
         UNCHANGED <<pr, undisturbed, aborted>>,
         runs[i].phase \in {"write", "compensate"}, runs[i].target # 0,
         checks' = [checks EXCEPT ![runs[i].target].shows = NeedsReview]
  PROVE  Covered'
  <1>1. TypeOK BY DEF PublisherInv
  <1>2. runs[i] \in Active /\ HasTarget(runs[i]) BY <1>1, LiveIsActive DEF TypeOK
  <1>3. PICK t \in DOMAIN checks : t = runs[i].target BY <1>2 DEF HasTarget
  <1>4. checks[t].head = runs[i].event.head BY <1>3 DEF PublisherInv, UpdatesItsHead
  <1>5. checks[t] \in Check BY <1>1 DEF TypeOK
  <1>6. /\ DOMAIN checks' = DOMAIN checks
        /\ checks'[t].shows = NeedsReview
        /\ \A k \in DOMAIN checks : k # t => checks'[k] = checks[k]
    <2>1. checks' = [checks EXCEPT ![t] = [checks[t] EXCEPT !.shows = NeedsReview]]
      BY <1>3
    <2>2. checks \in Seq(Check) BY <1>1 DEF TypeOK
    <2>3. checks'[t] = [checks[t] EXCEPT !.shows = NeedsReview] BY <2>1, <2>2
    <2>4. checks'[t].shows = NeedsReview BY <1>5, <2>3 DEF Check
    <2> QED BY <2>1, <2>2, <2>4
  <1>7. ASSUME NEW k \in DOMAIN checks', Wrong(k)'
        PROVE  /\ k \in DOMAIN checks /\ Wrong(k)
               /\ ~WillWrite(runs[i]) /\ ~TakesBack(runs[i], k)
    <2>1. k # t BY <1>6, <1>7 DEF Wrong
    <2>2. k \in DOMAIN checks /\ Wrong(k) BY <1>6, <1>7, <2>1 DEF Wrong
    <2>3. ~TakesBack(runs[i], k) BY <1>3, <2>1 DEF TakesBack
    <2>4. ASSUME WillWrite(runs[i]) PROVE FALSE
      <3>1. runs[i].event = pr.at BY <2>4, <1>2 DEF WillWrite, MatchesLive
      <3>2. checks[k].head = checks[t].head BY <1>4, <2>2, <3>1 DEF Wrong
      <3> QED BY <2>1, <2>2, <3>2 DEF PublisherInv, OneCheckPerHead
    <2> QED BY <2>2, <2>3, <2>4
  <1>8. To(i, Ended) BY DEF Ends
  <1> QED BY <1>1, <1>7, <1>8, MoveKeepsCovered

\* A review run that writes looks again: if what it wrote has to go, the pull
\* request is no longer the one of its event.
LEMMA PublishKeepsCovered ==
  ASSUME PublisherInv, StaleInv, NEW i \in Live, Publish(i)
  PROVE  Covered'
  <1>1. TypeOK /\ Covered BY DEF PublisherInv, StaleInv
  <1>2. runs[i] \in Active /\ HasTarget(runs[i]) BY <1>1, LiveIsActive DEF TypeOK
  <1>3. runs[i].kind = "review" /\ runs[i].phase = "write" BY DEF Publish, In
  <1>4. UNCHANGED <<pr, undisturbed, aborted>> BY DEF Publish
  <1> DEFINE check == [head |-> runs[i].event.head, shows |-> runs[i].shows]
  <1>5. PICK t \in Nat :
          /\ t = IF runs[i].target = 0 THEN Len(checks) + 1 ELSE runs[i].target
          /\ DOMAIN checks' = DOMAIN checks \union {t}
          /\ checks'[t] = check
          /\ \A k \in DOMAIN checks : k # t => checks'[k] = checks[k]
          /\ To(i, [runs[i] EXCEPT !.phase = "postwrite", !.target = t])
    <2>1. checks \in Seq(Check) BY <1>1 DEF TypeOK
    <2>2. check \in Check BY <1>2 DEF Active, Check, Commits
    <2> HIDE DEF check
    <2>3. CASE runs[i].target = 0
      <3>1. checks' = Append(checks, check) BY <2>3 DEF Publish, check
      <3>2. Len(checks') = Len(checks) + 1 /\ Len(checks) + 1 \in Nat BY <2>1, <2>2, <3>1
      <3>3. To(i, [runs[i] EXCEPT !.phase = "postwrite", !.target = Len(checks) + 1])
        BY <2>3, <3>2 DEF Publish
      <3>4. /\ DOMAIN checks' = DOMAIN checks \union {Len(checks) + 1}
            /\ checks'[Len(checks) + 1] = check
            /\ \A k \in DOMAIN checks : k # Len(checks) + 1 => checks'[k] = checks[k]
        BY <2>1, <2>2, <3>1
      <3> QED BY <2>3, <3>2, <3>3, <3>4
    <2>4. CASE runs[i].target # 0
      <3>1. runs[i].target \in DOMAIN checks BY <1>2, <1>3, <2>4 DEF HasTarget
      <3>2. checks' = [checks EXCEPT ![runs[i].target] = check]
        BY <2>4 DEF Publish, check
      <3>3. To(i, [runs[i] EXCEPT !.phase = "postwrite"]) BY <2>4 DEF Publish
      <3>4. [runs[i] EXCEPT !.phase = "postwrite"]
              = [runs[i] EXCEPT !.phase = "postwrite", !.target = runs[i].target]
        BY <1>2 DEF Active
      <3>5. To(i, [runs[i] EXCEPT !.phase = "postwrite", !.target = runs[i].target])
        BY <3>3, <3>4
      <3>6. runs[i].target \in Nat BY <1>2 DEF Active
      <3>7. /\ DOMAIN checks' = DOMAIN checks \union {runs[i].target}
            /\ checks'[runs[i].target] = check
            /\ \A k \in DOMAIN checks : k # runs[i].target => checks'[k] = checks[k]
        BY <2>1, <3>1, <3>2
      <3> QED BY <2>4, <3>5, <3>6, <3>7
    <2> QED BY <2>3, <2>4
  <1> DEFINE r == [runs[i] EXCEPT !.phase = "postwrite", !.target = t]
  <1>6. /\ r \in Active /\ r # Ended
        /\ r.kind = "review" /\ r.phase = "postwrite" /\ r.target = t
        /\ r.event = runs[i].event
    BY <1>2, <1>3, <1>5, EndedIsNotActive DEF Active, Phases
  <1>7. To(i, r) BY <1>5
  <1>8. check.head = runs[i].event.head /\ check.shows = runs[i].shows OBVIOUS
  <1> HIDE DEF r, check
  <1>9. ASSUME NEW k \in DOMAIN checks', Wrong(k)', k = t
        PROVE  r # Ended /\ TakesBack(r, k)
    <2>1. runs[i].shows = runs[i].event /\ checks'[k].shows = runs[i].event
      BY <1>5, <1>8, <1>9 DEF Wrong, PublisherInv, PublishesItsEvent
    <2>2. pr.at # runs[i].event \/ ~pr.label
      BY <1>4, <1>9, <2>1 DEF Wrong, StaleInv
    <2>3. ~MatchesLive(r) BY <1>6, <2>2 DEF MatchesLive
    <2> QED BY <1>6, <1>9, <2>3 DEF TakesBack
  <1>10. ASSUME NEW k \in DOMAIN checks', Wrong(k)', k # t
         PROVE  /\ k \in DOMAIN checks /\ Wrong(k)
                /\ ~WillWrite(runs[i]) /\ ~TakesBack(runs[i], k)
    <2>1. k \in DOMAIN checks BY <1>5, <1>10
    <2>2. Wrong(k) BY <1>4, <1>5, <1>10, <2>1 DEF Wrong
    <2>3. ~TakesBack(runs[i], k) BY <1>3 DEF TakesBack
    <2>4. ASSUME WillWrite(runs[i]) PROVE FALSE
      <3>1. runs[i].event = pr.at BY <1>3, <2>4 DEF WillWrite, MatchesLive
      <3>2. checks[k].head = runs[i].event.head BY <2>2, <3>1 DEF Wrong
      <3>3. runs[i].target # 0
        BY <1>3, <2>1, <3>2 DEF PublisherInv, CreatesFirst
      <3>4. t \in DOMAIN checks /\ checks[t].head = runs[i].event.head
        BY <1>2, <1>3, <1>5, <3>3 DEF HasTarget, PublisherInv, UpdatesItsHead
      <3> QED BY <1>10, <2>1, <3>2, <3>4 DEF PublisherInv, OneCheckPerHead
    <2> QED BY <2>1, <2>2, <2>3, <2>4
  <1> QED BY <1>1, <1>4, <1>6, <1>7, <1>9, <1>10, MoveKeepsCovered

\* An event is answered by a run of its own, unless nothing has to go.
LEMMA EventKeepsStale ==
  ASSUME PublisherInv, StaleInv, NEW p \in Pull,
         NEW kind \in {"review", "withdrawal", "advance"}, Becomes(p, kind),
         \* the events of the model
         \/ p.label /\ kind \in {"review", "advance"}
         \/ p.label # pr.label /\ kind = "withdrawal" /\ ~p.label
         \/ ~p.label /\ ~pr.label
  PROVE  StaleInv'
  <1> DEFINE new == Queued(kind, p)
             old == IF kind = "review" THEN Superseded(p.at.head) ELSE runs
  <1>1. TypeOK /\ Covered BY DEF PublisherInv, StaleInv
  <1>2. runs \in Seq(Active \union {Ended}) BY <1>1 DEF TypeOK
  <1>3. /\ pr' = p /\ checks' = checks /\ aborted' = aborted
        /\ undisturbed' = (~p.label /\ (pr.label \/ (undisturbed /\ p.at = pr.at)))
    BY DEF Becomes
  <1>4. new \in Active /\ new # Ended
    BY EndedIsNotActive DEF Queued, Active, Pull, Kinds, Phases
  <1>5. /\ new.phase = "queued" /\ new.kind = kind /\ new.event = p.at
    BY DEF Queued
  <1>6. old \in Seq(Active \union {Ended}) /\ Len(old) = Len(runs)
    BY <1>2 DEF Superseded
  <1>7. SUFFICES ASSUME ~aborted, NEW k \in DOMAIN checks, Wrong(k)'
                 PROVE  \E i \in Live' : WillWrite(runs[i])' \/ TakesBack(runs[i], k)'
    BY <1>3 DEF StaleInv, Covered
  <1>10. p.label \in BOOLEAN /\ pr.label \in BOOLEAN BY <1>1 DEF TypeOK, Pull
  <1>8. CASE ~(kind = "review" /\ ~p.label) /\ (p.label \/ p.label # pr.label)
    <2>1. runs' = Append(old, new) BY <1>8 DEF Becomes
    <2>2. Len(runs) + 1 \in DOMAIN runs' /\ runs'[Len(runs) + 1] = new
      BY <1>4, <1>6, <2>1
    <2>3. Len(runs) + 1 \in Live' BY <1>4, <2>2 DEF Live
    <2>4. p.label = (kind # "withdrawal")
      <3>1. CASE p.label
        <4>1. kind # "withdrawal" BY <3>1
        <4> QED BY <1>10, <3>1, <4>1
      <3>2. CASE ~p.label
        <4>1. kind = "withdrawal" BY <1>8, <1>10, <3>2
        <4> QED BY <1>10, <3>2, <4>1
      <3> QED BY <3>1, <3>2
    <2> HIDE DEF new, old
    <2>5. CASE kind = "withdrawal"
      <3>1. MatchesLive(new)' BY <1>3, <1>5, <2>4, <2>5 DEF MatchesLive
      <3>2. WillWrite(new)' BY <1>5, <3>1 DEF WillWrite
      <3> QED BY <2>2, <2>3, <3>2 DEF WillWrite, MatchesLive
    <2>6. CASE kind # "withdrawal"
      <3>1. p.open /\ p.label BY <1>3, <1>7, <2>4, <2>6 DEF Wrong
      <3>2. MatchesLive(new)' BY <1>3, <1>5, <2>4, <2>6, <3>1 DEF MatchesLive
      <3>3. WillWrite(new)' BY <1>5, <3>2 DEF WillWrite
      <3> QED BY <2>2, <2>3, <3>3 DEF WillWrite, MatchesLive
    <2> QED BY <2>5, <2>6
  <1>9. CASE ~p.label /\ ~pr.label
    <2>1. undisturbed /\ p.at = pr.at BY <1>3, <1>7, <1>9 DEF Wrong
    <2>2. Wrong(k) BY <1>3, <1>7, <1>9, <2>1 DEF Wrong
    <2>3. PICK i \in Live : WillWrite(runs[i]) \/ TakesBack(runs[i], k)
      BY <1>1, <1>7, <2>2 DEF Covered
    <2>4. runs[i] \in Active /\ runs[i] # Ended BY <1>1, LiveIsActive
    <2>5. \/ runs[i].kind = "withdrawal" /\ WillWrite(runs[i])
          \/ TakesBack(runs[i], k)
      BY <1>9, <2>3 DEF WillWrite, MatchesLive
    <2>6. old[i] = runs[i]
      <3>1. CASE runs[i].kind = "withdrawal"
        BY <1>2, <3>1 DEF Superseded, SameGroup, Live
      <3>2. CASE TakesBack(runs[i], k)
        <4>1. runs[i].phase # "queued" BY <3>2 DEF TakesBack
        <4>2. ASSUME SameGroup(runs[i], p.at.head), NEW j \in 1..(i - 1),
                     SameGroup(runs[j], p.at.head)
              PROVE  FALSE
          <5>1. j \in Live /\ i \in Nat /\ j \in Nat /\ j < i
            BY <1>2, <4>2 DEF Live, SameGroup
          <5>2. /\ SameGroup(runs[i], runs[i].event.head)
                /\ SameGroup(runs[j], runs[i].event.head)
            BY <4>2 DEF SameGroup
          <5>3. i <= j BY <4>1, <5>1, <5>2 DEF PublisherInv, FirstOfGroup
          <5> QED BY <5>1, <5>3
        <4> QED BY <1>2, <4>2 DEF Superseded, Live
      <3> QED BY <2>5, <3>1, <3>2
    <2>7. i \in DOMAIN runs' /\ runs'[i] = runs[i]
      <3>1. runs' = old \/ runs' = Append(old, new) BY DEF Becomes
      <3>2. i \in DOMAIN old BY <1>2, <1>6 DEF Live
      <3> HIDE DEF old, new
      <3> QED BY <1>4, <1>6, <2>6, <3>1, <3>2
    <2>8. i \in Live' BY <2>4, <2>7 DEF Live
    <2>9. WillWrite(runs[i])' \/ TakesBack(runs[i], k)'
      <3>1. CASE runs[i].kind = "withdrawal" /\ WillWrite(runs[i])
        BY <1>3, <1>9, <1>10, <2>1, <2>7, <3>1 DEF WillWrite, MatchesLive
      <3>2. CASE TakesBack(runs[i], k)
        BY <1>3, <1>9, <2>7, <3>2 DEF TakesBack, MatchesLive
      <3> QED BY <2>5, <3>1, <3>2
    <2> QED BY <2>8, <2>9
  <1> QED BY <1>8, <1>9

\* A change that makes a verdict wrong starts the run that will replace it.
LEMMA PullChangeKeepsStale == PublisherInv /\ StaleInv /\ PullChanges => StaleInv'
  <1> SUFFICES ASSUME PublisherInv, StaleInv, PullChanges PROVE StaleInv' OBVIOUS
  <1>0. pr \in Pull BY DEF PublisherInv, TypeOK
  <1>1. CASE Label
    <2>1. [pr EXCEPT !.label = TRUE] \in Pull /\ [pr EXCEPT !.label = TRUE].label
      BY <1>0 DEF Pull
    <2> QED BY <1>1, <2>1, EventKeepsStale DEF Label
  <1>2. CASE Unlabel
    <2>1. [pr EXCEPT !.label = FALSE] \in Pull /\ ~[pr EXCEPT !.label = FALSE].label
      BY <1>0 DEF Pull
    <2> QED BY <1>2, <2>1, EventKeepsStale DEF Unlabel
  <1>3. CASE Reopen
    <2>1. [pr EXCEPT !.open = TRUE] \in Pull
          /\ [pr EXCEPT !.open = TRUE].label = pr.label
      BY <1>0 DEF Pull
    <2> QED BY <1>3, <2>1, EventKeepsStale DEF Reopen
  <1>4. CASE Close
    <2>1. /\ pr'.at = pr.at /\ pr'.label = pr.label /\ ~pr'.open
          /\ UNCHANGED <<checks, runs, undisturbed, aborted>>
      BY <1>0, <1>4 DEF Close, Pull
    <2>2. ASSUME ~aborted, NEW k \in DOMAIN checks, Wrong(k)'
          PROVE  \E i \in Live' : WillWrite(runs[i])' \/ TakesBack(runs[i], k)'
      <3>1. Wrong(k) /\ undisturbed /\ ~pr.label
        BY <2>1, <2>2 DEF Wrong, StaleInv
      <3>2. PICK i \in Live : WillWrite(runs[i]) \/ TakesBack(runs[i], k)
        BY <2>2, <3>1 DEF StaleInv, Covered
      <3>3. WillWrite(runs[i])' \/ TakesBack(runs[i], k)'
        BY <2>1, <3>1, <3>2 DEF WillWrite, TakesBack, MatchesLive
      <3> QED BY <2>1, <3>3 DEF Live
    <2> QED BY <2>1, <2>2 DEF StaleInv, Covered
  <1>5. CASE AdvanceBase
    <2>1. [pr EXCEPT !.at.base = @ + 1] \in Pull
          /\ [pr EXCEPT !.at.base = @ + 1].label = pr.label
      BY <1>0, <1>5, PublisherAssumption DEF AdvanceBase, Pull, Commits, Bases
    <2> QED BY <1>5, <2>1, EventKeepsStale DEF AdvanceBase
  <1>6. ASSUME NEW h \in Heads, Push(h) PROVE StaleInv'
    <2>1. [pr EXCEPT !.at.head = h] \in Pull /\ [pr EXCEPT !.at.head = h].label = pr.label
      BY <1>0 DEF Pull, Commits
    <2> QED BY <1>6, <2>1, EventKeepsStale DEF Push
  <1> QED BY <1>1, <1>2, <1>3, <1>4, <1>5, <1>6 DEF PullChanges

\* No step of a run leaves a verdict that has to go without a run that will replace it.
LEMMA RunStepKeepsStale ==
  ASSUME PublisherInv, StaleInv, NEW i \in DOMAIN runs, RunStep(i)
  PROVE  StaleInv'
  <1>1. TypeOK /\ Covered BY DEF PublisherInv, StaleInv
  <1>2. i \in Live
    BY DEF RunStep, Start, Analyse, StartWithdrawal, Enumerate, Validate, List, Publish,
           Revoke, Recheck, Compensate, Abort, In
  <1>3. runs[i] \in Active /\ runs[i] # Ended /\ HasTarget(runs[i])
    BY <1>1, <1>2, LiveIsActive DEF TypeOK
  <1>4. pr' = pr /\ undisturbed' = undisturbed
    BY DEF RunStep, Start, Analyse, StartWithdrawal, Enumerate, Validate, List, Publish,
           Revoke, Recheck, Compensate, Abort, Reads
  <1>5. SUFFICES Covered' BY <1>4 DEF StaleInv
  \* the run with another phase
  <1> DEFINE at(ph) == [runs[i] EXCEPT !.phase = ph]
  <1>6. \A ph \in Phases : /\ at(ph) \in Active /\ at(ph) # Ended /\ at(ph).phase = ph
                          /\ at(ph).kind = runs[i].kind /\ at(ph).event = runs[i].event
                          /\ at(ph).target = runs[i].target
    BY <1>3, EndedIsNotActive DEF Active
  \* a run that has not written, and may go on, keeps what it will write
  <1>7. ASSUME NEW r \in Active, r # Ended, To(i, r), Reads,
               runs[i].phase \notin {"postwrite", "compensate"},
               r.phase \notin {"postwrite", "compensate"},
               WillWrite(runs[i]) => WillWrite(r)
        PROVE  Covered'
    BY <1>1, <1>2, <1>7, ReadKeepsCovered DEF Reads, TakesBack
  \* a run that ends without writing had nothing to do
  <1>8. ASSUME Ends(i), Reads, ~WillWrite(runs[i]),
               \A k \in DOMAIN checks : ~TakesBack(runs[i], k)
        PROVE  Covered'
    BY <1>1, <1>2, <1>8, ReadKeepsCovered DEF Reads, Ends
  <1>9. CASE Start(i)
    <2>1. "started" \in Phases BY DEF Phases
    <2>2. To(i, at("started")) /\ Reads BY <1>9 DEF Start
    <2>3. runs[i].phase = "queued" /\ runs[i].kind = "review" BY <1>9 DEF Start, In
    <2>4. WillWrite(runs[i]) => WillWrite(at("started"))
      BY <1>6, <2>1, <2>3 DEF WillWrite, MatchesLive
    <2>5. at("started") \in Active /\ at("started") # Ended
          /\ at("started").phase = "started"
      BY <1>6, <2>1
    <2> HIDE DEF at
    <2> QED BY <1>7, <2>2, <2>3, <2>4, <2>5
  <1>10. CASE Analyse(i)
    <2>1. runs[i].phase = "started" /\ runs[i].kind = "review" /\ Reads
      BY <1>10 DEF Analyse, In
    <2>2. PICK r \in Active :
            /\ To(i, r) /\ r.phase = "validate" /\ r.event = runs[i].event
            /\ r.kind \in {"review", "unavailability"}
      <3>1. CASE \E shows \in Publishable(runs[i]) :
                   To(i, [runs[i] EXCEPT !.phase = "validate", !.shows = shows])
        <4>1. PICK x \in Publishable(runs[i]) :
                To(i, [runs[i] EXCEPT !.phase = "validate", !.shows = x])
          BY <3>1
        <4>2. x \in Commits \union {NeedsReview}
          BY <1>3 DEF Publishable, Active
        <4> DEFINE r == [runs[i] EXCEPT !.phase = "validate", !.shows = x]
        <4>3. /\ r \in Active /\ r.phase = "validate" /\ r.event = runs[i].event
              /\ r.kind = "review"
          BY <1>3, <2>1, <4>2 DEF Active, Phases
        <4> QED BY <4>1, <4>3
      <3>2. CASE To(i, [runs[i] EXCEPT !.phase = "validate", !.kind = "unavailability"])
        <4> DEFINE r == [runs[i] EXCEPT !.phase = "validate", !.kind = "unavailability"]
        <4>1. /\ r \in Active /\ r.phase = "validate" /\ r.event = runs[i].event
              /\ r.kind = "unavailability"
          BY <1>3 DEF Active, Phases, Kinds
        <4> QED BY <3>2, <4>1
      <3> QED BY <1>10, <3>1, <3>2 DEF Analyse
    <2>3. WillWrite(runs[i]) => WillWrite(r)
      BY <2>1, <2>2 DEF WillWrite, MatchesLive
    <2> QED BY <1>7, <2>1, <2>2, <2>3, EndedIsNotActive
  <1>11. CASE StartWithdrawal(i)
    <2>1. "validate" \in Phases BY DEF Phases
    <2>2. To(i, at("validate")) /\ Reads BY <1>11 DEF StartWithdrawal
    <2>3. runs[i].phase = "queued" /\ runs[i].kind = "withdrawal"
      BY <1>11 DEF StartWithdrawal, In
    <2>4. WillWrite(runs[i]) => WillWrite(at("validate"))
      BY <1>6, <2>1, <2>3 DEF WillWrite, MatchesLive
    <2>5. at("validate") \in Active /\ at("validate") # Ended
          /\ at("validate").phase = "validate"
      BY <1>6, <2>1
    <2> HIDE DEF at
    <2> QED BY <1>7, <2>2, <2>3, <2>4, <2>5
  <1>12. CASE Enumerate(i)
    <2>1. runs[i].phase = "queued" /\ runs[i].kind = "advance" /\ Reads
      BY <1>12 DEF Enumerate, In
    <2>2. pr.at \in Commits /\ pr.label \in BOOLEAN BY <1>1 DEF TypeOK, Pull
    <2>3. CASE pr.label /\ pr.open /\ pr.at.base = runs[i].event.base
      <3> DEFINE r == [runs[i] EXCEPT !.phase = "validate", !.event = pr.at]
      <3>1. To(i, r) BY <1>12, <2>3 DEF Enumerate
      <3>2. /\ r \in Active /\ r.phase = "validate" /\ r.kind = "advance"
            /\ r.event = pr.at
        BY <1>3, <2>1, <2>2 DEF Active, Phases
      <3> HIDE DEF r
      <3>3. MatchesLive(r) BY <2>2, <2>3, <3>2 DEF MatchesLive
      <3>4. WillWrite(r) BY <3>2, <3>3 DEF WillWrite
      <3> QED BY <1>7, <2>1, <3>1, <3>2, <3>4, EndedIsNotActive
    <2>4. CASE ~(pr.label /\ pr.open /\ pr.at.base = runs[i].event.base)
      <3>1. Ends(i) BY <1>12, <2>4 DEF Enumerate
      <3>2. ~WillWrite(runs[i]) BY <2>1, <2>2, <2>4 DEF WillWrite, MatchesLive
      <3> QED BY <1>8, <2>1, <3>1, <3>2 DEF TakesBack
    <2> QED BY <2>3, <2>4
  <1>13. CASE Validate(i)
    <2>1. runs[i].phase \in {"validate", "prewrite"} /\ Reads BY <1>13 DEF Validate
    <2>2. CASE MatchesLive(runs[i])
      <3> DEFINE r == at(IF runs[i].phase = "validate" THEN "list" ELSE "write")
      <3>1. To(i, r) BY <1>13, <2>2 DEF Validate
      <3>2. r.phase \in {"list", "write"} BY <1>6 DEF Phases
      <3>3. r \in Active /\ r # Ended /\ r.kind = runs[i].kind /\ r.event = runs[i].event
        BY <1>6 DEF Phases
      <3> HIDE DEF r
      <3>4. WillWrite(r) BY <2>2, <3>2, <3>3 DEF WillWrite, MatchesLive
      <3> QED BY <1>7, <2>1, <3>1, <3>2, <3>3, <3>4
    <2>3. CASE ~MatchesLive(runs[i])
      <3>1. Ends(i) BY <1>13, <2>3 DEF Validate
      <3>2. ~WillWrite(runs[i]) BY <2>1, <2>3 DEF WillWrite
      <3> QED BY <1>8, <2>1, <3>1, <3>2 DEF TakesBack
    <2> QED BY <2>2, <2>3
  <1>14. CASE List(i)
    <2> DEFINE matches == {k \in DOMAIN checks : checks[k].head = runs[i].event.head}
    <2>1. runs[i].phase = "list" /\ Reads BY <1>14 DEF List, In
    <2>2. ASSUME NEW k \in matches,
                 To(i, [runs[i] EXCEPT !.phase = "prewrite", !.target = k])
          PROVE  Covered'
      <3> DEFINE r == [runs[i] EXCEPT !.phase = "prewrite", !.target = k]
      <3>1. k \in Nat BY <1>1 DEF TypeOK
      <3>2. /\ r \in Active /\ r.phase = "prewrite" /\ r.kind = runs[i].kind
            /\ r.event = runs[i].event
        BY <1>3, <3>1 DEF Active, Phases
      <3>3. To(i, r) BY <2>2
      <3> HIDE DEF r
      <3>4. WillWrite(runs[i]) => WillWrite(r)
        BY <2>1, <3>2 DEF WillWrite, MatchesLive
      <3> QED BY <1>7, <2>1, <3>2, <3>3, <3>4, EndedIsNotActive
    <2>3. CASE To(i, at("prewrite"))
      <3>1. "prewrite" \in Phases BY DEF Phases
      <3>2. WillWrite(runs[i]) => WillWrite(at("prewrite"))
        BY <1>6, <2>1, <3>1 DEF WillWrite, MatchesLive
      <3>3. at("prewrite") \in Active /\ at("prewrite") # Ended
            /\ at("prewrite").phase = "prewrite"
        BY <1>6, <3>1
      <3> HIDE DEF at
      <3> QED BY <1>7, <2>1, <2>3, <3>2, <3>3
    <2>4. CASE Ends(i) /\ \A k \in matches : matches # {k}
      \* there is no Check of this head, so none that has to go
      <3>1. matches = {}
        <4>1. \A j, k \in matches : j = k BY DEF PublisherInv, OneCheckPerHead
        <4> HIDE DEF matches
        <4> QED BY <2>4, <4>1
      <3>2. ASSUME NEW k \in DOMAIN checks, Wrong(k)
            PROVE  ~WillWrite(runs[i]) /\ ~TakesBack(runs[i], k)
        <4>1. checks[k].head # runs[i].event.head BY <3>1
        <4>2. pr.at # runs[i].event BY <3>2, <4>1 DEF Wrong
        <4> QED BY <2>1, <4>2 DEF WillWrite, MatchesLive, TakesBack
      <3> HIDE DEF matches
      <3> QED BY <1>1, <1>2, <2>1, <2>4, <3>2, ReadKeepsCovered DEF Reads, Ends
    <2> QED BY <1>14, <2>2, <2>3, <2>4 DEF List, Matches
  <1>15. CASE Publish(i) BY <1>2, <1>15, PublishKeepsCovered
  <1>16. 0 \notin DOMAIN checks BY <1>1 DEF TypeOK
  <1>17. CASE Revoke(i)
    <2>1. runs[i].phase = "write" /\ runs[i].target # 0
      BY <1>3, <1>16, <1>17 DEF Revoke, In, HasTarget
    <2> QED BY <1>1, <1>2, <1>17, <2>1, WithdrawKeepsCovered DEF Revoke
  <1>18. CASE Recheck(i)
    <2>1. runs[i].phase = "postwrite" /\ Reads BY <1>18 DEF Recheck, In
    <2>2. CASE Ends(i) /\ MatchesLive(runs[i])
      BY <1>8, <2>1, <2>2 DEF WillWrite, TakesBack
    <2>3. CASE To(i, at("compensate"))
      <3>1. "compensate" \in Phases BY DEF Phases
      <3>2. \A k \in DOMAIN checks :
              TakesBack(runs[i], k) => TakesBack(at("compensate"), k)
        BY <1>6, <3>1 DEF TakesBack
      <3>3. at("compensate") \in Active /\ at("compensate") # Ended BY <1>6, <3>1
      <3>4. ~WillWrite(runs[i]) BY <2>1 DEF WillWrite
      <3> HIDE DEF at
      <3> QED BY <1>1, <1>2, <2>1, <2>3, <3>2, <3>3, <3>4, ReadKeepsCovered DEF Reads
    <2> QED BY <1>18, <2>2, <2>3 DEF Recheck
  <1>19. CASE Compensate(i)
    <2>1. runs[i].phase = "compensate" /\ runs[i].target # 0
      BY <1>3, <1>16, <1>19 DEF Compensate, In, HasTarget
    <2> QED BY <1>1, <1>2, <1>19, <2>1, WithdrawKeepsCovered DEF Compensate
  <1>20. CASE Abort(i) BY <1>20 DEF Abort, Covered
  <1> QED BY <1>9, <1>10, <1>11, <1>12, <1>13, <1>14, <1>15, <1>17, <1>18, <1>19, <1>20
          DEF RunStep

-----------------------------------------------------------------------------
(* Theorems.                                                               *)

\* The invariant holds throughout.
LEMMA PublisherInvariant == Spec => []PublisherInv
  <1>1. PublisherInv /\ [Next]_vars => PublisherInv'
    <2> SUFFICES ASSUME PublisherInv, [Next]_vars PROVE PublisherInv' OBVIOUS
    <2>1. CASE PullChanges BY <2>1, PullChangeKeepsInv
    <2>2. CASE \E i \in DOMAIN runs : RunStep(i) BY <2>2, RunStepKeepsInv
    <2>3. CASE UNCHANGED vars
      BY <2>3 DEF vars, PublisherInv, TypeOK, Live, HasTarget, FirstOfGroup, CreatesFirst,
              UpdatesItsHead, PublishesItsEvent, OneCheckPerHead, VerdictsShowTheirHead
    <2> QED BY <2>1, <2>2, <2>3 DEF Next
  <1> QED BY <1>1, InitInv, PTL DEF Spec

\* The invariant on verdicts that have to go holds throughout.
LEMMA StaleInvariant == Spec => []StaleInv
  <1>1. PublisherInv /\ StaleInv /\ [Next]_vars => StaleInv'
    <2> SUFFICES ASSUME PublisherInv, StaleInv, [Next]_vars PROVE StaleInv' OBVIOUS
    <2>1. CASE PullChanges BY <2>1, PullChangeKeepsStale
    <2>2. CASE \E i \in DOMAIN runs : RunStep(i) BY <2>2, RunStepKeepsStale
    <2>3. CASE UNCHANGED vars
      BY <2>3 DEF vars, StaleInv, Covered, Wrong, WillWrite, TakesBack, MatchesLive, Live
    <2> QED BY <2>1, <2>2, <2>3 DEF Next
  <1> QED BY <1>1, InitStale, PublisherInvariant, PTL DEF Spec

\* Every variable keeps its type, and a run that updates a check run knows
\* which: only review runs create one.
THEOREM TypeCorrect == Spec => []TypeOK
  BY PublisherInvariant, PTL DEF PublisherInv

\* There is never a second Check for the same head, however many runs there are
\* and wherever they are cut short.
THEOREM SingleCheck == Spec => []OneCheckPerHead
  BY PublisherInvariant, PTL DEF PublisherInv

\* A verdict is only ever shown at the head it was reached for.
THEOREM VerdictsStayPut == Spec => []VerdictsShowTheirHead
  BY PublisherInvariant, PTL DEF PublisherInv

\* Once every run has ended, none of them cut short, the Check of an open and
\* labelled pull request shows no verdict for another base.
THEOREM StaleVerdictsGo == Spec => []SettledVerdictIsCurrent
  <1>1. StaleInv => SettledVerdictIsCurrent
    BY DEF StaleInv, Covered, Wrong, SettledVerdictIsCurrent, Settled
  <1> QED BY <1>1, StaleInvariant, PTL

\* Once every run has ended, none of them cut short, no verdict is shown that
\* was withdrawn with the label, unless a branch has moved.
THEOREM WithdrawalsLast == Spec => []WithdrawnStaysWithdrawn
  <1>1. StaleInv => WithdrawnStaysWithdrawn
    BY DEF StaleInv, Covered, Wrong, WithdrawnStaysWithdrawn, Settled
  <1> QED BY <1>1, StaleInvariant, PTL

=============================================================================
