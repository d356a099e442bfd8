----------------------------- MODULE EvidenceProofs -----------------------------
(***************************************************************************)
(* Theorems about Evidence, for any criteria, artifacts, lines, sessions   *)
(* and analyses of other reviews, and without bounds on what they record.  *)
(***************************************************************************)
EXTENDS Evidence, TLAPS, FiniteSetTheorems, WellFoundedInduction

-----------------------------------------------------------------------------
(* Sequences and maxima.                                                   *)

\* A sequence is a prefix of itself.
LEMMA PrefixOfItself ==
  ASSUME NEW S, NEW q \in Seq(S)
  PROVE  IsPrefix(q, q)
  BY DEF IsPrefix

\* A sequence is a prefix of what is appended to it.
LEMMA PrefixOfAppend ==
  ASSUME NEW S, NEW q \in Seq(S), NEW e
  PROVE  IsPrefix(q, Append(q, e))
  <1>1. q \in Seq(S \union {e}) /\ Append(q, e) \in Seq(S \union {e}) OBVIOUS
  <1>2. Len(Append(q, e)) = Len(q) + 1 BY <1>1
  <1>3. SubSeq(q, 1, Len(q)) = SubSeq(Append(q, e), 1, Len(q)) BY <1>1, <1>2
  <1> QED BY <1>1, <1>2, <1>3 DEF IsPrefix

\* A bounded set of numbers that is not empty has a maximum: among the sets of
\* what is greater than one of its elements, a smallest one is empty.
LEMMA MaxIsReached ==
  ASSUME NEW S \in SUBSET Nat, S # {}, NEW n \in Nat, \A x \in S : x <= n
  PROVE  Max(S) \in S /\ \A x \in S : x <= Max(S)
  <1> DEFINE Above(x) == {y \in S : y > x}
             T == {Above(x) : x \in S}
  <1>1. IsFiniteSet(S) BY FS_BoundedSetOfNaturals
  <1>2. T \subseteq FiniteSubsetsOf(S) /\ T # {}
    <2>1. FiniteSubsetsOf(S) = SUBSET S BY <1>1, FS_FiniteSubsetsOfFinite
    <2>2. T \subseteq SUBSET S /\ T # {} OBVIOUS
    <2> QED BY <2>1, <2>2
  <1>3. IsWellFoundedOn(StrictSubsetOrdering(S), FiniteSubsetsOf(S))
    BY FS_StrictSubsetOrderingWellFounded
  <1> HIDE DEF T
  <1>4. PICK U \in T : \A V \in T : ~(<<V, U>> \in StrictSubsetOrdering(S))
    BY <1>2, <1>3, WFMin
  <1> USE DEF T
  <1>5. PICK m \in S : U = Above(m) BY <1>4
  <1>6. ASSUME NEW y \in S, y > m PROVE FALSE
    <2>1. Above(y) \in T OBVIOUS
    <2>4. Above(y) \subseteq U
      <3> SUFFICES ASSUME NEW z \in S, z > y PROVE z > m BY <1>5
      <3>1. z \in Nat /\ y \in Nat /\ m \in Nat OBVIOUS
      <3> QED BY <1>6, <3>1
    <2>5. y \in U /\ y \notin Above(y) BY <1>5, <1>6
    <2>2. <<Above(y), U>> \in (SUBSET S) \X (SUBSET S) BY <1>5
    <2>3. <<Above(y), U>> \in StrictSubsetOrdering(S)
      BY <2>2, <2>4, <2>5 DEF StrictSubsetOrdering
    <2> QED BY <1>4, <2>1, <2>3
  <1>7. \A y \in S : m >= y BY <1>6
  <1>8. Max(S) \in S /\ \A y \in S : Max(S) >= y BY <1>7, Zenon DEF Max
  <1> QED BY <1>8

-----------------------------------------------------------------------------
(* Imported results and their audit.                                       *)

\* The artifact names the import.
LEMMA ImportIsFound ==
  ASSUME NEW b, IsInjective([i \in DOMAIN b.imports |-> b.imports[i].artifact]),
         NEW x \in ToSet(b.imports)
  PROVE  ImportOf(b, x.artifact) = x
  <1>1. \A y \in ToSet(b.imports) : y.artifact = x.artifact => y = x
    BY DEF IsInjective, ToSet
  <1> QED BY <1>1 DEF ImportOf

\* The last correction before an event is a correction, if there is any.
LEMMA LastCorrection ==
  ASSUME NEW b, DOMAIN b.events \subseteq Nat, NEW a, NEW n \in Nat
  PROVE  /\ LastBefore(b, a, n) \in Nat
         /\ LastBefore(b, a, n) # 0 => LastBefore(b, a, n) \in CorrectionsOf(b, a)
  <1> DEFINE S == {0} \union {i \in CorrectionsOf(b, a) : i < n}
  <1>1. S \subseteq Nat BY DEF CorrectionsOf, EventsOf
  <1>2. \A x \in S : x <= n BY <1>1
  <1>3. S # {} OBVIOUS
  <1> HIDE DEF S
  <1>4. Max(S) \in S BY <1>1, <1>2, <1>3, MaxIsReached
  <1>5. LastBefore(b, a, n) = Max(S) BY DEF LastBefore, S
  <1> QED BY <1>1, <1>4, <1>5 DEF S

\* What is replayed for an import is a mapping.
LEMMA ReplayGivesMapping ==
  ASSUME NEW b, DOMAIN b.events \subseteq Nat, JUnitValid(b),
         NEW x \in ToSet(b.imports), NEW n \in Nat
  PROVE  MappingAt(b, x.artifact, n) \in Mappings
  <1> DEFINE last == LastBefore(b, x.artifact, n)
  <1>1. ImportOf(b, x.artifact) = x BY ImportIsFound DEF JUnitValid
  <1>2. x.mapping \in Mappings /\ Replays(b, x.artifact) BY DEF JUnitValid
  <1>3. last # 0 => last \in CorrectionsOf(b, x.artifact) BY LastCorrection
  <1> HIDE DEF last
  <1>4. last # 0 => b.events[last].mapping \in Mappings
    BY <1>2, <1>3 DEF Replays, CorrectionsOf
  <1>5. MappingAt(b, x.artifact, n)
          = IF last = 0 THEN ImportOf(b, x.artifact).mapping ELSE b.events[last].mapping
    BY DEF MappingAt, last
  <1> QED BY <1>1, <1>2, <1>4, <1>5

\* The replay before position n depends on nothing else than the corrections
\* before n and the import.
LEMMA SameReplay ==
  ASSUME NEW b, NEW d, NEW a, NEW n,
         {i \in CorrectionsOf(d, a) : i < n} = {i \in CorrectionsOf(b, a) : i < n},
         LastBefore(b, a, n) # 0 =>
            d.events[LastBefore(b, a, n)] = b.events[LastBefore(b, a, n)],
         ImportOf(d, a) = ImportOf(b, a)
  PROVE  /\ LastBefore(d, a, n) = LastBefore(b, a, n)
         /\ MappingAt(d, a, n) = MappingAt(b, a, n)
  <1>1. LastBefore(d, a, n) = LastBefore(b, a, n) BY DEF LastBefore
  <1> QED BY <1>1 DEF MappingAt

\* An import with the events of b replays in d as it does in b.
LEMMA SameEventsReplay ==
  ASSUME NEW b, NEW d, NEW a, d.events = b.events, ImportOf(d, a) = ImportOf(b, a),
         Replays(b, a)
  PROVE  Replays(d, a)
  <1>1. EventsOf(d, a) = EventsOf(b, a) /\ CorrectionsOf(d, a) = CorrectionsOf(b, a)
    BY DEF EventsOf, CorrectionsOf
  <1>2. \A n : /\ LastBefore(d, a, n) = LastBefore(b, a, n)
               /\ MappingAt(d, a, n) = MappingAt(b, a, n)
    BY <1>1, SameReplay
  <1> QED BY <1>1, <1>2 DEF Replays

\* The fields that JUnitValid and ReferenceAuditValid read.
LEMMA SameImportsValid ==
  ASSUME NEW b, NEW d, d.imports = b.imports, d.events = b.events, d.owner = b.owner,
         JUnitValid(b)
  PROVE  JUnitValid(d)
  <1>1. \A a : ImportOf(d, a) = ImportOf(b, a) BY DEF ImportOf
  <1>2. \A x \in ToSet(d.imports) : Replays(d, x.artifact)
    BY <1>1, SameEventsReplay DEF JUnitValid
  <1> QED BY <1>2 DEF JUnitValid

\* The reference audit reads nothing but the references and their events.
LEMMA SameReferencesValid ==
  ASSUME NEW b, NEW d, d.references = b.references, d.refEvents = b.refEvents,
         ReferenceAuditValid(b)
  PROVE  ReferenceAuditValid(d)
  <1>1. ActiveRefs(d) = ActiveRefs(b) BY DEF ActiveRefs, RetiredRefs
  <1> QED BY <1>1 DEF ReferenceAuditValid

\* The rest of an analysis, which the audits do not read.
SameGrounds(b, d) ==
    /\ d.owner = b.owner /\ d.source = b.source /\ d.ruleset = b.ruleset
    /\ d.evidence = b.evidence /\ d.findings = b.findings

\* Whatever is added to the ledgers, findings keep matching the evidence.
LEMMA SameGroundsValid ==
  ASSUME NEW b, NEW d, SameGrounds(b, d), ValidAnalysis(b)
  PROVE  EvidenceOwned(d) /\ FindingsMatch(d)
  BY DEF SameGrounds, ValidAnalysis, EvidenceOwned, FindingsMatch

\* The fields of an analysis.
LEMMA AnalysisFields ==
  ASSUME NEW b \in Analyses
  PROVE  /\ b.owner \in Owners /\ b.evidence \subseteq Retrieved
         /\ b.imports \in Seq(Imports) /\ b.events \in Seq(AuditEvents)
         /\ b.references \in Seq(References) /\ b.refEvents \in Seq(RefEvents)
         /\ b.final \in BOOLEAN /\ b # None
  BY EvidenceAssumption DEF Analyses

\* An import that is allowed leaves an analysis that validates.
LEMMA ImportKeepsValid ==
  ASSUME NEW b \in Analyses, ValidAnalysis(b), NEW a \in Artifacts, NEW m \in Mappings,
         CanImport(b, a)
  PROVE  /\ ImportResults(b, a, m) \in Analyses
         /\ ValidAnalysis(ImportResults(b, a, m))
  <1> DEFINE new == JUnitImport(b.owner, a, m)
             d == ImportResults(b, a, m)
  <1>0. /\ b.owner \in Owners /\ b.imports \in Seq(Imports)
        /\ b.events \in Seq(AuditEvents)
    BY AnalysisFields
  <1>1. new \in Imports /\ new.artifact = a /\ new.owner = b.owner /\ new.mapping = m
    BY <1>0 DEF JUnitImport, Imports
  <1>2. /\ d.imports = Append(b.imports, new)
        /\ SameGrounds(b, d) /\ d.events = b.events /\ d.references = b.references
        /\ d.refEvents = b.refEvents /\ d.resolutions = b.resolutions /\ d.final = b.final
    BY DEF ImportResults, Analyses, SameGrounds
  <1>3. d \in Analyses
    <2>1. Append(b.imports, new) \in Seq(Imports) BY <1>0, <1>1
    <2> HIDE DEF new
    <2> QED BY <2>1 DEF ImportResults, Analyses, new
  <1> HIDE DEF new, d
  <1>4. /\ ToSet(d.imports) = ToSet(b.imports) \union {new}
        /\ DOMAIN d.imports = DOMAIN b.imports \union {Len(b.imports) + 1}
        /\ \A i \in DOMAIN b.imports : d.imports[i] = b.imports[i]
        /\ d.imports[Len(b.imports) + 1] = new
    BY <1>0, <1>1, <1>2 DEF ToSet
  <1>5. \A x \in ToSet(b.imports) : x.artifact # a BY DEF CanImport
  <1>6. JUnitValid(b) BY DEF ValidAnalysis
  <1>7. IsInjective([i \in DOMAIN d.imports |-> d.imports[i].artifact])
    <2>1. \A i \in DOMAIN b.imports : b.imports[i].artifact # a BY <1>5 DEF ToSet
    <2>2. \A i, j \in DOMAIN b.imports :
            b.imports[i].artifact = b.imports[j].artifact => i = j
      BY <1>6 DEF JUnitValid, IsInjective
    <2>3. \A i, j \in DOMAIN d.imports :
            d.imports[i].artifact = d.imports[j].artifact => i = j
      BY <1>1, <1>4, <2>1, <2>2
    <2> QED BY <2>3 DEF IsInjective
  <1>8. ASSUME NEW x \in ToSet(d.imports)
        PROVE  x.owner = d.owner /\ x.mapping \in Mappings /\ Replays(d, x.artifact)
    <2>1. CASE x = new
      <3>1. \A e \in ToSet(b.events) : e.artifact # a BY <1>5, <1>6 DEF JUnitValid
      <3>2. EventsOf(d, a) = {} BY <1>2, <3>1 DEF EventsOf, ToSet
      <3>3. Replays(d, a) BY <3>2 DEF Replays
      <3> QED BY <1>1, <1>2, <2>1, <3>3 DEF SameGrounds
    <2>2. CASE x \in ToSet(b.imports)
      <3>1. ImportOf(b, x.artifact) = x /\ ImportOf(d, x.artifact) = x
        BY <1>4, <1>6, <1>7, <2>2, ImportIsFound DEF JUnitValid
      <3>2. Replays(d, x.artifact)
        BY <1>2, <1>6, <2>2, <3>1, SameEventsReplay DEF JUnitValid
      <3> QED BY <1>2, <1>6, <2>2, <3>2 DEF JUnitValid, SameGrounds
    <2> QED BY <1>4, <2>1, <2>2
  <1>9. JUnitValid(d)
    BY <1>2, <1>4, <1>6, <1>7, <1>8 DEF JUnitValid
  <1>10. ReferenceAuditValid(d) BY <1>2, SameReferencesValid DEF ValidAnalysis
  <1>11. ReferencesOwned(d)
    BY <1>2 DEF ValidAnalysis, ReferencesOwned, ScopeAgrees, SameGrounds
  <1>12. EvidenceOwned(d) /\ FindingsMatch(d) BY <1>2, SameGroundsValid
  <1> QED BY <1>2, <1>3, <1>9, <1>10, <1>11, <1>12 DEF ValidAnalysis, d

\* An audit event extends the ledger, and the rest stays as it was.
EventAdded(b, d, e) ==
    /\ DOMAIN b.events = 1..Len(b.events) /\ Len(b.events) \in Nat
    /\ DOMAIN d.events = DOMAIN b.events \union {Len(b.events) + 1}
    /\ \A i \in DOMAIN b.events : d.events[i] = b.events[i]
    /\ d.events[Len(b.events) + 1] = e
    /\ ToSet(d.events) = ToSet(b.events) \union {e}
    /\ SameGrounds(b, d) /\ d.imports = b.imports
    /\ d.references = b.references /\ d.refEvents = b.refEvents
    /\ d.resolutions = b.resolutions /\ d.final = b.final

\* An appended audit event is added to what was there.
LEMMA EventAppended ==
  ASSUME NEW b \in Analyses, NEW e, NEW d, d = [b EXCEPT !.events = Append(@, e)]
  PROVE  EventAdded(b, d, e)
  <1>1. b.events \in Seq(AuditEvents) BY AnalysisFields
  <1>2. b.events \in Seq(AuditEvents \union {e}) BY <1>1
  <1>3. d.events = Append(b.events, e) BY DEF Analyses
  <1>4. /\ SameGrounds(b, d) /\ d.imports = b.imports
        /\ d.references = b.references /\ d.refEvents = b.refEvents
        /\ d.resolutions = b.resolutions /\ d.final = b.final
    BY DEF Analyses, SameGrounds
  <1>5. /\ DOMAIN b.events = 1..Len(b.events) /\ Len(b.events) \in Nat
        /\ DOMAIN d.events = 1..(Len(b.events) + 1)
        /\ \A i \in DOMAIN b.events : d.events[i] = b.events[i]
        /\ d.events[Len(b.events) + 1] = e
    BY <1>2, <1>3
  <1>6. DOMAIN d.events = DOMAIN b.events \union {Len(b.events) + 1} BY <1>5
  <1>7. ToSet(d.events) = ToSet(b.events) \union {e} BY <1>5, <1>6 DEF ToSet
  <1> QED BY <1>4, <1>5, <1>6, <1>7 DEF EventAdded

\* An active import is recorded, and is not withdrawn.
LEMMA ActiveImportIsFound ==
  ASSUME NEW b \in Analyses, JUnitValid(b), NEW a \in ActiveImports(b)
  PROVE  /\ a \in Artifacts /\ ~Withdrawn(b, a)
         /\ ImportOf(b, a) \in ToSet(b.imports) /\ ImportOf(b, a).artifact = a
         /\ ImportOf(b, a).owner = b.owner
         /\ Effective(b, a) \in Mappings
  <1>1. PICK x \in ToSet(b.imports) : x.artifact = a /\ ~Withdrawn(b, a)
    BY DEF ActiveImports
  <1>2. ImportOf(b, a) = x BY <1>1, ImportIsFound DEF JUnitValid
  <1>3. x \in Imports BY AnalysisFields, <1>1 DEF ToSet
  <1>4. DOMAIN b.events \subseteq Nat /\ Len(b.events) \in Nat BY AnalysisFields
  <1>5. Effective(b, a) \in Mappings
    BY <1>1, <1>4, ReplayGivesMapping DEF Effective
  <1> QED BY <1>1, <1>2, <1>3, <1>5 DEF Imports, JUnitValid

\* A correction that is allowed leaves an analysis that validates.
LEMMA CorrectionKeepsValid ==
  ASSUME NEW b \in Analyses, ValidAnalysis(b), NEW a, NEW m, CanCorrect(b, a, m)
  PROVE  /\ CorrectMappings(b, a, m) \in Analyses
         /\ ValidAnalysis(CorrectMappings(b, a, m))
  <1> DEFINE e == Correction(b, a, m)
             n == Len(b.events) + 1
             d == CorrectMappings(b, a, m)
  <1>1. JUnitValid(b) /\ JUnitValid(d) /\ a \in ActiveImports(b)
    BY DEF CanCorrect, ValidAnalysis
  <1>2. /\ a \in Artifacts /\ ImportOf(b, a) \in ToSet(b.imports)
        /\ ImportOf(b, a).artifact = a /\ ImportOf(b, a).owner = b.owner
        /\ Effective(b, a) \in Mappings
    BY <1>1, ActiveImportIsFound
  <1>3. d = [b EXCEPT !.events = Append(@, e)] BY DEF CorrectMappings
  <1> HIDE DEF d, e
  <1>4. EventAdded(b, d, e) BY <1>3, EventAppended
  <1>5. e.action = "mapping_corrected" /\ e.artifact = a /\ e.mapping = m
    BY DEF e, Correction
  <1>6. m \in Mappings
    <2>1. n \in EventsOf(d, a) BY <1>4, <1>5 DEF EventsOf, EventAdded
    <2>2. Replays(d, a) BY <1>1, <1>2, <1>4 DEF JUnitValid, EventAdded
    <2> QED BY <1>4, <1>5, <2>1, <2>2 DEF Replays, EventAdded
  <1>7. LastBefore(b, a, n) \in Nat BY <1>4, LastCorrection DEF EventAdded
  <1>8. b.owner \in Owners BY AnalysisFields
  <1>9. e \in AuditEvents
    BY <1>2, <1>6, <1>7, <1>8 DEF e, Correction, AuditEvents
  <1>10. d \in Analyses
    <2>1. b.events \in Seq(AuditEvents) BY AnalysisFields
    <2>2. Append(b.events, e) \in Seq(AuditEvents) BY <1>9, <2>1
    <2> QED BY <1>3, <2>2 DEF Analyses
  <1>11. ReferenceAuditValid(d) BY <1>4, SameReferencesValid DEF ValidAnalysis, EventAdded
  <1>12. ReferencesOwned(d)
    BY <1>4 DEF ValidAnalysis, ReferencesOwned, ScopeAgrees, SameGrounds, EventAdded
  <1>13. EvidenceOwned(d) /\ FindingsMatch(d) BY <1>4, SameGroundsValid DEF EventAdded
  <1> QED BY <1>1, <1>4, <1>10, <1>11, <1>12, <1>13 DEF ValidAnalysis, d, EventAdded

\* A withdrawal of an import in force leaves an analysis that validates.
LEMMA WithdrawalKeepsValid ==
  ASSUME NEW b \in Analyses, ValidAnalysis(b), NEW a \in ActiveImports(b)
  PROVE  /\ WithdrawImport(b, a) \in Analyses
         /\ ValidAnalysis(WithdrawImport(b, a))
  <1> DEFINE e == Withdrawal(b, a)
             n == Len(b.events) + 1
             d == WithdrawImport(b, a)
  <1>1. JUnitValid(b) BY DEF ValidAnalysis
  <1>2. /\ a \in Artifacts /\ ImportOf(b, a) \in ToSet(b.imports) /\ ~Withdrawn(b, a)
        /\ ImportOf(b, a).artifact = a /\ ImportOf(b, a).owner = b.owner
    BY <1>1, ActiveImportIsFound
  <1>3. d = [b EXCEPT !.events = Append(@, e)] BY DEF WithdrawImport
  <1> HIDE DEF d, e
  <1>4. EventAdded(b, d, e) BY <1>3, EventAppended
  <1>5. e.action = "withdrawn" /\ e.artifact = a /\ e.owner = b.owner
    BY <1>2 DEF e, Withdrawal
  <1>6. b.owner \in Owners BY AnalysisFields
  <1>7. e \in AuditEvents BY <1>2, <1>6 DEF e, Withdrawal, AuditEvents
  <1>8. d \in Analyses
    <2>1. b.events \in Seq(AuditEvents) BY AnalysisFields
    <2>2. Append(b.events, e) \in Seq(AuditEvents) BY <1>7, <2>1
    <2> QED BY <1>3, <2>2 DEF Analyses
  <1>9. /\ \A x : CorrectionsOf(d, x) = CorrectionsOf(b, x)
        /\ \A x : x # a => EventsOf(d, x) = EventsOf(b, x)
        /\ EventsOf(d, a) = EventsOf(b, a) \union {n}
    BY <1>4, <1>5 DEF CorrectionsOf, EventsOf, EventAdded
  <1>10. \A x, i : i \in Nat => /\ LastBefore(d, x, i) = LastBefore(b, x, i)
                                /\ MappingAt(d, x, i) = MappingAt(b, x, i)
    <2> SUFFICES ASSUME NEW x, NEW i \in Nat
                 PROVE  /\ LastBefore(d, x, i) = LastBefore(b, x, i)
                        /\ MappingAt(d, x, i) = MappingAt(b, x, i)
      OBVIOUS
    <2>1. ImportOf(d, x) = ImportOf(b, x) BY <1>4 DEF ImportOf, EventAdded
    <2>2. LastBefore(b, x, i) # 0 => LastBefore(b, x, i) \in DOMAIN b.events
      BY <1>4, LastCorrection DEF CorrectionsOf, EventsOf, EventAdded
    <2> QED BY <1>4, <1>9, <2>1, <2>2, SameReplay DEF EventAdded
  <1>11. ASSUME NEW x \in ToSet(d.imports) PROVE Replays(d, x.artifact)
    <2>1. Replays(b, x.artifact) BY <1>1, <1>4 DEF JUnitValid, EventAdded
    <2> SUFFICES ASSUME NEW i \in EventsOf(d, x.artifact)
                 PROVE  /\ \A j \in EventsOf(d, x.artifact) :
                             d.events[j].action = "withdrawn" => i <= j
                        /\ d.events[i].action = "mapping_corrected" =>
                             /\ d.events[i].previous = MappingAt(d, x.artifact, i)
                             /\ d.events[i].link = LastBefore(d, x.artifact, i)
                             /\ d.events[i].mapping # MappingAt(d, x.artifact, i)
                             /\ d.events[i].mapping \in Mappings
      BY DEF Replays
    <2>2. \A j \in EventsOf(d, x.artifact) :
            /\ j \in Nat /\ j <= n
            /\ j # n => j \in EventsOf(b, x.artifact) /\ d.events[j] = b.events[j]
      BY <1>4 DEF EventsOf, EventAdded
    <2>3. x.artifact = a => \A j \in EventsOf(b, a) : b.events[j].action # "withdrawn"
      BY <1>2 DEF Withdrawn
    <2>4. n \in EventsOf(d, x.artifact) => x.artifact = a
      BY <1>4, <1>5 DEF EventsOf, EventAdded
    <2>5. ASSUME NEW j \in EventsOf(d, x.artifact), d.events[j].action = "withdrawn"
          PROVE  i <= j
      <3>1. CASE j = n BY <2>2, <3>1
      <3>2. CASE j # n
        <4>1. j \in EventsOf(b, x.artifact) /\ b.events[j].action = "withdrawn"
          BY <2>2, <2>5, <3>2
        <4>2. i # n BY <2>3, <2>4, <4>1
        <4>3. i \in EventsOf(b, x.artifact) BY <2>2, <4>2
        <4> QED BY <2>1, <4>1, <4>3 DEF Replays
      <3> QED BY <3>1, <3>2
    <2>6. ASSUME d.events[i].action = "mapping_corrected"
          PROVE  /\ d.events[i].previous = MappingAt(d, x.artifact, i)
                 /\ d.events[i].link = LastBefore(d, x.artifact, i)
                 /\ d.events[i].mapping # MappingAt(d, x.artifact, i)
                 /\ d.events[i].mapping \in Mappings
      <3>1. i # n BY <1>4, <1>5, <2>6 DEF EventAdded
      <3>2. i \in EventsOf(b, x.artifact) /\ d.events[i] = b.events[i] /\ i \in Nat
        BY <2>2, <3>1
      <3>3. /\ MappingAt(d, x.artifact, i) = MappingAt(b, x.artifact, i)
            /\ LastBefore(d, x.artifact, i) = LastBefore(b, x.artifact, i)
        BY <1>10, <3>2
      <3> QED BY <2>1, <2>6, <3>2, <3>3 DEF Replays
    <2> QED BY <2>5, <2>6
  <1>12. JUnitValid(d)
    <2>1. {i \in DOMAIN d.events : d.events[i].action = "mapping_corrected"}
            = {i \in DOMAIN b.events : b.events[i].action = "mapping_corrected"}
      BY <1>4, <1>5 DEF EventAdded
    <2>2. \A y \in ToSet(d.events) :
            \E x \in ToSet(d.imports) : x.artifact = y.artifact /\ x.owner = y.owner
      BY <1>1, <1>2, <1>4, <1>5 DEF JUnitValid, EventAdded
    <2> QED BY <1>1, <1>4, <1>11, <2>1, <2>2 DEF JUnitValid, SameGrounds, EventAdded
  <1>13. ReferenceAuditValid(d) BY <1>4, SameReferencesValid DEF ValidAnalysis, EventAdded
  <1>14. ReferencesOwned(d)
    BY <1>4 DEF ValidAnalysis, ReferencesOwned, ScopeAgrees, SameGrounds, EventAdded
  <1>15. EvidenceOwned(d) /\ FindingsMatch(d) BY <1>4, SameGroundsValid DEF EventAdded
  <1> QED BY <1>4, <1>8, <1>12, <1>13, <1>14, <1>15 DEF ValidAnalysis, d, EventAdded

-----------------------------------------------------------------------------
(* Selected references, decisions and fresh analyses.                      *)

\* The validation of references is part of their operations, which are left
\* to show that what they record belongs to this analysis.
LEMMA ReferencesKeepValid ==
  ASSUME NEW b \in Analyses, ValidAnalysis(b),
         NEW R \in Seq(References), NEW E \in Seq(RefEvents), NEW d,
         d = [b EXCEPT !.references = R, !.refEvents = E],
         ReferenceAuditValid(d),
         \A r \in ToSet(R) : r.owner = b.owner
  PROVE  d \in Analyses /\ ValidAnalysis(d)
  <1>1. d \in Analyses BY DEF Analyses
  <1>2. /\ SameGrounds(b, d) /\ d.imports = b.imports /\ d.events = b.events
        /\ d.references = R /\ d.resolutions = b.resolutions /\ d.final = b.final
    BY DEF Analyses, SameGrounds
  <1>3. b.owner \in Owners BY AnalysisFields
  <1>4. JUnitValid(d) BY <1>2, SameImportsValid DEF ValidAnalysis, SameGrounds
  <1>5. EvidenceOwned(d) /\ FindingsMatch(d) BY <1>2, SameGroundsValid
  <1>6. ReferencesOwned(d)
    <2> SUFFICES ASSUME NEW r \in ToSet(R)
                 PROVE  r.owner = d.owner /\ r.criterion \in Criteria
                        /\ ScopeAgrees(d, r.line)
      BY <1>2 DEF ReferencesOwned
    <2>1. r \in References BY DEF ToSet
    <2>2. PICK x \in Content[ReviewedHead] : r.line = Line(ReviewedHead, x)
      BY <2>1 DEF References
    <2>3. d.owner.head = ReviewedHead BY <1>2, <1>3 DEF SameGrounds, Owners
    <2>4. ScopeAgrees(d, r.line) BY <2>2, <2>3 DEF ScopeAgrees, Line
    <2> QED BY <1>2, <2>1, <2>4 DEF References, SameGrounds
  <1> QED BY <1>1, <1>2, <1>4, <1>5, <1>6 DEF ValidAnalysis

\* A new reference belongs to the analysis it is made for.
LEMMA ReferenceIsOwned ==
  ASSUME NEW b \in Analyses, NEW c \in Criteria, NEW paths,
         NEW line \in EligibleLines(ReviewedHead, paths), NEW note \in Notes
  PROVE  Reference(b, c, line, note) \in References
         /\ Reference(b, c, line, note).owner = b.owner
  <1>1. b.owner \in Owners /\ Len(b.references) + 1 \in Nat BY AnalysisFields
  <1>2. line \in {Line(ReviewedHead, x) : x \in Content[ReviewedHead]}
    BY DEF EligibleLines
  <1> QED BY <1>1, <1>2 DEF Reference, References

\* The references of a valid analysis are its own, and those in force are recorded.
LEMMA RecordedReferences ==
  ASSUME NEW b \in Analyses, ValidAnalysis(b)
  PROVE  /\ b.references \in Seq(References) /\ b.refEvents \in Seq(RefEvents)
         /\ \A r \in ToSet(b.references) : r.owner = b.owner
         /\ \A id : (\E r \in ActiveRefs(b) : r.id = id) =>
              id \in DOMAIN b.references /\ id \in Nat
              /\ b.references[id].criterion \in Criteria
  <1>1. b.references \in Seq(References) /\ b.refEvents \in Seq(RefEvents)
    BY AnalysisFields
  <1>2. \A r \in ToSet(b.references) : r.owner = b.owner
    BY DEF ValidAnalysis, ReferencesOwned
  <1>3. ASSUME NEW r \in ActiveRefs(b)
        PROVE  r.id \in DOMAIN b.references /\ r.id \in Nat
               /\ b.references[r.id].criterion \in Criteria
    <2>1. PICK i \in DOMAIN b.references : r = b.references[i]
      BY <1>3 DEF ActiveRefs, ToSet
    <2>2. r.id = i BY <2>1 DEF ValidAnalysis, ReferenceAuditValid
    <2>3. r \in References /\ i \in Nat BY <1>1, <2>1
    <2> QED BY <2>1, <2>2, <2>3 DEF References
  <1> QED BY <1>1, <1>2, <1>3

\* A reference that may be added leaves an analysis that validates.
LEMMA AddedReferenceKeepsValid ==
  ASSUME NEW b \in Analyses, ValidAnalysis(b), NEW c \in Criteria, NEW paths,
         NEW line \in EligibleLines(ReviewedHead, paths), NEW note \in Notes,
         CanAddReference(b, c, line, note)
  PROVE  /\ AddReference(b, c, line, note) \in Analyses
         /\ ValidAnalysis(AddReference(b, c, line, note))
  <1> DEFINE r == Reference(b, c, line, note)
             d == AddReference(b, c, line, note)
  <1>1. r \in References /\ r.owner = b.owner BY ReferenceIsOwned
  <1>2. ReferenceAuditValid(d) BY DEF CanAddReference
  <1>3. /\ b.references \in Seq(References) /\ b.refEvents \in Seq(RefEvents)
        /\ \A q \in ToSet(b.references) : q.owner = b.owner
    BY RecordedReferences
  <1>4. d = [b EXCEPT !.references = Append(b.references, r), !.refEvents = b.refEvents]
    BY DEF AddReference, Analyses
  <1> HIDE DEF r, d
  <1>5. Append(b.references, r) \in Seq(References) BY <1>1, <1>3
  <1>6. \A q \in ToSet(Append(b.references, r)) : q.owner = b.owner
    BY <1>1, <1>3 DEF ToSet
  <1>7. d \in Analyses /\ ValidAnalysis(d)
    BY <1>2, <1>3, <1>4, <1>5, <1>6, ReferencesKeepValid
  <1> QED BY <1>7 DEF d

\* The event of a reference has its type.
LEMMA RefEventIsTyped ==
  ASSUME NEW b \in Analyses, NEW id \in Nat, NEW by \in Nat \union {None}
  PROVE  RefEvent(b, id, by) \in RefEvents
  <1>1. b.owner \in Owners BY AnalysisFields
  <1> QED BY <1>1 DEF RefEvent, RefEvents

\* A reference that may be corrected leaves an analysis that validates.
LEMMA CorrectedReferenceKeepsValid ==
  ASSUME NEW b \in Analyses, ValidAnalysis(b), NEW id, NEW paths,
         NEW line \in EligibleLines(ReviewedHead, paths), NEW note \in Notes,
         CanCorrectReference(b, id, line, note)
  PROVE  /\ CorrectReference(b, id, line, note) \in Analyses
         /\ ValidAnalysis(CorrectReference(b, id, line, note))
  <1> DEFINE r == Reference(b, b.references[id].criterion, line, note)
             e == RefEvent(b, id, Len(b.references) + 1)
             d == CorrectReference(b, id, line, note)
  <1>1. /\ b.references \in Seq(References) /\ b.refEvents \in Seq(RefEvents)
        /\ \A q \in ToSet(b.references) : q.owner = b.owner
        /\ id \in Nat /\ b.references[id].criterion \in Criteria
    BY RecordedReferences DEF CanCorrectReference
  <1>2. r \in References /\ r.owner = b.owner BY <1>1, ReferenceIsOwned
  <1>3. ReferenceAuditValid(d) BY DEF CanCorrectReference
  <1>4. Len(b.references) + 1 \in Nat BY <1>1
  <1>5. e \in RefEvents BY <1>1, <1>4, RefEventIsTyped
  <1>6. d = [b EXCEPT !.references = Append(b.references, r),
                      !.refEvents = Append(b.refEvents, e)]
    BY DEF CorrectReference, Analyses
  <1> HIDE DEF r, e, d
  <1>7. Append(b.references, r) \in Seq(References)
        /\ Append(b.refEvents, e) \in Seq(RefEvents)
    BY <1>1, <1>2, <1>5
  <1>8. \A q \in ToSet(Append(b.references, r)) : q.owner = b.owner
    BY <1>1, <1>2 DEF ToSet
  <1>9. d \in Analyses /\ ValidAnalysis(d)
    BY <1>3, <1>6, <1>7, <1>8, ReferencesKeepValid
  <1> QED BY <1>9 DEF d

\* A reference that may be withdrawn leaves an analysis that validates.
LEMMA WithdrawnReferenceKeepsValid ==
  ASSUME NEW b \in Analyses, ValidAnalysis(b), NEW id, CanWithdrawReference(b, id)
  PROVE  /\ WithdrawReference(b, id) \in Analyses
         /\ ValidAnalysis(WithdrawReference(b, id))
  <1> DEFINE e == RefEvent(b, id, None)
             d == WithdrawReference(b, id)
  <1>1. /\ b.references \in Seq(References) /\ b.refEvents \in Seq(RefEvents)
        /\ \A q \in ToSet(b.references) : q.owner = b.owner
        /\ id \in Nat
    BY RecordedReferences DEF CanWithdrawReference
  <1>2. ReferenceAuditValid(d) BY DEF CanWithdrawReference
  <1>3. e \in RefEvents BY <1>1, RefEventIsTyped
  <1>4. d = [b EXCEPT !.references = b.references, !.refEvents = Append(b.refEvents, e)]
    BY DEF WithdrawReference, Analyses
  <1> HIDE DEF e, d
  <1>5. Append(b.refEvents, e) \in Seq(RefEvents) BY <1>1, <1>3
  <1>6. d \in Analyses /\ ValidAnalysis(d)
    BY <1>1, <1>2, <1>4, <1>5, ReferencesKeepValid
  <1> QED BY <1>6 DEF d

\* Decisions and the acceptance are all that changes.
LEMMA VerdictKeepsValid ==
  ASSUME NEW b \in Analyses, ValidAnalysis(b), NEW d,
         NEW S \in SUBSET Criteria, NEW r \in [S -> Decisions], NEW final \in BOOLEAN,
         d = [b EXCEPT !.resolutions = r, !.final = final],
         final => S = Criteria
  PROVE  d \in Analyses /\ ValidAnalysis(d)
  <1>1. d \in Analyses BY DEF Analyses
  <1>2. /\ SameGrounds(b, d) /\ d.imports = b.imports /\ d.events = b.events
        /\ d.references = b.references /\ d.refEvents = b.refEvents
        /\ d.resolutions = r /\ d.final = final
    BY DEF Analyses, SameGrounds
  <1>3. JUnitValid(d)
    <2>1. JUnitValid(b) /\ d.owner = b.owner BY <1>2 DEF ValidAnalysis, SameGrounds
    <2> QED BY <1>2, <2>1, SameImportsValid
  <1>4. ReferenceAuditValid(d) BY <1>2, SameReferencesValid DEF ValidAnalysis
  <1>5. ReferencesOwned(d)
    BY <1>2 DEF ValidAnalysis, ReferencesOwned, ScopeAgrees, SameGrounds
  <1>6. EvidenceOwned(d) /\ FindingsMatch(d) BY <1>2, SameGroundsValid
  <1> QED BY <1>1, <1>2, <1>3, <1>4, <1>5, <1>6 DEF ValidAnalysis

\* A decision leaves an analysis that validates.
LEMMA DecisionKeepsValid ==
  ASSUME NEW b \in Analyses, ValidAnalysis(b), NEW c \in Criteria, NEW x \in Decisions
  PROVE  LET d == [b EXCEPT !.resolutions = WithDecision(@, c, x)]
         IN  d \in Analyses /\ ValidAnalysis(d)
  <1> DEFINE r == WithDecision(b.resolutions, c, x)
             d == [b EXCEPT !.resolutions = r]
  <1>1. PICK S \in SUBSET Criteria : b.resolutions \in [S -> Decisions] BY DEF Analyses
  <1>2. r \in [S \union {c} -> Decisions] BY <1>1 DEF WithDecision
  <1>3. b.final => S = Criteria BY <1>1 DEF ValidAnalysis
  <1>4. b.final \in BOOLEAN BY AnalysisFields
  <1> HIDE DEF r
  <1>5. d = [b EXCEPT !.resolutions = r, !.final = b.final] BY DEF Analyses
  <1>6. S \union {c} \in SUBSET Criteria /\ (b.final => S \union {c} = Criteria)
    BY <1>3
  <1> HIDE DEF d
  <1>7. d \in Analyses /\ ValidAnalysis(d)
    BY <1>2, <1>4, <1>5, <1>6, VerdictKeepsValid
  <1> QED BY <1>7 DEF d, r

\* Acceptance needs every decision; taking it back needs nothing.
LEMMA AcceptanceKeepsValid ==
  ASSUME NEW b \in Analyses, ValidAnalysis(b), b.final \/ DOMAIN b.resolutions = Criteria
  PROVE  LET d == [b EXCEPT !.final = ~@]
         IN  d \in Analyses /\ ValidAnalysis(d)
  <1> DEFINE d == [b EXCEPT !.final = ~b.final]
  <1>1. PICK S \in SUBSET Criteria : b.resolutions \in [S -> Decisions] BY DEF Analyses
  <1>2. (~b.final) \in BOOLEAN OBVIOUS
  <1>3. d = [b EXCEPT !.resolutions = b.resolutions, !.final = ~b.final] BY DEF Analyses
  <1>4. ~b.final => S = Criteria BY <1>1
  <1> HIDE DEF d
  <1>5. d \in Analyses /\ ValidAnalysis(d)
    BY <1>1, <1>2, <1>3, <1>4, VerdictKeepsValid
  <1> QED BY <1>5 DEF d

\* A new analysis validates, with whatever source.
LEMMA FreshIsValid ==
  ASSUME NEW revision \in Nat, NEW source \in Sources, NEW paths
  PROVE  /\ FreshAnalysis(revision, source, paths) \in Analyses
         /\ ValidAnalysis(FreshAnalysis(revision, source, paths))
  <1> DEFINE E == {e \in Retrieved : e.line.scope = "unchanged" => e.line.path \in paths}
             owner == [review |-> Review, head |-> ReviewedHead, revision |-> revision]
             d == Analysis(owner, source, Ruleset, E)
  <1>1. FindingsOf(E) \in Findings
    BY DEF FindingsOf, Findings
  <1>2. owner \in Owners /\ owner.head = ReviewedHead BY DEF Owners
  <1>3. E \in SUBSET Retrieved OBVIOUS
  <1>4. <<>> \in [{} -> Decisions] OBVIOUS
  <1>5. /\ d.owner = owner /\ d.evidence = E /\ d.findings = FindingsOf(E)
        /\ d.resolutions = <<>> /\ d.imports = <<>> /\ d.events = <<>>
        /\ d.references = <<>> /\ d.refEvents = <<>> /\ d.final = FALSE
    BY DEF Analysis
  <1> HIDE DEF owner, E
  <1>6. d \in Analyses
    <2>1. {} \in SUBSET Criteria OBVIOUS
    <2>2. <<>> \in UNION {[S -> Decisions] : S \in SUBSET Criteria} BY <1>4, <2>1
    <2>3. /\ <<>> \in Seq(Imports) /\ <<>> \in Seq(AuditEvents)
          /\ <<>> \in Seq(References) /\ <<>> \in Seq(RefEvents)
      OBVIOUS
    <2>4. FALSE \in BOOLEAN OBVIOUS
    <2> DEFINE F == FindingsOf(E)
    <2>5. F \in Findings BY <1>1
    <2> HIDE DEF F
    <2>6. [owner |-> owner, source |-> source, ruleset |-> Ruleset,
           evidence |-> E, findings |-> F,
           resolutions |-> <<>>, imports |-> <<>>, events |-> <<>>,
           references |-> <<>>, refEvents |-> <<>>, final |-> FALSE] \in Analyses
      BY <1>2, <1>3, <2>2, <2>3, <2>4, <2>5 DEF Analyses
    <2> QED BY <2>6 DEF Analysis, F
  <1> HIDE DEF d
  <1>7. Cardinality({}) = 0 BY FS_EmptySet
  <1>8. /\ 0 <= MaxCorrections /\ 0 <= MaxReferences /\ 0 <= MaxRefEvents
        /\ 0 <= MaxActive
    BY LedgerAssumption
  <1>9. JUnitValid(d)
    BY <1>5, <1>7, <1>8 DEF JUnitValid, IsInjective, ToSet
  <1>10. ReferenceAuditValid(d) /\ ReferencesOwned(d)
    <2>1. ToSet(d.references) = {} /\ ActiveRefs(d) = {} BY <1>5 DEF ToSet, ActiveRefs
    <2>2. Len(d.references) = 0 /\ Len(d.refEvents) = 0
          /\ DOMAIN d.references = {} /\ DOMAIN d.refEvents = {}
      BY <1>5
    <2> QED BY <1>7, <1>8, <2>1, <2>2 DEF ReferenceAuditValid, ReferencesOwned
  <1>11. EvidenceOwned(d)
    <2>1. \A e \in Retrieved : e.line.scope = "changed" =>
            e.line.path \in Inventory[ReviewedHead]
      BY EvidenceAssumption DEF Line
    <2> QED BY <1>2, <1>3, <1>5, <2>1, EvidenceAssumption DEF EvidenceOwned
  <1>12. FindingsMatch(d)
    <2> DEFINE own(c) == {e \in E : e.criterion = c}
               status(c) == IF own(c) = {} THEN "missing"
                            ELSE IF \E e \in own(c) : e.strong THEN "evidence_found"
                            ELSE "partial"
               cited(c) == {e.id : e \in own(c)}
    <2>1. d.findings = [c \in Criteria |-> [status |-> status(c), cited |-> cited(c)]]
      BY <1>5 DEF FindingsOf
    <2>2. \A c \in Criteria : /\ status(c) = "evidence_found" => cited(c) # {}
                             /\ cited(c) = {e.id : e \in {y \in d.evidence : y.criterion = c}}
      BY <1>5
    <2> HIDE DEF status, cited
    <2> QED BY <2>1, <2>2 DEF FindingsMatch
  <1>13. d \in Analyses /\ ValidAnalysis(d)
    BY <1>5, <1>6, <1>9, <1>10, <1>11, <1>12 DEF ValidAnalysis
  <1> QED BY <1>13 DEF FreshAnalysis, d, owner, E

-----------------------------------------------------------------------------
(* Comparisons.                                                            *)

\* Pairs of candidates, none in two of them.
Matching(M, P, C) ==
    /\ M \subseteq P \X C
    /\ \A x, y \in M : (x[1] = y[1] \/ x[2] = y[2]) => x = y

\* Pairs with a unique signature pair nobody twice.
LEMMA UniquePairsMatch ==
  ASSUME NEW P, NEW C, NEW sig
  PROVE  Matching(UniquePairs(P, C, sig), P, C)
  <1> DEFINE M == UniquePairs(P, C, sig)
  <1>1. M \subseteq P \X C BY DEF UniquePairs
  <1>2. ASSUME NEW x \in M, NEW y \in M, x[1] = y[1] \/ x[2] = y[2]
        PROVE  x = y
    <2>1. /\ x \in P \X C /\ y \in P \X C
          /\ sig[x[1]] = sig[x[2]] /\ sig[y[1]] = sig[y[2]]
          /\ \A e \in P : sig[e] = sig[y[1]] => e = y[1]
          /\ \A e \in C : sig[e] = sig[y[2]] => e = y[2]
      BY DEF UniquePairs
    <2> HIDE DEF M
    <2>2. x[1] = y[1] /\ x[2] = y[2] BY <1>2, <2>1
    <2> QED BY <2>1, <2>2
  <1> QED BY <1>1, <1>2 DEF Matching

\* Pairing what one round left over pairs nobody twice.
LEMMA MatchingGrows ==
  ASSUME NEW P, NEW C, NEW M, NEW N,
         Matching(M, P, C), Matching(N, Left(P, M, 1), Left(C, M, 2))
  PROVE  Matching(M \union N, P, C) /\ M \intersect N = {}
  <1>1. \A y \in N : /\ y \in P \X C
                     /\ \A x \in M : x[1] # y[1] /\ x[2] # y[2]
    BY DEF Matching, Left
  <1>2. M \union N \subseteq P \X C BY <1>1 DEF Matching
  <1>3. \A x, y \in M \union N : (x[1] = y[1] \/ x[2] = y[2]) => x = y
    BY <1>1 DEF Matching
  <1> QED BY <1>1, <1>2, <1>3 DEF Matching

\* The changes that three sets of pairs and what they leave make.
FromPairs(P, C, exact, moved, modified) ==
    {Change("unchanged", x[1], x[2]) : x \in exact}
        \union {Change("relocated", x[1], x[2]) : x \in moved}
        \union {Change("modified", x[1], x[2]) : x \in modified}
        \union {Change("removed", e, None) :
                    e \in Left(P, exact \union moved \union modified, 1)}
        \union {Change("added", None, e) :
                    e \in Left(C, exact \union moved \union modified, 2)}

\* What the changes of one criterion are made of.
LEMMA ChangesAreOfPairs ==
  ASSUME NEW P, NEW C
  PROVE  \E exact, moved, modified :
           /\ EvidenceChangesOf(P, C) = FromPairs(P, C, exact, moved, modified)
           /\ Matching(exact \union moved \union modified, P, C)
           /\ exact \intersect moved = {}
           /\ (exact \union moved) \intersect modified = {}
           /\ \A x \in exact : ExactSignature(x[1]) = ExactSignature(x[2])
  <1> DEFINE all == P \union C
             sig1 == [e \in all |-> ExactSignature(e)]
             sig2 == [e \in all |-> RelocatedSignature(e)]
             sig3 == [e \in all |-> ModifiedSignature(e)]
             exact == UniquePairs(P, C, sig1)
             moved == UniquePairs(Left(P, exact, 1), Left(C, exact, 2), sig2)
             both == exact \union moved
             modified == UniquePairs(Left(P, both, 1), Left(C, both, 2), sig3)
  <1>1. EvidenceChangesOf(P, C) = FromPairs(P, C, exact, moved, modified)
    BY DEF EvidenceChangesOf, FromPairs
  <1>2. \A x \in exact : ExactSignature(x[1]) = ExactSignature(x[2])
    <2>1. \A x \in exact : x[1] \in all /\ x[2] \in all /\ sig1[x[1]] = sig1[x[2]]
      BY DEF UniquePairs
    <2> HIDE DEF exact
    <2> QED BY <2>1
  <1> HIDE DEF sig1, sig2, sig3
  <1>3. Matching(exact, P, C) BY UniquePairsMatch
  <1>4. Matching(moved, Left(P, exact, 1), Left(C, exact, 2)) BY UniquePairsMatch
  <1>5. Matching(modified, Left(P, both, 1), Left(C, both, 2)) BY UniquePairsMatch
  <1> HIDE DEF exact, moved, modified
  <1>6. Matching(both, P, C) /\ exact \intersect moved = {} BY <1>3, <1>4, MatchingGrows
  <1> HIDE DEF both
  <1>7. Matching(both \union modified, P, C) /\ both \intersect modified = {}
    BY <1>5, <1>6, MatchingGrows
  <1> QED BY <1>1, <1>2, <1>6, <1>7 DEF both

\* A change is well formed, names candidates of its sides, and is marked
\* unchanged only when these are the same line by the same rule.
SoundChange(y, P, C) ==
    /\ y.previous \in P \union {None} /\ y.current \in C \union {None}
    /\ (y.kind = "added") <=> (y.previous = None)
    /\ (y.kind = "removed") <=> (y.current = None)
    /\ ~(y.previous = None /\ y.current = None)
    /\ y.criterion = IF y.current = None THEN y.previous.criterion ELSE y.current.criterion
    /\ y.kind = "unchanged" => ExactSignature(y.previous) = ExactSignature(y.current)

\* The fields of a change.
LEMMA ChangeFields ==
  ASSUME NEW kind, NEW x, NEW y
  PROVE  /\ Change(kind, x, y).kind = kind
         /\ Change(kind, x, y).previous = x /\ Change(kind, x, y).current = y
         /\ Change(kind, x, y).criterion = IF y = None THEN x.criterion ELSE y.criterion
  BY DEF Change

\* The changes of one criterion account for each candidate exactly once.
LEMMA ChangesOfOneCriterion ==
  ASSUME NEW P, NEW C, None \notin P, None \notin C
  PROVE  /\ \A y \in EvidenceChangesOf(P, C) : SoundChange(y, P, C)
         /\ \A e \in P : \E y \in EvidenceChangesOf(P, C) :
              /\ y.previous = e
              /\ \A z \in EvidenceChangesOf(P, C) : z.previous = e => z = y
         /\ \A e \in C : \E y \in EvidenceChangesOf(P, C) :
              /\ y.current = e
              /\ \A z \in EvidenceChangesOf(P, C) : z.current = e => z = y
  <1>1. PICK exact, moved, modified :
          /\ EvidenceChangesOf(P, C) = FromPairs(P, C, exact, moved, modified)
          /\ Matching(exact \union moved \union modified, P, C)
          /\ exact \intersect moved = {}
          /\ (exact \union moved) \intersect modified = {}
          /\ \A x \in exact : ExactSignature(x[1]) = ExactSignature(x[2])
    BY ChangesAreOfPairs
  <1> DEFINE pairs == exact \union moved \union modified
             Kind(x) == IF x \in exact THEN "unchanged"
                        ELSE IF x \in moved THEN "relocated" ELSE "modified"
             X == FromPairs(P, C, exact, moved, modified)
  <1>2. \A x \in pairs : x[1] \in P /\ x[2] \in C /\ x[1] # None /\ x[2] # None
    BY <1>1 DEF Matching
  <1>3. \A y : y \in X <=>
          \/ \E x \in pairs : y = Change(Kind(x), x[1], x[2])
          \/ \E e \in Left(P, pairs, 1) : y = Change("removed", e, None)
          \/ \E e \in Left(C, pairs, 2) : y = Change("added", None, e)
    <2>1. \A x \in exact : Kind(x) = "unchanged" OBVIOUS
    <2>2. \A x \in moved : Kind(x) = "relocated" BY <1>1
    <2>3. \A x \in modified : Kind(x) = "modified" BY <1>1
    <2> HIDE DEF Kind
    <2> QED BY <2>1, <2>2, <2>3 DEF FromPairs
  <1>4. \A e \in Left(P, pairs, 1) : e \in P /\ e # None /\ \A x \in pairs : x[1] # e
    BY DEF Left
  <1>5. \A e \in Left(C, pairs, 2) : e \in C /\ e # None /\ \A x \in pairs : x[2] # e
    BY DEF Left
  <1>6. \A e \in P : e \in Left(P, pairs, 1) \/ \E x \in pairs : x[1] = e BY DEF Left
  <1>7. \A e \in C : e \in Left(C, pairs, 2) \/ \E x \in pairs : x[2] = e BY DEF Left
  <1>8. \A x, y \in pairs : (x[1] = y[1] \/ x[2] = y[2]) => x = y BY <1>1 DEF Matching
  <1>9. \A x \in pairs : /\ Kind(x) # "added" /\ Kind(x) # "removed"
                         /\ Kind(x) = "unchanged" => x \in exact
    OBVIOUS
  <1> HIDE DEF X, pairs, Kind
  <1>10. ASSUME NEW y \in X PROVE SoundChange(y, P, C)
    <2>1. CASE \E x \in pairs : y = Change(Kind(x), x[1], x[2])
      BY <1>1, <1>2, <1>9, <2>1, ChangeFields DEF SoundChange
    <2>2. CASE \E e \in Left(P, pairs, 1) : y = Change("removed", e, None)
      BY <1>4, <2>2, ChangeFields DEF SoundChange
    <2>3. CASE \E e \in Left(C, pairs, 2) : y = Change("added", None, e)
      BY <1>5, <2>3, ChangeFields DEF SoundChange
    <2> QED BY <1>3, <2>1, <2>2, <2>3
  <1>11. ASSUME NEW e \in P
         PROVE  \E y \in X : y.previous = e /\ \A z \in X : z.previous = e => z = y
    <2>1. CASE e \in Left(P, pairs, 1)
      <3>1. Change("removed", e, None) \in X BY <1>3, <2>1
      <3>2. \A z \in X : z.previous = e => z = Change("removed", e, None)
        BY <1>3, <1>4, <2>1, ChangeFields
      <3> QED BY <3>1, <3>2, ChangeFields
    <2>2. CASE \E x \in pairs : x[1] = e
      <3>1. PICK x \in pairs : x[1] = e BY <2>2
      <3>2. Change(Kind(x), x[1], x[2]) \in X BY <1>3
      <3>3. \A z \in X : z.previous = e => z = Change(Kind(x), x[1], x[2])
        BY <1>3, <1>4, <1>8, <3>1, ChangeFields
      <3> QED BY <3>1, <3>2, <3>3, ChangeFields
    <2> QED BY <1>6, <2>1, <2>2
  <1>12. ASSUME NEW e \in C
         PROVE  \E y \in X : y.current = e /\ \A z \in X : z.current = e => z = y
    <2>1. CASE e \in Left(C, pairs, 2)
      <3>1. Change("added", None, e) \in X BY <1>3, <2>1
      <3>2. \A z \in X : z.current = e => z = Change("added", None, e)
        BY <1>3, <1>5, <2>1, ChangeFields
      <3> QED BY <3>1, <3>2, ChangeFields
    <2>2. CASE \E x \in pairs : x[2] = e
      <3>1. PICK x \in pairs : x[2] = e BY <2>2
      <3>2. Change(Kind(x), x[1], x[2]) \in X BY <1>3
      <3>3. \A z \in X : z.current = e => z = Change(Kind(x), x[1], x[2])
        BY <1>3, <1>5, <1>8, <3>1, ChangeFields
      <3> QED BY <3>1, <3>2, <3>3, ChangeFields
    <2> QED BY <1>7, <2>1, <2>2
  <1> QED BY <1>1, <1>10, <1>11, <1>12 DEF X

\* The candidates of a criterion.
Of(b, c) == {e \in b.evidence : e.criterion = c}

\* So do the changes of two analyses, whose candidates all have a criterion.
LEMMA ChangesOfAnalyses ==
  ASSUME NEW p, NEW q, EvidenceOwned(p), EvidenceOwned(q),
         None \notin p.evidence, None \notin q.evidence
  PROVE  /\ \A y \in EvidenceChanges(p, q) : SoundChange(y, p.evidence, q.evidence)
         /\ \A y \in EvidenceChanges(p, q) :
              /\ y.previous # None => y.previous.criterion = y.criterion
              /\ y.current # None => y.current.criterion = y.criterion
         /\ \A e \in p.evidence : \E y \in EvidenceChanges(p, q) :
              /\ y.previous = e
              /\ \A z \in EvidenceChanges(p, q) : z.previous = e => z = y
         /\ \A e \in q.evidence : \E y \in EvidenceChanges(p, q) :
              /\ y.current = e
              /\ \A z \in EvidenceChanges(p, q) : z.current = e => z = y
  <1> DEFINE X(c) == EvidenceChangesOf(Of(p, c), Of(q, c))
  <1>1. \A y : y \in EvidenceChanges(p, q) <=> \E c \in Criteria : y \in X(c)
    BY DEF EvidenceChanges, Of
  <1>2. \A c : None \notin Of(p, c) /\ None \notin Of(q, c) BY DEF Of
  <1>3. \A c : /\ \A y \in X(c) : SoundChange(y, Of(p, c), Of(q, c))
               /\ \A e \in Of(p, c) : \E y \in X(c) :
                    y.previous = e /\ \A z \in X(c) : z.previous = e => z = y
               /\ \A e \in Of(q, c) : \E y \in X(c) :
                    y.current = e /\ \A z \in X(c) : z.current = e => z = y
    BY <1>2, ChangesOfOneCriterion
  <1> HIDE DEF X
  <1>4. ASSUME NEW c \in Criteria, NEW y \in X(c)
        PROVE  /\ SoundChange(y, p.evidence, q.evidence)
               /\ y.criterion = c
               /\ y.previous # None => y.previous.criterion = c
               /\ y.current # None => y.current.criterion = c
    <2>1. SoundChange(y, Of(p, c), Of(q, c)) BY <1>3
    <2>2. /\ y.previous # None => y.previous \in Of(p, c)
          /\ y.current # None => y.current \in Of(q, c)
      BY <2>1 DEF SoundChange
    <2> QED BY <2>1, <2>2 DEF SoundChange, Of
  <1>5. ASSUME NEW e \in p.evidence
        PROVE  \E y \in EvidenceChanges(p, q) :
                 /\ y.previous = e
                 /\ \A z \in EvidenceChanges(p, q) : z.previous = e => z = y
    <2>1. e.criterion \in Criteria /\ e \in Of(p, e.criterion) /\ e # None
      BY DEF EvidenceOwned, Of
    <2>2. PICK y \in X(e.criterion) :
            y.previous = e /\ \A z \in X(e.criterion) : z.previous = e => z = y
      BY <1>3, <2>1
    <2>3. \A c \in Criteria : \A z \in X(c) : z.previous = e => c = e.criterion
      BY <1>4, <2>1
    <2> QED BY <1>1, <2>1, <2>2, <2>3
  <1>6. ASSUME NEW e \in q.evidence
        PROVE  \E y \in EvidenceChanges(p, q) :
                 /\ y.current = e
                 /\ \A z \in EvidenceChanges(p, q) : z.current = e => z = y
    <2>1. e.criterion \in Criteria /\ e \in Of(q, e.criterion) /\ e # None
      BY DEF EvidenceOwned, Of
    <2>2. PICK y \in X(e.criterion) :
            y.current = e /\ \A z \in X(e.criterion) : z.current = e => z = y
      BY <1>3, <2>1
    <2>3. \A c \in Criteria : \A z \in X(c) : z.current = e => c = e.criterion
      BY <1>4, <2>1
    <2> QED BY <1>1, <2>1, <2>2, <2>3
  <1>7. \A y \in EvidenceChanges(p, q) :
          /\ SoundChange(y, p.evidence, q.evidence)
          /\ y.previous # None => y.previous.criterion = y.criterion
          /\ y.current # None => y.current.criterion = y.criterion
    BY <1>1, <1>4
  <1> QED BY <1>5, <1>6, <1>7

\* What can be compared, and where None stands for nothing.
Comparands(p, q) ==
    /\ Comparable(p, q)
    /\ None \notin p.evidence /\ None \notin q.evidence
    /\ IsFiniteSet(DOMAIN p.events) /\ IsFiniteSet(DOMAIN q.events)

\* The fields of a comparison.
LEMMA ComparisonFields ==
  ASSUME NEW p, NEW q, NEW x, x = CompareReviews(p, q)
  PROVE  /\ x.previous = ContextSnapshot(p) /\ x.current = ContextSnapshot(q)
         /\ x.evidence = EvidenceChanges(p, q) /\ x.imports = JUnitChanges(p, q)
         /\ x.resolutions = ResolutionChanges(p, q)
         /\ x.references = RecordChanges(p, q)
         /\ x.acceptance[1] = AcceptanceSnapshot(p)
         /\ x.acceptance[2] = AcceptanceSnapshot(q)
         /\ x.scope[1] = ScopeSnapshot(p) /\ x.scope[2] = ScopeSnapshot(q)
  BY DEF CompareReviews

\* The fields of the snapshots in a comparison.
LEMMA SnapshotFields ==
  ASSUME NEW b
  PROVE  /\ ContextSnapshot(b).owner = b.owner /\ ContextSnapshot(b).source = b.source
         /\ ContextSnapshot(b).resolutions = b.resolutions
         /\ ScopeSnapshot(b).owner = b.owner /\ AcceptanceSnapshot(b).owner = b.owner
  BY DEF ContextSnapshot, ScopeSnapshot, AcceptanceSnapshot

\* The sides: 1 is the previous analysis, 2 the current one.
Side(p, q, i) == IF i = 1 THEN p ELSE q

\* The validators: every candidate, import and finding of a side is accounted for.
LEMMA ScopeIsCovered ==
  ASSUME NEW p, NEW q, Comparands(p, q), NEW x, x = CompareReviews(p, q), NEW i \in 1..2
  PROVE  ScopeHolds(x, i)
  <1> DEFINE b == Side(p, q, i)
             view == x.scope[i]
             shown == {SideOf(y, i) : y \in x.evidence} \ {None}
  <1>1. i = 1 \/ i = 2 OBVIOUS
  <1>2. EvidenceOwned(p) /\ EvidenceOwned(q) BY DEF Comparands, Comparable, ValidAnalysis
  <1>3. shown = b.evidence
    <2>1. /\ \A y \in x.evidence : SoundChange(y, p.evidence, q.evidence)
          /\ \A e \in p.evidence : \E y \in x.evidence : y.previous = e
          /\ \A e \in q.evidence : \E y \in x.evidence : y.current = e
      BY <1>2, ChangesOfAnalyses, ComparisonFields DEF Comparands
    <2>2. None \notin p.evidence /\ None \notin q.evidence BY DEF Comparands
    <2> QED BY <1>1, <2>1, <2>2 DEF SideOf, Side, SoundChange
  <1>4. view = ScopeSnapshot(b) BY <1>1, ComparisonFields DEF Side
  <1>5. EvidenceOwned(b) /\ FindingsMatch(b)
    BY <1>1 DEF Comparands, Comparable, ValidAnalysis, Side
  <1> HIDE DEF b, shown, view
  <1>6. /\ view.owner = b.owner /\ view.cited = CitedPaths(b)
        /\ \A c \in Criteria : view.links[c] = b.findings[c].cited
    BY <1>4 DEF ScopeSnapshot
  <1>7. ASSUME NEW c \in Criteria, NEW id \in view.links[c]
        PROVE  \E e \in shown : e.id = id /\ e.criterion = c
    BY <1>3, <1>5, <1>6, <1>7 DEF FindingsMatch
  <1>8. view.cited = {e.line.path : e \in {d \in {y \in shown : y.id \in view.links[y.criterion]} :
                /\ d.commit = view.owner.head /\ d.line.scope = "changed"
                /\ d.line.path \in Inventory[view.owner.head]}}
    <2>1. \A e \in shown : view.links[e.criterion] = b.findings[e.criterion].cited
      BY <1>3, <1>5, <1>6 DEF EvidenceOwned
    <2>2. {d \in b.evidence :
              /\ d.line.scope = "changed" /\ d.commit = b.owner.head
              /\ d.id \in b.findings[d.criterion].cited
              /\ d.line.path \in Inventory[b.owner.head]}
          = {d \in {y \in shown : y.id \in view.links[y.criterion]} :
                /\ d.commit = view.owner.head /\ d.line.scope = "changed"
                /\ d.line.path \in Inventory[view.owner.head]}
      BY <1>3, <1>6, <2>1
    <2> QED BY <1>6, <2>2 DEF CitedPaths
  <1> QED BY <1>7, <1>8 DEF ScopeHolds, shown, view

\* The validators: the records of each side belong to that side.
LEMMA RecordsAreOwned ==
  ASSUME NEW p, NEW q, Comparands(p, q), NEW x, x = CompareReviews(p, q)
  PROVE  RecordsHold(x)
  <1> SUFFICES ASSUME NEW i \in 1..2, NEW y \in x.references, SideOf(y, i) # None
               PROVE  LET r == SideOf(y, i)
                      IN  /\ r.owner = x.scope[i].owner
                          /\ r.criterion \in Criteria
                          /\ (r.line.scope = "changed")
                               = (r.line.path \in Inventory[x.scope[i].owner.head])
    BY DEF RecordsHold
  <1> DEFINE b == Side(p, q, i)
             r == SideOf(y, i)
  <1>1. i = 1 \/ i = 2 OBVIOUS
  <1>2. x.scope[i].owner = b.owner BY <1>1, ComparisonFields, SnapshotFields DEF Side
  <1>3. ReferencesOwned(b) BY <1>1 DEF Comparands, Comparable, ValidAnalysis, Side
  <1>4. x.references = RecordChanges(p, q) BY ComparisonFields
  <1>5. r \in ToSet(b.references) BY <1>1, <1>4 DEF RecordChanges, SideOf, Side
  <1> HIDE DEF r, b
  <1>6. /\ r.owner = b.owner /\ r.criterion \in Criteria /\ ScopeAgrees(b, r.line)
    BY <1>3, <1>5 DEF ReferencesOwned
  <1> QED BY <1>2, <1>6 DEF ScopeAgrees, r

\* The corrections of an analysis number what its events hold, so the events
\* shown of its imports cannot exceed them.
LEMMA AuditIsOwned ==
  ASSUME NEW p, NEW q, Comparands(p, q), NEW x, x = CompareReviews(p, q)
  PROVE  AuditHolds(x)
  <1> SUFFICES ASSUME NEW i \in 1..2, NEW shown,
                      shown = UNION {SideOf(y, i).context.events :
                                     y \in {z \in x.imports : SideOf(z, i) # None}}
               PROVE  /\ \A e \in shown : e[2].owner = x.scope[i].owner
                      /\ Cardinality({e \in shown : e[2].action = "mapping_corrected"})
                            <= MaxCorrections
    BY DEF AuditHolds
  <1> DEFINE b == Side(p, q, i)
             corrections == {k \in DOMAIN b.events :
                                b.events[k].action = "mapping_corrected"}
             f == [k \in corrections |-> <<k, b.events[k]>>]
             T == {f[k] : k \in corrections}
             S == {e \in shown : e[2].action = "mapping_corrected"}
  <1>1. i = 1 \/ i = 2 OBVIOUS
  <1>2. x.scope[i].owner = b.owner BY <1>1, ComparisonFields, SnapshotFields DEF Side
  <1>3. JUnitValid(b) /\ IsFiniteSet(DOMAIN b.events)
    BY <1>1 DEF Comparands, Comparable, ValidAnalysis, Side
  <1>4. ASSUME NEW e \in shown
        PROVE  \E k \in DOMAIN b.events : e = <<k, b.events[k]>>
    <2>1. PICK y \in x.imports : SideOf(y, i) # None /\ e \in SideOf(y, i).context.events
      BY <1>4
    <2>2. x.imports = JUnitChanges(p, q) BY ComparisonFields
    <2>3. PICK a : SideOf(y, i) = JUnitReference(b, a)
      BY <1>1, <2>1, <2>2 DEF JUnitChanges, SideOf, Side
    <2>4. SideOf(y, i).context.events = {<<k, b.events[k]>> : k \in EventsOf(b, a)}
      BY <2>3 DEF JUnitReference
    <2> HIDE DEF b
    <2> QED BY <2>1, <2>4 DEF EventsOf
  <1> HIDE DEF b
  <1>5. ASSUME NEW e \in shown PROVE e[2].owner = b.owner
    <2>1. PICK k \in DOMAIN b.events : e = <<k, b.events[k]>> BY <1>4
    <2>2. b.events[k] \in ToSet(b.events) BY DEF ToSet
    <2> QED BY <1>3, <2>1, <2>2 DEF JUnitValid
  <1>6. S \subseteq T BY <1>4
  <1>7. IsFiniteSet(corrections) /\ Cardinality(corrections) <= MaxCorrections
    <2>1. corrections \in SUBSET DOMAIN b.events OBVIOUS
    <2>2. Cardinality(corrections) <= MaxCorrections BY <1>3 DEF JUnitValid
    <2> HIDE DEF corrections
    <2> QED BY <1>3, <2>1, <2>2, FS_Subset
  <1>8. f \in Surjection(corrections, T)
    BY DEF Surjection
  <1> HIDE DEF corrections, f, T, S
  <1>9. IsFiniteSet(T) /\ Cardinality(T) <= Cardinality(corrections)
    BY <1>7, <1>8, FS_Surjection
  <1>10. IsFiniteSet(S) /\ Cardinality(S) <= Cardinality(T)
    BY <1>6, <1>9, FS_Subset
  <1>11. Cardinality(S) \in Nat /\ Cardinality(T) \in Nat /\ Cardinality(corrections) \in Nat
    BY <1>7, <1>9, <1>10, FS_CardinalityType
  <1>12. Cardinality(S) <= MaxCorrections
    BY <1>7, <1>9, <1>10, <1>11, LedgerAssumption
  <1> QED BY <1>2, <1>5, <1>12 DEF S

\* The validators accept what compare_reviews makes of valid analyses.
LEMMA AcceptedComparison ==
  ASSUME NEW p, NEW q, Comparands(p, q), NEW x, x = CompareReviews(p, q)
  PROVE  ComparisonAccepted(x)
  <1>1. EvidenceOwned(p) /\ EvidenceOwned(q) /\ p.source = q.source
    BY DEF Comparands, Comparable, ValidAnalysis
  <1>2. ASSUME NEW y \in x.evidence PROVE WellFormed(y)
    <2>1. /\ SoundChange(y, p.evidence, q.evidence)
          /\ y.previous # None => y.previous.criterion = y.criterion
          /\ y.current # None => y.current.criterion = y.criterion
      BY <1>1, ChangesOfAnalyses, ComparisonFields DEF Comparands
    <2>2. /\ (y.previous = None) = (y.kind = "added")
          /\ (y.current = None) = (y.kind = "removed")
      BY <2>1 DEF SoundChange
    <2> QED BY <2>1, <2>2 DEF WellFormed, SideOf
  <1>3. \A i \in 1..2 : ScopeHolds(x, i) BY ScopeIsCovered
  <1>4. DecisionContextHolds(x)
    <2>1. \A i \in 1..2 :
            /\ (IF i = 1 THEN x.previous ELSE x.current).owner = x.scope[i].owner
            /\ (IF i = 1 THEN x.previous ELSE x.current).owner = x.acceptance[i].owner
      <3>1. \A i \in 1..2 : i = 1 \/ i = 2 OBVIOUS
      <3> QED BY <3>1, ComparisonFields, SnapshotFields
    <2>2. x.previous.source = x.current.source BY <1>1, ComparisonFields, SnapshotFields
    <2>3. /\ x.previous.resolutions = p.resolutions
          /\ x.current.resolutions = q.resolutions
      BY ComparisonFields, SnapshotFields
    <2>4. x.resolutions = ResolutionChanges(x.previous, x.current)
      BY <2>3, ComparisonFields DEF ResolutionChanges, DecisionOf
    <2> QED BY <2>1, <2>2, <2>4 DEF DecisionContextHolds
  <1> QED BY <1>2, <1>3, <1>4, RecordsAreOwned, AuditIsOwned DEF ComparisonAccepted

\* A candidate is in exactly one of the changes.
LEMMA OneChangeEach ==
  ASSUME NEW p, NEW q, Comparands(p, q), NEW x, x = CompareReviews(p, q)
  PROVE  /\ \A e \in p.evidence : Cardinality({y \in x.evidence : y.previous = e}) = 1
         /\ \A e \in q.evidence : Cardinality({y \in x.evidence : y.current = e}) = 1
  <1>1. EvidenceOwned(p) /\ EvidenceOwned(q)
    BY DEF Comparands, Comparable, ValidAnalysis
  <1>2. /\ \A e \in p.evidence : \E y \in x.evidence :
              y.previous = e /\ \A z \in x.evidence : z.previous = e => z = y
        /\ \A e \in q.evidence : \E y \in x.evidence :
              y.current = e /\ \A z \in x.evidence : z.current = e => z = y
    BY <1>1, ChangesOfAnalyses, ComparisonFields DEF Comparands
  <1>3. ASSUME NEW e \in p.evidence PROVE \E y : {z \in x.evidence : z.previous = e} = {y}
    <2>1. PICK y \in x.evidence :
            y.previous = e /\ \A z \in x.evidence : z.previous = e => z = y
      BY <1>2
    <2>2. {z \in x.evidence : z.previous = e} = {y} BY <2>1
    <2> QED BY <2>2
  <1>4. ASSUME NEW e \in q.evidence PROVE \E y : {z \in x.evidence : z.current = e} = {y}
    <2>1. PICK y \in x.evidence :
            y.current = e /\ \A z \in x.evidence : z.current = e => z = y
      BY <1>2
    <2>2. {z \in x.evidence : z.current = e} = {y} BY <2>1
    <2> QED BY <2>2
  <1> QED BY <1>3, <1>4, FS_Singleton

\* What a decision was taken over, when it is not listed.
LEMMA UnlistedIsUnchanged ==
  ASSUME NEW p, NEW q, Comparands(p, q), NEW x, x = CompareReviews(p, q),
         NEW c \in DOMAIN p.resolutions \ x.listed
  PROVE  /\ p.owner.head = q.owner.head /\ p.ruleset = q.ruleset
         /\ p.findings[c].status = q.findings[c].status
         /\ {ExactSignature(e) : e \in Of(p, c)} = {ExactSignature(e) : e \in Of(q, c)}
         /\ \A a \in ChangedArtifacts(p, q) : \A y \in {p, q} :
              HasImport(y, a) => c \notin EverNamed(y, a)
  <1> DEFINE changed == {y.criterion : y \in {z \in EvidenceChanges(p, q) : z.kind # "unchanged"}}
                           \union ChangedFindings(p, q)
                           \union ChangedJUnitCriteria(p, q)
             everything == p.owner.head # q.owner.head \/ p.ruleset # q.ruleset
  <1>1. x.listed = IF everything THEN DOMAIN p.resolutions
                   ELSE DOMAIN p.resolutions \intersect changed
    BY DEF CompareReviews
  <1>2. ~everything /\ c \notin changed BY <1>1
  <1>3. c \in Criteria BY DEF Comparands, Comparable, ValidAnalysis
  <1>4. p.findings[c].status = q.findings[c].status BY <1>2, <1>3 DEF ChangedFindings
  <1>5. {ExactSignature(e) : e \in Of(p, c)} = {ExactSignature(e) : e \in Of(q, c)}
    <2>1. EvidenceOwned(p) /\ EvidenceOwned(q)
      BY DEF Comparands, Comparable, ValidAnalysis
    <2>2. \A y \in EvidenceChanges(p, q) : y.criterion = c => y.kind = "unchanged"
      BY <1>2
    <2>3. \A y \in EvidenceChanges(p, q) :
            /\ SoundChange(y, p.evidence, q.evidence)
            /\ y.previous # None => y.previous.criterion = y.criterion
            /\ y.current # None => y.current.criterion = y.criterion
      BY <2>1, ChangesOfAnalyses DEF Comparands
    <2>4. /\ \A e \in p.evidence : \E y \in EvidenceChanges(p, q) : y.previous = e
          /\ \A e \in q.evidence : \E y \in EvidenceChanges(p, q) : y.current = e
      BY <2>1, ChangesOfAnalyses DEF Comparands
    <2>5. \A e \in Of(p, c) : \E d \in Of(q, c) : ExactSignature(e) = ExactSignature(d)
      <3> SUFFICES ASSUME NEW e \in Of(p, c)
                   PROVE  \E d \in Of(q, c) : ExactSignature(e) = ExactSignature(d)
        OBVIOUS
      <3>1. e \in p.evidence /\ e.criterion = c /\ e # None BY DEF Of, Comparands
      <3>2. PICK y \in EvidenceChanges(p, q) : y.previous = e BY <2>4, <3>1
      <3>3. y.kind = "unchanged" BY <2>2, <2>3, <3>1, <3>2
      <3>4. y.current # None /\ y.current \in q.evidence
            /\ ExactSignature(e) = ExactSignature(y.current)
        BY <2>3, <3>2, <3>3 DEF SoundChange
      <3> QED BY <2>3, <3>1, <3>2, <3>4 DEF Of
    <2>6. \A e \in Of(q, c) : \E d \in Of(p, c) : ExactSignature(e) = ExactSignature(d)
      <3> SUFFICES ASSUME NEW e \in Of(q, c)
                   PROVE  \E d \in Of(p, c) : ExactSignature(e) = ExactSignature(d)
        OBVIOUS
      <3>1. e \in q.evidence /\ e.criterion = c /\ e # None BY DEF Of, Comparands
      <3>2. PICK y \in EvidenceChanges(p, q) : y.current = e BY <2>4, <3>1
      <3>3. y.kind = "unchanged" BY <2>2, <2>3, <3>1, <3>2
      <3>4. y.previous # None /\ y.previous \in p.evidence
            /\ ExactSignature(e) = ExactSignature(y.previous)
        BY <2>3, <3>2, <3>3 DEF SoundChange
      <3> QED BY <2>3, <3>1, <3>2, <3>4 DEF Of
    <2> QED BY <2>5, <2>6
  <1>6. ASSUME NEW a \in ChangedArtifacts(p, q), NEW y \in {p, q}, HasImport(y, a)
        PROVE  c \notin EverNamed(y, a)
    <2>1. c \notin ChangedJUnitCriteria(p, q) BY <1>2
    <2>2. JUnitReference(y, a).named = EverNamed(y, a) BY DEF JUnitReference
    <2> DEFINE z == <<y, a>>
    <2>3. z \in {w \in {p, q} \X ChangedArtifacts(p, q) : HasImport(w[1], w[2])} BY <1>6
    <2>4. JUnitReference(z[1], z[2]).named \subseteq ChangedJUnitCriteria(p, q)
      BY <2>3 DEF ChangedJUnitCriteria
    <2> QED BY <2>1, <2>2, <2>4
  <1> QED BY <1>2, <1>4, <1>5, <1>6

-----------------------------------------------------------------------------
(* What an operation leaves: a valid analysis, in which everything that was *)
(* recorded before still is, in its order.                                  *)

\* The ledgers of b are prefixes of those of d.
Grows(b, d) ==
    /\ d \in Analyses /\ ValidAnalysis(d)
    /\ IsPrefix(b.imports, d.imports) /\ IsPrefix(b.events, d.events)
    /\ IsPrefix(b.references, d.references) /\ IsPrefix(b.refEvents, d.refEvents)

\* The ledgers of an analysis are prefixes of themselves, with or without one entry more.
LEMMA LedgersArePrefixes ==
  ASSUME NEW b \in Analyses
  PROVE  /\ IsPrefix(b.imports, b.imports) /\ IsPrefix(b.events, b.events)
         /\ IsPrefix(b.references, b.references) /\ IsPrefix(b.refEvents, b.refEvents)
         /\ \A e : IsPrefix(b.imports, Append(b.imports, e))
         /\ \A e : IsPrefix(b.events, Append(b.events, e))
         /\ \A e : IsPrefix(b.references, Append(b.references, e))
         /\ \A e : IsPrefix(b.refEvents, Append(b.refEvents, e))
  BY AnalysisFields, PrefixOfItself, PrefixOfAppend

\* The ledgers only grow, under each of the operations.
LEMMA ImportGrows ==
  ASSUME NEW b \in Analyses, ValidAnalysis(b), NEW a \in Artifacts, NEW m \in Mappings,
         CanImport(b, a), NEW d, d = ImportResults(b, a, m)
  PROVE  Grows(b, d) /\ d.events = b.events /\ d.final = b.final
  <1>1. /\ d.imports = Append(b.imports, JUnitImport(b.owner, a, m))
        /\ d.events = b.events /\ d.references = b.references
        /\ d.refEvents = b.refEvents /\ d.final = b.final
    BY DEF ImportResults, Analyses
  <1> QED BY <1>1, ImportKeepsValid, LedgersArePrefixes DEF Grows

LEMMA CorrectionGrows ==
  ASSUME NEW b \in Analyses, ValidAnalysis(b), NEW a, NEW m, CanCorrect(b, a, m),
         NEW d, d = CorrectMappings(b, a, m)
  PROVE  Grows(b, d) /\ d.final = b.final
  <1>1. /\ d.imports = b.imports /\ d.events = Append(b.events, Correction(b, a, m))
        /\ d.references = b.references /\ d.refEvents = b.refEvents
        /\ d.final = b.final
    BY DEF CorrectMappings, Analyses
  <1> QED BY <1>1, CorrectionKeepsValid, LedgersArePrefixes DEF Grows

LEMMA WithdrawalGrows ==
  ASSUME NEW b \in Analyses, ValidAnalysis(b), NEW a \in ActiveImports(b),
         NEW d, d = WithdrawImport(b, a)
  PROVE  Grows(b, d) /\ d.final = b.final
  <1>1. /\ d.imports = b.imports /\ d.events = Append(b.events, Withdrawal(b, a))
        /\ d.references = b.references /\ d.refEvents = b.refEvents
        /\ d.final = b.final
    BY DEF WithdrawImport, Analyses
  <1> QED BY <1>1, WithdrawalKeepsValid, LedgersArePrefixes DEF Grows

\* The three ways to change selected references.
ReferenceStep(b, paths, d) ==
    \/ \E c \in Criteria, line \in EligibleLines(ReviewedHead, paths), note \in Notes :
        CanAddReference(b, c, line, note) /\ d = AddReference(b, c, line, note)
    \/ \E id : \E line \in EligibleLines(ReviewedHead, paths), note \in Notes :
        CanCorrectReference(b, id, line, note) /\ d = CorrectReference(b, id, line, note)
    \/ \E id : CanWithdrawReference(b, id) /\ d = WithdrawReference(b, id)

LEMMA ReferenceStepGrows ==
  ASSUME NEW b \in Analyses, ValidAnalysis(b), NEW paths, NEW d, ReferenceStep(b, paths, d)
  PROVE  Grows(b, d) /\ d.events = b.events /\ d.final = b.final
  <1>1. CASE \E c \in Criteria, line \in EligibleLines(ReviewedHead, paths), note \in Notes :
               CanAddReference(b, c, line, note) /\ d = AddReference(b, c, line, note)
    <2>1. PICK c \in Criteria, line \in EligibleLines(ReviewedHead, paths), note \in Notes :
            CanAddReference(b, c, line, note) /\ d = AddReference(b, c, line, note)
      BY <1>1
    <2>2. /\ d.references = Append(b.references, Reference(b, c, line, note))
          /\ d.imports = b.imports /\ d.events = b.events
          /\ d.refEvents = b.refEvents /\ d.final = b.final
      BY <2>1 DEF AddReference, Analyses
    <2>3. d \in Analyses /\ ValidAnalysis(d) BY <2>1, AddedReferenceKeepsValid
    <2> QED BY <2>2, <2>3, LedgersArePrefixes DEF Grows
  <1>2. CASE \E id : \E line \in EligibleLines(ReviewedHead, paths), note \in Notes :
               /\ CanCorrectReference(b, id, line, note)
               /\ d = CorrectReference(b, id, line, note)
    <2>0. PICK id : \E line \in EligibleLines(ReviewedHead, paths), note \in Notes :
            CanCorrectReference(b, id, line, note) /\ d = CorrectReference(b, id, line, note)
      BY <1>2
    <2>1. PICK line \in EligibleLines(ReviewedHead, paths), note \in Notes :
            CanCorrectReference(b, id, line, note) /\ d = CorrectReference(b, id, line, note)
      BY <2>0
    <2> DEFINE R == Append(b.references,
                           Reference(b, b.references[id].criterion, line, note))
               E == Append(b.refEvents, RefEvent(b, id, Len(b.references) + 1))
    <2>2. d = [b EXCEPT !.references = R, !.refEvents = E]
      BY <2>1 DEF CorrectReference, Analyses
    <2> HIDE DEF R, E
    <2>3. /\ d.references = R /\ d.refEvents = E
          /\ d.imports = b.imports /\ d.events = b.events /\ d.final = b.final
      BY <2>2 DEF Analyses
    <2>4. IsPrefix(b.references, R) /\ IsPrefix(b.refEvents, E)
      BY LedgersArePrefixes DEF R, E
    <2>5. d \in Analyses /\ ValidAnalysis(d) BY <2>1, CorrectedReferenceKeepsValid
    <2> QED BY <2>3, <2>4, <2>5, LedgersArePrefixes DEF Grows
  <1>3. CASE \E id : CanWithdrawReference(b, id) /\ d = WithdrawReference(b, id)
    <2>1. PICK id : CanWithdrawReference(b, id) /\ d = WithdrawReference(b, id) BY <1>3
    <2>2. /\ d.refEvents = Append(b.refEvents, RefEvent(b, id, None))
          /\ d.imports = b.imports /\ d.events = b.events
          /\ d.references = b.references /\ d.final = b.final
      BY <2>1 DEF WithdrawReference, Analyses
    <2>3. d \in Analyses /\ ValidAnalysis(d) BY <2>1, WithdrawnReferenceKeepsValid
    <2> QED BY <2>2, <2>3, LedgersArePrefixes DEF Grows
  <1> QED BY <1>1, <1>2, <1>3 DEF ReferenceStep

LEMMA DecisionGrows ==
  ASSUME NEW b \in Analyses, ValidAnalysis(b), NEW c \in Criteria, NEW x \in Decisions,
         NEW d, d = [b EXCEPT !.resolutions = WithDecision(@, c, x)]
  PROVE  Grows(b, d) /\ d.events = b.events /\ d.final = b.final
  <1>1. d \in Analyses /\ ValidAnalysis(d) BY DecisionKeepsValid
  <1>2. /\ d.imports = b.imports /\ d.events = b.events /\ d.references = b.references
        /\ d.refEvents = b.refEvents /\ d.final = b.final
    BY DEF Analyses
  <1> QED BY <1>1, <1>2, LedgersArePrefixes DEF Grows

LEMMA AcceptanceGrows ==
  ASSUME NEW b \in Analyses, ValidAnalysis(b), b.final \/ DOMAIN b.resolutions = Criteria,
         NEW d, d = [b EXCEPT !.final = ~@]
  PROVE  Grows(b, d) /\ d.events = b.events
  <1>1. d \in Analyses /\ ValidAnalysis(d) BY AcceptanceKeepsValid
  <1>2. /\ d.imports = b.imports /\ d.events = b.events /\ d.references = b.references
        /\ d.refEvents = b.refEvents
    BY DEF Analyses
  <1> QED BY <1>1, <1>2, LedgersArePrefixes DEF Grows

\* Selections that can be imported make a mapping.
LEMMA SelectionsMap ==
  ASSUME NEW selections \in SUBSET [scope: Scopes, criterion: Criteria],
         Buildable(selections)
  PROVE  MappingOf(selections) \in Mappings
  <1> DEFINE S == UNION {p.scope : p \in selections}
             m == MappingOf(selections)
  <1>1. \A p \in selections : p.scope \subseteq Cases /\ p.scope # {} /\ p.criterion \in Criteria
    BY LedgerAssumption DEF Scopes, Buildable
  <1>2. S \in (SUBSET Cases) \ {{}}
    <2>1. PICK p \in selections : p.scope # {} BY DEF Buildable
    <2>2. S # {} BY <2>1
    <2>3. S \subseteq Cases BY <1>1
    <2> HIDE DEF S
    <2> QED BY <2>2, <2>3
  <1>3. \A x \in S : (CHOOSE p \in selections : x \in p.scope).criterion \in Criteria
    <2> SUFFICES ASSUME NEW x \in S
                 PROVE  (CHOOSE p \in selections : x \in p.scope) \in selections
      BY <1>1
    <2>1. \E p \in selections : x \in p.scope OBVIOUS
    <2> QED BY <2>1
  <1>4. m \in [S -> Criteria] BY <1>3 DEF MappingOf
  <1> HIDE DEF S, m
  <1>5. m \in Mappings BY <1>2, <1>4 DEF Mappings
  <1> QED BY <1>5 DEF m

-----------------------------------------------------------------------------
(* The invariant.  A state is sound when its analysis is valid, and while   *)
(* one is pending there is an earlier one for its source to be matched to.  *)

Sound(st) ==
    /\ st.bundle # None => ValidAnalysis(st.bundle)
    /\ st.bundle = None => st.history # <<>>

\* n: the time of the last confirmation.
SessionGood(x, n) ==
    /\ x.open # None => Sound(x.open) /\ x.open.confirmed <= n
    /\ x.staged # None => Buildable(x.staged.selections)

\* k: what the session last saw contradicted.  It is guarded against, it is
\* older than any context to come, and the source held is for none of it.
BrowserGood(x, k, n) ==
    /\ k \subseteq x.guard
    /\ \A context \in k : context[3] <= n
    /\ x.source # None => x.open # None /\ Context(x.open) \notin k

EvidenceInv ==
    /\ TypeOK
    /\ Sound(record) /\ record.confirmed <= clock
    /\ \A s \in Browsers \union Shells : SessionGood(session[s], clock)
    /\ \A s \in Browsers : BrowserGood(session[s], known[s], clock)

\* The fields of a saved review.
LEMMA StateFields ==
  ASSUME NEW st \in States
  PROVE  /\ st.revision \in Nat /\ st.source \in Sources /\ st.confirmed \in Nat
         /\ st.decisions \in Nat /\ st.bundle \in Analyses \union {None}
         /\ st.history \in Seq(Analyses)
         /\ Context(st) \in Contexts /\ Context(st)[3] = st.confirmed
         /\ st # None
  BY EvidenceAssumption DEF States, Context, Contexts

\* The fields of a session.
LEMMA SessionFields ==
  ASSUME NEW x \in Sessions
  PROVE  /\ x.open \in States \union {None} /\ x.conflict \in BOOLEAN
         /\ x.source \in (SUBSET CandidatePaths) \union {None}
         /\ x.receipt \in [context: Contexts, saved: States \union {None}] \union {None}
         /\ x.staged \in [artifact: Artifacts,
                          selections: SUBSET [scope: Scopes, criterion: Criteria]]
                            \union {None}
         /\ x.draft \in [artifact: Artifacts,
                         mapping: UNION {[S -> Criteria] : S \in SUBSET Cases}]
                            \union {None}
         /\ x.guard \subseteq Contexts
  BY DEF Sessions

\* One session moves: what has to be shown of it, and of the record.
LEMMA OneSessionMoves ==
  ASSUME EvidenceInv, NEW s \in Browsers \union Shells, NEW y \in Sessions,
         session' = [session EXCEPT ![s] = y],
         SessionGood(y, clock'),
         clock' \in Nat, clock <= clock',
         known' \in [Browsers -> SUBSET Contexts],
         \A t \in Browsers : t # s => known'[t] = known[t],
         s \in Browsers => BrowserGood(y, known'[s], clock'),
         record' \in States, Sound(record'), record'.confirmed <= clock',
         github' \in {"reviewed", "moved"}
  PROVE  EvidenceInv'
  <1>1. TypeOK' BY DEF EvidenceInv, TypeOK
  <1>2. clock \in Nat /\ session \in [Browsers \union Shells -> Sessions]
        /\ known \in [Browsers -> SUBSET Contexts]
    BY DEF EvidenceInv, TypeOK
  <1>3. ASSUME NEW t \in Browsers \union Shells PROVE SessionGood(session'[t], clock')
    <2>1. CASE t = s BY <1>2, <2>1
    <2>2. CASE t # s
      <3>1. session'[t] = session[t] /\ SessionGood(session[t], clock)
        BY <1>2, <2>2 DEF EvidenceInv
      <3>2. session[t] \in Sessions BY <1>2
      <3>3. session[t].open # None => session[t].open.confirmed \in Nat
        BY <3>2, SessionFields, StateFields
      <3> QED BY <1>2, <3>1, <3>3 DEF SessionGood
    <2> QED BY <2>1, <2>2
  <1>4. ASSUME NEW t \in Browsers PROVE BrowserGood(session'[t], known'[t], clock')
    <2>1. CASE t = s BY <1>2, <2>1
    <2>2. CASE t # s
      <3>1. /\ session'[t] = session[t] /\ known'[t] = known[t]
            /\ BrowserGood(session[t], known[t], clock)
        BY <1>2, <2>2 DEF EvidenceInv
      <3>2. \A context \in known[t] : context[3] \in Nat BY <1>2 DEF Contexts
      <3> QED BY <1>2, <3>1, <3>2 DEF BrowserGood
    <2> QED BY <2>1, <2>2
  <1> QED BY <1>1, <1>3, <1>4 DEF EvidenceInv

\* What the invariant says of one session.
LEMMA SessionOfInv ==
  ASSUME EvidenceInv, NEW s \in Browsers \union Shells
  PROVE  /\ session[s] \in Sessions /\ SessionGood(session[s], clock)
         /\ s \in Browsers => BrowserGood(session[s], known[s], clock)
         /\ session[s].open # None =>
              /\ session[s].open \in States /\ Sound(session[s].open)
              /\ session[s].open.confirmed <= clock
         /\ record \in States /\ Sound(record) /\ record.confirmed <= clock
         /\ clock \in Nat /\ known \in [Browsers -> SUBSET Contexts]
         /\ github \in {"reviewed", "moved"}
  <1>1. session[s] \in Sessions BY DEF EvidenceInv, TypeOK
  <1> QED BY <1>1, SessionFields DEF EvidenceInv, TypeOK, SessionGood

\* Steps that only change what a session holds, and know as much as before.
LEMMA SessionStep ==
  ASSUME EvidenceInv, NEW s \in Browsers \union Shells, NEW y \in Sessions,
         Set(s, y), SessionGood(y, clock),
         s \in Browsers => BrowserGood(y, known[s], clock),
         UNCHANGED <<record, github, clock, known>>
  PROVE  EvidenceInv'
  <1>1. /\ clock \in Nat /\ clock <= clock /\ record \in States /\ Sound(record)
        /\ record.confirmed <= clock /\ known \in [Browsers -> SUBSET Contexts]
        /\ github \in {"reviewed", "moved"}
    BY DEF EvidenceInv, TypeOK
  <1> QED BY <1>1, OneSessionMoves DEF Set

\* Another state is shown, and nothing else of a session changes that counts.
LEMMA ShowingFields ==
  ASSUME NEW x \in Sessions, NEW st \in States \union {None}
  PROVE  /\ Showing(x, st) \in Sessions /\ Showing(x, st).open = st
         /\ Showing(x, st).source = x.source /\ Showing(x, st).guard = x.guard
         /\ Showing(x, st).receipt = x.receipt
         /\ Showing(x, st).conflict = x.conflict
         /\ Showing(x, st).staged = x.staged \/ Showing(x, st).staged = None
  BY DEF Showing, Sessions

\* A session in conflict keeps what it shows.
LEMMA ConflictingFields ==
  ASSUME NEW x \in Sessions
  PROVE  /\ Conflicting(x) \in Sessions /\ Conflicting(x).open = x.open
         /\ Conflicting(x).source = x.source /\ Conflicting(x).guard = x.guard
         /\ Conflicting(x).staged = None
  BY DEF Conflicting, Sessions

-----------------------------------------------------------------------------
(* What a step does to the saved record: nothing; it records something, of  *)
(* the audit ledger only for a session that held the record; a session that *)
(* knows nothing against the context accepts it or takes that back; the     *)
(* criteria are revised; or an analysis is attached from matching source.   *)

\* The same revision with more recorded.
StateGrows(st, new) ==
    /\ new \in States /\ Sound(new)
    /\ new.revision = st.revision /\ new.history = st.history
    /\ Context(new) = Context(st)
    /\ st.bundle # None /\ Grows(st.bundle, new.bundle)

\* Session s is the one that moves.
Moves(s) == \E y : session' = [session EXCEPT ![s] = y]

\* Imports, references and decisions: the ledgers grow, nothing is audited or accepted.
Recorded ==
    /\ StateGrows(record, record')
    /\ record'.bundle.events = record.bundle.events
    /\ record'.bundle.final = record.bundle.final

\* A correction or withdrawal, by a session that held the record.
Audited ==
    /\ StateGrows(record, record')
    /\ record'.bundle.final = record.bundle.final
    /\ \E s \in Browsers \union Shells :
        session[s].open = record /\ session'[s].open = record'

\* An acceptance or its revocation, by a session that knows of no contradiction.
Accepted ==
    /\ StateGrows(record, record')
    /\ record'.bundle.events = record.bundle.events
    /\ \E s \in Browsers : Moves(s) /\ session[s].open = record /\ ~Contradicted(s)

\* A revision of the criteria; the analysis goes into the history.
RevisedTo(new) ==
    /\ new.bundle = None /\ new.revision = record.revision + 1
    /\ new.history = IF record.bundle = None THEN record.history
                     ELSE Append(record.history, record.bundle)

\* The analysis of a revision, by a session with source for all it has to cover.
Attached ==
    /\ record.bundle = None /\ record'.history = record.history
    /\ Context(record') = Context(record)
    /\ \E s \in Browsers : /\ Moves(s) /\ session[s].source # None
                           /\ RequiredPaths(record) \subseteq session[s].source

\* All that a step may do to the record.
RecordStep ==
    record' = record \/ Recorded \/ Audited \/ Accepted \/ RevisedTo(record') \/ Attached

\* A grown analysis makes a grown review.
LEMMA BundleGrows ==
  ASSUME NEW st \in States, Sound(st), st.bundle # None, NEW d, Grows(st.bundle, d)
  PROVE  StateGrows(st, WithBundle(st, d)) /\ WithBundle(st, d).bundle = d
  <1>1. d \in Analyses /\ ValidAnalysis(d) BY DEF Grows
  <1>2. d # None BY <1>1, AnalysisFields
  <1>3. WithBundle(st, d) \in States /\ WithBundle(st, d).bundle = d
        /\ WithBundle(st, d).revision = st.revision
        /\ WithBundle(st, d).history = st.history
        /\ WithBundle(st, d).source = st.source
        /\ WithBundle(st, d).confirmed = st.confirmed
    BY <1>1 DEF WithBundle, States
  <1> QED BY <1>1, <1>2, <1>3 DEF StateGrows, Sound, Context

\* A decision makes a grown review.
LEMMA DecidedGrows ==
  ASSUME NEW st \in States, Sound(st), st.bundle # None,
         NEW c \in Criteria, NEW x \in Decisions
  PROVE  /\ StateGrows(st, Decided(st, c, x))
         /\ Decided(st, c, x).bundle.events = st.bundle.events
         /\ Decided(st, c, x).bundle.final = st.bundle.final
  <1> DEFINE b == st.bundle
             d == [b EXCEPT !.resolutions = WithDecision(@, c, x)]
             new == Decided(st, c, x)
  <1>1. b \in Analyses /\ ValidAnalysis(b) BY StateFields DEF Sound
  <1>2. new = [st EXCEPT !.decisions = st.decisions + 1, !.bundle = d]
    BY DEF Decided, States
  <1> HIDE DEF d, b, new
  <1>3. Grows(b, d) /\ d.events = b.events /\ d.final = b.final
    BY <1>1, DecisionGrows DEF d
  <1>4. d \in Analyses /\ ValidAnalysis(d) /\ d # None BY <1>3, AnalysisFields DEF Grows
  <1>5. st.decisions + 1 \in Nat BY StateFields
  <1>6. /\ new \in States /\ new.bundle = d /\ new.revision = st.revision
        /\ new.history = st.history /\ new.source = st.source
        /\ new.confirmed = st.confirmed
    BY <1>2, <1>4, <1>5 DEF States
  <1> QED BY <1>3, <1>4, <1>6 DEF StateGrows, Sound, Context, new, b

\* So does an acceptance, or its revocation.
LEMMA ToggledGrows ==
  ASSUME NEW st \in States, Sound(st), st.bundle # None,
         st.bundle.final \/ DOMAIN st.bundle.resolutions = Criteria
  PROVE  /\ StateGrows(st, AcceptanceToggled(st))
         /\ AcceptanceToggled(st).bundle.events = st.bundle.events
  <1> DEFINE b == st.bundle
             d == [b EXCEPT !.final = ~@]
             new == AcceptanceToggled(st)
  <1>1. b \in Analyses /\ ValidAnalysis(b) BY StateFields DEF Sound
  <1>2. new = [st EXCEPT !.decisions = st.decisions + 1, !.bundle = d]
    BY DEF AcceptanceToggled, States
  <1> HIDE DEF d, b, new
  <1>3. Grows(b, d) /\ d.events = b.events
    BY <1>1, AcceptanceGrows DEF d, b
  <1>4. d \in Analyses /\ ValidAnalysis(d) /\ d # None BY <1>3, AnalysisFields DEF Grows
  <1>5. st.decisions + 1 \in Nat BY StateFields
  <1>6. /\ new \in States /\ new.bundle = d /\ new.revision = st.revision
        /\ new.history = st.history /\ new.source = st.source
        /\ new.confirmed = st.confirmed
    BY <1>2, <1>4, <1>5 DEF States
  <1> QED BY <1>3, <1>4, <1>6 DEF StateGrows, Sound, Context, new, b

\* A browser saves what it made of the state it shows: refused, or recorded
\* when that is the saved state.
LEMMA CommitStep ==
  ASSUME EvidenceInv, NEW s \in Browsers, session[s].open # None, NEW new,
         StateGrows(session[s].open, new), Commit(s, new),
         UNCHANGED <<github, clock, known>>
  PROVE  /\ EvidenceInv' /\ Moves(s)
         /\ record' = record \/ (session[s].open = record /\ record' = new)
  <1>1. s \in Browsers \union Shells OBVIOUS
  <1> DEFINE y == Showing(session[s], new)
             z == Conflicting(y)
             w == IF SavedAsExpected(s) THEN y ELSE z
  <1>2. /\ session[s] \in Sessions /\ SessionGood(session[s], clock)
        /\ BrowserGood(session[s], known[s], clock)
        /\ session[s].open \in States /\ session[s].open.confirmed <= clock
        /\ record \in States /\ Sound(record) /\ record.confirmed <= clock
        /\ clock \in Nat /\ known \in [Browsers -> SUBSET Contexts]
        /\ github \in {"reviewed", "moved"}
    BY <1>1, SessionOfInv
  <1>3. /\ new \in States /\ Sound(new) /\ Context(new) = Context(session[s].open)
        /\ new.confirmed = session[s].open.confirmed /\ new # None
    BY <1>2, StateFields DEF StateGrows
  <1>4. /\ y \in Sessions /\ y.open = new /\ y.source = session[s].source
        /\ y.guard = session[s].guard
        /\ y.staged = session[s].staged \/ y.staged = None
    BY <1>2, <1>3, ShowingFields
  <1> HIDE DEF y
  <1>5. /\ z \in Sessions /\ z.open = new /\ z.source = session[s].source
        /\ z.guard = session[s].guard /\ z.staged = None
    BY <1>4, ConflictingFields
  <1> HIDE DEF z
  <1>6. /\ w \in Sessions /\ w.open = new /\ w.source = session[s].source
        /\ w.guard = session[s].guard
        /\ w.staged = session[s].staged \/ w.staged = None
    BY <1>4, <1>5
  <1>7. session' = [session EXCEPT ![s] = w]
        /\ record' = IF record = session[s].open THEN new ELSE record
    BY DEF Commit, Set, SavedAsExpected, w, y, z
  <1> HIDE DEF w
  <1>8. SessionGood(w, clock) BY <1>2, <1>3, <1>6 DEF SessionGood
  <1>9. BrowserGood(w, known[s], clock) BY <1>2, <1>3, <1>6 DEF BrowserGood
  <1>10. record' \in States /\ Sound(record') /\ record'.confirmed <= clock
    BY <1>2, <1>3, <1>7
  <1>11. EvidenceInv'
    <2>1. PICK x \in Sessions : x = w BY <1>6
    <2>2. clock' = clock /\ known' = known /\ github' = github OBVIOUS
    <2>3. clock <= clock' /\ \A t \in Browsers : known'[t] = known[t] BY <1>2, <2>2
    <2> QED BY <1>1, <1>2, <1>7, <1>8, <1>9, <1>10, <2>1, <2>2, <2>3, OneSessionMoves
  <1> QED BY <1>7, <1>11 DEF Moves

\* A session audits the saved record it has in front of it.
LEMMA AuditStep ==
  ASSUME EvidenceInv, NEW s \in Browsers \union Shells, session[s].open = record,
         session[s].open # None, record.bundle # None,
         NEW d, Grows(record.bundle, d), d.final = record.bundle.final, Audit(s, d)
  PROVE  EvidenceInv' /\ RecordStep
  <1> DEFINE new == WithBundle(record, d)
             w == [Showing(session[s], new) EXCEPT !.conflict = FALSE]
  <1>2. /\ session[s] \in Sessions /\ SessionGood(session[s], clock)
        /\ s \in Browsers => BrowserGood(session[s], known[s], clock)
        /\ record \in States /\ Sound(record) /\ record.confirmed <= clock
        /\ clock \in Nat /\ known \in [Browsers -> SUBSET Contexts]
        /\ github \in {"reviewed", "moved"}
    BY SessionOfInv
  <1>3. StateGrows(record, new) /\ new.bundle = d BY <1>2, BundleGrows
  <1> HIDE DEF new
  <1>4. /\ new \in States /\ Sound(new) /\ Context(new) = Context(record)
        /\ new.confirmed = record.confirmed /\ new # None
    BY <1>2, <1>3, StateFields DEF StateGrows
  <1> DEFINE y == Showing(session[s], new)
  <1>5. /\ y \in Sessions /\ y.open = new /\ y.source = session[s].source
        /\ y.guard = session[s].guard
        /\ y.staged = session[s].staged \/ y.staged = None
    BY <1>2, <1>4, ShowingFields
  <1>6. w = [y EXCEPT !.conflict = FALSE] OBVIOUS
  <1>7. record' = new /\ session' = [session EXCEPT ![s] = w]
        /\ UNCHANGED <<github, clock, known>>
    BY DEF Audit, Set, new
  <1> HIDE DEF w, y
  <1>8. /\ w \in Sessions /\ w.open = new /\ w.source = session[s].source
        /\ w.guard = session[s].guard
        /\ w.staged = session[s].staged \/ w.staged = None
    BY <1>5, <1>6 DEF Sessions
  <1>9. SessionGood(w, clock) BY <1>2, <1>4, <1>8 DEF SessionGood
  <1>10. s \in Browsers => BrowserGood(w, known[s], clock)
    BY <1>2, <1>4, <1>8 DEF BrowserGood
  <1>11. EvidenceInv'
    <2>1. PICK x \in Sessions : x = w BY <1>8
    <2>2. clock' = clock /\ known' = known /\ github' = github BY <1>7
    <2>3. clock <= clock' /\ \A t \in Browsers : known'[t] = known[t] BY <1>2, <2>2
    <2> QED BY <1>2, <1>4, <1>7, <1>9, <1>10, <2>1, <2>2, <2>3, OneSessionMoves
  <1>12. session'[s].open = record'
    BY <1>7, <1>8 DEF EvidenceInv, TypeOK
  <1> QED BY <1>3, <1>7, <1>11, <1>12 DEF RecordStep, Audited

-----------------------------------------------------------------------------
(* Each action keeps the invariant, and is one of the steps above.         *)

\* One lemma per action: it keeps the invariant, and changes the record only as
\* RecordStep allows.
LEMMA ImportStep ==
  ASSUME EvidenceInv, NEW s \in Browsers, Import(s)
  PROVE  EvidenceInv' /\ RecordStep
  <1> DEFINE st == session[s].open
             b == st.bundle
             a == session[s].staged.artifact
             m == MappingOf(session[s].staged.selections)
             d == ImportResults(b, a, m)
  <1>1. /\ session[s].staged # None /\ st # None /\ b # None /\ CanImport(b, a)
        /\ Commit(s, WithBundle(st, d)) /\ UNCHANGED <<github, clock, known>>
    BY DEF Import, Importable, Analysed
  <1>2. /\ session[s] \in Sessions /\ SessionGood(session[s], clock)
        /\ st \in States /\ Sound(st)
    BY <1>1, SessionOfInv
  <1>3. a \in Artifacts /\ m \in Mappings
    <2>1. /\ a \in Artifacts
          /\ session[s].staged.selections \in SUBSET [scope: Scopes, criterion: Criteria]
          /\ Buildable(session[s].staged.selections)
      BY <1>1, <1>2, SessionFields DEF SessionGood
    <2> QED BY <2>1, SelectionsMap
  <1>4. b \in Analyses /\ ValidAnalysis(b) BY <1>1, <1>2, StateFields DEF Sound
  <1> HIDE DEF m, a
  <1>5. Grows(b, d) /\ d.events = b.events /\ d.final = b.final
    BY <1>1, <1>3, <1>4, ImportGrows
  <1> HIDE DEF d
  <1>6. StateGrows(st, WithBundle(st, d)) /\ WithBundle(st, d).bundle = d
    BY <1>1, <1>2, <1>5, BundleGrows
  <1>7. /\ EvidenceInv'
        /\ record' = record \/ (st = record /\ record' = WithBundle(st, d))
    BY <1>1, <1>6, CommitStep
  <1> QED BY <1>5, <1>6, <1>7 DEF RecordStep, Recorded

LEMMA CliImportStep ==
  ASSUME EvidenceInv, NEW a \in Artifacts,
         NEW selections \in SUBSET [scope: Scopes, criterion: Criteria],
         CliImport(a, selections)
  PROVE  EvidenceInv' /\ RecordStep
  <1> DEFINE m == MappingOf(selections)
             d == ImportResults(record.bundle, a, m)
  <1>1. /\ record.bundle # None /\ CanImport(record.bundle, a) /\ Buildable(selections)
        /\ record' = WithBundle(record, d) /\ UNCHANGED <<github, session, clock, known>>
    BY DEF CliImport
  <1>2. m \in Mappings BY <1>1, SelectionsMap
  <1>3. record \in States /\ Sound(record) BY DEF EvidenceInv, TypeOK
  <1>4. record.bundle \in Analyses /\ ValidAnalysis(record.bundle)
    BY <1>1, <1>3, StateFields DEF Sound
  <1> HIDE DEF m
  <1>5. /\ Grows(record.bundle, d) /\ d.events = record.bundle.events
        /\ d.final = record.bundle.final
    BY <1>1, <1>2, <1>4, ImportGrows
  <1> HIDE DEF d
  <1>6. StateGrows(record, record') /\ record'.bundle = d
    BY <1>1, <1>3, <1>5, BundleGrows
  <1>7. record' \in States /\ Sound(record') /\ record'.confirmed = record.confirmed
    BY <1>3, <1>6, StateFields DEF StateGrows
  <1>8. EvidenceInv' BY <1>1, <1>7 DEF EvidenceInv, TypeOK
  <1> QED BY <1>5, <1>6, <1>8 DEF RecordStep, Recorded

LEMMA SaveCorrectionStep ==
  ASSUME EvidenceInv, NEW s \in Browsers, SaveCorrection(s)
  PROVE  EvidenceInv' /\ RecordStep
  <1> DEFINE a == session[s].draft.artifact
             m == session[s].draft.mapping
             b == record.bundle
             d == CorrectMappings(b, a, m)
  <1>1. /\ session[s].open = record /\ b # None /\ CanCorrect(b, a, m) /\ Audit(s, d)
    BY DEF SaveCorrection, StillAsRead
  <1>2. record \in States /\ Sound(record) BY DEF EvidenceInv, TypeOK
  <1>3. b \in Analyses /\ ValidAnalysis(b) /\ record # None
    BY <1>1, <1>2, StateFields DEF Sound
  <1> HIDE DEF a, m
  <1>4. Grows(b, d) /\ d.final = b.final BY <1>1, <1>3, CorrectionGrows
  <1> HIDE DEF d
  <1> QED BY <1>1, <1>3, <1>4, AuditStep

LEMMA CliCorrectStep ==
  ASSUME EvidenceInv, NEW s \in Shells, NEW a, NEW m, CliCorrect(s, a, m)
  PROVE  EvidenceInv' /\ RecordStep
  <1> DEFINE b == record.bundle
             d == CorrectMappings(b, a, m)
  <1>1. /\ session[s].open = record /\ b # None /\ CanCorrect(b, a, m) /\ Audit(s, d)
    BY DEF CliCorrect, StillAsRead
  <1>2. record \in States /\ Sound(record) BY DEF EvidenceInv, TypeOK
  <1>3. b \in Analyses /\ ValidAnalysis(b) /\ record # None
    BY <1>1, <1>2, StateFields DEF Sound
  <1>4. Grows(b, d) /\ d.final = b.final BY <1>1, <1>3, CorrectionGrows
  <1> HIDE DEF d
  <1> QED BY <1>1, <1>3, <1>4, AuditStep

LEMMA WithdrawStep ==
  ASSUME EvidenceInv, NEW s \in Browsers \union Shells, NEW a,
         \/ s \in Browsers /\ Withdraw(s, a)
         \/ s \in Shells /\ CliWithdraw(s, a)
  PROVE  EvidenceInv' /\ RecordStep
  <1> DEFINE b == record.bundle
             d == WithdrawImport(b, a)
  <1>1. /\ session[s].open = record /\ b # None /\ a \in ActiveImports(b) /\ Audit(s, d)
    BY DEF Withdraw, CliWithdraw, StillAsRead
  <1>2. record \in States /\ Sound(record) BY DEF EvidenceInv, TypeOK
  <1>3. b \in Analyses /\ ValidAnalysis(b) /\ record # None
    BY <1>1, <1>2, StateFields DEF Sound
  <1>4. Grows(b, d) /\ d.final = b.final BY <1>1, <1>3, WithdrawalGrows
  <1> HIDE DEF d
  <1> QED BY <1>1, <1>3, <1>4, AuditStep

LEMMA SelectStep ==
  ASSUME EvidenceInv, NEW s \in Browsers, Select(s)
  PROVE  EvidenceInv' /\ RecordStep
  <1> DEFINE st == session[s].open
             b == st.bundle
             paths == session[s].source
  <1>1. /\ st # None /\ b # None /\ UNCHANGED <<github, clock, known>>
    BY DEF Select, Analysed
  <1>2. PICK d : Commit(s, WithBundle(st, d)) /\ ReferenceStep(b, paths, d)
    <2>1. Selectable(s) \subseteq EligibleLines(ReviewedHead, paths) BY DEF Selectable
    <2>2. \/ \E c \in Criteria, line \in Selectable(s), note \in Notes :
               /\ CanAddReference(b, c, line, note)
               /\ Commit(s, WithBundle(st, AddReference(b, c, line, note)))
          \/ \E r \in ActiveRefs(b), line \in Selectable(s), note \in Notes :
               /\ CanCorrectReference(b, r.id, line, note)
               /\ Commit(s, WithBundle(st, CorrectReference(b, r.id, line, note)))
          \/ \E r \in ActiveRefs(b) :
               /\ CanWithdrawReference(b, r.id)
               /\ Commit(s, WithBundle(st, WithdrawReference(b, r.id)))
      BY DEF Select
    <2> HIDE DEF st, b, paths
    <2>3. \A c \in Criteria, line \in Selectable(s), note \in Notes :
            CanAddReference(b, c, line, note) =>
              ReferenceStep(b, paths, AddReference(b, c, line, note))
      BY <2>1 DEF ReferenceStep
    <2>4. \A id : \A line \in Selectable(s), note \in Notes :
            CanCorrectReference(b, id, line, note) =>
              ReferenceStep(b, paths, CorrectReference(b, id, line, note))
      BY <2>1 DEF ReferenceStep
    <2>5. \A id : CanWithdrawReference(b, id) =>
            ReferenceStep(b, paths, WithdrawReference(b, id))
      BY DEF ReferenceStep
    <2> DEFINE Goal == \E d : Commit(s, WithBundle(st, d)) /\ ReferenceStep(b, paths, d)
    <2> HIDE DEF Goal
    <2>6. ASSUME NEW c \in Criteria, NEW line \in Selectable(s), NEW note \in Notes,
                 CanAddReference(b, c, line, note),
                 Commit(s, WithBundle(st, AddReference(b, c, line, note)))
          PROVE  Goal
      <3>1. ReferenceStep(b, paths, AddReference(b, c, line, note)) BY <2>3, <2>6
      <3> QED BY <2>6, <3>1, Zenon DEF Goal
    <2>7. ASSUME NEW r \in ActiveRefs(b), NEW line \in Selectable(s), NEW note \in Notes,
                 CanCorrectReference(b, r.id, line, note),
                 Commit(s, WithBundle(st, CorrectReference(b, r.id, line, note)))
          PROVE  Goal
      <3>1. ReferenceStep(b, paths, CorrectReference(b, r.id, line, note)) BY <2>4, <2>7
      <3> QED BY <2>7, <3>1, Zenon DEF Goal
    <2>8. ASSUME NEW r \in ActiveRefs(b), CanWithdrawReference(b, r.id),
                 Commit(s, WithBundle(st, WithdrawReference(b, r.id)))
          PROVE  Goal
      <3>1. ReferenceStep(b, paths, WithdrawReference(b, r.id)) BY <2>5, <2>8
      <3> QED BY <2>8, <3>1, Zenon DEF Goal
    <2>9. Goal BY <2>2, <2>6, <2>7, <2>8, Zenon
    <2> QED BY <2>9 DEF Goal
  <1>3. st \in States /\ Sound(st) BY <1>1, SessionOfInv
  <1>4. b \in Analyses /\ ValidAnalysis(b) BY <1>1, <1>3, StateFields DEF Sound
  <1>5. Grows(b, d) /\ d.events = b.events /\ d.final = b.final
    BY <1>2, <1>4, ReferenceStepGrows
  <1>6. StateGrows(st, WithBundle(st, d)) /\ WithBundle(st, d).bundle = d
    BY <1>1, <1>3, <1>5, BundleGrows
  <1>7. /\ EvidenceInv'
        /\ record' = record \/ (st = record /\ record' = WithBundle(st, d))
    BY <1>1, <1>2, <1>6, CommitStep
  <1> QED BY <1>5, <1>6, <1>7 DEF RecordStep, Recorded

LEMMA DecideStep ==
  ASSUME EvidenceInv, NEW s \in Browsers, NEW c \in Criteria, NEW x \in Decisions,
         Decide(s, c, x)
  PROVE  EvidenceInv' /\ RecordStep
  <1> DEFINE st == session[s].open
             new == Decided(st, c, x)
  <1>1. /\ st # None /\ st.bundle # None /\ Commit(s, new)
        /\ UNCHANGED <<github, clock, known>>
    BY DEF Decide, Analysed
  <1>2. st \in States /\ Sound(st) BY <1>1, SessionOfInv
  <1>3. /\ StateGrows(st, new) /\ new.bundle.events = st.bundle.events
        /\ new.bundle.final = st.bundle.final
    BY <1>1, <1>2, DecidedGrows
  <1> HIDE DEF new
  <1>4. EvidenceInv' /\ (record' = record \/ (st = record /\ record' = new))
    BY <1>1, <1>3, CommitStep
  <1> QED BY <1>3, <1>4 DEF RecordStep, Recorded

LEMMA AcceptStep ==
  ASSUME EvidenceInv, NEW s \in Browsers, Accept(s)
  PROVE  EvidenceInv' /\ RecordStep
  <1> DEFINE st == session[s].open
             new == AcceptanceToggled(st)
  <1>1. /\ st # None /\ st.bundle # None /\ Commit(s, new) /\ ~Contradicted(s)
        /\ st.bundle.final \/ DOMAIN st.bundle.resolutions = Criteria
        /\ UNCHANGED <<github, clock, known>>
    BY DEF Accept, Analysed
  <1>2. st \in States /\ Sound(st) BY <1>1, SessionOfInv
  <1>3. StateGrows(st, new) /\ new.bundle.events = st.bundle.events
    BY <1>1, <1>2, ToggledGrows
  <1> HIDE DEF new
  <1>4. /\ EvidenceInv' /\ Moves(s)
        /\ record' = record \/ (st = record /\ record' = new)
    BY <1>1, <1>3, CommitStep
  <1> QED BY <1>1, <1>3, <1>4 DEF RecordStep, Accepted

\* The files an analysis refers to are candidates of the reviewed head.
LEMMA RequiredAreCandidates ==
  ASSUME NEW st \in States, Sound(st)
  PROVE  RequiredPaths(st) \subseteq CandidatePaths
  <1> DEFINE b == Anchor(st)
  <1>1. b \in Analyses
    <2>1. CASE st.bundle # None BY <2>1, StateFields DEF Anchor
    <2>2. CASE st.bundle = None
      <3>1. st.history \in Seq(Analyses) /\ st.history # <<>>
        BY <2>2, StateFields DEF Sound
      <3>2. Len(st.history) \in DOMAIN st.history BY <3>1
      <3>3. st.history[Len(st.history)] \in Analyses BY <3>1, <3>2
      <3> QED BY <2>2, <3>3 DEF Anchor, Last
    <2> QED BY <2>1, <2>2
  <1> HIDE DEF b
  <1>2. ASSUME NEW line \in {e.line : e \in b.evidence} \union {r.line : r \in ActiveRefs(b)},
               line.scope = "unchanged"
        PROVE  line.path \in CandidatePaths
    <2>1. line \in {Line(ReviewedHead, x) : x \in Content[ReviewedHead]}
      <3>1. CASE \E e \in b.evidence : line = e.line
        BY <1>1, <3>1, AnalysisFields, EvidenceAssumption
      <3>2. CASE \E r \in ActiveRefs(b) : line = r.line
        <4>1. PICK r \in ActiveRefs(b) : line = r.line BY <3>2
        <4>2. b.references \in Seq(References) BY <1>1, AnalysisFields
        <4>3. r \in References BY <4>1, <4>2 DEF ActiveRefs, ToSet
        <4> QED BY <4>1, <4>3 DEF References
      <3> QED BY <1>2, <3>1, <3>2
    <2>2. PICK x \in Content[ReviewedHead] : line = Line(ReviewedHead, x) BY <2>1
    <2>3. line.path = x.path /\ x.path \notin Inventory[ReviewedHead]
      BY <1>2, <2>2 DEF Line
    <2> QED BY <2>3 DEF CandidatePaths
  <1>3. \A path \in RequiredPaths(st) :
          \E line \in {e.line : e \in b.evidence} \union {r.line : r \in ActiveRefs(b)} :
            line.scope = "unchanged" /\ path = line.path
    BY DEF RequiredPaths, b
  <1> QED BY <1>2, <1>3

LEMMA ReviseStep ==
  ASSUME EvidenceInv, NEW s \in Browsers, NEW src \in Sources, ReviseConfirm(s, src)
  PROVE  EvidenceInv' /\ RecordStep
  <1> DEFINE x == session[s]
             st == x.open
             new == Revised(st, src)
             y == Showing(x, new)
             w == [y EXCEPT !.conflict = ~SavedAsExpected(s), !.receipt = None]
  <1>1. /\ st # None /\ clock' = clock + 1 /\ known' = known /\ github' = github
        /\ record' = IF record = st THEN new ELSE record
        /\ session' = [session EXCEPT ![s] = w]
    BY DEF ReviseConfirm, Ready, Set, SavedAsExpected
  <1>2. /\ x \in Sessions /\ SessionGood(x, clock) /\ BrowserGood(x, known[s], clock)
        /\ st \in States /\ Sound(st)
        /\ record \in States /\ Sound(record) /\ record.confirmed <= clock
        /\ clock \in Nat /\ known \in [Browsers -> SUBSET Contexts]
        /\ github \in {"reviewed", "moved"}
    BY <1>1, SessionOfInv
  <1>3. /\ st.revision \in Nat /\ st.decisions \in Nat
        /\ st.bundle \in Analyses \union {None} /\ st.history \in Seq(Analyses)
    BY <1>2, StateFields
  <1> DEFINE h == IF st.bundle = None THEN st.history ELSE Append(st.history, st.bundle)
  <1>4. h \in Seq(Analyses) /\ h # <<>>
    <2>1. CASE st.bundle = None BY <1>2, <1>3, <2>1 DEF Sound
    <2>2. CASE st.bundle # None
      <3>1. st.bundle \in Analyses BY <1>3, <2>2
      <3>2. Len(Append(st.history, st.bundle)) = Len(st.history) + 1
            /\ Len(st.history) \in Nat /\ Append(st.history, st.bundle) \in Seq(Analyses)
        BY <1>3, <3>1
      <3>3. Append(st.history, st.bundle) # <<>> BY <3>2
      <3> QED BY <2>2, <3>2, <3>3
    <2> QED BY <2>1, <2>2
  <1>5. /\ new.bundle = None /\ new.revision = st.revision + 1 /\ new.history = h
        /\ new.confirmed = clock + 1 /\ new.source = src /\ new.decisions = st.decisions
    BY DEF Revised, State
  <1>6. new \in States /\ new # None
    <2>1. new = [revision |-> st.revision + 1, source |-> src, confirmed |-> clock + 1,
                 decisions |-> st.decisions, bundle |-> None, history |-> h]
      BY DEF Revised, State
    <2> HIDE DEF h, new, st
    <2>2. new \in States BY <1>2, <1>3, <1>4, <2>1 DEF States
    <2> QED BY <2>2, EvidenceAssumption
  <1> HIDE DEF new, h
  <1>7. Sound(new) BY <1>4, <1>5 DEF Sound
  <1>8. /\ y \in Sessions /\ y.open = new /\ y.source = x.source
        /\ y.guard = x.guard /\ (y.staged = x.staged \/ y.staged = None)
    BY <1>2, <1>6, ShowingFields
  <1>9. /\ w \in Sessions /\ w.open = new /\ w.source = x.source
        /\ w.guard = x.guard /\ (w.staged = x.staged \/ w.staged = None)
    <2> DEFINE f == ~SavedAsExpected(s)
    <2>1. f \in BOOLEAN OBVIOUS
    <2> HIDE DEF f, y, x
    <2> QED BY <1>8, <2>1 DEF Sessions
  <1> HIDE DEF y, w
  <1>10. SessionGood(w, clock + 1) BY <1>2, <1>5, <1>7, <1>9 DEF SessionGood
  <1>11. BrowserGood(w, known[s], clock + 1)
    <2>1. Context(new)[3] = clock + 1 BY <1>5 DEF Context
    <2>2. \A context \in known[s] : context[3] \in Nat /\ context[3] <= clock
      BY <1>2 DEF BrowserGood, Contexts
    <2>3. Context(new) \notin known[s] BY <1>2, <2>1, <2>2
    <2>4. known[s] \subseteq w.guard BY <1>2, <1>9 DEF BrowserGood
    <2> QED BY <1>2, <1>6, <1>9, <2>2, <2>3, <2>4 DEF BrowserGood
  <1>12. record' \in States /\ Sound(record') /\ record'.confirmed <= clock'
    <2>1. record.confirmed \in Nat BY <1>2, StateFields
    <2> QED BY <1>1, <1>2, <1>5, <1>6, <1>7, <2>1
  <1>13. EvidenceInv'
    <2>1. PICK z \in Sessions : z = w BY <1>9
    <2>2. s \in Browsers \union Shells /\ clock' \in Nat /\ clock <= clock' BY <1>1, <1>2
    <2>3. \A t \in Browsers : known'[t] = known[t] BY <1>1
    <2>4. SessionGood(z, clock') /\ BrowserGood(z, known'[s], clock')
      BY <1>1, <1>10, <1>11, <2>1
    <2> QED BY <1>1, <1>2, <1>12, <2>1, <2>2, <2>3, <2>4, OneSessionMoves
  <1>14. RecordStep
    <2>1. CASE record' = record BY <2>1 DEF RecordStep
    <2>2. CASE record = st /\ record' = new
      BY <1>5, <2>2 DEF RecordStep, RevisedTo, h
    <2> QED BY <1>1, <2>1, <2>2
  <1> QED BY <1>13, <1>14

LEMMA AnalyseStep ==
  ASSUME EvidenceInv, NEW s \in Browsers, Analyse(s)
  PROVE  EvidenceInv' /\ RecordStep
  <1> DEFINE x == session[s]
             st == x.open
             held == x.source \intersect RequiredPaths(st)
             d == FreshAnalysis(st.revision, st.source, held)
             new == WithBundle(record, d)
             y == Showing(x, new)
             w == [y EXCEPT !.source = held, !.receipt = None, !.conflict = FALSE]
  <1>1. /\ st # None /\ st.bundle = None /\ x.source # None
        /\ RequiredPaths(st) \subseteq held
        /\ record = st /\ record' = new /\ session' = [session EXCEPT ![s] = w]
        /\ clock' = clock /\ known' = known /\ github' = github
    BY DEF Analyse, AttachmentHolds, Set
  <1>2. /\ x \in Sessions /\ SessionGood(x, clock) /\ BrowserGood(x, known[s], clock)
        /\ st \in States /\ Sound(st) /\ record.confirmed <= clock
        /\ clock \in Nat /\ known \in [Browsers -> SUBSET Contexts]
        /\ github \in {"reviewed", "moved"}
    BY <1>1, SessionOfInv
  <1>3. d \in Analyses /\ ValidAnalysis(d)
    BY <1>2, StateFields, FreshIsValid
  <1>4. held \subseteq CandidatePaths BY <1>2, RequiredAreCandidates
  <1>5. RequiredPaths(st) \subseteq x.source BY <1>1
  <1> HIDE DEF d, held
  <1>6. /\ new \in States /\ new.bundle = d /\ new.history = record.history
        /\ new.confirmed = record.confirmed /\ Context(new) = Context(record)
    BY <1>1, <1>2, <1>3 DEF WithBundle, States, Context
  <1> HIDE DEF new
  <1>7. Sound(new) /\ new # None
    BY <1>3, <1>6, AnalysisFields, StateFields DEF Sound
  <1>8. /\ y \in Sessions /\ y.open = new /\ y.guard = x.guard
        /\ (y.staged = x.staged \/ y.staged = None)
    BY <1>2, <1>6, ShowingFields
  <1> HIDE DEF y
  <1>9. /\ w \in Sessions /\ w.open = new /\ w.guard = x.guard
        /\ (w.staged = x.staged \/ w.staged = None)
    BY <1>4, <1>8 DEF Sessions
  <1> HIDE DEF w
  <1>10. SessionGood(w, clock) BY <1>2, <1>6, <1>7, <1>9 DEF SessionGood
  <1>11. BrowserGood(w, known[s], clock)
    <2>1. Context(new) \notin known[s] BY <1>1, <1>2, <1>6 DEF BrowserGood
    <2> QED BY <1>2, <1>7, <1>9, <2>1 DEF BrowserGood
  <1>12. EvidenceInv'
    <2>1. PICK z \in Sessions : z = w BY <1>9
    <2>2. s \in Browsers \union Shells /\ clock' \in Nat /\ clock <= clock' BY <1>1, <1>2
    <2>3. \A t \in Browsers : known'[t] = known[t] BY <1>1
    <2>4. SessionGood(z, clock') /\ BrowserGood(z, known'[s], clock')
      BY <1>1, <1>10, <1>11, <2>1
    <2>5. record' \in States /\ Sound(record') /\ record'.confirmed <= clock'
      BY <1>1, <1>2, <1>6, <1>7
    <2> QED BY <1>1, <1>2, <2>1, <2>2, <2>3, <2>4, <2>5, OneSessionMoves
  <1>13. Attached BY <1>1, <1>5, <1>6 DEF Attached, Moves
  <1> QED BY <1>12, <1>13 DEF RecordStep

\* A session that loads the record anew is in a state the invariant allows.
LEMMA HydratedGood ==
  ASSUME EvidenceInv, NEW s \in Browsers
  PROVE  /\ Hydrated(session[s]) \in Sessions
         /\ SessionGood(Hydrated(session[s]), clock)
         /\ BrowserGood(Hydrated(session[s]), known[s], clock)
  <1> DEFINE x == session[s]
             y == Showing(x, record)
             w == [y EXCEPT !.conflict = FALSE, !.source = None, !.receipt = None]
  <1>1. /\ x \in Sessions /\ SessionGood(x, clock) /\ BrowserGood(x, known[s], clock)
        /\ record \in States /\ Sound(record) /\ record.confirmed <= clock
    BY SessionOfInv
  <1>2. /\ y \in Sessions /\ y.open = record /\ y.guard = x.guard
        /\ (y.staged = x.staged \/ y.staged = None)
    BY <1>1, ShowingFields
  <1> HIDE DEF x, y
  <1>3. /\ w \in Sessions /\ w.open = record /\ w.source = None /\ w.guard = x.guard
        /\ (w.staged = x.staged \/ w.staged = None)
    BY <1>2 DEF Sessions
  <1>4. Hydrated(x) = w BY DEF Hydrated, y
  <1> HIDE DEF w
  <1>5. SessionGood(w, clock) BY <1>1, <1>3 DEF SessionGood
  <1>6. BrowserGood(w, known[s], clock) BY <1>1, <1>3 DEF BrowserGood
  <1> QED BY <1>3, <1>4, <1>5, <1>6 DEF x

LEMMA LookingStep ==
  ASSUME EvidenceInv, NEW s \in Browsers, Reopen(s) \/ Refresh(s)
  PROVE  EvidenceInv' /\ RecordStep
  <1> DEFINE x == session[s]
             z == Conflicting(x)
  <1>1. /\ x \in Sessions /\ SessionGood(x, clock) /\ BrowserGood(x, known[s], clock)
    BY SessionOfInv
  <1>2. /\ Hydrated(x) \in Sessions /\ SessionGood(Hydrated(x), clock)
        /\ BrowserGood(Hydrated(x), known[s], clock)
    BY HydratedGood
  <1>3. /\ z \in Sessions /\ z.open = x.open /\ z.source = x.source
        /\ z.guard = x.guard /\ z.staged = None
    BY <1>1, ConflictingFields
  <1>4. Set(s, z) \/ Set(s, Hydrated(x)) BY DEF Reopen, Refresh
  <1>5. UNCHANGED <<record, github, clock, known>> BY DEF Reopen, Refresh
  <1> HIDE DEF x, z
  <1>6. SessionGood(z, clock) BY <1>1, <1>3 DEF SessionGood
  <1>7. BrowserGood(z, known[s], clock) BY <1>1, <1>3 DEF BrowserGood
  <1>8. CASE Set(s, z)
    <2>1. PICK y \in Sessions : y = z BY <1>3
    <2> QED BY <1>5, <1>6, <1>7, <1>8, <2>1, SessionStep DEF RecordStep
  <1>9. CASE Set(s, Hydrated(x))
    <2>1. PICK y \in Sessions : y = Hydrated(x) BY <1>2
    <2> QED BY <1>2, <1>5, <1>9, <2>1, SessionStep DEF RecordStep
  <1> QED BY <1>4, <1>8, <1>9

LEMMA ReadStep ==
  ASSUME EvidenceInv, NEW s \in Shells, Read(s)
  PROVE  EvidenceInv' /\ RecordStep
  <1> DEFINE x == session[s]
             z == [x EXCEPT !.open = record]
  <1>1. /\ x \in Sessions /\ SessionGood(x, clock)
        /\ record \in States /\ Sound(record) /\ record.confirmed <= clock
    BY SessionOfInv
  <1>2. s \notin Browsers BY EvidenceAssumption
  <1>3. Set(s, z) /\ UNCHANGED <<record, github, clock, known>> BY DEF Read
  <1> HIDE DEF x
  <1>4. z \in Sessions /\ z.open = record /\ z.staged = x.staged BY <1>1 DEF Sessions
  <1> HIDE DEF z
  <1>5. SessionGood(z, clock) BY <1>1, <1>4 DEF SessionGood
  <1>6. PICK y \in Sessions : y = z BY <1>4
  <1>7. EvidenceInv' BY <1>2, <1>3, <1>5, <1>6, SessionStep
  <1> QED BY <1>3, <1>7 DEF RecordStep

\* What is staged, or dropped, is nothing that was shown or is known.
LEMMA InputStep ==
  ASSUME EvidenceInv, NEW s \in Browsers, NEW y \in Sessions, Set(s, y),
         UNCHANGED <<record, github, clock, known>>,
         y.open = session[s].open, y.source = session[s].source,
         y.guard = session[s].guard,
         y.staged # None => Buildable(y.staged.selections)
  PROVE  EvidenceInv' /\ RecordStep
  <1>1. /\ SessionGood(session[s], clock) /\ BrowserGood(session[s], known[s], clock)
    BY SessionOfInv
  <1>2. SessionGood(y, clock) BY <1>1 DEF SessionGood
  <1>3. BrowserGood(y, known[s], clock) BY <1>1 DEF BrowserGood
  <1>4. EvidenceInv' BY <1>2, <1>3, SessionStep
  <1> QED BY <1>4 DEF RecordStep

LEMMA StageImportStep ==
  ASSUME EvidenceInv, NEW s \in Browsers, StageImport(s)
  PROVE  EvidenceInv' /\ RecordStep
  <1> DEFINE x == session[s]
             Selections == SUBSET [scope: Scopes, criterion: Criteria]
  <1>1. x \in Sessions /\ SessionGood(x, clock) BY SessionOfInv
  <1>2. UNCHANGED <<record, github, clock, known>> BY DEF StageImport
  <1>3. x.staged # None =>
          x.staged.artifact \in Artifacts /\ x.staged.selections \in Selections
          /\ x.staged = [artifact |-> x.staged.artifact, selections |-> x.staged.selections]
          /\ Buildable(x.staged.selections)
    BY <1>1, SessionFields DEF SessionGood
  <1>4. CASE \E a \in Artifacts, c \in Criteria, scopes \in SUBSET Scopes :
               LET selections == IF x.staged = None THEN {} ELSE x.staged.selections
               IN  /\ CanExtend(x.open.bundle, a, selections, c, scopes)
                   /\ Set(s, [x EXCEPT !.staged =
                        [artifact |-> a,
                         selections |-> ExtendDraft(selections, c, scopes)]])
    <2> DEFINE old == IF x.staged = None THEN {} ELSE x.staged.selections
    <2>1. PICK a \in Artifacts, c \in Criteria, scopes \in SUBSET Scopes :
            /\ CanExtend(x.open.bundle, a, old, c, scopes)
            /\ Set(s, [x EXCEPT !.staged =
                    [artifact |-> a, selections |-> ExtendDraft(old, c, scopes)]])
      BY <1>4
    <2> DEFINE new == ExtendDraft(old, c, scopes)
               z == [x EXCEPT !.staged = [artifact |-> a, selections |-> new]]
    <2>2. old \in Selections BY <1>3
    <2>3. Buildable(new) BY <2>1 DEF CanExtend
    <2>4. new \in Selections BY <2>2 DEF ExtendDraft
    <2>5. Set(s, z) BY <2>1
    <2> HIDE DEF new, x
    <2>6. /\ z \in Sessions /\ z.open = x.open /\ z.source = x.source /\ z.guard = x.guard
          /\ z.staged.selections = new
      BY <1>1, <2>4 DEF Sessions
    <2> HIDE DEF z
    <2>7. PICK y \in Sessions : y = z BY <2>6
    <2> QED BY <1>2, <2>3, <2>5, <2>6, <2>7, InputStep DEF x
  <1>5. CASE \E c \in Criteria :
               LET left == RemoveCriterion(x.staged.selections, c)
               IN  /\ x.staged # None /\ left # x.staged.selections
                   /\ Set(s, IF left = {} THEN [x EXCEPT !.staged = None]
                                          ELSE [x EXCEPT !.staged.selections = left])
    <2>1. PICK c \in Criteria :
            LET left == RemoveCriterion(x.staged.selections, c)
            IN  /\ x.staged # None
                /\ Set(s, IF left = {} THEN [x EXCEPT !.staged = None]
                                       ELSE [x EXCEPT !.staged.selections = left])
      BY <1>5
    <2> DEFINE left == RemoveCriterion(x.staged.selections, c)
               a == x.staged.artifact
               z == [x EXCEPT !.staged = None]
               w == [x EXCEPT !.staged = [artifact |-> a, selections |-> left]]
    <2>2. x.staged # None BY <2>1
    <2>3. left \in Selections /\ left \subseteq x.staged.selections
      BY <1>3, <2>2 DEF RemoveCriterion
    <2>4. left # {} => Buildable(left)
      BY <1>3, <2>2, <2>3 DEF Buildable
    <2>5. [x EXCEPT !.staged.selections = left] = w
      BY <1>1, <1>3, <2>2 DEF Sessions
    <2>6. IF left = {} THEN Set(s, z) ELSE Set(s, w)
      BY <2>1, <2>5 DEF Set
    <2>7. a \in Artifacts BY <1>3, <2>2
    <2> HIDE DEF left, x, a
    <2>8. CASE left = {}
      <3>1. /\ z \in Sessions /\ z.open = x.open /\ z.source = x.source
            /\ z.guard = x.guard /\ z.staged = None
        BY <1>1 DEF Sessions
      <3> HIDE DEF z
      <3>2. PICK y \in Sessions : y = z BY <3>1
      <3> QED BY <1>2, <2>6, <2>8, <3>1, <3>2, InputStep DEF x
    <2>9. CASE left # {}
      <3>1. /\ w \in Sessions /\ w.open = x.open /\ w.source = x.source
            /\ w.guard = x.guard /\ w.staged.selections = left
        BY <1>1, <2>3, <2>7 DEF Sessions
      <3> HIDE DEF w
      <3>2. PICK y \in Sessions : y = w BY <3>1
      <3> QED BY <1>2, <2>4, <2>6, <2>9, <3>1, <3>2, InputStep DEF x
    <2> QED BY <2>8, <2>9
  <1> QED BY <1>4, <1>5 DEF StageImport

Drafts ==
    [artifact: Artifacts, mapping: UNION {[S -> Criteria] : S \in SUBSET Cases}]

\* A staged mapping takes the place of the one before, or is dropped.
LEMMA DraftStep ==
  ASSUME EvidenceInv, NEW s \in Browsers, NEW draft \in Drafts \union {None},
         Set(s, [session[s] EXCEPT !.draft = draft]),
         UNCHANGED <<record, github, clock, known>>
  PROVE  EvidenceInv' /\ RecordStep
  <1> DEFINE x == session[s]
             z == [x EXCEPT !.draft = draft]
  <1>1. x \in Sessions /\ SessionGood(x, clock) BY SessionOfInv
  <1> HIDE DEF x
  <1>2. /\ z \in Sessions /\ z.open = x.open /\ z.source = x.source /\ z.guard = x.guard
        /\ z.staged = x.staged
    BY <1>1 DEF Sessions, Drafts
  <1>3. Set(s, z) BY DEF x
  <1> HIDE DEF z
  <1>4. PICK y \in Sessions : y = z BY <1>2
  <1>5. y.staged # None => Buildable(y.staged.selections)
    BY <1>1, <1>2, <1>4 DEF SessionGood
  <1> QED BY <1>2, <1>3, <1>4, <1>5, InputStep DEF x

LEMMA StartDraftStep ==
  ASSUME EvidenceInv, NEW s \in Browsers, NEW a \in Artifacts, StartDraft(s, a)
  PROVE  EvidenceInv' /\ RecordStep
  <1> DEFINE b == session[s].open.bundle
             draft == [artifact |-> a, mapping |-> Effective(b, a)]
  <1>1. /\ session[s].open # None /\ b # None /\ a \in ActiveImports(b)
        /\ Set(s, [session[s] EXCEPT !.draft = draft])
        /\ UNCHANGED <<record, github, clock, known>>
    BY DEF StartDraft, Analysed
  <1>2. session[s].open \in States /\ Sound(session[s].open) BY <1>1, SessionOfInv
  <1>3. b \in Analyses /\ JUnitValid(b)
    BY <1>1, <1>2, StateFields DEF Sound, ValidAnalysis
  <1>4. Effective(b, a) \in Mappings BY <1>1, <1>3, ActiveImportIsFound
  <1>5. draft \in Drafts BY <1>4 DEF Drafts, Mappings
  <1> HIDE DEF draft
  <1>6. PICK d \in Drafts : d = draft BY <1>5
  <1> QED BY <1>1, <1>6, DraftStep

LEMMA StageStep ==
  ASSUME EvidenceInv, NEW s \in Browsers, Stage(s)
  PROVE  EvidenceInv' /\ RecordStep
  <1> DEFINE x == session[s]
             old == x.draft.mapping
             a == x.draft.artifact
             Partial == UNION {[S -> Criteria] : S \in SUBSET Cases}
  <1>1. x \in Sessions /\ x.draft # None /\ UNCHANGED <<record, github, clock, known>>
    BY SessionOfInv DEF Stage
  <1>2. a \in Artifacts /\ old \in Partial /\ x.draft \in Drafts
    BY <1>1, SessionFields DEF Drafts
  <1>3. PICK m \in Partial : Set(s, [x EXCEPT !.draft.mapping = m])
    <2>1. PICK S \in SUBSET Cases : old \in [S -> Criteria] BY <1>2
    <2>2. CASE \E c \in Criteria, cases \in SUBSET Cases :
                 Set(s, [x EXCEPT !.draft.mapping = StageGroup(@, c, cases)])
      <3>1. PICK c \in Criteria, cases \in SUBSET Cases :
              Set(s, [x EXCEPT !.draft.mapping = StageGroup(@, c, cases)])
        BY <2>2
      <3> DEFINE T == {y \in S : old[y] # c} \union cases
                 m == StageGroup(old, c, cases)
      <3>2. m \in [T -> Criteria] BY <2>1 DEF StageGroup
      <3>3. T \in SUBSET Cases BY <2>1
      <3>4. [x EXCEPT !.draft.mapping = StageGroup(@, c, cases)]
              = [x EXCEPT !.draft.mapping = m]
        BY <1>1, <1>2 DEF Sessions, Drafts
      <3> HIDE DEF m, T
      <3>5. m \in Partial BY <3>2, <3>3
      <3> QED BY <3>1, <3>4, <3>5
    <2>3. CASE \E c \in Named(old) :
                 Set(s, [x EXCEPT !.draft.mapping = RemoveGroup(@, c)])
      <3>1. PICK c \in Named(old) : Set(s, [x EXCEPT !.draft.mapping = RemoveGroup(@, c)])
        BY <2>3
      <3> DEFINE T == {y \in S : old[y] # c}
                 m == RemoveGroup(old, c)
      <3>2. m \in [T -> Criteria] BY <2>1 DEF RemoveGroup
      <3>3. T \in SUBSET Cases BY <2>1
      <3>4. [x EXCEPT !.draft.mapping = RemoveGroup(@, c)]
              = [x EXCEPT !.draft.mapping = m]
        BY <1>1, <1>2 DEF Sessions, Drafts
      <3> HIDE DEF m, T
      <3>5. m \in Partial BY <3>2, <3>3
      <3> QED BY <3>1, <3>4, <3>5
    <2> QED BY <2>2, <2>3 DEF Stage
  <1> DEFINE draft == [artifact |-> a, mapping |-> m]
  <1>4. draft \in Drafts BY <1>2, <1>3 DEF Drafts
  <1>5. [x EXCEPT !.draft.mapping = m] = [x EXCEPT !.draft = draft]
    BY <1>1, <1>2 DEF Sessions, Drafts
  <1> HIDE DEF draft
  <1>6. PICK d \in Drafts : d = draft BY <1>4
  <1>7. Set(s, [x EXCEPT !.draft = d]) BY <1>3, <1>5, <1>6
  <1> QED BY <1>1, <1>7, DraftStep

LEMMA DropDraftStep ==
  ASSUME EvidenceInv, NEW s \in Browsers, DropDraft(s)
  PROVE  EvidenceInv' /\ RecordStep
  <1>1. None \in Drafts \union {None} OBVIOUS
  <1> QED BY <1>1, DraftStep DEF DropDraft

\* The pull request was looked at: whatever is known against a context is
\* guarded against, and no source is kept for it.
LEMMA LookedAtStep ==
  ASSUME EvidenceInv, NEW s \in Browsers, NEW y \in Sessions, Set(s, y),
         SessionGood(y, clock), NEW k \in SUBSET Contexts,
         BrowserGood(y, k, clock), known' = [known EXCEPT ![s] = k],
         UNCHANGED <<record, github, clock>>
  PROVE  EvidenceInv' /\ RecordStep
  <1>1. /\ clock \in Nat /\ clock <= clock /\ record \in States /\ Sound(record)
        /\ record.confirmed <= clock /\ known \in [Browsers -> SUBSET Contexts]
        /\ github \in {"reviewed", "moved"}
    BY DEF EvidenceInv, TypeOK
  <1>2. /\ known' \in [Browsers -> SUBSET Contexts] /\ known'[s] = k
        /\ \A t \in Browsers : t # s => known'[t] = known[t]
    BY <1>1
  <1>3. EvidenceInv' BY <1>1, <1>2, OneSessionMoves DEF Set
  <1> QED BY <1>3 DEF RecordStep

\* What contradicts the context of a session goes into its guard, and drops its source.
LEMMA BlockedGood ==
  ASSUME NEW x \in Sessions, NEW n \in Nat, SessionGood(x, n), x.open # None,
         NEW k \in SUBSET Contexts, BrowserGood(x, k, n)
  PROVE  /\ Blocked(x) \in Sessions /\ SessionGood(Blocked(x), n)
         /\ BrowserGood(Blocked(x), k \union {Context(x.open)}, n)
         /\ Blocked(x).open = x.open /\ Blocked(x).guard = x.guard \union {Context(x.open)}
  <1> DEFINE z == Blocked(x)
  <1>1. x.open \in States /\ Context(x.open) \in Contexts
        /\ Context(x.open)[3] = x.open.confirmed
    BY SessionFields, StateFields
  <1> DEFINE g == x.guard \union {Context(x.open)}
  <1>2. g \subseteq Contexts BY <1>1, SessionFields
  <1>3. z = [x EXCEPT !.source = None, !.receipt = None, !.guard = g]
    BY DEF Blocked, Sessions
  <1> HIDE DEF g, z
  <1>4. /\ z \in Sessions /\ z.open = x.open /\ z.source = None /\ z.guard = g
        /\ z.staged = x.staged
    BY <1>2, <1>3 DEF Sessions
  <1>5. SessionGood(z, n) BY <1>4 DEF SessionGood
  <1>6. x.open.confirmed <= n BY DEF SessionGood
  <1>7. BrowserGood(z, k \union {Context(x.open)}, n)
    BY <1>1, <1>4, <1>6 DEF BrowserGood, g
  <1> QED BY <1>4, <1>5, <1>7 DEF z, g

LEMMA LoadMatchingStep ==
  ASSUME EvidenceInv, NEW s \in Browsers, LoadMatching(s)
  PROVE  EvidenceInv' /\ RecordStep
  <1> DEFINE x == session[s]
             ctx == Context(x.open)
             more == known[s] \union {ctx}
             less == known[s] \ {ctx}
  <1>1. /\ x \in Sessions /\ SessionGood(x, clock) /\ BrowserGood(x, known[s], clock)
        /\ x.open # None /\ x.open \in States /\ Sound(x.open)
        /\ clock \in Nat /\ known \in [Browsers -> SUBSET Contexts]
        /\ UNCHANGED <<record, github, clock>>
    BY SessionOfInv DEF LoadMatching, Ready
  <1>2. ctx \in Contexts BY <1>1, StateFields
  <1>3. CASE Set(s, Blocked(x)) /\ known' = [known EXCEPT ![s] = @ \union {ctx}]
    <2>1. more \in SUBSET Contexts /\ known[s] \in SUBSET Contexts BY <1>1, <1>2
    <2>2. known' = [known EXCEPT ![s] = more] BY <1>3
    <2>3. /\ Blocked(x) \in Sessions /\ SessionGood(Blocked(x), clock)
          /\ BrowserGood(Blocked(x), more, clock)
      BY <1>1, <2>1, BlockedGood
    <2> HIDE DEF more, x
    <2>4. PICK y \in Sessions : y = Blocked(x) BY <2>3
    <2>5. PICK k \in SUBSET Contexts : k = more BY <2>1
    <2> QED BY <1>1, <1>3, <2>2, <2>3, <2>4, <2>5, LookedAtStep
  <1>4. CASE /\ Set(s, [x EXCEPT !.source = RequiredPaths(x.open),
                                 !.receipt = Receipt(x.open),
                                 !.guard = @ \ {ctx}])
             /\ known' = [known EXCEPT ![s] = @ \ {ctx}]
    <2> DEFINE g == x.guard \ {ctx}
               paths == RequiredPaths(x.open)
               receipt == Receipt(x.open)
               z == [x EXCEPT !.source = paths, !.receipt = receipt, !.guard = g]
    <2>1. less \in SUBSET Contexts BY <1>1
    <2>2. known' = [known EXCEPT ![s] = less] BY <1>4
    <2>3. Set(s, z)
      <3>1. [x EXCEPT !.source = RequiredPaths(x.open), !.receipt = Receipt(x.open),
                      !.guard = @ \ {ctx}] = z
        BY <1>1 DEF Sessions
      <3> QED BY <1>4, <3>1
    <2>4. receipt \in [context: Contexts, saved: States \union {None}]
      BY <1>1, <1>2 DEF Receipt
    <2>5. paths \subseteq CandidatePaths BY <1>1, RequiredAreCandidates
    <2>6. g \subseteq Contexts BY <1>1, SessionFields
    <2> HIDE DEF paths, receipt, g, x
    <2>7. /\ z \in Sessions /\ z.open = x.open /\ z.guard = g /\ z.staged = x.staged
      BY <1>1, <2>4, <2>5, <2>6 DEF Sessions
    <2> HIDE DEF z
    <2>8. SessionGood(z, clock) BY <1>1, <2>7 DEF SessionGood
    <2>9. BrowserGood(z, less, clock)
      BY <1>1, <2>7 DEF BrowserGood, g
    <2> HIDE DEF less
    <2>10. PICK y \in Sessions : y = z BY <2>7
    <2>11. PICK k \in SUBSET Contexts : k = less BY <2>1
    <2> QED BY <1>1, <2>2, <2>3, <2>8, <2>9, <2>10, <2>11, LookedAtStep
  <1> QED BY <1>3, <1>4 DEF LoadMatching

LEMMA CheckHeadStep ==
  ASSUME EvidenceInv, NEW s \in Browsers, CheckHead(s)
  PROVE  EvidenceInv' /\ RecordStep
  <1> DEFINE x == session[s]
             ctx == Context(x.open)
             y == IF github = "moved" THEN Blocked(x) ELSE x
             k == IF github = "moved" THEN known[s] \union {ctx} ELSE known[s] \ {ctx}
             w == Showing(y, None)
             z == [w EXCEPT !.source = None, !.receipt = None, !.conflict = FALSE]
  <1>1. /\ x \in Sessions /\ SessionGood(x, clock) /\ BrowserGood(x, known[s], clock)
        /\ x.open # None /\ x.open \in States
        /\ clock \in Nat /\ known \in [Browsers -> SUBSET Contexts]
        /\ UNCHANGED <<record, github, clock>>
    BY SessionOfInv DEF CheckHead
  <1>2. ctx \in Contexts /\ known[s] \in SUBSET Contexts BY <1>1, StateFields
  <1>3. k \in SUBSET Contexts BY <1>2
  <1>4. known' = [known EXCEPT ![s] = k] BY DEF CheckHead
  <1>5. Set(s, y) \/ Set(s, z) BY DEF CheckHead
  <1> HIDE DEF x
  <1>6. y \in Sessions /\ SessionGood(y, clock) /\ BrowserGood(y, k, clock)
    <2>1. CASE github = "moved" BY <1>1, <1>2, <2>1, BlockedGood
    <2>2. CASE github # "moved"
      BY <1>1, <2>2 DEF BrowserGood
    <2> QED BY <2>1, <2>2
  <1> HIDE DEF y, k
  <1>7. w \in Sessions /\ w.open = None /\ w.guard = y.guard
        /\ (w.staged = y.staged \/ w.staged = None)
    BY <1>6, ShowingFields
  <1> HIDE DEF w
  <1>8. /\ z \in Sessions /\ z.open = None /\ z.source = None /\ z.guard = y.guard
        /\ (z.staged = y.staged \/ z.staged = None)
    BY <1>7 DEF Sessions
  <1> HIDE DEF z
  <1>9. SessionGood(z, clock) BY <1>6, <1>8 DEF SessionGood
  <1>10. BrowserGood(z, k, clock) BY <1>6, <1>8 DEF BrowserGood
  <1>11. PICK l \in SUBSET Contexts : l = k BY <1>3
  <1>12. CASE Set(s, y)
    <2>1. PICK v \in Sessions : v = y BY <1>6
    <2> QED BY <1>1, <1>4, <1>6, <1>11, <1>12, <2>1, LookedAtStep
  <1>13. CASE Set(s, z)
    <2>1. PICK v \in Sessions : v = z BY <1>8
    <2> QED BY <1>1, <1>4, <1>9, <1>10, <1>11, <1>13, <2>1, LookedAtStep
  <1> QED BY <1>5, <1>12, <1>13

\* The invariant holds in the beginning.
LEMMA InitInv ==
  ASSUME Init
  PROVE  EvidenceInv
  <1>1. PICK src \in Sources, paths \in SUBSET CandidatePaths :
          record = State(1, src, 1, 0, FreshAnalysis(1, src, paths), <<>>)
    BY DEF Init
  <1> DEFINE d == FreshAnalysis(1, src, paths)
  <1>2. d \in Analyses /\ ValidAnalysis(d) BY FreshIsValid
  <1>3. d # None BY <1>2, AnalysisFields
  <1> HIDE DEF d
  <1>4. record = [revision |-> 1, source |-> src, confirmed |-> 1, decisions |-> 0,
                  bundle |-> d, history |-> <<>>]
    BY <1>1 DEF State, d
  <1>5. record \in States /\ record.bundle = d /\ record.confirmed = 1
    <2>1. <<>> \in Seq(Analyses) OBVIOUS
    <2> QED BY <1>2, <1>4, <2>1 DEF States
  <1>6. Sound(record) /\ record.confirmed <= clock
    BY <1>2, <1>3, <1>5 DEF Sound, Init
  <1>7. Idle \in Sessions
    BY DEF Idle, Sessions
  <1>8. SessionGood(Idle, clock) /\ BrowserGood(Idle, {}, clock)
    BY DEF SessionGood, BrowserGood, Idle
  <1>9. /\ \A s \in Browsers \union Shells : session[s] = Idle
        /\ \A s \in Browsers : known[s] = {}
    BY DEF Init
  <1>10. TypeOK BY <1>5, <1>7 DEF TypeOK, Init
  <1> QED BY <1>6, <1>8, <1>9, <1>10 DEF EvidenceInv

\* Every step keeps the invariant and is one that RecordStep allows.
LEMMA NextStep ==
  ASSUME EvidenceInv, [Next]_vars
  PROVE  EvidenceInv' /\ RecordStep
  <1>1. CASE Push
    <2>1. EvidenceInv' BY <1>1 DEF Push, EvidenceInv, TypeOK
    <2> QED BY <1>1, <2>1 DEF Push, RecordStep
  <1>2. CASE UNCHANGED vars
    <2>1. EvidenceInv' BY <1>2 DEF vars, EvidenceInv, TypeOK
    <2> QED BY <1>2, <2>1 DEF vars, RecordStep
  <1>3. CASE \E a \in Artifacts, selections \in SUBSET [scope: Scopes, criterion: Criteria] :
               CliImport(a, selections)
    BY <1>3, CliImportStep
  <1>4. ASSUME NEW s \in Browsers, Reopen(s) \/ Refresh(s) PROVE EvidenceInv' /\ RecordStep
    BY <1>4, LookingStep
  <1>5. ASSUME NEW s \in Browsers, LoadMatching(s) PROVE EvidenceInv' /\ RecordStep
    BY <1>5, LoadMatchingStep
  <1>6. ASSUME NEW s \in Browsers, CheckHead(s) PROVE EvidenceInv' /\ RecordStep
    BY <1>6, CheckHeadStep
  <1>7. ASSUME NEW s \in Browsers, StageImport(s) PROVE EvidenceInv' /\ RecordStep
    BY <1>7, StageImportStep
  <1>8. ASSUME NEW s \in Browsers, Import(s) PROVE EvidenceInv' /\ RecordStep
    BY <1>8, ImportStep
  <1>9. ASSUME NEW s \in Browsers, Stage(s) PROVE EvidenceInv' /\ RecordStep
    BY <1>9, StageStep
  <1>10. ASSUME NEW s \in Browsers, DropDraft(s) PROVE EvidenceInv' /\ RecordStep
    BY <1>10, DropDraftStep
  <1>11. ASSUME NEW s \in Browsers, SaveCorrection(s) PROVE EvidenceInv' /\ RecordStep
    BY <1>11, SaveCorrectionStep
  <1>12. ASSUME NEW s \in Browsers, Select(s) PROVE EvidenceInv' /\ RecordStep
    BY <1>12, SelectStep
  <1>13. ASSUME NEW s \in Browsers, Accept(s) PROVE EvidenceInv' /\ RecordStep
    BY <1>13, AcceptStep
  <1>14. ASSUME NEW s \in Browsers, Analyse(s) PROVE EvidenceInv' /\ RecordStep
    BY <1>14, AnalyseStep
  <1>15. ASSUME NEW s \in Browsers, NEW a \in Artifacts, StartDraft(s, a)
         PROVE  EvidenceInv' /\ RecordStep
    BY <1>15, StartDraftStep
  <1>16. ASSUME NEW s \in Browsers, NEW a \in Artifacts, Withdraw(s, a)
         PROVE  EvidenceInv' /\ RecordStep
    BY <1>16, WithdrawStep
  <1>17. ASSUME NEW s \in Browsers, NEW c \in Criteria, NEW d \in Decisions, Decide(s, c, d)
         PROVE  EvidenceInv' /\ RecordStep
    BY <1>17, DecideStep
  <1>18. ASSUME NEW s \in Browsers, NEW src \in Sources, ReviseConfirm(s, src)
         PROVE  EvidenceInv' /\ RecordStep
    BY <1>18, ReviseStep
  <1>19. ASSUME NEW s \in Shells, Read(s) PROVE EvidenceInv' /\ RecordStep
    BY <1>19, ReadStep
  <1>20. ASSUME NEW s \in Shells, NEW a \in Artifacts, CliWithdraw(s, a)
         PROVE  EvidenceInv' /\ RecordStep
    BY <1>20, WithdrawStep
  <1>21. ASSUME NEW s \in Shells, NEW a \in Artifacts, NEW m \in Mappings, CliCorrect(s, a, m)
         PROVE  EvidenceInv' /\ RecordStep
    BY <1>21, CliCorrectStep
  <1> QED BY <1>1, <1>2, <1>3, <1>4, <1>5, <1>6, <1>7, <1>8, <1>9, <1>10, <1>11, <1>12,
             <1>13, <1>14, <1>15, <1>16, <1>17, <1>18, <1>19, <1>20, <1>21
          DEF Next

-----------------------------------------------------------------------------
(* The theorems.                                                           *)

\* Evidence: every reachable state is typed; in particular every analysis in
\* the record, its history or a session is one of this review at the
\* reviewed head, with the imports, events and references of its kind.
THEOREM TypeCorrect == Spec => []TypeOK
  <1>1. Init => EvidenceInv BY InitInv
  <1>2. EvidenceInv /\ [Next]_vars => EvidenceInv' BY NextStep
  <1>3. EvidenceInv => TypeOK BY DEF EvidenceInv
  <1> QED BY <1>1, <1>2, <1>3, PTL DEF Spec

\* Evidence: every reachable state satisfies the inductive invariant, so every
\* saved or opened analysis passes the checks of ReviewBundle and no session
\* shows source for a context it last saw contradicted.
THEOREM EvidenceInvariant == Spec => []EvidenceInv
  <1>1. Init => EvidenceInv BY InitInv
  <1>2. EvidenceInv /\ [Next]_vars => EvidenceInv' BY NextStep
  <1> QED BY <1>1, <1>2, PTL DEF Spec

\* What a step of the record is, for the properties below.
LEMMA GrowthOfRecord ==
  ASSUME NEW st \in States, NEW new, StateGrows(st, new)
  PROVE  /\ st.bundle \in Analyses /\ new.bundle # None
         /\ new.revision = st.revision /\ new.history = st.history
         /\ IsPrefix(st.history, new.history)
         /\ IsPrefix(st.bundle.imports, new.bundle.imports)
         /\ IsPrefix(st.bundle.events, new.bundle.events)
         /\ IsPrefix(st.bundle.references, new.bundle.references)
         /\ IsPrefix(st.bundle.refEvents, new.bundle.refEvents)
  <1>1. new.bundle \in Analyses BY DEF StateGrows, Grows
  <1> QED BY <1>1, AnalysisFields, StateFields, PrefixOfItself DEF StateGrows, Grows

\* Evidence: the ledgers of the saved record only grow, and an analysis
\* leaves it only whole, into a history that only grows (LedgerOnlyGrows).
THEOREM LedgersGrow == Spec => LedgerOnlyGrows
  <1> DEFINE b == record.bundle
             new == record'.bundle
             A == /\ IsPrefix(record.history, record'.history)
                  /\ b # None /\ record'.revision = record.revision =>
                      /\ new # None
                      /\ IsPrefix(b.imports, new.imports)
                      /\ IsPrefix(b.events, new.events)
                      /\ IsPrefix(b.references, new.references)
                      /\ IsPrefix(b.refEvents, new.refEvents)
                  /\ b # None /\ record'.revision # record.revision =>
                      record'.history = Append(record.history, b)
  <1>1. ASSUME EvidenceInv, [Next]_vars PROVE A
    <2>1. record \in States /\ record.history \in Seq(Analyses)
          /\ record.revision \in Nat /\ b \in Analyses \union {None}
      BY <1>1, StateFields DEF EvidenceInv, TypeOK
    <2>2. IsPrefix(record.history, record.history)
          /\ (b # None => IsPrefix(record.history, Append(record.history, b)))
      BY <2>1, PrefixOfItself, PrefixOfAppend
    <2>3. RecordStep BY <1>1, NextStep
    <2>4. CASE record' = record
      <3>1. b # None => /\ IsPrefix(b.imports, b.imports) /\ IsPrefix(b.events, b.events)
                        /\ IsPrefix(b.references, b.references)
                        /\ IsPrefix(b.refEvents, b.refEvents)
        BY <2>1, LedgersArePrefixes
      <3> QED BY <2>2, <2>4, <3>1
    <2>5. CASE StateGrows(record, record')
      BY <2>1, <2>5, GrowthOfRecord
    <2>6. CASE RevisedTo(record')
      BY <2>1, <2>2, <2>6 DEF RevisedTo
    <2>7. CASE Attached
      BY <2>1, <2>2, <2>7 DEF Attached
    <2> QED BY <2>3, <2>4, <2>5, <2>6, <2>7 DEF RecordStep, Recorded, Audited, Accepted
  <1>2. EvidenceInv /\ [Next]_vars => [A]_vars BY <1>1
  <1> QED BY <1>2, EvidenceInvariant, PTL DEF Spec, LedgerOnlyGrows

\* Evidence: an audit event is recorded only by a session that held the very
\* record it extends (CorrectionsSeeWhatTheyReplace).
THEOREM AuditsSeeTheRecord == Spec => CorrectionsSeeWhatTheyReplace
  <1> DEFINE A == record.bundle # None /\ record'.bundle # None =>
                    (record'.bundle.events # record.bundle.events =>
                      \E s \in DOMAIN session :
                          session[s].open = record /\ session'[s].open = record')
  <1>1. ASSUME EvidenceInv, [Next]_vars PROVE A
    <2>1. RecordStep BY <1>1, NextStep
    <2>2. DOMAIN session = Browsers \union Shells BY <1>1 DEF EvidenceInv, TypeOK
    <2> QED BY <2>1, <2>2 DEF RecordStep, Recorded, Audited, Accepted, RevisedTo, Attached
  <1>2. EvidenceInv /\ [Next]_vars => [A]_vars BY <1>1
  <1> QED BY <1>2, EvidenceInvariant, PTL DEF Spec, CorrectionsSeeWhatTheyReplace

\* Evidence: a final acceptance, and an analysis that is attached, are of a
\* session that last saw nothing contradict this context, and what is
\* attached was made from every file it had to be made from
\* (NothingOnContradictedSource).
THEOREM BuiltOnMatchingSource == Spec => NothingOnContradictedSource
  <1> DEFINE A == \A s \in Browsers :
          LET mine == /\ session[s].open = record
                      /\ session'[s].open = record'
              attached == record.bundle = None /\ record'.bundle # None
              accepted == /\ record.bundle # None /\ ~record.bundle.final
                          /\ record'.bundle # None /\ record'.bundle.final
          IN  mine /\ record' # record /\ (attached \/ accepted) =>
                /\ Context(record) \notin known[s]
                /\ attached =>
                    /\ RequiredPaths(record) \subseteq session[s].source
                    /\ Context(record') = Context(record)
             Attaches == record.bundle = None /\ record'.bundle # None
             Accepts == /\ record.bundle # None /\ ~record.bundle.final
                        /\ record'.bundle # None /\ record'.bundle.final
  <1>1. ASSUME EvidenceInv, [Next]_vars PROVE A
    <2> SUFFICES ASSUME NEW s \in Browsers, session[s].open = record,
                        session'[s].open = record', record' # record, Attaches \/ Accepts
                 PROVE  /\ Context(record) \notin known[s]
                        /\ Attaches => /\ RequiredPaths(record) \subseteq session[s].source
                                       /\ Context(record') = Context(record)
      OBVIOUS
    <2>1. RecordStep BY <1>1, NextStep
    <2>2. /\ session \in [Browsers \union Shells -> Sessions]
          /\ BrowserGood(session[s], known[s], clock) /\ record # None
      BY <1>1, StateFields DEF EvidenceInv, TypeOK
    <2>3. \A t \in Browsers : Moves(t) => t = s
      BY <2>2 DEF Moves
    <2>4. CASE Accepted
      <3>1. ~Attaches BY <2>4 DEF Accepted, StateGrows
      <3>2. ~Contradicted(s) BY <2>3, <2>4 DEF Accepted
      <3> QED BY <2>2, <3>1, <3>2 DEF Contradicted, BrowserGood
    <2>5. CASE Attached
      <3>1. session[s].source # None /\ RequiredPaths(record) \subseteq session[s].source
        BY <2>3, <2>5 DEF Attached
      <3> QED BY <2>2, <2>5, <3>1 DEF Attached, BrowserGood
    <2>6. ~Recorded /\ ~Audited /\ ~RevisedTo(record')
      BY DEF Recorded, Audited, RevisedTo, StateGrows
    <2> QED BY <2>1, <2>4, <2>5, <2>6 DEF RecordStep
  <1>2. EvidenceInv /\ [Next]_vars => [A]_vars BY <1>1
  <1> QED BY <1>2, EvidenceInvariant, PTL DEF Spec, NothingOnContradictedSource

\* Evidence: a decision that a comparison does not list stands on the same
\* head, rules, finding, candidates and imports as when it was taken, and the
\* validators accept the comparison, which has each candidate in one change
\* (UnlistedDecisionsStand).
THEOREM UnlistedStand == Spec => []UnlistedDecisionsStand
  <1>1. ASSUME EvidenceInv, record.bundle # None, NEW b \in ComparedWith
        PROVE  Comparands(b, record.bundle)
    <2>1. record \in States /\ record.bundle \in Analyses
          /\ record.history \in Seq(Analyses)
      BY <1>1, StateFields DEF EvidenceInv, TypeOK
    <2>2. \A d \in Analyses : None \notin d.evidence /\ IsFiniteSet(DOMAIN d.events)
      <3> SUFFICES ASSUME NEW d \in Analyses
                   PROVE  None \notin d.evidence /\ IsFiniteSet(DOMAIN d.events)
        OBVIOUS
      <3>1. None \notin d.evidence BY AnalysisFields, EvidenceAssumption
      <3>2. DOMAIN d.events = 1..Len(d.events) /\ Len(d.events) \in Nat BY AnalysisFields
      <3>3. 1 \in Int /\ Len(d.events) \in Int BY <3>2
      <3>4. IsFiniteSet(1..Len(d.events)) BY <3>3, FS_Interval
      <3> QED BY <3>1, <3>2, <3>4
    <2>3. Comparable(b, record.bundle) BY DEF ComparedWith
    <2>4. CASE b \in ToSet(record.history)
      <3>1. b \in Analyses BY <2>1, <2>4 DEF ToSet
      <3> QED BY <2>1, <2>2, <2>3, <3>1 DEF Comparands
    <2>5. CASE b \in Baselines
      BY <2>1, <2>2, <2>3, <2>5, EvidenceAssumption DEF Comparands
    <2> QED BY <2>4, <2>5 DEF ComparedWith
  <1>2. ASSUME EvidenceInv PROVE UnlistedDecisionsStand
    <2> SUFFICES ASSUME record.bundle # None PROVE UnlistedDecisionsStand
      BY DEF UnlistedDecisionsStand
    <2>1. ValidAnalysis(record.bundle) BY <1>2 DEF EvidenceInv, Sound
    <2> DEFINE x(b) == CompareReviews(b, record.bundle)
               Own(y, c) == {ExactSignature(e) : e \in {d \in y.evidence : d.criterion = c}}
    <2>2. ASSUME NEW b \in ComparedWith
          PROVE  /\ ComparisonAccepted(x(b))
                 /\ \A e \in b.evidence :
                      Cardinality({y \in x(b).evidence : y.previous = e}) = 1
                 /\ \A e \in record.bundle.evidence :
                      Cardinality({y \in x(b).evidence : y.current = e}) = 1
                 /\ \A c \in DOMAIN b.resolutions \ x(b).listed :
                      /\ b.owner.head = record.bundle.owner.head
                      /\ b.ruleset = record.bundle.ruleset
                      /\ b.findings[c].status = record.bundle.findings[c].status
                      /\ Own(b, c) = Own(record.bundle, c)
                      /\ \A a \in ChangedArtifacts(b, record.bundle) :
                           \A y \in {b, record.bundle} :
                             HasImport(y, a) => c \notin EverNamed(y, a)
      <3>1. Comparands(b, record.bundle) BY <1>1, <1>2, <2>2
      <3>2. PICK cmp : cmp = x(b) OBVIOUS
      <3>3. ComparisonAccepted(cmp) BY <3>1, <3>2, AcceptedComparison
      <3>4. /\ \A e \in b.evidence : Cardinality({y \in cmp.evidence : y.previous = e}) = 1
            /\ \A e \in record.bundle.evidence :
                 Cardinality({y \in cmp.evidence : y.current = e}) = 1
        BY <3>1, <3>2, OneChangeEach
      <3>5. ASSUME NEW c \in DOMAIN b.resolutions \ cmp.listed
            PROVE  /\ b.owner.head = record.bundle.owner.head
                   /\ b.ruleset = record.bundle.ruleset
                   /\ b.findings[c].status = record.bundle.findings[c].status
                   /\ Own(b, c) = Own(record.bundle, c)
                   /\ \A a \in ChangedArtifacts(b, record.bundle) :
                        \A y \in {b, record.bundle} :
                          HasImport(y, a) => c \notin EverNamed(y, a)
        BY <3>1, <3>2, UnlistedIsUnchanged DEF Of
      <3> HIDE DEF x, Own
      <3> QED BY <3>2, <3>3, <3>4, <3>5
    <2> QED BY <2>1, <2>2 DEF UnlistedDecisionsStand
  <1>3. EvidenceInv => UnlistedDecisionsStand BY <1>2
  <1> QED BY <1>3, EvidenceInvariant, PTL

=============================================================================
