--------------------------- MODULE WorkbenchProofs ---------------------------
(***************************************************************************)
(* What no interleaving of sessions and calls beside them can do to a      *)
(* saved review, for any number of sessions and events, with or without    *)
(* failing storage.  The invariant says what the flags of a session are    *)
(* worth: what it takes for saved is part of what it shows, and a content  *)
(* that was saved once is remembered as saved, deleted or in conflict.     *)
(***************************************************************************)
EXTENDS Workbench, TLAPS

\* Nothing of what a session takes for saved is gone from what it shows.
SavedIsShown(x, saves) ==
    x.saved # Missing =>
        x.saved \in saves /\ x.state # Missing /\ x.saved \subseteq x.state

\* A content that was saved once is not taken for new work.
SavedIsRemembered(x, saves) ==
    x.state # Missing /\ x.state \in saves =>
        \/ x.saved = x.state
        \/ x.deleted = x.state
        \/ x.conflict /\ x.failed = x.state

\* After the autosave of a pass, what could be saved is no longer new.
AutosaveDone(x) ==
    /\ x.step \notin {"refresh", "autosave"}
    /\ x.state # Missing /\ x.available /\ ~PendingInput(x)
    => x.state \in {x.saved, x.failed, x.deleted}

\* What a widget was offered for still holds when its handler runs.
ClickHolds(x, saves) ==
    /\ x.click = "start" => x.state = Missing
    /\ x.click \in {"decide", "accept", "mutate", "save"} => x.state # Missing
    /\ x.click = "mutate" => x.state \in saves
    /\ x.click = "save" =>
         /\ x.saved # x.state
         /\ x.state \in {x.failed, x.deleted}
         /\ x.state \in saves => x.deleted = x.state

\* What the flags of a session are worth.
FlagsHold(x, saves) ==
    /\ SavedIsShown(x, saves)
    /\ SavedIsRemembered(x, saves)
    /\ AutosaveDone(x)
    /\ ClickHolds(x, saves)

\* Events are handed out before they occur anywhere.
OnlyUsed ==
    /\ \A S \in history : S \subseteq used
    /\ \A s \in Sessions : session[s].state # Missing => session[s].state \subseteq used

\* What the record holds was saved.
RecordWasSaved == record # Missing => record \in history

\* Nobody else has e.
Private(s, e) ==
    /\ \A S \in history : e \notin S
    /\ \A t \in Sessions \ {s} : session[t].state # Missing => e \notin session[t].state

\* What was never saved has an event that nobody else has.
UnsavedIsPrivate ==
    \A s \in Sessions :
      session[s].state # Missing =>
        session[s].state \in history \/ \E e \in session[s].state : Private(s, e)

WorkbenchInv ==
    /\ TypeOK
    /\ OnlyUsed
    /\ RecordWasSaved
    /\ UnsavedIsPrivate
    /\ \A s \in Sessions : FlagsHold(session[s], history)

-----------------------------------------------------------------------------
\* The invariant holds in the beginning.
LEMMA InitInv == Init => WorkbenchInv
<1> SUFFICES ASSUME Init PROVE WorkbenchInv
  OBVIOUS
<1>1. Blank \in Session
  BY DEF Blank, Session, Steps, Clicks, MaybeContent
<1>2. TypeOK
  BY <1>1 DEF Init, TypeOK, MaybeContent
<1>3. \A s \in Sessions : session[s] = Blank
  BY DEF Init
<1>4. OnlyUsed /\ RecordWasSaved /\ UnsavedIsPrivate
  BY <1>3 DEF Init, OnlyUsed, RecordWasSaved, UnsavedIsPrivate, Blank
<1>5. FlagsHold(Blank, history)
  BY DEF FlagsHold, SavedIsShown, SavedIsRemembered, AutosaveDone, ClickHolds, Blank
<1> QED
  BY <1>2, <1>3, <1>4, <1>5 DEF WorkbenchInv

\* What a session sees of new saves: what it has not saved stays unsaved, so
\* its flags keep their meaning.
LEMMA OthersKeepFlags ==
    ASSUME WorkbenchInv, NEW t \in Sessions, NEW saves, history \subseteq saves,
           session[t].state \in saves => session[t].state \in history
    PROVE  FlagsHold(session[t], saves)
BY DEF WorkbenchInv, FlagsHold, SavedIsShown, SavedIsRemembered, AutosaveDone, ClickHolds

\* Where an event of a step of session s may come from.
Source(s, e) ==
    \/ e \in used' \ used
    \/ \E S \in history : e \in S
    \/ session[s].state # Missing /\ e \in session[s].state

\* A step of session s that leaves it as y and may save one content.
LEMMA SessionStep ==
    ASSUME WorkbenchInv, NEW s \in Sessions, NEW y \in Session,
           session' = [session EXCEPT ![s] = y],
           used \subseteq used', used' \subseteq Events,
           history \subseteq history', history' \subseteq Content,
           \A S \in history' \ history : \A e \in S : Source(s, e),
           y.state # Missing => \A e \in y.state : Source(s, e),
           record' \in MaybeContent, record' # Missing => record' \in history',
           FlagsHold(y, history'),
           \/ y.state = Missing
           \/ y.state \in history'
           \/ /\ history' = history
              /\ \/ \E e \in y.state : e \notin used
                 \/ /\ session[s].state # Missing
                    /\ session[s].state \notin history
                    /\ session[s].state \subseteq y.state
    PROVE  WorkbenchInv'
<1>1. TypeOK'
  BY DEF WorkbenchInv, TypeOK
<1>2. /\ session'[s] = y
      /\ \A t \in Sessions \ {s} : session'[t] = session[t]
  BY DEF WorkbenchInv, TypeOK
<1>3. ASSUME NEW e, Source(s, e) PROVE e \in used'
  BY <1>3 DEF Source, WorkbenchInv, OnlyUsed
<1>4. OnlyUsed'
  BY <1>2, <1>3 DEF OnlyUsed, WorkbenchInv
<1>5. ASSUME NEW t \in Sessions \ {s}, NEW e \in session[t].state,
             session[t].state # Missing, Private(t, e)
      PROVE  Private(t, e)'
  <2>1. e \in used
    BY <1>5 DEF WorkbenchInv, OnlyUsed
  <2>2. ~Source(s, e)
    BY <1>5, <2>1 DEF Source, Private
  <2> QED
    BY <1>2, <1>5, <2>2 DEF Private
<1>6. ASSUME NEW t \in Sessions \ {s}, session[t].state # Missing, session[t].state \notin history
      PROVE  session[t].state \notin history' /\ \E e \in session[t].state : Private(t, e)'
  <2>1. PICK e \in session[t].state : Private(t, e)
    BY <1>6 DEF WorkbenchInv, UnsavedIsPrivate
  <2>2. Private(t, e)'
    BY <1>5, <1>6, <2>1
  <2> QED
    BY <2>2 DEF Private
<1>7. ASSUME y.state # Missing, y.state \notin history'
      PROVE  \E e \in y.state : Private(s, e)'
  <2>1. CASE \E e \in y.state : e \notin used
    <3>1. PICK e \in y.state : e \notin used
      BY <2>1
    <3>2. Private(s, e)'
      BY <1>2, <1>7, <3>1 DEF WorkbenchInv, OnlyUsed, Private
    <3> QED
      BY <3>2
  <2>2. CASE /\ session[s].state # Missing
             /\ session[s].state \notin history
             /\ session[s].state \subseteq y.state
    <3>1. PICK e \in session[s].state : Private(s, e)
      BY <2>2 DEF WorkbenchInv, UnsavedIsPrivate
    <3>2. Private(s, e)'
      BY <1>2, <1>7, <3>1 DEF Private
    <3> QED
      BY <2>2, <3>2
  <2> QED
    BY <1>7, <2>1, <2>2
<1>8. UnsavedIsPrivate'
  BY <1>2, <1>6, <1>7 DEF UnsavedIsPrivate
<1>9. ASSUME NEW t \in Sessions PROVE FlagsHold(session[t], history)'
  <2>1. CASE t = s
    BY <1>2, <2>1
  <2>2. CASE t # s
    <3>1. session[t].state \in history' => session[t].state \in history
      <4>1. CASE session[t].state = Missing
        BY <4>1, WorkbenchAssumption
      <4> QED
        BY <1>6, <2>2, <4>1
    <3> QED
      BY <1>2, <2>2, <3>1, OthersKeepFlags
  <2> QED
    BY <2>1, <2>2
<1> QED
  BY <1>1, <1>4, <1>8, <1>9 DEF WorkbenchInv, RecordWasSaved

-----------------------------------------------------------------------------
(* Steps that read the store.                                              *)

\* A content is neither of the marks that stand for none.
LEMMA ContentIsSomething ==
    /\ Missing \notin Content /\ Unreadable \notin Content
    /\ Missing # Unreadable
BY WorkbenchAssumption

\* What a session finds saved is what it has, what the store has, or nothing.
LEMMA FoundType ==
    ASSUME WorkbenchInv, NEW s \in Sessions, NEW found \in Found(session[s])
    PROVE  /\ found \in {session[s].saved, record, Unreadable}
           /\ External(session[s], found) =>
                /\ found = record /\ record \in history
                /\ session[s].state # Missing /\ MatchesSave(session[s])
BY ContentIsSomething
   DEF WorkbenchInv, TypeOK, Session, MaybeContent, Found, NothingToCompare, External,
       RecordWasSaved, MatchesSave

\* A refresh that does not take over the record leaves the flags in order.
LEMMA RevalidatedFlags ==
    ASSUME NEW x \in Session, NEW saves, FlagsHold(x, saves), NEW found, NEW step \in Steps,
           x.state # Missing
    PROVE  /\ [Revalidated(x, found) EXCEPT !.step = step] \in Session
           /\ FlagsHold([Revalidated(x, found) EXCEPT !.step = step], saves)
           /\ Revalidated(x, found).state = x.state
BY DEF Revalidated, Gone, Unverified, Conflicting, Session, MaybeContent, FlagsHold,
       SavedIsShown, SavedIsRemembered, AutosaveDone, ClickHolds, PendingInput

\* Neither does one that does: what was shown was saved, and so is the record.
LEMMA HydratedFlags ==
    ASSUME NEW x \in Session, NEW saves, NEW content \in Content, content \in saves,
           x.click \notin {"start", "save"}, NEW step \in Steps
    PROVE  LET y == [Hydrated(x, content) EXCEPT !.step = step]
           IN  y \in Session /\ FlagsHold(y, saves) /\ y.state = content
BY ContentIsSomething
   DEF Hydrated, Clean, Session, MaybeContent, FlagsHold, SavedIsShown, SavedIsRemembered,
       AutosaveDone, ClickHolds

\* A session step that saves nothing and hands out no event; it may delete.
LEMMA QuietStep ==
    ASSUME WorkbenchInv, NEW s \in Sessions, NEW y \in Session,
           session' = [session EXCEPT ![s] = y],
           record' \in {record, Missing}, UNCHANGED <<used, history>>,
           FlagsHold(y, history),
           \/ y.state = Missing \/ y.state \in history \/ y.state = session[s].state
    PROVE  WorkbenchInv'
<1>1. y.state # Missing => \A e \in y.state : Source(s, e)
  BY DEF Source, WorkbenchInv
<1>2. \/ y.state = Missing
      \/ y.state \in history'
      \/ /\ history' = history
         /\ \/ \E e \in y.state : e \notin used
            \/ /\ session[s].state # Missing
               /\ session[s].state \notin history
               /\ session[s].state \subseteq y.state
  OBVIOUS
<1>3. /\ used \subseteq used' /\ used' \subseteq Events
      /\ history \subseteq history' /\ history' \subseteq Content
      /\ \A S \in history' \ history : \A e \in S : Source(s, e)
      /\ record' \in MaybeContent
      /\ record' # Missing => record' \in history'
  BY DEF WorkbenchInv, TypeOK, RecordWasSaved, MaybeContent
<1>4. FlagsHold(y, history')
  OBVIOUS
<1> QED
  BY <1>1, <1>2, <1>3, <1>4, SessionStep

\* The steps of a pass. A refresh adopts a content that was saved.
LEMMA RefreshInv ==
    ASSUME WorkbenchInv, NEW s \in Sessions, Refresh(s)
    PROVE  WorkbenchInv'
<1> DEFINE x == session[s]
<1>1. x \in Session /\ FlagsHold(x, history) /\ "autosave" \in Steps
  BY DEF WorkbenchInv, TypeOK, Steps
<1>2. PICK found \in Found(x) :
         \/ found = x.saved /\ session' = [session EXCEPT ![s] = [x EXCEPT !.step = "autosave"]]
         \/ /\ External(x, found) /\ x.drafts = {}
            /\ session' = [session EXCEPT ![s] = [Hydrated(x, found) EXCEPT !.step = "autosave"]]
         \/ /\ found # x.saved
            /\ session' = [session EXCEPT ![s] = [Revalidated(x, found) EXCEPT !.step = "autosave"]]
  BY DEF Refresh
<1>3. CASE session' = [session EXCEPT ![s] = [x EXCEPT !.step = "autosave"]]
  <2> DEFINE y == [x EXCEPT !.step = "autosave"]
  <2>1. y \in Session /\ y.state = x.state
    BY <1>1 DEF Session
  <2>2. FlagsHold(y, history)
    BY <1>1 DEF Session, FlagsHold, SavedIsShown, SavedIsRemembered, AutosaveDone, ClickHolds
  <2> HIDE DEF y
  <2> QED
    BY <1>3, <2>1, <2>2, QuietStep DEF Refresh, y
<1>4. CASE /\ External(x, found)
           /\ session' = [session EXCEPT ![s] = [Hydrated(x, found) EXCEPT !.step = "autosave"]]
  <2>1. found \in history /\ found \in Content /\ x.state # Missing /\ x.saved = x.state
    BY <1>4, FoundType DEF WorkbenchInv, TypeOK, MatchesSave
  <2>2. x.click \notin {"start", "save"}
    BY <1>1, <2>1 DEF FlagsHold, ClickHolds
  <2> DEFINE y == [Hydrated(x, found) EXCEPT !.step = "autosave"]
  <2>3. y \in Session /\ FlagsHold(y, history) /\ y.state \in history
    BY <1>1, <2>1, <2>2, HydratedFlags
  <2>4. session' = [session EXCEPT ![s] = y]
    BY <1>4
  <2> HIDE DEF y
  <2> QED
    BY <2>3, <2>4, QuietStep DEF Refresh
<1>5. CASE /\ found # x.saved
           /\ session' = [session EXCEPT ![s] = [Revalidated(x, found) EXCEPT !.step = "autosave"]]
  <2>1. x.state # Missing
    BY <1>1, <1>5 DEF Found, NothingToCompare, FlagsHold, SavedIsShown, Session
  <2>2. [Revalidated(x, found) EXCEPT !.step = "autosave"].state = x.state
    BY <1>1, <2>1, RevalidatedFlags DEF Revalidated, Gone, Unverified, Conflicting, Session
  <2> QED
    BY <1>1, <1>5, <2>1, <2>2, RevalidatedFlags, QuietStep DEF Refresh
<1> QED
  BY <1>2, <1>3, <1>4, <1>5

\* The status snapshot notices a record that others changed or deleted.
LEMMA StatusInv ==
    ASSUME WorkbenchInv, NEW s \in Sessions, Status(s)
    PROVE  WorkbenchInv'
<1> DEFINE x == session[s]
<1>1. x \in Session /\ FlagsHold(x, history) /\ "storage" \in Steps
  BY DEF WorkbenchInv, TypeOK, Steps
<1>2. PICK found \in Found(x) :
         \/ session' = [session EXCEPT ![s] = [x EXCEPT !.step = "storage"]]
         \/ session' = [session EXCEPT ![s] = [Again(x) EXCEPT !.step = "refresh"]]
         \/ /\ found # x.saved
            /\ session' = [session EXCEPT ![s] = [Revalidated(x, found) EXCEPT !.step = "storage"]]
  BY DEF Status
<1>3. CASE session' = [session EXCEPT ![s] = [x EXCEPT !.step = "storage"]]
  <2> DEFINE y == [x EXCEPT !.step = "storage"]
  <2>1. y \in Session /\ y.state = x.state
    BY <1>1 DEF Session
  <2>2. FlagsHold(y, history)
    BY <1>1 DEF Session, Status, FlagsHold, SavedIsShown, SavedIsRemembered, AutosaveDone,
       ClickHolds, PendingInput
  <2> HIDE DEF y
  <2> QED
    BY <1>3, <2>1, <2>2, QuietStep DEF Status, y
<1>4. CASE session' = [session EXCEPT ![s] = [Again(x) EXCEPT !.step = "refresh"]]
  <2> DEFINE y == [Again(x) EXCEPT !.step = "refresh"]
  <2>1. y \in Session /\ y.state = x.state
    BY <1>1 DEF Session, Again, Steps, Clicks
  <2>2. FlagsHold(y, history)
    BY <1>1 DEF Session, Again, FlagsHold, SavedIsShown, SavedIsRemembered, AutosaveDone,
       ClickHolds
  <2> HIDE DEF y
  <2> QED
    BY <1>4, <2>1, <2>2, QuietStep DEF Status, y
<1>5. CASE /\ found # x.saved
           /\ session' = [session EXCEPT ![s] = [Revalidated(x, found) EXCEPT !.step = "storage"]]
  <2>1. x.state # Missing
    BY <1>1, <1>5 DEF Found, NothingToCompare, FlagsHold, SavedIsShown, Session
  <2>2. [Revalidated(x, found) EXCEPT !.step = "storage"].state = x.state
    BY <1>1, <2>1, RevalidatedFlags DEF Revalidated, Gone, Unverified, Conflicting, Session
  <2> QED
    BY <1>1, <1>5, <2>1, <2>2, RevalidatedFlags, QuietStep DEF Status
<1> QED
  BY <1>2, <1>3, <1>4, <1>5

-----------------------------------------------------------------------------
(* Steps that save.                                                        *)

\* An attempt to save has saved, or the session keeps what it could not save.
LEMMA PersistOutcome ==
    ASSUME NEW x \in Session, NEW content \in Content, NEW y \in Persist(x, content),
           Written(y, content)
    PROVE  \/ /\ y = Clean(x, content) /\ record = x.saved
              /\ record' = content /\ history' = history \union {content}
           \/ /\ \E c \in BOOLEAN : y = [x EXCEPT !.failed = content, !.conflict = c]
              /\ y.failed = content /\ y.failed # Missing
              /\ UNCHANGED <<record, history>>
BY ContentIsSomething DEF Persist, NotSaved, Written, Clean, Session

\* A session step that saves what the session shows, with at most one more event.
LEMMA SavingStep ==
    ASSUME WorkbenchInv, NEW s \in Sessions, NEW y \in Session, NEW content \in Content,
           session' = [session EXCEPT ![s] = y], record' = content,
           history' = history \union {content},
           used \subseteq used', used' \subseteq Events,
           \A e \in content : Source(s, e),
           y.state = content, y.saved = content, y.click \in {"none", "mutate"}
    PROVE  WorkbenchInv'
<1>1. FlagsHold(y, history')
  BY ContentIsSomething DEF FlagsHold, SavedIsShown, SavedIsRemembered, AutosaveDone, ClickHolds
<1>2. /\ history \subseteq history' /\ history' \subseteq Content
      /\ \A S \in history' \ history : \A e \in S : Source(s, e)
      /\ y.state # Missing => \A e \in y.state : Source(s, e)
      /\ record' \in MaybeContent
      /\ record' # Missing => record' \in history'
      /\ y.state \in history'
  BY DEF WorkbenchInv, TypeOK, MaybeContent
<1> QED
  BY <1>1, <1>2, SessionStep

\* What is saved joins the record; what fails or is refused is marked as such.
LEMMA AutosaveInv ==
    ASSUME WorkbenchInv, NEW s \in Sessions, Autosave(s)
    PROVE  WorkbenchInv'
<1>0. PICK x \in Session : x = session[s]
  BY DEF WorkbenchInv, TypeOK
<1>1. x \in Session /\ FlagsHold(x, history) /\ "handler" \in Steps /\ UNCHANGED used
  BY <1>0 DEF WorkbenchInv, TypeOK, Steps, Autosave
<1>2. CASE Autosaves(x)
  <2>1. x.state \in Content
    BY <1>1, <1>2 DEF Autosaves, Session, MaybeContent
  <2>2. PICK p \in Persist(x, x.state) :
           Written(p, x.state) /\ session' = [session EXCEPT ![s] = [p EXCEPT !.step = "handler"]]
    BY <1>0, <1>2 DEF Autosave
  <2> DEFINE y == [p EXCEPT !.step = "handler"]
  <2>3. CASE /\ p = Clean(x, x.state)
             /\ record' = x.state /\ history' = history \union {x.state}
    <3>1. y \in Session /\ y.state = x.state /\ y.saved = x.state /\ y.click = x.click
      BY <1>1, <2>1, <2>3 DEF Clean, Session, MaybeContent
    <3>2. FlagsHold(y, history')
      BY <1>1, <1>2, <2>1, <2>3, ContentIsSomething
         DEF Autosaves, Clean, Session, FlagsHold, SavedIsShown, SavedIsRemembered,
             AutosaveDone, ClickHolds
    <3>3. /\ history \subseteq history' /\ history' \subseteq Content
          /\ \A S \in history' \ history : \A e \in S : Source(s, e)
          /\ \A e \in y.state : Source(s, e)
          /\ record' \in MaybeContent
          /\ record' # Missing => record' \in history'
          /\ y.state \in history'
          /\ used \subseteq used' /\ used' \subseteq Events
      BY <1>0, <1>1, <2>1, <2>3, <3>1, ContentIsSomething
         DEF WorkbenchInv, TypeOK, MaybeContent, Source
    <3>4. session' = [session EXCEPT ![s] = y]
      BY <2>2
    <3> HIDE DEF y
    <3> QED
      BY <3>1, <3>2, <3>3, <3>4, SessionStep
  <2>4. CASE /\ \E c \in BOOLEAN : p = [x EXCEPT !.failed = x.state, !.conflict = c]
             /\ UNCHANGED <<record, history>>
    <3>1. y \in Session /\ y.state = x.state
      BY <1>1, <2>1, <2>4 DEF Session, MaybeContent
    <3>2. FlagsHold(y, history)
      BY <1>1, <1>2, <2>4
         DEF Autosaves, Session, FlagsHold, SavedIsShown, SavedIsRemembered,
             AutosaveDone, ClickHolds
    <3>3. session' = [session EXCEPT ![s] = y]
      BY <2>2
    <3> HIDE DEF y
    <3> QED
      BY <1>0, <1>1, <2>4, <3>1, <3>2, <3>3, QuietStep
  <2>5. \/ /\ p = Clean(x, x.state)
           /\ record' = x.state /\ history' = history \union {x.state}
        \/ /\ \E c \in BOOLEAN : p = [x EXCEPT !.failed = x.state, !.conflict = c]
           /\ p.failed # Missing
           /\ UNCHANGED <<record, history>>
    BY <1>1, <2>1, <2>2, PersistOutcome
  <2> QED
    BY <2>3, <2>4, <2>5
<1>3. CASE ~Autosaves(x)
  <2> DEFINE y == [x EXCEPT !.step = "handler"]
  <2>1. y \in Session /\ y.state = x.state
    BY <1>1 DEF Session
  <2>2. FlagsHold(y, history)
    BY <1>1, <1>3 DEF Autosaves, Session, FlagsHold, SavedIsShown, SavedIsRemembered,
       AutosaveDone, ClickHolds, PendingInput
  <2>3. session' = [session EXCEPT ![s] = y] /\ UNCHANGED <<record, used, history>>
    BY <1>0, <1>3 DEF Autosave
  <2> HIDE DEF y
  <2> QED
    BY <1>0, <2>1, <2>2, <2>3, QuietStep
<1> QED
  BY <1>2, <1>3

\* "Save now" also saves again what was deleted, and only that.
LEMMA StorageInv ==
    ASSUME WorkbenchInv, NEW s \in Sessions, Storage(s)
    PROVE  WorkbenchInv'
<1>0. PICK x \in Session : x = session[s]
  BY DEF WorkbenchInv, TypeOK
<1>1. x \in Session /\ FlagsHold(x, history) /\ {"idle", "refresh"} \subseteq Steps
      /\ "none" \in Clicks /\ x.step = "storage" /\ UNCHANGED used
  BY <1>0 DEF WorkbenchInv, TypeOK, Steps, Clicks, Storage
<1>2. CASE x.click = "save"
  <2>1. x.state \in Content
    BY <1>1, <1>2 DEF FlagsHold, ClickHolds, Session, MaybeContent
  <2>2. PICK p \in Persist(x, x.state) :
          /\ Written(p, x.state)
          /\ session' = [session EXCEPT ![s] =
                IF p.failed = Missing THEN Again(p)
                ELSE [p EXCEPT !.step = "idle", !.click = "none"]]
    BY <1>0, <1>2 DEF Storage
  <2>3. CASE /\ p = Clean(x, x.state)
             /\ record' = x.state /\ history' = history \union {x.state}
    <3> DEFINE y == Again(p)
    <3>1. /\ y \in Session /\ y.state = x.state /\ y.saved = x.state /\ y.click = "none"
          /\ p.failed = Missing
      BY <1>1, <2>1, <2>3 DEF Clean, Again, Session, MaybeContent, Steps, Clicks
    <3>2. session' = [session EXCEPT ![s] = y]
      BY <2>2, <3>1
    <3>3. \A e \in x.state : Source(s, e)
      BY <1>0, <2>1, ContentIsSomething DEF Source
    <3>4. used \subseteq used' /\ used' \subseteq Events
      BY <1>1 DEF WorkbenchInv, TypeOK
    <3> HIDE DEF y
    <3> QED
      BY <2>1, <2>3, <3>1, <3>2, <3>3, <3>4, SavingStep
  <2>4. CASE /\ \E c \in BOOLEAN : p = [x EXCEPT !.failed = x.state, !.conflict = c]
             /\ p.failed # Missing
             /\ UNCHANGED <<record, history>>
    <3> DEFINE y == [p EXCEPT !.step = "idle", !.click = "none"]
    <3>1. y \in Session /\ y.state = x.state
      BY <1>1, <2>1, <2>4 DEF Session, MaybeContent, Steps, Clicks
    <3>2. FlagsHold(y, history)
      BY <1>1, <1>2, <2>4
         DEF Session, FlagsHold, SavedIsShown, SavedIsRemembered, AutosaveDone, ClickHolds
    <3>3. session' = [session EXCEPT ![s] = y]
      BY <2>2, <2>4
    <3> HIDE DEF y
    <3> QED
      BY <1>0, <1>1, <2>4, <3>1, <3>2, <3>3, QuietStep
  <2>5. \/ /\ p = Clean(x, x.state)
           /\ record' = x.state /\ history' = history \union {x.state}
        \/ /\ \E c \in BOOLEAN : p = [x EXCEPT !.failed = x.state, !.conflict = c]
           /\ p.failed # Missing
           /\ UNCHANGED <<record, history>>
    BY <2>1, <2>2, PersistOutcome
  <2> QED
    BY <2>3, <2>4, <2>5
<1>3. CASE x.click # "save"
  <2> DEFINE y == [x EXCEPT !.step = "idle"]
  <2>1. y \in Session /\ y.state = x.state
    BY <1>1 DEF Session
  <2>2. FlagsHold(y, history)
    BY <1>1 DEF Session, FlagsHold, SavedIsShown, SavedIsRemembered, AutosaveDone,
       ClickHolds, PendingInput
  <2>3. session' = [session EXCEPT ![s] = y] /\ UNCHANGED <<record, used, history>>
    BY <1>0, <1>3 DEF Storage
  <2> HIDE DEF y
  <2> QED
    BY <1>0, <2>1, <2>2, <2>3, QuietStep
<1> QED
  BY <1>2, <1>3

-----------------------------------------------------------------------------
(* Handlers.                                                               *)

\* A handler that finds nothing to do.
LEMMA NotHandledInv ==
    ASSUME WorkbenchInv, NEW s \in Sessions, NotHandled(s)
    PROVE  WorkbenchInv'
<1> DEFINE x == session[s]
           y == [x EXCEPT !.step = "status", !.click = IF @ = "save" THEN @ ELSE "none"]
<1>1. x \in Session /\ FlagsHold(x, history)
  BY DEF WorkbenchInv, TypeOK
<1>2. session' = [session EXCEPT ![s] = y] /\ x.step = "handler"
  BY <1>1 DEF NotHandled, WorkbenchInv, TypeOK, Session
<1>3. y \in Session /\ y.state = x.state
  BY <1>1 DEF Session, Steps, Clicks
<1>4. FlagsHold(y, history)
  BY <1>1, <1>2 DEF Session, FlagsHold, SavedIsShown, SavedIsRemembered, AutosaveDone,
     ClickHolds, PendingInput
<1> HIDE DEF y
<1> QED
  BY <1>2, <1>3, <1>4, QuietStep DEF NotHandled

\* An event of the open review that nobody has yet is new to every record.
LEMMA NewEvent ==
    ASSUME WorkbenchInv, NEW e \in Events, e \notin used, NEW S \in history
    PROVE  e \notin S
BY DEF WorkbenchInv, OnlyUsed

\* The handlers. A new review has an event that nobody else has.
LEMMA StartReviewInv ==
    ASSUME WorkbenchInv, NEW s \in Sessions, NEW e \in Events, StartReview(s, e)
    PROVE  WorkbenchInv'
<1> DEFINE x == session[s]
           y == Again([x EXCEPT !.state = {e}])
<1>1. x \in Session /\ FlagsHold(x, history) /\ x.state = Missing /\ e \notin used
  BY DEF WorkbenchInv, TypeOK, StartReview, Handled, FlagsHold, ClickHolds
<1>2. /\ session' = [session EXCEPT ![s] = y]
      /\ UNCHANGED <<record, history>> /\ used = {} /\ used' = {e}
  BY DEF StartReview, Handled
<1>3. {e} \in Content /\ {e} \notin history
  BY <1>1, NewEvent DEF Content
<1>4. y \in Session /\ y.state = {e}
  BY <1>1, <1>3 DEF Session, Steps, Clicks, Again, MaybeContent
<1>5. FlagsHold(y, history)
  BY <1>1, <1>3, <1>4, ContentIsSomething
     DEF Session, Again, FlagsHold, SavedIsShown, SavedIsRemembered, AutosaveDone, ClickHolds
<1>6. /\ used \subseteq used' /\ used' \subseteq Events
      /\ history \subseteq history' /\ history' \subseteq Content
      /\ \A S \in history' \ history : \A f \in S : Source(s, f)
      /\ y.state # Missing => \A f \in y.state : Source(s, f)
      /\ record' \in MaybeContent
      /\ record' # Missing => record' \in history'
      /\ history' = history
      /\ \E f \in y.state : f \notin used
  BY <1>1, <1>2, <1>4 DEF WorkbenchInv, TypeOK, RecordWasSaved, Source
<1> HIDE DEF y
<1> QED
  BY <1>2, <1>4, <1>5, <1>6, SessionStep

LEMMA DecideInv ==
    ASSUME WorkbenchInv, NEW s \in Sessions, NEW e \in Events, Decide(s, e)
    PROVE  WorkbenchInv'
<1> DEFINE x == session[s]
<1>1. /\ x \in Session /\ FlagsHold(x, history) /\ x.state \in Content /\ e \notin used
      /\ e \notin x.state
  BY DEF WorkbenchInv, TypeOK, OnlyUsed, Decide, Handled, FlagsHold, ClickHolds, Session,
     MaybeContent
<1>2. PICK left \in SUBSET x.drafts :
         session' = [session EXCEPT ![s] =
            Again([Extended(x, x.state \union {e}) EXCEPT !.drafts = left \ {"note"}])]
  BY DEF Decide, Handled
<1> DEFINE y == Again([Extended(x, x.state \union {e}) EXCEPT !.drafts = left \ {"note"}])
<1>3. x.state \union {e} \in Content /\ x.state \union {e} \notin history
  BY <1>1, NewEvent DEF Content
<1>4. /\ y \in Session /\ y.state = x.state \union {e}
       /\ y.saved = x.saved /\ y.step = "refresh" /\ y.click = "none"
  BY <1>1, <1>3 DEF Session, Steps, Clicks, Again, Extended, MaybeContent
<1> HIDE DEF y
<1>5. FlagsHold(y, history)
  BY <1>1, <1>3, <1>4, ContentIsSomething
     DEF FlagsHold, SavedIsShown, SavedIsRemembered, AutosaveDone, ClickHolds
<1>6. /\ used \subseteq used' /\ used' \subseteq Events
      /\ history \subseteq history' /\ history' \subseteq Content
      /\ \A S \in history' \ history : \A f \in S : Source(s, f)
      /\ y.state # Missing => \A f \in y.state : Source(s, f)
      /\ record' \in MaybeContent
      /\ record' # Missing => record' \in history'
      /\ history' = history
      /\ \E f \in y.state : f \notin used
  BY <1>1, <1>4, ContentIsSomething
     DEF WorkbenchInv, TypeOK, RecordWasSaved, Source, Decide
<1>7. session' = [session EXCEPT ![s] = y]
  BY <1>2 DEF y
<1> QED
  BY <1>4, <1>5, <1>6, <1>7, SessionStep

LEMMA AcceptWithNoteInv ==
    ASSUME WorkbenchInv, NEW s \in Sessions, NEW e \in Events, AcceptWithNote(s, e)
    PROVE  WorkbenchInv'
<1>0. PICK x \in Session : x = session[s]
  BY DEF WorkbenchInv, TypeOK
<1>1. /\ FlagsHold(x, history) /\ x.state \in Content /\ e \notin used
      /\ used' = used \union {e} /\ ~NoteBlocked(x)
  BY <1>0 DEF WorkbenchInv, AcceptWithNote, FlagsHold, ClickHolds, Session, MaybeContent
<1>2. PICK accepted \in Content : accepted = x.state \union {e}
  BY <1>1 DEF Content
<1>3. PICK p \in Persist(x, accepted) :
        /\ Written(p, accepted)
        /\ session' = [session EXCEPT ![s] =
              IF p.failed = Missing THEN Again([p EXCEPT !.state = accepted, !.drafts = {}])
              ELSE [p EXCEPT !.step = "status", !.click = "none"]]
  BY <1>0, <1>2 DEF AcceptWithNote
<1>4. used \subseteq used' /\ used' \subseteq Events
  BY <1>1 DEF WorkbenchInv, TypeOK
<1>5. CASE /\ p = Clean(x, accepted)
           /\ record' = accepted /\ history' = history \union {accepted}
  <2> DEFINE y == Again([p EXCEPT !.state = accepted, !.drafts = {}])
  <2>1. /\ y \in Session /\ y.state = accepted /\ y.saved = accepted /\ y.click = "none"
        /\ p.failed = Missing
    BY <1>0, <1>2, <1>5 DEF Clean, Again, Session, MaybeContent, Steps, Clicks
  <2>2. session' = [session EXCEPT ![s] = y]
    BY <1>3, <2>1
  <2>3. \A f \in accepted : Source(s, f)
    BY <1>0, <1>1, <1>2, ContentIsSomething DEF Source
  <2> HIDE DEF y
  <2> QED
    BY <1>2, <1>4, <1>5, <2>1, <2>2, <2>3, SavingStep
<1>6. CASE /\ \E c \in BOOLEAN : p = [x EXCEPT !.failed = accepted, !.conflict = c]
           /\ p.failed # Missing
           /\ UNCHANGED <<record, history>>
  <2> DEFINE y == [p EXCEPT !.step = "status", !.click = "none"]
  <2>1. y \in Session /\ y.state = x.state
    BY <1>0, <1>2, <1>6 DEF Session, MaybeContent, Steps, Clicks
  <2>2. /\ y.saved = x.saved /\ y.deleted = Missing /\ x.deleted = Missing
        /\ y.drafts = {"note"} /\ y.click = "none" /\ ~x.conflict
    BY <1>0, <1>1, <1>6 DEF Session, NoteBlocked
  <2>3. FlagsHold(y, history)
    BY <1>1, <2>1, <2>2, ContentIsSomething
       DEF FlagsHold, SavedIsShown, SavedIsRemembered, AutosaveDone, ClickHolds, PendingInput
  <2>4. session' = [session EXCEPT ![s] = y]
    BY <1>3, <1>6
  <2> HIDE DEF y
  <2>5. /\ history \subseteq history' /\ history' \subseteq Content
        /\ \A S \in history' \ history : \A f \in S : Source(s, f)
        /\ y.state # Missing => \A f \in y.state : Source(s, f)
        /\ record' \in MaybeContent
        /\ record' # Missing => record' \in history'
        /\ history' = history
    BY <1>0, <1>6, <2>1 DEF WorkbenchInv, TypeOK, RecordWasSaved, Source
  <2>6. \/ y.state \in history'
        \/ /\ session[s].state # Missing
           /\ session[s].state \notin history
           /\ session[s].state \subseteq y.state
    BY <1>0, <1>1, <1>6, <2>1, ContentIsSomething
  <2> QED
    BY <1>4, <2>1, <2>3, <2>4, <2>5, <2>6, SessionStep
<1>7. \/ /\ p = Clean(x, accepted)
         /\ record' = accepted /\ history' = history \union {accepted}
      \/ /\ \E c \in BOOLEAN : p = [x EXCEPT !.failed = accepted, !.conflict = c]
         /\ p.failed # Missing
         /\ UNCHANGED <<record, history>>
  BY <1>3, PersistOutcome
<1> QED
  BY <1>5, <1>6, <1>7

LEMMA MutateInv ==
    ASSUME WorkbenchInv, NEW s \in Sessions, NEW e \in Events, Mutate(s, e)
    PROVE  WorkbenchInv'
<1> DEFINE x == session[s]
<1>1. x \in Session /\ record \in Content /\ record \in history /\ used' = used \union {e}
      /\ e \notin used
  BY DEF WorkbenchInv, TypeOK, RecordWasSaved, Mutate, MaybeContent
<1>2. PICK updated \in Content : updated = record \union {e}
  BY <1>1 DEF Content
<1> DEFINE y == Again([Extended(x, updated) EXCEPT !.saved = updated, !.failed = Missing,
                                                   !.conflict = FALSE])
<1>3. y \in Session /\ y.state = updated /\ y.saved = updated /\ y.click = "none"
  BY <1>1 DEF Again, Extended, Session, MaybeContent, Steps, Clicks
<1>4. /\ session' = [session EXCEPT ![s] = y] /\ record' = updated
      /\ history' = history \union {updated}
  BY <1>2 DEF Mutate
<1>5. /\ \A f \in updated : Source(s, f)
      /\ used \subseteq used' /\ used' \subseteq Events
  BY <1>1, <1>2 DEF Source, WorkbenchInv, TypeOK
<1> HIDE DEF y
<1> QED
  BY <1>3, <1>4, <1>5, SavingStep

LEMMA ReopenInv ==
    ASSUME WorkbenchInv, NEW s \in Sessions, Reopen(s)
    PROVE  WorkbenchInv'
<1> DEFINE x == session[s]
           y == Again(Hydrated(x, record))
<1>1. x \in Session /\ record \in Content /\ record \in history
  BY DEF WorkbenchInv, TypeOK, RecordWasSaved, Reopen, MaybeContent
<1>2. y \in Session /\ y.state = record /\ y.saved = record /\ y.step = "refresh"
      /\ y.click = "none"
  BY <1>1 DEF Again, Hydrated, Clean, Session, MaybeContent, Steps, Clicks
<1>3. FlagsHold(y, history)
  BY <1>1, <1>2, ContentIsSomething
     DEF FlagsHold, SavedIsShown, SavedIsRemembered, AutosaveDone, ClickHolds
<1>4. session' = [session EXCEPT ![s] = y] /\ UNCHANGED <<record, used, history>>
  BY DEF Reopen
<1> HIDE DEF y
<1> QED
  BY <1>1, <1>2, <1>3, <1>4, QuietStep

LEMMA DeleteSavedInv ==
    ASSUME WorkbenchInv, NEW s \in Sessions, DeleteSaved(s)
    PROVE  WorkbenchInv'
<1> DEFINE x == session[s]
<1>1. x \in Session /\ FlagsHold(x, history)
  BY DEF WorkbenchInv, TypeOK
<1>2. PICK m \in {x, MarkedDeleted(x)} :
        /\ session' = [session EXCEPT ![s] = Again(m)]
        /\ m = MarkedDeleted(x) => x.state # Missing \/ m = x
        /\ record' \in {record, Missing} /\ UNCHANGED <<used, history>>
  BY DEF DeleteSaved, Handled
<1> DEFINE y == Again(m)
<1>3. y \in Session /\ y.state = x.state /\ y.step = "refresh" /\ y.click = "none"
  BY <1>1 DEF Again, MarkedDeleted, Gone, Session, MaybeContent, Steps, Clicks
<1>4. FlagsHold(y, history)
  BY <1>1, <1>2, <1>3
     DEF Again, MarkedDeleted, Gone, Session, FlagsHold, SavedIsShown, SavedIsRemembered,
         AutosaveDone, ClickHolds
<1>5. session' = [session EXCEPT ![s] = y]
  BY <1>2
<1> HIDE DEF y
<1> QED
  BY <1>2, <1>3, <1>4, <1>5, QuietStep

LEMMA ReplaceReviewInv ==
    ASSUME WorkbenchInv, NEW s \in Sessions, ReplaceReview(s)
    PROVE  WorkbenchInv'
<1> DEFINE y == Again(Blank)
<1>1. y \in Session /\ y.state = Missing
  BY DEF Again, Blank, Session, MaybeContent, Steps, Clicks
<1>2. FlagsHold(y, history)
  BY DEF Again, Blank, FlagsHold, SavedIsShown, SavedIsRemembered, AutosaveDone, ClickHolds
<1>3. session' = [session EXCEPT ![s] = y] /\ UNCHANGED <<record, used, history>>
  BY DEF ReplaceReview, Handled
<1> HIDE DEF y
<1> QED
  BY <1>1, <1>2, <1>3, QuietStep

-----------------------------------------------------------------------------
(* The user and the outside.                                               *)

\* The user comes back: the page offers what it offered.
LEMMA RerunInv ==
    ASSUME WorkbenchInv, NEW s \in Sessions, NEW click \in Clicks, NEW drafts \in SUBSET Drafts,
           Rerun(s, click, drafts)
    PROVE  WorkbenchInv'
<1> DEFINE x == session[s]
<1>1. x \in Session /\ FlagsHold(x, history) /\ x.step = "idle" /\ Offered(x, click)
      /\ UNCHANGED <<record, used, history>>
  BY DEF WorkbenchInv, TypeOK, Rerun
<1>2. PICK available \in BOOLEAN :
         session' = [session EXCEPT ![s].step = "refresh", ![s].click = click,
                                    ![s].drafts = drafts, ![s].available = available]
  BY DEF Rerun
<1> DEFINE y == [x EXCEPT !.step = "refresh", !.click = click, !.drafts = drafts,
                          !.available = available]
<1>3. session' = [session EXCEPT ![s] = y]
  BY <1>2 DEF WorkbenchInv, TypeOK, Session
<1>4. /\ y \in Session /\ y.state = x.state /\ y.step = "refresh" /\ y.click = click
      /\ y.saved = x.saved /\ y.failed = x.failed /\ y.deleted = x.deleted
      /\ y.conflict = x.conflict
  BY <1>1 DEF Session, Steps, Clicks
<1>5. ClickHolds(y, history)
  <2>1. CASE click = "save"
    BY <1>1, <1>4, <2>1
       DEF Offered, SaveOffered, MatchesSave, FlagsHold, SavedIsRemembered, AutosaveDone,
           ClickHolds
  <2>2. CASE click = "mutate"
    BY <1>1, <1>4, <2>2, ContentIsSomething
       DEF Offered, MatchesSave, FlagsHold, SavedIsShown, ClickHolds
  <2>3. CASE click \notin {"save", "mutate"}
    BY <1>1, <1>4, <2>3 DEF Offered, ClickHolds
  <2> QED
    BY <2>1, <2>2, <2>3
<1> HIDE DEF y
<1>6. FlagsHold(y, history)
  BY <1>1, <1>4, <1>5 DEF FlagsHold, SavedIsShown, SavedIsRemembered, AutosaveDone
<1> QED
  BY <1>1, <1>3, <1>4, <1>6, QuietStep

\* Everything a user does.
LEMMA UserInv ==
    ASSUME WorkbenchInv, NEW s \in Sessions, User(s)
    PROVE  WorkbenchInv'
<1>1. session[s].drafts \in SUBSET Drafts
  BY DEF WorkbenchInv, TypeOK, Session
<1>2. PICK click \in Clicks, drafts \in SUBSET Drafts : Rerun(s, click, drafts)
  BY <1>1 DEF User, Click, Draft, Clicks
<1> QED
  BY <1>2, RerunInv

\* A call beside the sessions: the record may grow by an event nobody has.
LEMMA OutsideStep ==
    ASSUME WorkbenchInv, UNCHANGED session, record' \in MaybeContent,
           used \subseteq used', used' \subseteq Events,
           record' # Missing => record' \in history',
           \/ history' = history
           \/ \E e \in Events \ used : /\ record # Missing /\ e \in used'
                                       /\ history' = history \union {record \union {e}}
    PROVE  WorkbenchInv'
<1>1. TypeOK'
  BY DEF WorkbenchInv, TypeOK, MaybeContent, Content
<1>2. \A S \in history' \ history :
         \A e \in S : e \in used' /\ (e \notin used \/ \E T \in history : e \in T)
  BY DEF WorkbenchInv, OnlyUsed, RecordWasSaved
<1>3. OnlyUsed'
  BY <1>2 DEF WorkbenchInv, OnlyUsed
<1>4. ASSUME NEW t \in Sessions, session[t].state \in history'
      PROVE  session[t].state \in history
  <2>1. session[t].state # Missing
    BY <1>1, <1>4, ContentIsSomething DEF TypeOK
  <2> QED
    BY <1>4, <2>1 DEF WorkbenchInv, OnlyUsed
<1>5. ASSUME NEW t \in Sessions, NEW e \in session[t].state,
             session[t].state # Missing, Private(t, e)
      PROVE  Private(t, e)'
  BY <1>2, <1>5 DEF WorkbenchInv, OnlyUsed, Private
<1>6. history \subseteq history'
  OBVIOUS
<1>7. UnsavedIsPrivate'
  BY <1>5, <1>6 DEF WorkbenchInv, UnsavedIsPrivate
<1>8. \A t \in Sessions : FlagsHold(session[t], history)'
  BY <1>4, <1>6, OthersKeepFlags
<1> QED
  BY <1>1, <1>3, <1>7, <1>8 DEF WorkbenchInv, RecordWasSaved

\* Calls beside the sessions create, extend or delete the record.
LEMMA OutsideInv ==
    ASSUME WorkbenchInv, Outside
    PROVE  WorkbenchInv'
<1>1. /\ record \in MaybeContent /\ used \subseteq Events /\ history \subseteq Content
      /\ record # Missing => record \in Content /\ record \in history
  BY DEF WorkbenchInv, TypeOK, RecordWasSaved, MaybeContent
<1>2. CASE \E e \in Events : CliMutate(e)
  <2>1. PICK e \in Events : CliMutate(e)
    BY <1>2
  <2>2. record \union {e} \in Content
    BY <1>1, <2>1 DEF CliMutate, Content
  <2> QED
    BY <1>1, <2>1, <2>2, OutsideStep DEF CliMutate, MaybeContent
<1>3. CASE CliDelete \/ CliImport
  BY <1>1, <1>3, OutsideStep DEF CliDelete, CliImport, MaybeContent
<1> QED
  BY <1>2, <1>3 DEF Outside

\* Every step keeps the invariant.
LEMMA NextInv == WorkbenchInv /\ [Next]_vars => WorkbenchInv'
<1> SUFFICES ASSUME WorkbenchInv, [Next]_vars PROVE WorkbenchInv'
  OBVIOUS
<1>1. CASE UNCHANGED vars
  BY <1>1, OutsideStep DEF vars, WorkbenchInv, TypeOK, RecordWasSaved
<1>2. ASSUME NEW s \in Sessions, Pass(s) PROVE WorkbenchInv'
  BY <1>2, RefreshInv, AutosaveInv, NotHandledInv, StatusInv, StorageInv, StartReviewInv,
     DecideInv, AcceptWithNoteInv, MutateInv, ReopenInv, DeleteSavedInv, ReplaceReviewInv
     DEF Pass
<1>3. ASSUME NEW s \in Sessions, User(s) PROVE WorkbenchInv'
  BY <1>3, UserInv
<1> QED
  BY <1>1, <1>2, <1>3, OutsideInv DEF Next

\* The invariant holds throughout.
LEMMA WorkbenchInvariant == Spec => []WorkbenchInv
BY InitInv, NextInv, PTL DEF Spec

\* TypeCorrect: every variable holds a value of its type.
THEOREM TypeCorrect == Spec => []TypeOK
<1>1. WorkbenchInv => TypeOK
  BY DEF WorkbenchInv
<1> QED
  BY <1>1, WorkbenchInvariant, PTL

-----------------------------------------------------------------------------
(* The record.                                                             *)

\* A save that goes through creates the record or adds to it.
LEMMA SaveIsCreateOrAdd ==
    ASSUME NEW x \in Session, NEW saves, SavedIsShown(x, saves), NEW content \in Content,
           x.state \subseteq content \/ x.state = Missing,
           NEW y \in Persist(x, content), Written(y, content)
    PROVE  \/ record' = record
           \/ record = Missing /\ record' = content
           \/ record # Missing /\ record' = record \union content
<1>1. CASE record = x.saved /\ record' = content
  BY <1>1 DEF SavedIsShown
<1> QED
  BY <1>1, PersistOutcome

\* What a step can do to the saved record: create it, extend it or delete it.
LEMMA RecordStep ==
    ASSUME WorkbenchInv, Next
    PROVE  \/ record' = record
           \/ record = Missing /\ record' \in Content
           \/ record # Missing /\ \E S \in Content : record' = record \union S
           \/ record # Missing /\ record' = Missing
<1>1. ASSUME NEW s \in Sessions, Autosave(s) \/ Storage(s), record' # record
      PROVE  \/ record = Missing /\ record' \in Content
             \/ record # Missing /\ \E S \in Content : record' = record \union S
  <2>1. PICK x \in Session : x = session[s]
    BY DEF WorkbenchInv, TypeOK
  <2>2. x.state \in Content /\ \E y \in Persist(x, x.state) : Written(y, x.state)
    BY <1>1, <2>1 DEF Autosave, Storage, Autosaves, WorkbenchInv, FlagsHold, ClickHolds,
       Session, MaybeContent
  <2>3. SavedIsShown(x, history)
    BY <2>1 DEF WorkbenchInv, FlagsHold
  <2>4. \/ record' = record
        \/ record = Missing /\ record' = x.state
        \/ record # Missing /\ record' = record \union x.state
    BY <2>2, <2>3, SaveIsCreateOrAdd
  <2> QED
    BY <1>1, <2>2, <2>4
<1>2. ASSUME NEW s \in Sessions, NEW e \in Events, AcceptWithNote(s, e), record' # record
      PROVE  \/ record = Missing /\ record' \in Content
             \/ record # Missing /\ \E S \in Content : record' = record \union S
  <2>1. PICK x \in Session : x = session[s]
    BY DEF WorkbenchInv, TypeOK
  <2>2. x.state \in Content
    BY <1>2, <2>1 DEF AcceptWithNote, WorkbenchInv, FlagsHold, ClickHolds, Session, MaybeContent
  <2>3. PICK accepted \in Content : accepted = x.state \union {e}
    BY <2>2 DEF Content
  <2>4. \E y \in Persist(x, accepted) : Written(y, accepted)
    BY <1>2, <2>1, <2>3 DEF AcceptWithNote
  <2>5. SavedIsShown(x, history)
    BY <2>1 DEF WorkbenchInv, FlagsHold
  <2>6. \/ record' = record
        \/ record = Missing /\ record' = accepted
        \/ record # Missing /\ record' = record \union accepted
    BY <2>3, <2>4, <2>5, SaveIsCreateOrAdd
  <2> QED
    BY <1>2, <2>6
<1>3. ASSUME NEW e \in Events, CliMutate(e) \/ \E s \in Sessions : Mutate(s, e)
      PROVE  record # Missing /\ \E S \in Content : record' = record \union S
  BY <1>3, {e} \in Content DEF CliMutate, Mutate, Content
<1>4. CASE CliDelete \/ CliImport
  BY <1>4 DEF CliDelete, CliImport, WorkbenchInv, TypeOK
<1>5. CASE \E s \in Sessions : DeleteSaved(s)
  BY <1>5 DEF DeleteSaved
<1>6. ASSUME NEW s \in Sessions,
             \/ Refresh(s) \/ NotHandled(s) \/ Status(s) \/ Reopen(s) \/ ReplaceReview(s)
             \/ User(s) \/ \E e \in Events : StartReview(s, e) \/ Decide(s, e)
      PROVE  record' = record
  BY <1>6 DEF Refresh, NotHandled, Status, Reopen, ReplaceReview, User, Click, Draft, Rerun,
     StartReview, Decide
<1> QED
  BY <1>1, <1>2, <1>3, <1>4, <1>5, <1>6 DEF Next, Pass, Outside

\* SessionsKeepRecords: whatever the sessions and the calls beside them do and
\* whichever saves fail, events that reached the saved review stay in it until
\* it is deleted: no stale session overwrites them.
THEOREM SessionsKeepRecords == Spec => RecordsKept
<1>1. Init => Records!Init
  BY DEF Init, Records!Init
<1>2. WorkbenchInv /\ [Next]_vars => [Records!Next]_([id \in {"review"} |-> record])
  <2> SUFFICES ASSUME WorkbenchInv, [Next]_vars, record' # record PROVE Records!Next
    BY DEF vars
  <2>1. \/ record = Missing /\ record' \in Content
        \/ record # Missing /\ \E S \in Content : record' = record \union S
        \/ record # Missing /\ record' = Missing
    BY RecordStep DEF vars
  <2>2. CASE record = Missing /\ record' \in Content
    <3>1. Records!Create("review", record')
      BY <2>2 DEF Records!Create
    <3> QED
      BY <2>2, <3>1 DEF Records!Next, Content
  <2>3. CASE record # Missing /\ \E S \in Content : record' = record \union S
    <3>1. PICK S \in Content : record' = record \union S
      BY <2>3
    <3>2. Records!Add("review", S)
      BY <2>3, <3>1 DEF Records!Add
    <3> QED
      BY <3>2 DEF Records!Next, Content
  <2>4. CASE record # Missing /\ record' = Missing
    <3>1. Records!Delete("review")
      BY <2>4 DEF Records!Delete
    <3> QED
      BY <3>1 DEF Records!Next
  <2> QED
    BY <2>1, <2>2, <2>3, <2>4
<1> QED
  BY <1>1, <1>2, WorkbenchInvariant, PTL DEF Spec, RecordsKept, Records!Spec

-----------------------------------------------------------------------------
(* The work of a session.                                                  *)

\* A step changes the session it is a step of, and no other.
LEMMA OneSession ==
    ASSUME WorkbenchInv, NEW s \in Sessions, Pass(s) \/ User(s)
    PROVE  \A t \in Sessions \ {s} : session'[t] = session[t]
<1>1. \E y : session' = [session EXCEPT ![s] = y]
  <2>1. CASE User(s) \/ NotHandled(s)
    BY <2>1 DEF User, Click, Draft, Rerun, NotHandled
  <2>2. CASE Refresh(s) \/ Status(s) \/ Autosave(s) \/ Storage(s)
    BY <2>2 DEF Refresh, Status, Autosave, Storage
  <2>3. CASE \/ Reopen(s) \/ DeleteSaved(s) \/ ReplaceReview(s)
             \/ \E e \in Events : StartReview(s, e) \/ Decide(s, e) \/ Mutate(s, e)
    BY <2>3 DEF Reopen, DeleteSaved, ReplaceReview, StartReview, Decide, Mutate, Handled
  <2>4. CASE \E e \in Events : AcceptWithNote(s, e)
    BY <2>4 DEF AcceptWithNote
  <2> QED
    BY <2>1, <2>2, <2>3, <2>4 DEF Pass
<1> QED
  BY <1>1 DEF WorkbenchInv, TypeOK

\* What UnsavedWorkKept says of a step of session s.
Kept(s) ==
    \/ session[s].state = Missing \/ session[s].state \in history
    \/ session[s].click \in {"reopen", "replace"}
    \/ session'[s].state # Missing /\ session[s].state \subseteq session'[s].state

\* Saving, however it goes, leaves the state of the session alone.
LEMMA PersistKeepsState ==
    ASSUME NEW x \in Session, NEW content \in Content, NEW y \in Persist(x, content)
    PROVE  y \in Session /\ y.state = x.state
<1>1. \/ y = Clean(x, content)
      \/ \E c \in BOOLEAN : y = [x EXCEPT !.failed = content, !.conflict = c]
  BY DEF Persist, NotSaved
<1> QED
  BY <1>1 DEF Clean, Session, MaybeContent

\* No step of a session takes what it has not saved.
LEMMA StepKeepsWork ==
    ASSUME WorkbenchInv, NEW s \in Sessions, Pass(s) \/ User(s)
    PROVE  Kept(s)
<1>0. PICK x \in Session : x = session[s]
  BY DEF WorkbenchInv, TypeOK
<1>1. SUFFICES ASSUME x.state # Missing, x.state \notin history,
                      x.click \notin {"reopen", "replace", "start", "mutate"}
               PROVE  session'[s].state # Missing /\ x.state \subseteq session'[s].state
  BY <1>0 DEF Kept, WorkbenchInv, FlagsHold, ClickHolds
<1>2. x.state \in Content /\ session \in [Sessions -> Session]
  BY <1>1 DEF Session, MaybeContent, WorkbenchInv, TypeOK
<1>3. CASE Refresh(s)
  <2>1. PICK found \in Found(x) :
          \/ session'[s] = [x EXCEPT !.step = "autosave"]
          \/ External(x, found)
          \/ session'[s] = [Revalidated(x, found) EXCEPT !.step = "autosave"]
    BY <1>0, <1>2, <1>3 DEF Refresh
  <2>2. ~External(x, found)
    BY <1>0, <1>1, FoundType DEF MatchesSave, WorkbenchInv, FlagsHold, SavedIsShown
  <2> QED
    BY <1>1, <2>1, <2>2 DEF Revalidated, Gone, Unverified, Conflicting, Session
<1>4. CASE Status(s)
  <2>1. PICK found \in Found(x) :
          \/ session'[s] = [x EXCEPT !.step = "storage"]
          \/ session'[s] = [Again(x) EXCEPT !.step = "refresh"]
          \/ session'[s] = [Revalidated(x, found) EXCEPT !.step = "storage"]
    BY <1>0, <1>2, <1>4 DEF Status
  <2> QED
    BY <1>1, <2>1 DEF Again, Revalidated, Gone, Unverified, Conflicting, Session
<1>5. CASE Autosave(s) \/ Storage(s)
  <2>1. \/ \E step \in Steps : session'[s] = [x EXCEPT !.step = step]
        \/ \E y \in Persist(x, x.state) :
             \/ session'[s] = Again(y)
             \/ session'[s] = [y EXCEPT !.step = "handler"]
             \/ session'[s] = [y EXCEPT !.step = "idle", !.click = "none"]
    BY <1>0, <1>2, <1>5 DEF Autosave, Storage, Steps
  <2>2. \A y \in Persist(x, x.state) : y \in Session /\ y.state = x.state
    BY <1>2, PersistKeepsState
  <2> QED
    BY <1>1, <2>1, <2>2 DEF Again, Session
<1>6. CASE \E e \in Events : AcceptWithNote(s, e)
  <2>1. PICK e \in Events : AcceptWithNote(s, e)
    BY <1>6
  <2>2. PICK accepted \in Content : accepted = x.state \union {e}
    BY <1>2 DEF Content
  <2>3. PICK y \in Persist(x, accepted) :
          \/ session'[s] = Again([y EXCEPT !.state = accepted, !.drafts = {}])
          \/ session'[s] = [y EXCEPT !.step = "status", !.click = "none"]
    BY <1>0, <1>2, <2>1, <2>2 DEF AcceptWithNote
  <2>4. y \in Session /\ y.state = x.state
    BY PersistKeepsState
  <2>5. session'[s].state \in {x.state, accepted}
    BY <2>3, <2>4 DEF Again, Session
  <2> QED
    BY <1>1, <2>2, <2>5, ContentIsSomething
<1>7. CASE \E e \in Events : Decide(s, e)
  <2>1. PICK e \in Events : Decide(s, e)
    BY <1>7
  <2>2. PICK decided \in Content : decided = x.state \union {e}
    BY <1>2 DEF Content
  <2>3. \E left : session'[s] = Again([Extended(x, decided) EXCEPT !.drafts = left])
    BY <1>0, <1>2, <2>1, <2>2 DEF Decide, Handled
  <2>4. session'[s].state = decided
    BY <2>3 DEF Extended, Again, Session
  <2> QED
    BY <2>2, <2>4, ContentIsSomething
<1>8. CASE DeleteSaved(s)
  <2>1. session'[s] = Again(x) \/ session'[s] = Again(MarkedDeleted(x))
    BY <1>0, <1>2, <1>8 DEF DeleteSaved, Handled
  <2> QED
    BY <1>1, <2>1 DEF MarkedDeleted, Gone, Again, Session
<1>9. CASE NotHandled(s) \/ User(s)
  <2>1. CASE NotHandled(s)
    BY <1>0, <1>1, <1>2, <2>1 DEF NotHandled, Session
  <2>2. CASE User(s)
    <3>1. PICK click, drafts : Rerun(s, click, drafts)
      BY <2>2 DEF User, Click, Draft
    <3> QED
      BY <1>0, <1>1, <1>2, <3>1 DEF Rerun, Session
  <2> QED
    BY <1>9, <2>1, <2>2
<1> QED
  BY <1>0, <1>1, <1>3, <1>4, <1>5, <1>6, <1>7, <1>8, <1>9
     DEF Pass, Reopen, ReplaceReview, StartReview, Mutate, Handled

\* SessionsKeepWork: no refresh of the page, no failed or refused save and no
\* handler but the ones that replace the review takes work from a session that
\* is not in the store.
THEOREM SessionsKeepWork == Spec => UnsavedWorkKept
<1>1. ASSUME WorkbenchInv, [Next]_vars, NEW s \in Sessions PROVE Kept(s)
  <2>1. CASE Pass(s) \/ User(s)
    BY <1>1, <2>1, StepKeepsWork
  <2>2. CASE session'[s] = session[s]
    BY <2>2 DEF Kept
  <2>3. CASE Outside \/ UNCHANGED vars
    BY <2>2, <2>3 DEF Outside, CliMutate, CliDelete, CliImport, vars
  <2>4. ASSUME NEW t \in Sessions \ {s}, Pass(t) \/ User(t) PROVE session'[s] = session[s]
    BY <1>1, <2>4, OneSession
  <2> QED
    BY <1>1, <2>1, <2>2, <2>3, <2>4 DEF Next
<1>2. WorkbenchInv /\ [Next]_vars =>
        [\A s \in Sessions :
           LET x == session[s] IN
           \/ x.state = Missing \/ x.state \in history
           \/ x.click \in {"reopen", "replace"}
           \/ session'[s].state # Missing /\ x.state \subseteq session'[s].state]_vars
  BY <1>1 DEF Kept
<1> QED
  BY <1>2, WorkbenchInvariant, PTL DEF Spec, UnsavedWorkKept

\* An autosave into an empty store saves what was never saved.
LEMMA AutosaveIsNew ==
    ASSUME WorkbenchInv, NEW s \in Sessions, Autosave(s), record = Missing, record' # Missing
    PROVE  record' \notin history
<1>1. PICK x \in Session : x = session[s]
  BY DEF WorkbenchInv, TypeOK
<1>2. Autosaves(x) /\ x.state \in Content
  BY <1>1 DEF Autosave, Autosaves, Session, MaybeContent
<1>3. x.saved = Missing /\ record' = x.state
  BY <1>1, <1>2, PersistOutcome DEF Autosave
<1> QED
  BY <1>1, <1>2, <1>3 DEF Autosaves, WorkbenchInv, FlagsHold, SavedIsRemembered

\* AutosaveRevivesNothing: what an autosave creates holds work that no deleted
\* record had, however often the review was saved and deleted elsewhere.
THEOREM AutosaveRevivesNothing == Spec => DeletedStaysDeleted
<1>1. ASSUME WorkbenchInv, [Next]_vars, NEW s \in Sessions,
             session[s].step = "autosave", session'[s].step # "autosave",
             record = Missing, record' # Missing
      PROVE  record' \notin history
  <2>1. ASSUME NEW t \in Sessions \ {s}, Pass(t) \/ User(t) PROVE session'[s] = session[s]
    BY <1>1, <2>1, OneSession
  <2>2. Pass(s) \/ User(s)
    BY <1>1, <2>1 DEF Next, Outside, CliMutate, CliDelete, CliImport, vars
  <2>3. Autosave(s)
    BY <1>1, <2>2
       DEF Pass, User, Click, Draft, Rerun, Refresh, NotHandled, Status, Storage, StartReview,
           Decide, AcceptWithNote, Mutate, Reopen, DeleteSaved, ReplaceReview, Handled
  <2> QED
    BY <1>1, <2>3, AutosaveIsNew
<1>2. WorkbenchInv /\ [Next]_vars =>
        [\A s \in Sessions :
           session[s].step = "autosave" /\ session'[s].step # "autosave"
           /\ record = Missing /\ record' # Missing
           => record' \notin history]_vars
  BY <1>1
<1> QED
  BY <1>2, WorkbenchInvariant, PTL DEF Spec, DeletedStaysDeleted

=============================================================================
