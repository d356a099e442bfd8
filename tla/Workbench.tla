------------------------------ MODULE Workbench ------------------------------
(***************************************************************************)
(* apps/web/app.py: browser sessions of the workbench, and command-line    *)
(* calls beside them, over one saved review.  Every interaction reruns the *)
(* whole page script: it refreshes a clean review from the store, saves an *)
(* unsaved one, runs the handler of the widget that was used, takes the    *)
(* status from the store, and draws the storage controls.  The store calls *)
(* of a pass are atomic, which is what ReviewStore shows of them; other    *)
(* sessions act between any two steps of a pass.                           *)
(*                                                                         *)
(* A review is the set of events recorded in it, and its fingerprint is    *)
(* that set.  Missing stands for "no record", "no review open" and for the *)
(* fingerprint None.  Starting a pass while another runs is left out.      *)
(***************************************************************************)
EXTENDS FiniteSets

CONSTANTS
    Sessions,   \* browser sessions
    Events,     \* everything that can be added to the review, once each
    Drafts,     \* the kinds of pending input that are considered
    Failures,   \* whether the storage may fail
    Missing,    \* no record, no review, no fingerprint
    Unreadable  \* the outcome of a load that failed

Content == SUBSET Events
MaybeContent == {Missing} \union Content

ASSUME WorkbenchAssumption ==
    /\ Failures \in BOOLEAN
    /\ Drafts \subseteq {"input", "scope", "note"}
    /\ \A S \in Content : S # Missing /\ S # Unreadable
    /\ Missing # Unreadable

VARIABLES
    record,     \* the saved record
    session,    \* the session state of every session
    used,       \* events handed out so far
    history     \* every content the record ever had

vars == <<record, session, used, history>>

Steps == {"refresh", "autosave", "handler", "status", "storage", "idle"}
Clicks == {"none", "start", "decide", "accept", "mutate", "save", "reopen",
           "delete", "replace"}

\* saved, failed, deleted: the fingerprints of the last successful save, the
\* last failed one, and the content whose record was deleted.
Session == [state: MaybeContent, saved: MaybeContent, failed: MaybeContent,
            deleted: MaybeContent, conflict: BOOLEAN, drafts: SUBSET Drafts,
            available: BOOLEAN, step: Steps, click: Clicks]

\* _reset_analysis
Blank == [state |-> Missing, saved |-> Missing, failed |-> Missing,
          deleted |-> Missing, conflict |-> FALSE, drafts |-> {},
          available |-> TRUE, step |-> "idle", click |-> "none"]

Init ==
    /\ record = Missing
    /\ session = [s \in Sessions |-> Blank]
    /\ used = {}
    /\ history = {}

-----------------------------------------------------------------------------
(* Session state.                                                          *)

\* has_pending_review_input: the drafts that stop saving; a scope draft stops
\* only the refresh.
PendingInput(x) == x.drafts \intersect {"input", "note"} # {}

MatchesSave(x) == x.saved # Missing /\ x.saved = x.state

\* st.rerun()
Again(x) == [x EXCEPT !.step = "refresh", !.click = "none"]

Conflicting(x) == [x EXCEPT !.failed = x.state, !.conflict = TRUE]

Unverified(x) == [Conflicting(x) EXCEPT !.saved = Missing]

\* Mutant: the deleted fingerprint is not remembered.
GoneForgotten(x) == [x EXCEPT !.saved = Missing, !.conflict = FALSE]

Gone(x) == [x EXCEPT !.saved = Missing, !.deleted = x.state, !.conflict = FALSE]

\* _mark_open_review_deleted
MarkedDeleted(x) ==
    [Gone(x) EXCEPT !.failed = IF @ = x.state THEN Missing ELSE @]

\* The session flags after a successful save of `content`.
Clean(x, content) ==
    [x EXCEPT !.saved = content, !.failed = Missing, !.conflict = FALSE,
              !.deleted = Missing]

\* _hydrate_reopened_review
Hydrated(x, content) ==
    [Clean(x, content) EXCEPT !.state = content, !.drafts = {}]

\* A new event in the open review; the note of an acceptance expires with it.
Extended(x, content) ==
    [x EXCEPT !.state = content, !.drafts = @ \ {"note"}]

-----------------------------------------------------------------------------
(* Steps that read the store.                                              *)

\* Mutant: a review with unsaved events is compared as well.
NothingToCompareIfNew(x) == x.state = Missing \/ x.saved = Missing

\* Only a review that matches its last save is compared with the store.
NothingToCompare(x) == x.state = Missing \/ ~MatchesSave(x)

\* What the session finds saved (locked_load): `saved` itself when it does not
\* look, and a failure when the directory is not available.
Found(x) ==
    IF ~x.available
    THEN {IF x.state # Missing /\ x.saved # Missing THEN Unreadable ELSE x.saved}
    ELSE IF NothingToCompare(x) THEN {x.saved}
         ELSE {record} \union IF Failures THEN {Unreadable} ELSE {}

External(x, found) == found \notin {x.saved, Missing, Unreadable}

\* Mutant: pending input does not stand in the way of a refresh at the end of
\* the page, though it does at its start.
RefreshesAlways(x, found) == External(x, found)

\* The record was changed elsewhere and there is no draft to protect.
Refreshes(x, found) == External(x, found) /\ x.drafts = {}

\* What both refreshes make of a record that is not what was saved.
Revalidated(x, found) ==
    IF found = Missing THEN Gone(x)
    ELSE IF found = Unreadable THEN Unverified(x)
    ELSE Conflicting(x)

\* _refresh_clean_review_from_local_store, at the start of a pass
Refresh(s) ==
    LET x == session[s]
        To(y) == session' = [session EXCEPT ![s] = [y EXCEPT !.step = "autosave"]]
    IN
    /\ x.step = "refresh"
    /\ \E found \in Found(x) :
         \/ found = x.saved /\ To(x)
         \/ External(x, found) /\ x.drafts = {} /\ To(Hydrated(x, found))
         \/ /\ found # x.saved
            /\ External(x, found) => x.drafts # {}
            /\ To(Revalidated(x, found))
    /\ UNCHANGED <<record, used, history>>

\* _locked_review_status_snapshot, under the lock, at the end of the page
Status(s) ==
    LET x == session[s]
        To(y, step) == session' = [session EXCEPT ![s] = [y EXCEPT !.step = step]]
    IN
    /\ x.step = "status"
    /\ \E found \in Found(x) :
         \/ found = x.saved /\ To(x, "storage")
         \/ Refreshes(x, found) /\ To(Again(x), "refresh")
         \/ /\ found # x.saved /\ ~Refreshes(x, found)
            /\ To(Revalidated(x, found), "storage")
    /\ UNCHANGED <<record, used, history>>

-----------------------------------------------------------------------------
(* Steps that save.                                                        *)

\* The storage fails, and the session keeps the fingerprint it could not save.
NotSaved(x, content) ==
    {[x EXCEPT !.failed = content, !.conflict = FALSE] : f \in {TRUE} \intersect {Failures}}

\* Mutant: the save does not ask what the record is.
PersistUnasked(x, content) == {Clean(x, content)} \union NotSaved(x, content)

\* _persist_review_state: the session after an attempt to save `content`.
Persist(x, content) ==
    {IF record = x.saved THEN Clean(x, content)
     ELSE [x EXCEPT !.failed = content, !.conflict = TRUE]}
    \union NotSaved(x, content)

\* An attempt that left no failed fingerprint has replaced the record.
Written(y, content) ==
    IF y.failed = Missing
    THEN record' = content /\ history' = history \union {content}
    ELSE UNCHANGED <<record, history>>

\* _autosave_review_if_eligible
Autosaves(x) ==
    /\ x.state # Missing
    /\ x.available
    /\ ~PendingInput(x)
    /\ x.state \notin {x.saved, x.failed, x.deleted}

Autosave(s) ==
    LET x == session[s]
        To(y) == session' = [session EXCEPT ![s] = [y EXCEPT !.step = "handler"]]
    IN
    /\ x.step = "autosave"
    /\ IF Autosaves(x) THEN \E y \in Persist(x, x.state) : Written(y, x.state) /\ To(y)
                       ELSE To(x) /\ UNCHANGED <<record, history>>
    /\ UNCHANGED used

\* The storage controls end the page, with the button "Save now".
Storage(s) ==
    LET x == session[s]
        To(y) == session' = [session EXCEPT ![s] = y]
    IN
    /\ x.step = "storage"
    /\ IF x.click = "save"
       THEN \E y \in Persist(x, x.state) :
              /\ Written(y, x.state)
              /\ To(IF y.failed = Missing THEN Again(y)
                    ELSE [y EXCEPT !.step = "idle", !.click = "none"])
       ELSE To([x EXCEPT !.step = "idle"]) /\ UNCHANGED <<record, history>>
    /\ UNCHANGED used

-----------------------------------------------------------------------------
(* Handlers.                                                               *)

\* The handler of the click leaves the session as y, and the page runs again.
Handled(s, click, y) ==
    /\ session[s].step = "handler"
    /\ session[s].click = click
    /\ session' = [session EXCEPT ![s] = Again(y)]

\* No handler runs; or it refuses or fails, and the rest of the page is drawn.
NotHandled(s) ==
    /\ session[s].step = "handler"
    /\ session[s].click \notin {"delete", "replace"}
    /\ session' = [session EXCEPT ![s].step = "status",
                                  ![s].click = IF @ = "save" THEN @ ELSE "none"]
    /\ UNCHANGED <<record, used, history>>

\* new_review_state: the review ID is drawn at random, so nobody used it.
StartReview(s, e) ==
    /\ used = {}
    /\ used' = {e}
    /\ Handled(s, "start", [session[s] EXCEPT !.state = {e}])
    /\ UNCHANGED <<record, history>>

\* Decisions, revisions, verifications: a transition of the open review, which
\* may take some of the drafts with it.
Decide(s, e) ==
    LET x == session[s] IN
    /\ e \notin used /\ used' = used \union {e}
    /\ \E left \in SUBSET x.drafts :
         Handled(s, "decide", [Extended(x, x.state \union {e}) EXCEPT
                                 !.drafts = left \ {"note"}])
    /\ UNCHANGED <<record, history>>

\* acceptance_note_conflict and record_blocked
NoteBlocked(x) == x.drafts # {"note"} \/ x.conflict \/ x.deleted # Missing

\* A final acceptance with a note is saved before the session takes it over.
AcceptWithNote(s, e) ==
    LET x == session[s]
        accepted == x.state \union {e}
    IN
    /\ x.step = "handler" /\ x.click = "accept"
    /\ ~NoteBlocked(x) /\ x.available
    /\ e \notin used /\ used' = used \union {e}
    /\ \E y \in Persist(x, accepted) :
         /\ Written(y, accepted)
         /\ session' = [session EXCEPT ![s] =
              IF y.failed = Missing
              THEN Again([y EXCEPT !.state = accepted, !.drafts = {}])
              ELSE [y EXCEPT !.step = "status", !.click = "none"]]

\* JUnit withdrawal and correction, and the analysis of a saved revision:
\* transitions of the saved record, taken over by the session.
Mutate(s, e) ==
    LET x == session[s]
        updated == record \union {e}
    IN
    /\ x.step = "handler" /\ x.click = "mutate"
    /\ e \notin used /\ used' = used \union {e}
    /\ record # Missing
    /\ record' = updated /\ history' = history \union {updated}
    /\ session' = [session EXCEPT ![s] =
         Again([Extended(x, updated) EXCEPT !.saved = updated, !.failed = Missing,
                                            !.conflict = FALSE])]

\* load_discovered_review, refused when the preview is no longer current.
Reopen(s) ==
    LET x == session[s] IN
    /\ x.step = "handler" /\ x.click = "reopen"
    /\ record # Missing /\ "scope" \notin x.drafts
    /\ session' = [session EXCEPT ![s] = Again(Hydrated(x, record))]
    /\ UNCHANGED <<record, used, history>>

\* store.delete, bound to the confirmed preview, and _mark_open_review_deleted.
DeleteSaved(s) ==
    LET x == session[s]
        marked == IF x.state = Missing THEN x ELSE MarkedDeleted(x)
    IN
    \/ record' = Missing /\ Handled(s, "delete", marked) /\ UNCHANGED <<used, history>>
    \/ record # Missing /\ Handled(s, "delete", x) /\ UNCHANGED <<record, used, history>>

\* _reset_analysis: other criteria or another pull request replace the review,
\* which the user has to allow when it has unsaved changes.
ReplaceReview(s) == Handled(s, "replace", Blank) /\ UNCHANGED <<record, used, history>>

-----------------------------------------------------------------------------
(* The user and the outside.                                               *)

\* The widgets the page of an idle session offers.
SaveOffered(x) ==
    /\ x.state # Missing /\ x.available
    /\ ~PendingInput(x) /\ ~MatchesSave(x)
    /\ ~(x.conflict /\ x.failed = x.state)

ExportsOffered(x) ==
    x.state # Missing /\ ~PendingInput(x) /\ ~(x.conflict /\ x.failed = x.state)

Offered(x, click) ==
    CASE click = "none" -> TRUE
      [] click = "start" -> x.state = Missing
      [] click = "decide" -> x.state # Missing
      [] click = "accept" -> x.state # Missing /\ x.drafts = {"note"} /\ ~NoteBlocked(x)
      [] click = "mutate" -> /\ MatchesSave(x) /\ "input" \notin x.drafts
                             /\ x.available /\ ~x.conflict /\ x.deleted = Missing
      [] click = "save" -> SaveOffered(x)
      [] click \in {"reopen", "replace"} -> x.drafts \intersect {"note", "scope"} = {}
      [] click = "delete" -> x.available /\ history # {}

\* An interaction starts a pass, which looks at the storage directory once.
Rerun(s, click, drafts) ==
    /\ session[s].step = "idle"
    /\ Offered(session[s], click)
    /\ \E available \in (IF Failures THEN {TRUE, FALSE} ELSE {TRUE}) :
         session' = [session EXCEPT ![s].step = "refresh", ![s].click = click,
                                    ![s].drafts = drafts, ![s].available = available]
    /\ UNCHANGED <<record, used, history>>

Click(s) == \E click \in Clicks : Rerun(s, click, session[s].drafts)

\* Input is typed or discarded; a note can only be opened when nothing else is
\* pending.
Draft(s) ==
    \E d \in Drafts :
      /\ session[s].state # Missing
      /\ \/ d \in session[s].drafts /\ Rerun(s, "none", session[s].drafts \ {d})
         \/ /\ d \notin session[s].drafts
            /\ d = "note" => session[s].drafts = {}
            /\ Rerun(s, "none", session[s].drafts \union {d})

\* Command-line calls: a transition, a deletion, an import of an exported copy.
CliMutate(e) ==
    /\ record # Missing
    /\ e \notin used /\ used' = used \union {e}
    /\ record' = record \union {e} /\ history' = history \union {record \union {e}}
    /\ UNCHANGED session

CliDelete == record # Missing /\ record' = Missing /\ UNCHANGED <<session, used, history>>

CliImport ==
    /\ record = Missing
    /\ \E copy \in history : record' = copy
    /\ UNCHANGED <<session, used, history>>

Pass(s) ==
    \/ Refresh(s) \/ Autosave(s) \/ NotHandled(s) \/ Status(s) \/ Storage(s)
    \/ \E e \in Events : StartReview(s, e) \/ Decide(s, e) \/ AcceptWithNote(s, e)
                         \/ Mutate(s, e)
    \/ Reopen(s) \/ DeleteSaved(s) \/ ReplaceReview(s)

User(s) == Click(s) \/ Draft(s)

Outside == (\E e \in Events : CliMutate(e)) \/ CliDelete \/ CliImport

Next == (\E s \in Sessions : Pass(s) \/ User(s)) \/ Outside

Spec == Init /\ [][Next]_vars

\* Streamlit runs a pass to its end, and the user of a session comes back to
\* the page, for whatever reason.
Fairness ==
    \A s \in Sessions : WF_vars(Pass(s)) /\ WF_vars(Click(s))

FairSpec == Spec /\ Fairness

-----------------------------------------------------------------------------
(* Properties.                                                             *)

\* Every variable holds a value of its type.
TypeOK ==
    /\ record \in MaybeContent
    /\ session \in [Sessions -> Session]
    /\ used \subseteq Events
    /\ history \subseteq Content

\* No session overwrites events another one saved: the record is created, grows
\* and is deleted, as ReviewRecords says.
Records == INSTANCE ReviewRecords WITH
    Ids <- {"review"}, record <- [id \in {"review"} |-> record]
RecordsKept == Records!Spec

\* Work that is not in the store leaves a session only when its user replaces
\* or reopens the review: no refresh and no failed save discards it.
UnsavedWorkKept ==
    [][\A s \in Sessions :
         LET x == session[s] IN
         \/ x.state = Missing \/ x.state \in history
         \/ x.click \in {"reopen", "replace"}
         \/ session'[s].state # Missing /\ x.state \subseteq session'[s].state]_vars

\* Autosave never brings back a review that was deleted: what it creates has
\* work in it that was never saved.
DeletedStaysDeleted ==
    [][\A s \in Sessions :
         session[s].step = "autosave" /\ session'[s].step # "autosave"
         /\ record = Missing /\ record' # Missing
         => record' \notin history]_vars

\* Every pass ends: the page does not rerun itself forever, unless calls from
\* outside keep changing the record between the start and the end of the page.
PassEnds ==
    <>[][~Outside]_vars =>
        \A s \in Sessions : session[s].step # "idle" ~> session[s].step = "idle"

\* The README says of a deleted review that is still open that it "remains
\* available as unsaved session work": the page then offers to save it or to
\* export it.
DeletedReviewStaysAvailable ==
    \A s \in Sessions :
      session[s].state # Missing /\ record = Missing
        ~> \/ session[s].state = Missing \/ record # Missing
           \/ /\ session[s].step = "idle"
              /\ SaveOffered(session[s]) \/ ExportsOffered(session[s])

=============================================================================
