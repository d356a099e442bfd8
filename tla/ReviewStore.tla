----------------------------- MODULE ReviewStore -----------------------------
(***************************************************************************)
(* scopeproof_core/storage/json_store.py: several processes, command-line  *)
(* invocations and workbench sessions, call one local store of review      *)
(* records.  A call locks the records it touches, loads them, decides, and *)
(* replaces or unlinks at most one file; it fails, or its process dies, at *)
(* any of these points.                                                    *)
(*                                                                         *)
(* The content of a record is the set of events recorded in it, so that    *)
(* equal content means equal fingerprint and only extending a record keeps *)
(* what others put there.  The identity of the file a deletion is bound to *)
(* (inode, times) is reduced to the content as well.  A temporary file a   *)
(* dead call leaves behind is never read, and is left out; so are power    *)
(* failures.                                                               *)
(***************************************************************************)
EXTENDS Naturals

CONSTANTS
    Ids,        \* review IDs, in the order the store sorts them
    Events,     \* everything that can be added to a review, once each
    Clients,    \* the processes
    Operations, \* the store operations they call
    Missing,    \* there is no record
    Free,       \* nobody holds the lock
    Unbound,    \* a deletion that is not bound to a preview
    Unread      \* a record the call has not loaded yet

Content == SUBSET Events
MaybeContent == {Missing} \union Content

ASSUME StoreAssumption ==
    /\ Ids \subseteq Nat
    /\ \A S \in Content : S # Missing /\ S # Unbound /\ S # Unread
    /\ Missing # Unbound /\ Missing # Unread
    /\ Free \notin Clients

VARIABLES
    record,     \* the file <id>.json of every review ID
    lock,       \* who holds the flock on the lock file of each ID
    call,       \* the store call each client is in
    seen,       \* the state of each review a client last got from the store
    known,      \* IDs a record was ever saved under
    used        \* events handed out so far

vars == <<record, lock, call, seen, known, used>>

Calls == {"none", "read", "mutate", "save", "analyze", "import", "delete"}
Writers == {"mutate", "save", "analyze", "import"}

\* `loaded` is what the call has read so far, `done` that it is on its way out.
Call == [op: Calls, ids: SUBSET Ids, expected: {Unbound} \union MaybeContent,
         state: Content, loaded: [Ids -> {Unread} \union MaybeContent],
         done: BOOLEAN]

NothingLoaded == [id \in Ids |-> Unread]

Idle == [op |-> "none", ids |-> {}, expected |-> Unbound, state |-> {},
         loaded |-> NothingLoaded, done |-> FALSE]

Held(c) == {id \in Ids : lock[id] = c}

Base(content) == IF content = Missing THEN {} ELSE content

Init ==
    /\ record = [id \in Ids |-> Missing]
    /\ lock = [id \in Ids |-> Free]
    /\ call = [c \in Clients |-> Idle]
    /\ seen = [c \in Clients |-> [id \in Ids |-> Missing]]
    /\ known = {}
    /\ used = {}

-----------------------------------------------------------------------------
(* Calls.                                                                  *)

Begin(c, op, ids, expected, state) ==
    /\ op \in Operations
    /\ call[c].op = "none"
    /\ call' = [call EXCEPT ![c] = [Idle EXCEPT !.op = op, !.ids = ids,
                                                !.expected = expected,
                                                !.state = state]]
    /\ UNCHANGED <<record, lock, seen, known>>

\* A review ID drawn at random: no record had it and nobody is using it.
Fresh(id) == id \notin known /\ \A c \in Clients : id \notin call[c].ids

\* locked_load, locked_load_many
CallRead(c, ids) ==
    ids # {} /\ ids \subseteq known /\ Begin(c, "read", ids, Unbound, {})
    /\ UNCHANGED used

\* mutate, with a transition that adds event e
CallMutate(c, id, e) ==
    id \in known /\ e \notin used /\ used' = used \union {e}
    /\ Begin(c, "mutate", {id}, Unbound, {e})

\* save with an expected fingerprint, of a state that adds e to the one seen.
\* A client that learned of the deletion of its review expects no record.
CallSave(c, id, expected, e) ==
    /\ id \in known \/ Fresh(id)
    /\ expected \in {seen[c][id], Missing}
    /\ e \notin used
    /\ used' = used \union {e}
    /\ Begin(c, "save", {id}, expected, Base(seen[c][id]) \union {e})

\* save without one, which only analyze does, for a review it just created
CallAnalyze(c, id, e) ==
    Fresh(id) /\ e \notin used /\ used' = used \union {e}
    /\ Begin(c, "analyze", {id}, Unbound, {e})

\* import_review, import_review_bytes: of a copy exported earlier
CallImport(c, id) ==
    seen[c][id] # Missing /\ Begin(c, "import", {id}, Unbound, seen[c][id])
    /\ UNCHANGED used

\* delete, bound to a preview in the workbench and unbound on the command line
CallDelete(c, id, expected) ==
    id \in known /\ expected \in {seen[c][id], Unbound} \ {Missing}
    /\ Begin(c, "delete", {id}, expected, {})
    /\ UNCHANGED used

-----------------------------------------------------------------------------
(* Steps of a call.                                                        *)

\* Mutant: locks are taken in the order the caller named the records.
AcquireAnyOrder(c, id) ==
    /\ ~call[c].done
    /\ id \in call[c].ids \ Held(c)
    /\ lock[id] = Free
    /\ lock' = [lock EXCEPT ![id] = c]
    /\ UNCHANGED <<record, call, seen, known, used>>

\* _mutation_lock; locked_load_many takes the locks in the order of the IDs.
Acquire(c, id) ==
    /\ ~call[c].done
    /\ id \in call[c].ids \ Held(c)
    /\ \A other \in call[c].ids \ Held(c) : id <= other
    /\ lock[id] = Free
    /\ lock' = [lock EXCEPT ![id] = c]
    /\ UNCHANGED <<record, call, seen, known, used>>

\* Mutant: the record is loaded before the lock is taken.
LoadUnlocked(c, id) ==
    /\ ~call[c].done
    /\ id \in call[c].ids /\ call[c].loaded[id] = Unread
    /\ call' = [call EXCEPT ![c].loaded[id] = record[id]]
    /\ UNCHANGED <<record, lock, seen, known, used>>

\* load, of one record after the other once every lock is held
Load(c, id) ==
    /\ ~call[c].done
    /\ Held(c) = call[c].ids
    /\ id \in call[c].ids /\ call[c].loaded[id] = Unread
    /\ call' = [call EXCEPT ![c].loaded[id] = record[id]]
    /\ UNCHANGED <<record, lock, seen, known, used>>

Ready(c) == /\ call[c].op # "none" /\ ~call[c].done
            /\ Held(c) = call[c].ids
            /\ \A id \in call[c].ids : call[c].loaded[id] # Unread

\* Mutant: the fingerprint is not compared.
AcceptsAnySave(c) ==
    \A id \in call[c].ids :
      LET loaded == call[c].loaded[id] IN
        /\ call[c].op \in {"read", "mutate", "delete"} => loaded # Missing
        /\ call[c].op = "delete" => call[c].expected \in {loaded, Unbound}
        /\ call[c].op = "import" => loaded = Missing

\* What the call requires of the records it loaded.  An import requires its
\* file not to exist and an unbound deletion requires it to: both are decided by
\* the system call under the same lock.
Accepts(c) ==
    \A id \in call[c].ids :
      LET loaded == call[c].loaded[id] IN
        /\ call[c].op \in {"read", "mutate", "delete"} => loaded # Missing
        /\ call[c].op = "delete" => call[c].expected \in {loaded, Unbound}
        /\ call[c].op = "save" => loaded = call[c].expected
        /\ call[c].op = "import" => loaded = Missing

Leave(c) == [call EXCEPT ![c].done = TRUE, ![c].loaded = NothingLoaded]

\* A read returns what it loaded.
ReturnLoaded(c) ==
    /\ Ready(c) /\ Accepts(c)
    /\ call[c].op = "read"
    /\ seen' = [seen EXCEPT ![c] = [id \in Ids |-> IF id \in call[c].ids
                                                  THEN call[c].loaded[id] ELSE @[id]]]
    /\ call' = Leave(c)
    /\ UNCHANGED <<record, lock, known, used>>

\* _save_unlocked: the temporary file takes the place of the record.
Replace(c, id) ==
    /\ Ready(c) /\ Accepts(c)
    /\ call[c].op \in Writers /\ id \in call[c].ids
    /\ LET new == IF call[c].op = "mutate"
                  THEN call[c].loaded[id] \union call[c].state
                  ELSE call[c].state
       IN  /\ record' = [record EXCEPT ![id] = new]
           /\ seen' = [seen EXCEPT ![c][id] = new]
    /\ known' = known \union {id}
    /\ call' = Leave(c)
    /\ UNCHANGED <<lock, used>>

\* os.unlink under the lock.  The lock file itself is never removed.
Unlink(c, id) ==
    /\ Ready(c) /\ Accepts(c)
    /\ call[c].op = "delete" /\ id \in call[c].ids
    /\ record' = [record EXCEPT ![id] = Missing]
    /\ call' = Leave(c)
    /\ UNCHANGED <<lock, seen, known, used>>

\* A refused call (StaleReviewState, FileNotFoundError, FileExistsError), or one
\* whose write fails before the replacement (OSError, over the byte limit).
Fail(c) ==
    /\ Ready(c)
    /\ call' = Leave(c)
    /\ UNCHANGED <<record, lock, seen, known, used>>

Release(c, id) ==
    /\ call[c].done
    /\ lock[id] = c
    /\ lock' = [lock EXCEPT ![id] = Free]
    /\ UNCHANGED <<record, call, seen, known, used>>

Return(c) ==
    /\ call[c].done
    /\ Held(c) = {}
    /\ call' = [call EXCEPT ![c] = Idle]
    /\ UNCHANGED <<record, lock, seen, known, used>>

\* The process dies; the kernel drops its locks.  A new one takes its place.
Crash(c) ==
    /\ call[c].op # "none"
    /\ call' = [call EXCEPT ![c] = Idle]
    /\ lock' = [id \in Ids |-> IF lock[id] = c THEN Free ELSE lock[id]]
    /\ seen' = [seen EXCEPT ![c] = [id \in Ids |-> Missing]]
    /\ UNCHANGED <<record, known, used>>

\* load without the lock: a preview, or a check after the fact.
Peek(c, id) ==
    /\ "load" \in Operations
    /\ call[c].op = "none"
    /\ record[id] # Missing
    /\ seen' = [seen EXCEPT ![c][id] = record[id]]
    /\ UNCHANGED <<record, lock, call, known, used>>

Request(c) ==
    \/ \E ids \in SUBSET Ids : CallRead(c, ids)
    \/ \E id \in Ids, e \in Events : \/ CallMutate(c, id, e)
                                     \/ CallAnalyze(c, id, e)
                                     \/ \E x \in MaybeContent : CallSave(c, id, x, e)
    \/ \E id \in Ids : \/ CallImport(c, id)
                       \/ \E x \in {Unbound} \union MaybeContent : CallDelete(c, id, x)
                       \/ Peek(c, id)

Step(c) ==
    \/ \E id \in Ids : \/ Acquire(c, id) \/ Load(c, id) \/ Replace(c, id)
                       \/ Unlink(c, id) \/ Release(c, id)
    \/ ReturnLoaded(c)
    \/ Fail(c)
    \/ Return(c)

Next == \E c \in Clients : Request(c) \/ Step(c) \/ Crash(c)

Spec == Init /\ [][Next]_vars

\* A process inside a call keeps running, and the kernel grants a lock that
\* keeps being released to everyone who waits for it.
Fairness ==
    \A c \in Clients : /\ WF_vars(Step(c))
                       /\ \A id \in Ids : SF_vars(Acquire(c, id))

FairSpec == Spec /\ Fairness

-----------------------------------------------------------------------------
(* Properties.                                                             *)

\* Every variable holds a value of its type.
TypeOK ==
    /\ record \in [Ids -> MaybeContent]
    /\ lock \in [Ids -> Clients \union {Free}]
    /\ call \in [Clients -> Call]
    /\ seen \in [Clients -> [Ids -> MaybeContent]]
    /\ known \subseteq Ids
    /\ used \subseteq Events

\* Until a call leaves, what it has loaded is what the store holds: the two
\* records of a comparison were saved at one moment, and a transition is applied
\* to the state its result replaces.
LoadedIsCurrent ==
    \A c \in Clients, id \in Ids : call[c].loaded[id] \in {record[id], Unread}

\* No event that reached the store is lost to a concurrent, stale, failed or
\* interrupted call: the store implements ReviewRecords.
Records == INSTANCE ReviewRecords
NoEventLost == Records!Spec

\* A deletion confirmed on a preview removes exactly the state that was
\* previewed, never one that a later call saved.
DeletesWhatWasPreviewed ==
    [][\A c \in Clients, id \in Ids :
         /\ call[c].op = "delete" /\ id \in call[c].ids
         /\ ~call[c].done /\ call'[c].done
         /\ record[id] # Missing /\ record'[id] = Missing
         => call[c].expected \in {record[id], Unbound}]_vars

\* Every call comes to an end, comparisons that need several locks included.
CallsReturn == \A c \in Clients : call[c].op # "none" ~> call[c].op = "none"

=============================================================================
