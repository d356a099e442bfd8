-------------------------- MODULE ReviewStoreProofs --------------------------
(***************************************************************************)
(* ReviewStore implements ReviewRecords, for any processes and records.    *)
(* The inductive invariant says what holding the lock of a record is worth:*)
(* what a call has loaded of it is still what the store holds.             *)
(***************************************************************************)
EXTENDS ReviewStore, TLAPS

\* What a call has loaded, it has loaded under the lock it still holds.
LoadedUnderLock ==
    \A c \in Clients, id \in Ids : call[c].loaded[id] # Unread =>
        lock[id] = c /\ id \in call[c].ids /\ ~call[c].done

\* A record exists, or existed, under every known ID.
KnownIds ==
    \A id \in Ids \ known :
        record[id] = Missing /\ \A c \in Clients : seen[c][id] = Missing

\* Callers pass a state that adds one event to the one they expect to replace.
Derivations ==
    \A c \in Clients :
      /\ call[c].op = "mutate" => \E e \in Events : call[c].state = {e}
      /\ call[c].op = "save" /\ call[c].expected # Missing =>
           \E e \in Events : call[c].state = call[c].expected \union {e}

\* Nobody else uses the ID of a review that is being saved for the first time.
FreshIds ==
    \A c \in Clients : \A id \in call[c].ids :
      call[c].op = "analyze" /\ ~call[c].done =>
        id \notin known /\ \A d \in Clients \ {c} : id \notin call[d].ids

StoreInv ==
    TypeOK /\ LoadedUnderLock /\ LoadedIsCurrent /\ KnownIds /\ Derivations /\ FreshIds

\* A client without a call.
LEMMA IdleType == Idle \in Call
<1>1. NothingLoaded \in [Ids -> {Unread} \union MaybeContent]
  BY DEF NothingLoaded
<1> QED
  BY <1>1 DEF Idle, Call, Calls, Content

\* In the beginning no client has a call.
LEMMA InitInv == Init => StoreInv
<1> SUFFICES ASSUME Init PROVE StoreInv
  OBVIOUS
<1>1. TypeOK
  BY IdleType DEF Init, TypeOK, MaybeContent
<1>2. \A c \in Clients : call[c] = Idle
  BY DEF Init
<1>3. LoadedUnderLock /\ LoadedIsCurrent /\ Derivations /\ FreshIds
  BY <1>2 DEF LoadedUnderLock, LoadedIsCurrent, Derivations, FreshIds, Idle,
     NothingLoaded
<1>4. KnownIds
  BY DEF Init, KnownIds
<1> QED
  BY <1>1, <1>3, <1>4 DEF StoreInv

\* A request starts with nothing loaded and leaves the store alone.
LEMMA BeginInv ==
    ASSUME StoreInv, NEW c \in Clients, NEW op \in Calls, NEW ids \in SUBSET Ids,
           NEW x \in {Unbound} \union MaybeContent, NEW state \in Content,
           Begin(c, op, ids, x, state), used' \subseteq Events,
           op = "mutate" => \E e \in Events : state = {e},
           op = "save" /\ x # Missing => \E e \in Events : state = x \union {e},
           IF op = "analyze" THEN \A id \in ids : Fresh(id)
                             ELSE \A id \in ids : id \in known \/ Fresh(id)
    PROVE  StoreInv'
<1> DEFINE new == [Idle EXCEPT !.op = op, !.ids = ids, !.expected = x, !.state = state]
<1>1. /\ call \in [Clients -> Call] /\ call' = [call EXCEPT ![c] = new]
      /\ call[c].op = "none"
  BY DEF Begin, StoreInv, TypeOK
<1>2. /\ new.op = op /\ new.ids = ids /\ new.expected = x /\ new.state = state
      /\ new.loaded = NothingLoaded /\ new.done = FALSE
  BY DEF Idle
<1>3. new \in Call
  BY IdleType DEF Idle, Call
<1> HIDE DEF new
<1>4. TypeOK'
  BY <1>1, <1>3 DEF StoreInv, TypeOK, Begin
<1>5. LoadedUnderLock' /\ LoadedIsCurrent'
  <2>1. /\ \A id \in Ids : call'[c].loaded[id] = Unread
        /\ \A d \in Clients \ {c} : call'[d] = call[d]
    BY <1>1, <1>2 DEF NothingLoaded
  <2>2. record' = record /\ lock' = lock
    BY DEF Begin
  <2> QED
    BY <2>1, <2>2 DEF StoreInv, LoadedUnderLock, LoadedIsCurrent
<1>6. KnownIds'
  BY DEF StoreInv, KnownIds, Begin
<1>7. Derivations'
  BY <1>1, <1>2 DEF StoreInv, Derivations
<1>8. FreshIds'
  BY <1>1, <1>2 DEF StoreInv, FreshIds, Begin, Fresh
<1> QED
  BY <1>4, <1>5, <1>6, <1>7, <1>8 DEF StoreInv

\* A call that begins has neither locked nor loaded anything.
LEMMA RequestInv ==
    ASSUME StoreInv, NEW c \in Clients, Request(c)
    PROVE  StoreInv'
<1>1. /\ used \subseteq Events /\ known \subseteq Ids
      /\ \A id \in Ids : seen[c][id] \in MaybeContent
  BY DEF StoreInv, TypeOK
<1>2. /\ {} \in Content /\ \A e \in Events : {e} \in Content
      /\ Unbound \in {Unbound} \union MaybeContent
  BY DEF Content
<1>3. ASSUME NEW ids \in SUBSET Ids, CallRead(c, ids) PROVE StoreInv'
  <2>1. /\ Begin(c, "read", ids, Unbound, {}) /\ used' = used
        /\ \A id \in ids : id \in known
    BY <1>3 DEF CallRead
  <2> QED
    BY <1>1, <1>2, <2>1, BeginInv DEF Calls
<1>4. ASSUME NEW id \in Ids, NEW e \in Events, CallMutate(c, id, e) PROVE StoreInv'
  <2>1. /\ Begin(c, "mutate", {id}, Unbound, {e}) /\ used' = used \union {e}
        /\ id \in known
    BY <1>4 DEF CallMutate
  <2> QED
    BY <1>1, <1>2, <2>1, BeginInv DEF Calls
<1>5. ASSUME NEW id \in Ids, NEW e \in Events, CallAnalyze(c, id, e) PROVE StoreInv'
  <2>1. /\ Begin(c, "analyze", {id}, Unbound, {e}) /\ used' = used \union {e}
        /\ Fresh(id)
    BY <1>5 DEF CallAnalyze
  <2> QED
    BY <1>1, <1>2, <2>1, BeginInv DEF Calls
<1>6. ASSUME NEW id \in Ids, NEW e \in Events, NEW x \in MaybeContent,
             CallSave(c, id, x, e)
      PROVE  StoreInv'
  <2> DEFINE state == Base(seen[c][id]) \union {e}
  <2>1. /\ Begin(c, "save", {id}, x, state) /\ used' = used \union {e}
        /\ id \in known \/ Fresh(id)
        /\ x \in {seen[c][id], Missing}
    BY <1>6 DEF CallSave
  <2>2. state \in Content
    BY <1>1 DEF Base, Content, MaybeContent
  <2>3. x # Missing => state = x \union {e}
    BY <2>1 DEF Base
  <2> HIDE DEF state
  <2> QED
    BY <1>1, <2>1, <2>2, <2>3, BeginInv DEF Calls
<1>7. ASSUME NEW id \in Ids, CallImport(c, id) PROVE StoreInv'
  <2>1. /\ Begin(c, "import", {id}, Unbound, seen[c][id]) /\ used' = used
        /\ seen[c][id] # Missing
    BY <1>7 DEF CallImport
  <2>2. seen[c][id] \in Content /\ id \in known
    BY <1>1, <2>1 DEF StoreInv, KnownIds, MaybeContent
  <2> QED
    BY <1>1, <1>2, <2>1, <2>2, BeginInv DEF Calls
<1>8. ASSUME NEW id \in Ids, NEW x \in {Unbound} \union MaybeContent,
             CallDelete(c, id, x)
      PROVE  StoreInv'
  <2>1. Begin(c, "delete", {id}, x, {}) /\ used' = used /\ id \in known
    BY <1>8 DEF CallDelete
  <2> QED
    BY <1>1, <1>2, <2>1, BeginInv DEF Calls
<1>9. ASSUME NEW id \in Ids, Peek(c, id) PROVE StoreInv'
  <2>1. /\ UNCHANGED <<record, lock, call, known, used>>
        /\ seen' = [seen EXCEPT ![c][id] = record[id]] /\ record[id] # Missing
    BY <1>9 DEF Peek
  <2>2. TypeOK' /\ KnownIds'
    BY <2>1 DEF StoreInv, TypeOK, KnownIds
  <2> QED
    BY <2>1, <2>2 DEF StoreInv, LoadedUnderLock, LoadedIsCurrent, Derivations, FreshIds
<1> QED
  BY <1>3, <1>4, <1>5, <1>6, <1>7, <1>8, <1>9 DEF Request

\* On its way out, a call has forgotten what it loaded.
LEMMA LeaveType ==
    ASSUME StoreInv, NEW c \in Clients
    PROVE  /\ Leave(c) \in [Clients -> Call]
           /\ Leave(c)[c].loaded = NothingLoaded
           /\ Leave(c)[c].done
           /\ Leave(c)[c].op = call[c].op /\ Leave(c)[c].ids = call[c].ids
           /\ Leave(c)[c].expected = call[c].expected
           /\ Leave(c)[c].state = call[c].state
           /\ \A d \in Clients \ {c} : Leave(c)[d] = call[d]
<1>1. NothingLoaded \in [Ids -> {Unread} \union MaybeContent]
  BY DEF NothingLoaded
<1> QED
  BY <1>1 DEF StoreInv, TypeOK, Leave, Call

\* A call that leaves without touching the store keeps the invariant.
LEMMA LeaveInv ==
    ASSUME StoreInv, NEW c \in Clients, call' = Leave(c),
           seen' \in [Clients -> [Ids -> MaybeContent]],
           \A d \in Clients, id \in Ids \ known : seen'[d][id] = Missing,
           UNCHANGED <<record, lock, known, used>>
    PROVE  StoreInv'
<1>0. /\ call' \in [Clients -> Call]
      /\ \A id \in Ids : call'[c].loaded[id] = Unread
      /\ call'[c].done
      /\ call'[c].op = call[c].op /\ call'[c].ids = call[c].ids
      /\ call'[c].expected = call[c].expected /\ call'[c].state = call[c].state
      /\ \A d \in Clients \ {c} : call'[d] = call[d]
  BY LeaveType DEF NothingLoaded
<1>1. TypeOK'
  BY <1>0 DEF StoreInv, TypeOK
<1>2. LoadedUnderLock' /\ LoadedIsCurrent'
  <2>1. ASSUME NEW d \in Clients, NEW i \in Ids, call'[d].loaded[i] # Unread
        PROVE  /\ d # c /\ call'[d] = call[d] /\ lock[i] = d
               /\ i \in call[d].ids /\ ~call[d].done
               /\ call[d].loaded[i] = record[i]
    BY <1>0, <2>1 DEF StoreInv, LoadedUnderLock, LoadedIsCurrent
  <2> QED
    BY <2>1 DEF LoadedUnderLock, LoadedIsCurrent
<1>3. KnownIds'
  BY <1>0 DEF StoreInv, KnownIds
<1>4. Derivations'
  <2>1. \A d \in Clients : /\ call'[d].op = call[d].op
                           /\ call'[d].expected = call[d].expected
                           /\ call'[d].state = call[d].state
    BY <1>0
  <2> QED
    BY <2>1 DEF StoreInv, Derivations
<1>5. FreshIds'
  <2> SUFFICES ASSUME NEW d \in Clients, NEW i \in call'[d].ids,
                      call'[d].op = "analyze", ~call'[d].done
               PROVE  i \notin known' /\ \A q \in Clients \ {d} : i \notin call'[q].ids
    BY DEF FreshIds
  <2>1. d # c /\ call'[d] = call[d]
    BY <1>0
  <2>2. i \notin known /\ \A q \in Clients \ {d} : i \notin call[q].ids
    BY <2>1 DEF StoreInv, FreshIds
  <2> QED
    BY <1>0, <2>1, <2>2
<1> QED
  BY <1>1, <1>2, <1>3, <1>4, <1>5 DEF StoreInv

\* A call that replaces or unlinks a record holds its lock: nobody else has
\* loaded it.
LEMMA CommitInv ==
    ASSUME StoreInv, NEW c \in Clients, NEW id \in call[c].ids, id \in Ids,
           Ready(c), NEW content \in MaybeContent,
           record' = [record EXCEPT ![id] = content],
           call' = Leave(c), lock' = lock, used' = used,
           known' = known \union {id},
           seen' \in [Clients -> [Ids -> MaybeContent]],
           \A d \in Clients, i \in Ids \ known' : seen'[d][i] = Missing
    PROVE  StoreInv'
<1>0. /\ call' \in [Clients -> Call]
      /\ \A i \in Ids : call'[c].loaded[i] = Unread
      /\ call'[c].done
      /\ call'[c].op = call[c].op /\ call'[c].ids = call[c].ids
      /\ call'[c].expected = call[c].expected /\ call'[c].state = call[c].state
      /\ \A d \in Clients \ {c} : call'[d] = call[d]
  BY LeaveType DEF NothingLoaded
<1>1. TypeOK'
  BY <1>0 DEF StoreInv, TypeOK
<1>2. lock[id] = c
  BY DEF Ready, Held
<1>3. LoadedUnderLock' /\ LoadedIsCurrent'
  <2>1. ASSUME NEW d \in Clients, NEW i \in Ids, call'[d].loaded[i] # Unread
        PROVE  /\ d # c /\ call'[d] = call[d] /\ lock[i] = d
               /\ i \in call[d].ids /\ ~call[d].done
               /\ call[d].loaded[i] = record[i]
    BY <1>0, <2>1 DEF StoreInv, LoadedUnderLock, LoadedIsCurrent
  <2> QED
    BY <2>1, <1>2 DEF LoadedUnderLock, LoadedIsCurrent
<1>4. KnownIds'
  BY <1>0 DEF StoreInv, TypeOK, KnownIds
<1>5. Derivations'
  <2>1. \A d \in Clients : /\ call'[d].op = call[d].op
                           /\ call'[d].expected = call[d].expected
                           /\ call'[d].state = call[d].state
    BY <1>0
  <2> QED
    BY <2>1 DEF StoreInv, Derivations
<1>6. FreshIds'
  <2> SUFFICES ASSUME NEW d \in Clients, NEW i \in call'[d].ids,
                      call'[d].op = "analyze", ~call'[d].done
               PROVE  i \notin known' /\ \A q \in Clients \ {d} : i \notin call'[q].ids
    BY DEF FreshIds
  <2>1. d # c /\ call'[d] = call[d]
    BY <1>0
  <2>2. i \notin known /\ \A q \in Clients \ {d} : i \notin call[q].ids
    BY <2>1 DEF StoreInv, FreshIds
  <2> QED
    BY <1>0, <2>1, <2>2
<1> QED
  BY <1>1, <1>3, <1>4, <1>5, <1>6 DEF StoreInv

\* Each step of a call, by its program counter.
LEMMA StepInv ==
    ASSUME StoreInv, NEW c \in Clients, Step(c)
    PROVE  StoreInv'
<1>1. ASSUME NEW id \in Ids, Acquire(c, id) PROVE StoreInv'
  <2>1. TypeOK'
    BY <1>1 DEF StoreInv, TypeOK, Acquire
  <2>2. LoadedUnderLock'
    BY <1>1, StoreAssumption DEF StoreInv, TypeOK, LoadedUnderLock, Acquire
  <2> QED
    BY <1>1, <2>1, <2>2
       DEF StoreInv, Acquire, LoadedIsCurrent, KnownIds, Derivations, FreshIds
<1>2. ASSUME NEW id \in Ids, Load(c, id) PROVE StoreInv'
  <2>1. /\ call' = [call EXCEPT ![c].loaded[id] = record[id]]
        /\ call \in [Clients -> Call] /\ record[id] \in MaybeContent
        /\ lock[id] = c /\ id \in call[c].ids /\ ~call[c].done
        /\ UNCHANGED <<record, lock, seen, known, used>>
    BY <1>2 DEF Load, Held, StoreInv, TypeOK
  <2>2. /\ \A d \in Clients \ {c} : call'[d] = call[d]
        /\ call'[c] = [call[c] EXCEPT !.loaded[id] = record[id]]
    BY <2>1
  <2>3. /\ call'[c] \in Call
        /\ call'[c].op = call[c].op /\ call'[c].ids = call[c].ids
        /\ call'[c].expected = call[c].expected /\ call'[c].state = call[c].state
        /\ call'[c].done = call[c].done
        /\ call'[c].loaded = [call[c].loaded EXCEPT ![id] = record[id]]
        /\ call[c].loaded \in [Ids -> {Unread} \union MaybeContent]
    BY <2>1, <2>2 DEF Call
  <2>4. TypeOK'
    BY <2>1, <2>3 DEF StoreInv, TypeOK
  <2>5. LoadedUnderLock' /\ LoadedIsCurrent'
    BY <2>1, <2>2, <2>3 DEF StoreInv, LoadedUnderLock, LoadedIsCurrent
  <2>6. KnownIds' /\ Derivations' /\ FreshIds'
    BY <2>1, <2>2, <2>3 DEF StoreInv, KnownIds, Derivations, FreshIds
  <2> QED
    BY <2>4, <2>5, <2>6 DEF StoreInv
<1>3. ASSUME NEW id \in Ids, Replace(c, id) PROVE StoreInv'
  <2> DEFINE new == IF call[c].op = "mutate"
                    THEN call[c].loaded[id] \union call[c].state
                    ELSE call[c].state
  <2>1. new \in Content
    <3>1. call[c].state \in Content /\ call[c].loaded[id] \in {Unread} \union MaybeContent
      BY DEF StoreInv, TypeOK, Call
    <3>2. call[c].op = "mutate" => call[c].loaded[id] \in Content
      BY <1>3, <3>1 DEF Replace, Ready, Accepts, MaybeContent
    <3> QED
      BY <3>1, <3>2 DEF Content
  <2>2. /\ record' = [record EXCEPT ![id] = new]
        /\ seen' = [seen EXCEPT ![c][id] = new]
        /\ known' = known \union {id} /\ call' = Leave(c)
        /\ lock' = lock /\ used' = used /\ Ready(c) /\ id \in call[c].ids
    BY <1>3 DEF Replace
  <2> HIDE DEF new
  <2>3. seen' \in [Clients -> [Ids -> MaybeContent]]
    BY <2>1, <2>2 DEF StoreInv, TypeOK, MaybeContent
  <2>4. \A d \in Clients, i \in Ids \ known' : seen'[d][i] = Missing
    BY <2>2 DEF StoreInv, TypeOK, KnownIds
  <2> QED
    BY <2>1, <2>2, <2>3, <2>4, CommitInv DEF MaybeContent
<1>4. ASSUME NEW id \in Ids, Unlink(c, id) PROVE StoreInv'
  <2>1. id \in known
    <3>1. call[c].loaded[id] # Missing /\ call[c].loaded[id] # Unread
      BY <1>4 DEF Unlink, Ready, Accepts
    <3>2. record[id] # Missing
      BY <3>1 DEF StoreInv, LoadedIsCurrent
    <3> QED
      BY <3>2 DEF StoreInv, KnownIds
  <2>2. known' = known \union {id}
    BY <1>4, <2>1 DEF Unlink
  <2> QED
    BY <1>4, <2>2, CommitInv DEF Unlink, StoreInv, TypeOK, KnownIds, MaybeContent
<1>5. ASSUME NEW id \in Ids, Release(c, id) PROVE StoreInv'
  <2>1. TypeOK'
    BY <1>5 DEF StoreInv, TypeOK, Release
  <2>2. LoadedUnderLock'
    BY <1>5 DEF StoreInv, TypeOK, LoadedUnderLock, Release
  <2> QED
    BY <1>5, <2>1, <2>2
       DEF StoreInv, Release, LoadedIsCurrent, KnownIds, Derivations, FreshIds
<1>6. CASE ReturnLoaded(c)
  <2>1. \A id \in call[c].ids : /\ id \in Ids
                                /\ call[c].loaded[id] = record[id]
                                /\ record[id] \in MaybeContent
                                /\ record[id] # Missing
    BY <1>6 DEF ReturnLoaded, Ready, Accepts, StoreInv, TypeOK, Call, LoadedIsCurrent
  <2>2. seen' = [seen EXCEPT ![c] = [id \in Ids |-> IF id \in call[c].ids
                                              THEN call[c].loaded[id] ELSE seen[c][id]]]
    BY <1>6 DEF ReturnLoaded
  <2>3. seen' \in [Clients -> [Ids -> MaybeContent]]
    BY <2>1, <2>2 DEF StoreInv, TypeOK
  <2>4. \A d \in Clients, id \in Ids \ known : seen'[d][id] = Missing
    BY <2>1, <2>2 DEF StoreInv, TypeOK, KnownIds
  <2> QED
    BY <1>6, <2>3, <2>4, LeaveInv DEF ReturnLoaded
<1>7. CASE Fail(c)
  BY <1>7, LeaveInv DEF Fail, StoreInv, TypeOK, KnownIds
<1>8. CASE Return(c)
  <2>1. \A id \in Ids : call[c].loaded[id] = Unread
    BY <1>8 DEF Return, StoreInv, LoadedUnderLock
  <2>2. TypeOK'
    BY <1>8, IdleType DEF Return, StoreInv, TypeOK
  <2>3. call'[c] = Idle /\ \A d \in Clients \ {c} : call'[d] = call[d]
    BY <1>8 DEF Return, StoreInv, TypeOK
  <2> QED
    BY <1>8, <2>2, <2>3 DEF Return, StoreInv, LoadedUnderLock, LoadedIsCurrent,
       KnownIds, Derivations, FreshIds, Idle, NothingLoaded
<1> QED
  BY <1>1, <1>2, <1>3, <1>4, <1>5, <1>6, <1>7, <1>8 DEF Step

\* A client that dies loses its locks together with what it had loaded.
LEMMA CrashInv ==
    ASSUME StoreInv, NEW c \in Clients, Crash(c)
    PROVE  StoreInv'
<1>1. TypeOK'
  BY IdleType DEF Crash, StoreInv, TypeOK, MaybeContent
<1>2. call'[c] = Idle /\ \A d \in Clients \ {c} : call'[d] = call[d]
  BY DEF Crash, StoreInv, TypeOK
<1>3. \A d \in Clients \ {c}, id \in Ids : lock[id] = d => lock'[id] = d
  BY DEF Crash
<1>4. LoadedUnderLock'
  BY <1>2, <1>3 DEF StoreInv, LoadedUnderLock, Idle, NothingLoaded
<1>5. LoadedIsCurrent' /\ Derivations' /\ FreshIds'
  BY <1>2 DEF Crash, StoreInv, LoadedIsCurrent, Derivations, FreshIds, Idle,
     NothingLoaded
<1>6. KnownIds'
  BY DEF Crash, StoreInv, TypeOK, KnownIds
<1> QED
  BY <1>1, <1>4, <1>5, <1>6 DEF StoreInv

\* The invariant holds throughout.
LEMMA StoreInvariant == Spec => []StoreInv
<1>1. StoreInv /\ [Next]_vars => StoreInv'
  <2> SUFFICES ASSUME StoreInv, [Next]_vars PROVE StoreInv'
    OBVIOUS
  <2>1. CASE Next
    BY <2>1, RequestInv, StepInv, CrashInv DEF Next
  <2>2. CASE UNCHANGED vars
    BY <2>2 DEF vars, StoreInv, TypeOK, LoadedUnderLock, LoadedIsCurrent, KnownIds,
       Derivations, FreshIds
  <2> QED
    BY <2>1, <2>2
<1> QED
  BY InitInv, <1>1, PTL DEF Spec

\* LoadsStayCurrent: the lock protocol serializes the calls on each record.
THEOREM LoadsStayCurrent == Spec => []LoadedIsCurrent
BY StoreInvariant, PTL DEF StoreInv

\* A deletion removes the state it was bound to: what it has loaded and compared
\* under its lock is what the store holds when it unlinks the file.
THEOREM DeletionsAreBound == Spec => DeletesWhatWasPreviewed
<1> DEFINE Bound == \A c \in Clients, id \in Ids :
                      /\ call[c].op = "delete" /\ id \in call[c].ids
                      /\ ~call[c].done /\ call'[c].done
                      /\ record[id] # Missing /\ record'[id] = Missing
                      => call[c].expected \in {record[id], Unbound}
<1>1. StoreInv /\ [Next]_vars => Bound
  <2> SUFFICES ASSUME StoreInv, [Next]_vars, NEW c \in Clients, NEW id \in Ids,
                      call[c].op = "delete", id \in call[c].ids,
                      ~call[c].done, call'[c].done,
                      record[id] # Missing, record'[id] = Missing
               PROVE  call[c].expected \in {record[id], Unbound}
    OBVIOUS
  <2>1. PICK d \in Clients : Request(d) \/ Step(d) \/ Crash(d)
    BY DEF Next, vars
  <2>2. \E k \in Ids : Replace(d, k) \/ Unlink(d, k)
    BY <2>1 DEF Request, CallRead, CallMutate, CallAnalyze, CallSave, CallImport,
       CallDelete, Peek, Begin, Step, Acquire, Load, Release, ReturnLoaded, Fail,
       Return, Crash
  <2>3. c = d
    BY <2>2 DEF Replace, Unlink, Leave, StoreInv, TypeOK
  <2>4. Accepts(c) /\ Ready(c)
    BY <2>2, <2>3 DEF Replace, Unlink
  <2> QED
    BY <2>4 DEF Accepts, Ready, StoreInv, LoadedIsCurrent
<1> QED
  BY <1>1, StoreInvariant, PTL DEF Spec, DeletesWhatWasPreviewed

-----------------------------------------------------------------------------
(* Refinement.                                                             *)

\* Every replacement creates a record or adds one event to the current one.
LEMMA ReplaceAdds ==
    ASSUME StoreInv, NEW c \in Clients, NEW id \in Ids, Replace(c, id)
    PROVE  Records!Next
<1>1. /\ call[c] \in Call /\ call[c].loaded[id] # Unread /\ id \in call[c].ids
      /\ call[c].loaded[id] = record[id]
  BY DEF Replace, Ready, StoreInv, TypeOK, LoadedIsCurrent
<1>2. CASE call[c].op = "mutate"
  <2>1. PICK e \in Events : call[c].state = {e}
    BY <1>2 DEF StoreInv, Derivations
  <2>2. Records!Add(id, {e})
    BY <1>1, <1>2, <2>1 DEF Replace, Accepts, Records!Add
  <2> QED
    BY <2>2, {e} \in SUBSET Events DEF Records!Next
<1>3. CASE call[c].op = "save" /\ call[c].expected # Missing
  <2>1. PICK e \in Events : call[c].state = call[c].expected \union {e}
    BY <1>3 DEF StoreInv, Derivations
  <2>2. call[c].expected = record[id]
    BY <1>1, <1>3 DEF Replace, Accepts
  <2>3. Records!Add(id, {e})
    BY <1>3, <2>1, <2>2 DEF Replace, Records!Add
  <2> QED
    BY <2>3, {e} \in SUBSET Events DEF Records!Next
<1>4. CASE ~(call[c].op = "mutate") /\ ~(call[c].op = "save" /\ call[c].expected # Missing)
  <2>1. record[id] = Missing
    <3>1. CASE call[c].op = "analyze"
      BY <1>1, <3>1 DEF Replace, Ready, StoreInv, FreshIds, KnownIds
    <3>2. CASE call[c].op # "analyze"
      BY <1>1, <1>4, <3>2 DEF Replace, Accepts, Writers
    <3> QED
      BY <3>1, <3>2
  <2>2. Records!Create(id, call[c].state) /\ call[c].state \in SUBSET Events
    BY <1>1, <1>4, <2>1 DEF Replace, Records!Create, Call, Content
  <2> QED
    BY <2>2 DEF Records!Next
<1> QED
  BY <1>2, <1>3, <1>4

\* StoreImplementsRecords: whatever the interleaving, crashes and failures, an
\* event that reached the store stays in its record until the record is deleted.
THEOREM StoreImplementsRecords == Spec => NoEventLost
<1>1. Init => Records!Init
  BY DEF Init, Records!Init
<1>2. StoreInv /\ [Next]_vars => [Records!Next]_record
  <2> SUFFICES ASSUME StoreInv, [Next]_vars, record' # record PROVE Records!Next
    BY DEF vars
  <2>1. PICK c \in Clients : Request(c) \/ Step(c) \/ Crash(c)
    BY DEF Next, vars
  <2>2. \E id \in Ids : Replace(c, id) \/ Unlink(c, id)
    BY <2>1 DEF Request, CallRead, CallMutate, CallAnalyze, CallSave, CallImport,
       CallDelete, Peek, Begin, Step, Acquire, Load, Release, ReturnLoaded, Fail,
       Return, Crash
  <2>3. ASSUME NEW id \in Ids, Unlink(c, id) PROVE Records!Next
    <3>1. record[id] # Missing
      BY <2>3 DEF Unlink, Ready, Accepts, StoreInv, LoadedIsCurrent
    <3>2. Records!Delete(id)
      BY <2>3, <3>1 DEF Unlink, Records!Delete
    <3> QED
      BY <3>2 DEF Records!Next
  <2> QED
    BY <2>2, <2>3, ReplaceAdds
<1> QED
  BY <1>1, <1>2, StoreInvariant, PTL DEF Spec, NoEventLost, Records!Spec

=============================================================================
