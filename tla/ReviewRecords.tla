---------------------------- MODULE ReviewRecords ----------------------------
(***************************************************************************)
(* What the local review store promises its callers: one record per review *)
(* ID, which is created whole, grows by the events its reviewers add, one  *)
(* call at a time, and never loses one of them, until it is deleted.       *)
(* ReviewStore, the lock and file protocol of the code, implements it.     *)
(***************************************************************************)

CONSTANTS
    Ids,        \* review IDs
    Events,     \* everything that can be added to a review
    Missing     \* there is no record

VARIABLE record     \* the saved record of every review ID

Init == record = [id \in Ids |-> Missing]

\* A record appears: the first save, an import, a deleted review saved again.
Create(id, S) ==
    /\ record[id] = Missing
    /\ record' = [record EXCEPT ![id] = S]

\* Events are added to the record as it is at that moment.
Add(id, S) ==
    /\ record[id] # Missing
    /\ record' = [record EXCEPT ![id] = @ \union S]

Delete(id) ==
    /\ record[id] # Missing
    /\ record' = [record EXCEPT ![id] = Missing]

Next ==
    \E id \in Ids : \/ \E S \in SUBSET Events : Create(id, S) \/ Add(id, S)
                    \/ Delete(id)

Spec == Init /\ [][Next]_record

=============================================================================
