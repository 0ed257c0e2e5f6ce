--------------------------- MODULE CandidateStore ---------------------------
(***************************************************************************)
(* What a candidate store promises its callers (the CandidateStore protocol *)
(* of src/firm_memory/ingestion/store.py, as ApprovalQueue relies on it):   *)
(* add() and remove() happen at one instant, and nothing else changes the   *)
(* queue.  A store is held to it until it has been misled, that is, until   *)
(* it has acted on something other than the queue as it stood.              *)
(***************************************************************************)
CONSTANTS Facts, Entries, Nothing

VARIABLES
    queue,   \* candidate id (a fact) -> the entry that waits, or Nothing
    misled   \* whether the store has acted on a wrong picture of the queue

Slots == Entries \cup {Nothing}

Init ==
    /\ queue = [f \in Facts |-> Nothing]
    /\ misled = FALSE

\* add(): an upsert.
Put(f, e) == queue' = [queue EXCEPT ![f] = e]

\* remove(): only what waits is taken.
Take(f) == queue[f] # Nothing /\ queue' = [queue EXCEPT ![f] = Nothing]

Sound ==
    /\ misled' = FALSE
    /\ \E f \in Facts : Take(f) \/ \E e \in Entries : Put(f, e)

Misled == misled' = TRUE

Spec == Init /\ [][Sound \/ Misled]_<<queue, misled>>
=============================================================================
