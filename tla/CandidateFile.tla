---------------------------- MODULE CandidateFile ----------------------------
(***************************************************************************)
(* The candidate queue as one JSON file (JsonFileCandidateStore in          *)
(* src/firm_memory/ingestion/store.py).  Every operation reads the whole    *)
(* file, changes its own copy and puts the copy in the file's place: a      *)
(* temporary file is written next to it and renamed over it.  There is no   *)
(* lock, neither between the threads of a process nor between processes, so *)
(* operations of different callers interleave between the read and the      *)
(* rename.                                                                  *)
(***************************************************************************)
EXTENDS Naturals

CONSTANTS
    Facts,      \* candidate ids
    Callers,    \* threads and processes that share the file
    ReadsFail,  \* whether the file may fail to open, or not be an object
    MaxAdds,    \* bound: add() calls
    Nothing,    \* no entry, no call under way
    Torn        \* half a JSON text

ASSUME FileAssumption ==
    /\ ReadsFail \in BOOLEAN
    /\ MaxAdds \in Nat
    /\ Nothing \notin [fact : Facts, version : Nat]
    /\ Torn \notin [Facts -> [fact : Facts, version : Nat] \cup {Nothing}]

\* An entry is told apart from earlier ones of its fact by the add() that
\* brought it.
Entries == [fact : Facts, version : 1 .. MaxAdds]
Slots == Entries \cup {Nothing}
Queue == [Facts -> Slots]
EmptyQueue == [f \in Facts |-> Nothing]

\* What an add() or remove() under way carries: the queue it read, the queue
\* it will write, the entry a remove() will hand out, and whether its
\* temporary file is complete.
Call == [seen : Queue, after : Queue, taken : Slots, staged : BOOLEAN]

VARIABLES
    file,    \* the JSON object; a file that does not exist reads as {}
    call,    \* what each caller's operation carries
    adds,    \* add() calls so far
    \* Observations.
    misled,  \* some rename put in place a change to a queue that was not there
    won      \* by version, how many remove() calls handed it out: 0, 1, or 2 for more

vars == <<file, call, adds, misled, won>>

\* Types, and a remove() hands out what it read and has taken out of its copy.
TypeOK ==
    /\ file \in Queue \cup {Torn}
    /\ DOMAIN call = Callers
    /\ \A c \in Callers : call[c] # Nothing =>
            /\ call[c] \in Call
            /\ LET e == call[c].taken
               IN  e # Nothing =>
                        call[c].seen[e.fact] = e /\ call[c].after[e.fact] = Nothing
    /\ adds \in 0 .. MaxAdds
    /\ misled \in BOOLEAN
    /\ won \in [1 .. MaxAdds -> 0 .. 2]

Init ==
    /\ file = EmptyQueue
    /\ call = [c \in Callers |-> Nothing]
    /\ adds = 0
    /\ misled = FALSE
    /\ won = [v \in 1 .. MaxAdds |-> 0]

\* _read(): anything that is not a JSON object, or cannot be read at all,
\* counts as an empty queue.
Contents ==
    IF file = Torn THEN EmptyQueue ELSE file

Readings == {Contents} \cup IF ReadsFail THEN {EmptyQueue} ELSE {}

-----------------------------------------------------------------------------
Begin(c, seen, after, taken) ==
    /\ call[c] = Nothing
    /\ call' = [call EXCEPT ![c] = [seen   |-> seen,
                                    after  |-> after,
                                    taken  |-> taken,
                                    staged |-> FALSE]]
    /\ UNCHANGED <<file, misled, won>>

\* A slip: add() that starts from an empty dict.
AddAfresh(c, f) ==
    /\ adds < MaxAdds
    /\ adds' = adds + 1
    /\ \E seen \in Readings :
            Begin(c, seen, [EmptyQueue EXCEPT ![f] = [fact |-> f, version |-> adds']],
                  Nothing)

\* add() up to its write.
Add(c, f) ==
    /\ adds < MaxAdds
    /\ adds' = adds + 1
    /\ \E seen \in Readings :
            Begin(c, seen, [seen EXCEPT ![f] = [fact |-> f, version |-> adds']], Nothing)

\* A slip: remove() that gets the entry and does not pop it.
RemoveByReading(c, f) ==
    /\ \E seen \in Readings : seen[f] # Nothing /\ Begin(c, seen, seen, seen[f])
    /\ UNCHANGED adds

\* remove() up to its write.  An id that is not there ends the call at once.
Remove(c, f) ==
    /\ \E seen \in Readings :
            /\ seen[f] # Nothing
            /\ Begin(c, seen, [seen EXCEPT ![f] = Nothing], seen[f])
    /\ UNCHANGED adds

HandOut(e) ==
    won' = IF e = Nothing THEN won
           ELSE [won EXCEPT ![e.version] = IF @ < 2 THEN @ + 1 ELSE 2]

\* A slip: the file itself is opened for writing.
StageInPlace(c) ==
    /\ call[c] # Nothing /\ ~call[c].staged
    /\ call' = [call EXCEPT ![c].staged = TRUE]
    /\ file' = Torn
    /\ UNCHANGED <<adds, misled, won>>

\* _write(), first half: the temporary file.
Stage(c) ==
    /\ call[c] # Nothing /\ ~call[c].staged
    /\ call' = [call EXCEPT ![c].staged = TRUE]
    /\ UNCHANGED <<file, adds, misled, won>>

\* _write(), second half: the rename, and the return of what was removed.
Replace(c) ==
    /\ call[c] # Nothing /\ call[c].staged
    /\ file' = call[c].after
    /\ misled' = (misled \/ call[c].seen # Contents)
    /\ HandOut(call[c].taken)
    /\ call' = [call EXCEPT ![c] = Nothing]
    /\ UNCHANGED adds

\* A slip: the failed write is swallowed, and remove() returns all the same.
AbandonQuietly(c) ==
    /\ call[c] # Nothing
    /\ HandOut(call[c].taken)
    /\ call' = [call EXCEPT ![c] = Nothing]
    /\ UNCHANGED <<file, adds, misled>>

\* The write raises, or the process dies, before the rename.
Abandon(c) ==
    /\ call[c] # Nothing
    /\ call' = [call EXCEPT ![c] = Nothing]
    /\ UNCHANGED <<file, adds, misled, won>>

-----------------------------------------------------------------------------
Next ==
    \E c \in Callers :
        \/ \E f \in Facts : Add(c, f) \/ Remove(c, f)
        \/ Stage(c)
        \/ Replace(c)
        \/ Abandon(c)

Spec == Init /\ [][Next]_vars

-----------------------------------------------------------------------------
(* What the file keeps of the promise.                                      *)

\* "A crash mid-write cannot leave an unreadable queue" (store.py:73): however
\* operations interleave and stop half way, the file holds one whole queue, and
\* every entry in it was added, under its own id.
WholeQueue ==
    /\ file # Torn
    /\ \A f \in Facts : file[f] # Nothing =>
            file[f].fact = f /\ file[f].version <= adds

\* Until a rename puts a change to an outdated or unread queue in place, the
\* file is a candidate store: each rename is one add() or one remove(), and
\* nothing else changes the queue.
Store == INSTANCE CandidateStore WITH queue <- Contents
ImplementsStore == Store!Spec

\* Until then a candidate is handed to one remove() only, and what was handed
\* out is no longer there for the next.
ClaimedOnceUnlessMisled ==
    misled \/ \A f \in Facts, v \in 1 .. MaxAdds :
                /\ won[v] <= 1
                /\ won[v] = 1 => Contents[f] # [fact |-> f, version |-> v]

\* approval.py:110: "two reviewers acting on the same candidate cannot both
\* win".  On a file they can.
ClaimedOnce == \A v \in 1 .. MaxAdds : won[v] <= 1

-----------------------------------------------------------------------------
(* The inductive invariant: what the promises above rest on.                *)

\* Every entry of the queue was added, and stands under its own id.
Filed(q) ==
    \A f \in Facts : q[f] # Nothing => q[f].fact = f /\ q[f].version <= adds

\* A call under way is one add() or one remove(), of what it has read.
OneChange(k) ==
    \E f \in Facts :
        \/ /\ k.taken = Nothing
           /\ \E v \in 1 .. adds :
                k.after = [k.seen EXCEPT ![f] = [fact |-> f, version |-> v]]
        \/ /\ k.taken = k.seen[f] /\ k.taken # Nothing
           /\ k.after = [k.seen EXCEPT ![f] = Nothing]

Holds(q, e) == q[e.fact] = e

\* The entry is in the file or in a queue that a call carries.
Around(e) ==
    \/ Holds(Contents, e)
    \/ \E c \in Callers : call[c] # Nothing /\
            (Holds(call[c].seen, e) \/ Holds(call[c].after, e))

\* The entry is the one that a call of add() is about to put in place.
Brings(c, e) ==
    call[c] # Nothing /\ Holds(call[c].after, e) /\ ~Holds(call[c].seen, e)

\* An add() that has not taken effect has left no trace: its entry is nowhere
\* but in the queue that call will write, and nobody has been handed it.
Unborn(c, e) ==
    /\ won[e.version] = 0
    /\ ~Holds(Contents, e)
    /\ \A d \in Callers : call[d] # Nothing =>
            ~Holds(call[d].seen, e) /\ (d # c => ~Holds(call[d].after, e))

FileInv ==
    /\ TypeOK
    /\ WholeQueue
    /\ \A c \in Callers : call[c] # Nothing =>
            Filed(call[c].seen) /\ Filed(call[c].after) /\ OneChange(call[c])
    /\ \A v \in 1 .. MaxAdds : won[v] # 0 => v <= adds
    /\ \A e, g \in Entries : Around(e) /\ Around(g) /\ e.version = g.version => e = g
    /\ \A c \in Callers, e \in Entries : Brings(c, e) => Unborn(c, e)
    /\ ClaimedOnceUnlessMisled
=============================================================================
