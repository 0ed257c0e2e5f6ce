----------------------------- MODULE Corrections -----------------------------
(***************************************************************************)
(* Reporting a memory as wrong: correct() of src/firm_memory/memory.py, as  *)
(* called by memory_correct of mcp/tools.py.  It reads the memory through   *)
(* the guarded get(), disputes its own copy, and writes the copy back whole *)
(* with provider.update().  Reporters run in threads and processes of their *)
(* own, so the reads and the writes interleave.                             *)
(***************************************************************************)
EXTENDS Lifecycle

CONSTANTS
    Reporters,  \* calls of correct(); each call is made once
    Ids,        \* memory ids
    Absent      \* an id the pool does not have; no copy

ASSUME CorrectionsAssumption ==
    /\ Reporters \subseteq People
    /\ Absent \notin Memory

Replies == {"none", "refused", "recorded", "failed"}

VARIABLES
    pool,     \* provider: id -> memory or Absent
    reason,   \* metadata disputed_by and dispute_reason of each memory
    stage,    \* where each call stands: idle, holding a copy, or its answer
    target,   \* the id the call is about
    copy,     \* the disputed copy a call will write
    first,    \* observation: the pool as it was seeded
    written   \* observation: the calls whose update() the provider carried out

vars == <<pool, reason, stage, target, copy, first, written>>

TypeOK ==
    /\ pool \in [Ids -> Memory \cup {Absent}]
    /\ reason \in [Ids -> Reporters \cup {Nobody}]
    /\ stage \in [Reporters -> {"idle", "writing"} \cup Replies]
    /\ target \in [Reporters -> Ids]
    /\ copy \in [Reporters -> Memory \cup {Absent}]
    /\ \A p \in Reporters : copy[p] # Absent <=> stage[p] = "writing"
    /\ first \in [Ids -> Memory \cup {Absent}]
    /\ written \subseteq Reporters

\* What approval and seeding leave in a pool: active memories.
Seeds ==
    {[fact |-> f, confidence |-> c, status |-> "active", author |-> Nobody, recorded |-> 0] :
        f \in Facts, c \in Confidence}

Init ==
    /\ pool \in [Ids -> Seeds \cup {Absent}]
    /\ first = pool
    /\ reason = [id \in Ids |-> Nobody]
    /\ stage = [p \in Reporters |-> "idle"]
    /\ target \in [Reporters -> Ids]
    /\ copy = [p \in Reporters |-> Absent]
    /\ written = {}

-----------------------------------------------------------------------------
\* A slip: the call keeps its copy.
AnswerKeepingCopy(p, reply) ==
    /\ stage' = [stage EXCEPT ![p] = reply]
    /\ UNCHANGED copy

Answer(p, reply) ==
    /\ stage' = [stage EXCEPT ![p] = reply]
    /\ copy' = [copy EXCEPT ![p] = Absent]

\* get() finds no such memory, or it fails or times out and reports none.
ReadNothing(p) ==
    /\ stage[p] = "idle"
    /\ Answer(p, "none")
    /\ UNCHANGED <<pool, reason, target, first, written>>

\* A slip: a disputed memory may be disputed again.
ReadAndDisputeAgain(p) ==
    LET found == pool[target[p]]
    IN  /\ stage[p] = "idle"
        /\ found # Absent
        /\ stage' = [stage EXCEPT ![p] = "writing"]
        /\ copy' = [copy EXCEPT ![p] = Disputed(found)]
        /\ UNCHANGED <<pool, reason, target, first, written>>

\* get() finds the memory, and dispute() accepts it.
ReadAndDispute(p) ==
    LET found == pool[target[p]]
    IN  /\ stage[p] = "idle"
        /\ found # Absent
        /\ CanMove(found, "disputed")
        /\ stage' = [stage EXCEPT ![p] = "writing"]
        /\ copy' = [copy EXCEPT ![p] = Disputed(found)]
        /\ UNCHANGED <<pool, reason, target, first, written>>

\* dispute() refuses a memory that is not active: it is disputed already.
ReadAndRefuse(p) ==
    /\ stage[p] = "idle"
    /\ pool[target[p]] # Absent
    /\ ~CanMove(pool[target[p]], "disputed")
    /\ Answer(p, "refused")
    /\ UNCHANGED <<pool, reason, target, first, written>>

\* A slip: the reporter is left out of the metadata.
StoreUnnamed(p) ==
    /\ stage[p] = "writing"
    /\ pool' = [pool EXCEPT ![target[p]] = copy[p]]
    /\ written' = written \cup {p}
    /\ UNCHANGED <<reason, target, first>>

\* The provider replaces the whole record, the reason of an earlier report
\* included.
Store(p) ==
    /\ stage[p] = "writing"
    /\ pool' = [pool EXCEPT ![target[p]] = copy[p]]
    /\ reason' = [reason EXCEPT ![target[p]] = p]
    /\ written' = written \cup {p}
    /\ UNCHANGED <<target, first>>

\* Slips: the call answers before the provider has; update() takes the penalty
\* from what is stored by then.
AnswerUnwritten(p) ==
    /\ stage[p] = "writing"
    /\ Answer(p, "recorded")
    /\ UNCHANGED <<pool, reason, target, first, written>>

WriteAsDelta(p) ==
    /\ stage[p] = "writing"
    /\ pool' = [pool EXCEPT ![target[p]] = [copy[p] EXCEPT !.confidence =
                                                Lowered(pool[target[p]].confidence)]]
    /\ reason' = [reason EXCEPT ![target[p]] = p]
    /\ written' = written \cup {p}
    /\ Answer(p, "recorded")
    /\ UNCHANGED <<target, first>>

\* update() returns.
Write(p) == Store(p) /\ Answer(p, "recorded")

\* update() raises, having done it or not.
WriteFails(p) ==
    /\ stage[p] = "writing"
    /\ Answer(p, "failed")
    /\ UNCHANGED <<pool, reason, target, first, written>>

WriteUnacknowledged(p) == Store(p) /\ Answer(p, "failed")

Next ==
    \E p \in Reporters :
        \/ ReadNothing(p)
        \/ ReadAndDispute(p)
        \/ ReadAndRefuse(p)
        \/ Write(p)
        \/ WriteFails(p)
        \/ WriteUnacknowledged(p)

Spec == Init /\ [][Next]_vars

-----------------------------------------------------------------------------
(* What a correction does, and does once.                                   *)

\* However many people report a memory, at once or one after the other, it
\* loses the penalty once: it is as it was seeded, or it is that disputed.
PenaltyOnce ==
    \A id \in Ids :
        \/ pool[id] = first[id]
        \/ first[id] # Absent /\ pool[id] = Disputed(first[id])

\* Whoever was told that the correction was recorded finds the memory flagged
\* from then on: no slower call un-flags it.
RecordedStaysFlagged ==
    \A p \in Reporters :
        stage[p] = "recorded" =>
            pool[target[p]] # Absent /\ pool[target[p]].status = "disputed"

\* A flagged memory names a reporter whose correction really reached the
\* provider, and a reporter is turned away only from a memory that is flagged.
FlagIsExplained ==
    /\ \A id \in Ids :
            pool[id] # first[id] =>
                reason[id] \in written /\ target[reason[id]] = id
    /\ \A p \in Reporters :
            stage[p] = "refused" => \E q \in written : target[q] = target[p]
-----------------------------------------------------------------------------
(* The inductive invariant behind all three.                                *)

\* What a call carries is the memory as it was seeded, disputed: what it read
\* was still active, and nothing but this one dispute ever replaces that.
CopyIsFirstDispute(p) ==
    stage[p] = "writing" =>
        first[target[p]] # Absent /\ copy[p] = Disputed(first[target[p]])

\* A write that the provider carried out is never undone.
WriteStands(p) ==
    p \in written =>
        first[target[p]] # Absent /\ pool[target[p]] = Disputed(first[target[p]])

CorrectionsInv ==
    /\ TypeOK
    /\ \A id \in Ids : first[id] # Absent => first[id].status = "active"
    /\ \A p \in Reporters :
            /\ CopyIsFirstDispute(p)
            /\ WriteStands(p)
            /\ stage[p] = "recorded" => p \in written
    /\ PenaltyOnce
    /\ FlagIsExplained
=============================================================================
