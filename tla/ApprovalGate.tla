---------------------------- MODULE ApprovalGate ----------------------------
(***************************************************************************)
(* The human approval gate: bots file candidates, reviewers claim them from *)
(* the queue and endorse or refuse them, endorsed ones are inserted into    *)
(* the pool (src/firm_memory/ingestion/approval.py, the write half of       *)
(* src/firm_memory/memory.py).                                              *)
(*                                                                          *)
(* The queue here is a store whose operations are atomic, which is what the *)
(* in-memory dict and the Postgres table are; CandidateFile models the JSON *)
(* file, whose operations are not.  Which of the two stores it is stays     *)
(* open: a process ends with what its calls held (Die), and with all of an  *)
(* in-memory queue (Stop).  Reviewers are the worker threads of the         *)
(* review service: FastAPI runs its synchronous endpoints in a pool, so any *)
(* number of approvals interleave between the claim, the write to the       *)
(* provider and the restore.                                                *)
(***************************************************************************)
EXTENDS Lifecycle, Sequences, FiniteSets, Functions

CONSTANTS
    Reviewers,         \* people acting through the review service
    OfferedConfidence, \* confidences bots and extractors attach to a candidate
    GivenConfidence,   \* confidences a reviewer types in while approving
    MaxProposals,      \* bound: candidates ever put forward
    MaxPool,           \* bound: memories ever inserted
    Nothing            \* no memory: an empty slot

ASSUME GateAssumption ==
    /\ Reviewers \subseteq People
    /\ OfferedConfidence \subseteq Confidence
    /\ GivenConfidence \subseteq Confidence
    /\ MaxProposals \in Nat
    /\ MaxPool \in Nat
    /\ Nothing \notin Memory

VARIABLES
    \* The program's state.
    queue,     \* the candidate store: candidate id (a fact) -> memory or Nothing
    pool,      \* the provider's memories, in insertion order
    stage,     \* where each reviewer's approve() call stands
    claim,     \* the memory that call holds, removed from the queue
    clock,     \* proposals so far; numbers them
    \* Observations: what became of the candidates that left the queue.
    refused,   \* returned by reject(): nothing stores them
    logged,    \* written to the log as lost when the restore failed
    dropped,   \* gone with a dead process or with the reply to a DELETE
    replaced,  \* overwritten in the queue by another version of the fact
    doubted,   \* stored by a provider whose insert() then raised
    filed      \* every candidate ever submitted

program == <<queue, pool, stage, claim, clock>>
fates == <<refused, logged, dropped, replaced, doubted, filed>>
vars == <<queue, pool, stage, claim, clock,
          refused, logged, dropped, replaced, doubted, filed>>

Slot == Memory \cup {Nothing}

\* Every variable has its type, and a reviewer's call holds a candidate
\* exactly while it is under way.
TypeOK ==
    /\ queue \in [Facts -> Slot]
    /\ pool \in Seq(Memory)
    /\ stage \in [Reviewers -> {"idle", "claimed", "restoring"}]
    /\ claim \in [Reviewers -> Slot]
    /\ \A r \in Reviewers : claim[r] = Nothing <=> stage[r] = "idle"
    /\ clock \in 0 .. MaxProposals
    /\ \A seen \in {refused, logged, dropped, replaced, doubted, filed} :
            seen \subseteq Memory

Init ==
    /\ queue = [f \in Facts |-> Nothing]
    /\ pool = <<>>
    /\ stage = [r \in Reviewers |-> "idle"]
    /\ claim = [r \in Reviewers |-> Nothing]
    /\ clock = 0
    /\ refused = {} /\ logged = {} /\ dropped = {}
    /\ replaced = {} /\ doubted = {} /\ filed = {}

-----------------------------------------------------------------------------
(* The candidate store and the provider, as the gate uses them.             *)

\* store.add() is an upsert: whatever waits under the same id is overwritten.
Add(m) ==
    /\ queue' = [queue EXCEPT ![m.fact] = m]
    /\ replaced' = replaced \cup ({queue[m.fact]} \ {Nothing})

\* store.remove() deletes and returns in one step.
Remove(f) ==
    /\ queue[f] # Nothing
    /\ queue' = [queue EXCEPT ![f] = Nothing]

\* provider.insert() under a new id.  The pool is only ever appended to.
Insert(m) ==
    /\ Len(pool) < MaxPool
    /\ pool' = Append(pool, m)

-----------------------------------------------------------------------------
(* Bots: memory_propose and memory_ingest.                                  *)

\* The memory that propose() and an extractor's _to_memory() build.  The author
\* a bot names is left out: approving overwrites it.
Candidate(f, confidence) ==
    [fact       |-> f,
     confidence |-> confidence,
     status     |-> "proposed",
     author     |-> Nobody,
     recorded   |-> clock + 1]

PutForward ==
    /\ clock < MaxProposals
    /\ clock' = clock + 1

Submit(m) ==
    /\ Add(m)
    /\ filed' = filed \cup {m}
    /\ UNCHANGED <<pool, stage, claim, refused, logged, dropped, doubted>>

\* propose(): a candidate the policy reserves for people is queued.
ProposeForReview(f, confidence) ==
    /\ PutForward
    /\ NeedsHuman(Candidate(f, confidence))
    /\ Submit(Candidate(f, confidence))

\* propose(): any other is activated and committed without a queue.  A
\* provider that refuses the write leaves no trace of the call.
ProposeAutoApproved(f, confidence) ==
    /\ PutForward
    /\ ~NeedsHuman(Candidate(f, confidence))
    /\ Insert([Candidate(f, confidence) EXCEPT !.status = "active"])
    /\ UNCHANGED <<queue, stage, claim, fates>>

\* ingest(): what extraction finds is queued whatever the policy says.
Ingest(f, confidence) ==
    /\ PutForward
    /\ Submit(Candidate(f, confidence))

-----------------------------------------------------------------------------
(* Reviewers.                                                               *)

\* Slips: the claim takes what the store holds after the delete; the claim
\* reads the candidate but leaves it in the queue.
ClaimAfterDelete(r, f) ==
    /\ stage[r] = "idle"
    /\ Remove(f)
    /\ claim' = [claim EXCEPT ![r] = queue'[f]]
    /\ stage' = [stage EXCEPT ![r] = "claimed"]
    /\ UNCHANGED <<pool, clock, fates>>

ClaimByReading(r, f) ==
    /\ stage[r] = "idle"
    /\ queue[f] # Nothing
    /\ claim' = [claim EXCEPT ![r] = queue[f]]
    /\ stage' = [stage EXCEPT ![r] = "claimed"]
    /\ UNCHANGED <<queue, pool, clock, fates>>

\* approve() up to the claim.  A blank approver or an id that is not queued
\* raises before anything has changed.
Claim(r, f) ==
    /\ stage[r] = "idle"
    /\ Remove(f)
    /\ claim' = [claim EXCEPT ![r] = queue[f]]
    /\ stage' = [stage EXCEPT ![r] = "claimed"]
    /\ UNCHANGED <<pool, clock, fates>>

\* The store executes the DELETE, and the call still raises: the connection
\* fails before the reply, or the row does not decode into a memory.
ClaimUnanswered(r, f) ==
    /\ stage[r] = "idle"
    /\ Remove(f)
    /\ dropped' = dropped \cup {queue[f]}
    /\ UNCHANGED <<pool, stage, claim, clock,
                   refused, logged, replaced, doubted, filed>>

\* What the reviewer may endorse: the candidate with its content, scope, type
\* or confidence edited, and a confidence of the reviewer's own or not.
Endorsements(r) ==
    {Approved([claim[r] EXCEPT !.fact = f], r) : f \in Facts}
        \cup {ApprovedAt([claim[r] EXCEPT !.fact = f], r, c) :
                    f \in Facts, c \in GivenConfidence}

\* approve_memory() refuses anything that may not become active.
Endorsable(r) == stage[r] = "claimed" /\ CanMove(claim[r], "active")

\* A slip: the rollback moved from `except` to `finally`.
EndorseAndRestore(r) ==
    /\ Endorsable(r)
    /\ \E m \in Endorsements(r) : Insert(m)
    /\ stage' = [stage EXCEPT ![r] = "restoring"]
    /\ UNCHANGED <<queue, claim, clock, fates>>

\* The rest of approve(): amend, approve, commit.
Endorse(r) ==
    /\ Endorsable(r)
    /\ \E m \in Endorsements(r) : Insert(m)
    /\ claim' = [claim EXCEPT ![r] = Nothing]
    /\ stage' = [stage EXCEPT ![r] = "idle"]
    /\ UNCHANGED <<queue, clock, fates>>

\* The amendment is not a valid memory, or the provider refuses the write.
FailToCommit(r) ==
    /\ stage[r] = "claimed"
    /\ stage' = [stage EXCEPT ![r] = "restoring"]
    /\ UNCHANGED <<queue, pool, claim, clock, fates>>

\* The provider stores the memory and then raises, a lost reply for instance.
CommitUnacknowledged(r) ==
    /\ Endorsable(r)
    /\ \E m \in Endorsements(r) : Insert(m)
    /\ doubted' = doubted \cup {claim[r]}
    /\ stage' = [stage EXCEPT ![r] = "restoring"]
    /\ UNCHANGED <<queue, claim, clock, refused, logged, dropped, replaced, filed>>

GiveBack(r) ==
    /\ stage[r] = "restoring"
    /\ claim' = [claim EXCEPT ![r] = Nothing]
    /\ stage' = [stage EXCEPT ![r] = "idle"]

\* Slips in the rollback: forgotten; or writing back what the reviewer edited.
RestoreForgotten(r) ==
    /\ GiveBack(r)
    /\ UNCHANGED <<queue, pool, clock, fates>>

RestoreAmended(r) ==
    /\ GiveBack(r)
    /\ \E c \in GivenConfidence : Add([claim[r] EXCEPT !.confidence = c])
    /\ UNCHANGED <<pool, clock, refused, logged, dropped, doubted, filed>>

\* The except block: the candidate goes back as it was proposed.  A store that
\* files it and raises all the same has done this too.
Restore(r) ==
    /\ GiveBack(r)
    /\ Add(claim[r])
    /\ UNCHANGED <<pool, clock, refused, logged, dropped, doubted, filed>>

\* The restore raises too: the content goes to the log, and nowhere else.
RestoreFails(r) ==
    /\ GiveBack(r)
    /\ logged' = logged \cup {claim[r]}
    /\ UNCHANGED <<queue, pool, clock, refused, dropped, replaced, doubted, filed>>

\* reject(): removes the candidate and hands the rejected copy to the caller.
\* What waits is proposed, so the transition itself never refuses.
Reject(r, f) ==
    /\ stage[r] = "idle"
    /\ Remove(f)
    /\ refused' = refused \cup {queue[f]}
    /\ UNCHANGED <<pool, stage, claim, clock,
                   logged, dropped, replaced, doubted, filed>>

\* The process serving the reviewer dies, over a store that outlives it: what
\* the call held is in no store.
Die(r) ==
    /\ stage[r] # "idle"
    /\ dropped' = dropped \cup {claim[r]}
    /\ claim' = [claim EXCEPT ![r] = Nothing]
    /\ stage' = [stage EXCEPT ![r] = "idle"]
    /\ UNCHANGED <<queue, pool, clock, refused, logged, replaced, doubted, filed>>

\* InMemoryCandidateStore: its process stops, and the queue and every call that
\* was under way go with it.
Stop ==
    /\ queue' = [f \in Facts |-> Nothing]
    /\ claim' = [r \in Reviewers |-> Nothing]
    /\ stage' = [r \in Reviewers |-> "idle"]
    /\ dropped' = dropped \cup ((Range(queue) \cup Range(claim)) \ {Nothing})
    /\ UNCHANGED <<pool, clock, refused, logged, replaced, doubted, filed>>

-----------------------------------------------------------------------------
Bot ==
    \E f \in Facts, c \in OfferedConfidence :
        \/ ProposeForReview(f, c)
        \/ ProposeAutoApproved(f, c)
        \/ Ingest(f, c)

Pick(r) == \E f \in Facts : Claim(r, f) \/ ClaimUnanswered(r, f) \/ Reject(r, f)

\* A slip: approve() without its except block.
FinishWithoutRollback(r) == Endorse(r) \/ FailToCommit(r) \/ CommitUnacknowledged(r)

\* What an approve() call in progress does next.
Finish(r) ==
    \/ Endorse(r)
    \/ FailToCommit(r)
    \/ CommitUnacknowledged(r)
    \/ Restore(r)
    \/ RestoreFails(r)

Next == Bot \/ Stop \/ \E r \in Reviewers : Pick(r) \/ Finish(r) \/ Die(r)

Spec == Init /\ [][Next]_vars

\* A call that has claimed a candidate runs on: the endpoint is an ordinary
\* function on a pool thread.  It assumes that provider.insert() returns, for
\* which the code sets no timeout.
FairSpec == Spec /\ \A r \in Reviewers : WF_vars(Finish(r))
-----------------------------------------------------------------------------
(* What the gate promises.                                                  *)

Waiting(m) == queue[m.fact] = m
InFlight(m) == \E r \in Reviewers : claim[r] = m
Pooled(m) == \E i \in DOMAIN pool : pool[i].recorded = m.recorded
Gone == refused \cup logged \cup dropped \cup replaced

\* A reviewer is only ever shown, and only ever holds, a candidate exactly as
\* it was submitted: a rollback never leaves an edited version in the queue
\* (approval.py:129-131), nor files a candidate under another one's id.
QueuedAsFiled ==
    /\ \A f \in Facts :
            queue[f] # Nothing => queue[f] \in filed /\ queue[f].fact = f
    /\ \A r \in Reviewers : claim[r] # Nothing => claim[r] \in filed

\* Two reviewers acting on the same candidate cannot both win
\* (approval.py:109-111): while a call holds it, nobody else does and it is
\* not in the queue.  Another version of the same fact may be.
OneHolder ==
    \A r \in Reviewers : claim[r] # Nothing =>
        /\ ~Waiting(claim[r])
        /\ \A other \in Reviewers \ {r} : claim[other] # claim[r]

\* No candidate leaves the system unnoticed: it waits, is being decided, is in
\* the pool, or met one of the ends the code admits to -- refused, logged as
\* lost, overwritten by another version, or gone with a crash or a lost reply.
Accounted ==
    \A m \in filed : Waiting(m) \/ InFlight(m) \/ Pooled(m) \/ m \in Gone

\* One decision per candidate: unless a provider stored it and then raised, a
\* candidate is in the pool at most once, and one that is in the pool is
\* neither waiting, nor held, nor refused, lost or overwritten.
DecidedOnce ==
    \A m \in filed \ doubted :
        /\ Pooled(m) => ~Waiting(m) /\ ~InFlight(m) /\ m \notin Gone
        /\ \A i, j \in DOMAIN pool :
                pool[i].recorded = m.recorded /\ pool[j].recorded = m.recorded
                    => i = j

\* What a machine may approve as the documentation has it (docs.md:173-176:
\* critical types and firm-wide scope always need a person).
Exempt(m) ==
    /\ AutoApproveEnabled
    /\ m.fact \notin CriticalFacts
    /\ m.fact \in FirmWideFacts => ~FirmScopeAlwaysHuman
    /\ m.confidence >= Threshold

\* Everything in the pool is active and was endorsed by a named reviewer, or
\* is something the policy lets a machine approve: never critical, never
\* firm-wide, never below the threshold (lifecycle.py evaluate()).
GateHolds ==
    \A i \in DOMAIN pool :
        /\ pool[i].status = "active"
        /\ pool[i].author \in Reviewers \/ Exempt(pool[i])

\* A candidate that is claimed is settled in the end: it is in the pool, back
\* in the queue, or accounted for as logged or dropped; no reviewer keeps it.
ClaimsSettle ==
    \A n \in 1 .. MaxProposals :
        (\E r \in Reviewers : claim[r] # Nothing /\ claim[r].recorded = n)
            ~> \/ \E f \in Facts : queue[f] # Nothing /\ queue[f].recorded = n
               \/ \E i \in DOMAIN pool : pool[i].recorded = n
               \/ \E m \in logged \cup dropped : m.recorded = n

-----------------------------------------------------------------------------
(* The inductive invariant: what the promises above rest on.                *)

\* The number tells submissions apart, and none is ahead of the clock.
Stamped ==
    /\ \A m \in filed : m.status = "proposed" /\ m.recorded <= clock
    /\ \A m, n \in filed : m.recorded = n.recorded => m = n
    /\ \A i \in DOMAIN pool : pool[i].recorded <= clock

\* Only submitted candidates meet an end, and an end is final: what is gone is
\* neither waiting nor held.
GoneForGood ==
    /\ Gone \subseteq filed
    /\ doubted \subseteq filed
    /\ \A m \in Gone : ~Waiting(m) /\ ~InFlight(m)

GateInv ==
    /\ TypeOK
    /\ QueuedAsFiled
    /\ OneHolder
    /\ Stamped
    /\ GoneForGood
    /\ Accounted
    /\ DecidedOnce

-----------------------------------------------------------------------------
(* What the repository says of the gate, and the code does not do.          *)

\* models.py:46: a refused candidate is "kept so the same candidate is not
\* re-proposed forever".  Nothing keeps it.
RefusedStaysRefused ==
    \A m \in refused : queue[m.fact] = Nothing
=============================================================================
