----------------------------- MODULE MemoryPool -----------------------------
(***************************************************************************)
(* What a provider promises (src/firm_memory/providers/base.py): a memory   *)
(* that is written reads back as it was written, and no write touches       *)
(* another memory.  The in-memory provider, whose store is the canonical    *)
(* memories themselves, keeps each of them exactly.                         *)
(***************************************************************************)
EXTENDS Canonical

CONSTANTS
    Unkept,  \* metadata names a provider may decline to keep
    Slack    \* how far, a natural number, a provider may move a confidence

VARIABLES
    pool,   \* the memories that can be read; None where a row is unusable
    given   \* the memories as they were handed to insert() and update()

-----------------------------------------------------------------------------
\* `kept` is `m` up to what a provider may do to it.
Keeps(kept, m) ==
    /\ kept = [m EXCEPT !.confidence = kept.confidence, !.notes = kept.notes]
    /\ kept.confidence - m.confidence \in -Slack .. Slack
    /\ kept.notes \subseteq m.notes
    /\ m.notes \ kept.notes \subseteq Unkept

Init == pool = given

\* insert(): under a new id; what is there already stays as it is.
Insert ==
    /\ Len(given') = Len(given) + 1
    /\ Len(pool') = Len(pool) + 1
    /\ SubSeq(given', 1, Len(given)) = given
    /\ SubSeq(pool', 1, Len(pool)) = pool
    /\ given'[Len(given) + 1].status = "active"
    /\ Keeps(pool'[Len(pool) + 1], given'[Len(given) + 1])

\* correct(): get(), dispute(), update() of one memory.
Correct(i) ==
    /\ pool[i] # None
    /\ pool[i].status = "active"
    /\ given' = [given EXCEPT ![i] = Disputed(pool[i])]
    /\ Len(pool') = Len(pool)
    /\ \A j \in DOMAIN pool \ {i} : pool'[j] = pool[j]
    /\ Keeps(pool'[i], given'[i])

Next == Insert \/ \E i \in DOMAIN pool : Correct(i)

Spec == Init /\ [][Next]_<<pool, given>>
=============================================================================
