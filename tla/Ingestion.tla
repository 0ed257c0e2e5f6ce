----------------------------- MODULE Ingestion -----------------------------
(***************************************************************************)
(* Ingestion runs: FirmMemory.ingest() over extract_all(), as CI jobs and   *)
(* memory_ingest call it (src/firm_memory/memory.py, ingestion/extraction.py *)
(* and the extractors of module Extraction).                                *)
(*                                                                          *)
(* A run asks the model about one document after the other, keeping what it *)
(* gets in a local list, and only then submits the candidates one by one to *)
(* the store it shares with other runs and with the reviewers.  The model,  *)
(* the store and the process can fail at any of these steps; the bot then   *)
(* starts over, or not.                                                     *)
(***************************************************************************)
EXTENDS Extraction

CONSTANTS
    Bots,      \* callers of ingest(); each makes one call at a time
    Batches,   \* bot -> the document sequences it ingests
    Replies,   \* answers the models give
    Failed,    \* the outcome of a document whose extraction failed
    MaxRuns,   \* bound: calls ever made
    Nothing    \* no candidate waits

ASSUME IngestionAssumption ==
    /\ Batches \in [Bots -> SUBSET Seq(Documents)]
    /\ Replies \subseteq Reply
    /\ Failed \notin Reply
    /\ MaxRuns \in Nat
    /\ Nothing \notin Candidates

VARIABLES
    extractor,  \* which extractor the deployment is configured with
    queue,      \* the candidate store: candidate id -> candidate or Nothing
    run,        \* the call each bot is making or made last
    runs,       \* calls begun so far
    taken       \* observation: ids a reviewer has taken from the queue

vars == <<extractor, queue, run, runs, taken>>

Ids == [text : Texts, scope : Scopes, type : Types]

\* A slip: the digest leaves the scope out.
IdByContent(c) == [text |-> c.text, scope |-> CHOOSE s \in Scopes : TRUE, type |-> c.type]

\* candidate_id(): the content, the scope and the type.
IdOf(c) == [text |-> c.text, scope |-> c.scope, type |-> c.type]

\* `heard` holds what became of each document asked about so far, `batch` the
\* candidates of extract_all(), `put` those the store has got of them.
Run(stage, docs, heard, batch, put) ==
    [stage |-> stage, docs |-> docs, heard |-> heard, batch |-> batch, put |-> put]

Idle == Run("idle", <<>>, <<>>, <<>>, <<>>)

\* "broken": every document failed; "upset": something else was raised while
\* extracting; "unfiled": the store raised.
Ended == {"returned", "broken", "upset", "unfiled", "dead"}

Calls == [stage : {"idle", "extracting", "filing"} \cup Ended,
          docs  : Seq(Documents),
          heard : Seq(Reply \cup {Failed}),
          batch : Seq(Candidates),
          put   : Seq(Candidates)]

TypeOK ==
    /\ extractor \in {"platform", "provider"}
    /\ queue \in [Ids -> Candidates \cup {Nothing}]
    /\ runs \in 0 .. MaxRuns
    /\ taken \subseteq Ids
    /\ run \in [Bots -> Calls]
    /\ \A b \in Bots : run[b].docs \in Batches[b] \cup {<<>>}

Init ==
    /\ extractor \in {"platform", "provider"}
    /\ queue = [id \in Ids |-> Nothing]
    /\ run = [b \in Bots |-> Idle]
    /\ runs = 0
    /\ taken = {}

-----------------------------------------------------------------------------
Asked(b) == run[b].docs[Len(run[b].heard) + 1]

MoreToAsk(b) ==
    run[b].stage = "extracting" /\ Len(run[b].heard) < Len(run[b].docs)

AllAsked(b) ==
    run[b].stage = "extracting" /\ Len(run[b].heard) = Len(run[b].docs)

AllFailed(b) ==
    run[b].docs # <<>> /\ \A i \in DOMAIN run[b].heard : run[b].heard[i] = Failed

\* ingest() is called.  With no document it comes to the same: extract_all()
\* would return the empty list that ingest() returns at once.
Begin(b) ==
    /\ run[b].stage \in {"idle"} \cup Ended
    /\ runs < MaxRuns
    /\ \E docs \in Batches[b] :
            run' = [run EXCEPT ![b] = Run("extracting", docs, <<>>, <<>>, <<>>)]
    /\ runs' = runs + 1
    /\ UNCHANGED <<extractor, queue, taken>>

\* A slip: what a later document yields takes the place of what the earlier
\* ones did.
AnsweredAfresh(b) ==
    /\ MoreToAsk(b)
    /\ \E reply \in Replies :
        /\ ~Upsetting(extractor, reply, Asked(b))
        /\ run' = [run EXCEPT ![b].heard = Append(@, reply),
                              ![b].batch = Extracted(extractor, reply, Asked(b))]
    /\ UNCHANGED <<extractor, queue, runs, taken>>

\* extract() returns the document's candidates.
Answered(b) ==
    /\ MoreToAsk(b)
    /\ \E reply \in Replies :
        /\ ~Upsetting(extractor, reply, Asked(b))
        /\ run' = [run EXCEPT ![b].heard = Append(@, reply),
                              ![b].batch = @ \o Extracted(extractor, reply, Asked(b))]
    /\ UNCHANGED <<extractor, queue, runs, taken>>

\* An ExtractionError costs the document, and extract_all() goes on.
Skip(b) ==
    /\ MoreToAsk(b)
    /\ run' = [run EXCEPT ![b].heard = Append(@, Failed)]
    /\ UNCHANGED <<extractor, queue, runs, taken>>

\* The platform's call fails, or its answer is empty, no JSON object or without
\* the list asked for.
ModelFails(b) == extractor = "platform" /\ Skip(b)

\* The same of the first of mem0's calls.
TextsFail(b) == extractor = "provider" /\ Skip(b)

\* And of the second, which is made only if the first has brought up a text;
\* what the first has found is lost with it.
ClassifierFails(b) ==
    /\ extractor = "provider"
    /\ \E reply \in Replies : Numbered(reply) # <<>>
    /\ Skip(b)

\* Any other exception leaves extract_all() and ingest(), and the candidates of
\* the documents before this one with it.  A platform without its model client
\* is a ConfigurationError at the first document.
ModelUpsets(b) ==
    /\ MoreToAsk(b)
    /\ \/ \E reply \in Replies : Upsetting(extractor, reply, Asked(b))
       \/ extractor = "platform" /\ run[b].heard = <<>>
    /\ run' = [run EXCEPT ![b].stage = "upset"]
    /\ UNCHANGED <<extractor, queue, runs, taken>>

\* Slips: total failure taken for an empty result; the loop left only with
\* something to show.
ConcludeQuietly(b) ==
    /\ AllAsked(b)
    /\ run' = [run EXCEPT ![b].stage = "filing"]
    /\ UNCHANGED <<extractor, queue, runs, taken>>

ConcludeWithFacts(b) ==
    /\ AllAsked(b)
    /\ run[b].batch # <<>>
    /\ run' = [run EXCEPT ![b].stage = "filing"]
    /\ UNCHANGED <<extractor, queue, runs, taken>>

\* The end of extract_all(): total failure is not an empty result.
Conclude(b) ==
    /\ AllAsked(b)
    /\ run' = [run EXCEPT ![b].stage = IF AllFailed(b) THEN "broken" ELSE "filing"]
    /\ UNCHANGED <<extractor, queue, runs, taken>>

-----------------------------------------------------------------------------
MoreToFile(b) ==
    run[b].stage = "filing" /\ Len(run[b].put) < Len(run[b].batch)

Upcoming(b) == run[b].batch[Len(run[b].put) + 1]

Submit(c) == queue' = [queue EXCEPT ![IdOf(c)] = c]

\* submit() of the next candidate: an upsert under its id.
File(b) ==
    /\ MoreToFile(b)
    /\ Submit(Upcoming(b))
    /\ run' = [run EXCEPT ![b].put = Append(@, Upcoming(b))]
    /\ UNCHANGED <<extractor, runs, taken>>

\* The store raises, before it has kept the candidate or after; those before it
\* stay queued and the caller is told of none.
FileFails(b) ==
    /\ MoreToFile(b)
    /\ \/ UNCHANGED queue /\ run' = [run EXCEPT ![b].stage = "unfiled"]
       \/ /\ Submit(Upcoming(b))
          /\ run' = [run EXCEPT ![b].stage = "unfiled",
                                ![b].put = Append(@, Upcoming(b))]
    /\ UNCHANGED <<extractor, runs, taken>>

\* ingest() returns the candidates it has queued.
Return(b) ==
    /\ run[b].stage = "filing"
    /\ Len(run[b].put) = Len(run[b].batch)
    /\ run' = [run EXCEPT ![b].stage = "returned"]
    /\ UNCHANGED <<extractor, queue, runs, taken>>

\* The process of one call dies, over a store that outlives it.
Die(b) ==
    /\ run[b].stage \in {"extracting", "filing"}
    /\ run' = [run EXCEPT ![b].stage = "dead"]
    /\ UNCHANGED <<extractor, queue, runs, taken>>

\* InMemoryCandidateStore: its process stops, and the queue and what every call
\* knows go with it.
Stop ==
    /\ queue' = [id \in Ids |-> Nothing]
    /\ run' = [b \in Bots |-> Run("dead", <<>>, <<>>, <<>>, <<>>)]
    /\ UNCHANGED <<extractor, runs, taken>>

\* A reviewer's approve() or reject() removes a candidate.
Decide(id) ==
    /\ queue[id] # Nothing
    /\ queue' = [queue EXCEPT ![id] = Nothing]
    /\ taken' = taken \cup {id}
    /\ UNCHANGED <<extractor, run, runs>>

-----------------------------------------------------------------------------
\* What a call in progress does next.
Advance(b) ==
    \/ ModelFails(b) \/ TextsFail(b) \/ ClassifierFails(b)
    \/ Answered(b) \/ ModelUpsets(b) \/ Conclude(b)
    \/ File(b) \/ FileFails(b) \/ Return(b)

Next ==
    \/ \E b \in Bots : Begin(b) \/ Advance(b) \/ Die(b)
    \/ \E id \in Ids : Decide(id)
    \/ Stop

Spec == Init /\ [][Next]_vars

\* A call runs on: extract_all() and ingest() are loops without a wait of their
\* own.  It assumes that the model client and the store answer or raise.
FairSpec == Spec /\ \A b \in Bots : WF_vars(Advance(b))
-----------------------------------------------------------------------------
(* What a run promises.                                                     *)

\* A text worth keeping, as the extraction prompt and the taxonomy have it.
Worth(t) ==
    /\ Judged[t].type \in Types
    /\ Clamped(Judged[t].confidence) \in MinConfidence .. Certain

\* The answer brings the text up within max_facts, and for mem0 the classifier
\* has answered for it.  The platform counts every entry of the answer, mem0's
\* extractor the legible ones.
BringsUp(by, reply, t) ==
    \E i \in DOMAIN reply.texts :
        LET place == IF by = "platform" THEN i
                     ELSE Cardinality({k \in 1 .. i : reply.texts[k] # Blank})
        IN  /\ reply.texts[i] = t
            /\ place <= MaxFacts
            /\ by = "provider" => place - 1 \in reply.numbers

\* A run that returns has put in the queue every fact worth keeping of every
\* document that was answered, under that document's name, and nothing else:
\* blank, weak, untyped and unnumbered entries cost only themselves
\* (extraction.py:108-109), failed documents only themselves
\* (extraction.py:186-187).
ReturnedIsComplete ==
    \A b \in Bots : run[b].stage = "returned" =>
        {<<run[b].put[k].text, run[b].put[k].document>> : k \in DOMAIN run[b].put}
            = UNION {{<<t, run[b].docs[i]>> :
                            t \in {t \in Texts :
                                    BringsUp(extractor, run[b].heard[i], t) /\ Worth(t)}} :
                     i \in {i \in DOMAIN run[b].docs : run[b].heard[i] # Failed}}

\* A dead model is not a quiet week (extraction.py:187-190): a run over some
\* documents returns only if one of them was answered, and it reports total
\* failure only if none was, having filed nothing.
NoQuietFailure ==
    \A b \in Bots :
        /\ run[b].stage = "returned" /\ run[b].docs # <<>> =>
                \E i \in DOMAIN run[b].heard : run[b].heard[i] # Failed
        /\ run[b].stage = "broken" =>
                /\ run[b].put = <<>>
                /\ \A i \in DOMAIN run[b].docs : run[b].heard[i] = Failed

\* The candidate is worth keeping and carries the type and the confidence given
\* to its own text, and the scope of the document it came from.
SpeaksTruly(c) ==
    /\ Worth(c.text)
    /\ c.type = Judged[c.text].type
    /\ c.confidence = Clamped(Judged[c.text].confidence)
    /\ c.scope = ScopeOf[c.document]

\* So does whatever waits for a reviewer, whatever the classifier skipped and
\* whichever run filed it.
QueueSpeaksTruly ==
    \A id \in Ids : queue[id] # Nothing => SpeaksTruly(queue[id])

\* A fact once filed waits until a person takes it: neither a later run, nor
\* the same fact from another document, nor the failure of the run that filed
\* it removes it.  A queue in memory keeps it as long as its process lives, and
\* no longer: Stop takes the queue and the calls that filed into it.
FiledFactsWait ==
    \A b \in Bots : \A k \in DOMAIN run[b].put :
        LET c == run[b].put[k]
        IN  \/ [text |-> c.text, scope |-> c.scope, type |-> c.type] \in taken
            \/ \E id \in Ids :
                    /\ queue[id] # Nothing
                    /\ queue[id].text = c.text
                    /\ queue[id].scope = c.scope
                    /\ queue[id].type = c.type

\* Where a call has got to says how far it has heard, and whether of anything
\* but failure; what it has filed is the beginning of what it has gathered.
CallStands(r) ==
    LET answered == \E i \in DOMAIN r.heard : r.heard[i] # Failed
    IN  /\ Len(r.heard) <= Len(r.docs)
        /\ r.stage \in {"broken", "filing", "returned"} => Len(r.heard) = Len(r.docs)
        /\ r.stage \in {"filing", "returned"} /\ r.docs # <<>> => answered
        /\ r.stage = "broken" => ~answered
        /\ r.stage \in {"extracting", "broken"} => r.put = <<>>
        /\ r.stage = "returned" => Len(r.put) = Len(r.batch)
        /\ Len(r.put) <= Len(r.batch)
        /\ \A k \in DOMAIN r.put : r.put[k] = r.batch[k]

\* The call has gathered the fact t of document d, and the answers it has heard
\* owe it.
Gathered(r, t, d) == \E k \in DOMAIN r.batch : r.batch[k].text = t /\ r.batch[k].document = d

Owed(by, r, t, d) ==
    \E i \in DOMAIN r.heard :
        /\ r.heard[i] # Failed
        /\ r.docs[i] = d
        /\ BringsUp(by, r.heard[i], t)
        /\ Worth(t)

GatheredIsOwed(by, r) ==
    \A t \in Texts, d \in Documents : Gathered(r, t, d) <=> Owed(by, r, t, d)

GatheredIsTrue(r) == \A k \in DOMAIN r.batch : SpeaksTruly(r.batch[k])

\* A candidate has been filed under the id, whoever has it now.
Filed(id) == id \in taken \/ queue[id] # Nothing

\* Why the above hold: at every moment a call has gathered what its answers owe
\* and nothing untrue, and the queue keeps each candidate under its own id and
\* everything ever filed, unless a reviewer has taken it.
IngestionInv ==
    /\ TypeOK
    /\ QueueSpeaksTruly
    /\ \A id \in Ids : queue[id] # Nothing => IdOf(queue[id]) = id
    /\ \A b \in Bots :
        /\ CallStands(run[b])
        /\ GatheredIsOwed(extractor, run[b])
        /\ GatheredIsTrue(run[b])
        /\ \A k \in DOMAIN run[b].put : Filed(IdOf(run[b].put[k]))

\* A call of ingest() comes back, or its process is gone.
EveryRunEnds ==
    \A b \in Bots : run[b].stage \in {"extracting", "filing"} ~> run[b].stage \in Ended

-----------------------------------------------------------------------------
(* What the repository says of a run, and the code does not do.             *)

\* extraction.py:108 "one bad fact must not cost the caller the other nine" and
\* 186 a batch "must not be lost because one of them upset the model": a run
\* that ends while extracting gives up no candidate it already had.
OneBadFactCostsOnlyItself ==
    \A b \in Bots : run[b].stage = "upset" => run[b].batch = <<>>
=============================================================================
