# firm-memory: a TLA+ verification project

This directory holds TLA+ models of firm-memory, the firm-wide engineering
memory under `src/src/firm_memory`, the TLC runs that check them on small
instances and the TLAPS proofs of the results that matter most. Paths below are
relative to `src/src/firm_memory` unless they start with `src/`.

## The system

Bots and extractors put facts forward; people endorse or refuse them; endorsed
facts are inserted into a provider's pool, which agents then search, read and
report as wrong.

| Part | State it keeps | Operations | What makes it right |
| --- | --- | --- | --- |
| Canonical model, scope, taxonomy, provenance (`models.py`, `scope.py`, `taxonomy.py`, `provenance.py`) | none: frozen values | validation, normalisation, `overlaps`, `to_dict`/`from_dict` | what is written reads back; an illegal memory cannot be built |
| Lifecycle (`lifecycle.py`) | none | `evaluate`, `approve`, `reject`, `dispute`, `supersede` | the gate's exemptions; only legal moves |
| Approval queue (`ingestion/approval.py`, `amendment.py`) | none of its own: a candidate store and the caller's stack | `submit`, `pending`, `approve`, `reject` | one decision per candidate; nothing disappears |
| Candidate stores (`ingestion/store.py`, `postgres_store.py`) | dict, JSON file or table | `add`, `get`, `remove`, `items` | `remove` is a race that one caller wins |
| Extraction (`ingestion/extraction.py`, `llm.py`, `providers/mem0/extraction.py`) | none | `extract`, `extract_all` | one bad fact or document does not cost the others |
| `FirmMemory` (`memory.py`) | 4 worker threads, counters | `search`, `get`, `propose`, `ingest`, `commit`, `correct`, `close` | reads never hold up or raise; writes raise |
| Metrics (`metrics.py`) | counters under a lock | `record`, `snapshot` | failures can be told from an empty pool |
| Providers (`providers/`) | the pool | `insert`, `search`, `get`, `update` | filters select exactly what the canonical model says |
| MCP surface (`mcp/`) | none | five tools | errors are answers |
| Review service (`review/`) | limiter table; the page's cards | queue, approve, reject | decisions are attributed and apply to what was shown |

How they interact. `FirmMemory.propose` and `.ingest` call
`ApprovalQueue.submit`, which upserts into the store under a content-addressed
id. The review service runs its endpoints on a thread pool, and other processes
share the store, so any number of `approve` and `reject` calls interleave with
each other and with submissions. `approve` removes the candidate (the claim),
amends and approves a copy, calls `provider.insert` through
`FirmMemory.commit`, and puts the original back when anything after the claim
raises. Reads go through an executor all views of a `FirmMemory` share, with a
timeout. `correct` is a guarded read followed by an unguarded whole-record
write.

What is hard here: the window between the claim and its outcome (crashes, an
ambiguous answer of the provider, a failing rollback, a re-proposal meanwhile);
the read-modify-write of the JSON file; abandoned reads that keep their worker;
the read-then-write of `correct`; boundaries of the limiter's windows; a batch
that fails half way through extraction or half way through submission; two
spellings of a scope, one for writing and one for searching; a page that is a
snapshot of a queue other people and bots keep changing.
`PROJECT.json` lists each hazard at its line.

## The modules

| Module | Models | State | Actions |
| --- | --- | --- | --- |
| `Lifecycle` | `lifecycle.py` over the record of `models.py` | constants only | operators `NeedsHuman`, `Approved`, `Disputed`, ... |
| `ApprovalGate` | `approval.py`, the write half of `memory.py`, over an atomic store | `queue` the store, `pool` the provider, `stage` and `claim` the local variables of each `approve` call, `clock`; the rest records what became of candidates | `ProposeForReview`, `ProposeAutoApproved`, `Ingest`; `Claim`, `ClaimUnanswered`, `Endorse`, `FailToCommit`, `CommitUnacknowledged`, `Restore`, `RestoreFails`, `Reject`; `Die` over a store that outlives the process, `Stop` over a queue in memory |
| `MCApprovalGate` | its small instance | | |
| `CandidateStore` | what the `CandidateStore` protocol promises | `queue`, `misled` | `Put`, `Take` |
| `CandidateFile` | `JsonFileCandidateStore` | `file`, and in `call` each operation's copy of it | `Add`, `Remove` (the read), `Stage` (temporary file), `Replace` (rename), `Abandon` (error or death) |
| `GuardedReads` | `_guarded`, `search`, `get`, `close` and the executor | `line`, `worker`, `future`, `reply`, `metrics`, `closed`; `hung` is the provider's choice | `Read`, `ReadClosed`, `Deliver`, `TimeOut`, `Close`; `PickUp`, `Answer` |
| `Corrections` | `correct` over `provider.update` | `pool`, `reason` (the dispute metadata), `stage`, `copy` | `ReadNothing`, `ReadAndDispute`, `ReadAndRefuse`, `Write`, `WriteFails`, `WriteUnacknowledged` |
| `RateLimiter` | `throttle.py` and the middleware | `now`, `counts`; a log of what was let through | `OpenWindow`, `CountRequest`, `Refuse`, `Tick` |
| `Extraction` | the two extractors, from a model's answer to candidates | constants only | operators `PlatformEntries`, `Numbered`, `Classified`, `Paired`, `Clamped`, `Unbuildable`, `Extracted`, ...; `Rank`, `Nth` and `Those` are the filtering of a list, written so that it can be reasoned about |
| `Ingestion` | `memory_ingest`, `ingest`, `extract_all` over a shared queue | `extractor` the configured one, `queue`, and in `run` the local variables of each call | `Begin`, `Answered`, `ModelFails`, `TextsFail`, `ClassifierFails`, `ModelUpsets`, `Conclude`, `File`, `FileFails`, `Return`, `Decide`; `Die` and `Stop` as in the gate |
| `MCIngestion` | its small instance | | |
| `Canonical` | `models.py`, `scope.py`, the query of `providers/base.py` | constants only | operators `Consistent`, `Selects`, `Disputed`, ... |
| `MemoryPool` | what `MemoryProvider` promises; `InMemoryProvider` keeps it exactly | `pool`, `given` | `Insert`, `Correct` |
| `Recall` | the mem0 provider's projection and filters; the scopes the MCP tools use | `records`, mem0's rows as functions from keys to values; `foreign` how many other programs left | `Insert`, `Correct`; searches as operators over the rows |
| `MCRecall` | its small instance | | |
| `ReviewSession` | the page, the endpoints and their status codes, over `ApprovalGate` | the gate's, `shown` the cards of each page, `request` the decision under way | `Load`, `LoadFails`, `Decide`; `TurnAway`, `TurnOut`, `RefuseBody`, `RefuseScope`, `Unreachable`, `ClaimLost`, `Taken`, `TurnDown`, `Begin`, `Approve`, `Fail`, `FailStored`, `RollBack`, `Crash`, `Shutdown`; `Propose` |
| `MCReviewSession` | its small instance | | |
| `ApprovalGateProofs`, `CandidateFileProofs`, `CorrectionsProofs`, `RateLimiterProofs`, `GuardedReadsProofs`, `IngestionProofs`, `RecallProofs`, `ReviewSessionProofs` | the theorems about the module each is named after | | |

A *fact* stands for content, scope and type together, which is what
`candidate_id` digests; of its scope and type the rules only ask whether it is
firm-wide and whether it is critical. `recorded` numbers the proposals: it
stands for the provenance that tells two versions of a fact apart. Confidence,
a float in [0, 1], is an integer in `0 .. Certain`.

The sets `refused`, `logged`, `dropped`, `replaced`, `doubted` and `filed` of
`ApprovalGate`, `misled` and `won` of `CandidateFile`, `first` and `written` of
`Corrections`, `admitted` and `refused` of `RateLimiter`, `taken` of
`Ingestion`, `given` of `Recall`, `behind` and `answer` of
`ReviewSession` are observations: no guard reads them.

How they compose. `ReviewSession` extends `ApprovalGate` and conjoins each of
the gate's actions with the request it serves and the answer it gives, so every
race and failure of the gate meets a page and a status code. `Ingestion` has the
queue it shares with reviewers as a function from ids to candidates, and a
reviewer as the one action `Decide`. `CandidateFile` implements `CandidateStore`
and `Recall` implements `MemoryPool`, each by an `INSTANCE` whose substitution is
the refinement mapping: the file's contents, and the rows read back through
`to_memory`.

Three stores can be configured, and they fail differently. `Die` is one process
dying over a file or a table that outlives it; `Stop` is the end of the one
process that holds the default store, a dict, and takes the whole queue and every
call with it (in `ReviewSession`, `Shutdown`). What is promised of waiting
candidates is therefore promised up to that: `Accounted` has it among the ends,
and `FiledFactsWait` speaks of the calls of the process that is alive.

In `Recall` a key is the sequence of words its underscores separate, since
whether `scope_repo_a_b` reads back as the repo `a_b` depends on where the code
cuts it. In `Extraction` a text's quality (its type and raw confidence, NaN and
unreadable ones included) is the constant `Judged`, so that what a run should
have filed can be said without the extractor.

An operator named `GateInv`, `FileInv`, `ReadsInv`, `CorrectionsInv`,
`LimiterInv`, `IngestionInv`, `RecallInv` or `SessionInv` is the inductive
invariant of its module, with the module's type invariant as its first conjunct;
the runs check it (`GateInv` as part of `SessionInv`) and the proofs rest on it.

Operators introduced as a slip are the code with one mistake in it; the runs
use them to show that each property would notice.

## The runs

| Run | Instance | Shows |
| --- | --- | --- |
| `gate` | 2 reviewers, 2 facts (one firm-wide), 2 confidences, 2 proposals, pool of 2 | no candidate is held twice, decided twice or lost (`OneHolder`, `DecidedOnce`, `Accounted`), what is decided is what was filed (`QueuedAsFiled`), nothing passes unendorsed or unexempted (`GateHolds`), and under fairness every claim settles (`ClaimsSettle`) |
| `file` | 2 callers, 2 facts, 3 adds, unreadable files included | the file is always one whole queue and every copy of it one change away from one (`FileInv`); it implements `CandidateStore` until a rename acts on an outdated or unread queue |
| `file_claimed_twice` | same, readable file | violated: two callers are handed one candidate (`approval.py:110`) |
| `reads` | 3 calls, 2 workers, up to 2 hung | every read returns, late answers reach nobody, failures are counted from what callers were told (`ReadsInv`), fewer hung calls than workers cost the others nothing |
| `corrections` | 3 reporters, 2 memories, confidences 0 to 3 with a penalty of 2 | the penalty is taken once, a recorded correction stays flagged, a flag names someone whose write was carried out; whatever a call is about to write is the first dispute (`CorrectionsInv`) |
| `limiter` | 2 clients, limit 2, window 2, sweep above 1, times 0 to 5 | bursts stay within twice the limit, nobody is refused early, the sweep is harmless |
| `ingestion` | 2 bots, 2 calls, batches of up to 2 of 3 documents, 6 texts, 6 answers, a cut at 2, both extractors | a run that returns has filed exactly what was worth keeping; a dead model is not a quiet week; a queued fact carries its own type, confidence and scope; a filed fact waits for a person; at every moment a call has gathered what its answers owe (`IngestionInv`); every run ends |
| `ingestion_lost` | same | violated: a NaN or a huge confidence, an infinite index or a misfiled document takes the whole batch with it (`ingestion/extraction.py:186`) |
| `recall` | a repo `a_b`, a domain `b` and the firm; every proposal over 2 types, 3 tiers, a task, an author, 2 confidences and 3 kinds of metadata; 6 kinds of foreign rows; 2 rows; 252 queries | the rows implement `MemoryPool`, and each is what is written for the memory it was last handed (`RecallInv`); searches find exactly what they select of these rows, and of foreign ones nothing else; firm knowledge is always found |
| `legacy_unfound` | same | violated: a row of an earlier client reads back and no search returns it (`providers/mem0/mapping.py:135`) |
| `review` | 2 reviewers of whom one edits, one proposed fact and one an edit can make, 2 confidences, 2 proposals, pool of 1, no automatic approval | what is endorsed is what the card said with the reviewer's edits; the gate keeps its invariant under the session (`SessionInv`); no answer hides a decision or makes one up (`NoDecisionHidden`) |
| `review_answers` | same | violated: the answers about a failure, and the page about a rejection, say what is not so (`review/app.py:73`, `:80`, `review/static/index.html:578`) |

Bounds. Two proposals are enough for a candidate and a later version of its
fact, or two facts at once; two reviewers are enough for every race over one
candidate, and the theorems hold for any number of both. A pool of two is
reached, and holds a duplicate of a doubted candidate. Three adds on two facts
give two callers stale copies of each other in both orders. Two workers and up to two
hung calls leave one worker, the least that serves, or none; three calls put one
in the line behind both. A penalty of 2 on confidences 0 to 3 reaches the floor
and a second penalty that would show. Five ticks are two and a half windows.

The answers of `ingestion` hold, between them, a blank that takes a place or a
number, a text beyond the cut, a number the classifier skips before and after
the one it answers, an unreadable and an infinite number, NaN, and an integer no
float holds; two calls give a retry after a failure and two runs over one document at once. Two rows
give a memory beside another one that a correction must not touch, or one beside
a foreign row; more rows would not meet, as no operation reads two. The scale of
`recall` (0 to 9 in steps of 3, 4 being the confidence that rounds) has a value
that moves and one that does not; that a second rounding moves nothing more is
what repeated corrections show. In `review`, two proposals are a card and the
version that replaces it, in either order with every failure; a pool of 1 bounds
the approvals, not the attempts. An edit may change the fact and the confidence
at once; one that is refused for a field stands for all that have that field,
since nothing else of it is looked at. A reviewer has one decision under way and
does not reload meanwhile; two tabs are two reviewers. No fact of the instances is
critical: that exemption is read from the policy like the firm-wide one, and
`GateSound` has it for every policy.

Fairness. `gate` assumes that an `approve` call that has claimed a candidate is
scheduled again: it is a plain function on a pool thread, so the assumption is
that `provider.insert` returns, for which the code sets no timeout. Nothing is
assumed of bots, of reviewers who have not begun, or of crashes. `reads`
assumes that `future.result(timeout)` returns, that an idle pool thread takes
what is in the line, and that the provider answers the calls it answers at all;
the calls it never answers are chosen freely. `ingestion` assumes that the
completion client and the store answer or raise, nothing of bots; `extract_all`
and `ingest` are plain loops. `review_answers` assumes that a request that has arrived
runs on (the endpoints are ordinary functions on the server's thread pool), so
that its counterexample is not one of a server that stops. No fairness is needed
elsewhere: the operations have no loop and no wait. `CHECK_DEADLOCK FALSE`
is set where the bounds, or every call having been answered, let the model stop.

## What is proved

`ApprovalGateProofs` proves, for every set of facts, reviewers and confidences,
every policy and every bound, from `LifecycleAssumption` and `GateAssumption`
(a penalty and a threshold within the scale, reviewers among the people, an
empty slot that is not a memory):

- `TypeCorrect`: `Spec => []TypeOK`.
- `GateSound`: `Spec => []GateHolds`. The invariant is inductive given the
  types; the argument is that `Insert` is the only change of the pool, and its
  two kinds of callers either sign with a reviewer's name or have passed
  `evaluate()` (`PolicyExempts`).
- `DecidedOnceHolds`, `OneHolderHolds`, `AccountedHolds`, `QueuedAsFiledHolds`,
  all from `InvHolds: Spec => []GateInv`. None of the four is inductive: that a
  candidate is pooled once needs that its number is new when it is filed
  (`Stamped`), that what a call holds is neither in the queue nor held by
  another call (`OneHolder`), that it is a filed candidate (`QueuedAsFiled`),
  and that what has met its end does not come back (`GoneForGood`). `GateInv` is
  the conjunction; `NextInv` has one lemma per kind of action.

`CandidateFileProofs`, for every set of callers and facts and every number of
adds, with reads that fail or not (`FileAssumption`: the two markers are not
queues):

- `WholeQueueHolds`, `ClaimedOnceHolds`, and `FileImplementsStore: Spec =>
  ImplementsStore`, the refinement of `CandidateStore`, step by step. All follow
  from `FileInvHolds`. That a candidate is claimed once as long as no rename was
  misled needs to know what each caller's copy of the file holds: one change to
  a whole queue (`OneChange`), by entries whose `add()` is told apart from every
  other, and an `add()` that has not reached the file has left no trace
  (`Unborn`).

`GuardedReadsProofs`, for every number of calls, workers and hung calls
(`ReadsAssumption`: finitely many workers):

- `FailuresCountedHolds` and `ReplyIsFinalHolds`, from `ReadsInvHolds`: an
  answer is given only once the call behind it has ended, so how it ended no
  longer changes. The counting is by cardinalities of sets of calls.

`CorrectionsProofs`, for every set of reporters and memories, scale and penalty
(`LifecycleAssumption`, `CorrectionsAssumption`):

- `PenaltyOnceHolds`, `RecordedStaysFlaggedHolds`, `FlagIsExplainedHolds`, from
  `CorrectionsInvHolds`. Stale copies are harmless because every copy in hand is
  the first dispute of the memory as seeded, whoever holds it and since when
  (`CopyIsFirstDispute`), so a late write repeats what is there.

`RateLimiterProofs`, for every limit, window, table size and set of clients
(`LimiterAssumption`: finitely many clients, a limit and a window of at least 1):

- `BurstsBoundedHolds`, `RefusedForCauseHolds`, and the action property
  `TableHoldsRecentHolds`, from `LimiterInvHolds`: the table counts exactly the
  requests let through in every window still open, and what it has forgotten is
  at least a window old (`Windowed`).

`IngestionProofs`, whatever the models answer, for every number of bots,
documents and texts, and both extractors (`ExtractionAssumption`,
`IngestionAssumption`: answers, batches and judgements are of their kinds):

- `NoQuietFailureHolds`, `QueueSpeaksTrulyHolds`, `FiledFactsWaitHolds`,
  `ReturnedIsCompleteHolds`, from `IngestionInvHolds`. The invariant is an
  account kept at every moment: a call has gathered a text of a document exactly
  if an answer it has heard about that document owes it (`GatheredIsOwed`),
  nothing gathered is untrue (`GatheredIsTrue`), and what it has put is filed or
  has been taken. The lemmas under it say what each extractor makes of an
  answer. Filtering a list is stated through the rank of a position
  (`Rank`, `Nth`), which needs counting and no induction.

`RecallProofs`, for every set of names, types, tasks, authors, metadata names,
proposals, queries and foreign rows (`CanonicalAssumption`, `RecallAssumption`:
the sentinel for an absent value is not a value, the step of the rounding is odd
and divides the scale, what others wrote is of the kinds the decoder looks for,
metadata is not named like an optional field, an entity key or the content). The
owner of the pool is any label:

- `ImplementsPoolHolds: Spec => ImplementsPool`, the refinement of `MemoryPool`.
  Its core is `ReadsBack`: a memory written beside any entity keys that do not
  name another run reads back as itself, up to rounding and metadata under a
  taken name. It rests on `AtomKeyReads` (the key of an atom reads back as that
  atom however many words its name has), `RowAt` (which of the seven layers of a
  row decides each key) and `RoundedNear`.
- `SearchAgreesHolds` and `FirmKnowledgeIsFoundHolds`: `BranchMeans` reads a
  branch of the filter as its five conditions, `FindsOwn` shows them equal to
  the canonical selection for a row of this provider and `FindsOnlySelected`
  that a search for no task finds nothing it does not select, whoever wrote it.
  That a row someone else wrote is found where it is selected does not hold
  (`legacy_unfound`).
- All from `RecallInvHolds`: a row of this provider is, key for key, what it
  writes for the memory it was last handed. The types alone would not do: that
  a corrected row can still be found needs the entity keys mem0 kept to be those
  of the corrected memory (`EntitiesStay`).

`ReviewSessionProofs`, for every number of reviewers and facts, every editing
right and bound (the gate's assumptions and `SessionAssumption`):

- `SessionImplementsGate: SessionSpec => Spec`: every step of the session is a
  step of the gate or leaves it alone, so the gate's theorems hold of the review
  service as well.
- `EndorsedAsShownHolds` and the action property `NoDecisionHiddenHolds`, from
  `SessionInvHolds`: what is on a card was filed, and a call under way serves an
  approval whose body fitted and whose scope was built (`CardsFiled`,
  `CallsAreApprovals`). `NoDecisionHidden` says of a failure that nobody has
  decided by it, and not where the candidate is: the sentences of `review/app.py`
  about that do not hold (`review_answers`).

Each of these modules also has its type invariant as a theorem (`FileTypes`,
`RecallTypes`, ...). So every invariant and every action property that a passing
run checks is a theorem, and both refinements are.

Only model-checked: liveness (`ClaimsSettle`, `EveryReadReturns`,
`FewHungCallsCostOnlyThemselves`, `EveryRunEnds`), which rests on fairness and `ENABLED` and is out of the prover's reach. The runs that
expect a violation show a behaviour; there is nothing to prove of them.

The proofs hold for every bound, but share the models' abstractions: what runs
between two uses of shared state is one action, mem0 does what `Recall` says of
it, and the content of a memory is left out.

## What the code does that a reader may not expect

Findings of the violated runs are in `PROJECT.json`. `AnswersAreTrue`, the property
of `review_answers`, has three parts, and each is violated by itself (put its name
in `ReviewAnswers.cfg` to see it):

- `NothingLostWhenUnreachable`: a 503 says that nothing has been lost, also when
  the `DELETE` took effect and its reply was lost. This is the shortest behaviour,
  the one the run prints.
- `PutBackWhenRefused`: a 502 says that the write was not accepted and that the
  candidate was put back, so that nothing is lost. It is in the log alone when the
  rollback fails as well (`ingestion/approval.py:135`), in the pool too when the
  provider stored it before it raised (`memory.py:422`), and back in the place of
  a newer version when one was filed meanwhile (`ingestion/approval.py:133`).
- `RefusedStaysRefused` (an invariant of the gate): the page says that a rejected
  fact will not be proposed again unchanged, and `models.py:46` that it is kept
  for that; `reject()` keeps nothing (`ingestion/approval.py:154`).

Besides them, the models show, or building them showed:

- After `close()` of one view, a read on any view raises: the submission is
  outside the `try` (`memory.py:441`, against `memory.py:278`). `GuardedReads` has
  it as `ReadClosed`; `EveryReadReturns` counts it as a return.
- A proposal that names no scope takes the instance's, which from `from_env()` is
  firm-wide (`mcp/tools.py:271`), though `firm` is documented as an explicit claim
  (`mcp/tools.py:263`). It is `WriteScope` in `Recall`.

- A reviewer whose card shows a newer version, over which a failed approval has
  put the older one back (`ingestion/approval.py:133`, against the docstring at
  `ingestion/postgres_store.py:83`), endorses the older: `EndorsedAsShown` allows
  for it.
- A claim of a row that does not decode deletes the row before it fails
  (`ingestion/postgres_store.py:115`), and of a type the taxonomy has lost the
  reviewer reads 400, as if the edit were at fault.
- An `OSError` of the JSON store is answered 500: nothing wraps it
  (`ingestion/store.py:117-125`).
- As many hung calls as there are workers end the reads of every view for good
  (`memory.py:437` calls the cost a wasted query).
- Of two corrections made at once only the later one's reason and reporter stay
  (`memory.py:402-409`).
- `search(scope=None)` means everything to the in-memory provider and firm-wide
  to mem0; an empty task narrows the first and not the second. `FirmMemory`
  always passes a scope.
- A row that cannot be read takes one of the `top_k` places of a search before
  it is dropped.
- Metadata named like an optional field (`author`, `task`), an entity key or a
  content key is stored as that field. `Recall` assumes there is none.

## Plan

1. `Lifecycle`, `ApprovalGate`, its proofs: done.
2. `CandidateFile` with `CandidateStore`, `GuardedReads`, `Corrections`,
   `RateLimiter`: done, with their proofs.
3. `Extraction` and `Ingestion`, their proofs: done.
4. `Canonical`, `MemoryPool`, `Recall`, their proofs: done.
5. `ReviewSession`, its proofs and its refinement of the gate: done.
6. `ReviewedPool`: an abstract specification of what the gate is for (each
   candidate undecided, then decided once), implemented by `ApprovalGate`.
7. The arithmetic of dispute and re-confirmation over all confidences.

## What is not modelled

Configuration, repository identity, store selection and server start-up run
once and keep no state. Prompts, the parsing of a model's answer (it parses or
is an `ExtractionError`), rendering and logging are left out; so is the page's
layout. A token stands for the reviewer it was issued to; how it is compared is
left out.
`items()` and `get()` of the stores change nothing; `items()` appears as the
page's snapshot. A row of the queue that does not decode appears as a claim that
deletes it and fails (`ClaimLost`) and as a page that cannot be loaded
(`LoadFails`). Metadata named like a field of the payload is assumed away in
`Recall`: no caller in the program attaches any. A model call or a provider call
that never returns is outside the fairness assumed of runs and approvals. Of a memory, content,
timestamps and ids appear only where something depends on them, and the author
stands for the other optional provenance fields, which are treated alike.
Ranking, scores and `top_k` of a search, and latencies in the metrics are left
out. `supersede()` has no caller in the program. The examples are clients of the
library.
