---------------------------- MODULE GuardedReads ----------------------------
(***************************************************************************)
(* Best-effort reads: search() and get() of src/firm_memory/memory.py run   *)
(* their provider call on a small pool of worker threads and wait for it    *)
(* under a timeout.  A call that times out is abandoned, not cancelled: the *)
(* caller goes on with nothing while the worker, or the place in the line,  *)
(* stays taken.  All views of one FirmMemory share the pool, the counters   *)
(* and the effect of close().                                               *)
(***************************************************************************)
EXTENDS Integers, Sequences, FiniteSets

CONSTANTS
    MaxCalls,   \* bound: reads ever started; each is made by a thread of its own
    Workers,    \* the threads of the pool: max_workers=4
    MaxHung,    \* bound: calls the provider never answers
    Nothing     \* no call

ASSUME ReadsAssumption ==
    /\ MaxCalls \in Nat
    /\ MaxHung \in Nat
    /\ IsFiniteSet(Workers)
    /\ Nothing \notin Nat

Calls == 1 .. MaxCalls

\* How the provider call can end.  From Python 3.11 on, the TimeoutError a
\* provider raises is the same class as the one that a late future raises.
Outcomes == {"result", "error", "timeout"}

VARIABLES
    line,      \* the pool's queue of submitted calls
    worker,    \* the call each thread is running, or Nothing
    future,    \* what has become of each submitted call
    reply,     \* what the caller got: a result, or the default because the call
               \* failed or was abandoned, or an exception
    metrics,   \* Metrics: one bucket
    closed,    \* close() has been called
    hung       \* the calls the provider will never answer

vars == <<line, worker, future, reply, metrics, closed, hung>>

\* Types, and every call is in one place: in the line once, on one worker, or
\* on neither.
TypeOK ==
    /\ line \in Seq(Calls)
    /\ worker \in [Workers -> Calls \cup {Nothing}]
    /\ future \in [Calls -> {"none", "queued", "running"} \cup Outcomes]
    /\ reply \in [Calls -> {"none", "result", "failed", "abandoned", "raised"}]
    /\ metrics \in [calls : Nat, failures : Nat, timeouts : Nat]
    /\ closed \in BOOLEAN
    /\ hung \subseteq Calls
    /\ \A n \in Calls :
            /\ future[n] = "queued" <=> \E i \in DOMAIN line : line[i] = n
            /\ future[n] = "running" <=> \E w \in Workers : worker[w] = n
    /\ \A i, j \in DOMAIN line : line[i] = line[j] => i = j
    /\ \A v, w \in Workers : worker[v] = worker[w] /\ worker[v] # Nothing => v = w

Init ==
    /\ line = <<>>
    /\ worker = [w \in Workers |-> Nothing]
    /\ future = [n \in Calls |-> "none"]
    /\ reply = [n \in Calls |-> "none"]
    /\ metrics = [calls |-> 0, failures |-> 0, timeouts |-> 0]
    /\ closed = FALSE
    /\ hung \in {H \in SUBSET Calls : Cardinality(H) <= MaxHung}

Waiting(n) == future[n] # "none" /\ reply[n] = "none"
Finished(n) == future[n] \in Outcomes

-----------------------------------------------------------------------------
(* The callers: _guarded() in the thread that reads.                        *)

Unused(n) ==
    /\ future[n] = "none" /\ reply[n] = "none"
    /\ \A k \in 1 .. n - 1 : future[k] # "none" \/ reply[k] # "none"

Read(n) ==
    /\ ~closed
    /\ Unused(n)
    /\ future' = [future EXCEPT ![n] = "queued"]
    /\ line' = Append(line, n)
    /\ UNCHANGED <<worker, reply, metrics, closed, hung>>

\* Submitting to a pool that was shut down raises, outside the try.
ReadClosed(n) ==
    /\ closed
    /\ Unused(n)
    /\ reply' = [reply EXCEPT ![n] = "raised"]
    /\ UNCHANGED <<line, worker, future, metrics, closed, hung>>

\* Metrics.record()
Record(failed, timedOut) ==
    metrics' = [calls    |-> metrics.calls + 1,
                failures |-> metrics.failures + IF failed THEN 1 ELSE 0,
                timeouts |-> metrics.timeouts + IF timedOut THEN 1 ELSE 0]

\* A slip: a late answer is delivered to a caller that has gone.
DeliverLate(n) ==
    /\ Finished(n) /\ reply[n] \in {"none", "abandoned"}
    /\ reply' = [reply EXCEPT ![n] = IF future[n] = "result" THEN "result" ELSE "failed"]
    /\ Record(future[n] # "result", future[n] = "timeout")
    /\ UNCHANGED <<line, worker, future, closed, hung>>

\* The call ends in time: with a result, or in an exception that is absorbed.
Deliver(n) ==
    /\ Waiting(n) /\ Finished(n)
    /\ reply' = [reply EXCEPT ![n] = IF future[n] = "result" THEN "result" ELSE "failed"]
    /\ Record(future[n] # "result", future[n] = "timeout")
    /\ UNCHANGED <<line, worker, future, closed, hung>>

\* Slips: the timeout runs from the moment a worker takes the call; a timeout
\* is not counted among the failures.
TimeOutOnceRunning(n) ==
    /\ Waiting(n) /\ future[n] = "running"
    /\ reply' = [reply EXCEPT ![n] = "abandoned"]
    /\ Record(TRUE, TRUE)
    /\ UNCHANGED <<line, worker, future, closed, hung>>

TimeOutUncounted(n) ==
    /\ Waiting(n) /\ ~Finished(n)
    /\ reply' = [reply EXCEPT ![n] = "abandoned"]
    /\ Record(FALSE, TRUE)
    /\ UNCHANGED <<line, worker, future, closed, hung>>

\* The timeout runs from the submission, whether or not a worker has the call.
TimeOut(n) ==
    /\ Waiting(n) /\ ~Finished(n)
    /\ reply' = [reply EXCEPT ![n] = "abandoned"]
    /\ Record(TRUE, TRUE)
    /\ UNCHANGED <<line, worker, future, closed, hung>>

\* close(): no further submissions; what was submitted still runs.
Close ==
    /\ ~closed
    /\ closed' = TRUE
    /\ UNCHANGED <<line, worker, future, reply, metrics, hung>>

-----------------------------------------------------------------------------
(* The pool and the provider.                                               *)

\* A slip: the call stays at the head of the line.
PickUpByReading(w) ==
    /\ worker[w] = Nothing /\ line # <<>>
    /\ worker' = [worker EXCEPT ![w] = Head(line)]
    /\ future' = [future EXCEPT ![Head(line)] = "running"]
    /\ UNCHANGED <<line, reply, metrics, closed, hung>>

\* An abandoned call is picked up all the same.
PickUp(w) ==
    /\ worker[w] = Nothing /\ line # <<>>
    /\ worker' = [worker EXCEPT ![w] = Head(line)]
    /\ future' = [future EXCEPT ![Head(line)] = "running"]
    /\ line' = Tail(line)
    /\ UNCHANGED <<reply, metrics, closed, hung>>

\* A slip: a provider error kills the thread that met it.
AnswerOrDie(w) ==
    /\ worker[w] \notin hung \cup {Nothing}
    /\ \E outcome \in Outcomes :
            /\ future' = [future EXCEPT ![worker[w]] = outcome]
            /\ worker' = IF outcome = "result"
                            THEN [worker EXCEPT ![w] = Nothing] ELSE worker
    /\ UNCHANGED <<line, reply, metrics, closed, hung>>

\* The provider answers or raises, and the worker is free again.
Answer(w) ==
    /\ worker[w] \notin hung \cup {Nothing}
    /\ \E outcome \in Outcomes : future' = [future EXCEPT ![worker[w]] = outcome]
    /\ worker' = [worker EXCEPT ![w] = Nothing]
    /\ UNCHANGED <<line, reply, metrics, closed, hung>>

-----------------------------------------------------------------------------
Next ==
    \/ \E n \in Calls : Read(n) \/ ReadClosed(n) \/ Deliver(n) \/ TimeOut(n)
    \/ \E w \in Workers : PickUp(w) \/ Answer(w)
    \/ Close

Spec == Init /\ [][Next]_vars

\* future.result(timeout) returns; an idle thread takes what is in the line;
\* the provider answers the calls it answers at all.
FairSpec ==
    /\ Spec
    /\ \A n \in Calls : WF_vars(Deliver(n) \/ TimeOut(n))
    /\ \A w \in Workers : WF_vars(PickUp(w)) /\ WF_vars(Answer(w))

-----------------------------------------------------------------------------
(* What best effort means.                                                  *)

Got(what) == {n \in Calls : reply[n] \in what}
GotTimeout == {n \in Calls : reply[n] = "failed" /\ future[n] = "timeout"}

\* Every outcome is counted where an operator looks (metrics.py:3): a call that
\* gave the caller nothing because it failed or was abandoned is a failure, and
\* nothing else is.  TimeoutErrors of the provider pass for timeouts.
FailuresCounted ==
    /\ metrics.calls = Cardinality(Got({"result", "failed", "abandoned"}))
    /\ metrics.failures = Cardinality(Got({"failed", "abandoned"}))
    /\ metrics.timeouts = Cardinality(Got({"abandoned"})) + Cardinality(GotTimeout)

\* What a caller was told stands: the late answer of an abandoned call reaches
\* nobody.
ReplyIsFinal == [][\A n \in Calls : reply[n] # "none" => reply'[n] = reply[n]]_vars

\* A read never holds its caller up, whatever the provider and the other calls
\* do, close() included.
EveryReadReturns == \A n \in Calls : Waiting(n) ~> ~Waiting(n)

\* As long as fewer calls hang than there are workers, those that do not hang
\* get their answer from the provider, sooner or later.
FewHungCallsCostOnlyThemselves ==
    \A n \in Calls :
        n \notin hung /\ Cardinality(hung) < Cardinality(Workers) /\ future[n] = "queued"
            ~> Finished(n)

-----------------------------------------------------------------------------
(* The inductive invariant behind FailuresCounted.                          *)

\* What a caller was given had arrived, so how that call ended no longer
\* changes.
ReadsInv ==
    /\ TypeOK
    /\ FailuresCounted
    /\ \A n \in Calls : reply[n] \in {"result", "failed"} => Finished(n)
=============================================================================
