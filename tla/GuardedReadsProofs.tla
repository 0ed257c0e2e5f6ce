-------------------------- MODULE GuardedReadsProofs --------------------------
(***************************************************************************)
(* Proofs about best-effort reads, for any number of calls, of worker       *)
(* threads and of calls the provider never answers.                         *)
(***************************************************************************)
EXTENDS GuardedReads, FiniteSetTheorems, SequenceTheorems, TLAPS

-----------------------------------------------------------------------------
(* Counting replies.                                                        *)

LEMMA CallsFinite ==
    /\ IsFiniteSet(Calls)
    /\ \A S : S \subseteq Calls => IsFiniteSet(S) /\ Cardinality(S) \in Nat
<1>1. IsFiniteSet(Calls)
  BY FS_Interval, ReadsAssumption DEF Calls
<1>. QED
  BY <1>1, FS_Subset, FS_CardinalityType

\* One more call in a set of calls.
LEMMA OneMore ==
    ASSUME NEW S, S \subseteq Calls, NEW n \in Calls, n \notin S
    PROVE  Cardinality(S \cup {n}) = Cardinality(S) + 1
BY CallsFinite, FS_AddElement

\* A reply that a caller gets is counted once, among those of its kind.
LEMMA ReplyCounted ==
    ASSUME NEW n \in Calls, NEW r, NEW what, "none" \notin what,
           DOMAIN reply = Calls, reply[n] = "none",
           reply' = [reply EXCEPT ![n] = r]
    PROVE  Cardinality(Got(what))' = Cardinality(Got(what)) + IF r \in what THEN 1 ELSE 0
<1>1. \A m \in Calls : reply'[m] = IF m = n THEN r ELSE reply[m]
  OBVIOUS
<1>2. Got(what) \subseteq Calls /\ n \notin Got(what)
  BY DEF Got
<1>3. CASE r \in what
  <2>1. Got(what)' = Got(what) \cup {n}
    BY <1>1, <1>3 DEF Got
  <2>. QED
    BY <1>2, <1>3, <2>1, OneMore
<1>4. CASE r \notin what
  <2>1. Got(what)' = Got(what)
    BY <1>1, <1>2, <1>4 DEF Got
  <2>2. Cardinality(Got(what)) \in Nat
    BY <1>2, CallsFinite
  <2>. QED
    BY <1>4, <2>1, <2>2
<1>. QED
  BY <1>3, <1>4

-----------------------------------------------------------------------------
(* The inductive invariant: types and the place of every call.              *)

LEMMA InitTypes == Init => TypeOK
<1>. SUFFICES ASSUME Init PROVE TypeOK
  OBVIOUS
<1>1. line \in Seq(Calls) /\ DOMAIN line = {}
  BY EmptySeq DEF Init
<1>2. hung \subseteq Calls
  BY DEF Init
<1>3. \A n \in Calls : n # Nothing /\ future[n] = "none"
  BY ReadsAssumption DEF Init, Calls
<1>4. /\ metrics \in [calls : Nat, failures : Nat, timeouts : Nat]
      /\ reply \in [Calls -> {"none", "result", "failed", "abandoned", "raised"}]
      /\ worker \in [Workers -> Calls \cup {Nothing}]
      /\ \A w \in Workers : worker[w] = Nothing
      /\ future \in [Calls -> {"none", "queued", "running"} \cup Outcomes]
      /\ closed \in BOOLEAN
  BY DEF Init
<1>. QED
  BY <1>1, <1>2, <1>3, <1>4 DEF TypeOK

\* The pool's queue with one more call at its end, or without its first.
LEMMA Lined ==
    ASSUME NEW n \in Calls, NEW s \in Seq(Calls)
    PROVE  /\ Len(s) \in Nat /\ DOMAIN s = 1 .. Len(s)
           /\ Append(s, n) \in Seq(Calls)
           /\ DOMAIN Append(s, n) = 1 .. Len(s) + 1
           /\ \A i \in 1 .. Len(s) : Append(s, n)[i] = s[i]
           /\ Append(s, n)[Len(s) + 1] = n
BY AppendProperties, LenProperties

LEMMA Unlined ==
    ASSUME NEW s \in Seq(Calls), s # <<>>
    PROVE  /\ Len(s) \in Nat \ {0} /\ DOMAIN s = 1 .. Len(s)
           /\ Head(s) \in Calls /\ Head(s) = s[1]
           /\ Tail(s) \in Seq(Calls)
           /\ DOMAIN Tail(s) = 1 .. Len(s) - 1
           /\ \A i \in 1 .. Len(s) - 1 : Tail(s)[i] = s[i + 1]
BY HeadTailProperties, LenProperties, EmptySeq

LEMMA ReadTypes == ASSUME TypeOK, NEW n \in Calls, Read(n) PROVE TypeOK'
<1>1. /\ line \in Seq(Calls) /\ line' = Append(line, n)
      /\ future[n] = "none" /\ future' = [future EXCEPT ![n] = "queued"]
      /\ \A i \in DOMAIN line : line[i] # n
  BY DEF Read, Unused, TypeOK
<1>2. /\ Len(line) \in Nat /\ DOMAIN line = 1 .. Len(line)
      /\ line' \in Seq(Calls) /\ DOMAIN line' = 1 .. Len(line) + 1
      /\ \A i \in 1 .. Len(line) : line'[i] = line[i]
      /\ line'[Len(line) + 1] = n
  BY <1>1, Lined
<1>3. \A m \in Calls : future'[m] = IF m = n THEN "queued" ELSE future[m]
  BY <1>1 DEF TypeOK
<1>4. \A m \in Calls : future'[m] = "queued" <=> \E i \in DOMAIN line' : line'[i] = m
  <2>. TAKE m \in Calls
  <2>1. CASE m = n
    BY <1>2, <1>3, <2>1
  <2>2. CASE m # n
    <3>1. future[m] = "queued" <=> \E i \in DOMAIN line : line[i] = m
      BY DEF TypeOK
    <3>2. (\E i \in DOMAIN line : line[i] = m) <=> \E i \in DOMAIN line' : line'[i] = m
      BY <1>2, <2>2
    <3>. QED
      BY <1>3, <2>2, <3>1, <3>2
  <2>. QED
    BY <2>1, <2>2
<1>5. \A i, j \in DOMAIN line' : line'[i] = line'[j] => i = j
  BY <1>1, <1>2 DEF TypeOK
<1>6. \A m \in Calls : future'[m] = "running" <=> \E w \in Workers : worker'[w] = m
  BY <1>1, <1>3 DEF Read, TypeOK
<1>. QED
  BY <1>1, <1>2, <1>4, <1>5, <1>6 DEF Read, TypeOK, Outcomes

LEMMA PickUpTypes == ASSUME TypeOK, NEW w \in Workers, PickUp(w) PROVE TypeOK'
<1>. DEFINE n == Head(line)
<1>1. /\ line \in Seq(Calls) /\ line # <<>> /\ line' = Tail(line)
      /\ worker[w] = Nothing /\ worker' = [worker EXCEPT ![w] = n]
      /\ future' = [future EXCEPT ![n] = "running"]
      /\ UNCHANGED <<reply, metrics, closed, hung>>
  BY DEF PickUp, TypeOK
<1>2. /\ Len(line) \in Nat \ {0} /\ DOMAIN line = 1 .. Len(line)
      /\ n \in Calls /\ n = line[1]
      /\ line' \in Seq(Calls) /\ DOMAIN line' = 1 .. Len(line) - 1
      /\ \A i \in 1 .. Len(line) - 1 : line'[i] = line[i + 1]
  BY <1>1, Unlined
<1>. HIDE DEF n
<1>3. future[n] = "queued" /\ n # Nothing
  <2>1. 1 \in DOMAIN line /\ line[1] = n
    BY <1>2
  <2>2. future[n] = "queued"
    BY <1>2, <2>1 DEF TypeOK
  <2>. QED
    BY <1>2, <2>2, ReadsAssumption DEF Calls
<1>4. \A m \in Calls : future'[m] = IF m = n THEN "running" ELSE future[m]
  BY <1>1 DEF TypeOK
<1>5. \A v \in Workers : worker'[v] = IF v = w THEN n ELSE worker[v]
  BY <1>1 DEF TypeOK
<1>6. \A i, j \in DOMAIN line : line[i] = line[j] => i = j
  BY DEF TypeOK
<1>7. \A m \in Calls : future'[m] = "queued" <=> \E i \in DOMAIN line' : line'[i] = m
  <2>. TAKE m \in Calls
  <2>1. CASE m = n
    <3>1. \A i \in DOMAIN line' : i + 1 \in DOMAIN line /\ 1 \in DOMAIN line /\ i + 1 # 1
      BY <1>2
    <3>2. \A i \in DOMAIN line' : line'[i] # n
      BY <1>2, <1>6, <3>1
    <3>. QED
      BY <1>4, <2>1, <3>2
  <2>2. CASE m # n
    <3>1. future[m] = "queued" <=> \E i \in DOMAIN line : line[i] = m
      BY DEF TypeOK
    <3>2. ASSUME NEW i \in DOMAIN line, line[i] = m
          PROVE  \E j \in DOMAIN line' : line'[j] = m
      <4>1. i - 1 \in DOMAIN line' /\ (i - 1) + 1 = i
        BY <1>2, <2>2, <3>2
      <4>. QED
        BY <1>2, <3>2, <4>1
    <3>3. ASSUME NEW i \in DOMAIN line', line'[i] = m
          PROVE  \E j \in DOMAIN line : line[j] = m
      <4>1. i + 1 \in DOMAIN line
        BY <1>2
      <4>. QED
        BY <1>2, <3>3, <4>1
    <3>. QED
      BY <1>4, <2>2, <3>1, <3>2, <3>3
  <2>. QED
    BY <2>1, <2>2
<1>8. \A i, j \in DOMAIN line' : line'[i] = line'[j] => i = j
  <2>. SUFFICES ASSUME NEW i \in DOMAIN line', NEW j \in DOMAIN line', line'[i] = line'[j]
                PROVE  i = j
    OBVIOUS
  <2>1. i + 1 \in DOMAIN line /\ j + 1 \in DOMAIN line /\ line[i + 1] = line[j + 1]
    BY <1>2
  <2>. QED
    BY <1>2, <1>6, <2>1
<1>9. \A m \in Calls : future'[m] = "running" <=> \E v \in Workers : worker'[v] = m
  <2>. TAKE m \in Calls
  <2>1. future[m] = "running" <=> \E v \in Workers : worker[v] = m
    BY DEF TypeOK
  <2>. QED
    BY <1>1, <1>3, <1>4, <1>5, <2>1, ReadsAssumption DEF Calls
<1>10. \A u, v \in Workers : worker'[u] = worker'[v] /\ worker'[u] # Nothing => u = v
  <2>1. \A v \in Workers : worker[v] # n
    BY <1>2, <1>3 DEF TypeOK
  <2>. QED
    BY <1>5, <2>1 DEF TypeOK
<1>11. worker' \in [Workers -> Calls \cup {Nothing}]
       /\ future' \in [Calls -> {"none", "queued", "running"} \cup Outcomes]
  BY <1>1, <1>2 DEF TypeOK
<1>. QED
  BY <1>1, <1>2, <1>7, <1>8, <1>9, <1>10, <1>11 DEF TypeOK

LEMMA AnswerTypes == ASSUME TypeOK, NEW w \in Workers, Answer(w) PROVE TypeOK'
<1>. DEFINE n == worker[w]
<1>1. PICK outcome \in Outcomes : future' = [future EXCEPT ![n] = outcome]
  BY DEF Answer
<1>2. /\ n \in Calls /\ n # Nothing /\ future[n] = "running"
      /\ worker' = [worker EXCEPT ![w] = Nothing]
      /\ UNCHANGED <<line, reply, metrics, closed, hung>>
  BY DEF Answer, TypeOK
<1>3. \A m \in Calls : future'[m] = IF m = n THEN outcome ELSE future[m]
  BY <1>1 DEF TypeOK
<1>4. \A v \in Workers : worker'[v] = IF v = w THEN Nothing ELSE worker[v]
  BY <1>2 DEF TypeOK
<1>5. \A v \in Workers : v # w => worker[v] # n
  BY <1>2 DEF TypeOK
<1>. HIDE DEF n
<1>6. outcome \notin {"none", "queued", "running"}
  BY DEF Outcomes
<1>7. \A m \in Calls : future'[m] = "queued" <=> \E i \in DOMAIN line' : line'[i] = m
  BY <1>2, <1>3, <1>6 DEF TypeOK
<1>8. \A m \in Calls : future'[m] = "running" <=> \E v \in Workers : worker'[v] = m
  <2>. TAKE m \in Calls
  <2>1. future[m] = "running" <=> \E v \in Workers : worker[v] = m
    BY DEF TypeOK
  <2>2. m # Nothing
    BY ReadsAssumption DEF Calls
  <2>. QED
    BY <1>3, <1>4, <1>5, <1>6, <2>1, <2>2 DEF n
<1>9. \A u, v \in Workers : worker'[u] = worker'[v] /\ worker'[u] # Nothing => u = v
  BY <1>4 DEF TypeOK
<1>10. worker' \in [Workers -> Calls \cup {Nothing}]
       /\ future' \in [Calls -> {"none", "queued", "running"} \cup Outcomes]
  BY <1>1, <1>2 DEF TypeOK
<1>. QED
  BY <1>2, <1>7, <1>8, <1>9, <1>10 DEF TypeOK

\* A caller that goes on leaves the pool as it is.
LEMMA CallerTypes ==
    ASSUME TypeOK, NEW n \in Calls, ReadClosed(n) \/ Deliver(n) \/ TimeOut(n)
    PROVE  TypeOK'
<1>1. /\ UNCHANGED <<line, worker, future, closed, hung>>
      /\ \E r \in {"result", "failed", "abandoned", "raised"} :
                reply' = [reply EXCEPT ![n] = r]
  BY DEF ReadClosed, Deliver, TimeOut
<1>2. reply' \in [Calls -> {"none", "result", "failed", "abandoned", "raised"}]
  BY <1>1 DEF TypeOK
<1>3. metrics' \in [calls : Nat, failures : Nat, timeouts : Nat]
  BY DEF ReadClosed, Deliver, TimeOut, Record, TypeOK
<1>. QED
  BY <1>1, <1>2, <1>3 DEF TypeOK

LEMMA NextTypes == TypeOK /\ [Next]_vars => TypeOK'
<1>. SUFFICES ASSUME TypeOK, [Next]_vars PROVE TypeOK'
  OBVIOUS
<1>1. CASE UNCHANGED vars
  BY <1>1 DEF vars, TypeOK
<1>2. CASE Close
  BY <1>2 DEF Close, TypeOK
<1>. QED
  BY <1>1, <1>2, ReadTypes, PickUpTypes, AnswerTypes, CallerTypes DEF Next

-----------------------------------------------------------------------------
(* The inductive invariant: the counters.                                   *)

\* What the pool does to calls that have not ended changes no count.
LEMMA PoolCounts ==
    ASSUME ReadsInv, NEW n \in Calls, ~Finished(n), NEW s,
           future' = [future EXCEPT ![n] = s], UNCHANGED <<reply, metrics>>
    PROVE  FailuresCounted' /\ \A m \in Calls : reply'[m] \in {"result", "failed"} => Finished(m)'
<1>1. reply[n] \notin {"result", "failed"}
  BY DEF ReadsInv
<1>2. \A m \in Calls : m # n => future'[m] = future[m]
  BY DEF ReadsInv, TypeOK
<1>3. GotTimeout' = GotTimeout
  BY <1>1, <1>2 DEF GotTimeout
<1>4. ASSUME NEW what PROVE Got(what)' = Got(what)
  BY DEF Got
<1>5. FailuresCounted'
  BY <1>3, <1>4 DEF ReadsInv, FailuresCounted
<1>6. ASSUME NEW m \in Calls, reply'[m] \in {"result", "failed"}
      PROVE  Finished(m)'
  <2>1. m # n /\ Finished(m)
    BY <1>1, <1>6 DEF ReadsInv
  <2>. QED
    BY <1>2, <2>1 DEF Finished
<1>. QED
  BY <1>5, <1>6

\* A caller's answer and the count of it are one step.
LEMMA DeliverCounts ==
    ASSUME ReadsInv, NEW n \in Calls, Deliver(n)
    PROVE  FailuresCounted' /\ \A m \in Calls : reply'[m] \in {"result", "failed"} => Finished(m)'
<1>. DEFINE r == IF future[n] = "result" THEN "result" ELSE "failed"
            late == future[n] = "timeout"
<1>1. /\ DOMAIN reply = Calls /\ reply[n] = "none" /\ reply' = [reply EXCEPT ![n] = r]
      /\ Finished(n) /\ UNCHANGED future
      /\ metrics' = [calls    |-> metrics.calls + 1,
                     failures |-> metrics.failures + IF r = "failed" THEN 1 ELSE 0,
                     timeouts |-> metrics.timeouts + IF late THEN 1 ELSE 0]
  BY DEF Deliver, Waiting, Record, ReadsInv, TypeOK
<1>2. \A m \in Calls : reply'[m] = IF m = n THEN r ELSE reply[m]
  BY <1>1
<1>3. r \in {"result", "failed"} /\ (late => r = "failed")
  OBVIOUS
<1>4. Cardinality(GotTimeout)' = Cardinality(GotTimeout) + IF late THEN 1 ELSE 0
  <2>1. GotTimeout \subseteq Calls /\ n \notin GotTimeout
    BY <1>1 DEF GotTimeout
  <2>2. CASE late
    <3>1. GotTimeout' = GotTimeout \cup {n}
      BY <1>1, <1>2, <2>2 DEF GotTimeout
    <3>. QED
      BY <2>1, <2>2, <3>1, OneMore
  <2>3. CASE ~late
    <3>1. GotTimeout' = GotTimeout
      BY <1>1, <1>2, <2>1, <2>3 DEF GotTimeout
    <3>2. Cardinality(GotTimeout) \in Nat
      BY <2>1, CallsFinite
    <3>. QED
      BY <2>3, <3>1, <3>2
  <2>. QED
    BY <2>2, <2>3
<1>. HIDE DEF r, late
<1>5. /\ Cardinality(Got({"result", "failed", "abandoned"}))' =
            Cardinality(Got({"result", "failed", "abandoned"})) + 1
      /\ Cardinality(Got({"failed", "abandoned"}))' =
            Cardinality(Got({"failed", "abandoned"})) + IF r = "failed" THEN 1 ELSE 0
      /\ Cardinality(Got({"abandoned"}))' = Cardinality(Got({"abandoned"}))
  <2>1. ASSUME NEW what, "none" \notin what
        PROVE  /\ Cardinality(Got(what))' = Cardinality(Got(what)) + IF r \in what THEN 1 ELSE 0
               /\ Cardinality(Got(what)) \in Nat
    <3>1. Got(what) \subseteq Calls
      BY DEF Got
    <3>. QED
      BY <1>1, <2>1, <3>1, ReplyCounted, CallsFinite
  <2>2. /\ r \in {"result", "failed", "abandoned"} /\ r \notin {"abandoned"}
        /\ r \in {"failed", "abandoned"} <=> r = "failed"
    BY <1>3
  <2>. QED
    BY <2>1, <2>2
<1>6. Cardinality(Got({"abandoned"})) \in Nat /\ Cardinality(GotTimeout) \in Nat
  BY CallsFinite DEF Got, GotTimeout
<1>7. FailuresCounted'
  BY <1>1, <1>4, <1>5, <1>6 DEF ReadsInv, FailuresCounted
<1>8. \A m \in Calls : reply'[m] \in {"result", "failed"} => Finished(m)'
  BY <1>1, <1>2 DEF ReadsInv, Finished
<1>. QED
  BY <1>7, <1>8

LEMMA TimeOutCounts ==
    ASSUME ReadsInv, NEW n \in Calls, TimeOut(n)
    PROVE  FailuresCounted' /\ \A m \in Calls : reply'[m] \in {"result", "failed"} => Finished(m)'
<1>1. /\ DOMAIN reply = Calls /\ reply[n] = "none"
      /\ reply' = [reply EXCEPT ![n] = "abandoned"] /\ UNCHANGED future
      /\ metrics' = [calls    |-> metrics.calls + 1,
                     failures |-> metrics.failures + 1,
                     timeouts |-> metrics.timeouts + 1]
  BY DEF TimeOut, Waiting, Record, ReadsInv, TypeOK
<1>2. \A m \in Calls : reply'[m] = IF m = n THEN "abandoned" ELSE reply[m]
  BY <1>1
<1>3. GotTimeout' = GotTimeout
  BY <1>1, <1>2 DEF GotTimeout
<1>4. ASSUME NEW what, "none" \notin what, "abandoned" \in what
      PROVE  Cardinality(Got(what))' = Cardinality(Got(what)) + 1
  BY <1>1, <1>4, ReplyCounted
<1>5. /\ Cardinality(Got({"result", "failed", "abandoned"}))' =
            Cardinality(Got({"result", "failed", "abandoned"})) + 1
      /\ Cardinality(Got({"failed", "abandoned"}))' =
            Cardinality(Got({"failed", "abandoned"})) + 1
      /\ Cardinality(Got({"abandoned"}))' = Cardinality(Got({"abandoned"})) + 1
  BY <1>4
<1>6. Cardinality(Got({"abandoned"})) \in Nat /\ Cardinality(GotTimeout) \in Nat
  BY CallsFinite DEF Got, GotTimeout
<1>7. FailuresCounted'
  BY <1>1, <1>3, <1>5, <1>6 DEF ReadsInv, FailuresCounted
<1>8. \A m \in Calls : reply'[m] \in {"result", "failed"} => Finished(m)'
  BY <1>1, <1>2 DEF ReadsInv, Finished
<1>. QED
  BY <1>7, <1>8

\* A read after close() ends in an exception, which nothing counts.
LEMMA ReadClosedCounts ==
    ASSUME ReadsInv, NEW n \in Calls, ReadClosed(n)
    PROVE  FailuresCounted' /\ \A m \in Calls : reply'[m] \in {"result", "failed"} => Finished(m)'
<1>1. /\ reply[n] = "none" /\ reply' = [reply EXCEPT ![n] = "raised"]
      /\ UNCHANGED <<future, metrics>>
  BY DEF ReadClosed, Unused
<1>2. \A m \in Calls : reply'[m] = IF m = n THEN "raised" ELSE reply[m]
  BY <1>1 DEF ReadsInv, TypeOK
<1>3. GotTimeout' = GotTimeout
  BY <1>1, <1>2 DEF GotTimeout
<1>4. ASSUME NEW what, "none" \notin what, "raised" \notin what
      PROVE  Got(what)' = Got(what)
  BY <1>1, <1>2, <1>4 DEF Got
<1>5. /\ Got({"result", "failed", "abandoned"})' = Got({"result", "failed", "abandoned"})
      /\ Got({"failed", "abandoned"})' = Got({"failed", "abandoned"})
      /\ Got({"abandoned"})' = Got({"abandoned"})
  BY <1>4
<1>6. FailuresCounted'
  BY <1>1, <1>3, <1>5 DEF ReadsInv, FailuresCounted
<1>7. \A m \in Calls : reply'[m] \in {"result", "failed"} => Finished(m)'
  BY <1>1, <1>2 DEF ReadsInv, Finished
<1>. QED
  BY <1>6, <1>7

LEMMA InitInv == Init => ReadsInv
<1>. SUFFICES ASSUME Init PROVE ReadsInv
  OBVIOUS
<1>1. TypeOK
  BY InitTypes
<1>2. GotTimeout = {}
  BY DEF Init, GotTimeout
<1>3. ASSUME NEW what, "none" \notin what PROVE Got(what) = {}
  BY <1>3 DEF Init, Got
<1>4. /\ Got({"result", "failed", "abandoned"}) = {}
      /\ Got({"failed", "abandoned"}) = {} /\ Got({"abandoned"}) = {}
  BY <1>3
<1>5. FailuresCounted
  <2>1. metrics.calls = 0 /\ metrics.failures = 0 /\ metrics.timeouts = 0
    BY DEF Init
  <2>2. Cardinality({}) = 0
    BY FS_EmptySet
  <2>. QED
    BY <1>2, <1>4, <2>1, <2>2 DEF FailuresCounted
<1>. QED
  BY <1>1, <1>5 DEF ReadsInv, Init

\* Every step keeps the inductive invariant.
LEMMA NextInv == ReadsInv /\ [Next]_vars => ReadsInv'
<1>. SUFFICES ASSUME ReadsInv, [Next]_vars
              PROVE  FailuresCounted' /\ \A m \in Calls :
                            reply'[m] \in {"result", "failed"} => Finished(m)'
  BY NextTypes DEF ReadsInv
<1>1. CASE UNCHANGED <<future, reply, metrics>>
  BY <1>1 DEF ReadsInv, FailuresCounted, Got, GotTimeout, Finished
<1>2. ASSUME NEW n \in Calls, Read(n)
      PROVE  ~Finished(n) /\ future' = [future EXCEPT ![n] = "queued"]
             /\ UNCHANGED <<reply, metrics>>
  BY <1>2 DEF Read, Unused, Finished, Outcomes
<1>3. ASSUME NEW w \in Workers, PickUp(w)
      PROVE  Head(line) \in Calls /\ ~Finished(Head(line))
             /\ future' = [future EXCEPT ![Head(line)] = "running"]
             /\ UNCHANGED <<reply, metrics>>
  <2>1. line \in Seq(Calls) /\ line # <<>>
    BY <1>3 DEF PickUp, ReadsInv, TypeOK
  <2>2. Head(line) \in Calls /\ 1 \in DOMAIN line /\ Head(line) = line[1]
    BY <2>1, Unlined
  <2>3. future[Head(line)] = "queued"
    BY <2>2 DEF ReadsInv, TypeOK
  <2>. QED
    BY <1>3, <2>2, <2>3 DEF PickUp, Finished, Outcomes
<1>4. ASSUME NEW w \in Workers, Answer(w)
      PROVE  worker[w] \in Calls /\ ~Finished(worker[w])
             /\ (\E s : future' = [future EXCEPT ![worker[w]] = s])
             /\ UNCHANGED <<reply, metrics>>
  <2>1. worker[w] \in Calls /\ future[worker[w]] = "running"
    BY <1>4 DEF Answer, ReadsInv, TypeOK
  <2>. QED
    BY <1>4, <2>1 DEF Answer, Finished, Outcomes
<1>5. CASE Close
  BY <1>1, <1>5 DEF Close
<1>6. CASE UNCHANGED vars
  BY <1>1, <1>6 DEF vars
<1>. QED
  BY <1>2, <1>3, <1>4, <1>5, <1>6, PoolCounts, DeliverCounts, TimeOutCounts,
     ReadClosedCounts DEF Next

\* The inductive invariant holds in every reachable state.
THEOREM ReadsInvHolds == Spec => []ReadsInv
BY InitInv, NextInv, PTL DEF Spec

-----------------------------------------------------------------------------
(* What follows.                                                            *)

\* Every call is in one place: waiting in the line once, on one worker, or on
\* neither.
THEOREM ReadsTypes == Spec => []TypeOK
<1>1. ReadsInv => TypeOK
  BY DEF ReadsInv
<1>. QED
  BY <1>1, ReadsInvHolds, PTL

\* However calls, workers and timeouts interleave, the counters say what the
\* callers were given.
THEOREM FailuresCountedHolds == Spec => []FailuresCounted
<1>1. ReadsInv => FailuresCounted
  BY DEF ReadsInv
<1>. QED
  BY <1>1, ReadsInvHolds, PTL

\* What a caller was told stands.
THEOREM ReplyIsFinalHolds == Spec => ReplyIsFinal
<1>1. ReadsInv /\ [Next]_vars =>
        [\A n \in Calls : reply[n] # "none" => reply'[n] = reply[n]]_vars
  <2>. SUFFICES ASSUME ReadsInv, Next, NEW n \in Calls, reply[n] # "none"
                PROVE  reply'[n] = reply[n]
    OBVIOUS
  <2>1. ASSUME NEW m \in Calls, ReadClosed(m) \/ Deliver(m) \/ TimeOut(m)
        PROVE  reply[m] = "none" /\ \E r : reply' = [reply EXCEPT ![m] = r]
    BY <2>1 DEF ReadClosed, Deliver, TimeOut, Unused, Waiting
  <2>2. ASSUME NEW m \in Calls, ReadClosed(m) \/ Deliver(m) \/ TimeOut(m)
        PROVE  reply'[n] = reply[n]
    BY <2>1, <2>2 DEF ReadsInv, TypeOK
  <2>3. (\E m \in Calls : ReadClosed(m) \/ Deliver(m) \/ TimeOut(m)) \/ UNCHANGED reply
    BY DEF Next, Read, PickUp, Answer, Close
  <2>. QED
    BY <2>2, <2>3
<1>. QED
  BY <1>1, ReadsInvHolds, PTL DEF Spec, ReplyIsFinal
=============================================================================
