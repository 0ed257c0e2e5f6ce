------------------------- MODULE CandidateFileProofs -------------------------
(***************************************************************************)
(* Proofs about the JSON file of candidates, for any facts, callers and     *)
(* number of add() calls: the file stays whole, and it is a candidate store *)
(* until a rename has acted on a queue that was not there.                  *)
(***************************************************************************)
EXTENDS CandidateFile, TLAPS

-----------------------------------------------------------------------------
(* Facts about queues.                                                      *)

\* The model value Torn and the empty slot are no entries.
LEMMA Distinct == Torn \notin Queue /\ Nothing \notin Entries
BY FileAssumption DEF Queue, Slots, Entries

LEMMA EmptyIsQueue == EmptyQueue \in Queue /\ \A f \in Facts : EmptyQueue[f] = Nothing
BY DEF EmptyQueue, Queue, Slots

\* A whole file is its own contents.
LEMMA WholeContents == ASSUME file # Torn PROVE Contents = file
BY DEF Contents

\* What _read() returns is a filed queue, and holds nothing the file does not.
LEMMA ReadingsFiled ==
    ASSUME FileInv, NEW seen \in Readings
    PROVE  /\ seen \in Queue
           /\ Filed(seen)
           /\ \A e \in Entries : Holds(seen, e) => Holds(Contents, e)
<1>1. Contents = file /\ file \in Queue /\ Filed(file)
  BY WholeContents DEF FileInv, WholeQueue, TypeOK, Filed
<1>2. Filed(EmptyQueue) /\ \A e \in Entries : ~Holds(EmptyQueue, e)
  BY EmptyIsQueue, Distinct DEF Filed, Holds, Entries
<1>. QED
  BY <1>1, <1>2, EmptyIsQueue DEF Readings

-----------------------------------------------------------------------------
(* Types and the shape of calls.                                            *)

\* The part of the inductive invariant that speaks of one queue at a time.
Shape ==
    /\ TypeOK
    /\ WholeQueue
    /\ \A c \in Callers : call[c] # Nothing =>
            Filed(call[c].seen) /\ Filed(call[c].after) /\ OneChange(call[c])

LEMMA ShapeOfInv == FileInv => Shape
BY DEF FileInv, Shape

\* What holds of a queue or of a call goes on to hold as more is added.
LEMMA AddsGrow ==
    ASSUME NEW q \in Queue, NEW k, adds \in Nat, adds' \in Nat, adds <= adds'
    PROVE  (Filed(q) => Filed(q)') /\ (OneChange(k) => OneChange(k)')
<1>1. ASSUME Filed(q) PROVE Filed(q)'
  BY <1>1 DEF Filed, Queue, Slots, Entries
<1>2. ASSUME OneChange(k) PROVE OneChange(k)'
  <2>1. 1 .. adds \subseteq 1 .. adds'
    OBVIOUS
  <2>. QED
    BY <1>2, <2>1 DEF OneChange
<1>. QED
  BY <1>1, <1>2

\* What is said of a queue or of a call does not change as long as no add()
\* begins, nor with the state of the temporary file.
LEMMA SameAdds ==
    ASSUME NEW q, NEW j, NEW k, adds' = adds,
           k.seen = j.seen, k.after = j.after, k.taken = j.taken
    PROVE  (Filed(q)' <=> Filed(q)) /\ (OneChange(k)' <=> OneChange(j))
<1>1. Filed(q)' <=> Filed(q)
  BY DEF Filed
<1>2. OneChange(k)' <=> OneChange(j)
  BY DEF OneChange
<1>. QED
  BY <1>1, <1>2

\* A call of add() or remove() that begins is well formed.
LEMMA BeginShape ==
    ASSUME Shape, NEW c \in Callers, NEW seen \in Queue, NEW after \in Queue,
           NEW taken \in Slots,
           Begin(c, seen, after, taken),
           adds' \in adds .. MaxAdds,
           Filed(seen), Filed(after)',
           OneChange([seen |-> seen, after |-> after, taken |-> taken,
                      staged |-> FALSE])',
           taken # Nothing => seen[taken.fact] = taken /\ after[taken.fact] = Nothing
    PROVE  Shape'
<1>. DEFINE new == [seen |-> seen, after |-> after, taken |-> taken, staged |-> FALSE]
<1>. USE DEF Shape
<1>1. /\ call' = [call EXCEPT ![c] = new]
      /\ UNCHANGED <<file, misled, won>>
  BY DEF Begin
<1>2. /\ new \in Call /\ DOMAIN call' = Callers
      /\ call'[c] = new
      /\ \A d \in Callers : d # c => call'[d] = call[d]
  BY <1>1 DEF Call, TypeOK
<1>3. adds \in Nat /\ adds' \in Nat /\ adds <= adds'
  BY FileAssumption DEF TypeOK
<1>4. TypeOK'
  BY <1>1, <1>2, FileAssumption DEF TypeOK
<1>5. WholeQueue'
  BY <1>1, <1>3 DEF WholeQueue, TypeOK, Queue, Slots, Entries
<1>6. ASSUME NEW d \in Callers, call'[d] # Nothing
      PROVE  (Filed(call[d].seen) /\ Filed(call[d].after) /\ OneChange(call[d]))'
  <2>1. CASE d = c
    <3>1. call'[d] = new /\ new.seen = seen /\ new.after = after
      BY <1>2, <2>1
    <3>2. Filed(seen)' /\ Filed(after)' /\ OneChange(new)'
      BY <1>3, AddsGrow
    <3>. HIDE DEF new
    <3>. QED
      BY <3>1, <3>2
  <2>2. CASE d # c
    <3>1. call'[d] = call[d] /\ call[d].seen \in Queue /\ call[d].after \in Queue
      BY <1>2, <1>6, <2>2 DEF TypeOK, Call
    <3>. QED
      BY <1>3, <1>6, <3>1, AddsGrow
  <2>. QED
    BY <2>1, <2>2
<1>. QED
  BY <1>4, <1>5, <1>6

\* The queue that add() is going to write holds its new entry and what it read.
LEMMA AddedQueue ==
    ASSUME NEW seen \in Queue, Filed(seen), NEW f \in Facts, adds \in 0 .. MaxAdds,
           adds < MaxAdds, adds' = adds + 1,
           NEW v, v = adds', NEW new, new = [fact |-> f, version |-> v]
    PROVE  /\ new \in Entries
           /\ [seen EXCEPT ![f] = new] \in Queue
           /\ Filed([seen EXCEPT ![f] = new])'
           /\ \A e \in Entries : Holds([seen EXCEPT ![f] = new], e) <=>
                    e = new \/ (Holds(seen, e) /\ e.fact # f)
<1>1. new \in Entries /\ new.fact = f /\ new.version = v /\ v \in Nat
  BY FileAssumption DEF Entries
<1>2. [seen EXCEPT ![f] = new] \in Queue
  BY <1>1 DEF Queue, Slots
<1>3. \A g \in Facts : [seen EXCEPT ![f] = new][g] = IF g = f THEN new ELSE seen[g]
  BY DEF Queue
<1>4. \A g \in Facts : seen[g] # Nothing =>
            seen[g].fact = g /\ seen[g].version \in Nat /\ seen[g].version <= adds
  BY DEF Filed, Queue, Slots, Entries
<1>5. Filed([seen EXCEPT ![f] = new])'
  BY <1>1, <1>3, <1>4, FileAssumption DEF Filed
<1>6. \A e \in Entries : e.fact \in Facts
  BY DEF Entries
<1>7. \A e \in Entries : e.fact = f => (Holds([seen EXCEPT ![f] = new], e) <=> e = new)
  BY <1>3 DEF Holds
<1>8. \A e \in Entries : e.fact # f =>
            (Holds([seen EXCEPT ![f] = new], e) <=> Holds(seen, e))
  BY <1>3, <1>6 DEF Holds
<1>. QED
  BY <1>1, <1>2, <1>5, <1>7, <1>8

\* The queue that remove() is going to write holds what it read but one entry.
LEMMA RemovedQueue ==
    ASSUME NEW seen \in Queue, Filed(seen), NEW f \in Facts
    PROVE  /\ [seen EXCEPT ![f] = Nothing] \in Queue
           /\ Filed([seen EXCEPT ![f] = Nothing])
           /\ \A e \in Entries : Holds([seen EXCEPT ![f] = Nothing], e) <=>
                    Holds(seen, e) /\ e.fact # f
<1>1. [seen EXCEPT ![f] = Nothing] \in Queue
  BY DEF Queue, Slots
<1>2. \A g \in Facts : [seen EXCEPT ![f] = Nothing][g] =
                            IF g = f THEN Nothing ELSE seen[g]
  BY DEF Queue
<1>3. Filed([seen EXCEPT ![f] = Nothing])
  BY <1>2 DEF Filed
<1>4. \A e \in Entries : e.fact \in Facts /\ e # Nothing
  BY Distinct DEF Entries
<1>. QED
  BY <1>1, <1>2, <1>3, <1>4 DEF Holds

\* The steps keep the shape.
LEMMA NextShape == FileInv /\ [Next]_vars => Shape'
<1>. SUFFICES ASSUME FileInv, [Next]_vars PROVE Shape'
  OBVIOUS
<1>0. Shape
  BY ShapeOfInv
<1>1. CASE UNCHANGED vars
  <2>1. UNCHANGED <<file, call, adds, misled, won>>
    BY <1>1 DEF vars
  <2>2. TypeOK' /\ WholeQueue'
    BY <1>0, <2>1 DEF Shape, TypeOK, WholeQueue
  <2>3. \A d \in Callers : call'[d] # Nothing =>
            (Filed(call[d].seen) /\ Filed(call[d].after) /\ OneChange(call[d]))'
    BY <1>0, <2>1, SameAdds DEF Shape
  <2>. QED
    BY <2>2, <2>3 DEF Shape
<1>2. ASSUME NEW c \in Callers, NEW f \in Facts, Add(c, f) PROVE Shape'
  <2>1. PICK v \in Nat : v = adds'
    BY <1>0, <1>2 DEF Add, Shape, TypeOK
  <2>2. /\ adds \in 0 .. MaxAdds /\ adds < MaxAdds /\ adds' = adds + 1
        /\ adds' \in adds .. MaxAdds /\ v \in 1 .. adds'
    BY <1>0, <1>2, <2>1, FileAssumption DEF Add, Shape, TypeOK
  <2>. DEFINE new == [fact |-> f, version |-> v]
  <2>3. PICK seen \in Readings : Begin(c, seen, [seen EXCEPT ![f] = new], Nothing)
    BY <1>2, <2>1 DEF Add
  <2>4. seen \in Queue /\ Filed(seen)
    BY ReadingsFiled
  <2>. DEFINE after == [seen EXCEPT ![f] = new]
              k == [seen |-> seen, after |-> after, taken |-> Nothing, staged |-> FALSE]
  <2>5. after \in Queue /\ Filed(after)'
    BY <2>1, <2>2, <2>4, AddedQueue
  <2>6. OneChange(k)'
    <3>1. k.taken = Nothing /\ k.after = [k.seen EXCEPT ![f] = new]
      OBVIOUS
    <3>. HIDE DEF k
    <3>. QED
      BY <2>2, <3>1 DEF OneChange
  <2>7. Nothing \in Slots
    BY DEF Slots
  <2>. HIDE DEF after, new
  <2>. QED
    BY <1>0, <2>2, <2>3, <2>4, <2>5, <2>6, <2>7, BeginShape DEF after
<1>3. ASSUME NEW c \in Callers, NEW f \in Facts, Remove(c, f) PROVE Shape'
  <2>1. adds' = adds /\ adds \in Nat /\ adds' \in adds .. MaxAdds
    BY <1>0, <1>3, FileAssumption DEF Remove, Shape, TypeOK
  <2>2. PICK seen \in Readings :
            seen[f] # Nothing /\ Begin(c, seen, [seen EXCEPT ![f] = Nothing], seen[f])
    BY <1>3 DEF Remove
  <2>3. seen \in Queue /\ Filed(seen)
    BY ReadingsFiled
  <2>. DEFINE after == [seen EXCEPT ![f] = Nothing]
  <2>4. after \in Queue /\ Filed(after) /\ after[f] = Nothing
    BY <2>3, RemovedQueue DEF Queue
  <2>5. Filed(after)'
    BY <2>1, <2>4 DEF Filed
  <2>6. OneChange([seen |-> seen, after |-> after, taken |-> seen[f],
                   staged |-> FALSE])'
    BY <2>2 DEF OneChange
  <2>7. seen[f] \in Slots /\ seen[f].fact = f
    BY <2>2, <2>3 DEF Queue, Filed
  <2>. HIDE DEF after
  <2>. QED
    BY <1>0, <2>1, <2>2, <2>3, <2>4, <2>5, <2>6, <2>7, BeginShape DEF after
<1>4. ASSUME NEW c \in Callers, Stage(c) PROVE Shape'
  <2>1. /\ call[c] \in Call /\ call' = [call EXCEPT ![c].staged = TRUE]
        /\ UNCHANGED <<file, adds, misled, won>>
    BY <1>0, <1>4 DEF Stage, Shape, TypeOK
  <2>2. /\ DOMAIN call' = Callers
        /\ call'[c] \in Call
        /\ call'[c].seen = call[c].seen /\ call'[c].after = call[c].after
        /\ call'[c].taken = call[c].taken
        /\ \A d \in Callers : d # c => call'[d] = call[d]
    BY <1>0, <2>1 DEF Shape, TypeOK, Call
  <2>3. call[c] # Nothing
    BY <1>4 DEF Stage
  <2>4. TypeOK' /\ WholeQueue'
    BY <1>0, <2>1, <2>2, <2>3 DEF Shape, TypeOK, WholeQueue
  <2>5. \A d \in Callers : call'[d] # Nothing =>
            (Filed(call[d].seen) /\ Filed(call[d].after) /\ OneChange(call[d]))'
    BY <1>0, <2>1, <2>2, <2>3, SameAdds DEF Shape
  <2>. QED
    BY <2>4, <2>5 DEF Shape
<1>5. ASSUME NEW c \in Callers, Replace(c) \/ Abandon(c) PROVE Shape'
  <2>1. /\ call' = [call EXCEPT ![c] = Nothing] /\ adds' = adds
        /\ call[c] # Nothing /\ misled' \in BOOLEAN
        /\ file' \in {file, call[c].after}
    BY <1>0, <1>5 DEF Replace, Abandon, Shape, TypeOK
  <2>2. DOMAIN call' = Callers /\ \A d \in Callers :
            call'[d] = IF d = c THEN Nothing ELSE call[d]
    BY <1>0, <2>1 DEF Shape, TypeOK
  <2>3. call[c].taken \in Slots /\ call[c].after \in Queue /\ Filed(call[c].after)
    BY <1>0, <2>1 DEF Shape, TypeOK, Call
  <2>4. won' \in [1 .. MaxAdds -> 0 .. 2]
    <3>1. CASE won' = won
      BY <1>0, <3>1 DEF Shape, TypeOK
    <3>2. CASE HandOut(call[c].taken)
      BY <1>0, <2>3, <3>2 DEF Shape, TypeOK, HandOut, Slots, Entries
    <3>. QED
      BY <1>5, <3>1, <3>2 DEF Replace, Abandon
  <2>5. TypeOK'
    BY <1>0, <2>1, <2>2, <2>3, <2>4 DEF Shape, TypeOK
  <2>6. WholeQueue'
    BY <1>0, <2>1, <2>3, Distinct DEF Shape, WholeQueue, Filed
  <2>7. \A d \in Callers : call'[d] # Nothing =>
            (Filed(call[d].seen) /\ Filed(call[d].after) /\ OneChange(call[d]))'
    BY <1>0, <2>1, <2>2, SameAdds DEF Shape
  <2>. QED
    BY <2>5, <2>6, <2>7 DEF Shape
<1>. QED
  BY <1>1, <1>2, <1>3, <1>4, <1>5 DEF Next

-----------------------------------------------------------------------------
(* Where an entry can be, and who is handed it.                             *)

\* The part of the inductive invariant that follows entries about.
Traces ==
    /\ \A v \in 1 .. MaxAdds : won[v] # 0 => v <= adds
    /\ \A e, g \in Entries : Around(e) /\ Around(g) /\ e.version = g.version => e = g
    /\ \A c \in Callers, e \in Entries : Brings(c, e) => Unborn(c, e)
    /\ ClaimedOnceUnlessMisled

LEMMA InvParts == FileInv <=> Shape /\ Traces
BY DEF FileInv, Shape, Traces

\* Whatever is around was added.
LEMMA AroundAdded ==
    ASSUME Shape, NEW e \in Entries, Around(e)
    PROVE  e.version <= adds
<1>1. e # Nothing /\ e.fact \in Facts
  BY Distinct DEF Entries
<1>2. Contents = file /\ file \in Queue /\ Filed(file)
  BY WholeContents DEF Shape, WholeQueue, TypeOK, Filed
<1>3. ASSUME NEW q, Filed(q), Holds(q, e) PROVE e.version <= adds
  BY <1>1, <1>3 DEF Filed, Holds
<1>. QED
  BY <1>2, <1>3 DEF Around, Shape

\* A call that begins brings at most an entry that is new.
LEMMA BeginTraces ==
    ASSUME Shape, Traces, NEW c \in Callers, NEW seen, NEW after, NEW taken,
           Begin(c, seen, after, taken),
           adds \in Nat, adds' \in Nat, adds <= adds', NEW new,
           \A e \in Entries : Holds(seen, e) => Holds(Contents, e),
           \A e \in Entries :
                Holds(after, e) => Holds(seen, e) \/ (e = new /\ e.version > adds)
    PROVE  Traces'
<1>. DEFINE k == [seen |-> seen, after |-> after, taken |-> taken, staged |-> FALSE]
<1>1. call' = [call EXCEPT ![c] = k] /\ UNCHANGED <<file, misled, won>>
  BY DEF Begin
<1>2. /\ call'[c] = k /\ k.seen = seen /\ k.after = after
      /\ \A d \in Callers : d # c => call'[d] = call[d]
  BY <1>1 DEF Shape, TypeOK
<1>. HIDE DEF k
<1>3. /\ Contents' = Contents
      /\ \A e : Holds(Contents, e)' <=> Holds(Contents, e)
  BY <1>1 DEF Contents, Holds
<1>4. \A e \in Entries : e.version \in 1 .. MaxAdds /\ e.version \in Nat
  BY FileAssumption DEF Entries
<1>5. \A e \in Entries : Around(e)' => Around(e) \/ (e = new /\ e.version > adds)
  BY <1>2, <1>3 DEF Around, Holds
<1>6. \A v \in 1 .. MaxAdds : won'[v] # 0 => v <= adds
  BY <1>1 DEF Traces
<1>7. \A e, g \in Entries :
            Around(e)' /\ Around(g)' /\ e.version = g.version => e = g
  BY <1>4, <1>5, AroundAdded DEF Traces
<1>8. ASSUME NEW d \in Callers, NEW e \in Entries, Brings(d, e)'
      PROVE  Unborn(d, e)'
  <2>1. CASE d = c
    <3>1. e.version > adds
      BY <1>2, <1>8, <2>1 DEF Brings, Holds
    <3>2. ~Around(e)
      BY <1>4, <3>1, AroundAdded
    <3>3. won'[e.version] = 0
      BY <1>4, <1>6, <3>1
    <3>4. ~Holds(Contents, e)' /\ ~Holds(seen, e)
      BY <1>3, <3>2 DEF Around
    <3>5. \A b \in Callers : b # c /\ call'[b] # Nothing =>
                ~Holds(call'[b].seen, e) /\ ~Holds(call'[b].after, e)
      BY <1>2, <3>2 DEF Around
    <3>. QED
      BY <1>2, <2>1, <3>3, <3>4, <3>5 DEF Unborn, Holds
  <2>2. CASE d # c
    <3>1. call'[d] = call[d] /\ Brings(d, e)
      BY <1>2, <1>8, <2>2 DEF Brings, Holds
    <3>2. Unborn(d, e) /\ Around(e)
      BY <3>1 DEF Traces, Brings, Around
    <3>3. ~Holds(seen, e) /\ ~Holds(after, e)
      BY <1>4, <3>2, AroundAdded DEF Unborn
    <3>. QED
      BY <1>1, <1>2, <1>3, <2>2, <3>2, <3>3 DEF Unborn, Holds
  <2>. QED
    BY <2>1, <2>2
<1>9. ClaimedOnceUnlessMisled'
  BY <1>1, <1>3 DEF Traces, ClaimedOnceUnlessMisled
<1>. QED
  BY <1>4, <1>6, <1>7, <1>8, <1>9 DEF Traces

\* A rename puts its call's queue in place, and hands out what it has taken.
LEMMA ReplaceTraces ==
    ASSUME Shape, Traces, NEW c \in Callers, Replace(c)
    PROVE  Traces'
<1>. DEFINE k == call[c]
<1>1. /\ k # Nothing /\ k.seen \in Queue /\ k.after \in Queue /\ k.taken \in Slots
      /\ Filed(k.seen) /\ Filed(k.after) /\ OneChange(k)
      /\ k.taken # Nothing =>
            k.seen[k.taken.fact] = k.taken /\ k.after[k.taken.fact] = Nothing
  BY DEF Replace, Shape, TypeOK, Call
<1>2. /\ file' = k.after /\ adds' = adds
      /\ misled' = (misled \/ k.seen # Contents)
      /\ HandOut(k.taken)
      /\ \A d \in Callers : call'[d] = IF d = c THEN Nothing ELSE call[d]
  BY DEF Replace, Shape, TypeOK
<1>3. /\ Contents' = k.after
      /\ \A e : Holds(Contents, e)' <=> Holds(k.after, e)
  <2>1. file' # Torn
    BY <1>1, <1>2, Distinct
  <2>. QED
    BY <1>2, <2>1 DEF Contents, Holds
<1>4. \A e \in Entries :
            /\ e.version \in 1 .. MaxAdds /\ e.version \in Nat
            /\ e # Nothing /\ e.fact \in Facts
            /\ e = [fact |-> e.fact, version |-> e.version]
  BY Distinct, FileAssumption DEF Entries
<1>5. /\ won \in [1 .. MaxAdds -> 0 .. 2] /\ adds \in Nat /\ misled \in BOOLEAN
      /\ Contents = file /\ file \in Queue /\ Filed(file)
  BY WholeContents, FileAssumption DEF Shape, TypeOK, WholeQueue, Filed
<1>6. k.taken # Nothing =>
            k.taken \in Entries /\ Holds(k.seen, k.taken) /\ ~Holds(k.after, k.taken)
  BY <1>1, <1>4 DEF Slots, Holds
<1>7. \A e \in Entries : Holds(k.seen, e) \/ Holds(k.after, e) => Around(e)
  BY <1>1 DEF Around
<1>8. \A e \in Entries : Around(e)' => Around(e)
  BY <1>1, <1>2, <1>3 DEF Around, Holds
<1>9. \A v \in 1 .. MaxAdds :
            won'[v] = IF k.taken # Nothing /\ v = k.taken.version
                      THEN (IF won[v] < 2 THEN won[v] + 1 ELSE 2) ELSE won[v]
  BY <1>2, <1>5 DEF HandOut
<1>. HIDE DEF k
<1>10. \A v \in 1 .. MaxAdds : won'[v] # 0 => v <= adds'
  <2>1. k.taken # Nothing => k.taken.version <= adds
    BY <1>6, <1>7, AroundAdded
  <2>. QED
    BY <1>2, <1>9, <2>1 DEF Traces
<1>11. \A e, g \in Entries :
            Around(e)' /\ Around(g)' /\ e.version = g.version => e = g
  BY <1>8 DEF Traces
<1>12. ASSUME NEW d \in Callers, NEW e \in Entries, Brings(d, e)'
       PROVE  Unborn(d, e)'
  <2>1. d # c /\ call'[d] = call[d] /\ Brings(d, e)
    BY <1>2, <1>12 DEF Brings, Holds
  <2>2. Unborn(d, e) /\ Around(e)
    BY <2>1 DEF Traces, Brings, Around
  <2>3. ~Holds(k.seen, e) /\ ~Holds(k.after, e)
    BY <1>1, <2>1, <2>2 DEF Unborn, k
  <2>4. won'[e.version] = 0
    <3>1. k.taken # Nothing => k.taken.version # e.version
      BY <1>6, <1>7, <2>2, <2>3 DEF Traces
    <3>. QED
      BY <1>4, <1>9, <2>2, <3>1 DEF Unborn
  <2>. QED
    BY <1>2, <1>3, <2>1, <2>2, <2>3, <2>4 DEF Unborn, Holds
<1>13. ClaimedOnceUnlessMisled'
  <2>. SUFFICES ASSUME ~misled, k.seen = Contents,
                       NEW f \in Facts, NEW v \in 1 .. MaxAdds
                PROVE  /\ won'[v] <= 1
                       /\ won'[v] = 1 => k.after[f] # [fact |-> f, version |-> v]
    BY <1>2, <1>3, <1>5 DEF ClaimedOnceUnlessMisled
  <2>. DEFINE e == [fact |-> f, version |-> v]
  <2>1. e \in Entries /\ e.fact = f /\ e.version = v
    BY DEF Entries
  <2>2. /\ won[v] <= 1 /\ won[v] \in Nat
        /\ \A g \in Facts : won[v] = 1 => Contents[g] # [fact |-> g, version |-> v]
    <3>1. \A g \in Facts, u \in 1 .. MaxAdds :
                won[u] <= 1 /\ (won[u] = 1 => Contents[g] # [fact |-> g, version |-> u])
      BY Zenon DEF Traces, ClaimedOnceUnlessMisled
    <3>2. won[v] \in Nat
      BY <1>5
    <3>. QED
      BY <3>1, <3>2, Zenon
  <2>3. CASE k.taken # Nothing /\ v = k.taken.version
    <3>1. won[v] = 0
      BY <1>4, <1>6, <2>2, <2>3 DEF Holds
    <3>2. Holds(k.after, e) => e = k.taken
      BY <1>6, <1>7, <2>1, <2>3 DEF Traces
    <3>3. ~Holds(k.after, e)
      BY <1>6, <2>3, <3>2
    <3>. QED
      BY <1>9, <2>1, <2>3, <3>1, <3>3 DEF Holds
  <2>4. CASE ~(k.taken # Nothing /\ v = k.taken.version)
    <3>1. won'[v] = won[v]
      BY <1>9, <2>4
    <3>2. ASSUME won[v] = 1, Holds(k.after, e) PROVE FALSE
      <4>1. ~Holds(k.seen, e)
        BY <2>1, <2>2, <3>2 DEF Holds
      <4>2. Brings(c, e)
        BY <1>1, <3>2, <4>1 DEF Brings, k
      <4>3. won[e.version] = 0
        BY <2>1, <4>2 DEF Traces, Unborn
      <4>. QED
        BY <2>1, <3>2, <4>3
    <3>. QED
      BY <2>1, <2>2, <3>1, <3>2 DEF Holds
  <2>. QED
    BY <2>3, <2>4
<1>. QED
  BY <1>10, <1>11, <1>12, <1>13 DEF Traces

\* A step that leaves the file, and what each call carries or drops, as it was.
LEMMA QuietTraces ==
    ASSUME Shape, Traces, UNCHANGED <<file, adds, misled, won>>,
           \A d \in Callers : call'[d] # Nothing =>
                /\ call[d] # Nothing
                /\ call'[d].seen = call[d].seen /\ call'[d].after = call[d].after
    PROVE  Traces'
<1>1. Contents' = Contents
  BY DEF Contents
<1>2. \A e : Holds(Contents, e)' <=> Holds(Contents, e)
  BY <1>1 DEF Holds
<1>3. \A e \in Entries : Around(e)' => Around(e)
  BY <1>2 DEF Around, Holds
<1>4. \A d \in Callers, e \in Entries : Brings(d, e)' => Brings(d, e)
  BY DEF Brings, Holds
<1>5. ASSUME NEW d \in Callers, NEW e \in Entries, Brings(d, e)'
      PROVE  Unborn(d, e)'
  <2>1. Unborn(d, e)
    BY <1>4, <1>5 DEF Traces
  <2>. QED
    BY <1>2, <2>1 DEF Unborn, Holds
<1>6. ClaimedOnceUnlessMisled'
  BY <1>1 DEF Traces, ClaimedOnceUnlessMisled
<1>7. \A v \in 1 .. MaxAdds : won'[v] # 0 => v <= adds'
  BY DEF Traces
<1>8. \A e, g \in Entries :
            Around(e)' /\ Around(g)' /\ e.version = g.version => e = g
  BY <1>3 DEF Traces
<1>. QED
  BY <1>5, <1>6, <1>7, <1>8 DEF Traces

\* Every step keeps track of the entries.
LEMMA NextTraces == FileInv /\ [Next]_vars => Traces'
<1>. SUFFICES ASSUME FileInv, [Next]_vars PROVE Traces'
  OBVIOUS
<1>0. Shape /\ Traces
  BY InvParts
<1>1. CASE UNCHANGED vars
  BY <1>0, <1>1, QuietTraces DEF vars
<1>2. ASSUME NEW c \in Callers, NEW f \in Facts, Add(c, f) PROVE Traces'
  <2>1. PICK v \in Nat : v = adds'
    BY <1>0, <1>2 DEF Add, Shape, TypeOK
  <2>2. /\ adds \in 0 .. MaxAdds /\ adds < MaxAdds /\ adds' = adds + 1
        /\ adds \in Nat /\ adds' \in Nat /\ adds <= adds'
    BY <1>0, <1>2, FileAssumption DEF Add, Shape, TypeOK
  <2>. DEFINE new == [fact |-> f, version |-> v]
  <2>3. PICK seen \in Readings : Begin(c, seen, [seen EXCEPT ![f] = new], Nothing)
    BY <1>2, <2>1 DEF Add
  <2>4. /\ seen \in Queue /\ Filed(seen)
        /\ \A e \in Entries : Holds(seen, e) => Holds(Contents, e)
    BY ReadingsFiled
  <2>5. \A e \in Entries : Holds([seen EXCEPT ![f] = new], e) =>
            e = new \/ Holds(seen, e)
    <3>1. /\ \A g \in Facts : [seen EXCEPT ![f] = new][g] = IF g = f THEN new ELSE seen[g]
          /\ \A e \in Entries : e.fact \in Facts
      BY <2>4 DEF Queue, Entries
    <3>. HIDE DEF new
    <3>. QED
      BY <3>1 DEF Holds
  <2>6. new.version > adds
    BY <2>1, <2>2
  <2>. HIDE DEF new
  <2>. QED
    BY <1>0, <2>2, <2>3, <2>4, <2>5, <2>6, BeginTraces
<1>3. ASSUME NEW c \in Callers, NEW f \in Facts, Remove(c, f) PROVE Traces'
  <2>1. adds \in Nat /\ adds' \in Nat /\ adds <= adds'
    BY <1>0, <1>3, FileAssumption DEF Remove, Shape, TypeOK
  <2>2. PICK seen \in Readings : Begin(c, seen, [seen EXCEPT ![f] = Nothing], seen[f])
    BY <1>3 DEF Remove
  <2>3. /\ seen \in Queue /\ Filed(seen)
        /\ \A e \in Entries : Holds(seen, e) => Holds(Contents, e)
    BY ReadingsFiled
  <2>4. \A e \in Entries : Holds([seen EXCEPT ![f] = Nothing], e) => Holds(seen, e)
    BY <2>3, RemovedQueue
  <2>. QED
    BY <1>0, <2>1, <2>2, <2>3, <2>4, BeginTraces
<1>4. ASSUME NEW c \in Callers, Stage(c) PROVE Traces'
  <2>1. /\ call' = [call EXCEPT ![c].staged = TRUE] /\ call[c] # Nothing
        /\ call[c] \in Call
        /\ UNCHANGED <<file, adds, misled, won>>
    BY <1>0, <1>4 DEF Stage, Shape, TypeOK
  <2>2. /\ call'[c].seen = call[c].seen /\ call'[c].after = call[c].after
        /\ \A d \in Callers : d # c => call'[d] = call[d]
    BY <1>0, <2>1 DEF Shape, TypeOK, Call
  <2>. QED
    BY <1>0, <2>1, <2>2, QuietTraces
<1>5. ASSUME NEW c \in Callers, Abandon(c) PROVE Traces'
  <2>1. UNCHANGED <<file, adds, misled, won>> /\
        \A d \in Callers : call'[d] = IF d = c THEN Nothing ELSE call[d]
    BY <1>0, <1>5 DEF Abandon, Shape, TypeOK
  <2>. QED
    BY <1>0, <2>1, QuietTraces
<1>. QED
  BY <1>0, <1>1, <1>2, <1>3, <1>4, <1>5, ReplaceTraces DEF Next

-----------------------------------------------------------------------------
(* The results.                                                             *)

\* The empty file.
LEMMA InitInv == Init => FileInv
<1>. SUFFICES ASSUME Init PROVE FileInv
  OBVIOUS
<1>1. /\ file = EmptyQueue /\ file # Torn /\ Contents = EmptyQueue
      /\ \A c \in Callers : call[c] = Nothing
      /\ adds = 0 /\ adds \in 0 .. MaxAdds /\ misled = FALSE
      /\ \A v \in 1 .. MaxAdds : won[v] = 0
  BY EmptyIsQueue, Distinct, FileAssumption DEF Init, Contents
<1>2. TypeOK
  <2>1. won \in [1 .. MaxAdds -> 0 .. 2] /\ DOMAIN call = Callers
    BY DEF Init
  <2>. QED
    BY <1>1, <2>1, EmptyIsQueue DEF TypeOK
<1>3. Shape
  BY <1>1, <1>2, EmptyIsQueue DEF Shape, WholeQueue
<1>4. \A e \in Entries : ~Around(e)
  BY <1>1, EmptyIsQueue, Distinct DEF Around, Holds, Entries
<1>5. Traces
  BY <1>1, <1>4, EmptyIsQueue, Distinct
     DEF Traces, Brings, ClaimedOnceUnlessMisled, Entries
<1>. QED
  BY <1>3, <1>5, InvParts

\* Every step keeps the inductive invariant.
LEMMA NextInv == FileInv /\ [Next]_vars => FileInv'
<1>1. (FileInv <=> Shape /\ Traces)'
  BY DEF FileInv, Shape, Traces
<1>. QED
  BY <1>1, NextShape, NextTraces

\* The inductive invariant holds in every reachable state.
THEOREM FileInvHolds == Spec => []FileInv
BY InitInv, NextInv, PTL DEF Spec

\* The file's types, and a remove() that hands out what it took.
THEOREM FileTypes == Spec => []TypeOK
<1>1. FileInv => TypeOK
  BY DEF FileInv
<1>. QED
  BY <1>1, FileInvHolds, PTL

\* However any number of operations interleave and stop half way, the file
\* holds one whole queue of entries that were added.
THEOREM WholeQueueHolds == Spec => []WholeQueue
<1>1. FileInv => WholeQueue
  BY DEF FileInv
<1>. QED
  BY <1>1, FileInvHolds, PTL

\* Until a rename has acted on a queue that was not there, no candidate is
\* handed out twice, and none that was handed out still waits.
THEOREM ClaimedOnceHolds == Spec => []ClaimedOnceUnlessMisled
<1>1. FileInv => ClaimedOnceUnlessMisled
  BY DEF FileInv
<1>. QED
  BY <1>1, FileInvHolds, PTL

\* A step of the file is a step of the store, or leaves what the store shows
\* as it was.
LEMMA StepImplements ==
    ASSUME FileInv, FileInv', [Next]_vars
    PROVE  [Store!Sound \/ Store!Misled]_<<Contents, misled>>
<1>1. Contents = file /\ Contents' = file'
  BY DEF FileInv, WholeQueue, Contents
<1>2. CASE UNCHANGED <<file, misled>>
  BY <1>1, <1>2
<1>3. ASSUME NEW c \in Callers, Replace(c)
      PROVE  Store!Sound \/ Store!Misled
  <2>. DEFINE k == call[c]
  <2>1. /\ k.seen \in Queue /\ OneChange(k)
        /\ file' = k.after /\ misled' = (misled \/ k.seen # Contents)
        /\ misled \in BOOLEAN
        /\ k.taken # Nothing => k.seen[k.taken.fact] = k.taken
    BY <1>3 DEF Replace, FileInv, TypeOK, Call
  <2>. HIDE DEF k
  <2>2. CASE misled \/ k.seen # Contents
    BY <2>1, <2>2 DEF Store!Misled
  <2>3. CASE ~misled /\ k.seen = Contents
    <3>1. misled' = FALSE
      BY <2>1, <2>3
    <3>2. PICK f \in Facts :
            \/ /\ k.taken = Nothing
               /\ \E v \in 1 .. adds :
                    k.after = [k.seen EXCEPT ![f] = [fact |-> f, version |-> v]]
            \/ /\ k.taken = k.seen[f] /\ k.taken # Nothing
               /\ k.after = [k.seen EXCEPT ![f] = Nothing]
      BY <2>1 DEF OneChange
    <3>3. ASSUME NEW v \in 1 .. adds,
                 k.after = [k.seen EXCEPT ![f] = [fact |-> f, version |-> v]]
          PROVE  Store!Sound
      <4>1. [fact |-> f, version |-> v] \in Entries
        BY FileAssumption DEF Entries, FileInv, TypeOK
      <4>. QED
        BY <1>1, <2>1, <2>3, <3>1, <3>3, <4>1 DEF Store!Sound, Store!Put
    <3>4. ASSUME k.taken = k.seen[f], k.taken # Nothing,
                 k.after = [k.seen EXCEPT ![f] = Nothing]
          PROVE  Store!Sound
      BY <1>1, <2>1, <2>3, <3>1, <3>4 DEF Store!Sound, Store!Take
    <3>. QED
      BY <3>2, <3>3, <3>4
  <2>. QED
    BY <2>1, <2>2, <2>3
<1>. QED
  BY <1>2, <1>3 DEF Next, vars, Add, Remove, Begin, Stage, Abandon

\* The file implements the candidate store until it has been misled: every
\* rename up to then is one add() or one remove().
THEOREM FileImplementsStore == Spec => ImplementsStore
<1>1. Init => Store!Init
  <2>. SUFFICES ASSUME Init PROVE Store!Init
    OBVIOUS
  <2>1. Contents = EmptyQueue
    BY EmptyIsQueue, Distinct DEF Init, Contents
  <2>. QED
    BY <2>1 DEF Init, Store!Init, EmptyQueue
<1>2. FileInv /\ FileInv' /\ [Next]_vars
        => [Store!Sound \/ Store!Misled]_<<Contents, misled>>
  BY StepImplements
<1>. QED
  BY <1>1, <1>2, FileInvHolds, PTL DEF Spec, ImplementsStore, Store!Spec
=============================================================================
