-------------------------- MODULE CorrectionsProofs --------------------------
(***************************************************************************)
(* Proofs about correct(): however many reporters, memories and penalties.  *)
(***************************************************************************)
EXTENDS Corrections, TLAPS

-----------------------------------------------------------------------------
(* Facts about the records.                                                 *)

\* Disputing a memory leaves a memory, which is disputed and can be disputed
\* no further.
LEMMA DisputedType ==
    ASSUME NEW m \in Memory
    PROVE  /\ Disputed(m) \in Memory
           /\ Disputed(m).status = "disputed"
           /\ ~CanMove(Disputed(m), "disputed")
<1>1. Lowered(m.confidence) \in Confidence
  BY LifecycleAssumption DEF Lowered, Memory, Confidence
<1>2. Disputed(m) \in Memory /\ Disputed(m).status = "disputed"
  BY <1>1 DEF Disputed, Memory, Status
<1>. QED
  BY <1>2 DEF CanMove, AllowedTransitions

\* An active memory may be disputed.
LEMMA ActiveMoves ==
    ASSUME NEW m \in Memory, m.status = "active"
    PROVE  CanMove(m, "disputed")
BY DEF CanMove, AllowedTransitions

\* A stored memory is either as it was seeded, and then it can be disputed, or
\* that disputed, and then it cannot and a written report explains it.
LEMMA StoredMemory ==
    ASSUME CorrectionsInv, NEW id \in Ids, pool[id] # Absent
    PROVE  /\ first[id] \in Memory
           /\ \/ pool[id] = first[id] /\ CanMove(pool[id], "disputed")
              \/ /\ pool[id] = Disputed(first[id])
                 /\ ~CanMove(pool[id], "disputed")
                 /\ \E q \in written : target[q] = id
<1>1. pool[id] = first[id] \/ (first[id] # Absent /\ pool[id] = Disputed(first[id]))
  BY DEF CorrectionsInv, PenaltyOnce
<1>2. first[id] \in Memory /\ first[id].status = "active"
  BY <1>1 DEF CorrectionsInv, TypeOK
<1>3. CASE pool[id] = first[id]
  BY <1>2, <1>3, ActiveMoves
<1>4. CASE pool[id] = Disputed(first[id])
  <2>1. ~CanMove(pool[id], "disputed") /\ CanMove(first[id], "disputed")
    BY <1>2, <1>4, DisputedType, ActiveMoves
  <2>2. reason[id] \in written /\ target[reason[id]] = id
    BY <2>1 DEF CorrectionsInv, FlagIsExplained
  <2>. QED
    BY <1>2, <1>4, <2>1, <2>2
<1>. QED
  BY <1>1, <1>3, <1>4

-----------------------------------------------------------------------------
(* The inductive invariant.                                                 *)

\* A pool of active memories and reporters that have not begun.
LEMMA InitInv == Init => CorrectionsInv
<1>. SUFFICES ASSUME Init PROVE CorrectionsInv
  OBVIOUS
<1>1. \A m \in Seeds : m \in Memory /\ m.status = "active"
  BY DEF Seeds, Memory, Status
<1>2. first = pool /\ pool \in [Ids -> Memory \cup {Absent}]
      /\ \A id \in Ids : first[id] # Absent => first[id].status = "active"
  BY <1>1 DEF Init
<1>3. TypeOK
  BY <1>2 DEF Init, TypeOK
<1>. QED
  BY <1>2, <1>3 DEF Init, CorrectionsInv, CopyIsFirstDispute, WriteStands,
                    PenaltyOnce, FlagIsExplained

\* A step that changes the stage of one call and no memory keeps the
\* invariant, if that call has the right to its new stage.
LEMMA CallMoves ==
    ASSUME CorrectionsInv, NEW p \in Reporters,
           NEW s \in {"idle", "writing"} \cup Replies,
           NEW k \in Memory \cup {Absent},
           stage' = [stage EXCEPT ![p] = s],
           copy' = [copy EXCEPT ![p] = k],
           UNCHANGED <<pool, reason, target, first, written>>,
           k # Absent <=> s = "writing",
           s = "writing" => first[target[p]] # Absent /\ k = Disputed(first[target[p]]),
           s # "recorded",
           s = "refused" => \E q \in written : target[q] = target[p]
    PROVE  CorrectionsInv'
<1>1. TypeOK'
  BY DEF CorrectionsInv, TypeOK
<1>2. \A q \in Reporters : /\ q # p => stage'[q] = stage[q] /\ copy'[q] = copy[q]
                           /\ q = p => stage'[q] = s /\ copy'[q] = k
  BY DEF CorrectionsInv, TypeOK
<1>3. \A q \in Reporters : CopyIsFirstDispute(q)'
  BY <1>2 DEF CorrectionsInv, CopyIsFirstDispute
<1>4. \A q \in Reporters : WriteStands(q)' /\ (stage'[q] = "recorded" => q \in written')
  BY <1>2 DEF CorrectionsInv, WriteStands
<1>5. FlagIsExplained'
  BY <1>2 DEF CorrectionsInv, FlagIsExplained
<1>. QED
  BY <1>1, <1>3, <1>4, <1>5 DEF CorrectionsInv, PenaltyOnce

\* A step that carries a write out keeps the invariant, whether the reporter
\* learns of it or not.
LEMMA WriteMoves ==
    ASSUME CorrectionsInv, NEW p \in Reporters, NEW s \in {"recorded", "failed"},
           Store(p), Answer(p, s)
    PROVE  CorrectionsInv'
<1>. DEFINE id == target[p]
<1>1. /\ id \in Ids /\ first[id] \in Memory /\ copy[p] = Disputed(first[id])
      /\ first[id] # Absent
  BY DEF CorrectionsInv, TypeOK, CopyIsFirstDispute, Store
<1>2. Disputed(first[id]) \in Memory
  BY <1>1, DisputedType
<1>3. /\ \A i \in Ids : /\ i # id => pool'[i] = pool[i] /\ reason'[i] = reason[i]
                        /\ i = id => pool'[i] = Disputed(first[id]) /\ reason'[i] = p
      /\ UNCHANGED <<target, first>> /\ written' = written \cup {p}
      /\ \A q \in Reporters : /\ q # p => stage'[q] = stage[q] /\ copy'[q] = copy[q]
                              /\ q = p => stage'[q] = s /\ copy'[q] = Absent
  BY <1>1 DEF Store, Answer, CorrectionsInv, TypeOK
<1>4. TypeOK'
  <2>1. /\ pool' \in [Ids -> Memory \cup {Absent}]
        /\ reason' \in [Ids -> Reporters \cup {Nobody}]
    BY <1>1, <1>2 DEF Store, CorrectionsInv, TypeOK
  <2>2. /\ stage' \in [Reporters -> {"idle", "writing"} \cup Replies]
        /\ copy' \in [Reporters -> Memory \cup {Absent}]
    BY DEF Answer, CorrectionsInv, TypeOK, Replies
  <2>3. \A q \in Reporters : copy'[q] # Absent <=> stage'[q] = "writing"
    BY <1>3 DEF CorrectionsInv, TypeOK
  <2>. QED
    BY <1>3, <2>1, <2>2, <2>3 DEF CorrectionsInv, TypeOK
<1>. HIDE DEF id
<1>5. \A q \in Reporters : CopyIsFirstDispute(q)'
  BY <1>3 DEF CorrectionsInv, CopyIsFirstDispute
<1>6. \A q \in Reporters : WriteStands(q)'
  BY <1>1, <1>3 DEF CorrectionsInv, TypeOK, WriteStands, id
<1>7. \A q \in Reporters : stage'[q] = "recorded" => q \in written'
  BY <1>3 DEF CorrectionsInv
<1>8. PenaltyOnce'
  BY <1>1, <1>3 DEF CorrectionsInv, PenaltyOnce
<1>9. FlagIsExplained'
  <2>1. \A i \in Ids : pool'[i] # first'[i] =>
                reason'[i] \in written' /\ target'[reason'[i]] = i
    BY <1>3 DEF CorrectionsInv, FlagIsExplained, id
  <2>2. \A q \in Reporters : stage'[q] = "refused" =>
                \E r \in written' : target'[r] = target'[q]
    BY <1>3 DEF CorrectionsInv, FlagIsExplained
  <2>. QED
    BY <2>1, <2>2 DEF FlagIsExplained
<1>. QED
  BY <1>3, <1>4, <1>5, <1>6, <1>7, <1>8, <1>9 DEF CorrectionsInv

\* Every step keeps the inductive invariant.
LEMMA NextInv == CorrectionsInv /\ [Next]_vars => CorrectionsInv'
<1>. SUFFICES ASSUME CorrectionsInv, [Next]_vars PROVE CorrectionsInv'
  OBVIOUS
<1>. USE DEF Replies
<1>1. CASE UNCHANGED vars
  BY <1>1 DEF vars, CorrectionsInv, TypeOK, CopyIsFirstDispute, WriteStands,
              PenaltyOnce, FlagIsExplained
<1>2. ASSUME NEW p \in Reporters, ReadNothing(p) PROVE CorrectionsInv'
  BY <1>2, CallMoves DEF ReadNothing, Answer
<1>3. ASSUME NEW p \in Reporters, ReadAndDispute(p) PROVE CorrectionsInv'
  <2>1. /\ target[p] \in Ids /\ pool[target[p]] # Absent
        /\ CanMove(pool[target[p]], "disputed")
    BY <1>3 DEF ReadAndDispute, CorrectionsInv, TypeOK
  <2>2. pool[target[p]] = first[target[p]] /\ first[target[p]] \in Memory
    BY <2>1, StoredMemory
  <2>3. Disputed(first[target[p]]) \in Memory /\ Absent \notin Memory
    BY <2>2, DisputedType, CorrectionsAssumption
  <2>. QED
    BY <1>3, <2>1, <2>2, <2>3, CallMoves DEF ReadAndDispute
<1>4. ASSUME NEW p \in Reporters, ReadAndRefuse(p) PROVE CorrectionsInv'
  <2>1. \E q \in written : target[q] = target[p]
    BY <1>4, StoredMemory DEF ReadAndRefuse, CorrectionsInv, TypeOK
  <2>. QED
    BY <1>4, <2>1, CallMoves DEF ReadAndRefuse, Answer
<1>5. ASSUME NEW p \in Reporters, Write(p) PROVE CorrectionsInv'
  BY <1>5, WriteMoves DEF Write
<1>6. ASSUME NEW p \in Reporters, WriteFails(p) PROVE CorrectionsInv'
  BY <1>6, CallMoves DEF WriteFails, Answer
<1>7. ASSUME NEW p \in Reporters, WriteUnacknowledged(p) PROVE CorrectionsInv'
  BY <1>7, WriteMoves DEF WriteUnacknowledged
<1>. QED
  BY <1>1, <1>2, <1>3, <1>4, <1>5, <1>6, <1>7 DEF Next

\* The inductive invariant holds in every reachable state.
THEOREM CorrectionsInvHolds == Spec => []CorrectionsInv
BY InitInv, NextInv, PTL DEF Spec

-----------------------------------------------------------------------------
(* What follows.                                                            *)

\* Types: in particular a call holds a copy exactly while it has one to write.
THEOREM CorrectionsTypes == Spec => []TypeOK
<1>1. CorrectionsInv => TypeOK
  BY DEF CorrectionsInv
<1>. QED
  BY <1>1, CorrectionsInvHolds, PTL

\* However many reporters interleave, a memory loses the penalty once.
THEOREM PenaltyOnceHolds == Spec => []PenaltyOnce
<1>1. CorrectionsInv => PenaltyOnce
  BY DEF CorrectionsInv
<1>. QED
  BY <1>1, CorrectionsInvHolds, PTL

\* A memory whose correction was recorded is flagged, and no slower call
\* un-flags it.
THEOREM RecordedStaysFlaggedHolds == Spec => []RecordedStaysFlagged
<1>1. CorrectionsInv => RecordedStaysFlagged
  <2>. SUFFICES ASSUME CorrectionsInv, NEW p \in Reporters, stage[p] = "recorded"
                PROVE  pool[target[p]] # Absent /\ pool[target[p]].status = "disputed"
    BY DEF RecordedStaysFlagged
  <2>1. /\ target[p] \in Ids /\ first[target[p]] \in Memory
        /\ pool[target[p]] = Disputed(first[target[p]])
    BY DEF CorrectionsInv, TypeOK, WriteStands
  <2>. QED
    BY <2>1, DisputedType, CorrectionsAssumption
<1>. QED
  BY <1>1, CorrectionsInvHolds, PTL

\* A flagged memory names a reporter whose correction reached the provider, and
\* whoever is turned away comes after such a one.
THEOREM FlagIsExplainedHolds == Spec => []FlagIsExplained
<1>1. CorrectionsInv => FlagIsExplained
  BY DEF CorrectionsInv
<1>. QED
  BY <1>1, CorrectionsInvHolds, PTL
=============================================================================
