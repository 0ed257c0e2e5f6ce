------------------------- MODULE ApprovalGateProofs -------------------------
(***************************************************************************)
(* Proofs about the approval gate, for any facts, reviewers, confidences    *)
(* and bounds.                                                              *)
(***************************************************************************)
EXTENDS ApprovalGate, TLAPS

-----------------------------------------------------------------------------
(* Facts about the records the gate builds.                                 *)

\* A candidate built by propose() or by an extractor is a memory.
LEMMA CandidateType ==
    ASSUME NEW f \in Facts, NEW c \in Confidence, clock \in Nat
    PROVE  /\ Candidate(f, c) \in Memory
           /\ Candidate(f, c).fact = f
           /\ Candidate(f, c).status = "proposed"
           /\ Candidate(f, c).recorded = clock + 1
BY DEF Candidate, Memory, Status

\* Activating a candidate, as propose() does, changes its status and no more.
LEMMA ActivatedType ==
    ASSUME NEW m \in Memory
    PROVE  /\ [m EXCEPT !.status = "active"] \in Memory
           /\ [m EXCEPT !.status = "active"].status = "active"
           /\ [m EXCEPT !.status = "active"].recorded = m.recorded
           /\ NeedsHuman([m EXCEPT !.status = "active"]) <=> NeedsHuman(m)
BY DEF Memory, Status, NeedsHuman

\* The policy's tests leave a memory to a machine only where it may be left.
LEMMA PolicyExempts ==
    ASSUME NEW m \in Memory, ~NeedsHuman(m)
    PROVE  Exempt(m)
BY LifecycleAssumption DEF NeedsHuman, Exempt, Memory, Confidence

\* Whatever a reviewer endorses is an active memory in that reviewer's name,
\* and stems from the candidate the reviewer claimed.
LEMMA EndorsementType ==
    ASSUME NEW r \in Reviewers, claim[r] \in Memory, NEW m \in Endorsements(r)
    PROVE  /\ m \in Memory
           /\ m.status = "active"
           /\ m.author = r
           /\ m.recorded = claim[r].recorded
<1>1. r \in People /\ r # Nobody
  BY GateAssumption, LifecycleAssumption
<1>2. ASSUME NEW f \in Facts
      PROVE  /\ [claim[r] EXCEPT !.fact = f] \in Memory
             /\ [claim[r] EXCEPT !.fact = f].recorded = claim[r].recorded
  BY DEF Memory
<1>3. ASSUME NEW e \in Memory
      PROVE  /\ Approved(e, r) \in Memory
             /\ Approved(e, r).status = "active"
             /\ Approved(e, r).author = r
             /\ Approved(e, r).recorded = e.recorded
  <2>1. Raised(e.confidence) \in Confidence
    BY LifecycleAssumption DEF Raised, Memory, Confidence
  <2>. QED
    BY <1>1, <2>1 DEF Approved, Memory, Status
<1>4. ASSUME NEW e \in Memory, NEW c \in Confidence
      PROVE  /\ ApprovedAt(e, r, c) \in Memory
             /\ ApprovedAt(e, r, c).status = "active"
             /\ ApprovedAt(e, r, c).author = r
             /\ ApprovedAt(e, r, c).recorded = e.recorded
  BY <1>3 DEF ApprovedAt, Memory
<1>5. PICK f \in Facts :
        \/ m = Approved([claim[r] EXCEPT !.fact = f], r)
        \/ \E c \in GivenConfidence :
                m = ApprovedAt([claim[r] EXCEPT !.fact = f], r, c)
  BY DEF Endorsements
<1>. DEFINE edited == [claim[r] EXCEPT !.fact = f]
<1>6. edited \in Memory /\ edited.recorded = claim[r].recorded
  BY <1>2
<1>. HIDE DEF edited
<1>7. CASE m = Approved(edited, r)
  BY <1>3, <1>6, <1>7
<1>8. ASSUME NEW c \in GivenConfidence, m = ApprovedAt(edited, r, c)
      PROVE  /\ m \in Memory
             /\ m.status = "active"
             /\ m.author = r
             /\ m.recorded = claim[r].recorded
  <2>1. c \in Confidence
    BY GateAssumption
  <2>. QED
    BY <1>4, <1>6, <1>8, <2>1
<1>. QED
  BY <1>5, <1>7, <1>8 DEF edited

-----------------------------------------------------------------------------
(* Types.                                                                   *)

\* The empty gate is well typed.
LEMMA InitType == Init => TypeOK
BY GateAssumption DEF Init, TypeOK, Slot

\* Filing a memory keeps the types.
LEMMA SubmitType ==
    ASSUME TypeOK, NEW m \in Memory, PutForward, Submit(m)
    PROVE  TypeOK'
<1>1. m.fact \in Facts /\ m # Nothing
  BY GateAssumption DEF Memory
<1>2. queue' \in [Facts -> Slot] /\ replaced' \subseteq Memory
  BY <1>1 DEF TypeOK, Submit, Add, Slot
<1>3. clock' \in 0 .. MaxProposals
  BY GateAssumption DEF TypeOK, PutForward
<1>. QED
  BY <1>2, <1>3 DEF TypeOK, Submit

\* Every step keeps the types.
LEMMA NextType == TypeOK /\ [Next]_vars => TypeOK'
<1>. SUFFICES ASSUME TypeOK, [Next]_vars PROVE TypeOK'
  OBVIOUS
<1>. USE GateAssumption
<1>1. CASE UNCHANGED vars
  BY <1>1 DEF TypeOK, vars
<1>2. ASSUME NEW f \in Facts, NEW c \in OfferedConfidence,
             \/ ProposeForReview(f, c)
             \/ ProposeAutoApproved(f, c)
             \/ Ingest(f, c)
      PROVE  TypeOK'
  <2>1. c \in Confidence /\ clock \in Nat
    BY DEF TypeOK
  <2>2. Candidate(f, c) \in Memory
    BY <2>1, CandidateType
  <2>3. CASE ProposeForReview(f, c) \/ Ingest(f, c)
    BY <2>2, <2>3, SubmitType DEF ProposeForReview, Ingest
  <2>4. CASE ProposeAutoApproved(f, c)
    BY <2>2, <2>4, ActivatedType
       DEF ProposeAutoApproved, PutForward, Insert, TypeOK, fates
  <2>. QED
    BY <1>2, <2>3, <2>4
<1>3. ASSUME NEW r \in Reviewers, NEW f \in Facts,
             Claim(r, f) \/ ClaimUnanswered(r, f) \/ Reject(r, f)
      PROVE  TypeOK'
  <2>1. queue[f] # Nothing => queue[f] \in Memory
    BY DEF TypeOK, Slot
  <2>2. CASE Claim(r, f)
    BY <2>1, <2>2 DEF Claim, Remove, TypeOK, Slot, fates
  <2>3. CASE ClaimUnanswered(r, f)
    BY <2>1, <2>3 DEF ClaimUnanswered, Remove, TypeOK, Slot
  <2>4. CASE Reject(r, f)
    BY <2>1, <2>4 DEF Reject, Remove, TypeOK, Slot
  <2>. QED
    BY <1>3, <2>2, <2>3, <2>4
<1>4. ASSUME NEW r \in Reviewers, Finish(r) \/ Die(r)
      PROVE  TypeOK'
  <2>1. claim[r] \in Memory
    BY <1>4 DEF TypeOK, Slot, Finish, Die, Endorse, Endorsable, FailToCommit,
                CommitUnacknowledged, Restore, RestoreFails, GiveBack
  <2>2. \A m \in Endorsements(r) : m \in Memory
    BY <2>1, EndorsementType
  <2>3. CASE Endorse(r)
    BY <2>2, <2>3 DEF Endorse, Insert, TypeOK, Slot, fates
  <2>4. CASE FailToCommit(r)
    BY <2>4 DEF FailToCommit, TypeOK, fates
  <2>5. CASE CommitUnacknowledged(r)
    BY <2>1, <2>2, <2>5 DEF CommitUnacknowledged, Endorsable, Insert, TypeOK
  <2>6. CASE Restore(r)
    <3>1. claim[r].fact \in Facts
      BY <2>1 DEF Memory
    <3>. QED
      BY <2>1, <2>6, <3>1 DEF Restore, GiveBack, Add, TypeOK, Slot
  <2>7. CASE RestoreFails(r)
    BY <2>1, <2>7 DEF RestoreFails, GiveBack, TypeOK, Slot
  <2>8. CASE Die(r)
    BY <2>1, <2>8 DEF Die, TypeOK, Slot
  <2>. QED
    BY <1>4, <2>3, <2>4, <2>5, <2>6, <2>7, <2>8 DEF Finish
<1>5. CASE Stop
  <2>1. dropped' \subseteq Memory
    BY <1>5 DEF Stop, Range, TypeOK, Slot
  <2>2. /\ queue' = [f \in Facts |-> Nothing]
        /\ claim' = [r \in Reviewers |-> Nothing]
        /\ stage' = [r \in Reviewers |-> "idle"]
        /\ UNCHANGED <<pool, clock, refused, logged, replaced, doubted, filed>>
    BY <1>5 DEF Stop
  <2>. QED
    BY <2>1, <2>2 DEF TypeOK, Slot
<1>. QED
  BY <1>1, <1>2, <1>3, <1>4, <1>5 DEF Next, Bot, Pick

\* Type correctness of the gate: Spec keeps TypeOK.
THEOREM TypeCorrect == Spec => []TypeOK
BY InitType, NextType, PTL DEF Spec

-----------------------------------------------------------------------------
(* The gate: nothing reaches the pool but by a reviewer or by the policy.   *)

\* A memory inserted into a pool that satisfies the gate keeps it so if the
\* memory itself does.
LEMMA InsertGate ==
    ASSUME TypeOK, GateHolds, NEW m \in Memory, Insert(m),
           m.status = "active", m.author \in Reviewers \/ Exempt(m)
    PROVE  GateHolds'
<1>. SUFFICES ASSUME NEW i \in DOMAIN pool'
              PROVE  /\ pool'[i].status = "active"
                     /\ pool'[i].author \in Reviewers \/ Exempt(pool'[i])
  BY DEF GateHolds, Exempt
<1>1. pool \in Seq(Memory) /\ pool' = Append(pool, m)
  BY DEF TypeOK, Insert
<1>2. CASE i \in DOMAIN pool
  <2>1. pool'[i] = pool[i]
    BY <1>1, <1>2
  <2>. QED
    BY <1>2, <2>1 DEF GateHolds
<1>3. CASE i \notin DOMAIN pool
  <2>1. pool'[i] = m
    BY <1>1, <1>3
  <2>. QED
    BY <2>1
<1>. QED
  BY <1>2, <1>3

\* Every step keeps the gate.
LEMMA NextGate == TypeOK /\ GateHolds /\ [Next]_vars => GateHolds'
<1>. SUFFICES ASSUME TypeOK, GateHolds, [Next]_vars PROVE GateHolds'
  OBVIOUS
<1>1. CASE UNCHANGED pool
  BY <1>1 DEF GateHolds, Exempt
<1>2. ASSUME NEW f \in Facts, NEW c \in OfferedConfidence,
             ProposeAutoApproved(f, c)
      PROVE  GateHolds'
  <2>1. Candidate(f, c) \in Memory
    BY CandidateType, GateAssumption DEF TypeOK
  <2>2. ~NeedsHuman(Candidate(f, c))
    BY <1>2 DEF ProposeAutoApproved
  <2>. DEFINE m == [Candidate(f, c) EXCEPT !.status = "active"]
  <2>3. m \in Memory /\ m.status = "active" /\ Exempt(m)
    BY <2>1, <2>2, ActivatedType, PolicyExempts
  <2>4. Insert(m)
    BY <1>2 DEF ProposeAutoApproved
  <2>. QED
    BY <2>3, <2>4, InsertGate
<1>3. ASSUME NEW r \in Reviewers, Endorse(r) \/ CommitUnacknowledged(r)
      PROVE  GateHolds'
  <2>1. claim[r] \in Memory
    BY <1>3 DEF TypeOK, Slot, Endorse, CommitUnacknowledged, Endorsable
  <2>2. PICK m \in Endorsements(r) : Insert(m)
    BY <1>3 DEF Endorse, CommitUnacknowledged
  <2>3. m \in Memory /\ m.status = "active" /\ m.author \in Reviewers
    BY <2>1, EndorsementType
  <2>. QED
    BY <2>2, <2>3, InsertGate
<1>. QED
  BY <1>1, <1>2, <1>3
     DEF Next, Bot, Pick, Finish, ProposeForReview, Ingest, Submit, Claim,
         ClaimUnanswered, Reject, FailToCommit, Restore, RestoreFails, Die, Stop,
         vars, fates

\* Every memory in the pool was endorsed by a named reviewer, or the policy
\* exempts it: GateHolds in every reachable state, whatever the policy.
THEOREM GateSound == Spec => []GateHolds
<1>1. Init => GateHolds
  BY DEF Init, GateHolds
<1>. QED
  BY <1>1, TypeCorrect, NextGate, PTL DEF Spec

-----------------------------------------------------------------------------
(* One decision per candidate.                                              *)

\* After an insert, what is pooled is what was pooled before and the candidate
\* just inserted, and a stamp that was not in the pool is in it at one place.
LEMMA InsertPooled ==
    ASSUME TypeOK, NEW m \in Memory, Insert(m)
    PROVE  /\ \A x : Pooled(x)' <=> Pooled(x) \/ x.recorded = m.recorded
           /\ \A i \in DOMAIN pool : i \in DOMAIN pool' /\ pool'[i] = pool[i]
           /\ \A i \in DOMAIN pool' : i \notin DOMAIN pool =>
                    i = Len(pool) + 1 /\ pool'[i] = m
<1>1. pool \in Seq(Memory) /\ pool' = Append(pool, m)
  BY DEF TypeOK, Insert
<1>2. /\ DOMAIN pool = 1 .. Len(pool)
      /\ DOMAIN pool' = 1 .. Len(pool) + 1
      /\ Len(pool) \in Nat
  BY <1>1
<1>3. /\ \A i \in DOMAIN pool : pool'[i] = pool[i]
      /\ pool'[Len(pool) + 1] = m
  BY <1>1, <1>2
<1>4. \A i \in DOMAIN pool' : i \in DOMAIN pool \/ i = Len(pool) + 1
  BY <1>2
<1>5. DOMAIN pool \subseteq DOMAIN pool' /\ Len(pool) + 1 \in DOMAIN pool'
  BY <1>2
<1>. QED
  BY <1>3, <1>4, <1>5 DEF Pooled

\* Filing a candidate with a fresh stamp: it waits, and what waited under the
\* same fact is replaced.
LEMMA SubmitInv ==
    ASSUME GateInv, NEW m \in Memory, PutForward, Submit(m),
           m.status = "proposed", m.recorded = clock + 1
    PROVE  GateInv'
<1>. USE DEF GateInv
<1>1. /\ TypeOK'
      /\ m.fact \in Facts /\ m # Nothing /\ clock \in Nat
      /\ filed \subseteq Memory
      /\ \A x \in Memory : x.recorded \in Nat /\ x.fact \in Facts
  <2>1. TypeOK'
    BY SubmitType
  <2>2. /\ m.fact \in Facts /\ m # Nothing
        /\ \A x \in Memory : x.recorded \in Nat /\ x.fact \in Facts
    BY GateAssumption DEF Memory
  <2>3. clock \in Nat /\ filed \subseteq Memory
    BY GateAssumption DEF TypeOK
  <2>. QED
    BY <2>1, <2>2, <2>3
<1>2. /\ filed' = filed \cup {m}
      /\ queue' = [queue EXCEPT ![m.fact] = m]
      /\ replaced' = replaced \cup ({queue[m.fact]} \ {Nothing})
      /\ clock' = clock + 1
      /\ UNCHANGED <<pool, stage, claim, refused, logged, dropped, doubted>>
  BY DEF Submit, Add, PutForward
<1>3. \A x \in filed : x.recorded # m.recorded /\ x # m
  BY <1>1 DEF Stamped
<1>4. /\ \A f \in Facts : queue'[f] = IF f = m.fact THEN m ELSE queue[f]
      /\ \A r \in Reviewers : claim'[r] = claim[r]
  BY <1>1, <1>2 DEF TypeOK
<1>5. QueuedAsFiled'
  BY <1>1, <1>2, <1>4 DEF QueuedAsFiled
<1>6. \A x : InFlight(x)' <=> InFlight(x)
  BY <1>2 DEF InFlight
<1>7. \A x : Pooled(x)' <=> Pooled(x)
  BY <1>2 DEF Pooled
<1>8. \A x \in filed : Waiting(x)' <=> Waiting(x) /\ x.fact # m.fact
  BY <1>1, <1>3, <1>4 DEF Waiting
<1>9. Waiting(m)' /\ ~InFlight(m) /\ ~Pooled(m)
  <2>1. Waiting(m)'
    BY <1>1, <1>4 DEF Waiting
  <2>2. ~InFlight(m)
    BY <1>1, <1>3 DEF InFlight, QueuedAsFiled
  <2>3. ~Pooled(m)
    BY <1>1 DEF Pooled, Stamped, TypeOK
  <2>. QED
    BY <2>1, <2>2, <2>3
<1>10. OneHolder'
  BY <1>1, <1>2, <1>3, <1>8 DEF OneHolder, QueuedAsFiled
<1>11. Stamped'
  BY <1>1, <1>2, <1>3 DEF Stamped, TypeOK
<1>12. \A x \in {queue[m.fact]} \ {Nothing} :
            x \in filed /\ x.fact = m.fact /\ Waiting(x) /\ ~InFlight(x)
  <2>. SUFFICES ASSUME queue[m.fact] # Nothing
                PROVE  LET x == queue[m.fact]
                       IN  x \in filed /\ x.fact = m.fact /\ Waiting(x) /\ ~InFlight(x)
    OBVIOUS
  <2>1. queue[m.fact] \in filed /\ queue[m.fact].fact = m.fact
    BY <1>1 DEF QueuedAsFiled
  <2>. QED
    BY <2>1 DEF Waiting, InFlight, OneHolder
<1>13. Gone' = Gone \cup ({queue[m.fact]} \ {Nothing})
  BY <1>2 DEF Gone
<1>14. GoneForGood'
  <2>1. Gone' \subseteq filed' /\ doubted' \subseteq filed'
    BY <1>2, <1>12, <1>13 DEF GoneForGood
  <2>2. \A x \in Gone' : ~Waiting(x)' /\ ~InFlight(x)'
    BY <1>6, <1>8, <1>12, <1>13 DEF GoneForGood
  <2>. QED
    BY <2>1, <2>2 DEF GoneForGood
<1>15. Accounted'
  <2>1. ASSUME NEW x \in filed
        PROVE  Waiting(x)' \/ InFlight(x)' \/ Pooled(x)' \/ x \in Gone'
    <3>1. CASE Waiting(x) /\ x.fact = m.fact
      BY <1>1, <1>13, <3>1, GateAssumption DEF Waiting
    <3>. QED
      BY <1>6, <1>7, <1>8, <1>13, <3>1 DEF Accounted
  <2>. QED
    BY <1>2, <1>9, <2>1 DEF Accounted
<1>16. DecidedOnce'
  <2>. SUFFICES ASSUME NEW x \in filed' \ doubted'
                PROVE  /\ Pooled(x)' => ~Waiting(x)' /\ ~InFlight(x)' /\ x \notin Gone'
                       /\ \A i, j \in DOMAIN pool' :
                            pool'[i].recorded = x.recorded /\ pool'[j].recorded = x.recorded
                                => i = j
    BY DEF DecidedOnce
  <2>1. CASE x \in filed
    BY <1>2, <1>6, <1>7, <1>8, <1>12, <1>13, <2>1 DEF DecidedOnce
  <2>2. CASE x = m
    BY <1>2, <1>7, <1>9, <2>2 DEF Pooled
  <2>. QED
    BY <1>2, <2>1, <2>2
<1>. QED
  BY <1>1, <1>5, <1>10, <1>11, <1>14, <1>15, <1>16

\* A memory the policy activates at once is nobody's candidate: its stamp is
\* new, so no decision is affected.
LEMMA AutoInv ==
    ASSUME GateInv, NEW m \in Memory, PutForward, Insert(m), TypeOK',
           m.recorded = clock + 1, UNCHANGED <<queue, stage, claim, fates>>
    PROVE  GateInv'
<1>. USE DEF GateInv
<1>1. /\ UNCHANGED <<queue, stage, claim, filed, doubted>>
      /\ Gone' = Gone /\ clock' = clock + 1 /\ clock \in Nat
  BY GateAssumption DEF fates, Gone, PutForward, TypeOK
<1>2. /\ \A x : Pooled(x)' <=> Pooled(x) \/ x.recorded = m.recorded
      /\ \A i \in DOMAIN pool : pool'[i] = pool[i]
      /\ \A i \in DOMAIN pool' : i \notin DOMAIN pool => pool'[i] = m
  BY InsertPooled
<1>3. \A x \in filed : x.recorded # m.recorded
  BY <1>1 DEF Stamped, TypeOK, Memory
<1>4. QueuedAsFiled' /\ OneHolder' /\ GoneForGood'
  BY <1>1 DEF QueuedAsFiled, OneHolder, GoneForGood, Waiting, InFlight
<1>5. Stamped'
  <2>0. filed \subseteq Memory /\ pool \in Seq(Memory)
    BY DEF TypeOK
  <2>1. /\ \A x \in filed : x.recorded \in Nat
        /\ \A i \in DOMAIN pool : pool[i].recorded \in Nat
    <3>1. \A i \in DOMAIN pool : pool[i] \in Memory
      BY <2>0
    <3>2. \A x \in Memory : x.recorded \in Nat
      BY DEF Memory
    <3>. QED
      BY <2>0, <3>1, <3>2
  <2>2. \A i \in DOMAIN pool' : pool'[i].recorded <= clock + 1
    BY <1>1, <1>2, <2>1 DEF Stamped
  <2>3. \A x \in filed : x.status = "proposed" /\ x.recorded <= clock + 1
    BY <1>1, <2>1 DEF Stamped
  <2>. QED
    BY <1>1, <2>2, <2>3 DEF Stamped
<1>6. Accounted'
  BY <1>1, <1>2 DEF Accounted, Waiting, InFlight
<1>7. DecidedOnce'
  BY <1>1, <1>2, <1>3 DEF DecidedOnce, Waiting, InFlight
<1>. QED
  BY <1>4, <1>5, <1>6, <1>7

\* Taking a candidate out of the queue: it was submitted, it is neither held
\* nor gone, and afterwards it waits no more; the others wait as before.
LEMMA RemoveFacts ==
    ASSUME GateInv, NEW f \in Facts, Remove(f)
    PROVE  /\ queue[f] \in filed /\ queue[f] # Nothing
           /\ queue[f] \notin Gone /\ ~InFlight(queue[f])
           /\ \A x \in filed : Waiting(x)' <=> Waiting(x) /\ x # queue[f]
           /\ Waiting(queue[f])
           /\ QueuedAsFiled /\ filed' = filed =>
                \A g \in Facts : queue'[g] # Nothing =>
                                    queue'[g] \in filed' /\ queue'[g].fact = g
<1>. USE DEF GateInv
<1>1. /\ queue[f] # Nothing
      /\ queue' = [queue EXCEPT ![f] = Nothing]
      /\ queue[f] \in filed /\ queue[f].fact = f
      /\ \A x \in filed : x # Nothing /\ x.fact \in Facts
  <2>1. queue[f] # Nothing /\ queue' = [queue EXCEPT ![f] = Nothing]
    BY DEF Remove
  <2>2. queue[f] \in filed /\ queue[f].fact = f
    BY <2>1 DEF QueuedAsFiled
  <2>3. \A x \in filed : x # Nothing /\ x.fact \in Facts
    BY GateAssumption DEF TypeOK, Memory
  <2>. QED
    BY <2>1, <2>2, <2>3
<1>2. Waiting(queue[f])
  BY <1>1 DEF Waiting
<1>3. queue[f] \notin Gone
  BY <1>2 DEF GoneForGood
<1>4. ~InFlight(queue[f])
  BY <1>1, <1>2 DEF OneHolder, InFlight
<1>5. \A g \in Facts : queue'[g] = IF g = f THEN Nothing ELSE queue[g]
  BY <1>1 DEF TypeOK
<1>6. \A x \in filed : Waiting(x)' <=> Waiting(x) /\ x # queue[f]
  BY <1>1, <1>5 DEF Waiting, QueuedAsFiled
<1>. QED
  BY <1>1, <1>2, <1>3, <1>4, <1>5, <1>6 DEF QueuedAsFiled

\* A claim moves a candidate from the queue into the hands of one call.
LEMMA ClaimInv ==
    ASSUME GateInv, TypeOK', NEW r \in Reviewers, NEW f \in Facts, Claim(r, f)
    PROVE  GateInv'
<1>. USE DEF GateInv
<1>1. /\ Remove(f) /\ claim[r] = Nothing
      /\ claim' = [claim EXCEPT ![r] = queue[f]]
      /\ UNCHANGED <<pool, clock, filed, doubted>>
      /\ Gone' = Gone
  BY DEF Claim, TypeOK, fates, Gone
<1>2. /\ queue[f] \in filed /\ queue[f] # Nothing
      /\ queue[f] \notin Gone /\ ~InFlight(queue[f]) /\ Waiting(queue[f])
      /\ \A x \in filed : Waiting(x)' <=> Waiting(x) /\ x # queue[f]
      /\ \A g \in Facts : queue'[g] # Nothing =>
                                    queue'[g] \in filed' /\ queue'[g].fact = g
  BY <1>1, RemoveFacts
<1>3. \A s \in Reviewers : claim'[s] = IF s = r THEN queue[f] ELSE claim[s]
  BY <1>1 DEF TypeOK
<1>4. \A x \in filed : InFlight(x)' <=> InFlight(x) \/ x = queue[f]
  <2>1. \A x \in filed : x # Nothing
    BY GateAssumption DEF TypeOK
  <2>. QED
    BY <1>1, <1>3, <2>1 DEF InFlight
<1>5. \A x : Pooled(x)' <=> Pooled(x)
  BY <1>1 DEF Pooled
<1>6. QueuedAsFiled'
  BY <1>1, <1>2, <1>3 DEF QueuedAsFiled
<1>7. OneHolder'
  BY <1>2, <1>3 DEF OneHolder, QueuedAsFiled, InFlight
<1>8. Stamped' /\ GoneForGood'
  BY <1>1, <1>2, <1>4 DEF Stamped, GoneForGood
<1>9. Accounted' /\ DecidedOnce'
  BY <1>1, <1>2, <1>4, <1>5 DEF Accounted, DecidedOnce
<1>. QED
  BY <1>6, <1>7, <1>8, <1>9

\* A candidate that goes from the queue straight to its end.
LEMMA DiscardInv ==
    ASSUME GateInv, TypeOK', NEW f \in Facts, Remove(f),
           UNCHANGED <<pool, stage, claim, clock, doubted, filed>>,
           Gone' = Gone \cup {queue[f]}
    PROVE  GateInv'
<1>. USE DEF GateInv
<1>1. /\ queue[f] \in filed /\ queue[f] # Nothing
      /\ queue[f] \notin Gone /\ ~InFlight(queue[f]) /\ Waiting(queue[f])
      /\ \A x \in filed : Waiting(x)' <=> Waiting(x) /\ x # queue[f]
      /\ \A g \in Facts : queue'[g] # Nothing =>
                                    queue'[g] \in filed' /\ queue'[g].fact = g
  BY RemoveFacts
<1>2. /\ \A x : InFlight(x)' <=> InFlight(x)
      /\ \A x : Pooled(x)' <=> Pooled(x)
  BY DEF InFlight, Pooled
<1>3. QueuedAsFiled' /\ OneHolder'
  BY <1>1 DEF QueuedAsFiled, OneHolder
<1>4. Stamped' /\ GoneForGood'
  BY <1>1, <1>2 DEF Stamped, GoneForGood
<1>5. Accounted' /\ DecidedOnce'
  BY <1>1, <1>2 DEF Accounted, DecidedOnce
<1>. QED
  BY <1>3, <1>4, <1>5

\* What a call in progress holds: a submitted candidate that neither waits nor
\* is gone, and that no other call holds.
LEMMA HolderFacts ==
    ASSUME GateInv, NEW r \in Reviewers, stage[r] # "idle"
    PROVE  /\ claim[r] \in filed /\ claim[r] # Nothing
           /\ claim[r] \in Memory /\ claim[r].fact \in Facts
           /\ claim[r].status = "proposed"
           /\ InFlight(claim[r]) /\ ~Waiting(claim[r]) /\ claim[r] \notin Gone
           /\ \A s \in Reviewers : s # r => claim[s] # claim[r]
<1>. USE DEF GateInv
<1>1. claim[r] # Nothing
  BY DEF TypeOK
<1>2. claim[r] \in filed
  BY <1>1 DEF QueuedAsFiled
<1>3. claim[r] \in Memory /\ claim[r].fact \in Facts
  BY <1>2 DEF TypeOK, Memory
<1>4. InFlight(claim[r])
  BY DEF InFlight
<1>5. ~Waiting(claim[r]) /\ \A s \in Reviewers : s # r => claim[s] # claim[r]
  BY <1>1 DEF OneHolder
<1>6. claim[r] \notin Gone
  BY <1>4 DEF GoneForGood
<1>. QED
  BY <1>1, <1>2, <1>3, <1>4, <1>5, <1>6 DEF Stamped

\* When a call lets go of what it held, exactly that is no longer in flight.
LEMMA ReleaseFacts ==
    ASSUME GateInv, NEW r \in Reviewers, stage[r] # "idle",
           claim' = [claim EXCEPT ![r] = Nothing]
    PROVE  /\ \A s \in Reviewers : claim'[s] = IF s = r THEN Nothing ELSE claim[s]
           /\ \A x \in filed : InFlight(x)' <=> InFlight(x) /\ x # claim[r]
<1>. USE DEF GateInv
<1>1. \A s \in Reviewers : claim'[s] = IF s = r THEN Nothing ELSE claim[s]
  BY DEF TypeOK
<1>2. \A x \in filed : x # Nothing
  BY GateAssumption DEF TypeOK
<1>. QED
  BY <1>1, <1>2, HolderFacts DEF InFlight

\* Endorsing moves the held candidate into the pool, where it was not.
LEMMA EndorseInv ==
    ASSUME GateInv, TypeOK', NEW r \in Reviewers, Endorse(r)
    PROVE  GateInv'
<1>. USE DEF GateInv
<1>1. /\ stage[r] # "idle" /\ claim' = [claim EXCEPT ![r] = Nothing]
      /\ UNCHANGED <<queue, clock, filed, doubted>> /\ Gone' = Gone
  BY DEF Endorse, Endorsable, fates, Gone
<1>2. /\ claim[r] \in filed /\ claim[r] \in Memory
      /\ ~Waiting(claim[r]) /\ claim[r] \notin Gone /\ InFlight(claim[r])
  BY <1>1, HolderFacts
<1>3. PICK m \in Endorsements(r) : Insert(m)
  BY DEF Endorse
<1>4. m \in Memory /\ m.recorded = claim[r].recorded
  BY <1>2, <1>3, EndorsementType
<1>5. /\ \A x : Pooled(x)' <=> Pooled(x) \/ x.recorded = m.recorded
      /\ \A i \in DOMAIN pool : pool'[i] = pool[i]
      /\ \A i \in DOMAIN pool' : i \notin DOMAIN pool =>
                i = Len(pool) + 1 /\ pool'[i] = m
  BY <1>3, <1>4, InsertPooled
<1>6. /\ \A s \in Reviewers : claim'[s] = IF s = r THEN Nothing ELSE claim[s]
      /\ \A x \in filed : InFlight(x)' <=> InFlight(x) /\ x # claim[r]
  BY <1>1, ReleaseFacts
<1>7. \A x : Waiting(x)' <=> Waiting(x)
  BY <1>1 DEF Waiting
<1>8. \A x \in filed : x.recorded = m.recorded <=> x = claim[r]
  BY <1>2, <1>4 DEF Stamped
<1>9. QueuedAsFiled' /\ OneHolder'
  BY <1>1, <1>6, <1>7 DEF QueuedAsFiled, OneHolder
<1>10. Stamped' /\ GoneForGood'
  <2>1. \A i \in DOMAIN pool' : pool'[i].recorded <= clock
    BY <1>2, <1>4, <1>5 DEF Stamped
  <2>. QED
    BY <1>1, <1>6, <1>7, <2>1 DEF Stamped, GoneForGood
<1>11. Accounted'
  BY <1>1, <1>5, <1>6, <1>7, <1>8 DEF Accounted
<1>12. DecidedOnce'
  <2>. SUFFICES ASSUME NEW x \in filed \ doubted
                PROVE  /\ Pooled(x)' => ~Waiting(x)' /\ ~InFlight(x)' /\ x \notin Gone'
                       /\ \A i, j \in DOMAIN pool' :
                            pool'[i].recorded = x.recorded /\ pool'[j].recorded = x.recorded
                                => i = j
    BY <1>1 DEF DecidedOnce
  <2>1. CASE x = claim[r]
    <3>1. ~Pooled(x)
      BY <1>2, <2>1 DEF DecidedOnce
    <3>2. \A i \in DOMAIN pool' : pool'[i].recorded = x.recorded => i = Len(pool) + 1
      BY <1>5, <3>1 DEF Pooled
    <3>. QED
      BY <1>1, <1>2, <1>6, <1>7, <2>1, <3>2
  <2>2. CASE x # claim[r]
    <3>1. x.recorded # m.recorded
      BY <1>8, <2>2
    <3>2. \A i \in DOMAIN pool' : pool'[i].recorded = x.recorded =>
                i \in DOMAIN pool /\ pool[i].recorded = x.recorded
      BY <1>5, <3>1
    <3>. QED
      BY <1>1, <1>5, <1>6, <1>7, <3>1, <3>2 DEF DecidedOnce
  <2>. QED
    BY <2>1, <2>2
<1>. QED
  BY <1>9, <1>10, <1>11, <1>12

\* A stored but unacknowledged candidate is in the pool and held: doubted.
LEMMA UnacknowledgedInv ==
    ASSUME GateInv, TypeOK', NEW r \in Reviewers, CommitUnacknowledged(r)
    PROVE  GateInv'
<1>. USE DEF GateInv
<1>1. /\ stage[r] # "idle" /\ doubted' = doubted \cup {claim[r]}
      /\ UNCHANGED <<queue, claim, clock, filed>> /\ Gone' = Gone
  BY DEF CommitUnacknowledged, Endorsable, Gone
<1>2. claim[r] \in filed /\ claim[r] \in Memory
  BY <1>1, HolderFacts
<1>3. PICK m \in Endorsements(r) : Insert(m)
  BY DEF CommitUnacknowledged
<1>4. m \in Memory /\ m.recorded = claim[r].recorded
  BY <1>2, <1>3, EndorsementType
<1>5. /\ \A x : Pooled(x)' <=> Pooled(x) \/ x.recorded = m.recorded
      /\ \A i \in DOMAIN pool : pool'[i] = pool[i]
      /\ \A i \in DOMAIN pool' : i \notin DOMAIN pool => pool'[i] = m
  BY <1>3, <1>4, InsertPooled
<1>6. /\ \A x : Waiting(x)' <=> Waiting(x)
      /\ \A x : InFlight(x)' <=> InFlight(x)
  BY <1>1 DEF Waiting, InFlight
<1>7. \A x \in filed \ doubted' : x.recorded # m.recorded
  BY <1>1, <1>2, <1>4 DEF Stamped
<1>8. QueuedAsFiled' /\ OneHolder'
  BY <1>1, <1>6 DEF QueuedAsFiled, OneHolder
<1>9. Stamped' /\ GoneForGood'
  <2>1. \A i \in DOMAIN pool' : pool'[i].recorded <= clock
    BY <1>2, <1>4, <1>5 DEF Stamped
  <2>. QED
    BY <1>1, <1>2, <1>6, <2>1 DEF Stamped, GoneForGood
<1>10. Accounted'
  BY <1>1, <1>5, <1>6 DEF Accounted
<1>11. DecidedOnce'
  BY <1>1, <1>5, <1>6, <1>7 DEF DecidedOnce
<1>. QED
  BY <1>8, <1>9, <1>10, <1>11

\* A commit that fails before anything is stored changes nothing that is
\* promised: the call still holds the candidate.
LEMMA FailInv ==
    ASSUME GateInv, TypeOK', NEW r \in Reviewers, FailToCommit(r)
    PROVE  GateInv'
<1>1. UNCHANGED <<queue, pool, claim, clock, filed, doubted>> /\ Gone' = Gone
  BY DEF FailToCommit, fates, Gone
<1>2. /\ \A x : Waiting(x)' <=> Waiting(x)
      /\ \A x : InFlight(x)' <=> InFlight(x)
      /\ \A x : Pooled(x)' <=> Pooled(x)
  BY <1>1 DEF Waiting, InFlight, Pooled
<1>. QED
  BY <1>1, <1>2 DEF GateInv, QueuedAsFiled, OneHolder, Stamped, GoneForGood,
                    Accounted, DecidedOnce

\* The rollback: the candidate waits again, and a newer version of the fact
\* that had taken its place is gone.
LEMMA RestoreInv ==
    ASSUME GateInv, TypeOK', NEW r \in Reviewers, Restore(r)
    PROVE  GateInv'
<1>. USE DEF GateInv
<1>. DEFINE old == claim[r]
            over == {queue[old.fact]} \ {Nothing}
<1>1. /\ stage[r] # "idle" /\ claim' = [claim EXCEPT ![r] = Nothing]
      /\ queue' = [queue EXCEPT ![old.fact] = old]
      /\ UNCHANGED <<pool, clock, filed, doubted>>
      /\ Gone' = Gone \cup over
  BY DEF Restore, GiveBack, Add, Gone
<1>2. /\ old \in filed /\ old # Nothing /\ old.fact \in Facts
      /\ InFlight(old) /\ ~Waiting(old) /\ old \notin Gone
      /\ \A s \in Reviewers : s # r => claim[s] # old
  BY <1>1, HolderFacts
<1>3. /\ \A s \in Reviewers : claim'[s] = IF s = r THEN Nothing ELSE claim[s]
      /\ \A x \in filed : InFlight(x)' <=> InFlight(x) /\ x # old
  BY <1>1, ReleaseFacts
<1>4. \A g \in Facts : queue'[g] = IF g = old.fact THEN old ELSE queue[g]
  BY <1>1 DEF TypeOK
<1>5. \A x \in filed : x # Nothing /\ x.fact \in Facts
  BY GateAssumption DEF TypeOK, Memory
<1>. HIDE DEF old
<1>6. \A x \in filed :
            Waiting(x)' <=> x = old \/ (Waiting(x) /\ x.fact # old.fact)
  BY <1>2, <1>4, <1>5 DEF Waiting
<1>7. \A x \in over :
            x \in filed /\ x.fact = old.fact /\ Waiting(x) /\ ~InFlight(x) /\ x # old
  <2>. SUFFICES ASSUME queue[old.fact] # Nothing
                PROVE  LET x == queue[old.fact]
                       IN  /\ x \in filed /\ x.fact = old.fact
                           /\ Waiting(x) /\ ~InFlight(x) /\ x # old
    OBVIOUS
  <2>1. queue[old.fact] \in filed /\ queue[old.fact].fact = old.fact
    BY <1>2 DEF QueuedAsFiled
  <2>2. Waiting(queue[old.fact])
    BY <2>1 DEF Waiting
  <2>3. ~InFlight(queue[old.fact])
    BY <2>1, <2>2 DEF OneHolder, InFlight
  <2>. QED
    BY <1>2, <2>1, <2>2, <2>3
<1>8. \A x \in filed : Waiting(x) /\ x.fact = old.fact => x \in over
  BY <1>5 DEF Waiting
<1>. HIDE DEF over
<1>9. \A x : Pooled(x)' <=> Pooled(x)
  BY <1>1 DEF Pooled
<1>10. QueuedAsFiled'
  BY <1>1, <1>2, <1>3, <1>4 DEF QueuedAsFiled
<1>11. OneHolder'
  <2>1. \A s \in Reviewers : claim'[s] # Nothing =>
            s # r /\ claim'[s] = claim[s] /\ claim[s] \in filed
    BY <1>3 DEF QueuedAsFiled
  <2>2. \A x \in filed : Waiting(x)' <=> queue'[x.fact] = x
    BY DEF Waiting
  <2>3. \A s \in Reviewers : claim'[s] # Nothing =>
            queue'[claim'[s].fact] # claim'[s]
    <3>. SUFFICES ASSUME NEW s \in Reviewers, claim'[s] # Nothing
                  PROVE  ~(queue'[claim[s].fact] = claim[s])
      BY <2>1
    <3>1. claim[s] \in filed /\ claim[s] # old /\ ~Waiting(claim[s])
      BY <1>2, <2>1 DEF OneHolder
    <3>. QED
      BY <1>6, <2>2, <3>1
  <2>4. \A s \in Reviewers : claim'[s] # Nothing =>
            \A other \in Reviewers \ {s} : claim'[other] # claim'[s]
    BY <1>3, <2>1 DEF OneHolder
  <2>. QED
    BY <2>3, <2>4 DEF OneHolder, Waiting
<1>12. Stamped' /\ GoneForGood'
  <2>1. Gone' \subseteq filed' /\ doubted' \subseteq filed'
    BY <1>1, <1>7 DEF GoneForGood
  <2>2. \A x \in Gone' : ~Waiting(x)' /\ ~InFlight(x)'
    BY <1>1, <1>2, <1>3, <1>6, <1>7 DEF GoneForGood
  <2>. QED
    BY <1>1, <2>1, <2>2 DEF Stamped, GoneForGood
<1>13. Accounted'
  BY <1>1, <1>3, <1>6, <1>8, <1>9 DEF Accounted
<1>14. DecidedOnce'
  BY <1>1, <1>2, <1>3, <1>6, <1>7, <1>9 DEF DecidedOnce
<1>. QED
  BY <1>10, <1>11, <1>12, <1>13, <1>14

\* A call that ends with its candidate in no store, logged or not.
LEMMA LoseInv ==
    ASSUME GateInv, TypeOK', NEW r \in Reviewers, stage[r] # "idle",
           claim' = [claim EXCEPT ![r] = Nothing],
           UNCHANGED <<queue, pool, clock, filed, doubted>>,
           Gone' = Gone \cup {claim[r]}
    PROVE  GateInv'
<1>. USE DEF GateInv
<1>1. claim[r] \in filed /\ InFlight(claim[r]) /\ ~Waiting(claim[r])
  BY HolderFacts
<1>2. /\ \A s \in Reviewers : claim'[s] = IF s = r THEN Nothing ELSE claim[s]
      /\ \A x \in filed : InFlight(x)' <=> InFlight(x) /\ x # claim[r]
  BY ReleaseFacts
<1>3. /\ \A x : Waiting(x)' <=> Waiting(x)
      /\ \A x : Pooled(x)' <=> Pooled(x)
  BY DEF Waiting, Pooled
<1>4. QueuedAsFiled' /\ OneHolder'
  BY <1>2, <1>3 DEF QueuedAsFiled, OneHolder
<1>5. Stamped' /\ GoneForGood'
  BY <1>1, <1>2, <1>3 DEF Stamped, GoneForGood
<1>6. Accounted' /\ DecidedOnce'
  BY <1>1, <1>2, <1>3 DEF Accounted, DecidedOnce
<1>. QED
  BY <1>4, <1>5, <1>6

\* When a process stops over its in-memory queue, what waited or was held is
\* dropped, and nothing waits or is held any more.
LEMMA StopInv ==
    ASSUME GateInv, TypeOK', Stop
    PROVE  GateInv'
<1>. USE DEF GateInv
<1>1. /\ UNCHANGED <<pool, clock, filed, doubted>>
      /\ \A f \in Facts : queue'[f] = Nothing
      /\ \A r \in Reviewers : claim'[r] = Nothing
  BY DEF Stop
<1>. DEFINE lost == (Range(queue) \cup Range(claim)) \ {Nothing}
<1>2. Gone' = Gone \cup lost
  BY DEF Stop, Gone
<1>3. DOMAIN queue = Facts /\ DOMAIN claim = Reviewers
  BY DEF TypeOK
<1>4. \A x : x \in lost <=>
        x # Nothing /\ ((\E f \in Facts : x = queue[f]) \/ (\E r \in Reviewers : x = claim[r]))
  BY <1>3 DEF Range
<1>. HIDE DEF lost
<1>5. \A x \in filed : x # Nothing /\ x.fact \in Facts
  BY GateAssumption DEF TypeOK, Memory
<1>6. ASSUME NEW x \in filed
      PROVE  x \in lost <=> Waiting(x) \/ InFlight(x)
  <2>1. ASSUME NEW f \in Facts, x = queue[f] PROVE Waiting(x)
    BY <1>5, <2>1 DEF QueuedAsFiled, Waiting
  <2>. QED
    BY <1>4, <1>5, <2>1 DEF Waiting, InFlight
<1>7. lost \subseteq filed
  BY <1>4 DEF QueuedAsFiled
<1>8. /\ \A x \in filed : ~Waiting(x)' /\ ~InFlight(x)'
      /\ \A x : Pooled(x)' <=> Pooled(x)
  BY <1>1, <1>5 DEF Waiting, InFlight, Pooled
<1>9. QueuedAsFiled' /\ OneHolder'
  BY <1>1 DEF QueuedAsFiled, OneHolder
<1>10. Stamped'
  BY <1>1 DEF Stamped
<1>11. GoneForGood'
  BY <1>1, <1>2, <1>7, <1>8 DEF GoneForGood
<1>12. Accounted'
  BY <1>1, <1>2, <1>6, <1>8 DEF Accounted
<1>13. DecidedOnce'
  BY <1>1, <1>2, <1>6, <1>8 DEF DecidedOnce
<1>. QED
  BY <1>9, <1>10, <1>11, <1>12, <1>13

\* Nothing has been submitted yet.
LEMMA InitInv == Init => GateInv
<1>. SUFFICES ASSUME Init PROVE GateInv
  OBVIOUS
<1>1. /\ pool = <<>> /\ filed = {} /\ doubted = {} /\ Gone = {}
      /\ \A f \in Facts : queue[f] = Nothing
      /\ \A r \in Reviewers : claim[r] = Nothing
  BY DEF Init, Gone
<1>2. DOMAIN pool = {}
  BY <1>1
<1>. QED
  BY <1>1, <1>2, InitType
     DEF GateInv, QueuedAsFiled, OneHolder, Stamped, GoneForGood, Accounted,
         DecidedOnce

\* Every step keeps the inductive invariant.
LEMMA NextInv == GateInv /\ [Next]_vars => GateInv'
<1>. SUFFICES ASSUME GateInv, [Next]_vars PROVE GateInv'
  OBVIOUS
<1>1. TypeOK'
  BY NextType DEF GateInv
<1>2. CASE UNCHANGED vars
  BY <1>1, <1>2
     DEF vars, GateInv, QueuedAsFiled, OneHolder, Stamped, GoneForGood,
         Accounted, DecidedOnce, Waiting, InFlight, Pooled, Gone
<1>3. ASSUME NEW f \in Facts, NEW c \in OfferedConfidence,
             \/ ProposeForReview(f, c)
             \/ ProposeAutoApproved(f, c)
             \/ Ingest(f, c)
      PROVE  GateInv'
  <2>. DEFINE m == Candidate(f, c)
  <2>1. m \in Memory /\ m.status = "proposed" /\ m.recorded = clock + 1
    BY CandidateType, GateAssumption DEF GateInv, TypeOK
  <2>2. CASE ProposeForReview(f, c) \/ Ingest(f, c)
    BY <2>1, <2>2, SubmitInv DEF ProposeForReview, Ingest
  <2>3. CASE ProposeAutoApproved(f, c)
    <3>. DEFINE a == [m EXCEPT !.status = "active"]
    <3>1. a \in Memory /\ a.recorded = clock + 1
      BY <2>1, ActivatedType
    <3>2. PutForward /\ Insert(a) /\ UNCHANGED <<queue, stage, claim, fates>>
      BY <2>3 DEF ProposeAutoApproved
    <3>. QED
      BY <1>1, <3>1, <3>2, AutoInv
  <2>. QED
    BY <1>3, <2>2, <2>3
<1>4. ASSUME NEW r \in Reviewers, NEW f \in Facts,
             Claim(r, f) \/ ClaimUnanswered(r, f) \/ Reject(r, f)
      PROVE  GateInv'
  <2>1. CASE Claim(r, f)
    BY <1>1, <2>1, ClaimInv
  <2>2. CASE ClaimUnanswered(r, f) \/ Reject(r, f)
    <3>1. /\ Remove(f) /\ Gone' = Gone \cup {queue[f]}
          /\ UNCHANGED <<pool, stage, claim, clock, doubted, filed>>
      BY <2>2 DEF ClaimUnanswered, Reject, Gone
    <3>. QED
      BY <1>1, <3>1, DiscardInv
  <2>. QED
    BY <1>4, <2>1, <2>2
<1>5. ASSUME NEW r \in Reviewers, Finish(r) \/ Die(r)
      PROVE  GateInv'
  <2>1. CASE RestoreFails(r) \/ Die(r)
    <3>1. /\ stage[r] # "idle" /\ claim' = [claim EXCEPT ![r] = Nothing]
          /\ UNCHANGED <<queue, pool, clock, filed, doubted>>
          /\ Gone' = Gone \cup {claim[r]}
      BY <2>1 DEF RestoreFails, GiveBack, Die, Gone
    <3>. QED
      BY <1>1, <3>1, LoseInv
  <2>. QED
    BY <1>1, <1>5, <2>1, EndorseInv, FailInv, UnacknowledgedInv, RestoreInv
       DEF Finish
<1>. QED
  BY <1>1, <1>2, <1>3, <1>4, <1>5, StopInv DEF Next, Bot, Pick

\* The inductive invariant holds in every reachable state.
THEOREM InvHolds == Spec => []GateInv
BY InitInv, NextInv, PTL DEF Spec

\* Two calls never hold the same candidate, and a held one is not in the queue.
THEOREM OneHolderHolds == Spec => []OneHolder
<1>1. GateInv => OneHolder
  BY DEF GateInv
<1>. QED
  BY <1>1, InvHolds, PTL

\* A candidate enters the pool at most once, and one that does is in no other
\* place, for any number of reviewers and however their calls interleave.
THEOREM DecidedOnceHolds == Spec => []DecidedOnce
<1>1. GateInv => DecidedOnce
  BY DEF GateInv
<1>. QED
  BY <1>1, InvHolds, PTL

\* Every submitted candidate is somewhere, or met an end the code admits to.
THEOREM AccountedHolds == Spec => []Accounted
<1>1. GateInv => Accounted
  BY DEF GateInv
<1>. QED
  BY <1>1, InvHolds, PTL

\* What waits, and what a call holds, is a candidate exactly as submitted.
THEOREM QueuedAsFiledHolds == Spec => []QueuedAsFiled
<1>1. GateInv => QueuedAsFiled
  BY DEF GateInv
<1>. QED
  BY <1>1, InvHolds, PTL
=============================================================================
