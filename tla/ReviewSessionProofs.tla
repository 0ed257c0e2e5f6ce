------------------------- MODULE ReviewSessionProofs -------------------------
(***************************************************************************)
(* Proofs about review sessions, for any facts, reviewers, edits and        *)
(* bounds.  A session only takes steps of the gate, so everything proved of *)
(* the gate holds of it; on that rests what a reviewer can rely on.         *)
(***************************************************************************)
EXTENDS ReviewSession, ApprovalGateProofs

-----------------------------------------------------------------------------
(* The session implements the gate.                                         *)

\* A decision on its way to the gate names a fact and a reviewer.
LEMMA RequestFacts ==
    ASSUME SessionTypeOK, NEW r \in Reviewers, request[r] # Nothing
    PROVE  /\ request[r] \in Request
           /\ request[r].card \in Memory
           /\ request[r].card.fact \in Facts
<1>1. request[r] \in Request
  BY DEF SessionTypeOK
<1>. QED
  BY <1>1 DEF Request, Memory

\* Every step of a session is a step of the gate, or leaves the gate alone.
LEMMA StepOfGate ==
    ASSUME SessionTypeOK, [SessionNext]_sessionVars
    PROVE  [Next]_vars
<1>1. CASE UNCHANGED sessionVars
  BY <1>1 DEF sessionVars
<1>2. CASE Propose \/ Shutdown
  BY <1>2, SessionAssumption DEF Propose, Shutdown, Next, Bot
<1>3. ASSUME NEW r \in Reviewers, Sit(r) PROVE UNCHANGED vars
  BY <1>3 DEF Sit, Load, LoadFails, Decide, Send
<1>4. ASSUME NEW r \in Reviewers, Heard(r) PROVE request[r].card.fact \in Facts
  BY <1>4, RequestFacts DEF Heard, Arrived
<1>5. ASSUME NEW r \in Reviewers, Proceed(r) PROVE Next
  BY <1>4, <1>5 DEF Proceed, Begin, Fail, FailStored, Next, Pick, Finish
<1>6. ASSUME NEW r \in Reviewers,
             \/ TurnAway(r) \/ TurnOut(r) \/ RefuseBody(r)
             \/ RefuseScope(r) \/ Unreachable(r) \/ Taken(r)
      PROVE  UNCHANGED vars
  BY <1>6 DEF TurnAway, TurnOut, RefuseBody, RefuseScope, Unreachable, Taken
<1>7. ASSUME NEW r \in Reviewers,
             ClaimLost(r) \/ TurnDown(r) \/ Approve(r) \/ RollBack(r) \/ Crash(r)
      PROVE  Next
  BY <1>4, <1>7 DEF ClaimLost, TurnDown, Approve, RollBack, Crash, Next, Pick, Finish
<1>. QED
  BY <1>1, <1>2, <1>3, <1>5, <1>6, <1>7 DEF SessionNext, Serve, Conclude

-----------------------------------------------------------------------------
(* What a step does to pages, requests, calls and the pool.                 *)

\* A card on a page was there before or is now in the queue.
PagesStep ==
    /\ shown' \in [Reviewers -> [Facts -> Slot]]
    /\ \A q \in Reviewers, f \in Facts : shown'[q][f] \in {shown[q][f], queue[f], Nothing}

\* A new decision is about a card on its reviewer's page.
RequestsStep ==
    /\ request' \in [Reviewers -> Request \cup {Nothing}]
    /\ \A q \in Reviewers :
        \/ request'[q] \in {request[q], Nothing}
        \/ \E f \in Facts : shown[q][f] # Nothing /\ request'[q].card = shown[q][f]
                            /\ request'[q].by = q

\* A call under way is that of a decision that stays; a new call is of an
\* approval that got as far as the gate, and holds what its card names.
CallsStep ==
    \A q \in Reviewers : stage'[q] # "idle" =>
        /\ request[q] # Nothing /\ request'[q] = request[q]
        /\ \/ stage[q] # "idle" /\ claim'[q] = claim[q]
           \/ /\ claim'[q].fact = request[q].card.fact
              /\ request[q].action = "approve" /\ request[q].fact # Unscoped
              /\ request[q].confidence # Unfit

\* The pool gets what a call endorses, together with the request behind it.
PoolStep ==
    \/ UNCHANGED <<pool, behind>>
    \/ \E r \in Reviewers :
        /\ Endorsable(r) /\ request[r].fact # Untyped
        /\ pool' = Append(pool, Endorsed(r))
        /\ behind' = Append(behind, request[r])

AnswerStep == answer' \in [to : Reviewers, code : Codes] \cup {Nothing}

LEMMA NoCardsType == NoCards \in [Facts -> Slot] /\ \A f \in Facts : NoCards[f] = Nothing
BY DEF NoCards, Slot

\* An answer ends its request and at most takes its card off the page.
LEMMA AnswerMoves ==
    ASSUME SessionInv, NEW r \in Reviewers, request[r] # Nothing,
           NEW code \in Codes, Answer(r, code)
    PROVE  /\ PagesStep /\ RequestsStep /\ AnswerStep
           /\ \A q \in Reviewers : q # r => request'[q] = request[q]
<1>. USE DEF SessionInv
<1>1. request[r].card.fact \in Facts
  BY RequestFacts
<1>2. PICK heard \in Codes :
            /\ answer' = [to |-> r, code |-> heard]
            /\ shown' = IF heard = "200"
                        THEN [shown EXCEPT ![r][request[r].card.fact] = Nothing]
                        ELSE shown
  BY DEF Answer, Codes
<1>3. shown \in [Reviewers -> [Facts -> Slot]] /\ request \in [Reviewers -> Request \cup {Nothing}]
  BY DEF SessionTypeOK
<1>4. Nothing \in Slot
  BY DEF Slot
<1>5. PagesStep
  <2>1. CASE heard = "200"
    <3>1. shown' = [shown EXCEPT ![r][request[r].card.fact] = Nothing]
      BY <1>2, <2>1
    <3>. QED
      BY <1>1, <1>3, <1>4, <3>1 DEF PagesStep
  <2>2. CASE heard # "200"
    BY <1>2, <1>3, <2>2 DEF PagesStep
  <2>. QED
    BY <2>1, <2>2
<1>6. request' = [request EXCEPT ![r] = Nothing]
  BY DEF Answer
<1>. QED
  BY <1>2, <1>3, <1>5, <1>6 DEF RequestsStep, AnswerStep

LEMMA FailureCodes ==
    /\ StatusByError["CandidateStoreError"] = "503"
    /\ StatusByError["LifecycleError"] = "409"
    /\ StatusByError["ProviderError"] = "502"
    /\ StatusByError["TaxonomyError"] = "400"
    /\ StatusByError["ScopeError"] = "400"
    /\ StatusByError["Unexpected"] = "500"
BY DEF StatusByError

\* What a step of a session does.
Moves == PagesStep /\ RequestsStep /\ CallsStep /\ PoolStep /\ AnswerStep

\* A bot's step.
LEMMA ProposeMoves ==
    ASSUME SessionInv, Propose, answer' = Nothing
    PROVE  Moves
<1>1. UNCHANGED <<shown, request, behind, pool, stage, claim>>
  BY DEF Propose, session, ProposeForReview, Ingest, Submit
<1>2. CallsStep
  BY <1>1 DEF CallsStep, SessionInv, SessionTypeOK
<1>. QED
  BY <1>1, <1>2 DEF Moves, PagesStep, RequestsStep, PoolStep, AnswerStep,
                    SessionInv, SessionTypeOK

\* The service stops.
LEMMA ShutdownMoves ==
    ASSUME SessionInv, Shutdown, answer' = Nothing
    PROVE  Moves
<1>1. /\ UNCHANGED <<shown, behind, pool>>
      /\ request' = [r \in Reviewers |-> Nothing] /\ stage' = [r \in Reviewers |-> "idle"]
  BY DEF Shutdown, Stop
<1>. QED
  BY <1>1 DEF Moves, PagesStep, RequestsStep, CallsStep, PoolStep, AnswerStep,
              SessionInv, SessionTypeOK

\* A step at the page.
LEMMA SitMoves ==
    ASSUME SessionInv, NEW r \in Reviewers, Sit(r), answer' = Nothing
    PROVE  Moves
<1>1. /\ UNCHANGED <<pool, behind, stage, claim>> /\ request[r] = Nothing
      /\ \A q \in Reviewers : q # r => request'[q] = request[q]
  BY DEF Sit, Load, LoadFails, Decide, Send, vars, SessionInv, SessionTypeOK
<1>2. CallsStep
  BY <1>1 DEF CallsStep, SessionInv, SessionTypeOK
<1>3. PoolStep /\ AnswerStep
  BY <1>1 DEF PoolStep, AnswerStep
<1>4. CASE Load(r) \/ LoadFails(r)
  <2>1. queue \in [Facts -> Slot]
    BY DEF SessionInv, SessionTypeOK, TypeOK
  <2>2. PagesStep
    BY <1>4, <2>1, NoCardsType DEF Load, LoadFails, PagesStep, SessionInv, SessionTypeOK
  <2>3. RequestsStep
    BY <1>4 DEF Load, LoadFails, RequestsStep, SessionInv, SessionTypeOK
  <2>. QED
    BY <1>2, <1>3, <2>2, <2>3 DEF Moves
<1>5. CASE Decide(r)
  <2>1. PagesStep
    BY <1>5 DEF Decide, Send, PagesStep, SessionInv, SessionTypeOK
  <2>2. PICK f \in Facts : /\ shown[r][f] # Nothing
            /\ \/ \E edit \in Edits(r, shown[r][f]) :
                    Send(r, [action |-> "approve", card |-> shown[r][f], by |-> r,
                             fact |-> edit.fact, confidence |-> edit.confidence])
               \/ Send(r, [action |-> "reject", card |-> shown[r][f], by |-> r,
                           fact |-> Same, confidence |-> Same])
    BY <1>5 DEF Decide
  <2>3. shown[r][f] \in Memory
    BY <2>2 DEF SessionInv, SessionTypeOK, Slot
  <2>4. ASSUME NEW edit \in Edits(r, shown[r][f])
        PROVE  /\ edit.fact \in Facts \cup {Same, Unscoped, Untyped}
               /\ edit.confidence \in Confidence \cup {Same, Unfit}
    BY GateAssumption DEF Edits, NoEdit
  <2>5. PICK asked \in Request :
            request' = [request EXCEPT ![r] = asked] /\ asked.card = shown[r][f] /\ asked.by = r
    <3>1. CASE \E edit \in Edits(r, shown[r][f]) :
                    Send(r, [action |-> "approve", card |-> shown[r][f], by |-> r,
                             fact |-> edit.fact, confidence |-> edit.confidence])
      <4>1. PICK edit \in Edits(r, shown[r][f]) :
                    Send(r, [action |-> "approve", card |-> shown[r][f], by |-> r,
                             fact |-> edit.fact, confidence |-> edit.confidence])
        BY <3>1
      <4>. DEFINE asked == [action |-> "approve", card |-> shown[r][f], by |-> r,
                            fact |-> edit.fact, confidence |-> edit.confidence]
      <4>2. asked \in Request /\ asked.card = shown[r][f] /\ asked.by = r
        BY <2>3, <2>4 DEF Request
      <4>3. request' = [request EXCEPT ![r] = asked]
        BY <4>1 DEF Send
      <4>. HIDE DEF asked
      <4>. QED
        BY <4>2, <4>3
    <3>2. CASE Send(r, [action |-> "reject", card |-> shown[r][f], by |-> r,
                        fact |-> Same, confidence |-> Same])
      <4>. DEFINE asked == [action |-> "reject", card |-> shown[r][f], by |-> r,
                            fact |-> Same, confidence |-> Same]
      <4>1. asked \in Request /\ asked.card = shown[r][f] /\ asked.by = r
        BY <2>3 DEF Request
      <4>2. request' = [request EXCEPT ![r] = asked]
        BY <3>2 DEF Send
      <4>. HIDE DEF asked
      <4>. QED
        BY <4>1, <4>2
    <3>. QED
      BY <2>2, <3>1, <3>2
  <2>6. RequestsStep
    BY <2>2, <2>5 DEF RequestsStep, SessionInv, SessionTypeOK
  <2>. QED
    BY <1>2, <1>3, <2>1, <2>6 DEF Moves
<1>. QED
  BY <1>4, <1>5 DEF Sit

\* What the service does before it has an answer.
LEMMA ProceedMoves ==
    ASSUME SessionInv, NEW r \in Reviewers, Proceed(r), answer' = Nothing
    PROVE  Moves
<1>1. UNCHANGED <<shown, request>>
  BY DEF Proceed, Begin, Fail, FailStored, session
<1>2. PagesStep /\ RequestsStep /\ AnswerStep
  BY <1>1 DEF PagesStep, RequestsStep, AnswerStep, SessionInv, SessionTypeOK
<1>3. PoolStep
  BY DEF Proceed, Begin, Claim, Fail, FailToCommit, FailStored, CommitUnacknowledged,
         Commits, PoolStep, session
<1>4. CallsStep
  <2>1. CASE Begin(r)
    <3>. DEFINE f == request[r].card.fact
    <3>1. request[r] # Nothing /\ f \in Facts
      BY <2>1, RequestFacts DEF Begin, Heard, Arrived, SessionInv
    <3>2. /\ queue[f] # Nothing /\ queue[f].fact = f
          /\ claim' = [claim EXCEPT ![r] = queue[f]]
          /\ stage' = [stage EXCEPT ![r] = "claimed"]
      BY <2>1, <3>1 DEF Begin, Claim, Remove, SessionInv, GateInv, QueuedAsFiled
    <3>3. claim'[r].fact = f
      BY <3>2 DEF SessionInv, SessionTypeOK, TypeOK
    <3>4. /\ request[r].action = "approve" /\ request[r].fact # Unscoped
          /\ request[r].confidence # Unfit
      BY <2>1 DEF Begin, Heard
    <3>5. \A q \in Reviewers : q # r => stage'[q] = stage[q] /\ claim'[q] = claim[q]
      BY <3>2 DEF SessionInv, SessionTypeOK, TypeOK
    <3>. QED
      BY <1>1, <3>1, <3>3, <3>4, <3>5 DEF CallsStep, SessionInv, SessionTypeOK
  <2>2. CASE Fail(r) \/ FailStored(r)
    <3>1. /\ stage[r] # "idle" /\ UNCHANGED claim
          /\ stage' = [stage EXCEPT ![r] = "restoring"]
      BY <2>2 DEF Fail, FailStored, FailToCommit, CommitUnacknowledged, Endorsable
    <3>2. \A q \in Reviewers : stage'[q] # "idle" => stage[q] # "idle"
      BY <3>1 DEF SessionInv, SessionTypeOK, TypeOK
    <3>. QED
      BY <1>1, <3>1, <3>2 DEF CallsStep, SessionInv, SessionTypeOK
  <2>. QED
    BY <2>1, <2>2 DEF Proceed
<1>. QED
  BY <1>2, <1>3, <1>4 DEF Moves

\* Calls when the one of r has ended, or never began.
LEMMA EndMoves ==
    ASSUME SessionInv, NEW r \in Reviewers, stage'[r] = "idle",
           \A q \in Reviewers : q # r => /\ stage'[q] = stage[q] /\ claim'[q] = claim[q]
                                         /\ request'[q] = request[q]
    PROVE  CallsStep
BY DEF CallsStep, SessionInv, SessionTypeOK

\* The steps that end a request in an answer, and a crash.
LEMMA ConcludeMoves ==
    ASSUME SessionInv, NEW r \in Reviewers, Conclude(r) \/ Crash(r)
    PROVE  Moves
<1>0. /\ stage \in [Reviewers -> {"idle", "claimed", "restoring"}]
      /\ claim \in [Reviewers -> Slot]
      /\ stage[r] # "idle" => request[r] # Nothing
  BY DEF SessionInv, SessionTypeOK, TypeOK
<1>1. ASSUME Arrived(r), UNCHANGED <<pool, behind, stage, claim>>,
             NEW code \in Codes, Answer(r, code)
      PROVE  Moves
  <2>1. /\ PagesStep /\ RequestsStep /\ AnswerStep
        /\ \A q \in Reviewers : q # r => request'[q] = request[q]
    BY <1>1, AnswerMoves DEF Arrived
  <2>2. CallsStep
    BY <1>1, <2>1, EndMoves DEF Arrived
  <2>. QED
    BY <1>1, <2>1, <2>2 DEF Moves, PoolStep
<1>2. ASSUME stage[r] # "idle", NEW code \in Codes, Answer(r, code),
             claim' = [claim EXCEPT ![r] = Nothing],
             stage' = [stage EXCEPT ![r] = "idle"],
             PoolStep
      PROVE  Moves
  <2>1. /\ PagesStep /\ RequestsStep /\ AnswerStep
        /\ \A q \in Reviewers : q # r => request'[q] = request[q]
    BY <1>0, <1>2, AnswerMoves
  <2>2. CallsStep
    BY <1>0, <1>2, <2>1, EndMoves
  <2>. QED
    BY <1>2, <2>1, <2>2 DEF Moves
<1>3. {"200", "400", "409", "422", "429", "500", "502", "503", "lost"} \subseteq Codes
  BY DEF Codes
<1>4. CASE \/ TurnAway(r) \/ RefuseBody(r) \/ RefuseScope(r) \/ Unreachable(r)
           \/ ClaimLost(r) \/ Taken(r) \/ TurnDown(r)
  <2>1. Arrived(r) /\ UNCHANGED <<pool, behind, stage, claim>>
    BY <1>4 DEF TurnAway, RefuseBody, RefuseScope, Unreachable, ClaimLost, Taken, TurnDown,
                Heard, vars, ClaimUnanswered, Reject
  <2>2. \E code \in {"200", "400", "409", "422", "429", "500", "503"} : Answer(r, code)
    BY <1>4, FailureCodes
       DEF TurnAway, RefuseBody, RefuseScope, Unreachable, ClaimLost, Taken, TurnDown,
           AnswerFailure
  <2>. QED
    BY <1>1, <1>3, <2>1, <2>2
<1>5. CASE TurnOut(r)
  <2>1. /\ Arrived(r) /\ UNCHANGED <<pool, behind, stage, claim>>
        /\ answer' = [to |-> r, code |-> "401"]
        /\ request' = [request EXCEPT ![r] = Nothing]
        /\ shown' = [shown EXCEPT ![r] = NoCards]
    BY <1>5 DEF TurnOut, vars
  <2>2. PagesStep
    BY <2>1, NoCardsType DEF PagesStep, SessionInv, SessionTypeOK
  <2>3. RequestsStep /\ \A q \in Reviewers : q # r => request'[q] = request[q]
    BY <2>1 DEF RequestsStep, SessionInv, SessionTypeOK
  <2>4. CallsStep
    BY <2>1, <2>3, EndMoves DEF Arrived
  <2>. QED
    BY <2>1, <2>2, <2>3, <2>4 DEF Moves, PoolStep, AnswerStep, Codes
<1>6. CASE Approve(r)
  <2>1. PoolStep
    BY <1>6 DEF Approve, Endorse, Commits, PoolStep
  <2>. QED
    BY <1>2, <1>3, <1>6, <2>1 DEF Approve, Endorse, Endorsable
<1>7. CASE RollBack(r)
  <2>1. \E code \in {"400", "502"} : Answer(r, code)
    BY <1>7, FailureCodes DEF RollBack, AnswerFailure
  <2>2. PoolStep
    BY <1>7 DEF RollBack, Restore, RestoreFails, PoolStep
  <2>. QED
    BY <1>2, <1>3, <1>7, <2>1, <2>2 DEF RollBack, Restore, RestoreFails, GiveBack
<1>8. CASE Crash(r)
  <2>1. PoolStep
    BY <1>8 DEF Crash, Die, PoolStep
  <2>. QED
    BY <1>2, <1>3, <1>8, <2>1 DEF Crash, Die
<1>. QED
  BY <1>4, <1>5, <1>6, <1>7, <1>8 DEF Conclude

LEMMA StepMoves ==
    ASSUME SessionInv, [SessionNext]_sessionVars
    PROVE  Moves
<1>1. CASE UNCHANGED sessionVars
  BY <1>1 DEF sessionVars, vars, session, Moves, PagesStep, RequestsStep, CallsStep,
              PoolStep, AnswerStep, SessionInv, SessionTypeOK
<1>2. CASE SessionNext
  BY <1>2, ProposeMoves, ShutdownMoves, SitMoves, ProceedMoves, ConcludeMoves DEF SessionNext, Serve
<1>. QED
  BY <1>1, <1>2

-----------------------------------------------------------------------------
(* The inductive invariant.                                                 *)

\* Nothing that was submitted is forgotten as such.
LEMMA FiledGrows == ASSUME [Next]_vars PROVE filed \subseteq filed'
BY DEF Next, vars, Bot, Pick, Finish, Die, ProposeForReview, ProposeAutoApproved, Ingest,
       Submit, Claim, ClaimUnanswered, Reject, Endorse, FailToCommit, CommitUnacknowledged,
       Restore, RestoreFails, Stop, fates

\* What a call endorses: the card's fact and confidence with the edits applied,
\* but for the version of the fact that the call holds.
LEMMA EndorsedFacts ==
    ASSUME SessionInv, NEW r \in Reviewers, Endorsable(r), request[r].fact # Untyped
    PROVE  /\ request[r] \in Request /\ request[r].by = r
           /\ claim[r] \in filed /\ claim[r].fact = request[r].card.fact
           /\ Endorsed(r) \in Memory
           /\ Endorsed(r).author = r
           /\ Endorsed(r).recorded = claim[r].recorded
           /\ Endorsed(r).fact = Sent(request[r].fact, claim[r].fact)
           /\ Endorsed(r).confidence = Sent(request[r].confidence, claim[r].confidence)
<1>1. stage[r] # "idle"
  BY DEF Endorsable
<1>2. /\ request[r] # Nothing /\ request[r] \in Request
      /\ claim[r].fact = request[r].card.fact /\ request[r].fact # Unscoped
      /\ request[r].confidence # Unfit /\ request[r].by = r
  BY <1>1 DEF SessionInv, SessionTypeOK, CallsAreApprovals, CardsFiled
<1>3. claim[r] # Nothing /\ claim[r] \in Memory /\ claim[r] \in filed
  BY <1>1 DEF SessionInv, GateInv, TypeOK, Slot, QueuedAsFiled
<1>4. claim[r].status = "proposed"
  BY <1>3 DEF SessionInv, GateInv, Stamped
<1>5. r \in People /\ r # Nobody
  BY GateAssumption, LifecycleAssumption
<1>6. Sent(request[r].fact, claim[r].fact) \in Facts
  BY <1>2, <1>3 DEF Sent, Request, Memory
<1>7. Sent(request[r].confidence, claim[r].confidence) \in Confidence
  BY <1>2, <1>3 DEF Sent, Request, Memory
<1>. DEFINE m == Amended(claim[r], request[r])
<1>8. /\ m \in Memory /\ m.status = "proposed" /\ m.recorded = claim[r].recorded
      /\ m.fact = Sent(request[r].fact, claim[r].fact)
      /\ m.confidence = Sent(request[r].confidence, claim[r].confidence)
  BY <1>3, <1>4, <1>6, <1>7 DEF Amended, Memory
<1>9. Endorsed(r) = Approved(m, r)
  BY DEF Endorsed
<1>. HIDE DEF m
<1>10. /\ Approved(m, r) \in Memory /\ Approved(m, r).author = r
       /\ Approved(m, r).recorded = m.recorded /\ Approved(m, r).fact = m.fact
       /\ Approved(m, r).confidence = m.confidence
  BY <1>5, <1>8 DEF Approved, Memory, Status
<1>. QED
  BY <1>2, <1>3, <1>8, <1>9, <1>10

\* What EndorsedAsShown says of one memory m of the pool and the request b
\* behind it.
AsShown(m, b) ==
    /\ m.fact = Sent(b.fact, b.card.fact)
    /\ m.author = b.by
    /\ m.confidence # Sent(b.confidence, b.card.confidence) =>
        /\ b.confidence = Same
        /\ \E k \in filed \ {b.card} :
            k.fact = b.card.fact /\ k.recorded = m.recorded /\ k.confidence = m.confidence

LEMMA AsShownKept ==
    ASSUME NEW m, NEW b, AsShown(m, b), filed \subseteq filed'
    PROVE  AsShown(m, b)'
BY DEF AsShown

LEMMA EndorsedIsShown ==
    ASSUME SessionInv, NEW r \in Reviewers, Endorsable(r), request[r].fact # Untyped
    PROVE  AsShown(Endorsed(r), request[r])
<1>. DEFINE b == request[r]
            m == Endorsed(r)
<1>1. /\ b.by = r /\ claim[r] \in filed /\ claim[r].fact = b.card.fact
      /\ m.author = r /\ m.recorded = claim[r].recorded
      /\ m.fact = Sent(b.fact, claim[r].fact)
      /\ m.confidence = Sent(b.confidence, claim[r].confidence)
  BY EndorsedFacts
<1>. HIDE DEF b, m
<1>2. ASSUME m.confidence # Sent(b.confidence, b.card.confidence)
      PROVE  /\ b.confidence = Same /\ claim[r] # b.card
             /\ m.confidence = claim[r].confidence
  BY <1>1, <1>2 DEF Sent
<1>3. AsShown(m, b)
  BY <1>1, <1>2 DEF AsShown
<1>. QED
  BY <1>3 DEF m, b

LEMMA PoolKept ==
    ASSUME SessionInv, PoolStep, filed \subseteq filed'
    PROVE  /\ behind' \in Seq(Request) /\ Len(behind') = Len(pool')
           /\ EndorsedAsShown'
<1>1. /\ pool \in Seq(Memory) /\ behind \in Seq(Request) /\ Len(behind) = Len(pool)
      /\ \A i \in DOMAIN pool : AsShown(pool[i], behind[i])
  BY DEF SessionInv, SessionTypeOK, TypeOK, EndorsedAsShown, AsShown
<1>2. Len(pool) \in Nat /\ DOMAIN pool = 1 .. Len(pool)
  BY <1>1
<1>3. (\A i \in DOMAIN pool : AsShown(pool[i], behind[i]))' => EndorsedAsShown'
  BY DEF EndorsedAsShown, AsShown
<1>4. CASE UNCHANGED <<pool, behind>>
  <2>1. ASSUME NEW i \in DOMAIN pool PROVE AsShown(pool[i], behind[i])'
    BY <1>1, <1>4, <2>1 DEF AsShown
  <2>. QED
    BY <1>1, <1>3, <1>4, <2>1
<1>5. ASSUME NEW r \in Reviewers, Endorsable(r), request[r].fact # Untyped,
             pool' = Append(pool, Endorsed(r)), behind' = Append(behind, request[r])
      PROVE  /\ behind' \in Seq(Request) /\ Len(behind') = Len(pool')
             /\ EndorsedAsShown'
  <2>1. request[r] \in Request /\ Endorsed(r) \in Memory
    BY <1>5, EndorsedFacts
  <2>2. /\ behind' \in Seq(Request) /\ Len(behind') = Len(pool) + 1
        /\ Len(pool') = Len(pool) + 1 /\ DOMAIN pool' = 1 .. Len(pool) + 1
        /\ \A i \in 1 .. Len(pool) : pool'[i] = pool[i] /\ behind'[i] = behind[i]
        /\ pool'[Len(pool) + 1] = Endorsed(r) /\ behind'[Len(pool) + 1] = request[r]
    BY <1>1, <1>2, <1>5, <2>1
  <2>3. AsShown(Endorsed(r), request[r])
    BY <1>5, EndorsedIsShown
  <2>4. ASSUME NEW i \in DOMAIN pool' PROVE AsShown(pool[i], behind[i])'
    <3>1. CASE i \in 1 .. Len(pool)
      BY <1>1, <1>2, <2>2, <3>1 DEF AsShown
    <3>2. CASE i = Len(pool) + 1
      BY <2>2, <2>3, <3>2 DEF AsShown
    <3>. QED
      BY <1>2, <2>2, <3>1, <3>2
  <2>. QED
    BY <1>3, <2>2, <2>4
<1>. QED
  BY <1>4, <1>5 DEF PoolStep

\* A session begins with empty pages over a gate that has not begun.
LEMMA SessionInitInv == SessionInit => SessionInv
<1>. SUFFICES ASSUME SessionInit PROVE SessionInv
  OBVIOUS
<1>1. GateInv /\ TypeOK
  BY InitInv DEF SessionInit, GateInv
<1>2. shown \in [Reviewers -> [Facts -> Slot]] /\ \A r \in Reviewers, f \in Facts : shown[r][f] = Nothing
  BY NoCardsType DEF SessionInit
<1>3. \A r \in Reviewers : stage[r] = "idle" /\ request[r] = Nothing
  BY DEF SessionInit, Init
<1>4. behind \in Seq(Request) /\ Len(behind) = Len(pool) /\ DOMAIN pool = {}
  BY DEF SessionInit, Init
<1>5. SessionTypeOK
  BY <1>1, <1>2, <1>3, <1>4 DEF SessionTypeOK, SessionInit
<1>. QED
  BY <1>1, <1>2, <1>3, <1>4, <1>5 DEF SessionInv, CardsFiled, CallsAreApprovals, EndorsedAsShown

\* Every step keeps the inductive invariant.
LEMMA SessionNextInv == SessionInv /\ [SessionNext]_sessionVars => SessionInv'
<1>. SUFFICES ASSUME SessionInv, [SessionNext]_sessionVars PROVE SessionInv'
  OBVIOUS
<1>1. [Next]_vars /\ Moves
  BY StepOfGate, StepMoves DEF SessionInv
<1>2. GateInv' /\ TypeOK'
  BY <1>1, NextInv DEF SessionInv, GateInv
<1>3. filed \subseteq filed'
  BY <1>1, FiledGrows
<1>4. behind' \in Seq(Request) /\ Len(behind') = Len(pool') /\ EndorsedAsShown'
  BY <1>1, <1>3, PoolKept DEF Moves
<1>5. SessionTypeOK'
  <2>1. \A r \in Reviewers : stage'[r] # "idle" =>
            request'[r] # Nothing /\ claim'[r].fact = request'[r].card.fact
    BY <1>1 DEF Moves, CallsStep, SessionInv, SessionTypeOK
  <2>. QED
    BY <1>1, <1>2, <1>4, <2>1 DEF SessionTypeOK, Moves, PagesStep, RequestsStep, AnswerStep
<1>6. CardsFiled'
  <2>1. ASSUME NEW r \in Reviewers, NEW f \in Facts, shown'[r][f] # Nothing
        PROVE  shown'[r][f] \in filed'
    <3>1. queue[f] # Nothing => queue[f] \in filed
      BY DEF SessionInv, GateInv, QueuedAsFiled
    <3>. QED
      BY <1>1, <1>3, <2>1, <3>1 DEF Moves, PagesStep, SessionInv, CardsFiled
  <2>2. ASSUME NEW r \in Reviewers, request'[r] # Nothing
        PROVE  request'[r].card \in filed' /\ request'[r].by = r
    BY <1>1, <1>3, <2>2 DEF Moves, RequestsStep, SessionInv, CardsFiled
  <2>. QED
    BY <2>1, <2>2 DEF CardsFiled
<1>7. CallsAreApprovals'
  BY <1>1 DEF Moves, CallsStep, CallsAreApprovals, SessionInv
<1>. QED
  BY <1>2, <1>4, <1>5, <1>6, <1>7 DEF SessionInv

\* The inductive invariant holds in every reachable state.
THEOREM SessionInvHolds == SessionSpec => []SessionInv
BY SessionInitInv, SessionNextInv, PTL DEF SessionSpec

-----------------------------------------------------------------------------
(* What follows.                                                            *)

\* A session is a behaviour of the gate: whatever the page, the requests and
\* the answers do, what is proved of the gate holds.
THEOREM SessionImplementsGate == SessionSpec => Spec
<1>1. SessionInit => Init
  BY DEF SessionInit
<1>2. SessionInv /\ [SessionNext]_sessionVars => [Next]_vars
  BY StepOfGate DEF SessionInv
<1>. QED
  BY <1>1, <1>2, SessionInvHolds, PTL DEF SessionSpec, Spec

\* Types, and no call of the gate without the request that made it.
THEOREM SessionTypes == SessionSpec => []SessionTypeOK
<1>1. SessionInv => SessionTypeOK
  BY DEF SessionInv
<1>. QED
  BY <1>1, SessionInvHolds, PTL

\* The memory a reviewer has endorsed says what the card said, with the
\* reviewer's edits, or the confidence of another version of the same fact.
THEOREM EndorsedAsShownHolds == SessionSpec => []EndorsedAsShown
<1>1. SessionInv => EndorsedAsShown
  BY DEF SessionInv
<1>. QED
  BY <1>1, SessionInvHolds, PTL

-----------------------------------------------------------------------------
(* What the reviewer is told.                                               *)

\* An answer that is heard, or lost, is the one the service gave.
LEMMA AnswerHeard ==
    ASSUME NEW r \in Reviewers, NEW code, Answer(r, code), NEW q \in Reviewers, NEW heard,
           answer' = [to |-> q, code |-> heard], heard # "lost"
    PROVE  q = r /\ heard = code
BY DEF Answer

\* The candidate a decision deals with, if there is one, waits or is held; so
\* it is in the pool only if the provider stored it and raised.
LEMMA SubjectFacts ==
    ASSUME SessionInv, NEW r \in Reviewers, request[r] # Nothing
    PROVE  /\ stage[r] = "idle" => Subject(r) = queue[request[r].card.fact]
           /\ stage[r] # "idle" => /\ Subject(r) = claim[r] /\ Subject(r) # Nothing
                                   /\ Subject(r).fact = request[r].card.fact
                                   /\ InFlight(Subject(r)) /\ ~Waiting(Subject(r))
           /\ Subject(r) # Nothing => /\ Subject(r) \in filed
                                      /\ Pooled(Subject(r)) => Subject(r) \in doubted
<1>. DEFINE f == request[r].card.fact
<1>1. f \in Facts
  BY RequestFacts DEF SessionInv
<1>2. CASE stage[r] = "idle"
  <2>1. Subject(r) = queue[f]
    BY <1>2 DEF Subject
  <2>2. queue[f] # Nothing => queue[f] \in filed /\ Waiting(queue[f])
    BY <1>1 DEF SessionInv, GateInv, QueuedAsFiled, Waiting
  <2>. QED
    BY <1>2, <2>1, <2>2 DEF SessionInv, GateInv, DecidedOnce
<1>3. CASE stage[r] # "idle"
  <2>1. Subject(r) = claim[r]
    BY <1>3 DEF Subject
  <2>2. claim[r].fact = f
    BY <1>3 DEF SessionInv, SessionTypeOK
  <2>3. claim[r] \in filed /\ claim[r] # Nothing /\ InFlight(claim[r]) /\ ~Waiting(claim[r])
    BY <1>3, HolderFacts DEF SessionInv
  <2>. QED
    BY <1>3, <2>1, <2>2, <2>3 DEF SessionInv, GateInv, DecidedOnce
<1>. QED
  BY <1>2, <1>3

\* The step that gives an answer of the code, by the code.
LEMMA AnswerGiven ==
    ASSUME NEW r \in Reviewers, Conclude(r) \/ Crash(r)
    PROVE  /\ Hears(r, "200") => Approve(r) \/ TurnDown(r)
           /\ Hears(r, "409") => Taken(r)
           /\ \A code \in {"401", "422", "429"} : Hears(r, code) =>
                TurnOut(r) \/ RefuseBody(r) \/ TurnAway(r)
           /\ \A code \in {"400", "500", "502", "503"} : Hears(r, code) =>
                RefuseScope(r) \/ Unreachable(r) \/ ClaimLost(r) \/ RollBack(r)
<1>1. ASSUME NEW code, NEW given, Hears(r, code), Answer(r, given), code # "lost"
      PROVE  given = code
  BY <1>1, AnswerHeard DEF Hears
<1>2. ASSUME NEW code, Hears(r, code), TurnOut(r)
      PROVE  code = "401"
  BY <1>2 DEF Hears, TurnOut
<1>3. Approve(r) \/ TurnDown(r) => Answer(r, "200")
  BY DEF Approve, TurnDown
<1>4. Taken(r) => Answer(r, "409")
  BY FailureCodes DEF Taken, AnswerFailure
<1>5. /\ RefuseBody(r) => Answer(r, "422")
      /\ TurnAway(r) => Answer(r, "429")
      /\ Crash(r) => Answer(r, "lost")
  BY DEF RefuseBody, TurnAway, Crash
<1>6. RefuseScope(r) \/ Unreachable(r) \/ ClaimLost(r) \/ RollBack(r) =>
        \E code \in {"400", "500", "502", "503"} : Answer(r, code)
  BY FailureCodes DEF RefuseScope, Unreachable, ClaimLost, RollBack, AnswerFailure
<1>. QED
  BY <1>1, <1>2, <1>3, <1>4, <1>5, <1>6 DEF Conclude

\* 200 is only said of a decision that was carried out.
LEMMA ToldDone ==
    ASSUME SessionInv, NEW r \in Reviewers, Conclude(r) \/ Crash(r), Hears(r, "200")
    PROVE  \/ /\ request[r].action = "approve" /\ ~Kept(r)
              /\ pool' # pool /\ pool'[Len(pool')].recorded = Subject(r).recorded
              /\ behind'[Len(behind')] = request[r]
           \/ /\ request[r].action = "reject" /\ queue'[request[r].card.fact] = Nothing
              /\ Subject(r) \in refused' \ refused
<1>0. request[r] # Nothing
  BY DEF Hears
<1>1. Approve(r) \/ TurnDown(r)
  BY AnswerGiven
<1>2. CASE Approve(r)
  <2>1. /\ stage[r] # "idle" /\ UNCHANGED queue /\ Endorsable(r)
        /\ request[r].fact # Untyped
        /\ pool' = Append(pool, Endorsed(r)) /\ behind' = Append(behind, request[r])
    BY <1>2 DEF Approve, Endorse, Endorsable, Commits
  <2>2. /\ Subject(r) = claim[r] /\ Subject(r).fact = request[r].card.fact
        /\ ~Waiting(Subject(r))
    BY <1>0, <2>1, SubjectFacts
  <2>3. ~Kept(r)
    BY <2>1, <2>2 DEF Kept, Waiting
  <2>4. /\ request[r] \in Request /\ Endorsed(r) \in Memory
        /\ Endorsed(r).recorded = claim[r].recorded
    BY <2>1, EndorsedFacts
  <2>5. pool \in Seq(Memory) /\ behind \in Seq(Request)
    BY DEF SessionInv, SessionTypeOK, TypeOK
  <2>6. pool' # pool /\ pool'[Len(pool')] = Endorsed(r) /\ behind'[Len(behind')] = request[r]
    BY <2>1, <2>4, <2>5
  <2>7. request[r].action = "approve"
    BY <2>1 DEF SessionInv, CallsAreApprovals
  <2>. QED
    BY <2>2, <2>3, <2>4, <2>6, <2>7
<1>3. CASE TurnDown(r)
  <2>. DEFINE f == request[r].card.fact
  <2>1. /\ request[r].action = "reject" /\ queue[f] # Nothing /\ stage[r] = "idle"
        /\ queue' = [queue EXCEPT ![f] = Nothing] /\ refused' = refused \cup {queue[f]}
    BY <1>3 DEF TurnDown, Reject, Remove
  <2>2. f \in Facts
    BY <1>0, RequestFacts DEF SessionInv
  <2>3. queue'[f] = Nothing
    BY <2>1, <2>2 DEF SessionInv, SessionTypeOK, TypeOK
  <2>4. queue[f].fact = f
    BY <2>1, <2>2 DEF SessionInv, GateInv, QueuedAsFiled
  <2>5. queue[f] \notin refused
    BY <2>4 DEF SessionInv, GateInv, GoneForGood, Gone, Waiting
  <2>6. Subject(r) = queue[f]
    BY <1>0, <2>1, SubjectFacts
  <2>. QED
    BY <2>1, <2>3, <2>5, <2>6
<1>. QED
  BY <1>1, <1>2, <1>3

\* 409 is only said when the card's version does not wait.
LEMMA ToldTaken ==
    ASSUME SessionInv, NEW r \in Reviewers, Conclude(r) \/ Crash(r), Hears(r, "409")
    PROVE  LET card == request[r].card
           IN  /\ UNCHANGED vars
               /\ Subject(r) = Nothing
               /\ Pooled(card) \/ InFlight(card) \/ card \in Gone
<1>. DEFINE card == request[r].card
<1>1. Taken(r)
  BY AnswerGiven
<1>2. /\ UNCHANGED vars /\ request[r] # Nothing /\ stage[r] = "idle"
      /\ queue[card.fact] = Nothing
  BY <1>1 DEF Taken, Heard, Arrived
<1>3. card \in Memory /\ card \in filed
  BY <1>2, RequestFacts DEF SessionInv, CardsFiled
<1>4. ~Waiting(card)
  BY <1>2, <1>3, GateAssumption DEF Waiting
<1>5. Subject(r) = Nothing
  BY <1>2, SubjectFacts
<1>. QED
  BY <1>2, <1>3, <1>4, <1>5 DEF SessionInv, GateInv, Accounted

\* What a failure leaves behind: nobody has decided, and the candidate waits or
\* is logged or dropped.
Undecided(r) ==
    /\ UNCHANGED <<pool, refused>>
    /\ Kept(r) \/ Subject(r) \in logged' \cup dropped'
    /\ Subject(r) # Nothing /\ Pooled(Subject(r)) => Subject(r) \in doubted

LEMMA ToldFailed ==
    ASSUME SessionInv, NEW r \in Reviewers, Conclude(r) \/ Crash(r),
           NEW code \in {"400", "500", "502", "503"}, Hears(r, code)
    PROVE  Undecided(r)
<1>. DEFINE f == request[r].card.fact
<1>1. RefuseScope(r) \/ Unreachable(r) \/ ClaimLost(r) \/ RollBack(r)
  BY AnswerGiven
<1>2. request[r] # Nothing /\ f \in Facts
  BY RequestFacts DEF Hears, SessionInv
<1>3. Subject(r) # Nothing /\ Pooled(Subject(r)) => Subject(r) \in doubted
  BY <1>2, SubjectFacts
<1>4. CASE RefuseScope(r) \/ Unreachable(r)
  <2>1. UNCHANGED vars /\ stage[r] = "idle"
    BY <1>4 DEF RefuseScope, Unreachable, Heard, Arrived
  <2>2. UNCHANGED <<pool, refused>> /\ Kept(r)
    BY <1>2, <2>1, SubjectFacts DEF vars, Kept
  <2>. QED
    BY <1>3, <2>2 DEF Undecided
<1>5. CASE ClaimLost(r)
  <2>1. /\ UNCHANGED <<pool, refused>> /\ stage[r] = "idle"
        /\ dropped' = dropped \cup {queue[f]}
    BY <1>5 DEF ClaimLost, ClaimUnanswered
  <2>2. Subject(r) \in dropped'
    BY <1>2, <2>1, SubjectFacts
  <2>. QED
    BY <1>3, <2>1, <2>2 DEF Undecided
<1>6. CASE RollBack(r)
  <2>1. UNCHANGED <<pool, refused>> /\ stage[r] # "idle"
    BY <1>6 DEF RollBack, Restore, RestoreFails, GiveBack
  <2>2. Subject(r) = claim[r] /\ claim[r].fact = f
    BY <1>2, <2>1, SubjectFacts
  <2>3. CASE Restore(r)
    <3>1. queue' = [queue EXCEPT ![f] = claim[r]]
      BY <2>2, <2>3 DEF Restore, Add
    <3>2. Kept(r)
      BY <1>2, <2>2, <3>1 DEF Kept, SessionInv, SessionTypeOK, TypeOK
    <3>. QED
      BY <1>3, <2>1, <3>2 DEF Undecided
  <2>4. CASE RestoreFails(r)
    <3>1. Subject(r) \in logged'
      BY <2>2, <2>4 DEF RestoreFails
    <3>. QED
      BY <1>3, <2>1, <3>1 DEF Undecided
  <2>. QED
    BY <1>6, <2>3, <2>4 DEF RollBack
<1>. QED
  BY <1>1, <1>4, <1>5, <1>6

\* 401, 422 and 429 are only said when nothing has been done.
LEMMA ToldUnheard ==
    ASSUME NEW r \in Reviewers, Conclude(r) \/ Crash(r),
           NEW code \in {"401", "422", "429"}, Hears(r, code)
    PROVE  UNCHANGED vars
<1>1. TurnOut(r) \/ RefuseBody(r) \/ TurnAway(r)
  BY AnswerGiven
<1>. QED
  BY <1>1 DEF TurnOut, RefuseBody, TurnAway

\* Only the steps that conclude a request, and a crash, are heard, and only by
\* the reviewer whose request it was.
LEMMA HeardFrom ==
    ASSUME SessionInv, SessionNext, NEW r \in Reviewers, NEW code \in Codes, Hears(r, code)
    PROVE  Conclude(r) \/ Crash(r)
<1>1. answer' = [to |-> r, code |-> code] /\ answer' # Nothing
  BY SessionAssumption DEF Hears
<1>2. PICK q \in Reviewers : Conclude(q) \/ Crash(q)
  BY <1>1 DEF SessionNext, Serve
<1>3. answer'.to = q
  <2>1. ASSUME NEW given, Answer(q, given)
        PROVE  answer'.to = q
    BY <2>1 DEF Answer
  <2>2. CASE TurnOut(q)
    BY <2>2 DEF TurnOut
  <2>3. CASE Crash(q) \/ TurnAway(q) \/ RefuseBody(q) \/ TurnDown(q) \/ Approve(q)
    BY <2>1, <2>3 DEF Crash, TurnAway, RefuseBody, TurnDown, Approve
  <2>4. CASE RefuseScope(q) \/ Unreachable(q) \/ ClaimLost(q) \/ Taken(q) \/ RollBack(q)
    BY <2>1, <2>4 DEF RefuseScope, Unreachable, ClaimLost, Taken, RollBack, AnswerFailure
  <2>. QED
    BY <1>2, <2>2, <2>3, <2>4 DEF Conclude
<1>. QED
  BY <1>1, <1>2, <1>3

\* No answer hides a decision or makes one up: 200 is only heard of a candidate
\* that has left the queue for the pool or the refused, 409 only of a version
\* that does not wait, and after any other failure nobody has decided, unless
\* the provider stored the memory and raised.  What a failure says of the
\* candidate's whereabouts is not vouched for: it may wait, or be logged, or be
\* dropped.
THEOREM NoDecisionHiddenHolds == SessionSpec => NoDecisionHidden
<1>. DEFINE Told(r) ==
        LET card == request[r].card
            subject == Subject(r) IN
        /\ Hears(r, "200") =>
            \/ /\ request[r].action = "approve" /\ ~Kept(r)
               /\ pool' # pool /\ pool'[Len(pool')].recorded = subject.recorded
               /\ behind'[Len(behind')] = request[r]
            \/ /\ request[r].action = "reject" /\ queue'[card.fact] = Nothing
               /\ subject \in refused' \ refused
        /\ Hears(r, "409") =>
            /\ UNCHANGED vars
            /\ subject = Nothing
            /\ Pooled(card) \/ InFlight(card) \/ card \in Gone
        /\ \A code \in {"401", "422", "429"} : Hears(r, code) => UNCHANGED vars
        /\ \A code \in {"400", "500", "502", "503"} : Hears(r, code) =>
            /\ UNCHANGED <<pool, refused>>
            /\ Kept(r) \/ subject \in logged' \cup dropped'
            /\ subject # Nothing /\ Pooled(subject) => subject \in doubted
<1>1. SessionInv /\ [SessionNext]_sessionVars => [\A r \in Reviewers : Told(r)]_sessionVars
  <2>. SUFFICES ASSUME SessionInv, SessionNext, NEW r \in Reviewers
                PROVE  Told(r)
    OBVIOUS
  <2>1. {"200", "400", "401", "409", "422", "429", "500", "502", "503"} \subseteq Codes
    BY DEF Codes
  <2>2. CASE Conclude(r) \/ Crash(r)
    BY <2>2, ToldDone, ToldTaken, ToldFailed, ToldUnheard DEF Undecided
  <2>3. CASE ~(Conclude(r) \/ Crash(r))
    BY <2>1, <2>3, HeardFrom
  <2>. QED
    BY <2>2, <2>3
<1>. QED
  BY <1>1, SessionInvHolds, PTL DEF SessionSpec, NoDecisionHidden
=============================================================================
