---------------------------- MODULE ReviewSession ----------------------------
(***************************************************************************)
(* A reviewer at work: the page, the request it sends and the answer it     *)
(* gets (src/firm_memory/review), in front of the approval gate, whose      *)
(* actions this module takes over and ties to the request behind them.      *)
(*                                                                          *)
(* The page is a snapshot of the queue.  It names a candidate by its id, and *)
(* sends of an edit only the fields that differ from the card it shows; the  *)
(* server applies them to whatever version waits under that id by then.     *)
(* Answers are the status codes of _STATUS_BY_ERROR.                        *)
(*                                                                          *)
(* A reviewer sends one decision at a time and does not reload while it is  *)
(* under way; several tabs are several reviewers.  A token stands for the   *)
(* reviewer it was issued to, until the service no longer accepts it.       *)
(***************************************************************************)
EXTENDS ApprovalGate

CONSTANTS
    Proposed,  \* bound: facts that bots put forward; edits may make any other
    Editors,   \* bound: reviewers who edit; the others take a card as it is
    Same,      \* of an edit: the field is not sent
    Unscoped,  \* an edited scope that names no firm, domain or repo
    Untyped,   \* a type outside the taxonomy, which only a script can send
    Unfit      \* a confidence outside 0 to 1, which the request's schema refuses

VARIABLES
    shown,    \* the cards on each reviewer's page: fact -> memory or Nothing
    request,  \* the decision under way: Nothing if there is none
    behind,   \* observation: the request behind each memory of the pool
    answer    \* observation: the answer this step has given, and to whom

session == <<shown, request, behind>>
sessionVars == <<vars, session, answer>>

\* An approval or a rejection of the card, with the reviewer's edit.
Request == [action     : {"approve", "reject"},
            card       : Memory,
            by         : Reviewers,
            fact       : Facts \cup {Same, Unscoped, Untyped},
            confidence : Confidence \cup {Same, Unfit}]

\* _STATUS_BY_ERROR, for what a decision can raise.  Unexpected is what no
\* FirmMemoryError wraps.
StatusByError ==
    [CandidateStoreError |-> "503", LifecycleError |-> "409", ProviderError |-> "502",
     TaxonomyError |-> "400", ScopeError |-> "400", Unexpected |-> "500"]

\* "lost": the connection breaks before the answer arrives.
Codes == {"200", "400", "401", "409", "422", "429", "500", "502", "503", "lost"}

ASSUME SessionAssumption ==
    /\ Proposed \subseteq Facts /\ Editors \subseteq Reviewers
    /\ {Same, Unscoped, Untyped, Unfit} \cap (Facts \cup Confidence) = {}
    /\ Same \notin {Unscoped, Untyped, Unfit} /\ Unscoped # Untyped
    /\ Nothing \notin Request \cup [to : Reviewers, code : Codes]

NoCards == [f \in Facts |-> Nothing]

SessionInit ==
    /\ Init
    /\ shown = [r \in Reviewers |-> NoCards]
    /\ request = [r \in Reviewers |-> Nothing]
    /\ behind = <<>>
    /\ answer = Nothing

-----------------------------------------------------------------------------
(* The page.                                                                *)

\* load(): the cards of everything that waits.
Load(r) ==
    /\ request[r] = Nothing
    /\ shown' = [shown EXCEPT ![r] = queue]
    /\ UNCHANGED <<vars, request, behind>>

\* The queue cannot be read: the page keeps no card.
LoadFails(r) ==
    /\ request[r] = Nothing
    /\ shown' = [shown EXCEPT ![r] = NoCards]
    /\ UNCHANGED <<vars, request, behind>>

NoEdit == [fact |-> Same, confidence |-> Same]

\* What readEdit() may find in the form of a card, and a script may send.  An
\* edit that is refused for one field stands for all that have it.
Edits(r, card) ==
    IF r \notin Editors THEN {NoEdit}
    ELSE [fact       : (Facts \ {card.fact}) \cup {Same},
          confidence : (GivenConfidence \ {card.confidence}) \cup {Same}]
         \cup [fact : {Unscoped, Untyped}, confidence : {Same}]
         \cup [fact : {Same}, confidence : {Unfit}]

\* decide(): the card stays, busy, until the answer.
Send(r, asked) ==
    /\ request[r] = Nothing
    /\ request' = [request EXCEPT ![r] = asked]
    /\ UNCHANGED <<vars, shown, behind>>

Decide(r) ==
    \E f \in Facts :
        LET card == shown[r][f] IN
        /\ card # Nothing
        /\ \/ \E edit \in Edits(r, card) :
                Send(r, [action |-> "approve", card |-> card, by |-> r,
                         fact |-> edit.fact, confidence |-> edit.confidence])
           \/ Send(r, [action |-> "reject", card |-> card, by |-> r,
                       fact |-> Same, confidence |-> Same])

\* Only success removes the card; success may also be lost on the way.  (A
\* lost failure leaves the page as the failure does.)
Answer(r, code) ==
    /\ \E heard \in IF code = "200" THEN {"200", "lost"} ELSE {code} :
        /\ answer' = [to |-> r, code |-> heard]
        /\ shown' = IF heard = "200"
                    THEN [shown EXCEPT ![r][request[r].card.fact] = Nothing]
                    ELSE shown
    /\ request' = [request EXCEPT ![r] = Nothing]

\* firm_memory_error(): the code of the failure.
AnswerFailure(r, error) == Answer(r, StatusByError[error])

-----------------------------------------------------------------------------
(* The service.                                                             *)

\* The request has arrived and the gate has not been called.
Arrived(r) == request[r] # Nothing /\ stage[r] = "idle"

\* throttle(): more than this client may send.
TurnAway(r) ==
    /\ Arrived(r)
    /\ Answer(r, "429")
    /\ UNCHANGED <<vars, behind>>

\* require_reviewer(): the token is no longer one of the deployment's.  The
\* page forgets it and has no cards until it is given another.
TurnOut(r) ==
    /\ Arrived(r)
    /\ answer' = [to |-> r, code |-> "401"]
    /\ request' = [request EXCEPT ![r] = Nothing]
    /\ shown' = [shown EXCEPT ![r] = NoCards]
    /\ UNCHANGED <<vars, behind>>

\* ApproveRequest: a body that does not fit is answered by the framework.
RefuseBody(r) ==
    /\ Arrived(r)
    /\ request[r].confidence = Unfit
    /\ Answer(r, "422")
    /\ UNCHANGED <<vars, behind>>

\* _amendment(): the scope is built before the gate is called.
RefuseScope(r) ==
    /\ Arrived(r)
    /\ request[r].confidence # Unfit
    /\ request[r].fact = Unscoped
    /\ AnswerFailure(r, "ScopeError")
    /\ UNCHANGED <<vars, behind>>

Heard(r) ==
    /\ Arrived(r)
    /\ request[r].confidence # Unfit
    /\ request[r].fact # Unscoped

\* The store raises and has done nothing.  Postgres wraps what its driver
\* raises; the JSON store lets an OSError through.
Unreachable(r) ==
    /\ Heard(r)
    /\ \E error \in {"CandidateStoreError", "Unexpected"} : AnswerFailure(r, error)
    /\ UNCHANGED <<vars, behind>>

\* The store raises and has deleted the candidate: its reply is lost, or another
\* release wrote the row and it does not decode, by its type or otherwise.
ClaimLost(r) ==
    /\ Heard(r)
    /\ ClaimUnanswered(r, request[r].card.fact)
    /\ \E error \in {"CandidateStoreError", "TaxonomyError", "Unexpected"} :
            AnswerFailure(r, error)
    /\ UNCHANGED behind

\* Nothing waits under the id: LifecycleError.
Taken(r) ==
    /\ Heard(r)
    /\ queue[request[r].card.fact] = Nothing
    /\ AnswerFailure(r, "LifecycleError")
    /\ UNCHANGED <<vars, behind>>

TurnDown(r) ==
    /\ Heard(r)
    /\ request[r].action = "reject"
    /\ Reject(r, request[r].card.fact)
    /\ Answer(r, "200")
    /\ UNCHANGED behind

Begin(r) ==
    /\ Heard(r)
    /\ request[r].action = "approve"
    /\ Claim(r, request[r].card.fact)
    /\ UNCHANGED session

\* A field as it was sent, or as it is.
Sent(field, present) == IF field = Same THEN present ELSE field

\* A slip: a confidence is taken from the call alone, not from the edit.
AmendedButConfidence(m, asked) == [m EXCEPT !.fact = Sent(asked.fact, @)]

\* Amendment.apply(): the fields that were sent, over the version claimed.
Amended(m, asked) ==
    [m EXCEPT !.fact = Sent(asked.fact, @), !.confidence = Sent(asked.confidence, @)]

Endorsed(r) == Approved(Amended(claim[r], request[r]), r)

Commits(r) ==
    /\ request[r].fact # Untyped
    /\ pool' = Append(pool, Endorsed(r))
    /\ behind' = Append(behind, request[r])

Approve(r) ==
    /\ Endorse(r)
    /\ Commits(r)
    /\ Answer(r, "200")

\* The amended memory is not valid, or the provider refuses it.
Fail(r) ==
    /\ FailToCommit(r)
    /\ UNCHANGED session

\* The provider has stored the memory, and raises.
FailStored(r) ==
    /\ CommitUnacknowledged(r)
    /\ Commits(r)
    /\ UNCHANGED <<shown, request>>

\* The first failure decides the answer, whatever becomes of the rollback.
RollBack(r) ==
    /\ Restore(r) \/ RestoreFails(r)
    /\ AnswerFailure(r, IF request[r].fact = Untyped THEN "TaxonomyError" ELSE "ProviderError")
    /\ UNCHANGED behind

\* The process serving the request dies.
Crash(r) ==
    /\ Die(r)
    /\ Answer(r, "lost")
    /\ UNCHANGED behind

\* The service stops over a queue in memory: no connection survives it, and the
\* pages show what they showed.
Shutdown ==
    /\ Stop
    /\ request' = [r \in Reviewers |-> Nothing]
    /\ UNCHANGED <<shown, behind>>

-----------------------------------------------------------------------------
Propose ==
    /\ \E f \in Proposed, c \in OfferedConfidence : ProposeForReview(f, c) \/ Ingest(f, c)
    /\ UNCHANGED session

Sit(r) == Load(r) \/ LoadFails(r) \/ Decide(r)

\* What the service does before it has an answer.
Proceed(r) == Begin(r) \/ Fail(r) \/ FailStored(r)

\* The steps of the service that answer.
Conclude(r) ==
    \/ TurnAway(r) \/ TurnOut(r) \/ RefuseBody(r) \/ RefuseScope(r)
    \/ Unreachable(r) \/ ClaimLost(r) \/ Taken(r) \/ TurnDown(r) \/ Approve(r) \/ RollBack(r)

Serve(r) ==
    \/ Proceed(r) /\ answer' = Nothing
    \/ Conclude(r)

SessionNext ==
    \/ (Propose \/ Shutdown) /\ answer' = Nothing
    \/ \E r \in Reviewers :
        \/ Sit(r) /\ answer' = Nothing
        \/ Serve(r)
        \/ Crash(r)

SessionSpec == SessionInit /\ [][SessionNext]_sessionVars

\* Requests are served by ordinary functions on the pool of the server.
FairSession == SessionSpec /\ \A r \in Reviewers : WF_sessionVars(Serve(r))
-----------------------------------------------------------------------------
(* What a reviewer can rely on.                                             *)

\* Every variable has its type, and a call of the gate is only under way for
\* the request that made it.
SessionTypeOK ==
    /\ TypeOK
    /\ shown \in [Reviewers -> [Facts -> Slot]]
    /\ request \in [Reviewers -> Request \cup {Nothing}]
    /\ behind \in Seq(Request) /\ Len(behind) = Len(pool)
    /\ answer \in [to : Reviewers, code : Codes] \cup {Nothing}
    /\ \A r \in Reviewers : stage[r] # "idle" =>
            request[r] # Nothing /\ claim[r].fact = request[r].card.fact

\* The memory a reviewer has endorsed says what the card said, with the
\* reviewer's edits, and carries the reviewer's name (index.html:533-555,
\* amendment.py:71-90).  The card names the candidate by its id alone, so the
\* confidence may be that of another version of the fact, filed since or put
\* back by a failed approval, and then only if the reviewer did not set one.
EndorsedAsShown ==
    \A i \in DOMAIN pool :
        LET card == behind[i].card IN
        /\ pool[i].fact = Sent(behind[i].fact, card.fact)
        /\ pool[i].author = behind[i].by
        /\ pool[i].confidence # Sent(behind[i].confidence, card.confidence) =>
            /\ behind[i].confidence = Same
            /\ \E m \in filed \ {card} :
                /\ m.fact = card.fact
                /\ m.recorded = pool[i].recorded
                /\ m.confidence = pool[i].confidence

Hears(r, code) == request[r] # Nothing /\ answer' = [to |-> r, code |-> code]

\* The candidate a request deals with: the one its call holds, or whatever waits
\* under the card's id.
Subject(r) == IF stage[r] = "idle" THEN queue[request[r].card.fact] ELSE claim[r]

\* It waits after this step.
Kept(r) == queue'[request[r].card.fact] = Subject(r)

\* No answer hides a decision or makes one up (service.py:6-13).  200: the
\* candidate dealt with has left the queue for the pool or the refused.  409:
\* the version on the card does not wait; it was decided, is being decided, or
\* is gone.  401, 422, 429: nothing has changed.  Any other failure: nobody has
\* decided, unless the provider stored the memory and raised; but the candidate
\* may wait, be in the log alone, or be gone, whatever the answer says of that.
NoDecisionHidden ==
    [][\A r \in Reviewers :
        LET card == request[r].card
            subject == Subject(r) IN
        /\ Hears(r, "200") =>
            \/ /\ request[r].action = "approve" /\ ~Kept(r)
               /\ pool' # pool /\ pool'[Len(pool')].recorded = subject.recorded
               /\ behind'[Len(behind')] = request[r]
            \/ /\ request[r].action = "reject" /\ queue'[card.fact] = Nothing
               /\ subject \in refused' \ refused
        /\ Hears(r, "409") =>
            /\ UNCHANGED vars
            /\ subject = Nothing
            /\ Pooled(card) \/ InFlight(card) \/ card \in Gone
        /\ \A code \in {"401", "422", "429"} : Hears(r, code) => UNCHANGED vars
        /\ \A code \in {"400", "500", "502", "503"} : Hears(r, code) =>
            /\ UNCHANGED <<pool, refused>>
            /\ Kept(r) \/ subject \in logged' \cup dropped'
            /\ subject # Nothing /\ Pooled(subject) => subject \in doubted]_sessionVars

-----------------------------------------------------------------------------
(* The inductive invariant: what the reviewer relies on, over the gate's.   *)

\* What a page shows was proposed, and what a reviewer decides was shown.
CardsFiled ==
    \A r \in Reviewers :
        /\ \A f \in Facts : shown[r][f] # Nothing => shown[r][f] \in filed
        /\ request[r] # Nothing => request[r].card \in filed /\ request[r].by = r

\* The gate only has a call under way for an approval whose body fitted and whose
\* scope was built.
CallsAreApprovals ==
    \A r \in Reviewers : stage[r] # "idle" =>
        /\ request[r].action = "approve"
        /\ request[r].fact # Unscoped
        /\ request[r].confidence # Unfit

SessionInv ==
    /\ GateInv
    /\ SessionTypeOK
    /\ CardsFiled
    /\ CallsAreApprovals
    /\ EndorsedAsShown

-----------------------------------------------------------------------------
(* What the answers say, and the code does not do.                          *)

\* app.py:80-81 "The memory store would not accept the write.  The candidate has
\* been put back in the queue, so nothing is lost": the candidate of a 502 is not
\* in the pool and waits, and no other version of the fact is overwritten.
PutBackWhenRefused ==
    [][\A r \in Reviewers : Hears(r, "502") =>
            /\ ~Pooled(Subject(r))
            /\ Kept(r)
            /\ replaced' = replaced]_sessionVars

\* app.py:73-74 "The candidate queue is unreachable, so this is not an empty queue
\* -- nothing has been lost": the step that answers 503 drops no candidate.
NothingLostWhenUnreachable ==
    [][\A r \in Reviewers : Hears(r, "503") => dropped' = dropped]_sessionVars

\* What the reviewer reads is so, for both failures and for a rejection, of which
\* the page says that the fact "will not be proposed again unchanged"
\* (index.html:578).  None of the three is kept.
AnswersAreTrue ==
    /\ []RefusedStaysRefused
    /\ PutBackWhenRefused
    /\ NothingLostWhenUnreachable
=============================================================================
