----------------------------- MODULE Lifecycle -----------------------------
(***************************************************************************)
(* The pure rules of a memory's life: the approval policy and the status    *)
(* transitions of src/firm_memory/lifecycle.py, over the canonical memory   *)
(* record of src/firm_memory/models.py.                                     *)
(*                                                                          *)
(* A fact stands for what candidate_id() digests: content, scope and type   *)
(* together.  All that the rules ask about a type or a scope is whether it  *)
(* is critical and whether it is firm-wide, so these are two sets of facts. *)
(* Confidence, a float in [0.0, 1.0], is an integer scaled by Certain.      *)
(***************************************************************************)
EXTENDS Integers

CONSTANTS
    Facts,                 \* (content, scope, type) triples
    CriticalFacts,         \* those whose type is in the policy's critical_types
    FirmWideFacts,         \* those whose scope claims the whole firm
    Certain,               \* confidence 1.0
    Penalty,               \* DISPUTE_CONFIDENCE_PENALTY, 0.3
    Threshold,             \* ApprovalPolicy.auto_approve_threshold
    AutoApproveEnabled,    \* ApprovalPolicy.auto_approve_enabled
    FirmScopeAlwaysHuman,  \* ApprovalPolicy.firm_scope_always_human
    People,                \* names a decision can be attributed to
    Nobody                 \* the absent author

ASSUME LifecycleAssumption ==
    /\ CriticalFacts \subseteq Facts
    /\ FirmWideFacts \subseteq Facts
    /\ Certain \in Nat \ {0}
    /\ Penalty \in 0 .. Certain
    /\ Threshold \in 0 .. Certain
    /\ AutoApproveEnabled \in BOOLEAN
    /\ FirmScopeAlwaysHuman \in BOOLEAN
    /\ Nobody \notin People

-----------------------------------------------------------------------------
Confidence == 0 .. Certain

Status == {"proposed", "active", "disputed", "superseded", "rejected"}

\* `recorded` numbers the proposals.  It stands for the provenance and metadata
\* that tell two proposals of the same fact apart.
Memory == [fact       : Facts,
           confidence : Confidence,
           status     : Status,
           author     : People \cup {Nobody},
           recorded   : Nat]

AllowedTransitions ==
    [proposed   |-> {"active", "rejected"},
     active     |-> {"disputed", "superseded"},
     disputed   |-> {"active", "superseded", "rejected"},
     superseded |-> {},
     rejected   |-> {}]

CanMove(m, to) == to \in AllowedTransitions[m.status]

Lowered(confidence) == IF confidence < Penalty THEN 0 ELSE confidence - Penalty

Raised(confidence) ==
    IF confidence + Penalty > Certain THEN Certain ELSE confidence + Penalty

-----------------------------------------------------------------------------
\* Plausible slips in evaluate(): the firm-wide check forgotten, the critical
\* types forgotten.
NeedsHumanIgnoringReach(m) ==
    \/ ~AutoApproveEnabled
    \/ m.fact \in CriticalFacts
    \/ m.confidence < Threshold

\* evaluate(): the first test that fires names the reason; any of them sends
\* the memory to a person.
NeedsHuman(m) ==
    \/ ~AutoApproveEnabled
    \/ m.fact \in CriticalFacts
    \/ FirmScopeAlwaysHuman /\ m.fact \in FirmWideFacts
    \/ m.confidence < Threshold

\* approve() with no confidence given: a disputed memory gets back what the
\* dispute took, any other keeps what it had.
Approved(m, approver) ==
    [m EXCEPT !.status = "active",
              !.author = IF approver = Nobody THEN m.author ELSE approver,
              !.confidence = IF m.status = "disputed" THEN Raised(@) ELSE @]

\* approve() with the reviewer's own estimate.
ApprovedAt(m, approver, confidence) ==
    [Approved(m, approver) EXCEPT !.confidence = confidence]

\* dispute(): demoted, not removed.
Disputed(m) == [m EXCEPT !.status = "disputed", !.confidence = Lowered(@)]
=============================================================================
