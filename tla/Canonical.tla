----------------------------- MODULE Canonical -----------------------------
(***************************************************************************)
(* The canonical memory and the query over it, without reference to where   *)
(* memories are kept (src/firm_memory/models.py, scope.py, and the search   *)
(* parameters of providers/base.py).                                        *)
(*                                                                          *)
(* Of the optional fields of the provenance, all treated alike, the author  *)
(* stands for each; metadata is the set of its names.  Content, ids and     *)
(* timestamps are left out: nothing here depends on them.                   *)
(***************************************************************************)
EXTENDS Integers, Sequences

CONSTANTS
    Slugs,     \* names of repos and domains, as words: <<"a", "b">> is a_b
    Types,     \* the taxonomy
    Tasks,     \* merge requests and issues
    Authors,   \* whom a memory may be attributed to
    Notes,     \* names of the metadata callers attach
    Certain,   \* confidence 1.0
    Penalty,   \* DISPUTE_CONFIDENCE_PENALTY
    None       \* absent

ASSUME CanonicalAssumption ==
    /\ Slugs \subseteq Seq(STRING) \ {<<>>}
    /\ Certain \in Nat \ {0}
    /\ Penalty \in 0 .. Certain
    /\ None \notin Tasks \cup Authors \cup (0 .. Certain)

-----------------------------------------------------------------------------
Firm == [layer |-> "firm", slug |-> <<>>]

Atoms == {Firm} \cup [layer : {"domain", "repo"}, slug : Slugs]

\* MemoryScope.__post_init__: a scope names at least one atom.
Scopes == (SUBSET Atoms) \ {{}}

Overlap(s, t) == s \cap t # {}

Tiers == {"durable", "index", "episodic"}

Status == {"proposed", "active", "disputed", "superseded", "rejected"}

Described == [scope      : Scopes,
              type       : Types,
              status     : Status,
              tier       : Tiers,
              task       : Tasks \cup {None},
              author     : Authors \cup {None},
              confidence : 0 .. Certain,
              notes      : SUBSET Notes]

\* Memory.__post_init__: a task goes with the episodic tier and with no other.
Consistent(m) == m.tier = "episodic" <=> m.task # None

Memory == {m \in Described : Consistent(m)}

\* An empty set of types, tiers or statuses does not narrow the search.
Query == [scope    : Scopes,
          types    : SUBSET Types,
          tiers    : SUBSET Tiers,
          statuses : SUBSET Status,
          task     : Tasks \cup {None}]

DefaultTiers == {"durable", "index"}
DefaultStatuses == {"active", "disputed"}

\* The scopes share an atom, and the memory is of a kind asked for.
Selects(q, m) ==
    /\ Overlap(q.scope, m.scope)
    /\ q.tiers # {} => m.tier \in q.tiers
    /\ q.statuses # {} => m.status \in q.statuses
    /\ q.types # {} => m.type \in q.types
    /\ q.task # None => m.task = q.task

\* dispute(): flagged and demoted.  Only active memory may be disputed.
Disputed(m) ==
    [m EXCEPT !.status = "disputed",
              !.confidence = IF @ < Penalty THEN 0 ELSE @ - Penalty]

=============================================================================
