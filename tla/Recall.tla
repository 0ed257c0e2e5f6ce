------------------------------- MODULE Recall -------------------------------
(***************************************************************************)
(* The pool in mem0 (src/firm_memory/providers/mem0): memories are flattened *)
(* to payloads of keys and values, found by a filter over those keys, and   *)
(* read back from the payload alone.  In front of it, how the MCP tools and *)
(* FirmMemory choose the scope of a proposal and of a search.               *)
(*                                                                          *)
(* A key is the sequence of words its underscores separate, so              *)
(* scope_repo_a_b is <<"scope", "repo", "a", "b">>.  A label such as        *)
(* repo:a_b is the record of its parts.                                     *)
(* mem0 itself is external: it stores the payload it is given and the       *)
(* entity keys beside it, keeps those entity keys on an update, and its     *)
(* filters compare keys for equality or membership.                         *)
(***************************************************************************)
EXTENDS Canonical

CONSTANTS
    Grain,        \* the step of "{:.4f}"
    Middle,       \* the confidence of a row that has none
    DefaultType,  \* task_learnings
    PoolOwner,    \* Mem0Settings.pool_owner, a label of the deployment's choice
    Checkout,     \* the repo FirmMemory.from_env() finds itself in; None if none
    Domains,      \* Settings.default_domains
    Calls,        \* proposals that reach the pool
    Queries,      \* searches
    ForeignRows,  \* rows that other programs have left in the pool
    MaxPool       \* bound: rows

Slack == Grain \div 2

\* "scope_..." in the words of the key.
MarksScope(key) == Len(key) > 1 /\ key[1] = "scope"

\* Keys the payload or mem0 gives a meaning of its own (_STRUCTURAL_KEYS).
FieldKeys == {<<"type">>, <<"tier">>, <<"status">>, <<"confidence">>,
              <<"owner">>, <<"layer">>}
OptionalKeys == {<<"author">>, <<"task">>}
EntityKeys == {<<"user", "id">>, <<"agent", "id">>, <<"run", "id">>}
ContentKeys == {<<"memory">>}
Structural == FieldKeys \cup OptionalKeys \cup EntityKeys \cup ContentKeys

\* Metadata under the name of a scope key or of a field that is always written
\* is not kept.
Unkept == {n \in Notes : MarksScope(n) \/ n \in FieldKeys}

\* What memory_propose and propose() may be given about a fact.
Proposal == [named      : SUBSET (Atoms \ {Firm}),
             firm       : BOOLEAN,
             type       : Types,
             tier       : Tiers,
             task       : Tasks \cup {None},
             author     : Authors \cup {None},
             confidence : 0 .. Certain,
             notes      : SUBSET Notes]

VARIABLES
    records,  \* mem0's rows, in the order of their ids
    foreign,  \* how many of them this provider did not insert
    given     \* observation: memories as handed to insert() and update()

vars == <<records, foreign, given>>

ASSUME RecallAssumption ==
    /\ Grain \in Nat \ {0} /\ Grain % 2 = 1 /\ Certain % Grain = 0
    /\ Middle \in 0 .. Certain
    /\ DefaultType \in Types
    /\ PoolOwner # None
    /\ Checkout \in Slugs \cup {None}
    /\ Domains \subseteq Slugs
    \* A caller's metadata under one of these names would be stored as the field.
    /\ Notes \cap (OptionalKeys \cup EntityKeys \cup ContentKeys) = {}
    /\ None \notin Memory
    /\ Calls \subseteq Proposal
    /\ Queries \subseteq Query
    \* What others wrote is of the kinds to_memory() expects, where it looks.
    /\ \A row \in ForeignRows : \A k \in DOMAIN row :
          /\ k = <<"author">> => row[k] \in Authors
          /\ k \in {<<"task">>, <<"run", "id">>} => row[k] \in Tasks
          /\ k = <<"confidence">> => row[k] \in Int
          /\ k \notin Structural /\ ~MarksScope(k) => k \in Notes
    /\ MaxPool \in Nat \ {0}

-----------------------------------------------------------------------------
(* Scopes.                                                                  *)

\* for_query(): the scope of an instance that from_env() builds.
Home ==
    {Firm} \cup [layer : {"domain"}, slug : Domains]
           \cup [layer : {"repo"}, slug : {Checkout} \ {None}]

\* A slip: firm knowledge left to those who ask for it by name.
SearchScopeAsNamed(named, firm) ==
    IF named # {} THEN named ELSE Home \ {Firm}

\* memory_search: the scope named, with firm knowledge unless it is declined;
\* with nothing named, the instance's.
SearchScope(named, firm) ==
    IF named # {} THEN named \cup (IF firm THEN {Firm} ELSE {}) ELSE Home

\* _write_scope(): the scope named; firm-wide only if that is all that is
\* claimed; with nothing named and nothing claimed, the instance's.
WriteScope(named, firm) ==
    IF named # {} THEN named \cup (IF firm THEN {Firm} ELSE {})
    ELSE IF firm THEN {Firm}
    ELSE Home

-----------------------------------------------------------------------------
(* Writing.                                                                 *)

\* The keys of both, the first one's values where both have a key.
Over(f, g) ==
    [k \in DOMAIN f \cup DOMAIN g |-> IF k \in DOMAIN f THEN f[k] ELSE g[k]]

Entry(key, value) == [k \in {key} |-> value]

Optional(key, value) == IF value = None THEN <<>> ELSE Entry(key, value)

AtomKey(a) == <<"scope", a.layer>> \o a.slug

\* f"{confidence:.4f}"
Rounded(c) == Grain * ((c + Grain \div 2) \div Grain)

\* The atom of the broadest layer a scope has; of several, the first.
Primary(scope) ==
    LET layer == IF Firm \in scope THEN "firm"
                 ELSE IF \E a \in scope : a.layer = "domain" THEN "domain"
                 ELSE "repo"
    IN  CHOOSE a \in scope : a.layer = layer

\* payload_metadata(): the caller's metadata without scope keys, under the
\* fields and the scope's own keys, with the optional fields that have a value.
Payload(m) ==
    LET callers == [n \in {n \in m.notes : ~MarksScope(n)} |-> "1"]
        marks == [k \in {AtomKey(a) : a \in m.scope} |-> "1"]
    IN  Over(Optional(<<"author">>, m.author),
        Over(Optional(<<"task">>, m.task),
        Over(Entry(<<"type">>, m.type),
        Over(Entry(<<"tier">>, m.tier),
        Over(Entry(<<"status">>, m.status),
        Over(Entry(<<"confidence">>, Rounded(m.confidence)),
        Over(marks, callers)))))))

\* ownership_metadata(): for administration.
Ownership(m) ==
    Over(Entry(<<"owner">>, Primary(m.scope)),
         Entry(<<"layer">>, Primary(m.scope).layer))

\* write_kwargs(): the run only for episodic memory, the agent only for memory
\* filed under a repo.
Entities(m) ==
    LET primary == Primary(m.scope)
    IN  Over(Entry(<<"user", "id">>, PoolOwner),
        Over(IF primary.layer = "repo" THEN Entry(<<"agent", "id">>, primary.slug) ELSE <<>>,
             IF m.tier = "episodic" THEN Entry(<<"run", "id">>, m.task) ELSE <<>>))

Metadata(m) == Over(Ownership(m), Over(Payload(m), Entry(<<"memory">>, "text")))

\* What mem0 keeps of a row it updates.
EntitiesKept(row) == [k \in DOMAIN row \cap EntityKeys |-> row[k]]

-----------------------------------------------------------------------------
(* Reading.                                                                 *)

Value(row, key) == IF key \in DOMAIN row THEN row[key] ELSE None

OneOf(value, known, default) == IF value \in known THEN value ELSE default

\* _legacy_scope(): the owner or the entity the row was filed under.
LegacyScope(row) ==
    LET owner == IF Value(row, <<"owner">>) # None
                 THEN row[<<"owner">>] ELSE Value(row, <<"user", "id">>)
        agent == Value(row, <<"agent", "id">>)
    IN  IF owner # None /\ owner.slug # <<>> /\ owner.layer \in {"repo", "domain"}
        THEN {owner}
        ELSE IF agent # None THEN {[layer |-> "repo", slug |-> agent]} ELSE {Firm}

\* remainder.partition("_"): the layer is the first word, the slug the rest.
AtomAt(key) == [layer |-> key[2], slug |-> SubSeq(key, 3, Len(key))]

Recognised(a) ==
    \/ a.layer = "firm" /\ a.slug = <<>>
    \/ a.layer \in {"domain", "repo"} /\ a.slug # <<>>

ScopeOfRow(row) ==
    LET marked == {AtomAt(k) : k \in {k \in DOMAIN row : MarksScope(k)}}
        atoms == {a \in marked : Recognised(a)}
    IN  IF atoms # {} THEN atoms ELSE LegacyScope(row)

TaskOfRow(row) ==
    IF Value(row, <<"run", "id">>) # None
    THEN row[<<"run", "id">>] ELSE Value(row, <<"task">>)

\* _float(): a number is clamped to a probability, anything else is 0.5.
ConfidenceOf(row) ==
    LET value == Value(row, <<"confidence">>)
    IN  IF value = None THEN Middle
        ELSE IF value < 0 THEN 0
        ELSE IF value > Certain THEN Certain
        ELSE value

\* to_memory(): defaults for what is missing or unknown; None for a row without
\* text, with a name that is no slug, or episodic without a task.
ToMemory(row) ==
    LET tier == OneOf(Value(row, <<"tier">>), Tiers, "durable")
        m == [scope      |-> ScopeOfRow(row),
              type       |-> OneOf(Value(row, <<"type">>), Types, DefaultType),
              status     |-> OneOf(Value(row, <<"status">>), Status, "active"),
              tier       |-> tier,
              task       |-> IF tier = "episodic" THEN TaskOfRow(row) ELSE None,
              author     |-> Value(row, <<"author">>),
              confidence |-> ConfidenceOf(row),
              notes      |-> {k \in DOMAIN row : k \notin Structural /\ ~MarksScope(k)}]
    IN  IF <<"memory">> \in DOMAIN row /\ m.scope \subseteq Atoms /\ Consistent(m)
        THEN m ELSE None

-----------------------------------------------------------------------------
(* Finding.                                                                 *)

Condition(key, values) == IF values = {} THEN <<>> ELSE [k \in {key} |-> values]

\* A slip: no condition for the task of a search.
CommonWithoutTask(q) ==
    Over(Condition(<<"type">>, q.types),
    Over(Condition(<<"tier">>, q.tiers), Condition(<<"status">>, q.statuses)))

\* _common_conditions(): key -> the values that satisfy it.
Common(q) ==
    Over(Condition(<<"type">>, q.types),
    Over(Condition(<<"tier">>, q.tiers),
    Over(Condition(<<"status">>, q.statuses),
         Condition(<<"run", "id">>, {q.task} \ {None}))))

\* search_filters(): a flat branch for every atom, the common conditions in
\* each of them.
Branches(q) == {Over(Entry(AtomKey(a), {"1"}), Common(q)) : a \in q.scope}

\* mem0's evaluation of a flat filter: a key that is not there matches nothing.
Satisfies(row, branch) ==
    \A k \in DOMAIN branch : k \in DOMAIN row /\ row[k] \in branch[k]

\* Mem0Provider.search(): the pool owner's rows that satisfy a branch.
Finds(q, row) ==
    /\ Value(row, <<"user", "id">>) = PoolOwner
    /\ \E branch \in Branches(q) : Satisfies(row, branch)

\* _to_memories(): of what mem0 returns, the rows that can be read.
Returned(q) == {i \in DOMAIN records : Finds(q, records[i]) /\ ToMemory(records[i]) # None}

-----------------------------------------------------------------------------
(* The pool at work.                                                        *)

Pool == [i \in DOMAIN records |-> ToMemory(records[i])]

Init ==
    /\ \E row \in ForeignRows : records = <<row>>
    /\ foreign = 1
    /\ given = Pool

\* The memory a proposal becomes once it is approved as it stands.
Approved(call) ==
    [scope      |-> WriteScope(call.named, call.firm),
     type       |-> call.type,
     status     |-> "active",
     tier       |-> call.tier,
     task       |-> call.task,
     author     |-> call.author,
     confidence |-> call.confidence,
     notes      |-> call.notes]

\* What the rest of the platform is promised of this pool.
Contract == INSTANCE MemoryPool WITH pool <- Pool

\* insert(): one row, however many atoms the scope has.
Insert(call) ==
    LET m == Approved(call)
    IN  /\ Len(records) < MaxPool
        /\ Consistent(m)
        /\ records' = Append(records, Over(Entities(m), Metadata(m)))
        /\ given' = Append(given, m)
        /\ UNCHANGED foreign

\* A slip: update() sends the fields without the ownership and scope keys.
CorrectFieldsOnly(i) ==
    LET m == ToMemory(records[i])
    IN  /\ m # None
        /\ m.status = "active"
        /\ records' = [records EXCEPT ![i] =
                Over(EntitiesKept(@), Over(Entry(<<"status">>, "disputed"),
                                           Entry(<<"memory">>, "text")))]
        /\ given' = [given EXCEPT ![i] = Disputed(m)]
        /\ UNCHANGED foreign

\* correct(): the row is read, disputed and written back whole.
Correct(i) ==
    LET m == ToMemory(records[i])
        disputed == Disputed(m)
    IN  /\ m # None
        /\ m.status = "active"
        /\ records' = [records EXCEPT ![i] = Over(EntitiesKept(@), Metadata(disputed))]
        /\ given' = [given EXCEPT ![i] = disputed]
        /\ UNCHANGED foreign

Next ==
    \/ \E call \in Calls : Insert(call)
    \/ \E i \in DOMAIN records : Correct(i)

Spec == Init /\ [][Next]_vars
-----------------------------------------------------------------------------
(* What the provider promises.                                              *)

Own == {i \in DOMAIN records : i > foreign}

\* What is read is a canonical memory or nothing, and what this provider has
\* inserted is always readable.
TypeOK ==
    /\ Len(records) \in 1 .. MaxPool
    /\ Pool \in Seq(Memory \cup {None})
    /\ given \in Seq(Memory \cup {None})
    /\ foreign = 1
    /\ \A i \in Own : Pool[i] # None

\* A memory that goes into mem0 and comes back is the memory that was written,
\* up to the rounding of its confidence and metadata named like a scope or a
\* field, however often it is corrected; and no write shows in another memory
\* (mapping.py:45, base.py:37-84).
ImplementsPool == Contract!Spec

\* Of the memories this provider has written, the filter selects exactly those
\* that are in scope and of the tiers, statuses, types and task asked for, as
\* the canonical definition has them (filters.py:67): nothing leaks in through a
\* key that is absent, nothing is lost through one that is spelled differently
\* on the two sides.  A row that another program has left is only returned where
\* the definition allows it, a search for a task excepted, for which its stray
\* run_id may answer; that it is returned there is not so (LegacyRowsAreFound).
SearchAgrees ==
    LET memories == Pool IN
    \A q \in Queries :
        LET returned == Returned(q) IN
        /\ \A i \in Own : i \in returned <=> Selects(q, memories[i])
        /\ \A i \in returned \ Own : q.task = None => Selects(q, memories[i])

\* Why the above hold: a row of this provider is, key for key, what it writes for
\* the memory it was last handed, entity keys included, however often mem0 has
\* put the rest of the row under the ones it keeps (provider.py:147-221).
RecallInv ==
    /\ TypeOK
    /\ Len(given) = Len(records)
    /\ records \in Seq({records[i] : i \in DOMAIN records})
    /\ \A i \in Own :
        /\ given[i] # None
        /\ given[i].status \in DefaultStatuses
        /\ records[i] = Over(Entities(given[i]), Metadata(given[i]))

\* The search memory_search makes when it is given no more than a scope.
ToolQuery(named, firm) ==
    [scope |-> SearchScope(named, firm), types |-> {}, tiers |-> DefaultTiers,
     statuses |-> DefaultStatuses, task |-> None]

\* Firm knowledge is always found: a durable or index memory that is firm-wide
\* answers every tool search that has not declined it, whatever repo or domain
\* that search names, and still does when it is disputed (scope.py:77-79).
FirmKnowledgeIsFound ==
    \A i \in Own : Firm \in Pool[i].scope /\ Pool[i].tier \in DefaultTiers =>
        \A named \in SUBSET (Atoms \ {Firm}) : i \in Returned(ToolQuery(named, TRUE))

-----------------------------------------------------------------------------
(* What the repository says, and the code does not do.                      *)

\* mapping.py:136 the scope derived from a row without scope keys "keeps an
\* existing pool readable through the new contract instead of requiring a
\* migration before the first query returns anything": a search returns the rows
\* of other programs that read as memories it selects.
LegacyRowsAreFound ==
    LET memories == Pool IN
    \A q \in Queries : \A i \in DOMAIN records \ Own :
        memories[i] # None /\ Selects(q, memories[i]) => i \in Returned(q)
=============================================================================
