------------------------------ MODULE MCRecall ------------------------------
(***************************************************************************)
(* Recall on a small instance: a repo and a domain whose names overlap, one *)
(* of them with an underscore; every kind of proposal a tool can make; and  *)
(* one row of each kind that other programs leave behind.                   *)
(***************************************************************************)
EXTENDS Recall

CONSTANTS learning, rule, task, author

Repo == [layer |-> "repo", slug |-> <<"a", "b">>]
Domain == [layer |-> "domain", slug |-> <<"b">>]

MCSlugs == {Repo.slug, Domain.slug}
MCCheckout == Repo.slug
MCPoolOwner == [layer |-> "acme", slug |-> <<>>]

\* A free name, a forged scope mark and a forged field.
MCNotes == {<<"ticket">>, <<"scope", "firm">>, <<"status">>}

MCCalls ==
    [named : SUBSET {Repo, Domain}, firm : BOOLEAN, type : Types, tier : Tiers,
     task : Tasks \cup {None}, author : Authors \cup {None}, confidence : {4, 9},
     notes : {{}, MCNotes}]

MCQueries ==
    [scope : SUBSET {Firm, Repo, Domain} \ {{}}, types : {{}, {rule}},
     tiers : {DefaultTiers, {"episodic"}, {}},
     statuses : {DefaultStatuses, {"active"}, {}}, task : Tasks \cup {None}]

Text == Entry(<<"memory">>, "text")
User(label) == Entry(<<"user", "id">>, label)

\* Rows of the client that spent user_id on the partition, of the editor plugin
\* that knows a repo by its agent, with scope keys but a stray run and values of
\* another release, without a text, under a name that is no slug, and episodic
\* without a task.
MCForeignRows ==
    {Over(Text, User(Repo)),
     Over(Text, Over(User(PoolOwner), Entry(<<"agent", "id">>, Repo.slug))),
     Over(Text, Over(User(PoolOwner),
        Over(Entry(<<"scope", "firm">>, "1"), Over(Entry(<<"scope", "team", "b">>, "1"),
        Over(Entry(<<"run", "id">>, task), Over(Entry(<<"status">>, "active"),
        Over(Entry(<<"type">>, "gossip"), Entry(<<"confidence">>, 12)))))))),
     User(PoolOwner),
     Over(Text, User([layer |-> "domain", slug |-> <<"B", "!">>])),
     Over(Text, Over(User(PoolOwner), Entry(<<"tier">>, "episodic")))}
=============================================================================
