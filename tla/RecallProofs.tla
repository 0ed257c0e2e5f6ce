---------------------------- MODULE RecallProofs ----------------------------
(***************************************************************************)
(* Proofs about mem0's pool: whatever names, notes, proposals, queries and  *)
(* foreign rows there are.                                                  *)
(***************************************************************************)
EXTENDS Recall, TLAPS

-----------------------------------------------------------------------------
(* Rows.                                                                    *)

LEMMA OverAt ==
    ASSUME NEW f, NEW g, NEW k
    PROVE  /\ k \in DOMAIN Over(f, g) <=> k \in DOMAIN f \/ k \in DOMAIN g
           /\ k \in DOMAIN f => Over(f, g)[k] = f[k]
           /\ k \notin DOMAIN f /\ k \in DOMAIN g => Over(f, g)[k] = g[k]
BY DEF Over

LEMMA EntryAt ==
    ASSUME NEW key, NEW value
    PROVE  DOMAIN Entry(key, value) = {key} /\ Entry(key, value)[key] = value
BY DEF Entry

LEMMA OptionalAt ==
    ASSUME NEW key, NEW value
    PROVE  /\ value = None => DOMAIN Optional(key, value) = {}
           /\ value # None => /\ DOMAIN Optional(key, value) = {key}
                              /\ Optional(key, value)[key] = value
<1>1. DOMAIN <<>> = {}
  OBVIOUS
<1>. QED
  BY <1>1, EntryAt DEF Optional

\* The same for one key over the rest of a row.
LEMMA OverEntry ==
    ASSUME NEW key, NEW value, NEW g, NEW k
    PROVE  LET f == Over(Entry(key, value), g)
           IN  /\ k \in DOMAIN f <=> k = key \/ k \in DOMAIN g
               /\ k = key => f[k] = value
               /\ k # key /\ k \in DOMAIN g => f[k] = g[k]
<1>. DEFINE e == Entry(key, value)
<1>1. DOMAIN e = {key} /\ e[key] = value
  BY EntryAt
<1>. HIDE DEF e
<1>2. /\ k \in DOMAIN Over(e, g) <=> k \in DOMAIN e \/ k \in DOMAIN g
      /\ k \in DOMAIN e => Over(e, g)[k] = e[k]
      /\ k \notin DOMAIN e /\ k \in DOMAIN g => Over(e, g)[k] = g[k]
  BY OverAt
<1>. QED
  BY <1>1, <1>2 DEF e

LEMMA OverOptional ==
    ASSUME NEW key, NEW value, NEW g, NEW k
    PROVE  LET f == Over(Optional(key, value), g)
           IN  /\ k \in DOMAIN f <=> (k = key /\ value # None) \/ k \in DOMAIN g
               /\ k = key /\ value # None => f[k] = value
               /\ (k # key \/ value = None) /\ k \in DOMAIN g => f[k] = g[k]
<1>1. CASE value = None
  <2>. DEFINE e == Optional(key, value)
  <2>1. DOMAIN e = {}
    BY <1>1, OptionalAt
  <2>. HIDE DEF e
  <2>2. /\ k \in DOMAIN Over(e, g) <=> k \in DOMAIN e \/ k \in DOMAIN g
        /\ k \notin DOMAIN e /\ k \in DOMAIN g => Over(e, g)[k] = g[k]
    BY OverAt
  <2>. QED
    BY <1>1, <2>1, <2>2 DEF e
<1>2. CASE value # None
  BY <1>2, OverEntry DEF Optional
<1>. QED
  BY <1>1, <1>2

-----------------------------------------------------------------------------
(* Keys.                                                                    *)

\* None of the keys that are written by name looks like a scope, and those of
\* the entities are none of the others.
LEMMA PlainKeys ==
    /\ \A k \in Structural : ~MarksScope(k)
    /\ (FieldKeys \cup OptionalKeys \cup ContentKeys) \cap EntityKeys = {}
    /\ (FieldKeys \cup ContentKeys) \cap OptionalKeys = {}
    /\ FieldKeys \cap ContentKeys = {}
BY DEF Structural, FieldKeys, OptionalKeys, ContentKeys, EntityKeys, MarksScope

\* The key of an atom is a scope key, and the atom is read back from it.
LEMMA AtomKeyReads ==
    ASSUME NEW a \in Atoms
    PROVE  /\ MarksScope(AtomKey(a))
           /\ AtomAt(AtomKey(a)) = a
           /\ Recognised(a)
<1>. DEFINE s == a.slug
            k == <<"scope", a.layer>> \o s
<1>1. /\ a = [layer |-> a.layer, slug |-> s]
      /\ s \in Seq(STRING)
      /\ Recognised(a)
  <2>1. CASE a = Firm
    BY <2>1 DEF Firm, Recognised
  <2>2. CASE a \in [layer : {"domain", "repo"}, slug : Slugs]
    BY <2>2, CanonicalAssumption DEF Recognised
  <2>. QED
    BY <2>1, <2>2 DEF Atoms
<1>2. /\ Len(k) = 2 + Len(s) /\ Len(s) \in Nat
      /\ k[1] = "scope" /\ k[2] = a.layer
      /\ \A i \in 1 .. Len(s) : k[i + 2] = s[i]
  <2>1. /\ k = [i \in 1 .. 2 + Len(s) |-> IF i <= 2 THEN <<"scope", a.layer>>[i] ELSE s[i - 2]]
        /\ Len(s) \in Nat
    BY <1>1
  <2>. HIDE DEF k
  <2>2. k[1] = "scope" /\ k[2] = a.layer
    BY <2>1
  <2>3. ASSUME NEW i \in 1 .. Len(s)
        PROVE  k[i + 2] = s[i]
    <3>1. i + 2 \in 1 .. 2 + Len(s) /\ ~(i + 2 <= 2) /\ (i + 2) - 2 = i
      BY <2>1
    <3>. QED
      BY <2>1, <3>1
  <2>4. Len(k) = 2 + Len(s)
    BY <2>1
  <2>. QED
    BY <2>1, <2>2, <2>3, <2>4
<1>3. SubSeq(k, 3, Len(k)) = s
  <2>1. SubSeq(k, 3, Len(k)) = [i \in 1 .. Len(s) |-> k[i + 2]]
    BY <1>2
  <2>2. s = [i \in 1 .. Len(s) |-> s[i]]
    BY <1>1
  <2>. QED
    BY <1>2, <2>1, <2>2
<1>. QED
  BY <1>1, <1>2, <1>3 DEF MarksScope, AtomAt, AtomKey


-----------------------------------------------------------------------------
(* What is written.                                                         *)

Marks(m) == {AtomKey(a) : a \in m.scope}

\* Metadata of the caller's that is not taken for a scope.
Callers(m) == {n \in m.notes : ~MarksScope(n)}

PayloadFields == {<<"type">>, <<"tier">>, <<"status">>, <<"confidence">>}

\* payload_metadata(): the fields, over the scope's keys, over the caller's.
LEMMA PayloadAt ==
    ASSUME NEW m \in Memory, NEW k
    PROVE  /\ k \in DOMAIN Payload(m) <=>
                \/ k \in PayloadFields \cup Marks(m) \cup Callers(m)
                \/ k = <<"author">> /\ m.author # None
                \/ k = <<"task">> /\ m.task # None
           /\ k = <<"type">> => Payload(m)[k] = m.type
           /\ k = <<"tier">> => Payload(m)[k] = m.tier
           /\ k = <<"status">> => Payload(m)[k] = m.status
           /\ k = <<"confidence">> => Payload(m)[k] = Rounded(m.confidence)
           /\ k = <<"author">> /\ m.author # None => Payload(m)[k] = m.author
           /\ k = <<"task">> /\ m.task # None => Payload(m)[k] = m.task
           /\ k \in Marks(m) => Payload(m)[k] = "1"
<1>. DEFINE callers == [n \in Callers(m) |-> "1"]
            marks == [n \in Marks(m) |-> "1"]
            p1 == Over(marks, callers)
            p2 == Over(Entry(<<"confidence">>, Rounded(m.confidence)), p1)
            p3 == Over(Entry(<<"status">>, m.status), p2)
            p4 == Over(Entry(<<"tier">>, m.tier), p3)
            p5 == Over(Entry(<<"type">>, m.type), p4)
            p6 == Over(Optional(<<"task">>, m.task), p5)
            p7 == Over(Optional(<<"author">>, m.author), p6)
<1>1. Payload(m) = p7
  BY DEF Payload, Marks, Callers
<1>2. /\ k \in Marks(m) => MarksScope(k)
      /\ k \in Callers(m) => k \notin OptionalKeys
  <2>1. m.scope \subseteq Atoms /\ m.notes \subseteq Notes
    BY DEF Memory, Described, Scopes
  <2>. QED
    BY <2>1, AtomKeyReads, RecallAssumption DEF Marks, Callers
<1>3. /\ k \in DOMAIN p1 <=> k \in Marks(m) \cup Callers(m)
      /\ k \in Marks(m) => p1[k] = "1"
  BY OverAt
<1>. HIDE DEF p1
<1>4. /\ k \in DOMAIN p2 <=> k = <<"confidence">> \/ k \in DOMAIN p1
      /\ k = <<"confidence">> => p2[k] = Rounded(m.confidence)
      /\ k # <<"confidence">> /\ k \in DOMAIN p1 => p2[k] = p1[k]
  BY OverEntry
<1>. HIDE DEF p2
<1>5. /\ k \in DOMAIN p3 <=> k = <<"status">> \/ k \in DOMAIN p2
      /\ k = <<"status">> => p3[k] = m.status
      /\ k # <<"status">> /\ k \in DOMAIN p2 => p3[k] = p2[k]
  BY OverEntry
<1>. HIDE DEF p3
<1>6. /\ k \in DOMAIN p4 <=> k = <<"tier">> \/ k \in DOMAIN p3
      /\ k = <<"tier">> => p4[k] = m.tier
      /\ k # <<"tier">> /\ k \in DOMAIN p3 => p4[k] = p3[k]
  BY OverEntry
<1>. HIDE DEF p4
<1>7. /\ k \in DOMAIN p5 <=> k = <<"type">> \/ k \in DOMAIN p4
      /\ k = <<"type">> => p5[k] = m.type
      /\ k # <<"type">> /\ k \in DOMAIN p4 => p5[k] = p4[k]
  BY OverEntry
<1>. HIDE DEF p5
<1>8. /\ k \in DOMAIN p6 <=> (k = <<"task">> /\ m.task # None) \/ k \in DOMAIN p5
      /\ k = <<"task">> /\ m.task # None => p6[k] = m.task
      /\ (k # <<"task">> \/ m.task = None) /\ k \in DOMAIN p5 => p6[k] = p5[k]
  BY OverOptional
<1>. HIDE DEF p6
<1>9. /\ k \in DOMAIN p7 <=> (k = <<"author">> /\ m.author # None) \/ k \in DOMAIN p6
      /\ k = <<"author">> /\ m.author # None => p7[k] = m.author
      /\ (k # <<"author">> \/ m.author = None) /\ k \in DOMAIN p6 => p7[k] = p6[k]
  BY OverOptional
<1>. HIDE DEF p7
<1>10. MarksScope(k) => k \notin PayloadFields \cup OptionalKeys
  BY PlainKeys DEF Structural, FieldKeys, PayloadFields
<1>. QED
  BY <1>1, <1>2, <1>3, <1>4, <1>5, <1>6, <1>7, <1>8, <1>9, <1>10 DEF PayloadFields, OptionalKeys

LEMMA MetadataAt ==
    ASSUME NEW m \in Memory, NEW k
    PROVE  /\ k \in DOMAIN Metadata(m) <=>
                k \in {<<"owner">>, <<"layer">>, <<"memory">>} \cup DOMAIN Payload(m)
           /\ k \in DOMAIN Payload(m) /\ k \notin {<<"owner">>, <<"layer">>} =>
                Metadata(m)[k] = Payload(m)[k]
<1>. DEFINE text == Entry(<<"memory">>, "text")
            rest == Over(Payload(m), text)
            layer == Entry(<<"layer">>, Primary(m.scope).layer)
            owner == Ownership(m)
<1>1. Metadata(m) = Over(owner, rest)
  BY DEF Metadata
<1>2. k \in DOMAIN owner <=> k \in {<<"owner">>, <<"layer">>}
  <2>1. DOMAIN layer = {<<"layer">>}
    BY EntryAt
  <2>2. owner = Over(Entry(<<"owner">>, Primary(m.scope)), layer)
    BY DEF Ownership
  <2>. HIDE DEF layer, owner
  <2>. QED
    BY <2>1, <2>2, OverEntry
<1>3. DOMAIN text = {<<"memory">>}
  BY EntryAt
<1>. HIDE DEF text
<1>4. /\ k \in DOMAIN rest <=> k \in DOMAIN Payload(m) \/ k = <<"memory">>
      /\ k \in DOMAIN Payload(m) => rest[k] = Payload(m)[k]
  BY <1>3, OverAt
<1>. HIDE DEF rest, owner
<1>. QED
  BY <1>1, <1>2, <1>4, OverAt

\* What a row holds that is written for m beside any entity keys.
LEMMA RowAt ==
    ASSUME NEW m \in Memory, NEW E, DOMAIN E \subseteq EntityKeys, NEW k
    PROVE  LET row == Over(E, Metadata(m))
           IN  /\ k \in EntityKeys => (k \in DOMAIN row <=> k \in DOMAIN E)
               /\ k \in DOMAIN E => row[k] = E[k]
               /\ k = <<"memory">> => k \in DOMAIN row
               /\ k \in PayloadFields => k \in DOMAIN row
               /\ k = <<"type">> => row[k] = m.type
               /\ k = <<"tier">> => row[k] = m.tier
               /\ k = <<"status">> => row[k] = m.status
               /\ k = <<"confidence">> => row[k] = Rounded(m.confidence)
               /\ k = <<"author">> => Value(row, k) = m.author
               /\ k = <<"task">> => Value(row, k) = m.task
               /\ k \in DOMAIN row /\ MarksScope(k) <=> k \in Marks(m)
               /\ k \in Marks(m) => row[k] = "1"
               /\ k \in DOMAIN row /\ k \notin Structural /\ ~MarksScope(k) <=>
                    k \in m.notes \ Unkept
<1>. DEFINE row == Over(E, Metadata(m))
<1>1. /\ m.scope \subseteq Atoms /\ m.notes \subseteq Notes
      /\ \A n \in m.notes : n \notin OptionalKeys \cup EntityKeys \cup ContentKeys
  BY RecallAssumption DEF Memory, Described, Scopes
<1>2. k \in Marks(m) => MarksScope(k)
  BY <1>1, AtomKeyReads DEF Marks
<1>3. /\ k \in DOMAIN row <=> k \in DOMAIN E \/ k \in DOMAIN Metadata(m)
      /\ k \in DOMAIN E => row[k] = E[k]
      /\ k \notin DOMAIN E /\ k \in DOMAIN Metadata(m) => row[k] = Metadata(m)[k]
  BY OverAt
<1>. HIDE DEF row
<1>4. k \in Structural => ~MarksScope(k)
  BY PlainKeys
<1>5. k \in EntityKeys => k \notin FieldKeys \cup OptionalKeys \cup ContentKeys
  BY PlainKeys
<1>6. /\ k \in EntityKeys => (k \in DOMAIN row <=> k \in DOMAIN E)
      /\ k \in DOMAIN E => row[k] = E[k]
  <2>1. ASSUME k \in EntityKeys
        PROVE  k \notin DOMAIN Metadata(m)
    <3>1. k \notin Marks(m) /\ k \notin Callers(m)
      BY <1>1, <1>2, <1>4, <2>1 DEF Callers, Structural
    <3>2. k \notin DOMAIN Payload(m)
      BY <3>1, <2>1, <1>5, PayloadAt DEF PayloadFields, FieldKeys, OptionalKeys
    <3>. QED
      BY <3>2, <2>1, <1>5, MetadataAt DEF FieldKeys, ContentKeys
  <2>. QED
    BY <1>3, <2>1
<1>7. k \notin EntityKeys /\ k \notin {<<"owner">>, <<"layer">>} =>
        /\ k \in DOMAIN row <=> k = <<"memory">> \/ k \in DOMAIN Payload(m)
        /\ k \in DOMAIN Payload(m) => row[k] = Payload(m)[k]
  BY <1>3, MetadataAt
<1>8. /\ k = <<"memory">> => k \in DOMAIN row
      /\ k \in PayloadFields => k \in DOMAIN row
      /\ k = <<"type">> => row[k] = m.type
      /\ k = <<"tier">> => row[k] = m.tier
      /\ k = <<"status">> => row[k] = m.status
      /\ k = <<"confidence">> => row[k] = Rounded(m.confidence)
  <2>1. k = <<"memory">> \/ k \in PayloadFields => k \notin EntityKeys \cup {<<"owner">>, <<"layer">>}
    BY DEF PayloadFields, EntityKeys
  <2>. QED
    BY <1>7, <2>1, PayloadAt DEF PayloadFields
<1>9. k \in OptionalKeys =>
        /\ k \in DOMAIN row <=> k \in DOMAIN Payload(m)
        /\ k \in DOMAIN Payload(m) => row[k] = Payload(m)[k]
        /\ k \notin PayloadFields \cup Marks(m) \cup Callers(m)
  <2>1. k \in OptionalKeys => k \notin EntityKeys \cup FieldKeys \cup ContentKeys
    BY PlainKeys
  <2>2. k \in OptionalKeys => k \notin Marks(m) \cup Callers(m)
    BY <1>1, <1>2, <1>4 DEF Callers, Structural
  <2>. QED
    BY <1>7, <2>1, <2>2 DEF FieldKeys, ContentKeys, PayloadFields
<1>10. /\ k = <<"author">> => Value(row, k) = m.author
       /\ k = <<"task">> => Value(row, k) = m.task
  <2>1. <<"author">> # <<"task">> /\ {<<"author">>, <<"task">>} = OptionalKeys
    BY DEF OptionalKeys
  <2>2. ASSUME k = <<"author">>
        PROVE  Value(row, k) = m.author
    <3>1. k \in DOMAIN Payload(m) <=> m.author # None
      BY <1>9, <2>1, <2>2, PayloadAt
    <3>2. m.author # None => Payload(m)[k] = m.author
      BY <2>2, PayloadAt
    <3>. QED
      BY <1>9, <2>1, <2>2, <3>1, <3>2 DEF Value
  <2>3. ASSUME k = <<"task">>
        PROVE  Value(row, k) = m.task
    <3>1. k \in DOMAIN Payload(m) <=> m.task # None
      BY <1>9, <2>1, <2>3, PayloadAt
    <3>2. m.task # None => Payload(m)[k] = m.task
      BY <2>3, PayloadAt
    <3>. QED
      BY <1>9, <2>1, <2>3, <3>1, <3>2 DEF Value
  <2>. QED
    BY <2>2, <2>3
<1>11. k \notin Structural =>
        /\ k \in DOMAIN row <=> k \in Marks(m) \cup Callers(m)
        /\ k \in Marks(m) => row[k] = "1"
  <2>1. k \notin Structural => /\ k \notin EntityKeys \cup PayloadFields \cup OptionalKeys
                               /\ k \notin {<<"owner">>, <<"layer">>, <<"memory">>}
    BY DEF Structural, FieldKeys, ContentKeys, PayloadFields
  <2>. QED
    BY <1>7, <2>1, PayloadAt DEF OptionalKeys
<1>12. /\ k \in DOMAIN row /\ MarksScope(k) <=> k \in Marks(m)
       /\ k \in Marks(m) => row[k] = "1"
  BY <1>2, <1>4, <1>11 DEF Callers
<1>13. k \in DOMAIN row /\ k \notin Structural /\ ~MarksScope(k) <=> k \in m.notes \ Unkept
  <2>1. k \in m.notes \ Unkept <=> k \in m.notes /\ k \notin FieldKeys /\ ~MarksScope(k)
    BY <1>1 DEF Unkept
  <2>2. k \in m.notes => (k \in Structural <=> k \in FieldKeys)
    BY <1>1 DEF Structural
  <2>. QED
    BY <1>2, <1>11, <2>1, <2>2 DEF Callers
<1>. QED
  BY <1>6, <1>8, <1>10, <1>12, <1>13 DEF row

-----------------------------------------------------------------------------
(* What is read back.                                                       *)

LEMMA Divided ==
    ASSUME NEW a \in Nat, NEW b \in Nat \ {0}
    PROVE  /\ a \div b \in Nat
           /\ a = (b * (a \div b)) + (a % b)
           /\ a % b \in Nat /\ a % b < b
OBVIOUS

\* A rounded confidence is a confidence, and at most half a step away.
LEMMA RoundedNear ==
    ASSUME NEW c \in 0 .. Certain
    PROVE  /\ Rounded(c) \in 0 .. Certain
           /\ Rounded(c) - c \in -Slack .. Slack
<1>. DEFINE h == Grain \div 2
            q == (c + h) \div Grain
            n == Certain \div Grain
<1>1. /\ Grain \in Nat /\ h \in Nat /\ Grain = 2 * h + 1
      /\ Certain \in Nat /\ c \in Nat /\ c <= Certain
  BY RecallAssumption, CanonicalAssumption
<1>. HIDE DEF h
<1>2. q \in Nat /\ Grain * q <= c + h /\ c + h < (Grain * q) + Grain
  <2>. DEFINE x == c + h
  <2>1. x \in Nat /\ Grain \in Nat \ {0}
    BY <1>1
  <2>. HIDE DEF x
  <2>2. /\ x \div Grain \in Nat
        /\ x = (Grain * (x \div Grain)) + (x % Grain)
        /\ x % Grain \in Nat /\ x % Grain < Grain
    BY <1>1, <2>1, Divided
  <2>3. Grain * (x \div Grain) \in Int
    BY <1>1, <2>2
  <2>4. /\ Grain * (x \div Grain) <= x
        /\ x < (Grain * (x \div Grain)) + Grain
    BY <1>1, <2>1, <2>2, <2>3
  <2>. QED
    BY <2>2, <2>4 DEF x
<1>3. n \in Nat /\ Certain = Grain * n
  <2>1. Certain % Grain = 0
    BY RecallAssumption
  <2>. QED
    BY <1>1, <2>1, Divided
<1>. HIDE DEF q, n
<1>4. q <= n
  <2>1. SUFFICES ASSUME q >= n + 1 PROVE FALSE
    BY <1>2, <1>3
  <2>2. Grain * q >= Grain * (n + 1)
    BY <1>1, <1>2, <1>3, <2>1
  <2>3. Grain * (n + 1) = Grain * n + Grain
    BY <1>1, <1>3
  <2>. QED
    BY <1>1, <1>2, <1>3, <2>2, <2>3
<1>5. Grain * q \in Nat /\ Grain * q <= Grain * n
  BY <1>1, <1>2, <1>3, <1>4
<1>6. Rounded(c) = Grain * q /\ Slack = h
  BY DEF Rounded, Slack, q, h
<1>. QED
  BY <1>1, <1>2, <1>3, <1>5, <1>6

\* What a memory is read back as: to four decimals, and without metadata named
\* like a scope or a field.
Settled(m) == [m EXCEPT !.confidence = Rounded(@), !.notes = @ \ Unkept]

LEMMA SettledFields ==
    ASSUME NEW m \in Memory
    PROVE  /\ Settled(m) \in Memory
           /\ Settled(m).scope = m.scope /\ Settled(m).type = m.type
           /\ Settled(m).status = m.status /\ Settled(m).tier = m.tier
           /\ Settled(m).task = m.task /\ Settled(m).author = m.author
           /\ Settled(m).confidence = Rounded(m.confidence)
           /\ Settled(m).notes = m.notes \ Unkept
<1>1. Rounded(m.confidence) \in 0 .. Certain
  BY RoundedNear DEF Memory, Described
<1>. QED
  BY <1>1 DEF Settled, Memory, Described, Consistent

LEMMA SameFields ==
    ASSUME NEW m \in Described, NEW n \in Described,
           m.scope = n.scope, m.type = n.type, m.status = n.status, m.tier = n.tier,
           m.task = n.task, m.author = n.author, m.confidence = n.confidence,
           m.notes = n.notes
    PROVE  m = n
BY DEF Described

\* The scope of a row is read from its marks alone.
LEMMA ReadsScope ==
    ASSUME NEW m \in Memory, NEW E, DOMAIN E \subseteq EntityKeys
    PROVE  ScopeOfRow(Over(E, Metadata(m))) = m.scope
<1>. DEFINE row == Over(E, Metadata(m))
            marked == {AtomAt(k) : k \in {k \in DOMAIN row : MarksScope(k)}}
<1>1. m.scope \subseteq Atoms /\ m.scope # {}
  BY DEF Memory, Described, Scopes
<1>2. {k \in DOMAIN row : MarksScope(k)} = Marks(m)
  BY RowAt
<1>. HIDE DEF row
<1>3. marked = m.scope
  <2>1. marked = {AtomAt(k) : k \in Marks(m)}
    BY <1>2
  <2>2. \A k \in Marks(m) : AtomAt(k) \in m.scope
    BY <1>1, AtomKeyReads DEF Marks
  <2>3. \A a \in m.scope : AtomKey(a) \in Marks(m) /\ AtomAt(AtomKey(a)) = a
    BY <1>1, AtomKeyReads DEF Marks
  <2>. QED
    BY <2>1, <2>2, <2>3
<1>4. \A a \in marked : Recognised(a)
  BY <1>1, <1>3, AtomKeyReads
<1>5. {a \in marked : Recognised(a)} = m.scope
  BY <1>3, <1>4
<1>6. ScopeOfRow(row) = m.scope
  BY <1>1, <1>5 DEF ScopeOfRow
<1>. QED
  BY <1>6 DEF row

\* A memory that is written is read back as it was, settled, beside whatever
\* entity keys, unless they name another run.
LEMMA ReadsBack ==
    ASSUME NEW m \in Memory, NEW E, DOMAIN E \subseteq EntityKeys,
           m.tier = "episodic" => Value(E, <<"run", "id">>) \in {m.task, None}
    PROVE  ToMemory(Over(E, Metadata(m))) = Settled(m)
<1>. DEFINE row == Over(E, Metadata(m))
            tier == OneOf(Value(row, <<"tier">>), Tiers, "durable")
            read == [scope      |-> ScopeOfRow(row),
                     type       |-> OneOf(Value(row, <<"type">>), Types, DefaultType),
                     status     |-> OneOf(Value(row, <<"status">>), Status, "active"),
                     tier       |-> tier,
                     task       |-> IF tier = "episodic" THEN TaskOfRow(row) ELSE None,
                     author     |-> Value(row, <<"author">>),
                     confidence |-> ConfidenceOf(row),
                     notes      |-> {k \in DOMAIN row : k \notin Structural /\ ~MarksScope(k)}]
<1>1. ToMemory(row) = IF <<"memory">> \in DOMAIN row /\ read.scope \subseteq Atoms /\ Consistent(read)
                      THEN read ELSE None
  BY DEF ToMemory
<1>2. read.scope = m.scope
  BY ReadsScope
<1>3. /\ Value(row, <<"tier">>) = m.tier
      /\ Value(row, <<"type">>) = m.type
      /\ Value(row, <<"status">>) = m.status
      /\ Value(row, <<"confidence">>) = Rounded(m.confidence)
  BY RowAt DEF Value, PayloadFields
<1>4. Value(row, <<"author">>) = m.author /\ Value(row, <<"task">>) = m.task
  BY RowAt
<1>5. Value(row, <<"run", "id">>) = Value(E, <<"run", "id">>)
  BY RowAt DEF Value, EntityKeys
<1>6. read.notes = m.notes \ Unkept
  BY RowAt
<1>7. <<"memory">> \in DOMAIN row
  BY RowAt
<1>. HIDE DEF row
<1>8. tier = m.tier
  BY <1>3 DEF OneOf, Memory, Described
<1>9. read.type = m.type /\ read.status = m.status
  BY <1>3 DEF OneOf, Memory, Described
<1>10. read.confidence = Rounded(m.confidence)
  <2>1. Rounded(m.confidence) \in 0 .. Certain
    BY RoundedNear DEF Memory, Described
  <2>. QED
    BY <1>3, <2>1, CanonicalAssumption DEF ConfidenceOf
<1>11. read.task = m.task
  <2>1. CASE m.tier = "episodic"
    <3>1. Value(row, <<"run", "id">>) = m.task \/ Value(row, <<"run", "id">>) = None
      BY <1>5, <2>1
    <3>2. TaskOfRow(row) = m.task
      <4>1. CASE Value(row, <<"run", "id">>) = None
        BY <1>4, <4>1 DEF TaskOfRow
      <4>2. CASE Value(row, <<"run", "id">>) # None
        <5>1. Value(row, <<"run", "id">>) = row[<<"run", "id">>]
          BY <4>2 DEF Value
        <5>. QED
          BY <3>1, <4>2, <5>1 DEF TaskOfRow
      <4>. QED
        BY <4>1, <4>2
    <3>. QED
      BY <1>8, <2>1, <3>2
  <2>2. CASE m.tier # "episodic"
    BY <1>8, <2>2 DEF Memory, Consistent
  <2>. QED
    BY <2>1, <2>2
<1>12. read = Settled(m)
  <2>1. read.tier = m.tier /\ read.author = m.author
    BY <1>4, <1>8
  <2>2. read \in Described
    <3>1. /\ m \in Described
          /\ Rounded(m.confidence) \in 0 .. Certain /\ m.notes \ Unkept \in SUBSET Notes
      BY SettledFields, RoundedNear DEF Memory, Described
    <3>. QED
      BY <1>2, <1>6, <1>9, <1>10, <1>11, <2>1, <3>1 DEF Described
  <2>. HIDE DEF read
  <2>3. Settled(m) \in Described
    BY SettledFields DEF Memory
  <2>. DEFINE n == Settled(m)
  <2>4. /\ read.scope = n.scope /\ read.type = n.type /\ read.status = n.status
        /\ read.tier = n.tier /\ read.task = n.task /\ read.author = n.author
        /\ read.confidence = n.confidence /\ read.notes = n.notes
    BY <1>2, <1>6, <1>9, <1>10, <1>11, <2>1, SettledFields
  <2>. HIDE DEF n
  <2>. QED
    BY <2>2, <2>3, <2>4, SameFields DEF n
<1>. HIDE DEF read
<1>13. read.scope \subseteq Atoms /\ Consistent(read)
  BY <1>12, SettledFields DEF Memory, Described, Scopes
<1>14. ToMemory(row) = Settled(m)
  BY <1>1, <1>7, <1>12, <1>13
<1>. QED
  BY <1>14 DEF row

\* What other programs have left reads as a memory or as nothing.
LEMMA ForeignReads ==
    ASSUME NEW row \in ForeignRows
    PROVE  ToMemory(row) \in Memory \cup {None}
<1>. DEFINE tier == OneOf(Value(row, <<"tier">>), Tiers, "durable")
            read == [scope      |-> ScopeOfRow(row),
                     type       |-> OneOf(Value(row, <<"type">>), Types, DefaultType),
                     status     |-> OneOf(Value(row, <<"status">>), Status, "active"),
                     tier       |-> tier,
                     task       |-> IF tier = "episodic" THEN TaskOfRow(row) ELSE None,
                     author     |-> Value(row, <<"author">>),
                     confidence |-> ConfidenceOf(row),
                     notes      |-> {k \in DOMAIN row : k \notin Structural /\ ~MarksScope(k)}]
<1>1. ToMemory(row) = IF <<"memory">> \in DOMAIN row /\ read.scope \subseteq Atoms /\ Consistent(read)
                      THEN read ELSE None
  BY DEF ToMemory
<1>2. read.scope # {}
  BY DEF ScopeOfRow, LegacyScope
<1>3. /\ read.type \in Types
      /\ read.status \in Status
      /\ read.tier \in Tiers
  BY RecallAssumption DEF OneOf, Status, Tiers
<1>4. Value(row, <<"task">>) \in Tasks \cup {None} /\ Value(row, <<"run", "id">>) \in Tasks \cup {None}
  BY RecallAssumption DEF Value
<1>5. read.task \in Tasks \cup {None}
  <2>1. TaskOfRow(row) \in Tasks \cup {None}
    <3>1. CASE Value(row, <<"run", "id">>) = None
      BY <1>4, <3>1 DEF TaskOfRow
    <3>2. CASE Value(row, <<"run", "id">>) # None
      <4>1. Value(row, <<"run", "id">>) = row[<<"run", "id">>]
        BY <3>2 DEF Value
      <4>. QED
        BY <1>4, <3>2, <4>1 DEF TaskOfRow
    <3>. QED
      BY <3>1, <3>2
  <2>. QED
    BY <2>1
<1>6. read.author \in Authors \cup {None}
  BY RecallAssumption DEF Value
<1>7. read.confidence \in 0 .. Certain
  <2>1. Middle \in 0 .. Certain /\ Certain \in Nat
    BY RecallAssumption, CanonicalAssumption
  <2>2. CASE Value(row, <<"confidence">>) = None
    BY <2>1, <2>2 DEF ConfidenceOf
  <2>3. CASE Value(row, <<"confidence">>) # None
    <3>1. Value(row, <<"confidence">>) \in Int
      BY <2>3, RecallAssumption DEF Value
    <3>. QED
      BY <2>1, <2>3, <3>1 DEF ConfidenceOf
  <2>. QED
    BY <2>2, <2>3
<1>8. read.notes \subseteq Notes
  BY RecallAssumption
<1>9. read.scope \subseteq Atoms => read \in Described
  BY <1>2, <1>3, <1>5, <1>6, <1>7, <1>8 DEF Described, Scopes
<1>. HIDE DEF read
<1>. QED
  BY <1>1, <1>9 DEF Memory

\* An episodic memory is read with the task of its row.
LEMMA ReadTask ==
    ASSUME NEW row, ToMemory(row) # None, ToMemory(row).tier = "episodic"
    PROVE  ToMemory(row).task = TaskOfRow(row)
BY DEF ToMemory

-----------------------------------------------------------------------------
(* Entities.                                                                *)

LEMMA EntitiesAt ==
    ASSUME NEW m \in Memory, NEW k
    PROVE  /\ k \in DOMAIN Entities(m) <=>
                \/ k = <<"user", "id">>
                \/ k = <<"agent", "id">> /\ Primary(m.scope).layer = "repo"
                \/ k = <<"run", "id">> /\ m.tier = "episodic"
           /\ k = <<"user", "id">> => Entities(m)[k] = PoolOwner
           /\ k = <<"run", "id">> /\ m.tier = "episodic" => Entities(m)[k] = m.task
<1>. DEFINE agent == IF Primary(m.scope).layer = "repo"
                     THEN Entry(<<"agent", "id">>, Primary(m.scope).slug) ELSE <<>>
            run == IF m.tier = "episodic" THEN Entry(<<"run", "id">>, m.task) ELSE <<>>
            rest == Over(agent, run)
<1>1. Entities(m) = Over(Entry(<<"user", "id">>, PoolOwner), rest)
  BY DEF Entities
<1>2. DOMAIN <<>> = {}
  OBVIOUS
<1>3. DOMAIN agent = IF Primary(m.scope).layer = "repo" THEN {<<"agent", "id">>} ELSE {}
  BY <1>2, EntryAt
<1>4. /\ DOMAIN run = IF m.tier = "episodic" THEN {<<"run", "id">>} ELSE {}
      /\ m.tier = "episodic" => run[<<"run", "id">>] = m.task
  BY <1>2, EntryAt
<1>. HIDE DEF agent, run
<1>5. /\ k \in DOMAIN rest <=> k \in DOMAIN agent \/ k \in DOMAIN run
      /\ k \notin DOMAIN agent /\ k \in DOMAIN run => rest[k] = run[k]
  BY OverAt
<1>. HIDE DEF rest
<1>6. /\ k \in DOMAIN Entities(m) <=> k = <<"user", "id">> \/ k \in DOMAIN rest
      /\ k = <<"user", "id">> => Entities(m)[k] = PoolOwner
      /\ k # <<"user", "id">> /\ k \in DOMAIN rest => Entities(m)[k] = rest[k]
  BY <1>1, OverEntry
<1>. QED
  BY <1>3, <1>4, <1>5, <1>6

LEMMA EntitiesKeys ==
    ASSUME NEW m \in Memory
    PROVE  /\ DOMAIN Entities(m) \subseteq EntityKeys
           /\ Entities(m) = [k \in DOMAIN Entities(m) |-> Entities(m)[k]]
           /\ Value(Entities(m), <<"user", "id">>) = PoolOwner
           /\ Value(Entities(m), <<"run", "id">>) = IF m.tier = "episodic" THEN m.task ELSE None
<1>1. Entities(m) = [k \in DOMAIN Entities(m) |-> Entities(m)[k]]
  BY DEF Entities, Over
<1>2. DOMAIN Entities(m) \subseteq EntityKeys
  BY EntitiesAt DEF EntityKeys
<1>3. Value(Entities(m), <<"user", "id">>) = PoolOwner
  BY EntitiesAt DEF Value
<1>4. Value(Entities(m), <<"run", "id">>) = IF m.tier = "episodic" THEN m.task ELSE None
  BY EntitiesAt DEF Value
<1>. QED
  BY <1>1, <1>2, <1>3, <1>4

\* mem0 keeps the entity keys of a row this provider wrote as they are.
LEMMA EntitiesStay ==
    ASSUME NEW m \in Memory
    PROVE  EntitiesKept(Over(Entities(m), Metadata(m))) = Entities(m)
<1>. DEFINE E == Entities(m)
            row == Over(E, Metadata(m))
<1>1. DOMAIN E \subseteq EntityKeys /\ E = [k \in DOMAIN E |-> E[k]]
  BY EntitiesKeys
<1>. HIDE DEF E
<1>2. \A k \in EntityKeys : k \in DOMAIN row <=> k \in DOMAIN E
  BY <1>1, RowAt
<1>3. \A k \in DOMAIN E : row[k] = E[k]
  BY <1>1, RowAt
<1>. HIDE DEF row
<1>4. DOMAIN row \cap EntityKeys = DOMAIN E
  BY <1>1, <1>2
<1>5. EntitiesKept(row) = E
  BY <1>1, <1>3, <1>4 DEF EntitiesKept
<1>. QED
  BY <1>5 DEF row, E

-----------------------------------------------------------------------------
(* What is found.                                                           *)

LEMMA SatisfiesOver ==
    ASSUME NEW row, NEW f, NEW g, DOMAIN f \cap DOMAIN g = {}
    PROVE  Satisfies(row, Over(f, g)) <=> Satisfies(row, f) /\ Satisfies(row, g)
BY DEF Satisfies, Over

LEMMA SatisfiesCondition ==
    ASSUME NEW row, NEW key, NEW values
    PROVE  Satisfies(row, Condition(key, values)) <=>
                (values # {} => key \in DOMAIN row /\ row[key] \in values)
<1>1. DOMAIN <<>> = {}
  OBVIOUS
<1>. QED
  BY <1>1 DEF Satisfies, Condition

LEMMA ConditionDomain ==
    ASSUME NEW key, NEW values
    PROVE  DOMAIN Condition(key, values) \subseteq {key}
<1>1. DOMAIN <<>> = {}
  OBVIOUS
<1>. QED
  BY <1>1 DEF Condition

LEMMA OverDomain ==
    ASSUME NEW f, NEW g
    PROVE  DOMAIN Over(f, g) = DOMAIN f \cup DOMAIN g
BY DEF Over

\* A row satisfies the branch of an atom if it has the atom's key and meets the
\* four conditions.
LEMMA BranchMeans ==
    ASSUME NEW q \in Query, NEW a \in Atoms, NEW row
    PROVE  Satisfies(row, Over(Entry(AtomKey(a), {"1"}), Common(q))) <=>
            /\ AtomKey(a) \in DOMAIN row /\ row[AtomKey(a)] = "1"
            /\ q.types # {} => <<"type">> \in DOMAIN row /\ row[<<"type">>] \in q.types
            /\ q.tiers # {} => <<"tier">> \in DOMAIN row /\ row[<<"tier">>] \in q.tiers
            /\ q.statuses # {} => <<"status">> \in DOMAIN row /\ row[<<"status">>] \in q.statuses
            /\ q.task # None => /\ <<"run", "id">> \in DOMAIN row
                                /\ row[<<"run", "id">>] = q.task
<1>. DEFINE mark == Entry(AtomKey(a), {"1"})
            types == Condition(<<"type">>, q.types)
            tiers == Condition(<<"tier">>, q.tiers)
            statuses == Condition(<<"status">>, q.statuses)
            task == Condition(<<"run", "id">>, {q.task} \ {None})
            late == Over(statuses, task)
            later == Over(tiers, late)
            common == Over(types, later)
<1>1. Common(q) = common
  BY DEF Common
<1>2. /\ DOMAIN mark = {AtomKey(a)}
      /\ Satisfies(row, mark) <=> AtomKey(a) \in DOMAIN row /\ row[AtomKey(a)] = "1"
  <2>1. DOMAIN mark = {AtomKey(a)} /\ mark[AtomKey(a)] = {"1"}
    BY EntryAt
  <2>. HIDE DEF mark
  <2>. QED
    BY <2>1 DEF Satisfies
<1>3. /\ DOMAIN types \subseteq {<<"type">>}
      /\ Satisfies(row, types) <=>
            (q.types # {} => <<"type">> \in DOMAIN row /\ row[<<"type">>] \in q.types)
  <2>1. DOMAIN types \subseteq {<<"type">>}
    BY ConditionDomain
  <2>2. Satisfies(row, types) <=>
            (q.types # {} => <<"type">> \in DOMAIN row /\ row[<<"type">>] \in q.types)
    BY SatisfiesCondition
  <2>. HIDE DEF types
  <2>. QED
    BY <2>1, <2>2
<1>4. /\ DOMAIN tiers \subseteq {<<"tier">>}
      /\ Satisfies(row, tiers) <=>
            (q.tiers # {} => <<"tier">> \in DOMAIN row /\ row[<<"tier">>] \in q.tiers)
  <2>1. DOMAIN tiers \subseteq {<<"tier">>}
    BY ConditionDomain
  <2>2. Satisfies(row, tiers) <=>
            (q.tiers # {} => <<"tier">> \in DOMAIN row /\ row[<<"tier">>] \in q.tiers)
    BY SatisfiesCondition
  <2>. HIDE DEF tiers
  <2>. QED
    BY <2>1, <2>2
<1>5. /\ DOMAIN statuses \subseteq {<<"status">>}
      /\ Satisfies(row, statuses) <=>
            (q.statuses # {} => <<"status">> \in DOMAIN row /\ row[<<"status">>] \in q.statuses)
  <2>1. DOMAIN statuses \subseteq {<<"status">>}
    BY ConditionDomain
  <2>2. Satisfies(row, statuses) <=>
            (q.statuses # {} => <<"status">> \in DOMAIN row /\ row[<<"status">>] \in q.statuses)
    BY SatisfiesCondition
  <2>. HIDE DEF statuses
  <2>. QED
    BY <2>1, <2>2
<1>6. /\ DOMAIN task \subseteq {<<"run", "id">>}
      /\ Satisfies(row, task) <=>
            (q.task # None => /\ <<"run", "id">> \in DOMAIN row
                              /\ row[<<"run", "id">>] = q.task)
  <2>1. {q.task} \ {None} = IF q.task = None THEN {} ELSE {q.task}
    OBVIOUS
  <2>. QED
    BY <2>1, ConditionDomain, SatisfiesCondition
<1>. HIDE DEF mark, types, tiers, statuses, task
<1>7. /\ DOMAIN late \subseteq {<<"status">>, <<"run", "id">>}
      /\ Satisfies(row, late) <=> Satisfies(row, statuses) /\ Satisfies(row, task)
  <2>1. <<"status">> # <<"run", "id">>
    OBVIOUS
  <2>2. DOMAIN statuses \cap DOMAIN task = {}
    BY <1>5, <1>6, <2>1
  <2>. QED
    BY <1>5, <1>6, <2>2, OverDomain, SatisfiesOver
<1>. HIDE DEF late
<1>8. /\ DOMAIN later \subseteq {<<"tier">>, <<"status">>, <<"run", "id">>}
      /\ Satisfies(row, later) <=> Satisfies(row, tiers) /\ Satisfies(row, late)
  <2>1. <<"tier">> \notin {<<"status">>, <<"run", "id">>}
    OBVIOUS
  <2>2. DOMAIN tiers \cap DOMAIN late = {}
    BY <1>4, <1>7, <2>1
  <2>. QED
    BY <1>4, <1>7, <2>2, OverDomain, SatisfiesOver
<1>. HIDE DEF later
<1>9. /\ DOMAIN common \subseteq {<<"type">>, <<"tier">>, <<"status">>, <<"run", "id">>}
      /\ Satisfies(row, common) <=> Satisfies(row, types) /\ Satisfies(row, later)
  <2>1. <<"type">> \notin {<<"tier">>, <<"status">>, <<"run", "id">>}
    OBVIOUS
  <2>2. DOMAIN types \cap DOMAIN later = {}
    BY <1>3, <1>8, <2>1
  <2>. QED
    BY <1>3, <1>8, <2>2, OverDomain, SatisfiesOver
<1>. HIDE DEF common
<1>10. Satisfies(row, Over(mark, common)) <=> Satisfies(row, mark) /\ Satisfies(row, common)
  <2>1. AtomKey(a) \notin {<<"type">>, <<"tier">>, <<"status">>, <<"run", "id">>}
    BY AtomKeyReads, PlainKeys DEF Structural, FieldKeys, EntityKeys
  <2>2. DOMAIN mark \cap DOMAIN common = {}
    BY <1>2, <1>9, <2>1
  <2>. QED
    BY <2>2, SatisfiesOver
<1>. QED
  BY <1>1, <1>2, <1>3, <1>4, <1>5, <1>6, <1>7, <1>8, <1>9, <1>10 DEF mark

\* A search finds a row this provider wrote exactly if it selects its memory.
LEMMA FindsOwn ==
    ASSUME NEW q \in Query, NEW m \in Memory
    PROVE  Finds(q, Over(Entities(m), Metadata(m))) <=> Selects(q, m)
<1>. DEFINE row == Over(Entities(m), Metadata(m))
<1>1. /\ q.scope \subseteq Atoms /\ m.scope \subseteq Atoms
      /\ q.task \in Tasks \cup {None}
      /\ m.tier = "episodic" <=> m.task # None
  BY DEF Query, Memory, Described, Scopes, Consistent
<1>2. DOMAIN Entities(m) \subseteq EntityKeys
  BY EntitiesKeys
<1>3. /\ <<"type">> \in DOMAIN row /\ row[<<"type">>] = m.type
      /\ <<"tier">> \in DOMAIN row /\ row[<<"tier">>] = m.tier
      /\ <<"status">> \in DOMAIN row /\ row[<<"status">>] = m.status
  BY <1>2, RowAt DEF PayloadFields
<1>4. Value(row, <<"user", "id">>) = PoolOwner
  <2>1. <<"user", "id">> \in DOMAIN Entities(m) /\ Entities(m)[<<"user", "id">>] = PoolOwner
    BY EntitiesAt
  <2>. QED
    BY <1>2, <2>1, RowAt DEF Value
<1>5. /\ <<"run", "id">> \in DOMAIN row <=> m.tier = "episodic"
      /\ m.tier = "episodic" => row[<<"run", "id">>] = m.task
  <2>1. /\ <<"run", "id">> \in DOMAIN Entities(m) <=> m.tier = "episodic"
        /\ m.tier = "episodic" => Entities(m)[<<"run", "id">>] = m.task
    BY EntitiesAt
  <2>. QED
    BY <1>2, <2>1, RowAt DEF EntityKeys
<1>6. \A a \in Atoms : (AtomKey(a) \in DOMAIN row /\ row[AtomKey(a)] = "1") <=> a \in m.scope
  <2>. TAKE a \in Atoms
  <2>1. MarksScope(AtomKey(a)) /\ AtomAt(AtomKey(a)) = a
    BY AtomKeyReads
  <2>2. AtomKey(a) \in Marks(m) <=> a \in m.scope
    BY <1>1, <2>1, AtomKeyReads DEF Marks
  <2>. QED
    BY <1>2, <2>1, <2>2, RowAt
<1>. HIDE DEF row
<1>7. ASSUME NEW a \in q.scope
      PROVE  Satisfies(row, Over(Entry(AtomKey(a), {"1"}), Common(q))) <=>
                /\ a \in m.scope
                /\ q.tiers # {} => m.tier \in q.tiers
                /\ q.statuses # {} => m.status \in q.statuses
                /\ q.types # {} => m.type \in q.types
                /\ q.task # None => m.task = q.task
  <2>1. a \in Atoms
    BY <1>1
  <2>2. ASSUME q.task # None
        PROVE  (<<"run", "id">> \in DOMAIN row /\ row[<<"run", "id">>] = q.task)
                    <=> m.task = q.task
    BY <1>1, <1>5, <2>2
  <2>. QED
    BY <1>3, <1>6, <2>1, <2>2, BranchMeans
<1>8. Finds(q, row) <=> \E a \in q.scope : Satisfies(row, Over(Entry(AtomKey(a), {"1"}), Common(q)))
  BY <1>4 DEF Finds, Branches
<1>9. Finds(q, row) <=> Selects(q, m)
  BY <1>7, <1>8 DEF Selects, Overlap
<1>. QED
  BY <1>9 DEF row

\* A search for no task that finds a row, whoever wrote it, selects the memory
\* read from it.
LEMMA FindsOnlySelected ==
    ASSUME NEW q \in Query, q.task = None, NEW row, Finds(q, row), ToMemory(row) # None
    PROVE  Selects(q, ToMemory(row))
<1>. DEFINE m == ToMemory(row)
<1>1. /\ m.scope = ScopeOfRow(row)
      /\ m.type = OneOf(Value(row, <<"type">>), Types, DefaultType)
      /\ m.status = OneOf(Value(row, <<"status">>), Status, "active")
      /\ m.tier = OneOf(Value(row, <<"tier">>), Tiers, "durable")
  BY DEF ToMemory
<1>. HIDE DEF m
<1>2. q.scope \subseteq Atoms /\ q.types \subseteq Types /\ q.tiers \subseteq Tiers
        /\ q.statuses \subseteq Status
  BY DEF Query, Scopes
<1>3. PICK a \in q.scope : Satisfies(row, Over(Entry(AtomKey(a), {"1"}), Common(q)))
  BY DEF Finds, Branches
<1>4. /\ AtomKey(a) \in DOMAIN row
      /\ q.types # {} => <<"type">> \in DOMAIN row /\ row[<<"type">>] \in q.types
      /\ q.tiers # {} => <<"tier">> \in DOMAIN row /\ row[<<"tier">>] \in q.tiers
      /\ q.statuses # {} => <<"status">> \in DOMAIN row /\ row[<<"status">>] \in q.statuses
  BY <1>2, <1>3, BranchMeans
<1>5. a \in m.scope
  <2>1. MarksScope(AtomKey(a)) /\ AtomAt(AtomKey(a)) = a /\ Recognised(a)
    BY <1>2, AtomKeyReads
  <2>2. AtomKey(a) \in {k \in DOMAIN row : MarksScope(k)}
    BY <1>4, <2>1
  <2>3. a \in {AtomAt(k) : k \in {k \in DOMAIN row : MarksScope(k)}}
    BY <2>1, <2>2
  <2>. QED
    BY <1>1, <2>1, <2>3 DEF ScopeOfRow
<1>6. /\ q.types # {} => m.type \in q.types
      /\ q.tiers # {} => m.tier \in q.tiers
      /\ q.statuses # {} => m.status \in q.statuses
  BY <1>1, <1>2, <1>4 DEF OneOf, Value
<1>7. Selects(q, m)
  BY <1>5, <1>6 DEF Selects, Overlap
<1>. QED
  BY <1>7 DEF m

-----------------------------------------------------------------------------
(* The inductive invariant.                                                 *)

LEMMA PoolShape ==
    ASSUME RecallInv
    PROVE  /\ Len(records) \in Nat /\ DOMAIN records = 1 .. Len(records)
           /\ DOMAIN Pool = 1 .. Len(records) /\ DOMAIN given = 1 .. Len(records)
           /\ Own = 2 .. Len(records)
           /\ \A i \in DOMAIN records : Pool[i] = ToMemory(records[i])
           /\ \A i \in DOMAIN records : Pool[i] \in Memory \cup {None}
<1>1. Len(records) \in Nat /\ DOMAIN records = 1 .. Len(records)
  BY DEF RecallInv
<1>2. DOMAIN Pool = DOMAIN records /\ \A i \in DOMAIN records : Pool[i] = ToMemory(records[i])
  BY DEF Pool
<1>3. Own = 2 .. Len(records)
  BY <1>1 DEF Own, RecallInv, TypeOK
<1>4. \A i \in DOMAIN records : Pool[i] \in Memory \cup {None}
  <2>1. Pool \in Seq(Memory \cup {None})
    BY DEF RecallInv, TypeOK
  <2>. HIDE DEF Pool
  <2>. QED
    BY <1>2, <2>1
<1>5. DOMAIN given = 1 .. Len(records)
  BY DEF RecallInv, TypeOK
<1>. QED
  BY <1>1, <1>2, <1>3, <1>4, <1>5

\* A row of this provider reads as the memory it was last handed, settled.
LEMMA OwnRow ==
    ASSUME RecallInv, NEW i \in Own
    PROVE  /\ given[i] \in Memory
           /\ records[i] = Over(Entities(given[i]), Metadata(given[i]))
           /\ ToMemory(records[i]) = Settled(given[i])
           /\ Pool[i] = Settled(given[i])
<1>1. i \in DOMAIN records /\ i \in DOMAIN given
  BY PoolShape
<1>2. /\ given[i] # None
      /\ records[i] = Over(Entities(given[i]), Metadata(given[i]))
      /\ given \in Seq(Memory \cup {None})
  BY DEF RecallInv, TypeOK
<1>3. given[i] \in Memory
  BY <1>1, <1>2
<1>4. ToMemory(records[i]) = Settled(given[i])
  BY <1>2, <1>3, EntitiesKeys, ReadsBack
<1>. QED
  BY <1>1, <1>2, <1>3, <1>4, PoolShape

LEMMA InitInv == Init => RecallInv
<1>. SUFFICES ASSUME Init PROVE RecallInv
  OBVIOUS
<1>1. PICK row \in ForeignRows : records = <<row>>
  BY DEF Init
<1>2. ToMemory(row) \in Memory \cup {None}
  BY ForeignReads
<1>3. Pool = <<ToMemory(row)>>
  BY <1>1 DEF Pool
<1>4. Pool \in Seq(Memory \cup {None}) /\ Len(Pool) = 1
  BY <1>2, <1>3
<1>5. Len(records) = 1 /\ DOMAIN records = {1} /\ records[1] = row
  BY <1>1
<1>6. records \in Seq({records[i] : i \in DOMAIN records})
  BY <1>1, <1>5
<1>7. Own = {}
  BY <1>5 DEF Own, Init
<1>8. Len(records) \in 1 .. MaxPool
  BY <1>5, RecallAssumption
<1>9. given = Pool /\ foreign = 1
  BY DEF Init
<1>. HIDE DEF Pool
<1>. QED
  BY <1>4, <1>5, <1>6, <1>7, <1>8, <1>9 DEF RecallInv, TypeOK

\* What WriteScope() answers is a scope.
LEMMA WriteScopeType ==
    ASSUME NEW named \in SUBSET (Atoms \ {Firm}), NEW firm \in BOOLEAN
    PROVE  WriteScope(named, firm) \in Scopes
<1>1. Firm \in Atoms
  BY DEF Atoms
<1>2. Home \subseteq Atoms /\ Firm \in Home
  BY RecallAssumption DEF Home, Atoms
<1>. QED
  BY <1>1, <1>2 DEF WriteScope, Scopes

\* An accepted proposal is an active memory.
LEMMA ApprovedType ==
    ASSUME NEW call \in Calls, Consistent(Approved(call))
    PROVE  Approved(call) \in Memory /\ Approved(call).status = "active"
<1>1. call \in Proposal
  BY RecallAssumption
<1>2. WriteScope(call.named, call.firm) \in Scopes
  BY <1>1, WriteScopeType DEF Proposal
<1>3. Approved(call) \in Described /\ Approved(call).status = "active"
  BY <1>1, <1>2 DEF Approved, Described, Proposal, Status
<1>. QED
  BY <1>3 DEF Memory

LEMMA DisputedType ==
    ASSUME NEW m \in Memory
    PROVE  /\ Disputed(m) \in Memory
           /\ Disputed(m).status = "disputed"
           /\ Disputed(m).scope = m.scope /\ Disputed(m).tier = m.tier
           /\ Disputed(m).task = m.task
<1>1. (IF m.confidence < Penalty THEN 0 ELSE m.confidence - Penalty) \in 0 .. Certain
  BY CanonicalAssumption DEF Memory, Described
<1>. QED
  BY <1>1 DEF Disputed, Memory, Described, Consistent, Status

LEMMA Appended ==
    ASSUME NEW S, NEW s \in Seq(S), NEW x
    PROVE  Append(s, x) = [i \in 1 .. Len(s) + 1 |-> IF i = Len(s) + 1 THEN x ELSE s[i]]
<1>. DEFINE r == Append(s, x)
<1>1. /\ Len(s) \in Nat /\ DOMAIN r = 1 .. Len(s) + 1
      /\ r[Len(s) + 1] = x /\ \A i \in 1 .. Len(s) : r[i] = s[i]
      /\ r \in Seq(S \cup {x})
  OBVIOUS
<1>. HIDE DEF r
<1>2. r = [i \in 1 .. Len(s) + 1 |-> r[i]]
  BY <1>1
<1>3. \A i \in 1 .. Len(s) + 1 : r[i] = IF i = Len(s) + 1 THEN x ELSE s[i]
  BY <1>1
<1>4. r = [i \in 1 .. Len(s) + 1 |-> IF i = Len(s) + 1 THEN x ELSE s[i]]
  BY <1>1, <1>2, <1>3
<1>. QED
  BY <1>4 DEF r

LEMMA Prefixed ==
    ASSUME NEW S, NEW s \in Seq(S), NEW x
    PROVE  /\ Len(Append(s, x)) = Len(s) + 1
           /\ Append(s, x)[Len(s) + 1] = x
           /\ SubSeq(Append(s, x), 1, Len(s)) = s
OBVIOUS

\* What insert() adds, and nothing else.
LEMMA Inserted ==
    ASSUME RecallInv, NEW call \in Calls, Insert(call)
    PROVE  LET m == Approved(call) IN
           /\ m \in Memory /\ m.status = "active"
           /\ records' = Append(records, Over(Entities(m), Metadata(m)))
           /\ given' = Append(given, m)
           /\ Pool' = Append(Pool, Settled(m))
           /\ Len(records') = Len(records) + 1
<1>. DEFINE m == Approved(call)
            row == Over(Entities(m), Metadata(m))
            n == Len(records)
<1>1. m \in Memory /\ m.status = "active"
  BY ApprovedType DEF Insert
<1>2. records' = Append(records, row) /\ given' = Append(given, m)
  BY DEF Insert
<1>3. ToMemory(row) = Settled(m)
  BY <1>1, EntitiesKeys, ReadsBack
<1>4. n \in Nat /\ DOMAIN records = 1 .. n
  BY PoolShape
<1>5. /\ Len(records') = n + 1 /\ DOMAIN records' = 1 .. n + 1
      /\ records'[n + 1] = row
      /\ \A i \in 1 .. n : records'[i] = records[i]
  <2>. HIDE DEF row
  <2>1. records \in Seq({records[i] : i \in DOMAIN records})
    BY DEF RecallInv
  <2>. QED
    BY <1>2, <1>4, <2>1
<1>. HIDE DEF m, row, n
<1>6. Pool' = [i \in 1 .. n + 1 |-> IF i = n + 1 THEN Settled(m) ELSE Pool[i]]
  <2>1. Pool' = [i \in 1 .. n + 1 |-> ToMemory(records'[i])]
    BY <1>5 DEF Pool
  <2>2. \A i \in 1 .. n + 1 : ToMemory(records'[i]) = IF i = n + 1 THEN Settled(m) ELSE Pool[i]
    BY <1>3, <1>4, <1>5 DEF Pool
  <2>. QED
    BY <2>1, <2>2
<1>7. Append(Pool, Settled(m)) = [i \in 1 .. n + 1 |-> IF i = n + 1 THEN Settled(m) ELSE Pool[i]]
  <2>1. Pool \in Seq(Memory \cup {None}) /\ DOMAIN Pool = 1 .. n
    BY PoolShape DEF RecallInv, TypeOK, n
  <2>. HIDE DEF Pool
  <2>2. Len(Pool) = n
    BY <1>4, <2>1
  <2>. QED
    BY <2>1, <2>2, Appended
<1>. QED
  BY <1>1, <1>2, <1>5, <1>6, <1>7 DEF m, row, n

\* What correct() changes, and nothing else.
LEMMA Corrected ==
    ASSUME RecallInv, NEW i \in DOMAIN records, Correct(i)
    PROVE  LET m == Disputed(Pool[i])
               E == EntitiesKept(records[i])
           IN  /\ Pool[i] \in Memory /\ Pool[i].status = "active"
               /\ m \in Memory
               /\ records' = [records EXCEPT ![i] = Over(E, Metadata(m))]
               /\ given' = [given EXCEPT ![i] = m]
               /\ Pool' = [Pool EXCEPT ![i] = Settled(m)]
               /\ i \in Own => E = Entities(m)
<1>. DEFINE read == ToMemory(records[i])
            m == Disputed(read)
            E == EntitiesKept(records[i])
            row == Over(E, Metadata(m))
<1>1. /\ read # None /\ read.status = "active"
      /\ records' = [records EXCEPT ![i] = row]
      /\ given' = [given EXCEPT ![i] = m]
  BY DEF Correct
<1>2. Pool[i] = read /\ read \in Memory
  BY <1>1, PoolShape
<1>3. m \in Memory /\ m.tier = read.tier /\ m.task = read.task /\ m.scope = read.scope
  BY <1>2, DisputedType
<1>4. DOMAIN E \subseteq EntityKeys
  BY DEF EntitiesKept
<1>5. m.tier = "episodic" => Value(E, <<"run", "id">>) \in {m.task, None}
  <2>. SUFFICES ASSUME m.tier = "episodic" PROVE Value(E, <<"run", "id">>) \in {m.task, None}
    OBVIOUS
  <2>1. m.task = TaskOfRow(records[i])
    BY <1>1, <1>3, ReadTask
  <2>2. Value(E, <<"run", "id">>) = Value(records[i], <<"run", "id">>)
    BY DEF Value, EntitiesKept, EntityKeys
  <2>. HIDE DEF m, E
  <2>3. CASE Value(records[i], <<"run", "id">>) = None
    BY <2>2, <2>3
  <2>4. CASE Value(records[i], <<"run", "id">>) # None
    <3>1. TaskOfRow(records[i]) = records[i][<<"run", "id">>]
      BY <2>4 DEF TaskOfRow
    <3>2. Value(records[i], <<"run", "id">>) = records[i][<<"run", "id">>]
      BY <2>4 DEF Value
    <3>. QED
      BY <2>1, <2>2, <3>1, <3>2
  <2>. QED
    BY <2>3, <2>4
<1>6. ToMemory(row) = Settled(m)
  <2>. HIDE DEF m, E
  <2>. QED
    BY <1>3, <1>4, <1>5, ReadsBack
<1>7. i \in Own => E = Entities(m)
  <2>. SUFFICES ASSUME i \in Own PROVE E = Entities(m)
    OBVIOUS
  <2>1. /\ given[i] \in Memory
        /\ records[i] = Over(Entities(given[i]), Metadata(given[i]))
        /\ read = Settled(given[i])
    BY OwnRow
  <2>2. E = Entities(given[i])
    BY <2>1, EntitiesStay
  <2>3. m.scope = given[i].scope /\ m.tier = given[i].tier /\ m.task = given[i].task
    BY <1>3, <2>1, SettledFields
  <2>. HIDE DEF m, E
  <2>4. Entities(m) = Entities(given[i])
    BY <2>3 DEF Entities
  <2>. QED
    BY <2>2, <2>4
<1>. HIDE DEF m, E, row, read
<1>8. Pool' = [Pool EXCEPT ![i] = Settled(m)]
  <2>1. DOMAIN records' = DOMAIN records /\ records'[i] = row
        /\ \A j \in DOMAIN records \ {i} : records'[j] = records[j]
    BY <1>1
  <2>2. Pool' = [j \in DOMAIN records |-> ToMemory(records'[j])]
    BY <2>1 DEF Pool
  <2>3. [Pool EXCEPT ![i] = Settled(m)] = [j \in DOMAIN records |-> IF j = i THEN Settled(m) ELSE Pool[j]]
    BY DEF Pool
  <2>4. \A j \in DOMAIN records : ToMemory(records'[j]) = IF j = i THEN Settled(m) ELSE Pool[j]
    BY <1>6, <2>1 DEF Pool
  <2>. QED
    BY <2>2, <2>3, <2>4
<1>. QED
  BY <1>1, <1>2, <1>3, <1>7, <1>8 DEF m, E, row

LEMMA InsertStep ==
    ASSUME RecallInv, NEW call \in Calls, Insert(call)
    PROVE  RecallInv'
<1>. DEFINE m == Approved(call)
            row == Over(Entities(m), Metadata(m))
            n == Len(records)
<1>1. /\ m \in Memory /\ m.status = "active"
      /\ records' = Append(records, row)
      /\ given' = Append(given, m)
      /\ Pool' = Append(Pool, Settled(m))
  BY Inserted
<1>2. /\ n \in 1 .. MaxPool /\ n < MaxPool /\ MaxPool \in Nat
      /\ Len(given) = n /\ Len(Pool) = n
      /\ records \in Seq({records[i] : i \in DOMAIN records})
      /\ given \in Seq(Memory \cup {None})
      /\ Pool \in Seq(Memory \cup {None})
      /\ foreign = 1 /\ foreign' = 1
      /\ Own = 2 .. n
  <2>1. Pool \in Seq(Memory \cup {None}) /\ DOMAIN Pool = 1 .. n /\ n \in Nat
    BY PoolShape DEF RecallInv, TypeOK
  <2>2. Len(Pool) = n
    <3>. HIDE DEF Pool, n
    <3>. QED
      BY <2>1
  <2>. QED
    BY <2>1, <2>2, PoolShape, RecallAssumption DEF RecallInv, TypeOK, Insert
<1>3. Settled(m) \in Memory /\ m # None /\ Settled(m) # None
  BY <1>1, SettledFields, RecallAssumption
<1>. HIDE DEF m, row, Pool
<1>4. /\ Len(records') = n + 1 /\ DOMAIN records' = 1 .. n + 1
      /\ records'[n + 1] = row /\ \A i \in 1 .. n : records'[i] = records[i]
      /\ records' \in Seq({records[i] : i \in DOMAIN records} \cup {row})
  BY <1>1, <1>2
<1>5. /\ Len(given') = n + 1 /\ given' \in Seq(Memory \cup {None})
      /\ given'[n + 1] = m /\ \A i \in 1 .. n : given'[i] = given[i]
  BY <1>1, <1>2
<1>6. /\ Pool' \in Seq(Memory \cup {None})
      /\ Pool'[n + 1] = Settled(m) /\ \A i \in 1 .. n : Pool'[i] = Pool[i]
  BY <1>1, <1>2, <1>3
<1>. HIDE DEF n
<1>7. Own' = 2 .. n + 1
  BY <1>2, <1>4 DEF Own
<1>8. records' \in Seq({records'[i] : i \in DOMAIN records'})
  <2>1. records' = [i \in 1 .. n + 1 |-> records'[i]]
    BY <1>4
  <2>2. n + 1 \in Nat
    BY <1>2
  <2>. QED
    BY <1>4, <2>1, <2>2
<1>9. TypeOK'
  <2>1. ASSUME NEW i \in Own' PROVE Pool'[i] # None
    <3>1. CASE i = n + 1
      BY <1>3, <1>6, <3>1
    <3>2. CASE i # n + 1
      <4>1. i \in Own /\ i \in 1 .. n
        BY <1>2, <1>7, <3>2
      <4>2. Pool[i] # None
        BY <4>1 DEF RecallInv, TypeOK
      <4>. QED
        BY <1>6, <4>1, <4>2
    <3>. QED
      BY <3>1, <3>2
  <2>2. n + 1 \in 1 .. MaxPool
    BY <1>2
  <2>. QED
    BY <1>2, <1>4, <1>5, <1>6, <2>1, <2>2 DEF TypeOK
<1>10. ASSUME NEW i \in Own'
       PROVE  /\ given'[i] # None
              /\ given'[i].status \in DefaultStatuses
              /\ records'[i] = Over(Entities(given'[i]), Metadata(given'[i]))
  <2>1. CASE i = n + 1
    BY <1>1, <1>3, <1>4, <1>5, <2>1 DEF DefaultStatuses, row
  <2>2. CASE i # n + 1
    <3>1. i \in Own /\ i \in 1 .. n
      BY <1>2, <1>7, <2>2
    <3>. QED
      BY <1>4, <1>5, <3>1 DEF RecallInv
  <2>. QED
    BY <2>1, <2>2
<1>. QED
  BY <1>4, <1>5, <1>8, <1>9, <1>10 DEF RecallInv

LEMMA CorrectStep ==
    ASSUME RecallInv, NEW i \in DOMAIN records, Correct(i)
    PROVE  RecallInv'
<1>. DEFINE m == Disputed(Pool[i])
            E == EntitiesKept(records[i])
            row == Over(E, Metadata(m))
            n == Len(records)
<1>1. /\ Pool[i] \in Memory
      /\ m \in Memory
      /\ records' = [records EXCEPT ![i] = row]
      /\ given' = [given EXCEPT ![i] = m]
      /\ Pool' = [Pool EXCEPT ![i] = Settled(m)]
      /\ i \in Own => E = Entities(m)
  BY Corrected
<1>2. m.status = "disputed"
  BY <1>1, DisputedType
<1>3. /\ n \in 1 .. MaxPool
      /\ Len(given) = n
      /\ DOMAIN records = 1 .. n /\ DOMAIN given = 1 .. n /\ DOMAIN Pool = 1 .. n
      /\ given \in Seq(Memory \cup {None})
      /\ Pool \in Seq(Memory \cup {None})
      /\ foreign = 1 /\ foreign' = 1
      /\ n \in Nat
  BY PoolShape DEF RecallInv, TypeOK, Correct
<1>4. Settled(m) \in Memory /\ m # None /\ Settled(m) # None
  BY <1>1, SettledFields, RecallAssumption
<1>. HIDE DEF m, E, row, Pool, n
<1>5. /\ DOMAIN records' = 1 .. n
      /\ records'[i] = row /\ \A j \in 1 .. n \ {i} : records'[j] = records[j]
      /\ records' = [j \in 1 .. n |-> records'[j]]
  BY <1>1, <1>3
<1>6. Len(records') = n /\ records' \in Seq({records'[j] : j \in DOMAIN records'})
  BY <1>3, <1>5
<1>7. /\ given' \in Seq(Memory \cup {None}) /\ Len(given') = n
      /\ given'[i] = m /\ \A j \in 1 .. n \ {i} : given'[j] = given[j]
  BY <1>1, <1>3, <1>4
<1>8. /\ Pool' \in Seq(Memory \cup {None})
      /\ Pool'[i] = Settled(m) /\ \A j \in 1 .. n \ {i} : Pool'[j] = Pool[j]
  BY <1>1, <1>3, <1>4
<1>9. Own' = Own /\ Own \subseteq 1 .. n
  BY <1>3, <1>5 DEF Own
<1>10. TypeOK'
  <2>1. ASSUME NEW j \in Own'
        PROVE  Pool'[j] # None
    <3>1. CASE j = i
      BY <1>4, <1>8, <3>1
    <3>2. CASE j # i
      BY <1>8, <1>9, <3>2 DEF RecallInv, TypeOK
    <3>. QED
      BY <3>1, <3>2
  <2>. QED
    BY <1>3, <1>6, <1>7, <1>8, <1>9, <2>1 DEF TypeOK
<1>11. ASSUME NEW j \in Own'
       PROVE  /\ given'[j] # None
              /\ given'[j].status \in DefaultStatuses
              /\ records'[j] = Over(Entities(given'[j]), Metadata(given'[j]))
  <2>1. CASE j = i
    BY <1>1, <1>2, <1>4, <1>5, <1>7, <1>9, <2>1 DEF DefaultStatuses, row
  <2>2. CASE j # i
    <3>1. j \in Own /\ j \in 1 .. n \ {i}
      BY <1>9, <2>2
    <3>. QED
      BY <1>5, <1>7, <3>1 DEF RecallInv
  <2>. QED
    BY <2>1, <2>2
<1>. QED
  BY <1>6, <1>7, <1>10, <1>11 DEF RecallInv

LEMMA StepInv == RecallInv /\ [Next]_vars => RecallInv'
<1>. SUFFICES ASSUME RecallInv, [Next]_vars PROVE RecallInv'
  OBVIOUS
<1>1. CASE UNCHANGED vars
  BY <1>1 DEF vars, RecallInv, TypeOK, Own, Pool
<1>2. CASE Next
  BY <1>2, InsertStep, CorrectStep DEF Next
<1>. QED
  BY <1>1, <1>2

\* Every row of this provider is what it writes for the memory it was last
\* handed (provider.py:147-221).
THEOREM RecallInvHolds == Spec => []RecallInv
BY InitInv, StepInv, PTL DEF Spec

-----------------------------------------------------------------------------
(* What the provider promises.                                              *)

\* What is read is a memory or nothing, and what this provider has inserted is
\* always readable (mapping.py:45-102).
THEOREM RecallTypes == Spec => []TypeOK
<1>1. RecallInv => TypeOK
  BY DEF RecallInv
<1>. QED
  BY <1>1, RecallInvHolds, PTL

\* An own row is found exactly if the memory that is read from it is selected.
LEMMA OwnAgrees ==
    ASSUME RecallInv, NEW q \in Query, NEW i \in Own
    PROVE  i \in Returned(q) <=> Selects(q, Pool[i])
<1>1. /\ given[i] \in Memory
      /\ records[i] = Over(Entities(given[i]), Metadata(given[i]))
      /\ ToMemory(records[i]) = Settled(given[i])
      /\ Pool[i] = Settled(given[i])
  BY OwnRow
<1>2. i \in DOMAIN records /\ ToMemory(records[i]) # None
  BY <1>1, SettledFields, RecallAssumption DEF Own
<1>3. i \in Returned(q) <=> Finds(q, records[i])
  BY <1>2 DEF Returned
<1>4. Finds(q, records[i]) <=> Selects(q, given[i])
  BY <1>1, FindsOwn
<1>5. Selects(q, Pool[i]) <=> Selects(q, given[i])
  BY <1>1, SettledFields DEF Selects
<1>. QED
  BY <1>3, <1>4, <1>5

LEMMA InvSearchAgrees == RecallInv => SearchAgrees
<1>. SUFFICES ASSUME RecallInv, NEW q \in Queries
              PROVE  /\ \A i \in Own : i \in Returned(q) <=> Selects(q, Pool[i])
                     /\ \A i \in Returned(q) \ Own : q.task = None => Selects(q, Pool[i])
  BY DEF SearchAgrees
<1>1. q \in Query
  BY RecallAssumption
<1>2. ASSUME NEW i \in Returned(q) \ Own, q.task = None
      PROVE  Selects(q, Pool[i])
  <2>1. i \in DOMAIN records /\ Finds(q, records[i]) /\ ToMemory(records[i]) # None
    BY DEF Returned
  <2>2. Selects(q, ToMemory(records[i]))
    BY <1>1, <1>2, <2>1, FindsOnlySelected
  <2>. QED
    BY <2>1, <2>2, PoolShape
<1>. QED
  BY <1>1, <1>2, OwnAgrees

\* The filter selects exactly what the canonical definition does (filters.py:67).
THEOREM SearchAgreesHolds == Spec => []SearchAgrees
BY InvSearchAgrees, RecallInvHolds, PTL

\* What a tool asks is a query, and names firm knowledge unless told not to.
LEMMA ToolQueryAsksFirm ==
    ASSUME NEW named \in SUBSET (Atoms \ {Firm})
    PROVE  /\ ToolQuery(named, TRUE) \in Query
           /\ Firm \in ToolQuery(named, TRUE).scope
<1>1. Firm \in Atoms
  BY DEF Atoms
<1>2. Home \subseteq Atoms /\ Firm \in Home
  BY RecallAssumption DEF Home, Atoms
<1>3. SearchScope(named, TRUE) \in Scopes /\ Firm \in SearchScope(named, TRUE)
  BY <1>1, <1>2 DEF SearchScope, Scopes
<1>. QED
  BY <1>3 DEF ToolQuery, Query, DefaultTiers, DefaultStatuses, Tiers, Status

LEMMA InvFirmKnowledge == RecallInv => FirmKnowledgeIsFound
<1>. SUFFICES ASSUME RecallInv, NEW i \in Own,
                     Firm \in Pool[i].scope, Pool[i].tier \in DefaultTiers,
                     NEW named \in SUBSET (Atoms \ {Firm})
              PROVE  i \in Returned(ToolQuery(named, TRUE))
  BY DEF FirmKnowledgeIsFound
<1>. DEFINE q == ToolQuery(named, TRUE)
<1>1. q \in Query /\ Firm \in q.scope
  BY ToolQueryAsksFirm
<1>2. q.types = {} /\ q.tiers = DefaultTiers /\ q.statuses = DefaultStatuses /\ q.task = None
  BY DEF ToolQuery
<1>3. Pool[i].status \in DefaultStatuses
  BY OwnRow, SettledFields DEF RecallInv
<1>. HIDE DEF q
<1>4. Selects(q, Pool[i])
  BY <1>1, <1>2, <1>3 DEF Selects, Overlap
<1>. QED
  BY <1>1, <1>4, OwnAgrees DEF q

\* Firm knowledge answers every search that has not declined it (scope.py:77-79).
THEOREM FirmKnowledgeIsFoundHolds == Spec => []FirmKnowledgeIsFound
BY InvFirmKnowledge, RecallInvHolds, PTL

-----------------------------------------------------------------------------
(* The rows implement the pool the platform is promised.                    *)

\* What is kept of a memory is what the provider may keep of it.
LEMMA SettledKeeps ==
    ASSUME NEW m \in Memory
    PROVE  Contract!Keeps(Settled(m), m)
<1>1. m.confidence \in 0 .. Certain /\ m.notes \subseteq Notes
  BY DEF Memory, Described
<1>2. Settled(m).confidence - m.confidence \in -Slack .. Slack
  BY <1>1, SettledFields, RoundedNear
<1>3. Settled(m) = [m EXCEPT !.confidence = Settled(m).confidence, !.notes = Settled(m).notes]
  BY SettledFields DEF Settled
<1>4. Settled(m).notes \subseteq m.notes /\ m.notes \ Settled(m).notes \subseteq Unkept
  BY SettledFields
<1>. QED
  BY <1>2, <1>3, <1>4 DEF Contract!Keeps

LEMMA InsertImplements ==
    ASSUME RecallInv, NEW call \in Calls, Insert(call)
    PROVE  Contract!Insert
<1>. DEFINE m == Approved(call)
            n == Len(given)
<1>1. m \in Memory /\ m.status = "active"
      /\ given' = Append(given, m) /\ Pool' = Append(Pool, Settled(m))
  BY Inserted
<1>2. /\ given \in Seq(Memory \cup {None}) /\ Pool \in Seq(Memory \cup {None})
      /\ DOMAIN Pool = 1 .. n /\ n \in Nat
  BY PoolShape DEF RecallInv, TypeOK
<1>3. Contract!Keeps(Settled(m), m)
  BY <1>1, SettledKeeps
<1>. HIDE DEF m, Pool
<1>4. Len(Pool) = n
  BY <1>2
<1>5. /\ Len(given') = n + 1 /\ given'[n + 1] = m /\ SubSeq(given', 1, n) = given
      /\ Len(Pool') = n + 1 /\ Pool'[n + 1] = Settled(m) /\ SubSeq(Pool', 1, n) = Pool
  BY <1>1, <1>2, <1>4, Prefixed
<1>. QED
  BY <1>1, <1>3, <1>4, <1>5 DEF Contract!Insert

LEMMA CorrectImplements ==
    ASSUME RecallInv, NEW i \in DOMAIN records, Correct(i)
    PROVE  i \in DOMAIN Pool /\ Contract!Correct(i)
<1>. DEFINE m == Disputed(Pool[i])
<1>1. /\ Pool[i] \in Memory /\ Pool[i].status = "active"
      /\ m \in Memory
      /\ given' = [given EXCEPT ![i] = m]
      /\ Pool' = [Pool EXCEPT ![i] = Settled(m)]
  BY Corrected
<1>2. /\ DOMAIN Pool = DOMAIN records /\ DOMAIN given = DOMAIN records
      /\ Pool \in Seq(Memory \cup {None})
  BY PoolShape DEF RecallInv, TypeOK
<1>3. Contract!Keeps(Settled(m), m) /\ Settled(m) \in Memory
  BY <1>1, SettledKeeps, SettledFields
<1>4. Pool[i] # None
  BY <1>1, RecallAssumption
<1>5. given' = [given EXCEPT ![i] = Contract!Disputed(Pool[i])]
  BY <1>1 DEF Disputed, Contract!Disputed
<1>. HIDE DEF m, Pool
<1>6. /\ Len(Pool') = Len(Pool) /\ Pool'[i] = Settled(m)
      /\ \A j \in (DOMAIN Pool) \ {i} : Pool'[j] = Pool[j]
  BY <1>1, <1>2
<1>7. given'[i] = m
  BY <1>1, <1>2
<1>. QED
  BY <1>1, <1>2, <1>3, <1>4, <1>5, <1>6, <1>7 DEF Contract!Correct

LEMMA StepImplements ==
    RecallInv /\ [Next]_vars => [Contract!Next]_<<Pool, given>>
<1>. SUFFICES ASSUME RecallInv, [Next]_vars
              PROVE  [Contract!Next]_<<Pool, given>>
  OBVIOUS
<1>1. CASE UNCHANGED vars
  BY <1>1 DEF vars, Pool
<1>2. CASE Next
  BY <1>2, InsertImplements, CorrectImplements DEF Next, Contract!Next
<1>. QED
  BY <1>1, <1>2

\* A memory that goes into mem0 and comes back is the memory that was written,
\* and no write shows in another memory (mapping.py:45, base.py:37-84).
THEOREM ImplementsPoolHolds == Spec => ImplementsPool
<1>1. Init => Contract!Init
  BY DEF Init, Contract!Init
<1>. QED
  BY <1>1, StepImplements, RecallInvHolds, PTL DEF Spec, ImplementsPool, Contract!Spec

=============================================================================
