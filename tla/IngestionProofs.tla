--------------------------- MODULE IngestionProofs ---------------------------
(***************************************************************************)
(* Proofs about ingestion: whatever the models answer, however many runs    *)
(* share the queue.                                                         *)
(***************************************************************************)
EXTENDS Ingestion, FiniteSetTheorems, TLAPS

-----------------------------------------------------------------------------
(* What is left of a sequence.                                              *)

\* The places of a sequence that are kept are finitely many, and their ranks
\* number them in order.
LEMMA Ranks ==
    ASSUME NEW n \in Nat, NEW I \in SUBSET (1 .. n)
    PROVE  /\ IsFiniteSet(I)
           /\ Cardinality(I) \in Nat
           /\ Cardinality(I) <= n
           /\ \A i \in I : Rank(I, i) \in 1 .. Cardinality(I)
           /\ \A i, j \in I : i < j => Rank(I, i) < Rank(I, j)
<1>1. IsFiniteSet(1 .. n) /\ Cardinality(1 .. n) = n
  BY FS_Interval
<1>2. IsFiniteSet(I) /\ Cardinality(I) <= n
  BY <1>1, FS_Subset
<1>3. Cardinality(I) \in Nat
  BY <1>2, FS_CardinalityType
<1>. DEFINE Upto(i) == {j \in I : j <= i}
<1>4. ASSUME NEW i \in I
      PROVE  /\ IsFiniteSet(Upto(i))
             /\ Cardinality(Upto(i)) \in Nat
             /\ Cardinality(Upto(i)) <= Cardinality(I)
  BY <1>2, FS_Subset, FS_CardinalityType
<1>5. ASSUME NEW i \in I
      PROVE  Cardinality(Upto(i)) # 0
  <2>1. i \in Upto(i)
    OBVIOUS
  <2>. QED
    BY <2>1, <1>4, FS_EmptySet
<1>6. ASSUME NEW i \in I, NEW j \in I, i < j
      PROVE  Cardinality(Upto(i)) < Cardinality(Upto(j))
  <2>1. \A x \in I : x \in Int
    OBVIOUS
  <2>2. \A x \in I : x <= i => x <= j
    BY <1>6, <2>1
  <2>3. Upto(i) \subseteq Upto(j)
    BY <2>2
  <2>4. j \in Upto(j) /\ j \notin Upto(i)
    BY <1>6, <2>1
  <2>5. Cardinality(Upto(i)) <= Cardinality(Upto(j))
    BY <2>3, <1>4, FS_Subset
  <2>6. Cardinality(Upto(i)) # Cardinality(Upto(j))
    BY <2>3, <2>4, <1>4, FS_Subset
  <2>. QED
    BY <2>5, <2>6, <1>4
<1>7. \A i \in I : Rank(I, i) = Cardinality(Upto(i))
  BY DEF Rank
<1>. HIDE DEF Upto
<1>. QED
  BY <1>2, <1>3, <1>4, <1>5, <1>6, <1>7

\* So each rank has a place, and each place its rank.
LEMMA Places ==
    ASSUME NEW n \in Nat, NEW I \in SUBSET (1 .. n)
    PROVE  /\ \A k \in 1 .. Cardinality(I) : Nth(I, k) \in I /\ Rank(I, Nth(I, k)) = k
           /\ \A i \in I : Nth(I, Rank(I, i)) = i
<1>. DEFINE N == 1 .. Cardinality(I)
            rank == [i \in I |-> Rank(I, i)]
<1>1. /\ IsFiniteSet(I)
      /\ Cardinality(I) \in Nat
      /\ \A i \in I : Rank(I, i) \in N
      /\ \A i, j \in I : i < j => Rank(I, i) < Rank(I, j)
  BY Ranks
<1>2. \A i, j \in I : Rank(I, i) = Rank(I, j) => i = j
  <2>. SUFFICES ASSUME NEW i \in I, NEW j \in I, Rank(I, i) = Rank(I, j), i # j
                PROVE  FALSE
    OBVIOUS
  <2>1. i < j \/ j < i
    OBVIOUS
  <2>2. Rank(I, i) < Rank(I, j) \/ Rank(I, j) < Rank(I, i)
    BY <2>1, <1>1
  <2>. QED
    BY <2>2, <1>1
<1>3. rank \in Injection(I, N)
  BY <1>1, <1>2 DEF Injection, IsInjective
<1>4. IsFiniteSet(N) /\ Cardinality(N) = Cardinality(I)
  BY <1>1, FS_Interval
<1>5. rank \in Surjection(I, N)
  BY <1>3, <1>4, FS_Injection
<1>6. \A k \in N : \E i \in I : Rank(I, i) = k
  BY <1>5 DEF Surjection
<1>7. \A k \in N : Nth(I, k) \in I /\ Rank(I, Nth(I, k)) = k
  BY <1>6 DEF Nth
<1>. QED
  BY <1>1, <1>2, <1>7

\* What is left is a sequence of as many elements.
LEMMA ThoseType ==
    ASSUME NEW S, NEW n \in Nat, NEW I \in SUBSET (1 .. n), NEW s,
           \A i \in I : s[i] \in S
    PROVE  /\ Those(s, I) \in Seq(S)
           /\ Len(Those(s, I)) = Cardinality(I)
           /\ Cardinality(I) \in Nat
<1>1. Cardinality(I) \in Nat
  BY Ranks
<1>2. \A k \in 1 .. Cardinality(I) : s[Nth(I, k)] \in S
  BY Places
<1>. QED
  BY <1>1, <1>2 DEF Those

LEMMA FirstOfElements ==
    ASSUME NEW S, NEW s \in Seq(S)
    PROVE  /\ FirstOf(s) \in Seq(S)
           /\ Len(FirstOf(s)) = IF Len(s) < MaxFacts THEN Len(s) ELSE MaxFacts
           /\ \A i \in 1 .. Len(FirstOf(s)) : FirstOf(s)[i] = s[i]
<1>1. MaxFacts \in Nat
  BY ExtractionAssumption
<1>2. PICK n \in 0 .. Len(s) : n = IF Len(s) < MaxFacts THEN Len(s) ELSE MaxFacts
  BY <1>1
<1>3. FirstOf(s) = SubSeq(s, 1, n)
  BY <1>2 DEF FirstOf
<1>. QED
  BY <1>2, <1>3

-----------------------------------------------------------------------------
(* What an answer brings up.                                                *)

\* The places of the legible entries among `texts`.
LegibleIn(texts) == {i \in DOMAIN texts : texts[i] # Blank}

\* What is legible is a text, and the place mem0's extractor counts for a text
\* is its rank among the legible ones.
LEMMA LegibleTexts ==
    ASSUME NEW texts \in Seq(Texts \cup {Blank})
    PROVE  LET L == LegibleIn(texts)
           IN  /\ Legible(texts) \in Seq(Texts)
               /\ Len(Legible(texts)) = Cardinality(L)
               /\ Cardinality(L) \in Nat
               /\ \A k \in 1 .. Cardinality(L) :
                    /\ Nth(L, k) \in L
                    /\ Rank(L, Nth(L, k)) = k
                    /\ Legible(texts)[k] = texts[Nth(L, k)]
               /\ \A i \in L :
                    /\ Rank(L, i) \in 1 .. Cardinality(L)
                    /\ Legible(texts)[Rank(L, i)] = texts[i]
               /\ \A i \in DOMAIN texts :
                    Cardinality({k \in 1 .. i : texts[k] # Blank}) = Rank(L, i)
<1>. DEFINE L == LegibleIn(texts)
<1>1. /\ Len(texts) \in Nat
      /\ L \in SUBSET (1 .. Len(texts))
      /\ \A i \in L : texts[i] \in Texts
  BY DEF LegibleIn
<1>2. Legible(texts) = Those(texts, L)
  BY DEF Legible, LegibleIn
<1>3. ASSUME NEW i \in DOMAIN texts
      PROVE  Cardinality({k \in 1 .. i : texts[k] # Blank}) = Rank(L, i)
  <2>1. {k \in 1 .. i : texts[k] # Blank} = {j \in L : j <= i}
    BY DEF LegibleIn
  <2>. QED
    BY <2>1 DEF Rank
<1>. HIDE DEF L
<1>. DEFINE n == Len(texts)
<1>5. n \in Nat /\ L \in SUBSET (1 .. n) /\ \A i \in L : texts[i] \in Texts
  BY <1>1
<1>. HIDE DEF n
<1>4. /\ Those(texts, L) \in Seq(Texts)
      /\ Len(Those(texts, L)) = Cardinality(L)
      /\ Cardinality(L) \in Nat
  BY <1>5, ThoseType
<1>6. \A k \in 1 .. Cardinality(L) : Nth(L, k) \in L /\ Rank(L, Nth(L, k)) = k
  BY <1>5, Places
<1>7. \A k \in 1 .. Cardinality(L) : Those(texts, L)[k] = texts[Nth(L, k)]
  BY DEF Those
<1>8. \A i \in L : Rank(L, i) \in 1 .. Cardinality(L)
  BY <1>5, Ranks
<1>9. \A i \in L : Those(texts, L)[Rank(L, i)] = texts[i]
  BY <1>5, <1>7, <1>8, Places
<1>. QED
  BY <1>2, <1>3, <1>4, <1>6, <1>7, <1>8, <1>9 DEF L

\* The entries are what the model says of the texts the answer brings up.
AnswerOf(entries, by, reply) ==
    /\ entries \in Seq(Entry)
    /\ \A k \in DOMAIN entries :
        /\ entries[k] = EntryOf(entries[k].text, Judged[entries[k].text])
        /\ BringsUp(by, reply, entries[k].text)
    /\ \A t \in Texts : BringsUp(by, reply, t) =>
        \E k \in DOMAIN entries : entries[k].text = t

LEMMA EntryOfType ==
    ASSUME NEW t \in Texts
    PROVE  /\ EntryOf(t, Judged[t]) \in Entry
           /\ EntryOf(t, Judged[t]).text = t
<1>1. Judged[t] \in [type : Types \cup {Untyped}, confidence : RawConfidence]
  BY ExtractionAssumption
<1>. QED
  BY <1>1 DEF EntryOf, Entry

\* BringsUp() is about two extractors, one disjunct each.
LEMMA PlatformBringsUp ==
    ASSUME NEW reply, NEW t
    PROVE  BringsUp("platform", reply, t) <=>
              \E i \in DOMAIN reply.texts : reply.texts[i] = t /\ i <= MaxFacts
BY DEF BringsUp

LEMMA ProviderBringsUp ==
    ASSUME NEW reply \in Reply, NEW t \in Texts
    PROVE  LET L == LegibleIn(reply.texts)
           IN  BringsUp("provider", reply, t) <=>
                  \E i \in L : /\ reply.texts[i] = t
                               /\ Rank(L, i) <= MaxFacts
                               /\ Rank(L, i) - 1 \in reply.numbers
<1>. DEFINE L == LegibleIn(reply.texts)
<1>1. reply.texts \in Seq(Texts \cup {Blank})
  BY DEF Reply
<1>2. \A i \in DOMAIN reply.texts :
            Cardinality({k \in 1 .. i : reply.texts[k] # Blank}) = Rank(L, i)
  BY <1>1, LegibleTexts
<1>3. \A i \in DOMAIN reply.texts : reply.texts[i] = t => i \in L
  BY ExtractionAssumption DEF LegibleIn
<1>4. L \subseteq DOMAIN reply.texts
  BY DEF LegibleIn
<1>5. BringsUp("provider", reply, t) <=>
        \E i \in DOMAIN reply.texts :
            /\ reply.texts[i] = t
            /\ Cardinality({k \in 1 .. i : reply.texts[k] # Blank}) <= MaxFacts
            /\ Cardinality({k \in 1 .. i : reply.texts[k] # Blank}) - 1 \in reply.numbers
  BY DEF BringsUp
<1>6. BringsUp("provider", reply, t) <=>
        \E i \in DOMAIN reply.texts : /\ reply.texts[i] = t
                                      /\ Rank(L, i) <= MaxFacts
                                      /\ Rank(L, i) - 1 \in reply.numbers
  BY <1>2, <1>5
<1>. HIDE DEF L
<1>. QED
  BY <1>3, <1>4, <1>6 DEF L

\* The platform's extractor cuts the answer and drops the blanks.
LEMMA PlatformAnswers ==
    ASSUME NEW reply \in Reply
    PROVE  AnswerOf(PlatformEntries(reply), "platform", reply)
<1>. DEFINE cut == FirstOf(reply.texts)
            L == LegibleIn(cut)
            legible == Legible(cut)
            X == PlatformEntries(reply)
<1>1. reply.texts \in Seq(Texts \cup {Blank})
  BY DEF Reply
<1>2. /\ cut \in Seq(Texts \cup {Blank})
      /\ Len(cut) = IF Len(reply.texts) < MaxFacts THEN Len(reply.texts) ELSE MaxFacts
      /\ \A i \in 1 .. Len(cut) : cut[i] = reply.texts[i]
  BY <1>1, FirstOfElements
<1>3. MaxFacts \in Nat
  BY ExtractionAssumption
<1>4. /\ legible \in Seq(Texts)
      /\ Len(legible) = Cardinality(L)
      /\ Cardinality(L) \in Nat
      /\ \A k \in 1 .. Cardinality(L) : Nth(L, k) \in L /\ legible[k] = cut[Nth(L, k)]
      /\ \A i \in L : Rank(L, i) \in 1 .. Cardinality(L) /\ legible[Rank(L, i)] = cut[i]
  BY <1>2, LegibleTexts
<1>5. X = [i \in DOMAIN legible |-> EntryOf(legible[i], Judged[legible[i]])]
  BY DEF PlatformEntries
<1>6. \A i \in L : i \in 1 .. Len(cut)
  BY <1>2 DEF LegibleIn
<1>7. \A i \in DOMAIN reply.texts :
        i <= MaxFacts /\ reply.texts[i] \in Texts => i \in L /\ cut[i] = reply.texts[i]
  <2>. SUFFICES ASSUME NEW i \in DOMAIN reply.texts, i <= MaxFacts, reply.texts[i] \in Texts
                PROVE  i \in L /\ cut[i] = reply.texts[i]
    OBVIOUS
  <2>1. i \in 1 .. Len(cut) /\ DOMAIN cut = 1 .. Len(cut)
    BY <1>1, <1>2, <1>3
  <2>2. cut[i] = reply.texts[i] /\ cut[i] # Blank
    BY <1>2, <2>1, ExtractionAssumption
  <2>. QED
    BY <2>1, <2>2 DEF LegibleIn
<1>8. \A i \in 1 .. Len(cut) : i \in DOMAIN reply.texts /\ i <= MaxFacts
  BY <1>1, <1>2, <1>3
<1>. HIDE DEF cut, L, legible, X
<1>9. X \in Seq(Entry) /\ DOMAIN X = 1 .. Cardinality(L)
  <2>1. Cardinality(L) \in Nat /\ DOMAIN legible = 1 .. Cardinality(L)
    BY <1>4
  <2>2. ASSUME NEW k \in 1 .. Cardinality(L)
        PROVE  EntryOf(legible[k], Judged[legible[k]]) \in Entry
    BY <1>4, <2>2, EntryOfType
  <2>. QED
    BY <1>5, <2>1, <2>2
<1>10. ASSUME NEW k \in DOMAIN X
       PROVE  /\ X[k] = EntryOf(X[k].text, Judged[X[k].text])
              /\ BringsUp("platform", reply, X[k].text)
  <2>1. legible[k] \in Texts /\ X[k] = EntryOf(legible[k], Judged[legible[k]])
    BY <1>4, <1>5, <1>9
  <2>2. X[k].text = legible[k]
    BY <2>1, EntryOfType
  <2>3. /\ Nth(L, k) \in DOMAIN reply.texts
        /\ Nth(L, k) <= MaxFacts
        /\ reply.texts[Nth(L, k)] = legible[k]
    BY <1>2, <1>4, <1>6, <1>8, <1>9
  <2>. QED
    BY <2>1, <2>2, <2>3, PlatformBringsUp
<1>11. ASSUME NEW t \in Texts, BringsUp("platform", reply, t)
       PROVE  \E k \in DOMAIN X : X[k].text = t
  <2>1. PICK i \in DOMAIN reply.texts : reply.texts[i] = t /\ i <= MaxFacts
    BY <1>11, PlatformBringsUp
  <2>2. i \in L /\ cut[i] = t
    BY <1>7, <2>1
  <2>3. Rank(L, i) \in 1 .. Cardinality(L) /\ legible[Rank(L, i)] = t
    BY <1>4, <2>2
  <2>4. Rank(L, i) \in DOMAIN X /\ X[Rank(L, i)] = EntryOf(t, Judged[t])
    BY <1>4, <1>5, <1>9, <2>3
  <2>. QED
    BY <2>4, EntryOfType
<1>. QED
  BY <1>9, <1>10, <1>11 DEF AnswerOf, X

\* mem0's extractor shows the legible texts within the cut and keeps those the
\* classifier has numbered, each with its own judgement.
LEMMA ProviderAnswers ==
    ASSUME NEW reply \in Reply
    PROVE  AnswerOf(Paired(reply), "provider", reply)
<1>. DEFINE L == LegibleIn(reply.texts)
            leg == Legible(reply.texts)
            shown == Numbered(reply)
            n == Len(shown)
            numbered == {m \in reply.numbers \cap Nat : m < n}
            A == {i \in 1 .. n : i - 1 \in numbered}
            P == [i \in 1 .. n |->
                    [m \in numbered |-> EntryOf(shown[m + 1], Judged[shown[m + 1]])][i - 1]]
            X == Paired(reply)
<1>1. reply.texts \in Seq(Texts \cup {Blank})
  BY DEF Reply
<1>2. /\ leg \in Seq(Texts)
      /\ Len(leg) = Cardinality(L)
      /\ Cardinality(L) \in Nat
      /\ \A k \in 1 .. Cardinality(L) :
            Nth(L, k) \in L /\ Rank(L, Nth(L, k)) = k /\ leg[k] = reply.texts[Nth(L, k)]
      /\ \A i \in L : Rank(L, i) \in 1 .. Cardinality(L) /\ leg[Rank(L, i)] = reply.texts[i]
  BY <1>1, LegibleTexts
<1>3. MaxFacts \in Nat
  BY ExtractionAssumption
<1>4. /\ shown \in Seq(Texts)
      /\ n = IF Cardinality(L) < MaxFacts THEN Cardinality(L) ELSE MaxFacts
      /\ \A i \in 1 .. n : shown[i] = leg[i]
  <2>1. shown = FirstOf(leg)
    BY DEF Numbered
  <2>. HIDE DEF L, leg, shown
  <2>. QED
    BY <1>2, <2>1, FirstOfElements
<1>5. X = Those(P, A)
  <2>1. DOMAIN shown = 1 .. n
    BY <1>4
  <2>2. Classified(reply) = [m \in numbered |-> Judged[shown[m + 1]]]
    BY DEF Classified
  <2>3. DOMAIN Classified(reply) = numbered
    BY <2>2
  <2>4. [i \in DOMAIN Classified(reply) |-> EntryOf(shown[i + 1], Classified(reply)[i])]
            = [m \in numbered |-> EntryOf(shown[m + 1], Judged[shown[m + 1]])]
    BY <2>2, <2>3
  <2>5. {i \in DOMAIN shown : i - 1 \in DOMAIN Classified(reply)} = A
    BY <2>1, <2>3
  <2>6. [i \in DOMAIN shown |->
            [j \in DOMAIN Classified(reply) |->
                EntryOf(shown[j + 1], Classified(reply)[j])][i - 1]] = P
    BY <2>1, <2>4
  <2>. HIDE DEF numbered, A, P, n, shown
  <2>. QED
    BY <2>5, <2>6 DEF Paired, shown
<1>6. \A i \in A : P[i] = EntryOf(shown[i], Judged[shown[i]]) /\ shown[i] \in Texts
  <2>. SUFFICES ASSUME NEW i \in A
                PROVE  P[i] = EntryOf(shown[i], Judged[shown[i]]) /\ shown[i] \in Texts
    OBVIOUS
  <2>1. i \in 1 .. n /\ i - 1 \in numbered
    OBVIOUS
  <2>2. P[i] = EntryOf(shown[(i - 1) + 1], Judged[shown[(i - 1) + 1]])
    BY <2>1
  <2>3. (i - 1) + 1 = i
    BY <2>1, <1>4
  <2>. HIDE DEF P, A, numbered
  <2>. QED
    BY <1>4, <2>1, <2>2, <2>3
<1>7. /\ A \in SUBSET (1 .. n)
      /\ \A i \in 1 .. n : i - 1 \in reply.numbers => i \in A
      /\ \A i \in A : i - 1 \in reply.numbers
  <2>1. n \in Nat
    BY <1>4
  <2>. HIDE DEF n, shown
  <2>. QED
    BY <2>1
<1>8. n \in Nat
  BY <1>4
<1>. HIDE DEF L, leg, shown, n, numbered, A, P, X
<1>9. \A i \in A : P[i] \in Entry
  BY <1>6, EntryOfType
<1>10. /\ X \in Seq(Entry)
       /\ Len(X) = Cardinality(A)
       /\ Cardinality(A) \in Nat
       /\ \A k \in 1 .. Cardinality(A) : Nth(A, k) \in A /\ X[k] = P[Nth(A, k)]
       /\ \A i \in A : Rank(A, i) \in 1 .. Cardinality(A) /\ X[Rank(A, i)] = P[i]
  <2>1. /\ X \in Seq(Entry)
        /\ Len(X) = Cardinality(A)
        /\ Cardinality(A) \in Nat
    BY <1>5, <1>7, <1>8, <1>9, ThoseType
  <2>2. X = [k \in 1 .. Cardinality(A) |-> P[Nth(A, k)]]
    BY <1>5 DEF Those
  <2>3. /\ \A k \in 1 .. Cardinality(A) : Nth(A, k) \in A
        /\ \A i \in A : Nth(A, Rank(A, i)) = i
    BY <1>7, <1>8, Places
  <2>4. \A i \in A : Rank(A, i) \in 1 .. Cardinality(A)
    BY <1>7, <1>8, Ranks
  <2>. QED
    BY <2>1, <2>2, <2>3, <2>4
<1>11. ASSUME NEW k \in DOMAIN X
       PROVE  /\ X[k] = EntryOf(X[k].text, Judged[X[k].text])
              /\ BringsUp("provider", reply, X[k].text)
  <2>1. k \in 1 .. Cardinality(A)
    BY <1>10
  <2>2. PICK i \in A : X[k] = P[i]
    BY <1>10, <2>1
  <2>3. /\ shown[i] \in Texts
        /\ X[k] = EntryOf(shown[i], Judged[shown[i]])
        /\ X[k].text = shown[i]
    BY <1>6, <2>2, EntryOfType
  <2>4. i \in 1 .. n /\ i \in 1 .. Cardinality(L) /\ i <= MaxFacts
    BY <1>2, <1>3, <1>4, <1>7, <1>8
  <2>5. /\ Nth(L, i) \in L
        /\ reply.texts[Nth(L, i)] = shown[i]
        /\ Rank(L, Nth(L, i)) = i
    BY <1>2, <1>4, <2>4
  <2>6. BringsUp("provider", reply, shown[i])
    BY <1>7, <2>3, <2>4, <2>5, ProviderBringsUp DEF L
  <2>. QED
    BY <2>3, <2>6
<1>12. ASSUME NEW t \in Texts, BringsUp("provider", reply, t)
       PROVE  \E k \in DOMAIN X : X[k].text = t
  <2>1. PICK j \in L : /\ reply.texts[j] = t
                       /\ Rank(L, j) <= MaxFacts
                       /\ Rank(L, j) - 1 \in reply.numbers
    BY <1>12, ProviderBringsUp DEF L
  <2>2. Rank(L, j) \in 1 .. Cardinality(L) /\ leg[Rank(L, j)] = t
    BY <1>2, <2>1
  <2>3. Rank(L, j) \in 1 .. n /\ shown[Rank(L, j)] = t
    BY <1>2, <1>3, <1>4, <2>1, <2>2
  <2>4. Rank(L, j) \in A /\ P[Rank(L, j)] = EntryOf(t, Judged[t])
    BY <1>6, <1>7, <2>1, <2>3
  <2>5. \E k \in 1 .. Cardinality(A) : X[k] = EntryOf(t, Judged[t])
    BY <1>10, <2>4
  <2>. QED
    BY <1>10, <2>5, EntryOfType
<1>. QED
  BY <1>10, <1>11, <1>12 DEF AnswerOf, X

LEMMA ExtractorAnswers ==
    ASSUME NEW by \in {"platform", "provider"}, NEW reply \in Reply
    PROVE  AnswerOf(EntriesOf(by, reply), by, reply)
BY PlatformAnswers, ProviderAnswers DEF EntriesOf

-----------------------------------------------------------------------------
(* What an extractor returns.                                               *)

\* A fit entry of a document that upsets nobody is a fact worth keeping, and
\* the other way round.
LEMMA FitIsWorth ==
    ASSUME NEW t \in Texts
    PROVE  LET e == EntryOf(t, Judged[t])
           IN  /\ Worth(t) => Fit(e)
               /\ Fit(e) /\ Clamped(e.confidence) \notin {NotANumber, Huge} =>
                    /\ Worth(t)
                    /\ e.type \in Types
                    /\ Clamped(e.confidence) \in 0 .. Certain
<1>. DEFINE type == Judged[t].type
            raw == Judged[t].confidence
            e == EntryOf(t, Judged[t])
<1>1. type \in Types \cup {Untyped} /\ raw \in Int \cup {NotANumber, Huge, Unreadable}
  BY ExtractionAssumption DEF RawConfidence
<1>2. e.type = type /\ e.confidence = raw
  BY DEF EntryOf
<1>3. /\ NotANumber \notin Int /\ Huge \notin Int /\ Unreadable \notin {NotANumber, Huge}
      /\ Certain \in Nat
      /\ Middle \in 0 .. Certain
      /\ MinConfidence \in 0 .. Certain
  BY ExtractionAssumption
<1>4. Clamped(raw) \in {NotANumber, Huge} \/ Clamped(raw) \in 0 .. Certain
  <2>. HIDE DEF raw
  <2>. QED
    BY <1>1, <1>3 DEF Clamped
<1>. HIDE DEF type, raw, e
<1>5. Worth(t) <=> type \in Types /\ Clamped(raw) \in MinConfidence .. Certain
  BY DEF Worth, type, raw
<1>6. Fit(e) <=> /\ type \in Types
                 /\ ~(Clamped(raw) \in Int /\ Clamped(raw) < MinConfidence)
  BY <1>2 DEF Fit, Known, TooWeak
<1>7. Worth(t) => Fit(e)
  BY <1>3, <1>5, <1>6
<1>8. Fit(e) /\ Clamped(e.confidence) \notin {NotANumber, Huge} =>
        Worth(t) /\ e.type \in Types /\ Clamped(e.confidence) \in 0 .. Certain
  BY <1>2, <1>3, <1>4, <1>5, <1>6
<1>. QED
  BY <1>7, <1>8 DEF e

\* What extract() returns of a document is what the answer brings up and is
\* worth keeping, and each candidate speaks truly.
LEMMA ExtractedFacts ==
    ASSUME NEW by \in {"platform", "provider"}, NEW reply \in Reply,
           NEW d \in Documents, ~Upsetting(by, reply, d)
    PROVE  LET X == Extracted(by, reply, d)
           IN  /\ X \in Seq(Candidates)
               /\ \A k \in DOMAIN X : /\ SpeaksTruly(X[k])
                                      /\ X[k].document = d
                                      /\ BringsUp(by, reply, X[k].text)
               /\ \A t \in Texts : BringsUp(by, reply, t) /\ Worth(t) =>
                    \E k \in DOMAIN X : X[k].text = t
<1>. DEFINE E == EntriesOf(by, reply)
            n == Len(E)
            F == {i \in 1 .. n : Fit(E[i])}
            fit == Those(E, F)
            X == Extracted(by, reply, d)
<1>1. AnswerOf(E, by, reply)
  BY ExtractorAnswers
<1>2. /\ E \in Seq(Entry)
      /\ \A k \in DOMAIN E : /\ E[k] = EntryOf(E[k].text, Judged[E[k].text])
                             /\ BringsUp(by, reply, E[k].text)
      /\ \A t \in Texts : BringsUp(by, reply, t) => \E k \in DOMAIN E : E[k].text = t
  BY <1>1 DEF AnswerOf
<1>3. n \in Nat /\ DOMAIN E = 1 .. n /\ \A i \in 1 .. n : E[i] \in Entry
  BY <1>2
<1>4. \A i \in 1 .. n : Fit(E[i]) => Clamped(E[i].confidence) \notin {NotANumber, Huge}
  <2>1. ASSUME NEW i \in 1 .. n, Fit(E[i])
        PROVE  Clamped(E[i].confidence) # NotANumber /\ E[i].confidence # Huge
    BY <1>3, <2>1 DEF Upsetting, Unbuildable
  <2>2. ASSUME NEW raw \in RawConfidence, Clamped(raw) = Huge
        PROVE  raw = Huge
    BY <2>2, ExtractionAssumption DEF Clamped, RawConfidence
  <2>. QED
    BY <1>3, <2>1, <2>2 DEF Entry
<1>5. X = [k \in DOMAIN fit |-> CandidateOf(fit[k], d)]
  BY <1>3 DEF Extracted
<1>6. F \in SUBSET (1 .. n) /\ \A i \in 1 .. n : i \in F <=> Fit(E[i])
  OBVIOUS
<1>. HIDE DEF E, n, F, fit, X
<1>7. /\ fit \in Seq(Entry)
      /\ DOMAIN fit = 1 .. Cardinality(F)
      /\ \A k \in 1 .. Cardinality(F) : Nth(F, k) \in F /\ fit[k] = E[Nth(F, k)]
      /\ \A i \in F : Rank(F, i) \in 1 .. Cardinality(F) /\ fit[Rank(F, i)] = E[i]
  <2>1. \A i \in F : E[i] \in Entry
    BY <1>3, <1>6
  <2>2. fit \in Seq(Entry) /\ Len(fit) = Cardinality(F)
    BY <1>3, <1>6, <2>1, ThoseType DEF fit
  <2>3. fit = [k \in 1 .. Cardinality(F) |-> E[Nth(F, k)]]
    BY DEF Those, fit
  <2>4. /\ \A k \in 1 .. Cardinality(F) : Nth(F, k) \in F
        /\ \A i \in F : Nth(F, Rank(F, i)) = i
    BY <1>3, <1>6, Places
  <2>5. \A i \in F : Rank(F, i) \in 1 .. Cardinality(F)
    BY <1>3, <1>6, Ranks
  <2>. QED
    BY <2>2, <2>3, <2>4, <2>5
<1>8. ASSUME NEW i \in F
      PROVE  /\ CandidateOf(E[i], d) \in Candidates
             /\ SpeaksTruly(CandidateOf(E[i], d))
             /\ CandidateOf(E[i], d).document = d
             /\ CandidateOf(E[i], d).text = E[i].text
             /\ E[i].text \in Texts
             /\ BringsUp(by, reply, E[i].text)
  <2>. DEFINE t == E[i].text
              c == CandidateOf(E[i], d)
  <2>1. /\ t \in Texts
        /\ E[i] = EntryOf(t, Judged[t])
        /\ Fit(E[i])
        /\ Clamped(E[i].confidence) \notin {NotANumber, Huge}
        /\ BringsUp(by, reply, t)
    BY <1>2, <1>3, <1>4, <1>6 DEF Entry
  <2>2. /\ Worth(t)
        /\ E[i].type \in Types
        /\ Clamped(E[i].confidence) \in 0 .. Certain
    BY <2>1, FitIsWorth
  <2>3. E[i].type = Judged[t].type /\ E[i].confidence = Judged[t].confidence
    BY <2>1 DEF EntryOf
  <2>4. /\ c.text = t
        /\ c.type = E[i].type
        /\ c.confidence = Clamped(E[i].confidence)
        /\ c.scope = ScopeOf[d]
        /\ c.document = d
    BY DEF CandidateOf
  <2>5. c \in Candidates
    BY <2>1, <2>2, ExtractionAssumption DEF CandidateOf, Candidates
  <2>. HIDE DEF c, t
  <2>6. SpeaksTruly(c)
    BY <2>2, <2>3, <2>4 DEF SpeaksTruly
  <2>. QED
    BY <2>1, <2>4, <2>5, <2>6 DEF c, t
<1>9. X \in Seq(Candidates) /\ DOMAIN X = 1 .. Cardinality(F)
  <2>1. \A k \in 1 .. Cardinality(F) : CandidateOf(fit[k], d) \in Candidates
    BY <1>7, <1>8
  <2>2. Cardinality(F) \in Nat
    BY <1>3, <1>6, Ranks
  <2>3. X = [k \in 1 .. Cardinality(F) |-> CandidateOf(fit[k], d)]
    BY <1>5, <1>7
  <2>. QED
    BY <2>1, <2>2, <2>3
<1>10. \A k \in DOMAIN X : /\ SpeaksTruly(X[k])
                           /\ X[k].document = d
                           /\ BringsUp(by, reply, X[k].text)
  <2>1. \A k \in DOMAIN X : \E i \in F : X[k] = CandidateOf(E[i], d)
    BY <1>5, <1>7, <1>9
  <2>. QED
    BY <2>1, <1>8
<1>11. ASSUME NEW t \in Texts, BringsUp(by, reply, t), Worth(t)
       PROVE  \E k \in DOMAIN X : X[k].text = t
  <2>1. PICK i \in 1 .. n : E[i].text = t
    BY <1>2, <1>3, <1>11
  <2>2. E[i] = EntryOf(t, Judged[t])
    BY <1>2, <1>3, <2>1
  <2>3. i \in F
    BY <1>6, <1>11, <2>2, FitIsWorth
  <2>4. Rank(F, i) \in DOMAIN X /\ X[Rank(F, i)] = CandidateOf(E[i], d)
    BY <1>5, <1>7, <1>9, <2>3
  <2>. QED
    BY <2>1, <2>3, <2>4, <1>8
<1>. QED
  BY <1>9, <1>10, <1>11 DEF X

-----------------------------------------------------------------------------
(* The inductive invariant.                                                 *)

LEMMA CandidateIds ==
    ASSUME NEW c \in Candidates
    PROVE  IdOf(c) \in Ids
BY DEF Candidates, IdOf, Ids

LEMMA IdleCall ==
    ASSUME NEW docs \in Seq(Documents), NEW stage \in {"idle", "extracting", "dead"},
           NEW by \in {"platform", "provider"}
    PROVE  LET r == Run(stage, docs, <<>>, <<>>, <<>>)
           IN  r \in Calls /\ CallStands(r) /\ GatheredIsOwed(by, r) /\ GatheredIsTrue(r)
<1>. DEFINE r == Run(stage, docs, <<>>, <<>>, <<>>)
<1>1. /\ r.stage = stage /\ r.docs = docs
      /\ r.heard = <<>> /\ r.batch = <<>> /\ r.put = <<>>
      /\ r \in Calls
  BY DEF Run, Calls, Ended
<1>. HIDE DEF r
<1>2. CallStands(r)
  BY <1>1 DEF CallStands
<1>3. GatheredIsOwed(by, r) /\ GatheredIsTrue(r)
  BY <1>1 DEF GatheredIsOwed, Gathered, Owed, GatheredIsTrue
<1>. QED
  BY <1>1, <1>2, <1>3 DEF r

LEMMA InitInv == Init => IngestionInv
<1>. SUFFICES ASSUME Init PROVE IngestionInv
  OBVIOUS
<1>1. extractor \in {"platform", "provider"} /\ <<>> \in Seq(Documents)
  BY DEF Init
<1>2. /\ Idle \in Calls
      /\ CallStands(Idle)
      /\ GatheredIsOwed(extractor, Idle)
      /\ GatheredIsTrue(Idle)
  BY <1>1, IdleCall DEF Idle
<1>3. Idle.docs = <<>> /\ Idle.put = <<>>
  BY DEF Idle, Run
<1>4. TypeOK
  BY <1>2, <1>3, IngestionAssumption DEF Init, TypeOK
<1>. QED
  BY <1>2, <1>3, <1>4 DEF Init, IngestionInv, QueueSpeaksTruly

\* The elements of two sequences joined are those of the one and of the other.
LEMMA Joined ==
    ASSUME NEW S, NEW s \in Seq(S), NEW u \in Seq(S)
    PROVE  /\ s \o u \in Seq(S)
           /\ Len(s) \in Nat
           /\ Len(s \o u) = Len(s) + Len(u)
           /\ \A k \in DOMAIN s : k \in DOMAIN (s \o u) /\ (s \o u)[k] = s[k]
           /\ \A k \in DOMAIN u : Len(s) + k \in DOMAIN (s \o u) /\ (s \o u)[Len(s) + k] = u[k]
           /\ \A k \in DOMAIN (s \o u) : \/ \E i \in DOMAIN s : (s \o u)[k] = s[i]
                                         \/ \E i \in DOMAIN u : (s \o u)[k] = u[i]
<1>1. /\ s \o u \in Seq(S)
      /\ Len(s) \in Nat /\ Len(u) \in Nat
      /\ Len(s \o u) = Len(s) + Len(u)
      /\ DOMAIN s = 1 .. Len(s) /\ DOMAIN u = 1 .. Len(u)
      /\ DOMAIN (s \o u) = 1 .. Len(s) + Len(u)
  OBVIOUS
<1>2. \A k \in 1 .. Len(s) + Len(u) :
        (s \o u)[k] = IF k <= Len(s) THEN s[k] ELSE u[k - Len(s)]
  OBVIOUS
<1>3. ASSUME NEW k \in DOMAIN (s \o u)
      PROVE  \/ \E i \in DOMAIN s : (s \o u)[k] = s[i]
             \/ \E i \in DOMAIN u : (s \o u)[k] = u[i]
  <2>1. CASE k <= Len(s)
    BY <1>1, <1>2, <2>1
  <2>2. CASE ~(k <= Len(s))
    <3>1. k - Len(s) \in DOMAIN u /\ (s \o u)[k] = u[k - Len(s)]
      BY <1>1, <1>2, <2>2
    <3>. QED
      BY <3>1
  <2>. QED
    BY <2>1, <2>2
<1>4. ASSUME NEW k \in DOMAIN u
      PROVE  Len(s) + k \in DOMAIN (s \o u) /\ (s \o u)[Len(s) + k] = u[k]
  <2>1. Len(s) + k \in 1 .. Len(s) + Len(u) /\ ~(Len(s) + k <= Len(s))
    BY <1>1
  <2>2. (Len(s) + k) - Len(s) = k
    BY <1>1
  <2>. QED
    BY <1>1, <1>2, <2>1, <2>2
<1>. QED
  BY <1>1, <1>2, <1>3, <1>4

\* Hearing of the next document, whose candidates are X and whose outcome is h,
\* keeps the account: what X holds of it is what h owes.
LEMMA HearsMore ==
    ASSUME NEW r \in Calls, NEW by \in {"platform", "provider"},
           r.stage = "extracting", Len(r.heard) < Len(r.docs),
           CallStands(r), GatheredIsOwed(by, r), GatheredIsTrue(r),
           NEW h \in Reply \cup {Failed}, NEW X \in Seq(Candidates),
           NEW d \in Documents, d = r.docs[Len(r.heard) + 1],
           \A k \in DOMAIN X : SpeaksTruly(X[k]) /\ X[k].document = d,
           \A t \in Texts : (\E k \in DOMAIN X : X[k].text = t) <=>
                                h # Failed /\ BringsUp(by, h, t) /\ Worth(t),
           NEW q \in Calls,
           q.stage = r.stage, q.docs = r.docs, q.put = r.put,
           q.heard = Append(r.heard, h), q.batch = r.batch \o X
    PROVE  CallStands(q) /\ GatheredIsOwed(by, q) /\ GatheredIsTrue(q)
<1>. DEFINE n == Len(r.heard)
<1>1. /\ r.heard \in Seq(Reply \cup {Failed})
      /\ r.batch \in Seq(Candidates)
      /\ r.docs \in Seq(Documents)
      /\ n \in Nat
  BY DEF Calls
<1>3. /\ Len(q.heard) = n + 1
      /\ DOMAIN q.heard = 1 .. n + 1
      /\ \A i \in DOMAIN r.heard : i \in DOMAIN q.heard /\ q.heard[i] = r.heard[i]
      /\ n + 1 \in DOMAIN q.heard /\ q.heard[n + 1] = h
      /\ \A i \in DOMAIN q.heard : i \in DOMAIN r.heard \/ i = n + 1
  BY <1>1
<1>4. /\ \A k \in DOMAIN r.batch : k \in DOMAIN q.batch /\ q.batch[k] = r.batch[k]
      /\ \A k \in DOMAIN X : \E i \in DOMAIN q.batch : q.batch[i] = X[k]
      /\ \A k \in DOMAIN q.batch : \/ \E i \in DOMAIN r.batch : q.batch[k] = r.batch[i]
                                   \/ \E i \in DOMAIN X : q.batch[k] = X[i]
  <2>. DEFINE s == r.batch
  <2>1. s \in Seq(Candidates) /\ q.batch = s \o X
    BY <1>1
  <2>. HIDE DEF s
  <2>2. \A k \in DOMAIN s : k \in DOMAIN q.batch /\ q.batch[k] = s[k]
    BY <2>1, Joined
  <2>3. \A k \in DOMAIN X : Len(s) + k \in DOMAIN q.batch /\ q.batch[Len(s) + k] = X[k]
    BY <2>1, Joined
  <2>4. \A k \in DOMAIN q.batch : \/ \E i \in DOMAIN s : q.batch[k] = s[i]
                                  \/ \E i \in DOMAIN X : q.batch[k] = X[i]
    <3>1. \A k \in DOMAIN (s \o X) : \/ \E i \in DOMAIN s : (s \o X)[k] = s[i]
                                     \/ \E i \in DOMAIN X : (s \o X)[k] = X[i]
      BY SMTT(40), <2>1, Joined
    <3>2. TAKE k \in DOMAIN q.batch
    <3>3. k \in DOMAIN (s \o X) /\ q.batch[k] = (s \o X)[k]
      BY <2>1
    <3>. QED
      BY ZenonT(30), <3>1, <3>3
  <2>. QED
    BY <2>2, <2>3, <2>4 DEF s
<1>. HIDE DEF n
<1>5. CallStands(q)
  <2>1. Len(r.docs) \in Nat /\ n + 1 <= Len(r.docs)
    BY <1>1 DEF n
  <2>2. r.put = <<>> /\ Len(r.put) = 0 /\ DOMAIN r.put = {}
    BY DEF CallStands
  <2>3. Len(q.batch) \in Nat
    BY DEF Calls
  <2>. QED
    BY <1>3, <2>1, <2>2, <2>3 DEF CallStands
<1>6. GatheredIsTrue(q)
  <2>1. ASSUME NEW k \in DOMAIN q.batch
        PROVE  SpeaksTruly(q.batch[k])
    BY <1>4 DEF GatheredIsTrue
  <2>. QED
    BY <2>1 DEF GatheredIsTrue
<1>7. ASSUME NEW t \in Texts, NEW e \in Documents
      PROVE  Gathered(q, t, e) <=> Owed(by, q, t, e)
  <2>1. Gathered(r, t, e) <=> Owed(by, r, t, e)
    BY DEF GatheredIsOwed
  <2>2. Gathered(q, t, e) <=>
            \/ Gathered(r, t, e)
            \/ \E k \in DOMAIN X : X[k].text = t /\ X[k].document = e
    <3>1. ASSUME NEW k \in DOMAIN q.batch, q.batch[k].text = t, q.batch[k].document = e
          PROVE  \/ \E i \in DOMAIN r.batch : r.batch[i].text = t /\ r.batch[i].document = e
                 \/ \E i \in DOMAIN X : X[i].text = t /\ X[i].document = e
      <4>1. CASE \E i \in DOMAIN r.batch : q.batch[k] = r.batch[i]
        BY <3>1, <4>1
      <4>2. CASE \E i \in DOMAIN X : q.batch[k] = X[i]
        BY <3>1, <4>2
      <4>. QED
        BY <1>4, <4>1, <4>2
    <3>2. (\E k \in DOMAIN r.batch : r.batch[k].text = t /\ r.batch[k].document = e) =>
            \E k \in DOMAIN q.batch : q.batch[k].text = t /\ q.batch[k].document = e
      BY <1>4
    <3>3. (\E k \in DOMAIN X : X[k].text = t /\ X[k].document = e) =>
            \E k \in DOMAIN q.batch : q.batch[k].text = t /\ q.batch[k].document = e
      BY SMTT(40), <1>4
    <3>. QED
      BY <3>1, <3>2, <3>3 DEF Gathered
  <2>3. (\E k \in DOMAIN X : X[k].text = t /\ X[k].document = e) <=>
            e = d /\ h # Failed /\ BringsUp(by, h, t) /\ Worth(t)
    OBVIOUS
  <2>4. Owed(by, q, t, e) <=>
            Owed(by, r, t, e) \/ (h # Failed /\ d = e /\ BringsUp(by, h, t) /\ Worth(t))
    BY <1>3 DEF Owed, n
  <2>. QED
    BY <2>1, <2>2, <2>3, <2>4
<1>. QED
  BY <1>5, <1>6, <1>7 DEF GatheredIsOwed

\* A call that moves on to another stage, or files, still accounts for the same.
LEMMA SameAccount ==
    ASSUME NEW r \in Calls, NEW q \in Calls, NEW by,
           q.docs = r.docs, q.heard = r.heard, q.batch = r.batch,
           GatheredIsOwed(by, r), GatheredIsTrue(r)
    PROVE  GatheredIsOwed(by, q) /\ GatheredIsTrue(q)
BY DEF GatheredIsOwed, GatheredIsTrue, Gathered, Owed

\* A step of one call keeps the invariant, if the call stands where it may and
\* nothing filed is lost.
LEMMA CallMoves ==
    ASSUME IngestionInv, NEW b \in Bots, NEW r \in Calls,
           run' \in [Bots -> Calls], run'[b] = r,
           \A c \in Bots \ {b} : run'[c] = run[c],
           r.docs \in Batches[b] \cup {<<>>},
           CallStands(r), GatheredIsOwed(extractor, r), GatheredIsTrue(r),
           \A k \in DOMAIN r.put : \/ IdOf(r.put[k]) \in taken'
                                   \/ queue'[IdOf(r.put[k])] # Nothing,
           extractor' = extractor, taken' = taken, runs' \in 0 .. MaxRuns,
           \/ queue' = queue
           \/ \E c \in Candidates : SpeaksTruly(c) /\ Submit(c)
    PROVE  IngestionInv'
<1>1. \A c \in Bots : run'[c] = IF c = b THEN r ELSE run[c]
  BY DEF IngestionInv, TypeOK
<1>2. /\ queue' \in [Ids -> Candidates \cup {Nothing}]
      /\ QueueSpeaksTruly'
      /\ \A id \in Ids : queue'[id] # Nothing => IdOf(queue'[id]) = id
      /\ \A id \in Ids : Filed(id) => id \in taken' \/ queue'[id] # Nothing
  <2>1. CASE queue' = queue
    BY <2>1 DEF IngestionInv, TypeOK, QueueSpeaksTruly, Filed
  <2>2. ASSUME NEW c \in Candidates, SpeaksTruly(c), Submit(c)
        PROVE  /\ queue' \in [Ids -> Candidates \cup {Nothing}]
               /\ QueueSpeaksTruly'
               /\ \A id \in Ids : queue'[id] # Nothing => IdOf(queue'[id]) = id
               /\ \A id \in Ids : Filed(id) => id \in taken' \/ queue'[id] # Nothing
    <3>1. IdOf(c) \in Ids /\ c # Nothing
      BY CandidateIds, IngestionAssumption
    <3>2. \A id \in Ids : queue'[id] = IF id = IdOf(c) THEN c ELSE queue[id]
      BY <2>2 DEF Submit, IngestionInv, TypeOK
    <3>3. queue' \in [Ids -> Candidates \cup {Nothing}]
      BY <2>2 DEF Submit, IngestionInv, TypeOK
    <3>. QED
      BY <2>2, <3>1, <3>2, <3>3 DEF IngestionInv, QueueSpeaksTruly, Filed
  <2>. QED
    BY <2>1, <2>2
<1>3. TypeOK'
  BY <1>1, <1>2 DEF IngestionInv, TypeOK
<1>4. ASSUME NEW c \in Bots
      PROVE  /\ CallStands(run'[c])
             /\ GatheredIsOwed(extractor', run'[c])
             /\ GatheredIsTrue(run'[c])
             /\ \A k \in DOMAIN run'[c].put : \/ IdOf(run'[c].put[k]) \in taken'
                                              \/ queue'[IdOf(run'[c].put[k])] # Nothing
  <2>1. CASE c = b
    BY <1>1, <2>1
  <2>2. CASE c # b
    <3>1. run'[c] = run[c] /\ run[c] \in Calls
      BY <1>1, <2>2 DEF IngestionInv, TypeOK
    <3>2. \A k \in DOMAIN run[c].put : IdOf(run[c].put[k]) \in Ids
      BY <3>1, CandidateIds DEF Calls
    <3>3. \A k \in DOMAIN run[c].put : Filed(IdOf(run[c].put[k]))
      BY DEF IngestionInv
    <3>4. \A k \in DOMAIN run[c].put : \/ IdOf(run[c].put[k]) \in taken'
                                       \/ queue'[IdOf(run[c].put[k])] # Nothing
      BY <1>2, <3>2, <3>3
    <3>. QED
      BY <3>1, <3>4 DEF IngestionInv
  <2>. QED
    BY <2>1, <2>2
<1>. QED
  BY <1>2, <1>3, <1>4 DEF IngestionInv, Filed

-----------------------------------------------------------------------------
(* The steps of a call.                                                     *)

LEMMA BeginStep ==
    ASSUME IngestionInv, NEW b \in Bots, Begin(b)
    PROVE  IngestionInv'
<1>1. PICK docs \in Batches[b] :
        run' = [run EXCEPT ![b] = Run("extracting", docs, <<>>, <<>>, <<>>)]
  BY DEF Begin
<1>. DEFINE r == Run("extracting", docs, <<>>, <<>>, <<>>)
<1>2. docs \in Seq(Documents) /\ extractor \in {"platform", "provider"}
  BY IngestionAssumption DEF IngestionInv, TypeOK
<1>3. r \in Calls /\ CallStands(r) /\ GatheredIsOwed(extractor, r) /\ GatheredIsTrue(r)
  BY <1>2, IdleCall
<1>4. r.docs = docs /\ r.put = <<>>
  BY DEF Run
<1>5. runs' \in 0 .. MaxRuns /\ UNCHANGED <<extractor, queue, taken>>
  BY IngestionAssumption DEF Begin, IngestionInv, TypeOK
<1>. HIDE DEF r
<1>6. run' \in [Bots -> Calls] /\ run'[b] = r /\ \A c \in Bots \ {b} : run'[c] = run[c]
  BY <1>1, <1>3 DEF r, IngestionInv, TypeOK
<1>. QED
  BY <1>3, <1>4, <1>5, <1>6, CallMoves

LEMMA AnsweredStep ==
    ASSUME IngestionInv, NEW b \in Bots, Answered(b)
    PROVE  IngestionInv'
<1>1. PICK reply \in Replies :
        /\ ~Upsetting(extractor, reply, Asked(b))
        /\ run' = [run EXCEPT ![b].heard = Append(@, reply),
                              ![b].batch = @ \o Extracted(extractor, reply, Asked(b))]
  BY DEF Answered
<1>. DEFINE d == Asked(b)
            X == Extracted(extractor, reply, d)
            r == run[b]
            q == run'[b]
<1>2. /\ r \in Calls
      /\ r.docs \in Batches[b] \cup {<<>>}
      /\ r.stage = "extracting"
      /\ Len(r.heard) < Len(r.docs)
      /\ d = r.docs[Len(r.heard) + 1]
      /\ extractor \in {"platform", "provider"}
      /\ CallStands(r) /\ GatheredIsOwed(extractor, r) /\ GatheredIsTrue(r)
      /\ UNCHANGED <<extractor, queue, runs, taken>>
      /\ runs \in 0 .. MaxRuns
  BY DEF Answered, MoreToAsk, Asked, IngestionInv, TypeOK
<1>3. d \in Documents
  <2>1. Len(r.heard) \in Nat /\ Len(r.docs) \in Nat /\ r.docs \in Seq(Documents)
    BY <1>2 DEF Calls
  <2>. QED
    BY <1>2, <2>1
<1>4. reply \in Reply /\ reply # Failed
  BY IngestionAssumption
<1>5. /\ X \in Seq(Candidates)
      /\ \A k \in DOMAIN X : /\ SpeaksTruly(X[k])
                             /\ X[k].document = d
                             /\ BringsUp(extractor, reply, X[k].text)
      /\ \A t \in Texts : BringsUp(extractor, reply, t) /\ Worth(t) =>
            \E k \in DOMAIN X : X[k].text = t
  <2>1. ~Upsetting(extractor, reply, d) /\ extractor \in {"platform", "provider"}
    BY <1>1, <1>2
  <2>. HIDE DEF d
  <2>2. X \in Seq(Candidates)
    BY <1>3, <1>4, <2>1, ExtractedFacts
  <2>3. \A k \in DOMAIN X : /\ SpeaksTruly(X[k])
                            /\ X[k].document = d
                            /\ BringsUp(extractor, reply, X[k].text)
    BY <1>3, <1>4, <2>1, ExtractedFacts
  <2>4. \A t \in Texts : BringsUp(extractor, reply, t) /\ Worth(t) =>
            \E k \in DOMAIN X : X[k].text = t
    BY <1>3, <1>4, <2>1, ExtractedFacts
  <2>. HIDE DEF X
  <2>. QED
    BY <2>2, <2>3, <2>4
<1>6. /\ q.stage = r.stage /\ q.docs = r.docs /\ q.put = r.put
      /\ q.heard = Append(r.heard, reply)
      /\ q.batch = r.batch \o X
      /\ \A c \in Bots \ {b} : run'[c] = run[c]
  BY <1>1 DEF IngestionInv, TypeOK, Calls
<1>7. run' \in [Bots -> Calls]
  <2>1. /\ Append(r.heard, reply) \in Seq(Reply \cup {Failed})
        /\ r.batch \o X \in Seq(Candidates)
    BY <1>2, <1>4, <1>5 DEF Calls
  <2>. HIDE DEF X, d
  <2>. QED
    BY ZenonT(40), <1>1, <2>1 DEF IngestionInv, TypeOK, Calls, X, d
<1>. HIDE DEF d, X, r, q
<1>8. \A t \in Texts : (\E k \in DOMAIN X : X[k].text = t) <=>
                            reply # Failed /\ BringsUp(extractor, reply, t) /\ Worth(t)
  BY <1>4, <1>5 DEF SpeaksTruly
<1>9. q \in Calls
  BY <1>7 DEF q
<1>10. CallStands(q) /\ GatheredIsOwed(extractor, q) /\ GatheredIsTrue(q)
  BY ZenonT(40), <1>2, <1>3, <1>4, <1>5, <1>6, <1>8, <1>9, HearsMore
<1>11. r.put = <<>>
  BY <1>2 DEF CallStands
<1>. QED
  BY <1>2, <1>6, <1>7, <1>9, <1>10, <1>11, CallMoves DEF q

LEMMA SkipStep ==
    ASSUME IngestionInv, NEW b \in Bots, Skip(b)
    PROVE  IngestionInv'
<1>. DEFINE d == Asked(b)
            r == run[b]
            q == run'[b]
<1>1. run' = [run EXCEPT ![b].heard = Append(@, Failed)]
  BY DEF Skip
<1>2. /\ r \in Calls
      /\ r.docs \in Batches[b] \cup {<<>>}
      /\ r.stage = "extracting"
      /\ Len(r.heard) < Len(r.docs)
      /\ d = r.docs[Len(r.heard) + 1]
      /\ extractor \in {"platform", "provider"}
      /\ CallStands(r) /\ GatheredIsOwed(extractor, r) /\ GatheredIsTrue(r)
      /\ UNCHANGED <<extractor, queue, runs, taken>>
      /\ runs \in 0 .. MaxRuns
  BY DEF Skip, MoreToAsk, Asked, IngestionInv, TypeOK
<1>3. d \in Documents
  <2>1. Len(r.heard) \in Nat /\ Len(r.docs) \in Nat /\ r.docs \in Seq(Documents)
    BY <1>2 DEF Calls
  <2>. QED
    BY <1>2, <2>1
<1>4. /\ q.stage = r.stage /\ q.docs = r.docs /\ q.put = r.put
      /\ q.heard = Append(r.heard, Failed)
      /\ q.batch = r.batch
      /\ \A c \in Bots \ {b} : run'[c] = run[c]
  BY <1>1 DEF IngestionInv, TypeOK, Calls
<1>5. run' \in [Bots -> Calls]
  <2>1. Append(r.heard, Failed) \in Seq(Reply \cup {Failed})
    BY <1>2 DEF Calls
  <2>. QED
    BY <1>1, <2>1 DEF IngestionInv, TypeOK, Calls
<1>6. r.batch = r.batch \o <<>>
  BY <1>2 DEF Calls
<1>. HIDE DEF d, r, q
<1>7. q \in Calls
  BY <1>5 DEF q
<1>. DEFINE X == <<>>
<1>8. /\ X \in Seq(Candidates) /\ DOMAIN X = {}
      /\ q.batch = r.batch \o X
      /\ Failed \in Reply \cup {Failed}
  BY <1>4, <1>6
<1>. HIDE DEF X
<1>9. CallStands(q) /\ GatheredIsOwed(extractor, q) /\ GatheredIsTrue(q)
  BY <1>2, <1>3, <1>4, <1>7, <1>8, HearsMore
<1>10. r.put = <<>>
  BY <1>2 DEF CallStands
<1>. QED
  BY <1>2, <1>4, <1>5, <1>7, <1>9, <1>10, CallMoves DEF q

\* Nothing but the stage changes, and the call may stand at the new one.
LEMMA TurnStep ==
    ASSUME IngestionInv, NEW b \in Bots, NEW s \in {"filing"} \cup Ended,
           run' = [run EXCEPT ![b].stage = s],
           UNCHANGED <<extractor, queue, runs, taken>>,
           s \in {"broken", "filing", "returned"} => Len(run[b].heard) = Len(run[b].docs),
           s \in {"filing", "returned"} /\ run[b].docs # <<>> =>
                \E i \in DOMAIN run[b].heard : run[b].heard[i] # Failed,
           s = "broken" => /\ run[b].put = <<>>
                           /\ \A i \in DOMAIN run[b].heard : run[b].heard[i] = Failed,
           s = "returned" => Len(run[b].put) = Len(run[b].batch)
    PROVE  IngestionInv'
<1>. DEFINE r == run[b]
            q == run'[b]
<1>1. /\ r \in Calls
      /\ r.docs \in Batches[b] \cup {<<>>}
      /\ CallStands(r) /\ GatheredIsOwed(extractor, r) /\ GatheredIsTrue(r)
      /\ runs \in 0 .. MaxRuns
      /\ \A k \in DOMAIN r.put : IdOf(r.put[k]) \in taken \/ queue[IdOf(r.put[k])] # Nothing
  BY DEF IngestionInv, TypeOK, Filed
<1>2. /\ q.stage = s /\ q.docs = r.docs /\ q.put = r.put
      /\ q.heard = r.heard /\ q.batch = r.batch
      /\ \A c \in Bots \ {b} : run'[c] = run[c]
  BY DEF IngestionInv, TypeOK, Calls
<1>3. run' \in [Bots -> Calls]
  <2>1. [r EXCEPT !.stage = s] \in Calls
    BY <1>1 DEF Calls
  <2>2. run \in [Bots -> Calls] /\ run' = [run EXCEPT ![b] = [r EXCEPT !.stage = s]]
    BY DEF IngestionInv, TypeOK
  <2>. HIDE DEF r, q
  <2>. QED
    BY <2>1, <2>2
<1>4. q \in Calls
  BY <1>3
<1>5. CallStands(q)
  <2>. HIDE DEF q
  <2>. QED
    BY <1>1, <1>2 DEF CallStands, Ended
<1>. HIDE DEF r, q
<1>6. GatheredIsOwed(extractor, q) /\ GatheredIsTrue(q)
  BY <1>1, <1>2, <1>4, SameAccount
<1>7. \A k \in DOMAIN q.put : \/ IdOf(q.put[k]) \in taken'
                             \/ queue'[IdOf(q.put[k])] # Nothing
  BY <1>1, <1>2
<1>8. runs' \in 0 .. MaxRuns /\ q.docs \in Batches[b] \cup {<<>>} /\ run'[b] = q
  BY <1>1, <1>2 DEF q
<1>9. extractor' = extractor /\ taken' = taken /\ queue' = queue
  OBVIOUS
<1>. QED
  BY <1>2, <1>3, <1>4, <1>5, <1>6, <1>7, <1>8, <1>9, CallMoves

LEMMA ConcludeStep ==
    ASSUME IngestionInv, NEW b \in Bots, Conclude(b)
    PROVE  IngestionInv'
<1>1. /\ run[b].stage = "extracting"
      /\ Len(run[b].heard) = Len(run[b].docs)
      /\ UNCHANGED <<extractor, queue, runs, taken>>
  BY DEF Conclude, AllAsked
<1>2. run[b].put = <<>>
  BY <1>1 DEF IngestionInv, CallStands
<1>3. CASE AllFailed(b)
  <2>1. run' = [run EXCEPT ![b].stage = "broken"]
    BY <1>3 DEF Conclude
  <2>. QED
    BY <1>1, <1>2, <1>3, <2>1, TurnStep DEF AllFailed, Ended
<1>4. CASE ~AllFailed(b)
  <2>1. run' = [run EXCEPT ![b].stage = "filing"]
    BY <1>4 DEF Conclude
  <2>. QED
    BY <1>1, <1>2, <1>4, <2>1, TurnStep DEF AllFailed, Ended
<1>. QED
  BY <1>3, <1>4

LEMMA QuietSteps ==
    ASSUME IngestionInv, NEW b \in Bots, ModelUpsets(b) \/ Return(b) \/ Die(b)
    PROVE  IngestionInv'
<1>1. CASE ModelUpsets(b)
  BY <1>1, TurnStep DEF ModelUpsets, Ended
<1>2. CASE Return(b)
  <2>1. /\ Len(run[b].heard) = Len(run[b].docs)
        /\ run[b].docs # <<>> => \E i \in DOMAIN run[b].heard : run[b].heard[i] # Failed
    BY <1>2 DEF Return, IngestionInv, CallStands
  <2>. QED
    BY <1>2, <2>1, TurnStep DEF Return, Ended
<1>3. CASE Die(b)
  BY <1>3, TurnStep DEF Die, Ended
<1>. QED
  BY <1>1, <1>2, <1>3

\* The next candidate reaches the store, whether the store says so or raises.
LEMMA FiledStep ==
    ASSUME IngestionInv, NEW b \in Bots, NEW s \in {"filing", "unfiled"},
           MoreToFile(b), Submit(Upcoming(b)),
           run' = [run EXCEPT ![b].stage = s, ![b].put = Append(@, Upcoming(b))],
           UNCHANGED <<extractor, runs, taken>>
    PROVE  IngestionInv'
<1>. DEFINE r == run[b]
            c == Upcoming(b)
            q == run'[b]
<1>1. /\ r \in Calls
      /\ r.docs \in Batches[b] \cup {<<>>}
      /\ r.stage = "filing"
      /\ Len(r.put) < Len(r.batch)
      /\ c = r.batch[Len(r.put) + 1]
      /\ CallStands(r) /\ GatheredIsOwed(extractor, r) /\ GatheredIsTrue(r)
      /\ runs \in 0 .. MaxRuns
      /\ \A k \in DOMAIN r.put : Filed(IdOf(r.put[k]))
  BY DEF MoreToFile, Upcoming, IngestionInv, TypeOK
<1>2. /\ Len(r.put) \in Nat /\ Len(r.batch) \in Nat
      /\ r.put \in Seq(Candidates) /\ r.batch \in Seq(Candidates)
  BY <1>1 DEF Calls
<1>3. Len(r.put) + 1 \in DOMAIN r.batch /\ c \in Candidates
  BY <1>1, <1>2
<1>4. SpeaksTruly(c) /\ IdOf(c) \in Ids /\ c # Nothing
  BY <1>1, <1>3, CandidateIds, IngestionAssumption DEF GatheredIsTrue
<1>5. /\ q.stage = s /\ q.docs = r.docs /\ q.heard = r.heard
      /\ q.batch = r.batch
      /\ q.put = Append(r.put, c)
      /\ \A e \in Bots \ {b} : run'[e] = run[e]
  BY DEF IngestionInv, TypeOK, Calls
<1>6. run' \in [Bots -> Calls]
  <2>1. Append(r.put, c) \in Seq(Candidates)
    BY <1>2, <1>3
  <2>. DEFINE put == Append(r.put, c)
  <2>2. run' = [run EXCEPT ![b].stage = s, ![b].put = put]
    OBVIOUS
  <2>3. s \in {"idle", "extracting", "filing"} \cup Ended
    BY DEF Ended
  <2>4. put \in Seq(Candidates)
    BY <2>1
  <2>. HIDE DEF put, c
  <2>. QED
    BY <2>2, <2>3, <2>4 DEF IngestionInv, TypeOK, Calls
<1>7. Submit(c)
  OBVIOUS
<1>. HIDE DEF r, c, q
<1>8. q \in Calls /\ run'[b] = q
  BY <1>6 DEF q
<1>9. /\ Len(q.put) = Len(r.put) + 1
      /\ DOMAIN q.put = 1 .. Len(r.put) + 1
      /\ \A k \in DOMAIN q.put : \/ k \in DOMAIN r.put /\ q.put[k] = r.put[k]
                                 \/ k = Len(r.put) + 1 /\ q.put[k] = c
  BY <1>2, <1>3, <1>5
<1>10. CallStands(q)
  BY <1>1, <1>2, <1>5, <1>9 DEF CallStands
<1>11. GatheredIsOwed(extractor, q) /\ GatheredIsTrue(q)
  BY <1>1, <1>5, <1>8, SameAccount
<1>12. \A k \in DOMAIN q.put : \/ IdOf(q.put[k]) \in taken'
                               \/ queue'[IdOf(q.put[k])] # Nothing
  <2>1. \A id \in Ids : queue'[id] = IF id = IdOf(c) THEN c ELSE queue[id]
    BY <1>7 DEF Submit, IngestionInv, TypeOK
  <2>2. \A k \in DOMAIN r.put : IdOf(r.put[k]) \in Ids
    BY <1>2, CandidateIds
  <2>3. \A k \in DOMAIN r.put : \/ IdOf(r.put[k]) \in taken'
                                \/ queue'[IdOf(r.put[k])] # Nothing
    BY <1>1, <1>4, <2>1, <2>2 DEF Filed
  <2>4. queue'[IdOf(c)] # Nothing
    BY <1>4, <2>1
  <2>. QED
    BY <1>9, <2>3, <2>4
<1>13. /\ extractor' = extractor /\ taken' = taken /\ runs' \in 0 .. MaxRuns
       /\ q.docs \in Batches[b] \cup {<<>>}
       /\ \E e \in Candidates : SpeaksTruly(e) /\ Submit(e)
  BY <1>1, <1>3, <1>4, <1>5, <1>7
<1>. QED
  BY <1>5, <1>6, <1>8, <1>10, <1>11, <1>12, <1>13, CallMoves

LEMMA FileSteps ==
    ASSUME IngestionInv, NEW b \in Bots, File(b) \/ FileFails(b)
    PROVE  IngestionInv'
<1>1. CASE File(b)
  <2>1. run[b].stage = "filing" /\ run[b] \in Calls /\ run \in [Bots -> Calls]
    BY <1>1 DEF File, MoreToFile, IngestionInv, TypeOK
  <2>2. [run EXCEPT ![b].put = Append(@, Upcoming(b))]
            = [run EXCEPT ![b].stage = "filing", ![b].put = Append(@, Upcoming(b))]
    BY <2>1 DEF Calls
  <2>. QED
    BY <1>1, <2>2, FiledStep DEF File
<1>2. CASE FileFails(b)
  <2>1. CASE UNCHANGED queue /\ run' = [run EXCEPT ![b].stage = "unfiled"]
    BY <1>2, <2>1, TurnStep DEF FileFails, Ended
  <2>2. CASE /\ Submit(Upcoming(b))
             /\ run' = [run EXCEPT ![b].stage = "unfiled", ![b].put = Append(@, Upcoming(b))]
    BY <1>2, <2>2, FiledStep DEF FileFails
  <2>. QED
    BY <1>2, <2>1, <2>2 DEF FileFails
<1>. QED
  BY <1>1, <1>2

\* A reviewer takes a candidate, which has been filed all the same.
LEMMA DecideStep ==
    ASSUME IngestionInv, NEW id \in Ids, Decide(id)
    PROVE  IngestionInv'
<1>1. /\ queue' = [queue EXCEPT ![id] = Nothing]
      /\ taken' = taken \cup {id}
      /\ UNCHANGED <<extractor, run, runs>>
  BY DEF Decide
<1>2. \A i \in Ids : queue'[i] = IF i = id THEN Nothing ELSE queue[i]
  BY <1>1 DEF IngestionInv, TypeOK
<1>3. TypeOK'
  BY <1>1 DEF IngestionInv, TypeOK
<1>4. QueueSpeaksTruly' /\ \A i \in Ids : queue'[i] # Nothing => IdOf(queue'[i]) = i
  BY <1>2 DEF IngestionInv, QueueSpeaksTruly
<1>5. ASSUME NEW b \in Bots, NEW k \in DOMAIN run[b].put
      PROVE  \/ IdOf(run[b].put[k]) \in taken'
             \/ queue'[IdOf(run[b].put[k])] # Nothing
  <2>1. run[b].put[k] \in Candidates
    BY DEF IngestionInv, TypeOK, Calls
  <2>2. IdOf(run[b].put[k]) \in Ids /\ Filed(IdOf(run[b].put[k]))
    BY <2>1, CandidateIds DEF IngestionInv
  <2>. QED
    BY <1>1, <1>2, <2>2 DEF Filed
<1>. QED
  BY <1>1, <1>3, <1>4, <1>5 DEF IngestionInv, Filed

\* When a process stops over its in-memory queue, nothing is queued and no call
\* has filed anything.
LEMMA StopStep ==
    ASSUME IngestionInv, Stop
    PROVE  IngestionInv'
<1>. DEFINE dead == Run("dead", <<>>, <<>>, <<>>, <<>>)
<1>1. /\ UNCHANGED <<extractor, runs, taken>>
      /\ queue' = [id \in Ids |-> Nothing]
      /\ run' = [b \in Bots |-> dead]
  BY DEF Stop
<1>2. extractor \in {"platform", "provider"} /\ <<>> \in Seq(Documents)
  BY DEF IngestionInv, TypeOK
<1>3. /\ dead \in Calls
      /\ CallStands(dead)
      /\ GatheredIsOwed(extractor, dead)
      /\ GatheredIsTrue(dead)
  BY <1>2, IdleCall
<1>4. dead.docs = <<>> /\ dead.put = <<>>
  BY DEF Run
<1>. HIDE DEF dead
<1>5. TypeOK'
  BY <1>1, <1>3, <1>4 DEF IngestionInv, TypeOK
<1>. QED
  BY <1>1, <1>3, <1>4, <1>5 DEF IngestionInv, QueueSpeaksTruly

LEMMA StepInv == IngestionInv /\ [Next]_vars => IngestionInv'
<1>. SUFFICES ASSUME IngestionInv, [Next]_vars PROVE IngestionInv'
  OBVIOUS
<1>1. ASSUME NEW b \in Bots, Advance(b)
      PROVE  IngestionInv'
  BY <1>1, AnsweredStep, SkipStep, QuietSteps, ConcludeStep, FileSteps
     DEF Advance, ModelFails, TextsFail, ClassifierFails
<1>2. ASSUME NEW b \in Bots, Begin(b) \/ Die(b)
      PROVE  IngestionInv'
  BY <1>2, BeginStep, QuietSteps
<1>3. CASE UNCHANGED vars
  BY <1>3 DEF vars, IngestionInv, TypeOK, QueueSpeaksTruly, Filed
<1>. QED
  BY <1>1, <1>2, <1>3, DecideStep, StopStep DEF Next

-----------------------------------------------------------------------------
(* The results.                                                             *)

\* At every moment of every ingestion, each call has gathered exactly what the
\* answers it has heard owe, and nothing filed is lost.
THEOREM IngestionInvHolds == Spec => []IngestionInv
BY InitInv, StepInv, PTL DEF Spec

\* Every variable keeps its type.
THEOREM IngestionTypes == Spec => []TypeOK
<1>1. IngestionInv => TypeOK
  BY DEF IngestionInv
<1>. QED
  BY <1>1, IngestionInvHolds, PTL

\* A run over some documents returns only if one of them was answered, and
\* reports total failure only if none was, having filed nothing.
THEOREM NoQuietFailureHolds == Spec => []NoQuietFailure
<1>1. IngestionInv => NoQuietFailure
  <2>. SUFFICES ASSUME IngestionInv, NEW b \in Bots
                PROVE  /\ run[b].stage = "returned" /\ run[b].docs # <<>> =>
                            \E i \in DOMAIN run[b].heard : run[b].heard[i] # Failed
                       /\ run[b].stage = "broken" =>
                            /\ run[b].put = <<>>
                            /\ \A i \in DOMAIN run[b].docs : run[b].heard[i] = Failed
    BY DEF NoQuietFailure
  <2>1. CallStands(run[b]) /\ run[b] \in Calls
    BY DEF IngestionInv, TypeOK
  <2>2. Len(run[b].heard) = Len(run[b].docs) => DOMAIN run[b].heard = DOMAIN run[b].docs
    BY <2>1 DEF Calls
  <2>. QED
    BY <2>1, <2>2 DEF CallStands
<1>. QED
  BY <1>1, IngestionInvHolds, PTL

\* What waits for a reviewer carries the judgement of its own text and the scope
\* of its own document.
THEOREM QueueSpeaksTrulyHolds == Spec => []QueueSpeaksTruly
<1>1. IngestionInv => QueueSpeaksTruly
  BY DEF IngestionInv
<1>. QED
  BY <1>1, IngestionInvHolds, PTL

\* A fact once filed waits until a person takes it, whatever later runs file or
\* fail at.
THEOREM FiledFactsWaitHolds == Spec => []FiledFactsWait
<1>1. IngestionInv => FiledFactsWait
  <2>. SUFFICES ASSUME IngestionInv, NEW b \in Bots, NEW k \in DOMAIN run[b].put
                PROVE  LET c == run[b].put[k]
                       IN  \/ [text |-> c.text, scope |-> c.scope, type |-> c.type] \in taken
                           \/ \E id \in Ids : /\ queue[id] # Nothing
                                              /\ queue[id].text = c.text
                                              /\ queue[id].scope = c.scope
                                              /\ queue[id].type = c.type
    BY DEF FiledFactsWait
  <2>. DEFINE c == run[b].put[k]
  <2>1. c \in Candidates
    BY DEF IngestionInv, TypeOK, Calls
  <2>2. IdOf(c) \in Ids /\ Filed(IdOf(c))
    BY <2>1, CandidateIds DEF IngestionInv
  <2>3. IdOf(c) = [text |-> c.text, scope |-> c.scope, type |-> c.type]
    BY DEF IdOf
  <2>. HIDE DEF c
  <2>4. CASE IdOf(c) \in taken
    BY <2>3, <2>4 DEF c
  <2>5. CASE queue[IdOf(c)] # Nothing
    <3>. DEFINE w == queue[IdOf(c)]
    <3>1. IdOf(w) = IdOf(c)
      BY <2>2, <2>5 DEF IngestionInv
    <3>2. w.text = c.text /\ w.scope = c.scope /\ w.type = c.type
      BY <3>1 DEF IdOf
    <3>. QED
      BY <2>2, <2>5, <3>2 DEF c
  <2>. QED
    BY <2>2, <2>4, <2>5 DEF Filed
<1>. QED
  BY <1>1, IngestionInvHolds, PTL

\* A run that returns has filed every fact worth keeping of every document that
\* was answered, under that document's name, and nothing else.
THEOREM ReturnedIsCompleteHolds == Spec => []ReturnedIsComplete
<1>1. IngestionInv => ReturnedIsComplete
  <2>. SUFFICES ASSUME IngestionInv, NEW b \in Bots, run[b].stage = "returned"
                PROVE  {<<run[b].put[k].text, run[b].put[k].document>> :
                            k \in DOMAIN run[b].put}
                         = UNION {{<<t, run[b].docs[i]>> :
                                      t \in {t \in Texts :
                                            /\ BringsUp(extractor, run[b].heard[i], t)
                                            /\ Worth(t)}} :
                               i \in {i \in DOMAIN run[b].docs : run[b].heard[i] # Failed}}
    BY DEF ReturnedIsComplete
  <2>. DEFINE r == run[b]
  <2>1. r \in Calls /\ CallStands(r) /\ GatheredIsOwed(extractor, r)
    BY DEF IngestionInv, TypeOK
  <2>2. /\ DOMAIN r.heard = DOMAIN r.docs
        /\ DOMAIN r.put = DOMAIN r.batch
        /\ \A k \in DOMAIN r.put : r.put[k] = r.batch[k] /\ r.put[k] \in Candidates
        /\ \A i \in DOMAIN r.docs : r.docs[i] \in Documents
    BY <2>1 DEF CallStands, Calls
  <2>. HIDE DEF r
  <2>3. \A k \in DOMAIN r.put : r.put[k].text \in Texts /\ r.put[k].document \in Documents
    BY <2>2 DEF Candidates
  <2>4. \A t \in Texts, d \in Documents :
            (\E k \in DOMAIN r.put : r.put[k].text = t /\ r.put[k].document = d) <=>
                \E i \in DOMAIN r.docs : /\ r.heard[i] # Failed
                                         /\ r.docs[i] = d
                                         /\ BringsUp(extractor, r.heard[i], t)
                                         /\ Worth(t)
    BY <2>1, <2>2 DEF GatheredIsOwed, Gathered, Owed
  <2>. DEFINE filed == {<<r.put[k].text, r.put[k].document>> : k \in DOMAIN r.put}
              of(i) == {<<t, r.docs[i]>> :
                            t \in {t \in Texts : BringsUp(extractor, r.heard[i], t) /\ Worth(t)}}
              owed == UNION {of(i) : i \in {i \in DOMAIN r.docs : r.heard[i] # Failed}}
  <2>5. ASSUME NEW x \in filed PROVE x \in owed
    <3>1. PICK k \in DOMAIN r.put : x = <<r.put[k].text, r.put[k].document>>
      OBVIOUS
    <3>2. PICK i \in DOMAIN r.docs : /\ r.heard[i] # Failed
                                     /\ r.docs[i] = r.put[k].document
                                     /\ BringsUp(extractor, r.heard[i], r.put[k].text)
                                     /\ Worth(r.put[k].text)
      BY <2>3, <2>4
    <3>3. x \in of(i)
      BY <2>3, <3>1, <3>2
    <3>. QED
      BY <3>2, <3>3
  <2>6. ASSUME NEW x \in owed PROVE x \in filed
    <3>1. PICK i \in DOMAIN r.docs : r.heard[i] # Failed /\ x \in of(i)
      OBVIOUS
    <3>2. PICK t \in Texts : /\ BringsUp(extractor, r.heard[i], t) /\ Worth(t)
                             /\ x = <<t, r.docs[i]>>
      BY <3>1
    <3>3. \E k \in DOMAIN r.put : r.put[k].text = t /\ r.put[k].document = r.docs[i]
      BY <2>2, <2>4, <3>1, <3>2
    <3>. QED
      BY <3>2, <3>3
  <2>. HIDE DEF filed, owed
  <2>7. filed = owed
    BY <2>5, <2>6
  <2>. QED
    BY <2>7 DEF filed, owed, r
<1>. QED
  BY <1>1, IngestionInvHolds, PTL
=============================================================================
