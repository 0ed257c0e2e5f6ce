----------------------------- MODULE Extraction -----------------------------
(***************************************************************************)
(* What the two extractors make of a language model's answer               *)
(* (src/firm_memory/ingestion/extraction.py and                             *)
(* src/firm_memory/providers/mem0/extraction.py).                           *)
(*                                                                          *)
(* The models are external.  An answer lists texts, some of them blank or   *)
(* not even an object; what the model thinks of a text is its Judged value, *)
(* a type and a confidence as the JSON has them.  The platform's extractor  *)
(* gets texts and judgements in one answer.  mem0's gets the texts, numbers *)
(* those it will use from 0, and asks a second time; the classifier then    *)
(* returns the judgement of the text shown under each number it answers.    *)
(* Texts that differ only in letter case or outer blanks are one text, as   *)
(* they are for candidate_id().                                             *)
(***************************************************************************)
EXTENDS Integers, Sequences, FiniteSets

CONSTANTS
    Texts,          \* fact texts a model can come up with
    Blank,          \* an entry without a usable text
    Types,          \* the taxonomy
    Untyped,        \* any type outside it, the classifier's "none" included
    NotANumber,     \* a confidence of NaN, which json.loads and float() accept
    Huge,           \* an integer beyond any float: float() raises OverflowError
    Unreadable,     \* a confidence or a number that does not convert
    Endless,        \* an index of Infinity: int() raises OverflowError
    Judged,         \* text -> the type and the raw confidence the model gives it
    Documents,
    Scopes,
    ScopeOf,        \* document -> the scope its facts inherit
    Misfiled,       \* documents whose tier and task no Memory may combine
    Certain,        \* confidence 1.0
    Middle,         \* the confidence assumed when the model's cannot be read
    MinConfidence,  \* DEFAULT_MIN_CONFIDENCE
    MaxFacts        \* max_facts

RawConfidence == Int \cup {NotANumber, Huge, Unreadable}

ASSUME ExtractionAssumption ==
    /\ Blank \notin Texts
    /\ Untyped \notin Types
    /\ {NotANumber, Huge, Unreadable, Endless} \cap Int = {}
    /\ Unreadable \notin {NotANumber, Huge, Endless} /\ NotANumber # Huge
    /\ Judged \in [Texts -> [type : Types \cup {Untyped}, confidence : RawConfidence]]
    /\ ScopeOf \in [Documents -> Scopes]
    /\ Misfiled \subseteq Documents
    /\ Certain \in Nat \ {0}
    /\ Middle \in 0 .. Certain
    /\ MinConfidence \in 0 .. Certain
    /\ MaxFacts \in Nat \ {0}

Reply == [texts   : Seq(Texts \cup {Blank}),
          numbers : SUBSET (Nat \cup {Unreadable, Endless})]

\* An extracted fact before it is judged fit, and the memory built of one.
Entry == [text : Texts, type : Types \cup {Untyped}, confidence : RawConfidence]

Candidates == [text       : Texts,
               type       : Types,
               confidence : 0 .. Certain,
               scope      : Scopes,
               document   : Documents]

-----------------------------------------------------------------------------
FirstOf(s) == SubSeq(s, 1, IF Len(s) < MaxFacts THEN Len(s) ELSE MaxFacts)

\* What is left of a sequence when all but the places I are dropped.
Rank(I, i) == Cardinality({j \in I : j <= i})
Nth(I, k) == CHOOSE i \in I : Rank(I, i) = k
Those(s, I) == [k \in 1 .. Cardinality(I) |-> s[Nth(I, k)]]

Legible(texts) == Those(texts, {i \in DOMAIN texts : texts[i] # Blank})

EntryOf(t, judgement) ==
    [text |-> t, type |-> judgement.type, confidence |-> judgement.confidence]

\* LLMFactExtractor.extract(): the answer is cut to max_facts first, and blanks
\* are dropped from what is left.
PlatformEntries(reply) ==
    LET taken == Legible(FirstOf(reply.texts))
    IN  [i \in DOMAIN taken |-> EntryOf(taken[i], Judged[taken[i]])]

\* _extract_texts(): blanks are dropped before the cut, so the numbers count
\* legible texts only.
Numbered(reply) == FirstOf(Legible(reply.texts))

\* _parse_classifications(): number -> judgement.  Entries whose number does
\* not convert are skipped.  Of two entries for a number the last counts; a
\* classifier that does not contradict itself makes them the same.
Classified(reply) ==
    LET shown == Numbered(reply)
    IN  [n \in {n \in reply.numbers \cap Nat : n < Len(shown)}
            |-> Judged[shown[n + 1]]]

\* A slip: the k-th text takes the k-th judgement that came back.
PairedInOrder(reply) ==
    LET shown == Numbered(reply)
        judgements == Classified(reply)
        answered == {i \in DOMAIN shown : i - 1 \in DOMAIN judgements}
    IN  [k \in 1 .. Cardinality(answered) |->
            EntryOf(shown[k], judgements[Nth(answered, k) - 1])]

\* _pair_with_texts(): each text meets the judgement of its own number, and one
\* the classifier passed over is dropped.
Paired(reply) ==
    LET shown == Numbered(reply)
        judgements == Classified(reply)
        paired == [i \in DOMAIN judgements |-> EntryOf(shown[i + 1], judgements[i])]
    IN  Those([i \in DOMAIN shown |-> paired[i - 1]],
              {i \in DOMAIN shown : i - 1 \in DOMAIN judgements})

-----------------------------------------------------------------------------
\* _confidence(): clamped to a probability; NaN passes both min() and max(), and
\* for a huge integer there is no value.
Clamped(raw) ==
    IF raw = Unreadable THEN Middle
    ELSE IF raw \in {NotANumber, Huge} THEN raw
    ELSE IF raw < 0 THEN 0
    ELSE IF raw > Certain THEN Certain
    ELSE raw

\* NaN is not below any threshold.
TooWeak(raw) == Clamped(raw) \in Int /\ Clamped(raw) < MinConfidence

\* coerce_type() resolves it; anything else is a TaxonomyError.
Known(type) == type \in Types

\* _to_memory() goes on to build a Memory; anything else it drops.
Fit(e) == Known(e.type) /\ ~TooWeak(e.confidence)

\* A slip: the range tested as `confidence < 0 or confidence > 1`.
UnbuildableByMisfiling(e, d) == Fit(e) /\ d \in Misfiled

\* Memory.__post_init__ refuses it: neither _to_memory() nor extract_all()
\* catches an InvalidInputError.
Unbuildable(e, d) ==
    Fit(e) /\ (Clamped(e.confidence) = NotANumber \/ d \in Misfiled)

\* The candidate of a fact: scope and provenance are the document's.
CandidateOf(e, d) ==
    [text |-> e.text, type |-> e.type, confidence |-> Clamped(e.confidence),
     scope |-> ScopeOf[d], document |-> d]

EntriesOf(extractor, reply) ==
    IF extractor = "platform" THEN PlatformEntries(reply) ELSE Paired(reply)

\* extract() raises something other than an ExtractionError: over a number, over
\* a confidence whatever its type, or over the memory it cannot build.
Upsetting(extractor, reply, d) ==
    \/ /\ extractor = "provider"
       /\ Numbered(reply) # <<>>
       /\ Endless \in reply.numbers
    \/ \E i \in DOMAIN EntriesOf(extractor, reply) :
            LET e == EntriesOf(extractor, reply)[i]
            IN  e.confidence = Huge \/ Unbuildable(e, d)

\* What extract() returns when it returns.
Extracted(extractor, reply, d) ==
    LET entries == EntriesOf(extractor, reply)
        fit == Those(entries, {i \in DOMAIN entries : Fit(entries[i])})
    IN  [i \in DOMAIN fit |-> CandidateOf(fit[i], d)]
=============================================================================
