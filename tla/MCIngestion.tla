---------------------------- MODULE MCIngestion ----------------------------
(***************************************************************************)
(* Ingestion on a small instance: two documents under two scopes and one    *)
(* whose tier and task do not go together, an extractor that takes at most  *)
(* two facts, and a text for everything that can be wrong with one.         *)
(***************************************************************************)
EXTENDS Ingestion

CONSTANTS sound, dubious, weak, stray, poisoned, vast, rule, here, elsewhere,
          d1, d2, mixed, b1, b2

MCJudged ==
    [t \in Texts |->
        [type       |-> IF t = stray THEN Untyped ELSE rule,
         confidence |-> CASE t = sound -> Certain + 1
                          [] t = dubious -> Unreadable
                          [] t = weak -> 0
                          [] t = poisoned -> NotANumber
                          [] t = vast -> Huge
                          [] OTHER -> Certain]]

MCScopeOf == [d \in Documents |-> IF d = d2 THEN elsewhere ELSE here]

\* The second bot meets a document the first one ingests too.
MCBatches ==
    [b \in Bots |-> IF b = b1 THEN {<<d1, d2>>} ELSE {<<d1>>, <<mixed>>, <<>>}]

Answer(texts, numbers) == [texts |-> texts, numbers |-> numbers]

\* A blank that takes a place or a number; a weak text, one beyond the cut, and
\* a classifier that answers for the weak one only; a stray text with an
\* unreadable number; NaN within the cut; an infinite number; a huge confidence.
MCReplies ==
    {Answer(<<Blank, dubious, sound>>, {0, 1}),
     Answer(<<weak, sound, dubious>>, {0}),
     Answer(<<stray, sound>>, {1, Unreadable}),
     Answer(<<sound, poisoned>>, {0, 1}),
     Answer(<<sound, weak>>, {0, Endless}),
     Answer(<<vast, sound>>, {0, 1})}
=============================================================================
