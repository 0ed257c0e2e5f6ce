--------------------------- MODULE MCReviewSession ---------------------------
(***************************************************************************)
(* Review sessions on a small instance: two reviewers, one of whom may act  *)
(* on cards the other has decided or a bot has replaced.  The second fact is *)
(* what an edit of the first one's content or scope makes of it.            *)
(***************************************************************************)
EXTENDS ReviewSession

CONSTANTS fact, other

MCFacts == {fact, other}
MCProposed == {fact}
=============================================================================
