----------------------------- MODULE MCRanking -----------------------------
(* Ranking on a few products and days. *)
EXTENDS Ranking

CONSTANTS u1, u2

MCCast     == [x \in {"1", "01", "2", "3"} |-> CASE x \in {"1", "01"} -> 1 [] x = "2" -> 2 [] x = "3" -> 3]
MCTexts    == {"1", "01", "2", "3"}
\* 1 and 2 are neighbours, 3 has no category.
MCCategory == [p \in {1, 2} |-> "c"]
MCRanked   == <<4, 3>>

Symmetry == Permutations(Users)
============================================================================
