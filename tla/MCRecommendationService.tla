---------------------- MODULE MCRecommendationService ----------------------
(* RecommendationService on a few calls, with the TTLs scaled down. *)
EXTENDS RecommendationService, TLC

CONSTANTS c1, c2, a1

\* In the order of the code's: half an hour, one hour, one day.
MCSideTtl  == [popular |-> 1, gpt_rank |-> 1, similar |-> 2]
MCPayloads == {[user_id |-> "u"]}

Symmetry == Permutations(Calls)
============================================================================
