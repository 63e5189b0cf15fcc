-------------------------- MODULE MCFeedCoherence --------------------------
(* FeedCoherence on one user, two GETs at a time and a few messages. *)
EXTENDS FeedCoherence, TLC

CONSTANTS c1, c2, m1, s1

MCSideTtl  == [popular |-> 1, gpt_rank |-> 1, similar |-> 1]
MCPayloads == {[user_id |-> "u", idempotency_key |-> "k"]}

Symmetry == Permutations(Calls)
============================================================================
