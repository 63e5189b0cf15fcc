------------------------ MODULE MCUserActionConsumer ------------------------
(* UserActionConsumer on a few messages, two coroutines and two users. *)
EXTENDS UserActionConsumer, TLC

CONSTANTS m1, m2, m3, m4, s1, s2

Payload(u, k) == [user_id |-> u, idempotency_key |-> k]

\* Two users; messages of u can meet under one key or under two.
MCPayloads == {Payload("u", "k"), Payload("u", "j"), Payload("v", "k")}

AllGood  == [m \in Messages |-> "good"]
AllKinds == [m \in Messages |-> IF m = m3 THEN "broken"
                                ELSE IF m = m4 THEN "refused" ELSE "good"]

\* A refused message at the head of the queue, then the well-formed ones.
RefusedFirst == {<<m4, m1>>, <<m4, m2>>, <<m1, m2>>}

Symmetry == Permutations(Messages) \cup Permutations(Slots)
============================================================================
