-------------------------- MODULE MCActionService --------------------------
(* ActionService on small sets of requests, processes and payloads. *)
EXTENDS ActionService, TLC

CONSTANTS r1, r2, r3, i1, i2

Payload(u, t, p, k) ==
    [user_id |-> u, action_type |-> t, product_id |-> p, idempotency_key |-> k]

\* Two users that share a key, an unknown type, a key that is too long.
MCPayloads == {Payload("u", "view", "1", "k"), Payload("v", "save", "1", "k"),
               Payload("u", "click", "1", "k"), Payload("u", "view", "1", "long")}

\* For the run without temporal properties.
Symmetry == Permutations(Requests) \cup Permutations(Instances)
============================================================================
