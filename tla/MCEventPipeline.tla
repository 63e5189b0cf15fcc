-------------------------- MODULE MCEventPipeline --------------------------
(* EventPipeline on a few requests, with small payloads. *)
EXTENDS EventPipeline

CONSTANTS r1, r2, i1, s1

Payload(u, k) ==
    [user_id |-> u, action_type |-> "view", product_id |-> "1", idempotency_key |-> k]

\* Repeats of one request, a rival user of its key.
MCPayloads == {Payload("u", "k"), Payload("v", "k")}
============================================================================
