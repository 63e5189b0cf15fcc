---------------------------- MODULE MCProductIds ----------------------------
(* ProductIds with integers of three bits and a value of every sort. *)
EXTENDS ProductIds, TLC

CONSTANTS u1, u2

Text(f, n)   == [kind |-> "string", text |-> [form |-> f, n |-> n]]
Number(n, x) == [kind |-> "number", n |-> n, exact |-> x]

\* Numbers on both sides of 3 = 2^2-1 and 7 = 2^3-1, as numbers and as strings.
MCValues ==
    {Number(n, TRUE) : n \in {-1, 3, 4, 7, 8}} \cup {Number(n, FALSE) : n \in {2, 4}}
        \cup {Text("digits", n) : n \in {3, 4}}
        \cup {Text("loose", -4), Text("word", 0), [kind |-> "other"]}

Symmetry == Permutations(Users)
============================================================================
