------------------------------- MODULE MCKarma -------------------------------
(* The instance of Karma that TLC checks.                                   *)
EXTENDS Karma

(* From the root r, a and b part, and at b2 others; d and w are other roots. *)
World == {"r", "a2", "a3", "b2", "b3", "c3", "own3", "x3", "d", "w"}

Before == [g \in World |-> CASE g \in {"a2", "b2"} -> "r" [] g = "a3" -> "a2"
                             [] g \in {"r", "d", "w"} -> NoGeneration [] OTHER -> "b2"]
Works == [g \in World |-> CASE g \in {"d", "b3", "own3"} -> 2 [] g = "x3" -> 3 [] g = "w" -> 4
                            [] OTHER -> 1]
Ranks == [g \in World |-> CASE g \in {"r", "a2", "a3", "own3"} -> 1 [] g \in {"b2", "c3", "d"} -> 2
                            [] g \in {"b3", "w"} -> 3 [] g = "x3" -> 4]
Claim == [g \in World |-> IF g \in {"a3", "b2", "x3"} THEN Weight[g] + 1 ELSE Weight[g]]
Holds == [g \in World |-> CASE g \in {"a2", "c3"} -> {11} [] g = "a3" -> {12}
                            [] g = "own3" -> {1} [] OTHER -> {}]
Lists == [g \in World |-> CASE g = "a2" -> {12} [] g = "b2" -> {11} [] OTHER -> {}]

None == [arrivals |-> 0, evictions |-> 0, tellings |-> 0, failures |-> 0, roots |-> 0,
         crashes |-> 0, payments |-> 0, payouts |-> 0, given |-> 0]

Start(had, keys, followed, events) ==
    [held |-> had, backed |-> World \ keys, history |-> followed,
     may |-> [e \in DOMAIN None |-> IF e \in DOMAIN events THEN events[e] ELSE None[e]]]

A == <<"r", "a2", "a3">>
B == <<"r", "b2">>
HasA == {"r", "a2", "a3"}

Scenarios == {
    Start({"r"}, {}, <<>>, [arrivals |-> 2, roots |-> 1, crashes |-> 1]),
    Start({"r", "x3"}, {"x3"}, <<"r">>, [arrivals |-> 3, tellings |-> 1]),
    Start(HasA, {"b2"}, A, [arrivals |-> 2, tellings |-> 2, crashes |-> 1]),
    Start(HasA \cup {"b2"}, {}, A, [arrivals |-> 1, tellings |-> 1, failures |-> 2]),
    Start(HasA \cup {"b2"}, {"r", "a2"}, A, [arrivals |-> 1, tellings |-> 2, evictions |-> 1]),
    Start(HasA, {}, <<"r">>, [arrivals |-> 1, given |-> 1, crashes |-> 1]),
    Start({"r", "b2"}, {}, B, [arrivals |-> 1, payments |-> 2, payouts |-> 1, crashes |-> 1]),
    Start({"r", "b2"}, {}, B, [payments |-> 2, payouts |-> 1, failures |-> 2])
    }

=============================================================================
