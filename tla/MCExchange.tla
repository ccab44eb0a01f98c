------------------------------ MODULE MCExchange ------------------------------
(***************************************************************************)
(* Small instances of the connection manager: two nodes and their          *)
(* addresses, one of which the second has taken over from the first.       *)
(***************************************************************************)
EXTENDS Exchange, TLC

CONSTANTS n1, n2, me, e1, e2, moved, c1, c2, q1

Answering == [e \in Endpoints |-> IF e = e1 THEN n1 ELSE n2]
Apart == n1 :> 0 @@ n2 :> 1 @@ me :> 2
Place == n1 :> 0 @@ n2 :> 0
Ranks == c1 :> <<n1, n2>> @@ c2 :> <<n2, n1>>

Hash == c1 :> <<0, 1>> @@ c2 :> <<1, 0>>
Prefix == q1 :> <<0>>
RanksFor == q1 :> <<n2, n1>>

At(n, endpoints) == [node |-> n, endpoints |-> endpoints]
Listed == <<At(n1, <<moved, e1>>), At(n2, <<e2>>)>>
Seeds == <<At(Unknown, <<moved>>), At(n1, <<e1>>)>>

None == [kind \in Kinds |-> 0]
Start == [trust |-> Allowing({n1, n2}), connected |-> <<>>, candidates |-> Listed, lists |-> {},
          trusts |-> {}, asks |-> {}, contents |-> {c1}, sources |-> {me}, left |-> None,
          followed |-> FALSE, talks |-> FALSE, held |-> {}, seekLists |-> {}, askers |-> {}]
MixStarts ==
    {[Start EXCEPT !.trust = Untold, !.candidates = Seeds, !.trusts = {{n1, n2}, {n1}},
                   !.left = [None EXCEPT !["opens"] = 2, !["trusts"] = 2]],
     [Start EXCEPT !.lists = {Seeds},
                   !.left = [None EXCEPT !["opens"] = 2, !["lists"] = 1]],
     [Start EXCEPT !.candidates = <<At(n2, <<e2>>)>>, !.trusts = {{n1}}, !.asks = {moved},
                   !.left = [None EXCEPT !["opens"] = 2, !["asks"] = 1, !["trusts"] = 1]],
     [Start EXCEPT !.trust = Untold, !.candidates = <<>>, !.trusts = {{n1, n2}}, !.asks = {e1},
                   !.left = [None EXCEPT !["opens"] = 1, !["asks"] = 1, !["trusts"] = 1]],
     [Start EXCEPT !.left = [None EXCEPT !["opens"] = 2, !["closes"] = 1]],
     [Start EXCEPT !.left = [None EXCEPT !["opens"] = 1, !["turnings"] = 1]],
     [Start EXCEPT !.connected = <<e2>>, !.candidates = <<At(Unknown, <<moved>>)>>,
                   !.left = [None EXCEPT !["opens"] = 2, !["closes"] = 1]],
     [Start EXCEPT !.left = [None EXCEPT !["opens"] = 1, !["closes"] = 1, !["stops"] = 1]]}
PushStarts ==
    {[Start EXCEPT !.connected = <<e1>>, !.candidates = <<At(n2, <<e2>>)>>,
                   !.left = [None EXCEPT !["opens"] = 1, !["closes"] = 2, !["stores"] = 1]],
     [Start EXCEPT !.connected = <<e1>>, !.candidates = <<At(n1, <<e1>>)>>,
                   !.contents = {c1, c2},
                   !.left = [None EXCEPT !["opens"] = 1, !["closes"] = 1, !["stores"] = 2]],
     [Start EXCEPT !.connected = <<e1, e2>>, !.candidates = <<>>,
                   !.contents = {c1, c2}, !.sources = {me, n2},
                   !.left = [None EXCEPT !["closes"] = 2, !["stores"] = 2]],
     [Start EXCEPT !.connected = <<e1>>, !.candidates = <<>>,
                   !.contents = {c1, c2}, !.sources = {n1, n2},
                   !.left = [None EXCEPT !["stores"] = 2, !["removals"] = 1]]}
SearchStarts ==
    {[Start EXCEPT !.connected = <<e1, e2>>, !.candidates = <<>>,
                   !.left = [None EXCEPT !["stores"] = 1, !["fetches"] = 2]],
     [Start EXCEPT !.connected = <<e1>>, !.candidates = <<>>,
                   !.left = [None EXCEPT !["fetches"] = 2, !["errors"] = 1]],
     [Start EXCEPT !.connected = <<e1>>, !.candidates = <<At(n2, <<e2>>)>>,
                   !.left = [None EXCEPT !["opens"] = 1, !["fetches"] = 1]],
     [Start EXCEPT !.connected = <<e1, e2>>, !.candidates = <<>>,
                   !.left = [None EXCEPT !["closes"] = 1, !["fetches"] = 1]]}
Ending == [Start EXCEPT !.followed = TRUE]
EndStarts ==
    {[Ending EXCEPT !.candidates = <<At(n1, <<e1>>), At(n2, <<e2>>)>>, !.trusts = {{n2}},
                   !.left = [None EXCEPT !["opens"] = 1, !["trusts"] = 1]],
     [Ending EXCEPT !.connected = <<e1>>, !.candidates = <<>>, !.asks = {e2},
                   !.left = [None EXCEPT !["opens"] = 1, !["asks"] = 1, !["closes"] = 1]],
     [Ending EXCEPT !.connected = <<e1>>, !.candidates = <<At(n1, <<e1>>)>>,
                   !.left = [None EXCEPT !["opens"] = 1, !["closes"] = 1, !["stores"] = 1]],
     [Ending EXCEPT !.connected = <<e1>>, !.candidates = <<>>,
                   !.left = [None EXCEPT !["closes"] = 1, !["fetches"] = 2]]}
Seeking(data, queries) == [data |-> data, queries |-> queries]
Asked(n, relays) == [node |-> n, relays |-> relays]
TalkStarts ==
    {[Start EXCEPT !.talks = TRUE, !.candidates = <<At(n1, <<e1>>)>>, !.contents = {c2}, !.held = {c1},
                   !.seekLists = {Seeking(<<c2, c1>>, {q1})},
                   !.left = [None EXCEPT !["opens"] = 1, !["stores"] = 1]],
     [Start EXCEPT !.talks = TRUE, !.connected = <<e1>>, !.candidates = <<>>, !.held = {c1, c2},
                   !.seekLists = {Seeking(<<>>, {q1}), Seeking(<<c2>>, {})},
                   !.left = [None EXCEPT !["closes"] = 1, !["heads"] = 1]],
     [Start EXCEPT !.talks = TRUE, !.connected = <<e1>>, !.candidates = <<>>, !.lists = {<<>>},
                   !.left = [None EXCEPT !["closes"] = 1, !["lists"] = 1]],
     [Ending EXCEPT !.talks = TRUE, !.candidates = <<At(n1, <<e1>>)>>, !.held = {c1},
                   !.seekLists = {Seeking(<<>>, {q1})},
                   !.left = [None EXCEPT !["opens"] = 1, !["closes"] = 1]]}
BroadcastStarts ==
    {[Start EXCEPT !.connected = <<e1, e2>>, !.candidates = <<>>,
                   !.askers = {Asked(me, 0), Asked(n1, 1), Asked(n2, 0)},
                   !.left = [None EXCEPT !["searches"] = 2, !["closes"] = 1, !["stops"] = 1]],
     [Ending EXCEPT !.connected = <<e1>>, !.candidates = <<>>, !.askers = {Asked(me, 0)},
                   !.left = [None EXCEPT !["searches"] = 2, !["errors"] = 1]]}
AllStarts ==
    MixStarts \cup PushStarts \cup SearchStarts \cup EndStarts \cup TalkStarts \cup BroadcastStarts

(* The search that widens finds what there is that matches best, whatever  *)
(* is held and searched for; and an answer names as many as have room.     *)
SmallHashes == [1..2 -> Digits]
SmallPrefixes == UNION {[1..n -> Digits] : n \in 1..2}
ASSUME SearchFindsBest ==
    \A stock \in UNION {kSubset(n, SmallHashes) : n \in 0..2}, prefix \in SmallPrefixes :
        SearchHeld(prefix, stock) = BestMatches(prefix, stock)

Growing(n) == {size \in [0..n -> 0..4] : \A i \in 1..n : size[i - 1] <= size[i]}
ASSUME AnswersAreFull ==
    \A n \in 0..4, limit \in 1..4, block \in 1..3 : \A size \in Growing(n) : size[0] < limit =>
        LET plain == [size EXCEPT ![n] = limit]
            named == FitIn(n, plain, size, limit, block)
        IN  size[named] < limit /\ (named = n \/ size[named + 1] >= limit)
=============================================================================
