------------------------------- MODULE MCTrust -------------------------------
(* The instance of Trust that TLC checks.                                   *)
EXTENDS Trust

Everyone == {"me", "p", "a", "b"}
MCOrder == <<"a", "b", "me", "p">>

None == [sessions |-> 0, changes |-> 0, elsewhere |-> 0, errors |-> 0, failures |-> 0, hasty |-> 0,
         rebuilds |-> 0, rules |-> 0, restarts |-> 0, idles |-> 0, leaves |-> 0, false1 |-> 0, false2 |-> 0]
Builders == [block \in {"false1", "false2"} |-> IF block = "false1" THEN <<"a", "b">> ELSE <<"me", "b">>]

MCWishes == {<<"b", -1>>, <<"a", -1>>}
Says1(i, trusted) == [NoEntries EXCEPT ![i] = trusted]
Drop(owner, number, entries, at) ==
  [owner |-> owner, number |-> number, entries |-> entries, at |-> at, shunned |-> "no"]

Begin(drops, had, events) ==
  [doc |-> drops, up |-> FALSE, kept |-> had, may |-> events @@ None]
UpWith(drops, events) == [doc |-> drops, up |-> TRUE, kept |-> NoStates, may |-> events @@ None]

MyList == 5 :> Drop("me", 1, Says1("a", 1), "held")
TheirList == 5 :> Drop("p", 1, Says1("a", 1), "held")
ListOfA == 6 :> Drop("a", 1, Says1("b", -1), "known")
HeldOfA == 6 :> Drop("a", 1, Says1("b", -1), "held")

MCStarts == {
  UpWith(TheirList, [sessions |-> 2, idles |-> 1, leaves |-> 1, errors |-> 1]),
  UpWith(TheirList @@ ListOfA, [sessions |-> 1, changes |-> 1]),
  UpWith(TheirList, [sessions |-> 1, changes |-> 2]),
  UpWith(TheirList @@ 0 :> Drop("p", 2, Says1("b", 1), "elsewhere"), [sessions |-> 1, changes |-> 1]),
  UpWith(TheirList, [sessions |-> 2, changes |-> 1, leaves |-> 1]),
  Begin(MyList @@ HeldOfA, Says1("b", -1), [rebuilds |-> 1, restarts |-> 1, rules |-> 1, hasty |-> 1]),
  Begin(MyList @@ HeldOfA, Says1("b", -1), [rebuilds |-> Always, errors |-> 1, restarts |-> 1]),
  Begin(MyList, NoStates, [rebuilds |-> Always, changes |-> 1]),
  UpWith(<<>>, [false1 |-> 1, failures |-> 1]),
  UpWith(<<>>, [false1 |-> 1, false2 |-> 1]),
  Begin(MyList @@ ListOfA, NoStates, [rebuilds |-> Always, elsewhere |-> 1]),
  UpWith(5 :> Drop("me", 1, NoEntries, "known"), [false2 |-> 1, failures |-> 1, restarts |-> 1]),
  Begin(MyList, NoStates, [rebuilds |-> Always, false2 |-> 1]),
  UpWith(<<>>, [false2 |-> 1, changes |-> 1])
  }
=============================================================================
