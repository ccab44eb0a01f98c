----------------------------- MODULE MCGeneration -----------------------------
(* The instance of KarmaGeneration that TLC checks.                        *)
EXTENDS KarmaGeneration

Issued == [g \in 0..9 |-> 12 - g]

Pays(from, to, amount, fee, moment) ==
    [from |-> from, to |-> to, amount |-> amount, fee |-> fee, generation |-> 1,
     moment |-> moment]

(* The first two are in the chain the network is met on. *)
Payments == <<Pays(1, 2, 4, 0, 1), Pays(1, 3, 3, 0, 2),
              Pays(2, 1, 2, 0, 3), Pays(3, 1, 1, 0, 4), Pays(1, 3, 2, 1, 5),
              Pays(2, 3, 2, 2, 6), Pays(2, 3, 4, 0, 3), Pays(3, 2, 3, 0, 7)>>

Only(set) == CHOOSE one \in set : TRUE
OnlyHead == Root(1)

(* The first generation is the creator's, who pays the two others. *)
Second ==
    Only(UNION {PlacedValidation(ValidationOf(first, {[staker |-> 1, on |-> first.id, kismet |-> 5,
                                                       made |-> 0]}, NoBlock, {}, 1, 0)) :
                   first \in Placed({1, 2}, OnlyHead, 1, 1, TRUE)})

Distrusting == [n \in Nodes |-> IF n = 2 THEN {3} ELSE {}]
Staking == [n \in Nodes |-> IF n = 2 THEN 50 ELSE 100]

None == [stakes |-> 0, evictions |-> 0, restarts |-> 0]
Start(grown, some, given, payments, luck, lacks, events) ==
    LET Of(sets) == [n \in some |-> IF n \in DOMAIN sets THEN sets[n] ELSE {}]
    IN  [head |-> grown, nodes |-> some, people |-> {1}, given |-> Of(given),
         payments |-> Of(payments), luck |-> luck, lacks |-> Of(lacks),
         may |-> [e \in DOMAIN None |-> IF e \in DOMAIN events THEN events[e] ELSE 0]]

Meetings == {
  Start(TRUE, {1, 2}, (1 :> {5} @@ 2 :> {3, 4}), <<>>, <<1, 1, 1>>, <<>>, <<>>),
  Start(TRUE, {1, 2}, (1 :> {3} @@ 2 :> {4}), <<>>, <<1, 1, 1>>, <<>>, [evictions |-> 1]),
  Start(TRUE, {1, 2}, (1 :> {3, 4}), <<>>, <<1, 1, 1>>, (2 :> {3}), <<>>),
  Start(TRUE, {2, 3}, (2 :> {3, 4} @@ 3 :> {5}), <<>>, <<1, 1, 1>>, <<>>, <<>>),
  Start(TRUE, {1, 2, 3}, (1 :> {3, 5}), <<>>, <<1, 1, 1>>, <<>>, <<>>),
  Start(TRUE, {1, 2}, (1 :> {3, 4, 5}), <<>>, <<2, 1, 1>>, <<>>, [stakes |-> 1]),
  Start(TRUE, {1, 2}, (1 :> {3, 4}), (2 :> {6}), <<2, 1, 1>>, <<>>, <<>>),
  Start(FALSE, {1, 2}, (1 :> {1} @@ 2 :> {2}), <<>>, <<1, 2, 1>>, <<>>, [restarts |-> 1]),
  Start(FALSE, {1, 3}, (1 :> {1}), (1 :> {2, 5}), <<1, 2, 3>>, <<>>, <<>>),
  Start(FALSE, {1, 2}, (1 :> {1, 5}), <<>>, <<1, 3, 1>>, <<>>, <<>>),
  Start(TRUE, {1, 2}, (1 :> {3}), (2 :> {7}), <<1, 1, 1>>, <<>>, <<>>)
  }
Networks == {[s EXCEPT !.head = IF s.head THEN Second ELSE OnlyHead] : s \in Meetings}

=============================================================================
