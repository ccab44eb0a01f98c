----------------------------- MODULE TrustScores -----------------------------
(***************************************************************************)
(* Trust lists, the versions they are kept in, and the scores built from   *)
(* them: identity/trust.py, identity/versions.py.                           *)
(*                                                                         *)
(* A list's entries say 1 of an identity trusted, -1 of one distrusted,    *)
(* and 0 of any other.                                                      *)
(***************************************************************************)
EXTENDS Integers, Sequences, FiniteSets, SequencesExt

CONSTANTS
  Identities,  \* every identity
  Order,       \* their ids, as they sort
  MaxSteps,    \* how far scores reach
  MaxLists,    \* how many lists they read
  Unread       \* of a list not read yet

ASSUME TrustAssumption ==
  /\ Range(Order) = Identities
  /\ MaxSteps \in Nat \ {0}
  /\ MaxLists \in Nat \ {0}
  /\ Unread \notin [Identities -> {-1, 0, 1}]

NoEntries == [i \in Identities |-> 0]

PlaceOf(i) == CHOOSE k \in DOMAIN Order : Order[k] = i

-----------------------------------------------------------------------------
(* Scores. *)

Read(lists, owners) == {o \in Range(owners) : lists[o] # Unread}

Score(identity, net) == [identity |-> identity, net |-> net]
Scored(scores) == {score.identity : score \in scores}

(* What the lists of owners make the scores of those they first reach.       *)
Names(person, lists, owners, scores) ==
  {i \in Identities \ ({person} \cup Scored(scores)) : \E o \in Read(lists, owners) : lists[o][i] # 0}
Net(lists, owners, i) ==
  Cardinality({o \in Read(lists, owners) : lists[o][i] = 1})
  - Cardinality({o \in Read(lists, owners) : lists[o][i] = -1})

(* The trusted, the most trusted first, then by id. *)
Before(s, t) == s.net > t.net \/ (s.net = t.net /\ PlaceOf(s.identity) < PlaceOf(t.identity))
Sorted(scores) ==
  CHOOSE s \in [1 .. Cardinality(scores) -> scores] : \A k \in 2 .. Cardinality(scores) : Before(s[k - 1], s[k])
ReadingOrder(scores) ==
  LET trusted == Sorted({score \in scores : score.net > 0})
  IN [k \in DOMAIN trusted |-> trusted[k].identity]

(* Whose lists are still to be read. *)
Ascending(numbers) ==
  CHOOSE s \in [1 .. Cardinality(numbers) -> numbers] : \A k \in 2 .. Cardinality(numbers) : s[k - 1] < s[k]
Needed(lists, owners) ==
  LET unread == Ascending({k \in DOMAIN owners : lists[owners[k]] = Unread})
  IN [k \in DOMAIN unread |-> owners[unread[k]]]

First(s, n) == SubSeq(s, 1, IF n < Len(s) THEN n ELSE Len(s))

(* The scores after each step, unless the one before it lacks lists, which  *)
(* ends it.                                                                  *)
SoFar == [scores : SUBSET [identity : Identities, net : Int], owners : Seq(Identities),
          lists_read : Nat, needed : Seq(Identities)]
from_lists(person, lists) ==
  LET next[so_far \in SoFar] ==
        LET owners == First(so_far.owners, MaxLists - so_far.lists_read)
            reached == {Score(i, Net(lists, owners, i)) : i \in Names(person, lists, owners, so_far.scores)}
        IN [scores |-> so_far.scores \cup reached, owners |-> ReadingOrder(reached),
            lists_read |-> so_far.lists_read + Len(owners),
            needed |-> Needed(lists, owners)]
      after[n \in 0 .. MaxSteps] ==
        IF n = 0 THEN [scores |-> {}, owners |-> <<person>>, lists_read |-> 0, needed |-> <<>>]
        ELSE IF after[n - 1].needed # <<>> THEN after[n - 1] ELSE next[after[n - 1]]
  IN after[MaxSteps]

Sign(n) == IF n > 0 THEN 1 ELSE IF n < 0 THEN -1 ELSE 0
states(scores) ==
  [i \in Identities |-> IF \E score \in scores : score.identity = i
                        THEN Sign((CHOOSE score \in scores : score.identity = i).net) ELSE 0]

(* Whom lists make person trust and distrust, and the lists needed before   *)
(* that is complete.                                                         *)
ScoresOf(person, lists) ==
  LET scores == from_lists(person, lists)
  IN [states |-> states(scores.scores), needed |-> scores.needed]
complete(scores) == scores.needed = <<>>

-----------------------------------------------------------------------------
(* Versions.  Of two numbered alike, the newer is that whose id sorts first. *)

Version(number, entries, id) == [number |-> number, entries |-> entries, id |-> id]

Newer(v, w) == v.number > w.number \/ (v.number = w.number /\ v.id < w.id)
Newest(versions) == CHOOSE v \in versions : \A w \in versions \ {v} : Newer(v, w)
Replaced(versions) == IF versions = {} THEN {} ELSE versions \ {Newest(versions)}
EntriesOf(versions) == IF versions = {} THEN NoEntries ELSE Newest(versions).entries

next_number(versions) == IF versions = {} THEN 1 ELSE Newest(versions).number + 1
=============================================================================
