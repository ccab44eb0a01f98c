------------------------------- MODULE PeerMix -------------------------------
(***************************************************************************)
(* Which candidates the connection manager dials: the spread of peers it   *)
(* aims to be connected to, over the buckets that the first bits of node   *)
(* ids put nodes in, and over the finer buckets of this node's neighbors,  *)
(* who share its own.                                                      *)
(***************************************************************************)
EXTENDS Integers, FiniteSets, SequencesExt

CONSTANTS
    Nodes,              (* the other nodes *)
    Own,                (* this node *)
    BucketOf,           (* the bucket of each node, by the first bits of its id *)
    PlaceOf,            (* and its place in that bucket, by the bits after them *)
    MinOutgoing,        (* how many buckets are to be covered *)
    MinNeighborhood     (* and how many places in this node's own *)

Unknown == "unknown"    (* the node a seed stands for, if it is not known *)
MixSize == MinOutgoing + MinNeighborhood

ASSUME PeerMixAssumption ==
    /\ Own \notin Nodes
    /\ BucketOf \in [Nodes \cup {Own} -> Nat]
    /\ PlaceOf \in [Nodes -> Nat]
    /\ MinOutgoing \in Nat
    /\ MinNeighborhood \in Nat

Bucket(n) == BucketOf[n]
Neighbors(nodes) == {n \in nodes : BucketOf[n] = BucketOf[Own]}

(* A candidate is named by its node, or by its endpoint if that is unknown. *)
Key(candidate) ==
    IF candidate.node = Unknown THEN candidate.endpoints[1] ELSE candidate.node
Named(candidates) == {c.node : c \in ToSet(candidates)} \ {Unknown}

(* The places in its own bucket that the nodes connected cover, and the    *)
(* buckets. Its own is covered only by a neighbor that its places have no  *)
(* use for.                                                                *)
CoveredPlaces(nodes) == {PlaceOf[n] : n \in Neighbors(nodes)}
CoveredBuckets(nodes) ==
    LET places == Cardinality(CoveredPlaces(nodes))
        wanted == IF places < MinNeighborhood THEN places ELSE MinNeighborhood
    IN  ({Bucket(n) : n \in nodes} \ {BucketOf[Own]})
        \cup (IF Cardinality(Neighbors(nodes)) > wanted THEN {BucketOf[Own]} ELSE {})

(* The best candidate in each place not covered, until enough are.         *)
Spread(candidates, Place(_), covered, wanted, taken) ==
    LET Takes(chosen, c) ==
            LET nodes == Named(chosen)
                places == covered \cup {Place(n) : n \in nodes}
            IN  IF \/ Cardinality(places) >= wanted
                   \/ c.node \in taken \cup nodes
                   \/ Place(c.node) \in places
                THEN chosen ELSE Append(chosen, c)
    IN  FoldLeft(Takes, <<>>, candidates)

(* PeerMix.choose, where `taken` are the nodes connected or being dialed,  *)
(* and `count` how many connections there are or are being opened.         *)
Choose(candidates, taken, count) ==
    LET known == SelectSeq(candidates, LAMBDA c : c.node # Unknown)
        first == Spread(known, Bucket, CoveredBuckets(taken), MinOutgoing, taken)
        near == SelectSeq(known, LAMBDA c : c.node \in Neighbors(Nodes))
        second == Spread(near, LAMBDA n : PlaceOf[n], CoveredPlaces(taken), MinNeighborhood,
                         taken \cup Named(first))
        Fills(chosen, c) ==
            IF \/ count + Len(chosen) >= MixSize
               \/ c \in ToSet(chosen)
               \/ c.node \in taken \cup Named(chosen)
            THEN chosen ELSE Append(chosen, c)
    IN  FoldLeft(Fills, first \o second, candidates)
=============================================================================
