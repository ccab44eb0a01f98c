------------------------------ MODULE MCEviction ------------------------------
(***************************************************************************)
(* Small instances of the eviction module for TLC.                         *)
(***************************************************************************)
EXTENDS Eviction

(* What may happen in one behaviour, anything else not at all. *)
None == [kind \in Kinds |-> 0]
SafetyBounds ==
    {[None EXCEPT !["writes"] = 1, ![kind] = 1] : kind \in {"shuns", "links", "asks", "crashes", "losses"}}
    \cup {[None EXCEPT !["links"] = 1, ![kind] = 1] : kind \in {"losses", "shuns"}}
    \cup {[None EXCEPT !["space"] = 1]}
LivenessBounds == {[None EXCEPT !["links"] = 1, !["losses"] = 1]}
=============================================================================
