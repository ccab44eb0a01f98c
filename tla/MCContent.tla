------------------------------ MODULE MCContent ------------------------------
(***************************************************************************)
(* Small instances of how content comes to be held: a bundle with one      *)
(* extension, which is also the public key of a node, and one path.        *)
(***************************************************************************)
EXTENDS Content

CONSTANTS theBundle, extension, peer, thePath

OnlyBundle == [one \in {thePath} |-> theBundle]
OneExtension == [c \in {theBundle, extension} |-> IF c = theBundle THEN {extension} ELSE {}]
AllForPath == [r \in Requests |-> thePath]

(* What may happen in one behaviour, anything else not at all. *)
None == [kind \in Kinds |-> 0]
ArrivalBounds ==
    {[None EXCEPT !["uploads"] = 2, !["fetches"] = 1],
     [None EXCEPT !["uploads"] = 2, !["gets"] = 1],
     [None EXCEPT !["fetches"] = 1, !["requests"] = 2],
     [None EXCEPT !["fetches"] = 2, !["requests"] = 1],
     [None EXCEPT !["requests"] = 2, !["reclaims"] = 1],
     [None EXCEPT !["fetches"] = 1, !["requests"] = 1, !["shuns"] = 1]}
    \cup {[None EXCEPT !["uploads"] = 1, !["gets"] = 1, ![kind] = 1] :
              kind \in {"evictions", "shuns"}}
    \cup {[None EXCEPT !["uploads"] = 1, !["requests"] = 1, ![kind] = 1] :
              kind \in {"crashes", "losses"}}
=============================================================================
