--------------------------- MODULE MCPeerConnection ----------------------------
(***************************************************************************)
(* Small instances of PeerConnection: two callers that share a connection,  *)
(* one of which pipelines two requests, and in each scenario one or two     *)
(* things that go wrong.                                                    *)
(***************************************************************************)
EXTENDS PeerConnection, TLC

CONSTANTS r1, r2, r3, pipelining, other

Batches == (pipelining :> <<r1, r2>>) @@ (other :> <<r3>>)

Nothing == [k \in {"closes", "turns", "frames", "forges", "garbles", "unasked", "hangs", "stalls"} |-> 0]
Once(kinds) == [k \in DOMAIN Nothing |-> IF k \in kinds THEN 1 ELSE 0]
Scenarios == {Once(kinds) : kinds \in {
    {"closes", "frames"}, {"turns"}, {"forges"}, {"garbles"}, {"unasked"}, {"hangs"}, {"stalls"}}}
================================================================================
