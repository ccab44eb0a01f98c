----------------------------- MODULE SafeKeeping -----------------------------
(***************************************************************************)
(* What storage pressure may do to the content a node holds, and no more   *)
(* (docs/specs/HighLevelDesign.md 4.5 and 4.11): content goes from the     *)
(* source of truth only once a peer has accepted a copy of it, or because  *)
(* this node has shunned it, and this node's own public key never goes.    *)
(* The eviction module (Eviction.tla) is shown to implement this.          *)
(***************************************************************************)

CONSTANTS
    Content,    (* content ids *)
    Own         (* the id of this node, whose content is its public key *)

VARIABLES
    held,       (* content in this node's source of truth *)
    elsewhere,  (* content some peer has accepted from this node *)
    shunned     (* content this node has refused to hold *)

vars == <<held, elsewhere, shunned>>

Init ==
    /\ held \in {S \in SUBSET Content : Own \in S}
    /\ elsewhere = {}
    /\ shunned = {}

(* New content is stored. *)
Keep(c) ==
    /\ held' = held \cup {c}
    /\ UNCHANGED <<elsewhere, shunned>>

(* Peers accept copies, only of what this node holds or held before.       *)
Accept(taken) ==
    /\ taken \subseteq held \cup elsewhere \cup shunned
    /\ elsewhere' = elsewhere \cup taken
    /\ UNCHANGED <<held, shunned>>

(* The owner of the node shuns content. *)
Shun(c) ==
    /\ shunned' = shunned \cup {c}
    /\ UNCHANGED <<held, elsewhere>>

(* The node lets go of its copy. *)
LetGo(c) ==
    /\ c # Own
    /\ c \in elsewhere \cup shunned
    /\ held' = held \ {c}
    /\ UNCHANGED <<elsewhere, shunned>>

Next ==
    \/ \E c \in Content : Keep(c) \/ Shun(c) \/ LetGo(c)
    \/ \E taken \in SUBSET Content : Accept(taken)

Spec == Init /\ [][Next]_vars
=============================================================================
