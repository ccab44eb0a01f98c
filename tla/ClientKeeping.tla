---------------------------- MODULE ClientKeeping ----------------------------
(***************************************************************************)
(* The peers connected to the web server: how many connections each has,   *)
(* the list of them last named to the other modules, and which are kept.   *)
(* InboundPeers and ClientKeeping, each with a lock of its own.  The lock  *)
(* of InboundPeers is held while a list is published; what ClientKeeping   *)
(* does under its own is one step.                                         *)
(*                                                                         *)
(* What the node seeks and the Kismet each peer holds are read from files  *)
(* others write; here they do not change.  A clock is how long ago each    *)
(* client was last of value, up to ValueSeconds.                           *)
(***************************************************************************)
EXTENDS Integers, SequencesExt

CONSTANTS
  Peers,          \* the nodes that connect
  NoPeer,
  Kismet,         \* what each of them holds
  OwnKismet,      \* and what this node does
  Sought,         \* the content this node's seek list asks for
  KeepCount,      \* network.client_keep_count
  GraceRequests,  \* network.client_grace_requests
  ValueSeconds    \* network.client_value_seconds

ASSUME KeepingAssumption ==
  /\ IsFiniteSet(Peers) /\ NoPeer \notin Peers
  /\ Kismet \in [Peers -> Nat] /\ OwnKismet \in Nat
  /\ {KeepCount, GraceRequests, ValueSeconds} \subseteq Nat

VARIABLES
  connections,  \* InboundPeers._connections: none for a peer that has none
  naming,       \* the list being published under its lock, for each peer it is for
  named,        \* the list last published
  uses          \* ClientKeeping._uses

clients == <<connections, naming, named, uses>>

NewUse == [idle |-> 0, requests |-> 0, closing |-> FALSE]
Clients == DOMAIN uses

ClientsInit ==
  /\ connections = [n \in {} |-> 0]
  /\ naming = {}
  /\ named = {}
  /\ uses = [n \in {} |-> NewUse]

Without(f, n) == [m \in DOMAIN f \ {n} |-> f[m]]
With(f, n, to) == [m \in DOMAIN f \cup {n} |-> IF m = n THEN to ELSE f[m]]

-----------------------------------------------------------------------------
(* InboundPeers.  `at` is the connection whose thread takes the lock.      *)

LockFree == naming = {}

(* The peers to be named are read as the first connection is counted, and  *)
(* the list goes out before the lock is let go.                            *)
Names(at, peers) == naming' = naming \cup {[at |-> at, peers |-> peers]}

Opened(at, n) ==
  /\ LockFree
  /\ IF n \in DOMAIN connections
     THEN /\ connections' = [connections EXCEPT ![n] = @ + 1]
          /\ UNCHANGED <<naming, uses>>
     ELSE /\ connections' = With(connections, n, 1)
          /\ uses' = With(uses, n, NewUse)
          /\ Names(at, DOMAIN connections')
  /\ UNCHANGED named

(* Mutant of Closed: a list is published after the lock is let go.         *)
ClosedUnlocked(at, n) ==
  /\ connections' = IF connections[n] > 1 THEN [connections EXCEPT ![n] = @ - 1]
                    ELSE Without(connections, n)
  /\ IF connections[n] > 1 THEN UNCHANGED <<naming, uses>>
     ELSE Names(at, DOMAIN connections') /\ uses' = Without(uses, n)
  /\ UNCHANGED named

Closed(at, n) ==
  /\ LockFree
  /\ IF connections[n] > 1
     THEN /\ connections' = [connections EXCEPT ![n] = @ - 1]
          /\ UNCHANGED <<naming, uses>>
     ELSE /\ connections' = Without(connections, n)
          /\ uses' = Without(uses, n)
          /\ Names(at, DOMAIN connections')
  /\ UNCHANGED named

IsNaming(at) == \E list \in naming : list.at = at

Publishes(at) ==
  \E list \in naming :
    /\ list.at = at
    /\ named' = list.peers
    /\ naming' = naming \ {list}
    /\ UNCHANGED <<connections, uses>>

-----------------------------------------------------------------------------
(* ClientKeeping.                                                          *)

Pushed(n, content) ==
  /\ uses' = IF content \in Sought /\ n \in Clients
             THEN [uses EXCEPT ![n].idle = 0, ![n].closing = FALSE]
             ELSE uses
  /\ UNCHANGED <<connections, naming, named>>

(* The median is half way from the least that half of the peers hold no    *)
(* more than to the least that more than half do: twice it is their sum,   *)
(* and a whole number.                                                     *)
AtMost(peers, amount) == {n \in peers : Kismet[n] <= amount}
HalfHold(peers) ==
  {amount \in {Kismet[n] : n \in peers} :
     2 * Cardinality(AtMost(peers, amount)) >= Cardinality(peers)}
MostHold(peers) ==
  {amount \in {Kismet[n] : n \in peers} :
     2 * Cardinality(AtMost(peers, amount)) > Cardinality(peers)}
TwiceMedian(peers) == Min(HalfHold(peers)) + Min(MostHold(peers))

Staying == {n \in Clients : ~uses[n].closing}

Closes(n) ==
  /\ Cardinality(Staying) > KeepCount
  /\ 2 * Kismet[n] < TwiceMedian(Staying)
  /\ Kismet[n] < OwnKismet

Passes(n, use) ==
  \/ use.requests <= GraceRequests
  \/ use.idle < ValueSeconds

(* What a client's use is once one more of its requests is answered.       *)
Counted(n) == [uses[n] EXCEPT !.requests = IF @ > GraceRequests THEN @ ELSE @ + 1]

Used(n) ==
  IF n \notin Clients THEN uses
  ELSE IF uses[n].closing THEN uses
  ELSE [uses EXCEPT ![n] =
          [Counted(n) EXCEPT !.closing = ~Passes(n, Counted(n)) /\ Closes(n)]]

Served(n) == uses' = Used(n) /\ UNCHANGED <<connections, naming, named>>

KeptOpen(n) == n \notin Clients \/ ~Used(n)[n].closing

Aged == [n \in Clients |-> [uses[n] EXCEPT !.idle = IF @ < ValueSeconds THEN @ + 1 ELSE @]]
=============================================================================
