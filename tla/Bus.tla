--------------------------------- MODULE Bus ---------------------------------
(***************************************************************************)
(* What the message bus of a Libranet node promises the modules            *)
(* (messaging/dispatcher.py:1-21, docs/implementation/Module System.md):   *)
(* what one module publishes reaches each module that subscribes to it, at *)
(* most once and in the order it was published, whatever other modules do. *)
(* Nothing is promised between publishers.  Only a process that ends may   *)
(* take messages with it.                                                  *)
(***************************************************************************)
EXTENDS Integers, Sequences

CONSTANTS
    Modules,        (* the processes on the bus *)
    Events,         (* the types of message *)
    Subscriptions   (* the events each module subscribes to *)

VARIABLES
    published,  (* how many messages each module has published *)
    transit,    (* the messages on their way, from each module to each other *)
    received,   (* the messages each module has taken from its inbox, in order *)
    ended       (* how many times a process has ended *)

busVars == <<published, transit, received, ended>>

Messages == [source : Modules, event : Events, number : Nat]

Links == {link \in Modules \X Modules : link[1] # link[2]}

(* A message is never delivered to its publisher. *)
Wants(module, message) ==
    /\ message.source # module
    /\ message.event \in Subscriptions[module]

(* What is left of a sequence when some of it is lost: the rest, in order. *)
Rising(n, limit) ==
    {pick \in [1..n -> 1..limit] : \A i, j \in 1..n : i < j => pick[i] < pick[j]}
Remains(messages) ==
    UNION {{[i \in 1..n |-> messages[pick[i]]] : pick \in Rising(n, Len(messages))} :
              n \in 0..Len(messages)}

-----------------------------------------------------------------------------
BusInit ==
    /\ published = [m \in Modules |-> 0]
    /\ transit = [link \in Links |-> <<>>]
    /\ received = [m \in Modules |-> <<>>]
    /\ ended = 0

BusPublish(module, event) ==
    LET message == [source |-> module, event |-> event, number |-> published[module] + 1]
    IN  /\ published' = [published EXCEPT ![module] = @ + 1]
        /\ transit' = [link \in Links |->
                         IF link[1] = module /\ Wants(link[2], message)
                         THEN Append(transit[link], message) ELSE transit[link]]
        /\ UNCHANGED <<received, ended>>

BusReceive(link) ==
    /\ transit[link] # <<>>
    /\ transit' = [transit EXCEPT ![link] = Tail(@)]
    /\ received' = [received EXCEPT ![link[2]] = Append(@, Head(transit[link]))]
    /\ UNCHANGED <<published, ended>>

BusLose ==
    /\ ended' = ended + 1
    /\ transit' = [link \in Links |-> transit'[link]]
    /\ \A link \in Links : transit'[link] \in Remains(transit[link])
    /\ UNCHANGED <<published, received>>

BusNext ==
    \/ \E module \in Modules, event \in Events : BusPublish(module, event)
    \/ \E link \in Links : BusReceive(link)
    \/ BusLose

BusSpec == BusInit /\ [][BusNext]_busVars

-----------------------------------------------------------------------------
(* What a module receives from another was published in that order, and is *)
(* received once: the numbers only rise (dispatcher.py:8-10).              *)
InOrder ==
    \A m \in Modules : \A i, j \in 1..Len(received[m]) :
        (i < j /\ received[m][i].source = received[m][j].source)
            => received[m][i].number < received[m][j].number
==============================================================================
