----------------------------- MODULE Dispatcher -----------------------------
(***************************************************************************)
(* The dispatcher process of a Libranet node and the queues between it and *)
(* the modules (messaging/dispatcher.py, queues.py, module.py).            *)
(*                                                                         *)
(* The supervisor owns the queues, so they outlive the processes; all the  *)
(* dispatcher has taken from an outbox and not yet put into every inbox is *)
(* its memory.  What a process put into a queue waits in that process      *)
(* until a thread of it has written it to the pipe, so a process that is   *)
(* killed may take the last of what it put with it.                        *)
(***************************************************************************)
EXTENDS Integers, SequencesExt

CONSTANTS
    Modules,        (* the processes on the bus *)
    Events,         (* the types of message *)
    Subscriptions,  (* the events each module subscribes to *)
    Endpoints,      (* the modules in the order the dispatcher serves them *)
    Capacity,       (* the most messages an inbox holds *)
    Responsive,     (* the modules that go on reading their inboxes *)
    (* Bounds of the model. *)
    MaxPublished,   (* messages published in all *)
    MaxEnds,        (* times the dispatcher ends *)
    MaxCrashes      (* times a module crashes *)

ASSUME DispatcherAssumption ==
    /\ Modules # {}
    /\ Endpoints \in Seq(Modules)
    /\ ToSet(Endpoints) = Modules
    /\ IsInjective(Endpoints)
    /\ Subscriptions \in [Modules -> SUBSET Events]
    /\ Capacity \in Nat \ {0}
    /\ Responsive \subseteq Modules
    /\ {MaxPublished, MaxEnds, MaxCrashes} \subseteq Nat

VARIABLES
    outbox,     (* what each module published, until a reader thread takes it *)
    inbox,      (* what was delivered to each module, until it takes it *)
    unsent,     (* how many of the last in each queue its writer may not have sent *)
    up,         (* the modules that are running *)
    pc,         (* what the dispatcher is doing *)
    turn,       (* the place in Endpoints it has come to *)
    hand,       (* the message it is delivering *)
    pending,    (* what its reader threads have taken *)
    held,       (* what it holds for each inbox that was full *)
    published,  (* history: how many messages each module has published *)
    received,   (* history: what each module has taken from its inbox *)
    ends,       (* history: how often the dispatcher has ended *)
    crashes     (* history: how often a module has crashed *)

queues == <<outbox, inbox, unsent>>
memory == <<pc, turn, hand, pending, held>>
history == <<published, received, ends, crashes>>
vars == <<outbox, inbox, unsent, up, pc, turn, hand, pending, held,
          published, received, ends, crashes>>

Messages == [source : Modules, event : Events, number : 1..MaxPublished]
NoMessage == [source |-> "none"]

(* A message is never delivered to its publisher. *)
Wants(module, message) ==
    /\ message.source # module
    /\ message.event \in Subscriptions[module]

-----------------------------------------------------------------------------
(* Queues between processes. *)

(* The messages after a process that ends takes the last n with it. *)
Without(messages, n) == SubSeq(messages, 1, Len(messages) - n)

(* Those put by a process before this one are in the pipe already. *)
LessTaken(n, messages) == IF n = Len(messages) THEN n - 1 ELSE n

HasRoom(module) == Len(inbox[module]) < Capacity

PutInto(module, message) ==
    /\ inbox' = [inbox EXCEPT ![module] = Append(@, message)]
    /\ unsent' = [unsent EXCEPT !.inbox[module] = @ + 1]

Hold(module, message) ==
    held' = [held EXCEPT ![module] = Append(@, message)]

-----------------------------------------------------------------------------
(* The modules. *)

Publish(module, event) ==
    /\ module \in up
    /\ FoldFunction(+, 0, published) < MaxPublished
    /\ LET message == [source |-> module, event |-> event,
                       number |-> published[module] + 1]
       IN  outbox' = [outbox EXCEPT ![module] = Append(@, message)]
    /\ unsent' = [unsent EXCEPT !.outbox[module] = @ + 1]
    /\ published' = [published EXCEPT ![module] = @ + 1]
    /\ UNCHANGED <<inbox, up, memory, received, ends, crashes>>

(* A module filters what it receives all the same (Module.receive). *)
Receive(module) ==
    /\ module \in up
    /\ inbox[module] # <<>>
    /\ LET message == Head(inbox[module])
       IN  received' = IF Wants(module, message)
                       THEN [received EXCEPT ![module] = Append(@, message)] ELSE received
    /\ unsent' = [unsent EXCEPT !.inbox[module] = LessTaken(@, inbox[module])]
    /\ inbox' = [inbox EXCEPT ![module] = Tail(@)]
    /\ UNCHANGED <<outbox, up, memory, published, ends, crashes>>

Crash(module) ==
    /\ module \in up
    /\ crashes < MaxCrashes
    /\ \E n \in 0..unsent.outbox[module] :
          outbox' = [outbox EXCEPT ![module] = Without(@, n)]
    /\ unsent' = [unsent EXCEPT !.outbox[module] = 0]
    /\ up' = up \ {module}
    /\ crashes' = crashes + 1
    /\ UNCHANGED <<inbox, memory, published, received, ends>>

Restart(module) ==
    /\ module \notin up
    /\ up' = up \cup {module}
    /\ UNCHANGED <<queues, memory, history>>

-----------------------------------------------------------------------------
(* The dispatcher. *)

(* A reader thread for each outbox puts what it takes onto one queue. *)
Forward(module) ==
    /\ pc # "down"
    /\ outbox[module] # <<>>
    /\ pending' = Append(pending, Head(outbox[module]))
    /\ unsent' = [unsent EXCEPT !.outbox[module] = LessTaken(@, outbox[module])]
    /\ outbox' = [outbox EXCEPT ![module] = Tail(@)]
    /\ UNCHANGED <<inbox, up, pc, turn, hand, held, history>>

Advance(next) ==
    IF turn < Len(Endpoints)
    THEN turn' = turn + 1 /\ UNCHANGED pc
    ELSE turn' = 1 /\ pc' = next

(* Deliver what is held, oldest first, while the inbox has room. *)
Flush ==
    LET module == Endpoints[turn]
    IN  /\ pc = "flush"
        /\ IF held[module] # <<>> /\ HasRoom(module)
           THEN /\ PutInto(module, Head(held[module]))
                /\ held' = [held EXCEPT ![module] = Tail(@)]
                /\ UNCHANGED <<pc, turn>>
           ELSE /\ Advance("wait")
                /\ UNCHANGED <<inbox, unsent, held>>
        /\ UNCHANGED <<outbox, up, hand, pending, history>>

(* The next message any reader thread took, or none within the interval. *)
Take ==
    /\ pc = "wait"
    /\ pending # <<>>
    /\ hand' = Head(pending)
    /\ pending' = Tail(pending)
    /\ pc' = "dispatch"
    /\ UNCHANGED <<queues, up, turn, held, history>>

NothingCame ==
    /\ pc = "wait"
    /\ pending = <<>>
    /\ pc' = "flush"
    /\ UNCHANGED <<queues, up, turn, hand, pending, held, history>>

(* Deliver the message to one inbox, or hold it behind those held already. *)
Put_PastHeld(module, message) ==
    IF HasRoom(module)
    THEN PutInto(module, message) /\ UNCHANGED held
    ELSE Hold(module, message) /\ UNCHANGED <<inbox, unsent>>
Put_Waits(module, message) ==
    HasRoom(module) /\ PutInto(module, message) /\ UNCHANGED held
Put(module, message) ==
    IF held[module] = <<>> /\ HasRoom(module)
    THEN PutInto(module, message) /\ UNCHANGED held
    ELSE Hold(module, message) /\ UNCHANGED <<inbox, unsent>>

Dispatch ==
    /\ pc = "dispatch"
    /\ IF Wants(Endpoints[turn], hand)
       THEN Put(Endpoints[turn], hand)
       ELSE UNCHANGED <<inbox, unsent, held>>
    /\ Advance("flush")
    /\ hand' = IF turn = Len(Endpoints) THEN NoMessage ELSE hand
    /\ UNCHANGED <<outbox, up, pending, history>>

(* The dispatcher crashes or is stopped, and its memory is gone. *)
End ==
    /\ pc # "down"
    /\ ends < MaxEnds
    /\ \E lost \in [Modules -> 0..Capacity] :
          /\ \A m \in Modules : lost[m] <= unsent.inbox[m]
          /\ inbox' = [m \in Modules |-> Without(inbox[m], lost[m])]
    /\ unsent' = [unsent EXCEPT !.inbox = [m \in Modules |-> 0]]
    /\ pc' = "down"
    /\ turn' = 1
    /\ hand' = NoMessage
    /\ pending' = <<>>
    /\ held' = [m \in Modules |-> <<>>]
    /\ ends' = ends + 1
    /\ UNCHANGED <<outbox, up, published, received, crashes>>

Begin ==
    /\ pc = "down"
    /\ pc' = "flush"
    /\ UNCHANGED <<queues, up, turn, hand, pending, held, history>>

-----------------------------------------------------------------------------
Init ==
    /\ outbox = [m \in Modules |-> <<>>]
    /\ inbox = [m \in Modules |-> <<>>]
    /\ unsent = [outbox |-> [m \in Modules |-> 0], inbox |-> [m \in Modules |-> 0]]
    /\ up = Modules
    /\ pc = "flush"
    /\ turn = 1
    /\ hand = NoMessage
    /\ pending = <<>>
    /\ held = [m \in Modules |-> <<>>]
    /\ published = [m \in Modules |-> 0]
    /\ received = [m \in Modules |-> <<>>]
    /\ ends = 0
    /\ crashes = 0

Loop == Flush \/ Take \/ NothingCame \/ Dispatch

Next ==
    \/ \E m \in Modules, e \in Events : Publish(m, e)
    \/ \E m \in Modules : Receive(m) \/ Crash(m) \/ Restart(m) \/ Forward(m)
    \/ Loop
    \/ End
    \/ Begin

Spec == Init /\ [][Next]_vars

(* The supervisor restarts what ends, the dispatcher's threads run, and a   *)
(* module in Responsive goes on reading; the others may read no more.       *)
Fairness ==
    /\ WF_vars(Loop)
    /\ WF_vars(Begin)
    /\ \A m \in Modules : WF_vars(Forward(m)) /\ WF_vars(Restart(m))
    /\ \A m \in Responsive : WF_vars(Receive(m))

FairSpec == Spec /\ Fairness

-----------------------------------------------------------------------------
(* The bus this implements. *)

Place(module) == CHOOSE i \in 1..Len(Endpoints) : Endpoints[i] = module

(* Those of the messages that are `wanted`, in their order. *)
Only(messages, wanted) ==
    LET kept[n \in 0..Len(messages)] ==
            IF n = 0 THEN <<>>
            ELSE IF messages[n] \in wanted THEN Append(kept[n - 1], messages[n]) ELSE kept[n - 1]
    IN  kept[Len(messages)]

(* What s subscribes to of what p publishes. *)
For(p, s) == [source : {p}, event : Subscriptions[s], number : Nat]

InHand(s) == IF pc = "dispatch" /\ turn <= Place(s) THEN <<hand>> ELSE <<>>

OnItsWay(p, s) == Only(inbox[s] \o held[s] \o InHand(s) \o pending \o outbox[p], For(p, s))

InTransit ==
    [link \in {l \in Modules \X Modules : l[1] # l[2]} |-> OnItsWay(link[1], link[2])]

TheBus == INSTANCE Bus WITH transit <- InTransit, ended <- ends + crashes

(* Each step of the dispatcher, of its threads and of the modules is one of *)
(* the bus: nothing is duplicated, reordered or delivered to a module that  *)
(* does not want it, and nothing is lost but when a process ends.           *)
ActsAsBus == TheBus!BusSpec

(* Nothing published stays undelivered to a module that reads its inbox,   *)
(* though another never reads its own (dispatcher.py:12-16).               *)
NotHeldUp ==
    \A s \in Responsive, m \in Messages :
        (m.source # s /\ Contains(OnItsWay(m.source, s), m))
            ~> ~Contains(OnItsWay(m.source, s), m)

==============================================================================
