----------------------------- MODULE Connections -----------------------------
(***************************************************************************)
(* The connection manager's connections: the peer mix it keeps up, by      *)
(* dialing candidates on threads of their own, and whom it takes into the  *)
(* mix. What it says to the peers connected is Exchange.tla.               *)
(*                                                                         *)
(* The receive loop, the threads that dial and the receive thread of each  *)
(* connection share the state below under one lock. An action is what one  *)
(* of them does between two points where another may come in.              *)
(***************************************************************************)
EXTENDS PeerMix

CONSTANTS
    Endpoints,          (* the addresses there are *)
    NodeAt,             (* the node that answers at each *)
    Dials,              (* the dials the operator asks for *)
    RetryDelay,         (* how long what is not reached, or closes, rests *)
    AwayRest,           (* and what turned this node away *)
    Starts              (* the states the module may be met in *)

Keys == Nodes \cup Endpoints
Candidates == [node : Nodes \cup {Unknown}, endpoints : Seq(Endpoints)]
Kinds == {"opens", "closes", "turnings", "trusts", "lists", "stops", "asks",
          "stores", "fetches", "removals", "errors", "heads", "searches"}

(* Whom this node allows, once the web server has said so. *)
Untold == [known |-> FALSE, allowed |-> {}]
Allowing(nodes) == [known |-> TRUE, allowed |-> nodes]
Trusts == {Untold} \cup {Allowing(nodes) : nodes \in SUBSET Nodes}

ASSUME ConnectionsAssumption ==
    /\ NodeAt \in [Endpoints -> Nodes \cup {Own}]
    /\ RetryDelay \in Nat \ {0}
    /\ AwayRest \in Nat \ {0}
    /\ \A met \in Starts :
          /\ met.trust \in Trusts
          /\ met.connected \in Seq(Endpoints)
          /\ \A i, j \in DOMAIN met.connected :
                /\ NodeAt[met.connected[i]] \in met.trust.allowed
                /\ NodeAt[met.connected[i]] = NodeAt[met.connected[j]] => i = j
          /\ met.candidates \in Seq(Candidates)
          /\ met.lists \subseteq Seq(Candidates)
          /\ met.trusts \subseteq SUBSET Nodes
          /\ met.asks \subseteq Endpoints
          /\ met.left \in [Kinds -> Nat]

VARIABLES
    main,           (* the receive loop: what it has still to do of a handler *)
    running,        (* whether the module has not begun to stop *)
    trust,          (* whom this node allows *)
    sessions,       (* every connection, in the order they were opened *)
    peers,          (* the connection to each node in the mix *)
    candidates,     (* the candidate list last read, or the seeds *)
    dialing,        (* the threads dialing candidates, by their keys *)
    ended,          (* the keys of those that brought no peer and have still to tend the mix *)
    resting,        (* how long each key at rest has still to rest *)
    ownEndpoints,   (* the endpoints that turned out to be this node *)
    duplicates,     (* those that reached a node connected at another *)
    asked,          (* the dials the operator asked for *)
    start,          (* the state the module was met in *)
    left            (* how often each kind of event may happen still *)

dials == <<dialing, ended, asked>>
rests == <<resting, ownEndpoints, duplicates>>
events == <<start, left>>
connectionVars == <<main, running, trust, sessions, peers, candidates, dials, rests, events>>

Spend(kind) ==
    /\ left[kind] > 0
    /\ left' = [left EXCEPT ![kind] = @ - 1]
    /\ UNCHANGED start

(* A function with one more argument, or another value there. *)
With(f, x, value) == [y \in DOMAIN f \cup {x} |-> IF y = x THEN value ELSE f[y]]

NoSession == 0
Connected == DOMAIN peers
Allowed(n) == n \in trust.allowed

-----------------------------------------------------------------------------
(* Connections. A connection is a candidate's, or was refused, until it is *)
(* admitted; once it closes, its receive thread takes it out of the mix    *)
(* and then tends the mix. The thread that dialed it tends the mix too,    *)
(* and then pushes what waited for a peer and greets it. It has what has   *)
(* been said over it, for Conversations.tla.                               *)

(* _identify: the node whose key signs both answers there. Any other       *)
(* answer is an error, which closes the connection.                        *)
Identity(e) == NodeAt[e]

Session(e) == [node |-> Identity(e), endpoint |-> e, open |-> TRUE, away |-> FALSE,
               stage |-> "dialed", tail |-> "done",
               busy |-> TRUE, refresh |-> 0, talks |-> <<>>, pushed |-> {}, named |-> <<>>]
Conversation(kind, pc) ==
    [kind |-> kind, pc |-> pc, wanted |-> <<>>, names |-> <<>>, unnamed |-> <<>>]
InMix == {s \in DOMAIN sessions : sessions[s].stage = "admitted"}

(* Sessions with some set to be closed. *)
Shut(s) == sessions' = [sessions EXCEPT ![s].open = FALSE]

(* A peer closes a connection, or it fails; or the peer turns this node    *)
(* away.                                                                   *)
PeerCloses(s) ==
    /\ sessions[s].open
    /\ sessions[s].stage # "gone"
    /\ \E away \in BOOLEAN :
          /\ Spend(IF away THEN "turnings" ELSE "closes")
          /\ sessions' = [sessions EXCEPT ![s].open = FALSE, ![s].away = away]
    /\ UNCHANGED <<main, running, trust, peers, candidates, dials, rests>>

(* The candidates that may be dialed now (_Dialing.available).             *)
Pending == {k \in Keys : dialing[k].pc # "idle"}
InUse ==
    ownEndpoints
    \cup {sessions[peers[n]].endpoint : n \in Connected}
    \cup UNION {ToSet(dialing[k].endpoints) : k \in Pending}
    \cup {e \in DOMAIN duplicates : duplicates[e] \in Connected}

Available ==
    LET inUse == InUse
        Usable(e) == e \notin inUse
        May(c) == /\ Key(c) \notin Pending \cup DOMAIN resting
                  /\ c.node = Unknown \/ Allowed(c.node)
                  /\ \E e \in ToSet(c.endpoints) : Usable(e)
        kept == SelectSeq(candidates, May)
    IN  [i \in DOMAIN kept |->
            [kept[i] EXCEPT !.endpoints = SelectSeq(@, Usable)]]

Wanted ==
    Choose(Available,
           Connected \cup ({dialing[k].node : k \in Pending} \ {Unknown}),
           Cardinality(Connected) + Cardinality(Pending))

(* _maintain: nothing is dialed before it is known whom to trust.          *)
Idle == [pc |-> "idle", node |-> Unknown, endpoints |-> <<>>, turn |-> 1, session |-> NoSession]
Dialed(c) == [Idle EXCEPT !.pc = "open", !.node = c.node, !.endpoints = c.endpoints]
Maintain ==
    IF ~running \/ ~trust.known THEN UNCHANGED dialing
    ELSE LET chosen == ToSet(Wanted)
             For(k) == {c \in chosen : Key(c) = k}
         IN  dialing' = [k \in Keys |-> IF For(k) = {} THEN dialing[k]
                                        ELSE Dialed(CHOOSE c \in For(k) : TRUE)]

(* _closed, on the receive thread: the connection's node and endpoint      *)
(* rest, whoever closed it.                                                *)
Rest(keys, time) == [k \in keys |-> time] @@ resting
TakesOut(s) ==
    LET n == sessions[s].node
    IN  IF n \in Connected /\ peers[n] = s
        THEN /\ peers' = [m \in Connected \ {n} |-> peers[m]]
             /\ duplicates' = [e \in {d \in DOMAIN duplicates : duplicates[d] # n} |->
                                  duplicates[e]]
        ELSE UNCHANGED <<peers, duplicates>>
Closed(s) ==
    /\ sessions[s].stage = "admitted"
    /\ ~sessions[s].open
    /\ TakesOut(s)
    /\ resting' = Rest({sessions[s].node, sessions[s].endpoint},
                       IF sessions[s].away THEN AwayRest ELSE RetryDelay)
    /\ sessions' = [sessions EXCEPT ![s].stage = "closed"]
    /\ UNCHANGED <<main, running, trust, candidates, dials, ownEndpoints, events>>

ClosedMaintains_Not(s) ==
    /\ sessions[s].stage = "closed"
    /\ sessions' = [sessions EXCEPT ![s].stage = "gone"]
    /\ UNCHANGED <<main, running, trust, peers, candidates, dials, rests, events>>

ClosedMaintains(s) ==
    /\ sessions[s].stage = "closed"
    /\ Maintain
    /\ sessions' = [sessions EXCEPT ![s].stage = "gone"]
    /\ UNCHANGED <<main, running, trust, peers, candidates, ended, asked, rests, events>>

-----------------------------------------------------------------------------
(* Dialing. *)

(* exchange.open: a connection whose node has proven its id, or an error.  *)
Opens(e) ==
    /\ Spend("opens")
    /\ sessions' = Append(sessions, Session(e))

(* _admit: whether, and why not, the connection s is taken into the mix.   *)
Refusal_AsDialed(s) ==
    LET n == sessions[s].node
    IN  IF ~running THEN "stopping"
        ELSE IF n = Own THEN "own"
        ELSE IF ~trust.known THEN "unknown"
        ELSE IF n \in Connected THEN "duplicate"
        ELSE "none"
Refusal_Twice(s) ==
    IF ~running THEN "stopping"
    ELSE IF sessions[s].node = Own THEN "own"
    ELSE IF ~trust.known THEN "unknown"
    ELSE IF ~Allowed(sessions[s].node) THEN "refused"
    ELSE "none"

Refusal(s) ==
    LET n == sessions[s].node
    IN  IF ~running THEN "stopping"
        ELSE IF n = Own THEN "own"
        ELSE IF ~trust.known THEN "unknown"
        ELSE IF ~Allowed(n) THEN "refused"
        ELSE IF n \in Connected THEN "duplicate"
        ELSE "none"

Admit(s, tail) ==
    LET session == sessions[s]
        refusal == Refusal(s)
    IN  /\ peers' = IF refusal = "none" THEN With(peers, session.node, s) ELSE peers
        /\ sessions' = [sessions EXCEPT ![s] =
                          IF refusal = "none" THEN [@ EXCEPT !.stage = "admitted", !.tail = tail]
                          ELSE [@ EXCEPT !.stage = "gone", !.open = FALSE]]
        /\ ownEndpoints' = IF refusal = "own" THEN ownEndpoints \cup {session.endpoint}
                           ELSE ownEndpoints
        /\ duplicates' = IF refusal = "duplicate" THEN With(duplicates, session.endpoint, session.node)
                         ELSE duplicates

(* _walk: the candidate's endpoints in turn, until one reaches a peer that *)
(* is taken in, or the node expected, or the module stops.                 *)
NextEndpoint_Again(dial) == [dial EXCEPT !.pc = "open", !.session = NoSession]
NextEndpoint(dial) ==
    IF dial.turn < Len(dial.endpoints)
    THEN [dial EXCEPT !.pc = "open", !.turn = @ + 1, !.session = NoSession]
    ELSE [dial EXCEPT !.pc = "ended", !.session = NoSession]

DialOpens(k) ==
    LET dial == dialing[k]
    IN  /\ dial.pc = "open"
        /\ \/ /\ Opens(dial.endpoints[dial.turn])
              /\ dialing' = [dialing EXCEPT ![k].pc = "admit", ![k].session = Len(sessions')]
           \/ /\ dialing' = [dialing EXCEPT ![k] = NextEndpoint(@)]
              /\ UNCHANGED <<sessions, events>>
    /\ UNCHANGED <<main, running, trust, peers, candidates, ended, asked, rests>>

DialAdmits(k) ==
    LET dial == dialing[k]
        s == dial.session
    IN  /\ dial.pc = "admit"
        /\ Admit(s, "dialing")
        /\ dialing' = [dialing EXCEPT ![k] =
                          IF Refusal(s) = "none" THEN [@ EXCEPT !.pc = "ended"]
                          ELSE IF ~running \/ sessions[s].node = dial.node
                          THEN [@ EXCEPT !.pc = "ended", !.session = NoSession]
                          ELSE NextEndpoint(@)]
    /\ UNCHANGED <<main, running, trust, candidates, ended, asked, resting, events>>

(* The end of _connect: a candidate that brought no peer rests, unless its *)
(* node was connected meanwhile. A bound: no second thread for a key ends  *)
(* before the first has tended the mix.                                    *)
DialEnds(k) ==
    LET dial == dialing[k]
        joined == dial.session # NoSession
    IN  /\ dial.pc = "ended"
        /\ joined \/ k \notin ended
        /\ resting' = IF joined \/ dial.node \in Connected THEN resting ELSE Rest({k}, RetryDelay)
        /\ IF joined
           THEN sessions' = [sessions EXCEPT ![dial.session].tail = "maintain"] /\ UNCHANGED ended
           ELSE ended' = ended \cup {k} /\ UNCHANGED sessions
        /\ dialing' = [dialing EXCEPT ![k] = Idle]
    /\ UNCHANGED <<main, running, trust, peers, candidates, asked, ownEndpoints, duplicates, events>>

JoinedMaintains(s) ==
    /\ sessions[s].tail = "maintain"
    /\ Maintain
    /\ sessions' = [sessions EXCEPT ![s].tail = "greet"]
    /\ UNCHANGED <<main, running, trust, peers, candidates, ended, asked, rests, events>>

EndedMaintains(k) ==
    /\ k \in ended
    /\ Maintain
    /\ ended' = ended \ {k}
    /\ UNCHANGED <<main, running, trust, sessions, peers, candidates, asked, rests, events>>

(* What follows, once what waited for a peer is pushed (_push_unpushed).   *)
Greets(s) ==
    /\ sessions[s].tail = "greet"
    /\ sessions' = [sessions EXCEPT
                      ![s].tail = "done",
                      ![s].talks = IF start.talks THEN Append(@, Conversation("greet", "read")) ELSE @]
    /\ UNCHANGED <<main, running, trust, peers, candidates, dials, rests, events>>

-----------------------------------------------------------------------------
(* The dials the operator asks for, which no rest holds up.                *)

NotAsked == [pc |-> "idle", session |-> NoSession, endpoint |-> CHOOSE e \in Endpoints : TRUE,
             outcome |-> "none", refusal |-> "none", current |-> TRUE]

OnDialRequested(d, e) ==
    /\ main.pc = "idle"
    /\ asked[d].pc = "idle"
    /\ Spend("asks")
    /\ asked' = [asked EXCEPT ![d] =
                    IF \E n \in Connected : sessions[peers[n]].endpoint = e
                    THEN [NotAsked EXCEPT !.pc = "told", !.endpoint = e,
                             !.outcome = "already_connected", !.refusal = "duplicate"]
                    ELSE [NotAsked EXCEPT !.pc = "open", !.endpoint = e]]
    /\ UNCHANGED <<main, running, trust, sessions, peers, candidates, dialing, ended, rests>>

AskedOpens(d) ==
    /\ asked[d].pc = "open"
    /\ \/ /\ Opens(asked[d].endpoint)
          /\ asked' = [asked EXCEPT ![d].pc = "admit", ![d].session = Len(sessions')]
       \/ /\ asked' = [asked EXCEPT ![d].pc = "told", ![d].outcome = "unreached"]
          /\ UNCHANGED <<sessions, events>>
    /\ UNCHANGED <<main, running, trust, peers, candidates, dialing, ended, rests>>

AskedAdmits(d) ==
    LET s == asked[d].session
    IN  /\ asked[d].pc = "admit"
        /\ Admit(s, "greet")
        /\ asked' = [asked EXCEPT ![d] =
                        IF Refusal(s) = "none"
                        THEN [@ EXCEPT !.pc = "told", !.outcome = "connected"]
                        ELSE [@ EXCEPT !.pc = "refused", !.refusal = Refusal(s)]]
    /\ UNCHANGED <<main, running, trust, candidates, dialing, ended, resting, events>>

(* What a dial that brought no peer comes to, as things are by then.       *)
Outcome_Untrusting(n) ==
    IF n = Own THEN "this_node"
    ELSE IF ~running THEN "unreached"
    ELSE "already_connected"

Outcome(n) ==
    IF n = Own THEN "this_node"
    ELSE IF ~running THEN "unreached"
    ELSE IF ~Allowed(n) THEN "not_trusted"
    ELSE "already_connected"

AskedTells(d) ==
    /\ asked[d].pc = "refused"
    /\ asked' = [asked EXCEPT ![d].pc = "told",
                              ![d].outcome = Outcome(sessions[asked[d].session].node)]
    /\ UNCHANGED <<main, running, trust, sessions, peers, candidates, dialing, ended, rests, events>>

-----------------------------------------------------------------------------
(* The receive loop. *)

Busy(pc, todo) == [pc |-> pc, todo |-> todo, at |-> NoSession]

(* The node trusted change: those no longer allowed are closed in turn.    *)
OnNodeTrust(allowed) ==
    /\ main.pc = "idle"
    /\ Spend("trusts")
    /\ trust' = Allowing(allowed)
    /\ main' = Busy("closing", {peers[n] : n \in Connected \ allowed})
    /\ asked' = [d \in Dials |-> [asked[d] EXCEPT !.current = @ /\ asked[d].pc # "refused"]]
    /\ UNCHANGED <<running, sessions, peers, candidates, dialing, ended, rests>>

(* A connection is closed once its receive thread is done with it.         *)
MainCloses(s) ==
    /\ main.pc = "closing"
    /\ main.at = NoSession
    /\ s \in main.todo
    /\ main' = [main EXCEPT !.at = s]
    /\ Shut(s)
    /\ UNCHANGED <<running, trust, peers, candidates, dials, rests, events>>

MainHasClosed ==
    /\ main.pc = "closing"
    /\ main.at # NoSession
    /\ sessions[main.at].stage = "gone"
    /\ main' = [main EXCEPT !.todo = @ \ {main.at}, !.at = NoSession]
    /\ UNCHANGED <<running, trust, sessions, peers, candidates, dials, rests, events>>

AllClosed ==
    /\ main.pc = "closing"
    /\ main.todo = {}
    /\ main' = Busy(IF running THEN "maintain" ELSE "stopped", {})
    /\ UNCHANGED <<running, trust, sessions, peers, candidates, dials, rests, events>>

MainMaintains ==
    /\ main.pc \in {"maintain", "listed"}
    /\ Maintain
    /\ main' = Busy(IF main.pc = "listed" /\ start.talks THEN "passing" ELSE "idle", {})
    /\ UNCHANGED <<running, trust, sessions, peers, candidates, ended, asked, rests, events>>

(* _tell_each: each peer in the mix is told on a thread of its own, which  *)
(* is a conversation with it.                                              *)
Told(s) ==
    IF start.talks /\ s \in InMix
    THEN [sessions[s] EXCEPT !.talks = Append(@, Conversation("tell", "tell"))]
    ELSE sessions[s]
ToldEach == [s \in DOMAIN sessions |-> Told(s)]

OnNodeListUpdated(list) ==
    /\ main.pc = "idle"
    /\ Spend("lists")
    /\ candidates' = list
    /\ main' = Busy("listed", {})
    /\ UNCHANGED <<running, trust, sessions, peers, dials, rests>>

(* What it newly lists, if anything, is passed on once the mix was tended. *)
PassesOn ==
    /\ main.pc = "passing"
    /\ sessions' = ToldEach \/ UNCHANGED sessions
    /\ main' = Busy("idle", {})
    /\ UNCHANGED <<running, trust, peers, candidates, dials, rests, events>>

OnStop ==
    /\ main.pc = "idle"
    /\ Spend("stops")
    /\ running' = FALSE
    /\ main' = Busy("closing", {peers[n] : n \in Connected})
    /\ UNCHANGED <<trust, sessions, peers, candidates, dials, rests>>

(* The part of on_idle about candidates at rest: those that have rested    *)
(* may be dialed again.                                                    *)
Rested == {k \in DOMAIN resting : resting[k] = 0}
LetsRested ==
    /\ main.pc = "idle"
    /\ resting' = [k \in DOMAIN resting \ Rested |-> resting[k]]
    /\ main' = IF Rested = {} THEN main ELSE Busy("maintain", {})
    /\ UNCHANGED <<running, trust, peers, candidates, dials, ownEndpoints, duplicates,
                   events>>

Less(time) == IF time > 0 THEN time - 1 ELSE 0
RestsAge ==
    /\ resting' = [k \in DOMAIN resting |-> Less(resting[k])]
    /\ UNCHANGED <<main, running, trust, peers, candidates, dials, ownEndpoints, duplicates,
                   events>>

-----------------------------------------------------------------------------
ConnectionInit ==
    /\ start \in Starts
    /\ left = start.left
    /\ running = TRUE
    /\ main = Busy("maintain", {})
    /\ trust = start.trust
    /\ candidates = start.candidates
    /\ sessions = [i \in DOMAIN start.connected |->
                      [Session(start.connected[i]) EXCEPT !.stage = "admitted", !.busy = FALSE]]
    /\ peers = [n \in {NodeAt[e] : e \in ToSet(start.connected)} |->
                   CHOOSE i \in DOMAIN start.connected : NodeAt[start.connected[i]] = n]
    /\ dialing = [k \in Keys |-> Idle]
    /\ ended = {}
    /\ resting = <<>>
    /\ ownEndpoints = {}
    /\ duplicates = <<>>
    /\ asked = [d \in Dials |-> NotAsked]

DialThread(k) == DialOpens(k) \/ DialAdmits(k) \/ DialEnds(k)
AskedThread(d) == AskedOpens(d) \/ AskedAdmits(d) \/ AskedTells(d)
SessionThreads ==
    \E s \in DOMAIN sessions : Closed(s) \/ ClosedMaintains(s) \/ JoinedMaintains(s)

Threads ==
    \/ \E k \in Keys : DialThread(k)
    \/ \E d \in Dials : AskedThread(d)
    \/ SessionThreads
    \/ \E k \in Keys : EndedMaintains(k)

Receives ==
    MainHasClosed \/ AllClosed \/ MainMaintains \/ PassesOn \/ \E s \in main.todo : MainCloses(s)

(* What comes from the peers, the operator and the other modules.          *)
Arrivals ==
    \/ \E s \in DOMAIN sessions : PeerCloses(s)
    \/ \E d \in Dials, e \in start.asks : OnDialRequested(d, e)
    \/ \E allowed \in start.trusts : OnNodeTrust(allowed)
    \/ \E list \in start.lists : OnNodeListUpdated(list)
    \/ OnStop
=============================================================================
