---------------------------- MODULE Conversations ----------------------------
(***************************************************************************)
(* What is said over the connections of Connections.tla: each peer is      *)
(* greeted once it is connected, and its seek list is read again and again *)
(* after that, for this node to push what the peer seeks and to name what  *)
(* matches its searches; it is told what is newly listed, and the Karma    *)
(* head; and searches for a prefix are passed on to it. Each conversation  *)
(* is on a thread of its own.                                              *)
(*                                                                         *)
(* What this node holds is a parameter, since new content is Exchange.tla. *)
(* What the peers seek is a choice each time one is asked. start.talks     *)
(* bounds the model: conversations are followed only where it is set.      *)
(***************************************************************************)
EXTENDS Connections, LocalSearch

CONSTANTS
    Content,            (* content ids *)
    HashOf,             (* the hash of each *)
    Queries,            (* what is searched for *)
    PrefixOf,           (* the prefix that each is *)
    BestFor,            (* the nodes, those that match each best first *)
    Refresh,            (* how long until a seek list is read again (peers.seek_refresh_seconds) *)
    Depth,              (* how much is said in one exchange (peers.pipeline_depth) *)
    BroadcastWorkers,   (* how many searches for a prefix make a pass at once *)
    Relays,             (* how often a search may be passed on (peers.search_relays) *)
    Passes,             (* how many passes a search makes (peers.search_passes) *)
    Pause,              (* this node's own network.retry_after_seconds *)
    BroadcastHold       (* how long a search for a prefix is held off after one *)

Hashes == UNION {[1..n -> Digits] : n \in 1..3}

ASSUME ConversationsAssumption ==
    /\ HashOf \in [Content -> Hashes]
    /\ \A c, d \in Content : HashOf[c] = HashOf[d] => c = d
    /\ PrefixOf \in [Queries -> Hashes]
    /\ BestFor \in [Queries -> Seq(Nodes)]
    /\ {Refresh, Depth, BroadcastWorkers, Passes, Pause, BroadcastHold} \subseteq Nat \ {0}
    /\ Relays \in Nat
    /\ \A met \in Starts :
          /\ met.talks \in BOOLEAN
          /\ met.held \subseteq Content
          /\ met.seekLists \subseteq [data : Seq(Content), queries : SUBSET Queries]
          /\ met.askers \subseteq [node : Nodes \cup {Own}, relays : Nat]

VARIABLE
    broadcasts      (* the search of the peers for each query *)

Smaller(x, y) == IF x < y THEN x ELSE y
Without(seq, set) == SelectSeq(seq, LAMBDA x : x \notin set)

-----------------------------------------------------------------------------
(* Conversations. A peer's session has those under way with it, of which   *)
(* one at a time is to read its seek list: it is busy from when it is      *)
(* taken in until it has been greeted, and while it is refreshed.          *)

Reading(s) == {i \in DOMAIN sessions[s].talks : sessions[s].talks[i].kind # "tell"}

(* The session, with one of its conversations gone on or over.             *)
GoesOn(s, i, talk) == [sessions[s] EXCEPT !.talks[i] = talk]
Over(s, i) == [sessions[s] EXCEPT !.talks = RemoveAt(@, i)]
Becomes(s, session) ==
    /\ sessions' = [sessions EXCEPT ![s] = session]
    /\ UNCHANGED <<main, running, trust, peers, candidates, dials, rests, events, broadcasts>>

(* on_idle: peers whose lists are due are refreshed, but not one with      *)
(* which a conversation is under way.                                      *)
DueSessions_Busy ==
    {s \in InMix : start.talks /\ sessions[s].refresh = 0}
DueSessions ==
    {s \in InMix : start.talks /\ ~sessions[s].busy /\ sessions[s].refresh = 0}
Refreshing(s) ==
    [sessions[s] EXCEPT !.busy = TRUE, !.talks = Append(@, Conversation("refresh", "read"))]

(* The peer's seek list, as far as it is not yet pushed: or none, if what  *)
(* it sends is no list, or the connection has closed.                      *)
AfterNames(talk) == IF talk.kind = "greet" THEN "seek" ELSE "end"
ReadsSeekList(s, i) ==
    LET talk == sessions[s].talks[i]
        Reads(list) == [talk EXCEPT !.pc = "push", !.wanted = Without(list.data, sessions[s].pushed),
                                    !.names = [q \in list.queries |-> {}]]
    IN  /\ talk.pc = "read"
        /\ \/ /\ sessions[s].open
              /\ \E list \in start.seekLists : Becomes(s, GoesOn(s, i, Reads(list)))
           \/ sessions[s].open /\ Becomes(s, GoesOn(s, i, [talk EXCEPT !.pc = AfterNames(talk)]))
           \/ ~sessions[s].open /\ Becomes(s, GoesOn(s, i, [talk EXCEPT !.pc = "end"]))

(* _push: a batch at a time, of what is held.                              *)
NextBatch(wanted) == SubSeq(wanted, 1, Smaller(Depth, Len(wanted)))
PushesSought(s, i, held) ==
    LET talk == sessions[s].talks[i]
        sending == ToSet(NextBatch(talk.wanted)) \cap held
        rest == SubSeq(talk.wanted, Depth + 1, Len(talk.wanted))
    IN  /\ talk.pc = "push"
        /\ Becomes(s,
               IF talk.wanted = <<>> THEN GoesOn(s, i, [talk EXCEPT !.pc = "match"])
               ELSE IF sending # {} /\ ~sessions[s].open THEN GoesOn(s, i, [talk EXCEPT !.pc = "end"])
               ELSE [GoesOn(s, i, [talk EXCEPT !.wanted = rest]) EXCEPT !.pushed = @ \cup sending])

(* _name_matches: what is found for each search on the list, less what was *)
(* pushed; of that, what the session does not have as named yet; and that  *)
(* goes to the peer, once the session has it as named. Neither the session *)
(* nor its user locks these.                                               *)
Matches(q, held) ==
    LET found == ToSet(SearchHeld(PrefixOf[q], {HashOf[c] : c \in held}))
    IN  {c \in held : HashOf[c] \in found}
FindsMatches(s, i, held) ==
    LET talk == sessions[s].talks[i]
    IN  /\ talk.pc = "match"
        /\ Becomes(s, GoesOn(s, i, [talk EXCEPT !.pc = "naming",
               !.names = [q \in DOMAIN @ |-> Matches(q, held) \ sessions[s].pushed]]))

NamedFor(s, q) == IF q \in DOMAIN sessions[s].named THEN sessions[s].named[q] ELSE {}
LeavesOutNamed(s, i) ==
    LET talk == sessions[s].talks[i]
    IN  /\ talk.pc = "naming"
        /\ Becomes(s, GoesOn(s, i, [talk EXCEPT !.pc = "noting",
               !.unnamed = [q \in DOMAIN talk.names |-> talk.names[q] \ NamedFor(s, q)]]))
NotesNamed(s, i) ==
    LET talk == sessions[s].talks[i]
    IN  /\ talk.pc = "noting"
        /\ Becomes(s, [GoesOn(s, i, [talk EXCEPT !.pc = "posting"]) EXCEPT
               !.named = [q \in DOMAIN talk.names |-> NamedFor(s, q) \cup talk.names[q]]])

Posts(s, i) ==
    LET talk == sessions[s].talks[i]
        posting == \E q \in DOMAIN talk.unnamed : talk.unnamed[q] # {}
    IN  /\ talk.pc = "posting"
        /\ Becomes(s, GoesOn(s, i, [Conversation(talk.kind, AfterNames(talk)) EXCEPT
               !.pc = IF posting /\ ~sessions[s].open THEN "end" ELSE @]))

(* The rest of a greeting: the peer is asked for what this node seeks, if  *)
(* there is any, and for its Karma head. What it sends is the validator's, *)
(* and arrives when that stores it.                                        *)
AsksForSought(s, i) ==
    LET talk == sessions[s].talks[i]
    IN  /\ talk.pc = "seek"
        /\ \E seeks \in BOOLEAN :
              Becomes(s, GoesOn(s, i, [talk EXCEPT
                  !.pc = IF seeks /\ ~sessions[s].open THEN "end" ELSE "head"]))
AsksHead(s, i) ==
    LET talk == sessions[s].talks[i]
    IN  /\ talk.pc = "head"
        /\ Becomes(s, GoesOn(s, i, [talk EXCEPT !.pc = "end"]))

(* _talk: however it ended, the next is due after a while.                 *)
Talked_ToTheEnd(s, i) ==
    /\ sessions[s].talks[i].pc = "end"
    /\ Becomes(s, [Over(s, i) EXCEPT !.busy = ~sessions[s].open, !.refresh = Refresh])
Talked(s, i) ==
    /\ sessions[s].talks[i].pc = "end"
    /\ Becomes(s, [Over(s, i) EXCEPT !.busy = FALSE, !.refresh = Refresh])

(* Each is told the Karma head followed, unless its connection has closed. *)
OnKarmaHead ==
    /\ main.pc = "idle"
    /\ Spend("heads")
    /\ sessions' = ToldEach
    /\ UNCHANGED <<main, running, trust, peers, candidates, dials, rests, broadcasts>>
Tells(s, i) ==
    /\ sessions[s].talks[i].pc = "tell"
    /\ Becomes(s, Over(s, i))

Talks(s, held) ==
    \E i \in DOMAIN sessions[s].talks :
        \/ ReadsSeekList(s, i) \/ PushesSought(s, i, held) \/ FindsMatches(s, i, held)
        \/ LeavesOutNamed(s, i) \/ NotesNamed(s, i) \/ Posts(s, i)
        \/ AsksForSought(s, i) \/ AsksHead(s, i) \/ Talked(s, i) \/ Tells(s, i)

-----------------------------------------------------------------------------
(* Searches of the peers for a prefix. One at a time for each, in passes   *)
(* that workers make, and none for a while after it.                       *)

NotSearched == [pc |-> "none", pass |-> 1, asker |-> Own, relays |-> 0, left |-> <<>>,
                wait |-> 0, hold |-> 0]
Broadcasts(q, broadcast) ==
    /\ broadcasts' = [broadcasts EXCEPT ![q] = broadcast]
    /\ UNCHANGED <<main, running, trust, sessions, peers, candidates, dials, rests>>

(* A peer's may be passed on as often as it says, but no more than this    *)
(* node lets any be.                                                       *)
PassedOn(by) ==
    IF by.node = Own THEN Relays ELSE Smaller(by.relays, Relays) - 1
OnSearchRequested(q, by) ==
    /\ main.pc = "idle"
    /\ Spend("searches")
    /\ Broadcasts(q,
           IF /\ PassedOn(by) >= 0
              /\ broadcasts[q].pc = "none"
              /\ broadcasts[q].hold = 0
           THEN [NotSearched EXCEPT !.pc = "ready", !.asker = by.node, !.relays = PassedOn(by)]
           ELSE broadcasts[q])

Making == {q \in Queries : broadcasts[q].pc = "pass"}
PassBegins(q) ==
    LET connected == SelectSeq(BestFor[q], LAMBDA n : n \in Connected)
    IN  /\ broadcasts[q].pc = "ready"
        /\ running
        /\ Cardinality(Making) < BroadcastWorkers
        /\ Broadcasts(q, [broadcasts[q] EXCEPT !.pc = "pass",
                             !.left = [i \in DOMAIN connected |-> peers[connected[i]]]])
        /\ UNCHANGED events

(* Each is asked but the asker; one that cannot be is passed over. What it *)
(* answers is the stats module's.                                          *)
PassAsks(q) ==
    /\ broadcasts[q].pc = "pass"
    /\ broadcasts[q].left # <<>>
    /\ Broadcasts(q, IF running THEN [broadcasts[q] EXCEPT !.left = Tail(@)]
                     ELSE [broadcasts[q] EXCEPT !.pc = "stopped", !.left = <<>>])
    /\ UNCHANGED events

EndBroadcast(q) == [NotSearched EXCEPT !.hold = BroadcastHold]
PassEnds_Uncounted(q) ==
    /\ broadcasts[q].pc = "pass"
    /\ broadcasts[q].left = <<>>
    /\ Broadcasts(q, [broadcasts[q] EXCEPT !.pc = "waiting", !.wait = Pause])
    /\ UNCHANGED events
PassEnds(q) ==
    /\ broadcasts[q].pc = "pass"
    /\ broadcasts[q].left = <<>>
    /\ Broadcasts(q, IF broadcasts[q].pass >= Passes THEN EndBroadcast(q)
                     ELSE [broadcasts[q] EXCEPT !.pc = "waiting", !.pass = @ + 1, !.wait = Pause])
    /\ UNCHANGED events
PassFails(q) ==
    /\ broadcasts[q].pc = "pass"
    /\ Spend("errors")
    /\ Broadcasts(q, EndBroadcast(q))

MakesPass(q) == PassBegins(q) \/ PassAsks(q) \/ PassEnds(q) \/ PassFails(q)

(* on_idle, and the passing of time.                                       *)
DueQueries == {q \in Queries : broadcasts[q].pc = "waiting" /\ broadcasts[q].wait = 0}
PassesResume ==
    broadcasts' = [q \in Queries |->
        IF q \in DueQueries THEN [broadcasts[q] EXCEPT !.pc = "ready"] ELSE broadcasts[q]]
BroadcastsAge ==
    broadcasts' = [q \in Queries |->
        [broadcasts[q] EXCEPT !.wait = Less(@), !.hold = Less(@)]]
=============================================================================
