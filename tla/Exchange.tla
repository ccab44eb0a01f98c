------------------------------- MODULE Exchange -------------------------------
(***************************************************************************)
(* What the connection manager does over the connections of                *)
(* Connections.tla: it searches the peers for content that was missed, in  *)
(* passes that search workers make, and pushes new content on to a peer,   *)
(* which push workers do; while the conversations of Conversations.tla go  *)
(* on. Hand-offs (see Eviction.tla) change none of this.                   *)
(***************************************************************************)
EXTENDS Conversations

CONSTANTS
    Rank,               (* the nodes, those that match each content id best first *)
    SearchWorkers,
    PushWorkers,
    RetryAfters,        (* what peers may give as theirs *)
    Hold                (* how long a failed search is held *)

ASSUME ExchangeAssumption ==
    /\ Rank \in [Content -> Seq(Nodes)]
    /\ \A c \in Content : ToSet(Rank[c]) = Nodes
    /\ RetryAfters \subseteq Nat
    /\ Hold \in Nat \ {0}
    /\ \A met \in Starts :
          /\ met.contents \subseteq Content
          /\ met.sources \subseteq Nodes \cup {Own}

VARIABLES
    searches,       (* every search, in the order they were started *)
    underWay,       (* the search for each content under way *)
    ready,          (* the searches ready for a worker *)
    waits,          (* how long each search waits for its next pass *)
    held,           (* how long no search for each content may start *)
    searcher,       (* what each search worker does *)
    queue,          (* the new content to push *)
    unpushed,       (* that which waits for a connection to open *)
    pusher,         (* what each push worker does *)
    removed,        (* the content let go of since it was stored *)
    fate            (* history: what became of each content that was new *)

searchVars == <<searches, underWay, ready, waits, held, searcher>>
pushVars == <<queue, unpushed, pusher, removed, fate>>
vars == <<connectionVars, broadcasts, searchVars, pushVars>>

NoSearch == 0
Ranked(c) == SelectSeq(Rank[c], LAMBDA n : n \in Connected)
Largest(S) == CHOOSE x \in S : \A y \in S : y <= x

-----------------------------------------------------------------------------
(* Searches. *)

Search(c) == [content |-> c, pass |-> 1, tried |-> {}, due |-> [n \in Nodes |-> 0],
              asks |-> 0, ended |-> "no"]
SearchFor(s) == searches[s].content
Live(s) == underWay[SearchFor(s)] = s

(* One search at a time for each content, and none for a while after one   *)
(* that asked and found nothing.                                           *)
OnFetchRequested_Unheld(c) ==
    /\ main.pc = "idle"
    /\ Spend("fetches")
    /\ IF underWay[c] = NoSearch
       THEN /\ searches' = Append(searches, Search(c))
            /\ underWay' = [underWay EXCEPT ![c] = Len(searches')]
            /\ ready' = Append(ready, Len(searches'))
       ELSE UNCHANGED <<searches, underWay, ready>>
    /\ UNCHANGED <<main, running, trust, sessions, peers, candidates, dials, rests,
                   waits, held, searcher, pushVars>>

OnFetchRequested(c) ==
    /\ main.pc = "idle"
    /\ Spend("fetches")
    /\ IF underWay[c] = NoSearch /\ held[c] = 0
       THEN /\ searches' = Append(searches, Search(c))
            /\ underWay' = [underWay EXCEPT ![c] = Len(searches')]
            /\ ready' = Append(ready, Len(searches'))
       ELSE UNCHANGED <<searches, underWay, ready>>
    /\ UNCHANGED <<main, running, trust, sessions, peers, candidates, dials, rests,
                   waits, held, searcher, pushVars>>

NotSearching == [pc |-> "idle", search |-> NoSearch, session |-> NoSession]

SearcherTakes(w) ==
    /\ searcher[w].pc = "idle"
    /\ running
    /\ ready # <<>>
    /\ searcher' = [searcher EXCEPT ![w] = [@ EXCEPT !.pc = "next", !.search = Head(ready)]]
    /\ ready' = Tail(ready)
    /\ UNCHANGED <<connectionVars, searches, underWay, waits, held, pushVars>>

(* _Search.next_peer: the best peer not asked in this pass that is due; a  *)
(* peer that is not is passed over.                                        *)
Unasked(s) == SelectSeq(Ranked(SearchFor(s)), LAMBDA n : n \notin searches[s].tried)
DueAt(s, peersLeft) == {i \in DOMAIN peersLeft : searches[s].due[peersLeft[i]] = 0}
First(S) == CHOOSE i \in S : \A j \in S : i <= j

AsksNext(w) ==
    LET s == searcher[w].search
        unasked == Unasked(s)
        i == First(DueAt(s, unasked))
        n == unasked[i]
    IN  /\ DueAt(s, unasked) # {}
        /\ searches' = [searches EXCEPT
                          ![s].tried = @ \cup {unasked[j] : j \in 1..i},
                          ![s].asks = @ + 1]
        /\ searcher' = [searcher EXCEPT ![w].pc = "ask", ![w].session = peers[n]]
        /\ UNCHANGED waits

(* _Search.start_next_pass: once each peer may be asked again, but after   *)
(* this node's own pause at most.                                          *)
ResumeAfter(s) ==
    Smaller(Pause, Largest({0} \cup {searches[s].due[n] : n \in Connected}))

StartsNextPass_AndGoesOn(w) ==
    LET s == searcher[w].search
    IN  /\ DueAt(s, Unasked(s)) = {}
        /\ searches[s].pass < Passes
        /\ searches' = [searches EXCEPT ![s].pass = @ + 1, ![s].tried = {}]
        /\ waits' = IF ResumeAfter(s) > 0 THEN With(waits, s, ResumeAfter(s)) ELSE waits
        /\ UNCHANGED searcher
StartsNextPass_Uncounted(w) ==
    LET s == searcher[w].search
    IN  /\ DueAt(s, Unasked(s)) = {}
        /\ searches' = [searches EXCEPT ![s].tried = {}]
        /\ IF ResumeAfter(s) > 0
           THEN /\ waits' = With(waits, s, ResumeAfter(s))
                /\ searcher' = [searcher EXCEPT ![w] = NotSearching]
           ELSE UNCHANGED <<waits, searcher>>

StartsNextPass(w) ==
    LET s == searcher[w].search
    IN  /\ DueAt(s, Unasked(s)) = {}
        /\ searches[s].pass < Passes
        /\ searches' = [searches EXCEPT ![s].pass = @ + 1, ![s].tried = {}]
        /\ IF ResumeAfter(s) > 0
           THEN /\ waits' = With(waits, s, ResumeAfter(s))
                /\ searcher' = [searcher EXCEPT ![w] = NotSearching]
           ELSE UNCHANGED <<waits, searcher>>

(* _next_ask *)
SearcherLooks(w) ==
    LET s == searcher[w].search
    IN  /\ searcher[w].pc = "next"
        /\ IF ~running \/ ~Live(s)
           THEN searcher' = [searcher EXCEPT ![w] = NotSearching] /\ UNCHANGED <<searches, waits>>
           ELSE \/ AsksNext(w)
                \/ StartsNextPass(w)
                \/ /\ DueAt(s, Unasked(s)) = {}
                   /\ searches[s].pass = Passes
                   /\ searcher' = [searcher EXCEPT ![w].pc = "fail"]
                   /\ UNCHANGED <<searches, waits>>
    /\ UNCHANGED <<connectionVars, underWay, ready, held, pushVars>>

(* _ask: a peer that sends the content, one that does not and may say when *)
(* to ask again, and one that cannot be asked. Anything else that goes     *)
(* wrong fails the search.                                                 *)
SearcherAsks(w) ==
    LET s == searcher[w].search
        session == sessions[searcher[w].session]
        Goes(pc) == searcher' = [searcher EXCEPT ![w].pc = pc, ![w].session = NoSession]
    IN  /\ searcher[w].pc = "ask"
        /\ \/ session.open /\ Goes("found") /\ UNCHANGED <<searches, events>>
           \/ /\ session.open
              /\ Goes("next")
              /\ \E after \in RetryAfters \cup {Pause} :
                    searches' = [searches EXCEPT ![s].due[session.node] = after]
              /\ UNCHANGED events
           \/ ~session.open /\ Goes("next") /\ UNCHANGED <<searches, events>>
           \/ Spend("errors") /\ Goes("fail") /\ UNCHANGED searches
    /\ UNCHANGED <<main, running, trust, sessions, peers, candidates, dials, rests,
                   underWay, ready, waits, held, pushVars>>

(* _Searches.end: a search ends only itself.                               *)
Ends_Whichever(s, how) ==
    /\ underWay' = [underWay EXCEPT ![SearchFor(s)] = NoSearch]
    /\ searches' = [searches EXCEPT ![s].ended = how]
Ends(s, how) ==
    IF Live(s)
    THEN /\ underWay' = [underWay EXCEPT ![SearchFor(s)] = NoSearch]
         /\ searches' = [searches EXCEPT ![s].ended = how]
    ELSE UNCHANGED <<underWay, searches>>

SearcherFinds(w) ==
    /\ searcher[w].pc = "found"
    /\ Ends(searcher[w].search, "found")
    /\ searcher' = [searcher EXCEPT ![w] = NotSearching]
    /\ UNCHANGED <<connectionVars, ready, waits, held, pushVars>>

(* _search_failed: what asked no peer is not held.                         *)
SearcherFails(w) ==
    LET s == searcher[w].search
    IN  /\ searcher[w].pc = "fail"
        /\ Ends(s, "failed")
        /\ held' = IF Live(s) /\ searches[s].asks > 0
                   THEN [held EXCEPT ![SearchFor(s)] = Hold] ELSE held
        /\ searcher' = [searcher EXCEPT ![w] = NotSearching]
    /\ UNCHANGED <<connectionVars, ready, waits, pushVars>>

(* The part of on_idle about searches whose next pass is due.              *)
Due == {s \in DOMAIN waits : waits[s] = 0}
Resumes ==
    /\ ready' = ready \o SetToSeq(Due)
    /\ waits' = [s \in DOMAIN waits \ Due |-> waits[s]]
    /\ UNCHANGED <<searches, underWay, held, searcher>>

SearchThread(w) ==
    /\ \/ SearcherTakes(w) \/ SearcherLooks(w) \/ SearcherAsks(w)
       \/ SearcherFinds(w) \/ SearcherFails(w)
    /\ UNCHANGED broadcasts

Searches == \E w \in SearchWorkers : SearchThread(w)

-----------------------------------------------------------------------------
(* Pushing new content, each to the connected peer that matches it best.   *)

New(c, source) == [content |-> c, source |-> source]

Settles(contents, how) == fate' = [c \in Content |-> IF c \in contents THEN how ELSE fate[c]]

(* What a worker does with each of its batch: it is to be read, to be      *)
(* assigned a connection, bound for one, left since that could not be      *)
(* used, or over with.                                                     *)
Task(new) == [new |-> new, at |-> "read", tried |-> {}, ranked |-> <<>>, session |-> NoSession]
NotPushing == <<>>
Tasks(w, stage) == {i \in DOMAIN pusher[w] : pusher[w][i].at = stage}

(* Once there is nothing to do but what was left, that goes on to where    *)
(* each goes next; and a batch all over with is done.                      *)
Onward(tasks) ==
    LET Are(stages) == \A i \in DOMAIN tasks : tasks[i].at \in stages
    IN  IF Are({"over"}) THEN NotPushing
        ELSE IF Are({"over", "left"})
        THEN [i \in DOMAIN tasks |-> [tasks[i] EXCEPT !.at = IF @ = "left" THEN "assign" ELSE @]]
        ELSE tasks
GoesOnWith(w, tasks) == pusher' = [pusher EXCEPT ![w] = Onward(tasks)]
Becoming(w, i, task) == GoesOnWith(w, [pusher[w] EXCEPT ![i] = task])

(* A batch: what waits, up to `Depth`. *)
PusherTakes(w) ==
    LET size == Smaller(Depth, Len(queue))
    IN  /\ pusher[w] = NotPushing
        /\ running
        /\ queue # <<>>
        /\ pusher' = [pusher EXCEPT ![w] = [i \in 1..size |-> Task(queue[i])]]
        /\ queue' = SubSeq(queue, size + 1, Len(queue))
    /\ UNCHANGED <<connectionVars, searchVars, unpushed, removed, fate>>

(* Each is read in turn, unless it is no longer held. It keeps to the      *)
(* connections there are then.                                             *)
PusherReads(w) ==
    /\ \E i \in Tasks(w, "read") :
          LET task == pusher[w][i]
              c == task.new.content
              nodes == Ranked(c)
          IN  /\ \A j \in Tasks(w, "read") : i <= j
              /\ IF c \in removed
                 THEN Becoming(w, i, [task EXCEPT !.at = "over"]) /\ Settles({c}, "gone")
                 ELSE /\ Becoming(w, i, [task EXCEPT !.at = "assign",
                                            !.ranked = [j \in DOMAIN nodes |-> peers[nodes[j]]]])
                      /\ UNCHANGED fate
    /\ UNCHANGED <<connectionVars, searchVars, queue, unpushed, removed>>

(* _wait_for_peer: it waits for a connection to open, unless one has that  *)
(* was not tried.                                                          *)
Waiting(task) == With(unpushed, task.new.content, [source |-> task.new.source, tried |-> task.tried])
WaitsForPeer_Blindly(task) == unpushed' = Waiting(task) /\ UNCHANGED queue
WaitsForPeer_Queued(task) == queue' = Append(queue, task.new) /\ UNCHANGED unpushed
WaitsForPeer(task) ==
    IF Connected \subseteq task.tried
    THEN unpushed' = Waiting(task) /\ UNCHANGED queue
    ELSE queue' = Append(queue, task.new) /\ UNCHANGED unpushed

(* _next_peer_for: the best connection not tried, unless the content came  *)
(* from there. Those of a batch are assigned in any order.                 *)
PusherAssigns(w) ==
    /\ Tasks(w, "read") = {}
    /\ \E i \in Tasks(w, "assign") :
          LET task == pusher[w][i]
              untried == SelectSeq(task.ranked, LAMBDA s : sessions[s].node \notin task.tried)
              s == Head(untried)
              Done == Becoming(w, i, [task EXCEPT !.at = "over"])
          IN  \/ /\ untried = <<>>
                 /\ WaitsForPeer(task)
                 /\ Done
                 /\ UNCHANGED fate
              \/ /\ untried # <<>>
                 /\ sessions[s].node = task.new.source
                 /\ Done
                 /\ Settles({task.new.content}, "home")
                 /\ UNCHANGED <<queue, unpushed>>
              \/ /\ untried # <<>>
                 /\ sessions[s].node # task.new.source
                 /\ Becoming(w, i, [task EXCEPT !.at = "bound", !.session = s,
                                               !.tried = @ \cup {sessions[s].node}])
                 /\ UNCHANGED <<queue, unpushed, fate>>
    /\ UNCHANGED <<connectionVars, searchVars, removed>>

(* _push_to: what is bound for one connection goes together. *)
PusherSends(w) ==
    /\ Tasks(w, "read") = {}
    /\ Tasks(w, "assign") = {}
    /\ \E s \in {pusher[w][i].session : i \in Tasks(w, "bound")} :
          LET group == {i \in Tasks(w, "bound") : pusher[w][i].session = s}
              contents == {pusher[w][i].new.content : i \in group}
              stage == IF sessions[s].open THEN "over" ELSE "left"
          IN  /\ GoesOnWith(w, [i \in DOMAIN pusher[w] |->
                     IF i \in group THEN [pusher[w][i] EXCEPT !.at = stage] ELSE pusher[w][i]])
              /\ IF sessions[s].open
                 THEN /\ Settles(contents, "offered")
                      /\ sessions' = [sessions EXCEPT ![s].pushed = @ \cup contents]
                 ELSE UNCHANGED <<fate, sessions>>
    /\ UNCHANGED <<main, running, trust, peers, candidates, dials, rests, events, searchVars,
                   queue, unpushed, removed>>

(* _push_unpushed, and then the peer that joined is greeted.               *)
PushesUnpushed_Keeps(s) ==
    /\ Greets(s)
    /\ queue' = queue \o LET waited == SetToSeq(DOMAIN unpushed)
                         IN  [i \in DOMAIN waited |-> New(waited[i], unpushed[waited[i]].source)]
    /\ UNCHANGED <<searchVars, unpushed, pusher, removed, fate>>

PushesUnpushed(s) ==
    /\ Greets(s)
    /\ queue' = queue \o LET waited == SetToSeq(DOMAIN unpushed)
                         IN  [i \in DOMAIN waited |-> New(waited[i], unpushed[waited[i]].source)]
    /\ unpushed' = <<>>
    /\ UNCHANGED <<searchVars, pusher, removed, fate>>

(* Content stored is pushed on, and any search for it ends.                *)
OnDataStored(c, source) ==
    /\ main.pc = "idle"
    /\ fate[c] = "none"
    /\ Spend("stores")
    /\ underWay' = [underWay EXCEPT ![c] = NoSearch]
    /\ searches' = IF underWay[c] = NoSearch THEN searches
                   ELSE [searches EXCEPT ![underWay[c]].ended = "stored"]
    /\ held' = [held EXCEPT ![c] = 0]
    /\ queue' = Append(queue, New(c, source))
    /\ fate' = [fate EXCEPT ![c] = "new"]
    /\ UNCHANGED <<main, running, trust, sessions, peers, candidates, dials, rests,
                   ready, waits, searcher, unpushed, pusher, removed>>

(* The eviction module lets go of it again.                                *)
Removed(c) ==
    /\ fate[c] = "new"
    /\ Spend("removals")
    /\ removed' = removed \cup {c}
    /\ UNCHANGED <<main, running, trust, sessions, peers, candidates, dials, rests, searchVars,
                   queue, unpushed, pusher, fate>>

PushThread(w) ==
    (PusherTakes(w) \/ PusherReads(w) \/ PusherAssigns(w) \/ PusherSends(w)) /\ UNCHANGED broadcasts
JoinedPushes ==
    /\ \E s \in DOMAIN sessions : PushesUnpushed(s)
    /\ UNCHANGED broadcasts

Pushes == (\E w \in PushWorkers : PushThread(w)) \/ JoinedPushes

-----------------------------------------------------------------------------
Init ==
    /\ ConnectionInit
    /\ broadcasts = [q \in Queries |-> NotSearched]
    /\ searches = <<>>
    /\ underWay = [c \in Content |-> NoSearch]
    /\ ready = <<>>
    /\ waits = <<>>
    /\ held = [c \in Content |-> 0]
    /\ searcher = [w \in SearchWorkers |-> NotSearching]
    /\ queue = <<>>
    /\ unpushed = <<>>
    /\ pusher = [w \in PushWorkers |-> NotPushing]
    /\ removed = {}
    /\ fate = [c \in Content |-> "none"]

(* Content that was stored, and is not let go of again, is held. *)
Held == (start.held \cup {c \in Content : fate[c] # "none"}) \ removed

TalksWith(n) ==
    /\ \E s \in DOMAIN sessions : sessions[s].node = n /\ Talks(s, Held)
    /\ UNCHANGED <<searchVars, pushVars>>
PassThread(q) == MakesPass(q) /\ UNCHANGED <<searchVars, pushVars>>
Hears ==
    /\ OnKarmaHead \/ \E q \in Queries, by \in start.askers : OnSearchRequested(q, by)
    /\ UNCHANGED <<searchVars, pushVars>>

Speaks == Hears \/ (\E n \in Nodes : TalksWith(n)) \/ \E q \in Queries : PassThread(q)

OnIdle ==
    /\ Rested # {} \/ Due # {} \/ DueSessions # {} \/ DueQueries # {}
    /\ LetsRested
    /\ Resumes
    /\ sessions' = [s \in DOMAIN sessions |->
                       IF s \in DueSessions THEN Refreshing(s) ELSE sessions[s]]
    /\ PassesResume
    /\ UNCHANGED pushVars

Tick ==
    /\ \/ \E k \in DOMAIN resting : resting[k] > 0
       \/ \E s \in DOMAIN waits : waits[s] > 0
       \/ \E c \in Content : held[c] > 0
       \/ \E s \in DOMAIN searches, n \in Nodes : Live(s) /\ searches[s].due[n] > 0
       \/ \E s \in InMix : start.talks /\ sessions[s].refresh > 0
       \/ \E q \in Queries : broadcasts[q].wait > 0 \/ broadcasts[q].hold > 0
    /\ RestsAge
    /\ sessions' = [s \in DOMAIN sessions |-> [sessions[s] EXCEPT !.refresh = Less(@)]]
    /\ BroadcastsAge
    /\ searches' = [s \in DOMAIN searches |->
                       [searches[s] EXCEPT !.due = [n \in Nodes |-> Less(@[n])]]]
    /\ waits' = [s \in DOMAIN waits |-> Less(waits[s])]
    /\ held' = [c \in Content |-> Less(held[c])]
    /\ UNCHANGED <<underWay, ready, searcher, pushVars>>

OthersAct ==
    /\ \E c \in start.contents :
          \/ OnFetchRequested(c)
          \/ \E source \in start.sources : OnDataStored(c, source)
          \/ Removed(c)
    /\ UNCHANGED broadcasts

NoOther == UNCHANGED <<broadcasts, searchVars, pushVars>>
Connects == (Threads \/ Receives \/ Arrivals) /\ NoOther

Next == Connects \/ Searches \/ Pushes \/ Speaks \/ OthersAct \/ OnIdle \/ Tick

Spec == Init /\ [][Next]_vars

(* Each thread runs on, a peer answers or times out, the receive loop      *)
(* comes round when it has nothing to handle, and time passes. Only the    *)
(* behaviours from starts that are followed to their end need it.          *)
FairSpec ==
    /\ Spec
    /\ \A k \in Keys : WF_vars(start.followed /\ DialThread(k) /\ NoOther)
    /\ \A d \in Dials : WF_vars(start.followed /\ AskedThread(d) /\ NoOther)
    /\ \A k \in Keys : WF_vars(start.followed /\ EndedMaintains(k) /\ NoOther)
    /\ WF_vars(start.followed /\ SessionThreads /\ NoOther)
    /\ WF_vars(start.followed /\ Receives /\ NoOther)
    /\ \A w \in PushWorkers : WF_vars(start.followed /\ PushThread(w))
    /\ WF_vars(start.followed /\ JoinedPushes)
    /\ \A w \in SearchWorkers : WF_vars(start.followed /\ SearchThread(w))
    /\ \A n \in Nodes : WF_vars(start.followed /\ TalksWith(n))
    /\ \A q \in Queries : WF_vars(start.followed /\ PassThread(q))
    /\ WF_vars(start.followed /\ OnIdle)
    /\ WF_vars(start.followed /\ Tick)

-----------------------------------------------------------------------------
(* Safety. *)

SessionIds == DOMAIN sessions

(* The mix never stalls: no candidate that would be dialed if the mix were *)
(* tended now is left, unless some thread has still to tend it. So each    *)
(* change that lets one be dialed is followed by tending the mix.          *)
MixIsTended ==
    \/ ~running
    \/ ~trust.known
    \/ main.pc \in {"closing", "maintain", "listed"}
    \/ ended # {}
    \/ \E s \in SessionIds : sessions[s].stage = "closed" \/ sessions[s].tail = "maintain"
    \/ Wanted = <<>>

(* No connection is lost sight of: each one taken into the mix stays the   *)
(* mix's connection to its node until it has closed.                       *)
NoneLostSight ==
    \A s \in InMix : sessions[s].node \in Connected /\ peers[sessions[s].node] = s

(* It is connected to no node that it does not allow, whatever changed     *)
(* while the node was being dialed, but those it is about to close.        *)
OnlyAllowed ==
    \A n \in Connected : sessions[peers[n]].open =>
        Allowed(n) \/ (main.pc = "closing" /\ peers[n] \in main.todo)

(* The operator is told what came of a dial as it was, unless whom this    *)
(* node trusts changed in between.                                         *)
DialsToldTruly ==
    \A d \in Dials : asked[d].pc = "told" /\ asked[d].current =>
        /\ asked[d].outcome = "already_connected" => asked[d].refusal = "duplicate"
        /\ asked[d].outcome = "not_trusted" => asked[d].refusal \in {"unknown", "refused"}

(* Each connection is kept where it can be closed, and closed once its     *)
(* node is no longer allowed; and what came of one asked for is told.      *)
ConnectionsKept == NoneLostSight /\ OnlyAllowed /\ DialsToldTruly

(* New content is in one place until it is settled: neither forgotten      *)
(* between the queue, a worker and what waits for a peer, nor there twice. *)
InQueue(c) == {i \in DOMAIN queue : queue[i].content = c}
Carried(tasks, c) == {i \in DOMAIN tasks : tasks[i].new.content = c /\ tasks[i].at # "over"}
WithWorkers(c) == UNION {{<<"worker", w, i>> : i \in Carried(pusher[w], c)} : w \in PushWorkers}
Spots(c) ==
    {<<"queue", i>> : i \in InQueue(c)}
    \cup WithWorkers(c)
    \cup {<<"unpushed", d>> : d \in {c} \cap DOMAIN unpushed}
KeptOnce == \A c \in Content : Cardinality(Spots(c)) = IF fate[c] = "new" THEN 1 ELSE 0

(* New content that waits for a connection to open was sent to every peer  *)
(* connected, but to those whose joining has still to push it.             *)
UnpushedWasTried ==
    \A c \in DOMAIN unpushed : \A n \in Connected :
        n \in unpushed[c].tried \/ sessions[peers[n]].tail # "done"

(* New content is neither lost nor passed over by a peer that connects     *)
(* while it is being put by.                                                *)
NewIsKept == KeptOnce /\ UnpushedWasTried

(* Who has a search: a worker, or those ready or waiting for one. *)
Carriers(s) ==
    {<<"worker", w>> : w \in {v \in SearchWorkers : searcher[v].search = s}}
    \cup {<<"ready", i>> : i \in {j \in DOMAIN ready : ready[j] = s}}
    \cup {<<"waiting", i>> : i \in {s} \cap DOMAIN waits}
CarriedByOne(s) ==
    /\ Cardinality(Carriers(s)) <= 1
    /\ running /\ Live(s) => Carriers(s) # {}
EndedByNoOther(s) == searches[s].ended = "no" => Live(s)
HeldOff(c) == held[c] > 0 => underWay[c] = NoSearch

(* One worker at a time has a search, or it is ready or waiting for one, *)
(* and so is each that is under way.  It ends only when its content is     *)
(* stored, or by its own worker, of however many older ones for the        *)
(* content are still about; and none is under way for content held off.    *)
SearchesKept ==
    /\ \A s \in DOMAIN searches : CarriedByOne(s) /\ EndedByNoOther(s)
    /\ \A c \in Content : HeldOff(c)

(* A peer in the mix is busy just while it has still to be greeted, or a   *)
(* conversation with it that reads its seek list is under way: only one at *)
(* a time. So what it is named is not named to it already, though nothing  *)
(* locks that; and a peer is never left busy, not to be refreshed again.   *)
OneReads(s) == Cardinality(Reading(s)) <= 1
BusyIsReading(s) == sessions[s].busy <=> Reading(s) # {} \/ sessions[s].tail # "done"
NamedOnce(s) ==
    \A i \in Reading(s) : sessions[s].talks[i].pc = "noting" =>
        \A q \in DOMAIN sessions[s].talks[i].unnamed :
            sessions[s].talks[i].unnamed[q] \cap NamedFor(s, q) = {}
TalksKept ==
    start.talks => \A s \in InMix : OneReads(s) /\ BusyIsReading(s) /\ NamedOnce(s)

(* What is to be pushed or searched for is carried by one, and only one;   *)
(* and so is the reading of each peer's seek list.                         *)
TasksKept == NewIsKept /\ SearchesKept /\ TalksKept

-----------------------------------------------------------------------------
(* Liveness. *)

(* Every candidate dialed, and every dial asked for, comes to an end.      *)
DialsEnd ==
    /\ \A k \in Keys : []<>(dialing[k].pc = "idle" \/ ~start.followed)
    /\ \A d \in Dials : []<>(asked[d].pc \in {"idle", "told"} \/ ~start.followed)

(* Every search ends, though peers put it off, fail or come and go.        *)
SearchesEnd == \A c \in Content : []<>(underWay[c] = NoSearch \/ ~running \/ ~start.followed)

(* New content does not stay queued: it goes to a peer, or waits for one.  *)
PushesEnd ==
    []<>(\/ ~running \/ ~start.followed
         \/ queue = <<>> /\ \A w \in PushWorkers : pusher[w] = NotPushing)

(* Every search for a prefix ends, and every peer's seek list is read      *)
(* again and again while it stays connected.                               *)
Unread(n) == start.talks /\ n \in Connected /\ running
BroadcastsEnd ==
    \A q \in Queries : []<>(broadcasts[q].pc = "none" \/ ~running \/ ~start.followed)
ReadAgain ==
    \A n \in Nodes :
        /\ []<>(start.followed /\ Unread(n) => sessions[peers[n]].busy)
        /\ []<>(start.followed /\ Unread(n) => ~sessions[peers[n]].busy)

(* No worker, dial or queue holds on to what it has for ever, wherever the  *)
(* behaviour is followed to its end.                                        *)
EverythingEnds == DialsEnd /\ SearchesEnd /\ PushesEnd /\ BroadcastsEnd /\ ReadAgain
=============================================================================
