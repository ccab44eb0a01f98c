------------------------------- MODULE Eviction -------------------------------
(***************************************************************************)
(* How a Libranet node keeps within its storage limits: the eviction       *)
(* module process, with those parts of the connection manager, the stats   *)
(* module, the unbundler and the writers of content it talks to.           *)
(*                                                                         *)
(* Every object has the same size, so bytes are counted in objects.  Times *)
(* are timers counted down by Tick: what is left until a deadline.         *)
(***************************************************************************)
EXTENDS Integers, FiniteSets, SequencesExt

CONSTANTS
    Content,            (* content ids *)
    Own,                (* this node's id: the id of its public key *)
    Nodes,              (* the ids of the peers, each that of its public key *)
    Directions,         (* the ways peers are connected: outbound, inbound *)
    Shunnable,          (* the content the owner may shun *)
    Writers,            (* the threads and processes that store content *)
    MaxHeld,            (* storage.max_storage_bytes, or NoLimit *)
    MinFree,            (* storage.min_free_bytes; 0 for no such limit *)
    Disk,               (* the size of the filesystem *)
    Headroom,           (* headroom_bytes *)
    MaxHandOffs,        (* storage.max_hand_offs *)
    MaxCandidates,      (* storage.max_candidates *)
    Grace,              (* storage.stored_grace_seconds *)
    RetryDelay,         (* peers.retry_delay_seconds *)
    HandOffTimeout,     (* hand_off_timeout_seconds *)
    CandidatesTimeout,  (* storage.candidates_timeout_seconds *)
    ReclaimTimeout,     (* storage.reclaim_timeout_seconds *)
    ReclaimInterval,    (* storage.reclaim_interval_seconds *)
    StatsLags,          (* whether stats may not have recorded all that is held *)
    (* Bounds of the model. *)
    MaxInbox,           (* messages waiting when another comes unprompted *)
    MaxWaiting,         (* requests and notices waiting for another module *)
    Bounds              (* how often, together, each kind of event may happen *)

NoLimit == -1

(* What happens a bounded number of times: objects written, shunned; peers *)
(* connecting or not; free space changing; a backup asking; a process      *)
(* crashing; the dispatcher losing a message.                              *)
Kinds == {"writes", "shuns", "links", "space", "asks", "crashes", "losses"}

ASSUME EvictionAssumption ==
    /\ Own \in Content
    /\ Nodes \subseteq Content \ {Own}
    /\ Shunnable \subseteq Content
    /\ Directions \subseteq {"outbound", "inbound"} /\ "outbound" \in Directions
    /\ IsFiniteSet(Content) /\ IsFiniteSet(Writers)
    /\ MaxHeld \in Nat \cup {NoLimit}
    /\ {MinFree, Disk, Headroom, Grace, RetryDelay, ReclaimInterval} \subseteq Nat
    /\ {MaxHandOffs, MaxCandidates, HandOffTimeout, CandidatesTimeout,
        ReclaimTimeout} \subseteq Nat \ {0}
    /\ StatsLags \in BOOLEAN
    /\ {MaxInbox, MaxWaiting} \subseteq Nat
    /\ Bounds \subseteq [Kinds -> Nat]

VARIABLES
    store,      (* the files of the source of truth *)
    used,       (* what else takes up the filesystem, resolved files among it *)
    up,         (* whether the eviction process is running *)
    mem,        (* the memory of the eviction process *)
    inbox,      (* the messages delivered to it and not yet handled *)
    requests,   (* eviction.candidates_requested on their way to stats *)
    notices,    (* eviction.notice on their way to connections, of each object *)
    reclaims,   (* resolved.reclaim_requested not yet answered *)
    asked,      (* the ways peers.connected_requested is not yet answered *)
    offers,     (* the content a hand-off thread is offering to peers *)
    linked,     (* the peers connected, each way *)
    writing,    (* what each writer is doing *)
    elsewhere,  (* history: content some peer has accepted *)
    shunned,    (* history: content the owner has shunned *)
    fresh,      (* history: how long until each object's grace is over *)
    lost,       (* history: files stored whose data.stored was never sent *)
    spent       (* history: how often each bounded event has happened *)

bus  == <<inbox, requests, notices, reclaims, asked>>
peers == <<offers, linked, elsewhere>>
history == <<shunned, fresh, lost, spent>>
vars == <<store, used, up, mem, inbox, requests, notices, reclaims, asked,
          offers, linked, writing, elsewhere, shunned, fresh, lost, spent>>

-----------------------------------------------------------------------------
(* Timers. *)

NoTimer == -1
Timers(n) == {NoTimer} \cup 0..n
Running(t) == t # NoTimer
Ticked(t) == IF t > 0 THEN t - 1 ELSE t
GivenUp_Never(t) == t
GivenUp(t) == IF t = 0 THEN NoTimer ELSE t

(* Messages. *)

HandOffCopies_None == 0
HandOffCopies == 1

Messages ==
    [type : {"data.stored", "data.shunned"}, content : Content]
    \cup [type : {"eviction.acknowledged"}, content : Content,
          holders : 0..HandOffCopies]
    \cup [type : {"eviction.candidates"}, objects : Seq(Content)]
    \cup [type : {"peers.connected"}, direction : Directions,
          nodes : SUBSET Nodes]
    \cup [type : {"resolved.reclaimed", "storage.full_requested"}]

Deliver(message) == inbox' = Append(inbox, message)

(* What no message prompts happens only while few messages wait. *)
Announce(message) ==
    /\ Len(inbox) < MaxInbox
    /\ Deliver(message)

Connected(d, nodes) ==
    [type |-> "peers.connected", direction |-> d, nodes |-> nodes]

(* Each list named replaces the last for its direction, and no other. *)
NamedIn(connected, message) == [connected EXCEPT ![message.direction] = message.nodes]

-----------------------------------------------------------------------------
(* The memory of the eviction process, forgotten when it stops. *)

Memory ==
    [held : Nat,                                (* bytes counted as held *)
     handingOff : [Content -> Timers(HandOffTimeout)],
     candidates : Seq(Content),
     asking : Timers(CandidatesTimeout),
     reclaiming : Timers(ReclaimTimeout),
     reclaimDue : 0..ReclaimInterval,
     paused : Timers(RetryDelay + Grace),
     connected : [Directions -> SUBSET Nodes],
     full : BOOLEAN,
     grace : [Content -> 0..Grace]]

Started(files) ==
    [held |-> IF MaxHeld = NoLimit THEN 0 ELSE Cardinality(files),
     handingOff |-> [c \in Content |-> NoTimer],
     candidates |-> <<>>,
     asking |-> NoTimer,
     reclaiming |-> NoTimer,
     reclaimDue |-> 0,
     paused |-> NoTimer,
     connected |-> [d \in Directions |-> {}],
     full |-> FALSE,
     grace |-> [c \in Content |-> 0]]

HandingOff(m) == {c \in Content : Running(m.handingOff[c])}
StoredLately(m) == {c \in Content : m.grace[c] > 0}
PeerKeys(m) == UNION {m.connected[d] : d \in Directions}
Kept_OutboundOnly(m, c) == c = Own \/ c \in m.connected["outbound"]
Kept(m, c) == c = Own \/ c \in PeerKeys(m)

(* How far over its limits storage is. *)

Larger(a, b) == IF a >= b THEN a ELSE b

FreeBytes(files, use) == Disk - Cardinality(files) - use

FreeSpaceShortfall(files, use) ==
    IF MinFree > 0 THEN Larger(0, MinFree - FreeBytes(files, use)) ELSE 0

Excess(m, files, use) ==
    LET tooLittleFree == IF MinFree > 0
                         THEN MinFree + Headroom - FreeBytes(files, use) ELSE 0
        tooMuchHeld == IF MaxHeld # NoLimit
                       THEN m.held + Headroom - MaxHeld ELSE 0
    IN  Larger(0, Larger(tooLittleFree, tooMuchHeld))

OverLimits(m, files, use, adding) ==
    \/ MinFree > 0 /\ FreeBytes(files, use) - adding < MinFree
    \/ MaxHeld # NoLimit /\ m.held + adding > MaxHeld

Stored_Uncounted(m, c) == [m EXCEPT !.grace[c] = Grace]
Stored(m, c) == [m EXCEPT !.grace[c] = Grace, !.held = @ + 1]
Deleted(m) == [m EXCEPT !.held = Larger(0, @ - 1)]

(* Storage is full when one more object would take it over a limit. *)
ReportFull_Once(m, files, use) == [m EXCEPT !.full = @ \/ OverLimits(m, files, use, 1)]
ReportFull(m, files, use) == [m EXCEPT !.full = OverLimits(m, files, use, 1)]

-----------------------------------------------------------------------------
(* _evict: what every handler ends with, from the memory m it has come to. *)

(* No hand-off may start now. *)
Waiting(m) ==
    \/ m.paused > 0
    \/ Cardinality(HandingOff(m)) >= MaxHandOffs
    \/ Running(m.reclaiming)

Reclaim(m) ==
    /\ mem' = [m EXCEPT !.reclaiming = ReclaimTimeout,
                        !.reclaimDue = ReclaimInterval]
    /\ reclaims' = reclaims + 1
    /\ UNCHANGED <<notices, requests>>

MayHandOff_Fresh(m, c) == ~Kept(m, c) /\ c \notin HandingOff(m)
MayHandOff(m, c) == ~Kept(m, c) /\ c \notin HandingOff(m) /\ m.grace[c] = 0

(* How many more hand-offs would bring storage back within its limits, or  *)
(* make as many as may be under way.                                       *)
Fewer(a, b) == IF a <= b THEN a ELSE b
Wanted(m, excess) ==
    Larger(0, Fewer(excess, MaxHandOffs) - Cardinality(HandingOff(m)))

(* Take candidates off the front of the list until the hand-offs under way *)
(* would free the excess, or there are as many as may be: the first n of   *)
(* them, those that may be handed off being. Stats is asked for more, if   *)
(* it is not being asked already, once the list runs out short of that.    *)
StartHandOffs(m, excess) ==
    LET wanted == Wanted(m, excess)
        taken(n) == {c \in ToSet(SubSeq(m.candidates, 1, n)) : MayHandOff(m, c)}
        enough(n) == Cardinality(taken(n)) >= wanted
    IN  \E n \in 0..Len(m.candidates) :
            /\ enough(n) \/ n = Len(m.candidates)
            /\ \A k \in 0..(n - 1) : ~enough(k)
            /\ LET ask == ~enough(n) /\ ~Running(m.asking)
                   chosen == [c \in Content |-> IF c \in taken(n) THEN HandOffTimeout
                                                ELSE m.handingOff[c]]
                   started == [m EXCEPT !.handingOff = chosen,
                                        !.candidates = SubSeq(@, n + 1, Len(@)),
                                        !.asking = IF ask THEN CandidatesTimeout ELSE @]
               IN  /\ mem' = started
                   /\ requests' = IF ~ask THEN requests
                                  ELSE Append(requests,
                                         [bytes |-> excess - Cardinality(HandingOff(started)),
                                          exclude |-> HandingOff(started) \cup PeerKeys(m)
                                                      \cup StoredLately(m)])
            /\ notices' = [c \in Content |-> IF c \in taken(n) THEN notices[c] + 1
                                             ELSE notices[c]]
    /\ UNCHANGED reclaims

ReclaimFirst(m, files, use) == m.reclaimDue = 0 /\ FreeSpaceShortfall(files, use) > 0

Evict(before, files, use) ==
    LET m == ReportFull(before, files, use)
        excess == Excess(m, files, use)
        reclaimFirst == ReclaimFirst(m, files, use)
    IN  \/ /\ Waiting(m)
           /\ mem' = m
           /\ UNCHANGED <<requests, notices, reclaims>>
        \/ /\ ~Waiting(m) /\ excess = 0
           /\ mem' = [m EXCEPT !.candidates = <<>>]
           /\ UNCHANGED <<requests, notices, reclaims>>
        \/ ~Waiting(m) /\ excess > 0 /\ reclaimFirst /\ Reclaim(m)
        \/ ~Waiting(m) /\ excess > 0 /\ ~reclaimFirst /\ StartHandOffs(m, excess)

-----------------------------------------------------------------------------
(* The eviction module: starting, and its handler of each event. *)

Start ==
    /\ ~up
    /\ up' = TRUE
    /\ asked' = Directions
    /\ Evict(Started(store), store, used)
    /\ UNCHANGED <<store, used, inbox, writing, peers, history>>

Receive(type) ==
    /\ up
    /\ inbox # <<>>
    /\ Head(inbox).type = type
    /\ inbox' = Tail(inbox)

NothingSent == UNCHANGED <<requests, notices, reclaims>>

OnDataStored ==
    /\ Receive("data.stored")
    /\ Evict(Stored(mem, Head(inbox).content), store, used)
    /\ UNCHANGED <<store, used, up, asked, writing, peers, history>>

OnEvictionAcknowledged ==
    /\ Receive("eviction.acknowledged")
    /\ LET c == Head(inbox).content
           m == [mem EXCEPT !.handingOff[c] = NoTimer]
           goes == ~Kept(m, c) /\ m.grace[c] = 0 /\ c \in store
       IN  \/ /\ Head(inbox).holders < HandOffCopies
              /\ mem' = [m EXCEPT !.paused = RetryDelay]
              /\ NothingSent
              /\ UNCHANGED store
           \/ /\ Head(inbox).holders >= HandOffCopies
              /\ ~goes
              /\ Evict(m, store, used)
              /\ UNCHANGED store
           \/ /\ Head(inbox).holders >= HandOffCopies
              /\ goes
              /\ store' = store \ {c}
              /\ Evict(Deleted(m), store \ {c}, used)
    /\ UNCHANGED <<used, up, asked, writing, peers, history>>

(* With nothing listed and nothing being handed off, wait: until the       *)
(* earliest of what was stored lately may go, or else before asking again. *)
WaitForMore_NotAtAll(m) == mem' = m
WaitForMore(m) ==
    \/ \E earliest \in StoredLately(m) :
           /\ \A c \in StoredLately(m) : m.grace[earliest] <= m.grace[c]
           /\ mem' = [m EXCEPT !.paused = m.grace[earliest]]
    \/ StoredLately(m) = {} /\ mem' = [m EXCEPT !.paused = RetryDelay]

OnEvictionCandidates ==
    /\ Receive("eviction.candidates")
    /\ LET m == [mem EXCEPT !.asking = NoTimer, !.candidates = Head(inbox).objects]
           idle == HandingOff(m) = {} /\ Excess(m, store, used) > 0
       IN  \/ m.candidates # <<>> /\ Evict(m, store, used)
           \/ m.candidates = <<>> /\ idle /\ WaitForMore(m) /\ NothingSent
           \/ m.candidates = <<>> /\ ~idle /\ mem' = m /\ NothingSent
    /\ UNCHANGED <<store, used, up, asked, writing, peers, history>>

(* Stats lists an object once. *)
Without(objects, c) ==
    IF \E i \in DOMAIN objects : objects[i] = c
    THEN RemoveAt(objects, CHOOSE i \in DOMAIN objects : objects[i] = c)
    ELSE objects

OnDataShunned ==
    /\ Receive("data.shunned")
    /\ LET c == Head(inbox).content
           m == [mem EXCEPT !.grace[c] = 0, !.candidates = Without(@, c)]
       IN  \/ /\ Kept(mem, c)
              /\ UNCHANGED <<mem, store>>
              /\ NothingSent
           \/ /\ ~Kept(mem, c) /\ c \notin store
              /\ mem' = m
              /\ UNCHANGED store
              /\ NothingSent
           \/ /\ ~Kept(mem, c) /\ c \in store
              /\ store' = store \ {c}
              /\ Evict(Deleted(m), store \ {c}, used)
    /\ UNCHANGED <<used, up, asked, writing, peers, history>>

OnPeersConnected ==
    /\ Receive("peers.connected")
    /\ mem' = [mem EXCEPT !.connected = NamedIn(@, Head(inbox))]
    /\ NothingSent
    /\ UNCHANGED <<store, used, up, asked, writing, peers, history>>

OnStorageFullRequested ==
    /\ Receive("storage.full_requested")
    /\ mem' = ReportFull(mem, store, used)
    /\ NothingSent
    /\ UNCHANGED <<store, used, up, asked, writing, peers, history>>

OnResolvedReclaimed ==
    /\ Receive("resolved.reclaimed")
    /\ Evict([mem EXCEPT !.reclaiming = NoTimer], store, used)
    /\ UNCHANGED <<store, used, up, asked, writing, peers, history>>

(* on_idle: only once a poll interval passes with nothing to handle. What  *)
(* has timed out is given up on.                                           *)
OnIdle ==
    /\ up
    /\ inbox = <<>>
    /\ LET reported == ReportFull(mem, store, used)
           overdue == {c \in Content : mem.handingOff[c] = 0}
           m == [reported EXCEPT !.handingOff = [c \in Content |-> GivenUp(@[c])],
                                 !.asking = GivenUp(@),
                                 !.reclaiming = GivenUp(@),
                                 !.paused = GivenUp(@)]
           carriesOn == overdue # {} \/ 0 \in {mem.asking, mem.reclaiming, mem.paused}
       IN  \/ carriesOn /\ Evict(m, store, used)
           \/ ~carriesOn /\ mem' = reported /\ NothingSent
    /\ UNCHANGED <<store, used, up, inbox, asked, writing, peers, history>>

Module ==
    \/ Start \/ OnDataStored \/ OnEvictionAcknowledged \/ OnEvictionCandidates
    \/ OnDataShunned \/ OnPeersConnected \/ OnStorageFullRequested
    \/ OnResolvedReclaimed \/ OnIdle

-----------------------------------------------------------------------------
(* The modules it talks to. *)

eviction == <<up, mem>>

Spend(kind) ==
    /\ spent' = [spent EXCEPT ![kind] = @ + 1]
    /\ \E bound \in Bounds : \A other \in Kinds : spent'[other] <= bound[other]

(* Stats ranks what is held, less what it was asked to leave out, as much  *)
(* as covers what is asked for. Its order is its own; with records that    *)
(* lag behind the store it may list less.                                  *)
StatsAnswers ==
    /\ requests # <<>>
    /\ LET request == Head(requests)
           listed == store \ (request.exclude \cup {Own})
           most == Fewer(request.bytes, Fewer(MaxCandidates, Cardinality(listed)))
       IN  \E objects \in SeqOf(listed, MaxCandidates) :
               /\ Cardinality(ToSet(objects)) = Len(objects)
               /\ Len(objects) = most \/ (StatsLags /\ Len(objects) < most)
               /\ Deliver([type |-> "eviction.candidates", objects |-> objects])
    /\ requests' = Tail(requests)
    /\ UNCHANGED <<store, used, eviction, notices, reclaims, asked, peers, writing, history>>

(* The unbundler deletes the resolved files not used lately. *)
UnbundlerReclaims ==
    /\ reclaims > 0
    /\ \E left \in 0..used : used' = left
    /\ Deliver([type |-> "resolved.reclaimed"])
    /\ reclaims' = reclaims - 1
    /\ UNCHANGED <<store, eviction, requests, notices, asked, peers, writing, history>>

(* The connection manager takes up a notice, unless that content is being  *)
(* handed off already: it reads the content, and answers at once if it is  *)
(* no longer held.                                                         *)
Acknowledge(c, holders) ==
    Deliver([type |-> "eviction.acknowledged", content |-> c, holders |-> holders])

HandOffStarts(c) ==
    /\ notices[c] > 0
    /\ notices' = [notices EXCEPT ![c] = @ - 1]
    /\ \/ c \in offers /\ UNCHANGED <<offers, inbox>>
       \/ c \in store \ offers /\ offers' = offers \cup {c} /\ UNCHANGED inbox
       \/ c \notin store \cup offers /\ Acknowledge(c, 0) /\ UNCHANGED offers
    /\ UNCHANGED <<store, used, eviction, requests, reclaims, asked, linked,
                   elsewhere, writing, history>>

HandOffEnds(c, holders) ==
    /\ c \in offers
    /\ offers' = offers \ {c}
    /\ Acknowledge(c, holders)
    /\ UNCHANGED <<store, used, eviction, requests, notices, reclaims, asked, linked,
                   writing, history>>

PeerAccepts(c) ==
    /\ linked["outbound"] # {}
    /\ HandOffEnds(c, HandOffCopies)
    /\ elsewhere' = elsewhere \cup {c}

(* No peer accepts, as far as this node hears: one may have taken it, and  *)
(* its answer been lost with the connection.                               *)
Taken(content) == IF linked["outbound"] = {} THEN {{}} ELSE SUBSET content

PeersRefuse(c) ==
    /\ HandOffEnds(c, 0)
    /\ \E taken \in Taken({c}) : elsewhere' = elsewhere \cup taken

(* A connection opens, once the peer's key has verified its signature, or  *)
(* closes. Either names the peers connected that way anew.                 *)
LinksChange(d, nodes) ==
    /\ linked' = [linked EXCEPT ![d] = nodes]
    /\ Announce(Connected(d, nodes))
    /\ UNCHANGED <<store, used, eviction, requests, notices, reclaims, asked, offers,
                   elsewhere, writing, shunned, fresh, lost>>

Opened(d, p) == p \in store \ linked[d] /\ LinksChange(d, linked[d] \cup {p})
Closed(d, p) == p \in linked[d] /\ LinksChange(d, linked[d] \ {p})

OnPeersConnectedRequested(d) ==
    /\ d \in asked
    /\ asked' = asked \ {d}
    /\ Deliver(Connected(d, linked[d]))
    /\ UNCHANGED <<store, used, eviction, requests, notices, reclaims, peers, writing, history>>

(* Writers: the validator, the web server storing a signer's key, and the  *)
(* connection manager storing a peer's. Each looks whether the content is  *)
(* held, stores it if not, then announces it.                              *)
Resting == [phase |-> "resting", content |-> Own]

LooksFor(w, c) ==
    /\ writing[w] = Resting
    /\ c \notin store
    /\ Spend("writes")
    /\ writing' = [writing EXCEPT ![w] = [phase |-> "missing", content |-> c]]
    /\ UNCHANGED <<store, used, eviction, bus, peers, shunned, fresh, lost>>

Stores(w) ==
    /\ writing[w].phase = "missing"
    /\ store' = store \cup {writing[w].content}
    /\ FreeBytes(store', used) >= 0
    /\ writing' = [writing EXCEPT ![w].phase = "stored"]
    /\ UNCHANGED <<used, eviction, bus, peers, history>>

Announces(w) ==
    /\ writing[w].phase = "stored"
    /\ Deliver([type |-> "data.stored", content |-> writing[w].content])
    /\ fresh' = [fresh EXCEPT ![writing[w].content] = Grace]
    /\ writing' = [writing EXCEPT ![w] = Resting]
    /\ UNCHANGED <<store, used, eviction, requests, notices, reclaims, asked, peers,
                   shunned, lost, spent>>

(* The owner of the node shuns content; the backup module asks whether     *)
(* storage is full; something else fills or frees the filesystem.          *)
Shuns(c) ==
    /\ c \in Shunnable \ shunned
    /\ shunned' = shunned \cup {c}
    /\ Spend("shuns")
    /\ Announce([type |-> "data.shunned", content |-> c])
    /\ UNCHANGED <<store, used, eviction, requests, notices, reclaims, asked, peers,
                   writing, fresh, lost>>

BackupAsks ==
    /\ Spend("asks")
    /\ Announce([type |-> "storage.full_requested"])
    /\ UNCHANGED <<store, used, eviction, requests, notices, reclaims, asked, peers,
                   writing, shunned, fresh, lost>>

FreeSpaceChanges ==
    /\ MinFree > 0
    /\ Spend("space")
    /\ used' \in 0..(Disk - Cardinality(store))
    /\ UNCHANGED <<store, eviction, bus, peers, writing, shunned, fresh, lost>>

Surroundings ==
    \/ StatsAnswers \/ UnbundlerReclaims \/ BackupAsks \/ FreeSpaceChanges
    \/ \E c \in Content : HandOffStarts(c) \/ PeerAccepts(c) \/ PeersRefuse(c) \/ Shuns(c)
    \/ \E d \in Directions, p \in Nodes :
           Spend("links") /\ (Opened(d, p) \/ Closed(d, p))
    \/ \E d \in Directions : OnPeersConnectedRequested(d)
    \/ \E w \in Writers : Stores(w) \/ Announces(w) \/ \E c \in Content : LooksFor(w, c)

-----------------------------------------------------------------------------
(* Crashes, messages lost with the dispatcher, and the passing of time.    *)

EvictionCrashes ==
    /\ up
    /\ Spend("crashes")
    /\ up' = FALSE
    /\ mem' = Started({})
    /\ UNCHANGED <<store, used, bus, peers, writing, shunned, fresh, lost>>

(* The connection manager, or the web server, and its connections with it. *)
(* Restarted, it names no peer.                                            *)
LinksCrash(d) ==
    /\ Spend("crashes")
    /\ offers' = IF d = "outbound" THEN {} ELSE offers
    /\ \E taken \in Taken(offers \ offers') : elsewhere' = elsewhere \cup taken
    /\ linked' = [linked EXCEPT ![d] = {}]
    /\ Announce(Connected(d, {}))
    /\ UNCHANGED <<store, used, eviction, requests, notices, reclaims, asked,
                   writing, shunned, fresh, lost>>

WriterCrashes(w) ==
    /\ writing[w] # Resting
    /\ Spend("crashes")
    /\ writing' = [writing EXCEPT ![w] = Resting]
    /\ lost' = IF writing[w].phase = "stored" THEN lost + 1 ELSE lost
    /\ UNCHANGED <<store, used, eviction, bus, peers, shunned, fresh>>

MessageLost ==
    /\ Spend("losses")
    /\ \/ /\ \E i \in DOMAIN inbox :
                /\ inbox' = RemoveAt(inbox, i)
                /\ lost' = IF inbox[i].type = "data.stored" THEN lost + 1 ELSE lost
          /\ UNCHANGED <<requests, notices, reclaims, asked>>
       \/ /\ \E i \in DOMAIN requests : requests' = RemoveAt(requests, i)
          /\ UNCHANGED <<inbox, notices, reclaims, asked, lost>>
       \/ /\ \E c \in Content : notices[c] > 0 /\ notices' = [notices EXCEPT ![c] = @ - 1]
          /\ UNCHANGED <<inbox, requests, reclaims, asked, lost>>
       \/ /\ reclaims > 0 /\ reclaims' = reclaims - 1
          /\ UNCHANGED <<inbox, requests, notices, asked, lost>>
       \/ /\ \E d \in asked : asked' = asked \ {d}
          /\ UNCHANGED <<inbox, requests, notices, reclaims, lost>>
    /\ UNCHANGED <<store, used, eviction, peers, writing, shunned, fresh>>

(* Time passes, but slowly while requests wait to be answered. It does so  *)
(* between messages: that one waits behind others while time passes shows  *)
(* no more than that it was sent later.                                    *)
Tick ==
    /\ up /\ inbox = <<>>
    /\ Len(requests) < MaxWaiting /\ reclaims < MaxWaiting
    /\ \A c \in Content : notices[c] < MaxWaiting
    /\ mem' = [mem EXCEPT !.handingOff = [c \in Content |-> Ticked(@[c])],
                          !.asking = Ticked(@),
                          !.reclaiming = Ticked(@),
                          !.reclaimDue = Ticked(@),
                          !.paused = Ticked(@),
                          !.grace = [c \in Content |-> Ticked(@[c])]]
    /\ fresh' = [c \in Content |-> Ticked(fresh[c])]
    /\ UNCHANGED <<store, used, up, bus, peers, writing, shunned, lost, spent>>

Failures ==
    \/ EvictionCrashes \/ MessageLost
    \/ \E d \in Directions : LinksCrash(d)
    \/ \E w \in Writers : WriterCrashes(w)

Init ==
    /\ store \in {S \in SUBSET Content : Own \in S}
    /\ used \in 0..(IF MinFree > 0 THEN Disk - Cardinality(store) ELSE 0)
    /\ up = FALSE
    /\ mem = Started({})
    /\ inbox = <<>>
    /\ requests = <<>>
    /\ notices = [c \in Content |-> 0]
    /\ reclaims = 0
    /\ asked = {}
    /\ offers = {}
    /\ linked = [d \in Directions |-> {}]
    /\ writing = [w \in Writers |-> Resting]
    /\ elsewhere = {}
    /\ shunned = {}
    /\ fresh = [c \in Content |-> 0]
    /\ lost = 0
    /\ spent = [kind \in Kinds |-> 0]

Next == Module \/ Surroundings \/ Failures \/ Tick

Spec == Init /\ [][Next]_vars

-----------------------------------------------------------------------------
(* Types. *)

TypeOK ==
    /\ store \subseteq Content
    /\ used \in Nat
    /\ up \in BOOLEAN
    /\ mem \in Memory
    /\ inbox \in Seq(Messages)
    /\ requests \in Seq([bytes : Int, exclude : SUBSET Content])
    /\ notices \in [Content -> Nat]
    /\ reclaims \in Nat
    /\ asked \subseteq Directions
    /\ offers \subseteq Content
    /\ linked \in [Directions -> SUBSET Nodes]
    /\ writing \in [Writers -> [phase : {"resting", "missing", "stored"},
                                content : Content]]
    /\ elsewhere \subseteq Content
    /\ shunned \subseteq Content
    /\ fresh \in [Content -> 0..Grace]
    /\ lost \in Nat
    /\ spent \in [Kinds -> Nat]

(* Safety. *)

(* Content leaves the source of truth only once a peer has accepted a copy *)
(* or the owner has shunned it, and the node's own key never does: the     *)
(* eviction module implements SafeKeeping whatever the order its messages  *)
(* come in, whoever crashes, and whatever the dispatcher loses.            *)
Keeping == INSTANCE SafeKeeping WITH held <- store
KeepsSafely == Keeping!Spec

(* The key of a connected peer is deleted, handed off or shunned, only     *)
(* while news of its connecting is still on its way: connections and the   *)
(* web server name their peers under the lock that changes them, and are   *)
(* asked when this module starts.                                          *)
NewsOfLinks(d) ==
    \/ d \in asked
    \/ \E i \in DOMAIN inbox : /\ inbox[i].type = "peers.connected"
                               /\ inbox[i].direction = d
ConnectedKeysKept ==
    [][\A d \in Directions : \A p \in linked[d] \cap (store \ store') :
           NewsOfLinks(d) \/ spent.losses > 0]_vars

(* What was stored lately is neither handed off nor deleted until its      *)
(* grace is over, unless shunned, as long as the module that was told of   *)
(* it is still running (none has crashed) and has handled the news.        *)
StoredNews(c) == \E i \in DOMAIN inbox : inbox[i] = [type |-> "data.stored", content |-> c]
StoredLatelyStays ==
    [][\A c \in Content :
           fresh[c] > 0 /\ ~StoredNews(c) /\ c \notin shunned
                   /\ spent.crashes = 0 /\ spent.losses = 0 =>
               c \notin store \ store' /\ notices'[c] <= notices[c]]_vars

(* Content held is never undercounted, but for files whose writer crashed  *)
(* before announcing them, or whose announcement the dispatcher lost: so   *)
(* storage over max_storage_bytes is seen to be.                           *)
StoredMessages == Cardinality({i \in DOMAIN inbox : inbox[i].type = "data.stored"})
ToAnnounce == Cardinality({w \in Writers : writing[w].phase = "stored"})
NeverUndercounts ==
    up /\ MaxHeld # NoLimit =>
        Cardinality(store) <= mem.held + StoredMessages + ToAnnounce + lost

(* With more held than max_storage_bytes allows, the module always waits   *)
(* for something that will have it carry on: an answer, a timeout, or the  *)
(* end of a pause. Free space, which changes without a message, can pass   *)
(* its limit unnoticed.                                                    *)
HeldExcess == IF MaxHeld = NoLimit THEN 0 ELSE Larger(0, mem.held + Headroom - MaxHeld)
NeverStalls ==
    up /\ HeldExcess > 0 =>
        \/ HandingOff(mem) # {}
        \/ Running(mem.asking) \/ Running(mem.reclaiming) \/ Running(mem.paused)

(* What was last said of storage being full, which a backup waits on, is   *)
(* so, and not an answer out of date: but for what was stored or reclaimed *)
(* since, which the module has still to be told of, and for free space     *)
(* something else took or gave back.                                       *)
NewsOfStorage ==
    \/ ToAnnounce > 0
    \/ \E i \in DOMAIN inbox : inbox[i].type \in {"data.stored", "resolved.reclaimed"}
FullIsCurrent ==
    up /\ ~NewsOfStorage /\ lost + spent.losses + spent.space = 0 =>
        mem.full = OverLimits(mem, store, used, 1)

(* Liveness. The processes keep running their loops, time passes, and the  *)
(* peers do not refuse every object for ever.                             *)

Fairness ==
    /\ WF_vars(Module) /\ WF_vars(Tick)
    /\ WF_vars(StatsAnswers) /\ WF_vars(UnbundlerReclaims)
    /\ \A d \in Directions : WF_vars(OnPeersConnectedRequested(d))
    /\ \A c \in Content :
           WF_vars(HandOffStarts(c)) /\ WF_vars(PeersRefuse(c))
    /\ SF_vars(\E c \in Content : PeerAccepts(c))
    /\ \A w \in Writers : WF_vars(Stores(w)) /\ WF_vars(Announces(w))

FairSpec == Spec /\ Fairness

(* Every hand-off the module starts ends for it: answered, given up on, or *)
(* forgotten in a restart, whatever is lost on the way.                    *)
HandOffsEnd == \A c \in Content :
    c \in HandingOff(mem) ~> c \notin HandingOff(mem)

(* As long as a peer is connected and something other than keys in use is  *)
(* held, storage over max_storage_bytes gets back within it: no answer     *)
(* lost, no crash and no refusal has the module stop trying.               *)
Evictable == linked["outbound"] # {} /\ store \ ({Own} \cup UNION {linked[d] : d \in Directions}) # {}
BackWithinLimits == []<>(up /\ (HeldExcess = 0 \/ ~Evictable))

(* Making room goes on until there is room: no hand-off is waited on for   *)
(* ever, and nothing that is lost or refused has the module give up.       *)
StorageRecovers == HandOffsEnd /\ BackWithinLimits
=============================================================================
