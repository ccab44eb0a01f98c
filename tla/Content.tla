------------------------------- MODULE Content -------------------------------
(***************************************************************************)
(* How content comes to be held by a Libranet node, served from it, and    *)
(* refused: the web server, the validator, the stats module, the unbundler *)
(* and the eviction module, with the files they share and the messages     *)
(* between them. How content missed is fetched from peers is Exchange.tla. *)
(*                                                                         *)
(* Messages keep their order from each module to each other, as Bus.tla    *)
(* has it, and no other. The content archives are left out: what they hold *)
(* never changes while a module runs.                                      *)
(***************************************************************************)
EXTENDS Integers, FiniteSets, SequencesExt

CONSTANTS
    Content,        (* content ids *)
    Nodes,          (* who uploads or sends content: a node may be a content id too *)
    Paths,          (* paths in bundles *)
    BundleOf,       (* the bundle each path is in *)
    ExtensionsOf,   (* the extensions of each bundle that is a path's *)
    Found,          (* the paths their bundles have an entry for *)
    Requests,       (* requests of the web server for paths *)
    PathOf,         (* the path each request is for *)
    Bounds          (* how often, together, each kind of event may happen *)

Kinds == {"uploads", "gets", "fetches", "shuns", "evictions", "requests",
          "reclaims", "crashes", "losses"}

ASSUME ContentAssumption ==
    /\ IsFiniteSet(Content) /\ IsFiniteSet(Paths)
    /\ BundleOf \in [Paths -> Content]
    /\ ExtensionsOf \in [Content -> SUBSET Content]
    /\ Found \subseteq Paths
    /\ PathOf \in [Requests -> Paths]
    /\ Bounds \subseteq [Kinds -> Nat]

VARIABLES
    store,      (* the source of truth: what file is under each content id *)
    incoming,   (* the uploads of each node not yet verified *)
    links,      (* the messages on their way from each module to each other *)
    upload,     (* a thread of the web server taking an upload *)
    check,      (* the validator, handling one upload *)
    rows,       (* the stats database: content held, sought and shunned *)
    lists,      (* the files stats derives from it *)
    resolved,   (* the paths whose entries the unbundler has saved *)
    saved,      (* the bundles whose directories it has saved *)
    unusable,   (* the bundles it remembers it cannot serve *)
    waiting,    (* the content each path it could not resolve waits on *)
    request,    (* what each request for a path is doing *)
    outcomes,   (* the paths the web server remembers an outcome for *)
    lost,       (* history: what crashed or was lost that another waits on *)
    spent       (* history: how often each bounded event has happened *)

web == <<upload, request, outcomes>>
unbundler == <<resolved, saved, unusable, waiting>>
stats == <<rows, lists>>
history == <<lost, spent>>
vars == <<store, incoming, links, web, check, stats, unbundler, history>>

-----------------------------------------------------------------------------
(* Files: a file under a content id may be that content, or other bytes.   *)

Absent == "absent"
Data == {"right", "wrong"}
Present(c) == store[c] # Absent
Held == {c \in Content : Present(c)}

(* content_matches *)
Matches(data) == data = "right"

(* The content of a node's own id is its public key. *)
IsPublicKey(n, c, data) == n = c /\ data = "right"

-----------------------------------------------------------------------------
(* Messages. *)

Links == {<<"web", "validator">>, <<"connections", "validator">>,
          <<"web", "stats">>, <<"unbundler", "stats">>, <<"validator", "stats">>,
          <<"eviction", "stats">>, <<"web", "eviction">>,
          <<"web", "unbundler">>, <<"validator", "unbundler">>, <<"unbundler", "web">>}

Subscribers ==
    [type \in {"put.completed", "data.stored", "data.not_found", "data.deleted",
               "data.shunned", "app.path_not_found", "app.path_resolved"} |->
        CASE type = "put.completed" -> {"validator"}
          [] type = "data.stored" -> {"stats", "unbundler"}
          [] type = "data.shunned" -> {"stats", "eviction"}
          [] type = "app.path_not_found" -> {"unbundler"}
          [] type = "app.path_resolved" -> {"web"}
          [] OTHER -> {"stats"}]

Of(type, c) == [type |-> type, content |-> c]
PutCompleted(n, c) == [type |-> "put.completed", content |-> c, node |-> n]
OfPath(type, p) == [type |-> type, path |-> p]
PathResolved(p, stored) == [type |-> "app.path_resolved", path |-> p, stored |-> stored]

Messages ==
    {Of(type, c) : type \in {"data.stored", "data.not_found", "data.deleted",
                             "data.shunned"}, c \in Content}
    \cup {PutCompleted(n, c) : n \in Nodes, c \in Content}
    \cup {OfPath("app.path_not_found", p) : p \in Paths}
    \cup {PathResolved(p, stored) : p \in Paths, stored \in BOOLEAN}

(* The messages a handler publishes go to those who subscribe to them. *)
Sent(before, from, messages) ==
    [link \in Links |->
        IF link[1] # from THEN before[link]
        ELSE before[link] \o SetToSeq({m \in messages : link[2] \in Subscribers[m.type]})]

Publish(from, messages) == links' = Sent(links, from, messages)

(* The next message to `to` on a link, and what its handler publishes.     *)
Arrives(link, type) == links[link] # <<>> /\ Head(links[link]).type = type
Handled(link, messages) ==
    links' = Sent([links EXCEPT ![link] = Tail(@)], link[2], messages)

LinksTo(to) == {link \in Links : link[2] = to}
OnWay(to, message) == \E link \in LinksTo(to) : message \in ToSet(links[link])

Spend(kind) ==
    /\ spent' = [spent EXCEPT ![kind] = @ + 1]
    /\ \E bound \in Bounds : \A other \in Kinds : spent'[other] <= bound[other]

-----------------------------------------------------------------------------
(* The web server: content asked for, uploaded and shunned.                *)

Resting == [phase |-> "resting", node |-> CHOOSE n \in Nodes : TRUE,
            content |-> CHOOSE c \in Content : TRUE, data |-> "right"]

(* DataReadHandler: a miss is reported, unless the content is shunned.     *)
GetMisses(c) ==
    /\ Spend("gets")
    /\ c \notin lists.shunned
    /\ ~Present(c)
    /\ Publish("web", {Of("data.not_found", c)})
    /\ UNCHANGED <<store, incoming, web, check, stats, unbundler, lost>>

(* DataWriteHandler: what is shunned or held is accepted and let be, and   *)
(* anything else written, the sender's own key to the source of truth.     *)
UploadStarts(n, c, data) ==
    /\ upload = Resting
    /\ Spend("uploads")
    /\ c \notin lists.shunned
    /\ ~Present(c)
    /\ upload' = [phase |-> "accepted", node |-> n, content |-> c, data |-> data]
    /\ UNCHANGED <<store, incoming, links, request, outcomes, check, stats, unbundler, lost>>

UploadWrites ==
    /\ upload.phase = "accepted"
    /\ LET n == upload.node
           c == upload.content
       IN  \/ /\ IsPublicKey(n, c, upload.data)
              /\ store' = [store EXCEPT ![c] = upload.data]
              /\ UNCHANGED incoming
           \/ /\ ~IsPublicKey(n, c, upload.data)
              /\ incoming' = [incoming EXCEPT ![n][c] = upload.data]
              /\ UNCHANGED store
    /\ upload' = [upload EXCEPT !.phase = "written"]
    /\ UNCHANGED <<links, request, outcomes, check, stats, unbundler, history>>

UploadReports ==
    /\ upload.phase = "written"
    /\ LET n == upload.node
           c == upload.content
       IN  Publish("web", IF IsPublicKey(n, c, upload.data) THEN {Of("data.stored", c)}
                          ELSE {PutCompleted(n, c)})
    /\ upload' = Resting
    /\ UNCHANGED <<store, incoming, request, outcomes, check, stats, unbundler, history>>

(* ShunHandler *)
Shuns(c) ==
    /\ Spend("shuns")
    /\ Publish("web", {Of("data.shunned", c)})
    /\ UNCHANGED <<store, incoming, web, check, stats, unbundler, lost>>

(* A peer sends content asked of it, which the connection manager leaves   *)
(* to the validator if it is that content.                                 *)
PeerSends(n, c) ==
    /\ Spend("fetches")
    /\ incoming' = [incoming EXCEPT ![n][c] = "right"]
    /\ Publish("connections", {PutCompleted(n, c)})
    /\ UNCHANGED <<store, web, check, stats, unbundler, lost>>

-----------------------------------------------------------------------------
(* The validator: each step of _on_put_completed that others may come      *)
(* between.                                                                *)

CheckReads(link) ==
    /\ check = Resting
    /\ Arrives(link, "put.completed")
    /\ LET m == Head(links[link])
       IN  check' = IF incoming[m.node][m.content] = Absent THEN Resting
                    ELSE [phase |-> "read", node |-> m.node, content |-> m.content,
                          data |-> incoming[m.node][m.content]]
    /\ Handled(link, {})
    /\ UNCHANGED <<store, incoming, web, stats, unbundler, history>>

CheckDecides_Returns ==
    /\ check.phase = "read"
    /\ check' = IF check.content \notin lists.shunned /\ ~Present(check.content)
                   /\ Matches(check.data)
                THEN [check EXCEPT !.phase = "verified"] ELSE Resting
    /\ UNCHANGED <<store, incoming, links, web, stats, unbundler, history>>

CheckDecides ==
    /\ check.phase = "read"
    /\ check' = [check EXCEPT !.phase =
                    IF check.content \notin lists.shunned /\ ~Present(check.content)
                       /\ Matches(check.data)
                    THEN "verified" ELSE "settled"]
    /\ UNCHANGED <<store, incoming, links, web, stats, unbundler, history>>

(* The bytes read are written, not the file moved, which may be another.   *)
Verified_Moved == incoming[check.node][check.content]
Verified == check.data

CheckStores ==
    /\ check.phase = "verified"
    /\ store' = [store EXCEPT ![check.content] = Verified]
    /\ check' = [check EXCEPT !.phase = "stored"]
    /\ UNCHANGED <<incoming, links, web, stats, unbundler, history>>

CheckAnnounces ==
    /\ check.phase = "stored"
    /\ Publish("validator", {Of("data.stored", check.content)})
    /\ check' = [check EXCEPT !.phase = "settled"]
    /\ UNCHANGED <<store, incoming, web, stats, unbundler, history>>

CheckEnds ==
    /\ check.phase = "settled"
    /\ incoming' = [incoming EXCEPT ![check.node][check.content] = Absent]
    /\ check' = Resting
    /\ UNCHANGED <<store, links, web, stats, unbundler, history>>

Validator ==
    \/ \E link \in LinksTo("validator") : CheckReads(link)
    \/ CheckDecides \/ CheckStores \/ CheckAnnounces \/ CheckEnds

-----------------------------------------------------------------------------
(* The stats module. *)

StatsHandles(link, type) ==
    /\ Arrives(link, type)
    /\ Handled(link, {})
    /\ UNCHANGED <<store, incoming, web, check, unbundler, history>>

Seekable_Anything(c) == c \notin rows.shunned
Seekable(c) == ~Present(c) /\ c \notin rows.shunned

StatsOnDataNotFound(link) ==
    /\ StatsHandles(link, "data.not_found")
    /\ LET c == Head(links[link]).content
       IN  rows' = IF Seekable(c) THEN [rows EXCEPT !.sought = @ \cup {c}] ELSE rows
    /\ UNCHANGED lists

(* The seek list is rewritten at once when what it sought is stored.       *)
StatsOnDataStored(link) ==
    /\ StatsHandles(link, "data.stored")
    /\ LET c == Head(links[link]).content
           sought == c \in rows.sought
       IN  /\ rows' = [rows EXCEPT !.held = @ \cup {c}, !.sought = @ \ {c}]
           /\ lists' = IF sought THEN [lists EXCEPT !.seek = rows'.sought] ELSE lists

StatsOnDataDeleted(link) ==
    /\ StatsHandles(link, "data.deleted")
    /\ rows' = [rows EXCEPT !.held = @ \ {Head(links[link]).content}]
    /\ UNCHANGED lists

StatsOnDataShunned(link) ==
    /\ StatsHandles(link, "data.shunned")
    /\ LET c == Head(links[link]).content
       IN  IF c \in rows.shunned THEN UNCHANGED stats
           ELSE /\ rows' = [rows EXCEPT !.shunned = @ \cup {c}, !.sought = @ \ {c}]
                /\ lists' = [lists EXCEPT !.shunned = rows'.shunned]

(* Ranking what to evict, it forgets what is gone from the store.          *)
StatsRanks ==
    /\ rows' = [rows EXCEPT !.held = @ \cap Held]
    /\ UNCHANGED <<store, incoming, links, web, check, lists, unbundler, history>>

(* A derivation, which drops entries of the seek list too old.             *)
StatsDerives ==
    /\ \E old \in SUBSET rows.sought : rows' = [rows EXCEPT !.sought = @ \ old]
    /\ lists' = [seek |-> rows'.sought, shunned |-> rows.shunned]
    /\ UNCHANGED <<store, incoming, links, web, check, unbundler, history>>

Stats ==
    \/ \E link \in LinksTo("stats") :
          \/ StatsOnDataNotFound(link) \/ StatsOnDataStored(link)
          \/ StatsOnDataDeleted(link) \/ StatsOnDataShunned(link)
    \/ StatsRanks \/ StatsDerives

-----------------------------------------------------------------------------
(* The eviction module, as Eviction.tla has it: it lets go of content a    *)
(* peer has taken, and of what is shunned.                                 *)

EvictionDeletes(c) ==
    /\ Present(c)
    /\ store' = [store EXCEPT ![c] = Absent]

LetsGo(c) ==
    /\ Spend("evictions")
    /\ EvictionDeletes(c)
    /\ Publish("eviction", {Of("data.deleted", c)})
    /\ UNCHANGED <<incoming, web, check, stats, unbundler, lost>>

EvictionOnDataShunned(link) ==
    /\ Arrives(link, "data.shunned")
    /\ LET c == Head(links[link]).content
       IN  \/ ~Present(c) /\ Handled(link, {}) /\ UNCHANGED store
           \/ EvictionDeletes(c) /\ Handled(link, {Of("data.deleted", c)})
    /\ UNCHANGED <<incoming, web, check, stats, unbundler, history>>

-----------------------------------------------------------------------------
(* The unbundler. A bundle is in memory, or saved on disk, once resolved.  *)

(* What is missing: the bundle, or else any of its extensions.             *)
Missing(b) == IF Present(b) THEN ExtensionsOf[b] \ Held ELSE {b}

(* Shunned content is not read, even if held.                              *)
Refused(b) ==
    \/ b \in lists.shunned
    \/ Present(b) /\ ExtensionsOf[b] \cap lists.shunned # {}

(* What each path in P is found to lack when it is resolved (_directory):  *)
(* nothing if its bundle is known already, or cannot be served.            *)
Lacks(p) ==
    LET b == BundleOf[p]
    IN  IF p \in resolved \/ b \in saved \cup unusable \/ Refused(b) THEN {} ELSE Missing(b)

(* _resolve_path for each of the paths P, with `left` of what waits: what  *)
(* it saves, what it waits on, and what it reports. It says nothing of a   *)
(* path resolved already.                                                  *)
Resolves(P, left) ==
    LET fresh == P \ resolved
        read == {BundleOf[p] : p \in {q \in fresh : Lacks(q) = {}}} \ (saved \cup unusable)
        refused == {b \in read : Refused(b)}
    IN  /\ unusable' = unusable \cup refused
        /\ saved' = saved \cup (read \ refused)
        /\ resolved' = resolved \cup {p \in fresh \cap Found :
                                        Lacks(p) = {} /\ BundleOf[p] \notin unusable'}
        /\ waiting' = [p \in Paths |-> IF p \in fresh /\ Lacks(p) # {} THEN Lacks(p) ELSE left[p]]

Reports(P) ==
    LET fresh == P \ resolved
    IN  (UNION {{Of("data.not_found", c) : c \in Lacks(p)} : p \in fresh})
        \cup {PathResolved(p, p \in resolved') : p \in {q \in fresh : Lacks(q) = {}}}

UnbundlerOnPathNotFound(link) ==
    /\ Arrives(link, "app.path_not_found")
    /\ LET P == {Head(links[link]).path}
       IN  Resolves(P, waiting) /\ Handled(link, Reports(P))
    /\ UNCHANGED <<store, incoming, web, check, stats, history>>

(* Each path that waited on what is stored waits no longer, and is         *)
(* resolved again.                                                         *)
UnbundlerOnDataStored_KeepsWaiting(link) ==
    /\ Arrives(link, "data.stored")
    /\ LET P == {p \in Paths : Head(links[link]).content \in waiting[p]}
       IN  Resolves(P, waiting) /\ Handled(link, Reports(P))
    /\ UNCHANGED <<store, incoming, web, check, stats, history>>
UnbundlerOnDataStored(link) ==
    /\ Arrives(link, "data.stored")
    /\ LET P == {p \in Paths : Head(links[link]).content \in waiting[p]}
       IN  /\ Resolves(P, [p \in Paths |-> IF p \in P THEN {} ELSE waiting[p]])
           /\ Handled(link, Reports(P))
    /\ UNCHANGED <<store, incoming, web, check, stats, history>>

(* A path stops waiting once storage.app_wait_seconds have passed, or too  *)
(* many wait.                                                              *)
StopsWaiting(p) ==
    /\ waiting[p] # {}
    /\ waiting' = [waiting EXCEPT ![p] = {}]
    /\ UNCHANGED <<store, incoming, links, web, check, stats, resolved, saved, unusable, history>>

(* What is resolved from bundles not used lately is deleted.               *)
UnbundlerReclaims(b) ==
    /\ Spend("reclaims")
    /\ saved' = saved \ {b}
    /\ unusable' = unusable \ {b}
    /\ resolved' = {p \in resolved : BundleOf[p] # b}
    /\ UNCHANGED <<store, incoming, links, web, check, stats, waiting, lost>>

Unbundler ==
    \/ \E link \in LinksTo("unbundler") :
          UnbundlerOnPathNotFound(link) \/ UnbundlerOnDataStored(link)
    \/ \E p \in Paths : StopsWaiting(p)
    \/ \E b \in Content : UnbundlerReclaims(b)

-----------------------------------------------------------------------------
(* The web server: requests for paths (BundlePaths.entry).                 *)

Answered(p) == p \in resolved \cup outcomes

(* A request for a path answered already is served; any other asks.        *)
RequestAsks(r) ==
    /\ request[r] = "looking"
    /\ ~Answered(PathOf[r])
    /\ request' = [request EXCEPT ![r] = "asked"]
    /\ Publish("web", {OfPath("app.path_not_found", PathOf[r])})
    /\ UNCHANGED <<store, incoming, upload, outcomes, check, stats, unbundler, history>>

(* A request asks before it waits, and looks once more as it begins to.    *)
RequestWaits_Blindly(r) ==
    /\ request[r] = "asked"
    /\ request' = [request EXCEPT ![r] = "waiting"]
    /\ UNCHANGED <<store, incoming, links, upload, outcomes, check, stats, unbundler, history>>
RequestWaits(r) ==
    /\ request[r] = "asked"
    /\ request' = [request EXCEPT ![r] = IF Answered(PathOf[r]) THEN "looking" ELSE "waiting"]
    /\ UNCHANGED <<store, incoming, links, upload, outcomes, check, stats, unbundler, history>>

(* It is served, answered otherwise, or told to retry once its wait ends.  *)
RequestEnds(r) ==
    /\ \/ request[r] = "looking" /\ Answered(PathOf[r])
       \/ request[r] = "waiting"
    /\ request' = [request EXCEPT ![r] = "resting"]
    /\ UNCHANGED <<store, incoming, links, upload, outcomes, check, stats, unbundler, history>>

RequestStarts(r) ==
    /\ request[r] = "resting"
    /\ Spend("requests")
    /\ request' = [request EXCEPT ![r] = "looking"]
    /\ UNCHANGED <<store, incoming, links, upload, outcomes, check, stats, unbundler, lost>>

(* An outcome is remembered unless it is that the entry is saved, and all  *)
(* who wait look again, as they did when they began to.                    *)
WebOnPathResolved(link) ==
    /\ Arrives(link, "app.path_resolved")
    /\ LET m == Head(links[link])
       IN  outcomes' = IF m.stored THEN outcomes ELSE outcomes \cup {m.path}
    /\ request' = [r \in Requests |-> IF request[r] = "waiting" THEN "asked" ELSE request[r]]
    /\ Handled(link, {})
    /\ UNCHANGED <<store, incoming, upload, check, stats, unbundler, history>>

Web ==
    \/ \E c \in Content : GetMisses(c) \/ Shuns(c)
    \/ \E n \in Nodes, c \in Content, data \in Data : UploadStarts(n, c, data)
    \/ UploadWrites \/ UploadReports
    \/ \E r \in Requests :
          RequestStarts(r) \/ RequestAsks(r) \/ RequestWaits(r) \/ RequestEnds(r)
    \/ \E link \in LinksTo("web") : WebOnPathResolved(link)

-----------------------------------------------------------------------------
(* Crashes lose what a process was doing and remembered, and a dispatcher  *)
(* that ends, messages on their way.                                       *)

Losing(messages) == lost' = lost \cup messages

CheckCrashes ==
    /\ check # Resting
    /\ Spend("crashes")
    /\ check' = Resting
    /\ Losing({PutCompleted(check.node, check.content)}
              \cup IF check.phase = "stored" THEN {Of("data.stored", check.content)} ELSE {})
    /\ UNCHANGED <<store, incoming, links, web, stats, unbundler>>

WebCrashes ==
    /\ Spend("crashes")
    /\ upload' = Resting
    /\ request' = [r \in Requests |-> "resting"]
    /\ outcomes' = {}
    /\ Losing(IF upload.phase # "written" THEN {}
              ELSE {Of("data.stored", upload.content), PutCompleted(upload.node, upload.content)})
    /\ UNCHANGED <<store, incoming, links, check, stats, unbundler>>

UnbundlerCrashes ==
    /\ Spend("crashes")
    /\ waiting' = [p \in Paths |-> {}]
    /\ unusable' = {}
    /\ UNCHANGED <<store, incoming, links, web, check, stats, resolved, saved, lost>>

MessageLost ==
    /\ Spend("losses")
    /\ \E link \in Links : \E i \in DOMAIN links[link] :
          /\ links' = [links EXCEPT ![link] = RemoveAt(@, i)]
          /\ Losing({links[link][i]})
    /\ UNCHANGED <<store, incoming, web, check, stats, unbundler>>

Failures == CheckCrashes \/ WebCrashes \/ UnbundlerCrashes \/ MessageLost

-----------------------------------------------------------------------------
Init ==
    /\ store \in [Content -> {Absent, "right"}]
    /\ incoming = [n \in Nodes |-> [c \in Content |-> Absent]]
    /\ links = [link \in Links |-> <<>>]
    /\ upload = Resting
    /\ check = Resting
    /\ rows = [held |-> Held, sought |-> {}, shunned |-> {}]
    /\ lists = [seek |-> {}, shunned |-> {}]
    /\ resolved = {}
    /\ saved = {}
    /\ unusable = {}
    /\ waiting = [p \in Paths |-> {}]
    /\ request = [r \in Requests |-> "resting"]
    /\ outcomes = {}
    /\ lost = {}
    /\ spent = [kind \in Kinds |-> 0]

Eviction ==
    \/ \E c \in Content : LetsGo(c)
    \/ \E link \in LinksTo("eviction") : EvictionOnDataShunned(link)

Peers == \E n \in Nodes, c \in Content : PeerSends(n, c)

Next == Web \/ Peers \/ Validator \/ Stats \/ Eviction \/ Unbundler \/ Failures

Spec == Init /\ [][Next]_vars

-----------------------------------------------------------------------------
(* Safety. *)

(* What is under a content id in the source of truth is that content,      *)
(* though a node may replace its upload at any time: while it is being     *)
(* verified, or between that and its being stored.                         *)
OnlyVerified == \A c \in Content : store[c] # "wrong"

(* No upload is left unverified for good: whatever is in a node's incoming *)
(* store, the validator is dealing with, or has still to hear of.          *)
Dealing(phase, doing, n, c) == doing.phase \in phase /\ doing.node = n /\ doing.content = c
NoUploadStuck ==
    \A n \in Nodes, c \in Content : incoming[n][c] # Absent =>
        \/ Dealing({"written"}, upload, n, c)
        \/ Dealing({"read", "verified", "stored", "settled"}, check, n, c)
        \/ OnWay("validator", PutCompleted(n, c))
        \/ PutCompleted(n, c) \in lost

(* That content was stored, a module has still to hear. *)
NewsOf(c, module) ==
    \/ check.phase = "stored" /\ check.content = c
    \/ upload.phase = "written" /\ upload.content = c
    \/ OnWay(module, Of("data.stored", c))
    \/ Of("data.stored", c) \in lost

(* Nothing shunned is sought, and content held is neither sought nor       *)
(* listed as sought once stats has heard that it is stored, though a miss  *)
(* of it may be heard of later still: or each peer reading the list would  *)
(* push it here again.                                                     *)
SoughtIsMissing ==
    /\ rows.sought \cap rows.shunned = {}
    /\ \A c \in (rows.sought \cup lists.seek) \ rows.shunned :
           Present(c) => NewsOf(c, "stats")

(* No path waits on content held, but until the unbundler hears of it: the *)
(* content may be stored at any time while the path is being resolved.     *)
WaitersWoken ==
    \A p \in Paths : \A c \in waiting[p] : Present(c) => NewsOf(c, "unbundler")

(* No request waits for an answer that is there already, however the       *)
(* unbundler's answer to it, or to another request, comes about.           *)
RequestsWoken ==
    \A r \in Requests : LET p == PathOf[r] IN
        request[r] = "waiting" /\ Answered(p) =>
            \E stored \in BOOLEAN :
                OnWay("web", PathResolved(p, stored)) \/ PathResolved(p, stored) \in lost

(* Neither a path that waits on content nor a request that waits on its    *)
(* path sleeps through what it waits for.                                   *)
NoneSleepsOn == WaitersWoken /\ RequestsWoken

=============================================================================
