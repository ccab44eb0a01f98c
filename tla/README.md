# Libranet, specified in TLA+

Libranet is a peer-to-peer content network; this repository is one node of it. This directory models how the
node behaves where tests hardly reach: processes that crash and restart, messages that overtake one another,
threads that meet under one lock, peers that come and go. The small instances are checked by TLC, and some of
what they show is proved by TLAPS for every value of the constants. Everything is translated from
`src/src/libranet/`; paths below are relative to that directory, and to `src/docs/` where they end in `.md`.

Contents: [the system](#the-system), [modules](#modules), [runs](#runs), [proofs](#proofs),
[where the code and its documentation differ](#where-the-code-and-its-documentation-differ),
[weaker than one might expect](#weaker-than-one-might-expect), [not modelled](#not-modelled), [plan](#plan).

## The system

A node is a **supervisor** process, a **dispatcher** process, and one process for each **module**: webserver,
validator, stats, connections, fetcher, unbundler, eviction, backup and karma
(`implementation/Module System.md`).

- Modules share no memory. Each has an outbox and an inbox, queues that the supervisor owns and that outlive a
  crash of the module or of the dispatcher. A module publishes an event to its outbox; the dispatcher puts it
  into the inbox of every module that subscribes to that event. Order is kept from one publisher to one reader
  and not otherwise. What the dispatcher has in memory when it ends is lost, and nothing is sent again.
- Modules share the files of the content-addressed store: the **source of truth**, the **incoming** store of each
  node that uploads, and the **resolved** files that the unbundler derives from bundles. A file is replaced
  whole. Content is named by the hash of its bytes, but for a node's public key, which its node id names.
- Stats alone writes the database, and derives from it lists (what is sought, what is shunned, candidate peers)
  that other modules read as files.
- A module forgets its memory when it crashes; its inbox still holds the answers to what it asked before.

How content moves, which is what the models follow:

    upload / a peer's answer -> incoming -> validator -> source of truth --data.stored--> stats, unbundler,
                                                             |                            eviction, connections
    request for a path -> app.path_not_found -> unbundler ---+ miss: data.not_found -> stats (seek list)
                                                                      -> fetcher -> connections (search peers)
    storage over its limits -> eviction -> eviction.notice -> connections (hand off to a peer)
                                  ^------- eviction.acknowledged ------'   then deleted: data.deleted -> stats

### Inventory

| Part | State | Operations | Talks to | What is hard | What makes it correct |
|---|---|---|---|---|---|
| **Eviction** `eviction/` | bytes held, hand-offs under way, candidates, requests unanswered, peers connected, what was stored lately, whether storage is full | a handler of each of seven events, `on_idle` | stats, connections, unbundler, backup | answers late, lost, or ahead of other news; a restart that forgets; nothing to prompt it again | lets go only of what a peer took or is shunned; never stalls; says truly whether storage is full |
| **Message bus** `messaging/` | the queues, what readers took, what is held for full inboxes | publish, receive, forward, flush, dispatch | every module | a full inbox; ending half way through a delivery | order and at-most-once for each pair; no module holds up another |
| **Supervision** `supervision/` | a slot for each process, failures, backoff, readiness, stop events | passes, reaping, starting, stopping | every process | processes that hang, ignore signals, die at any moment | dispatcher first, backoff, everything ends up running, or stopped when asked |
| **Validator** `validator/` | none, but for the upload in hand | `put.completed` | web server, connections; the stores | an upload replaced while it is verified | only verified content is stored; no upload is left behind |
| **Unbundler** `unbundler/` | resolved files, bundles known or unusable, paths that wait | resolve a path, hear of stored content, reclaim | web server, stats, validator | content stored while its lack is being noticed | no path waits for what is there |
| **One connection to a peer** `connections/peer_connection.py`, `peer_session.py`, `response_parser.py` | requests waiting and outgoing, who closed, last progress | request, send thread, receive thread, close | the peer; callers' threads | responses matched by order alone; closing from either end; responses framed by the close | each request settled once, in order, by its own whole response |
| **Connections** `connections/` | mix of peers, candidates, dials, rests, searches, pushes, hand-offs | dialing threads, receive threads, search, push, prefix and refresh workers, handlers | peers, web server, stats, fetcher, eviction | some ten kinds of thread over one lock, trust that changes meanwhile | mix kept up with trusted peers only; no search or new content lost or doubled |
| **Statistics** `stats/` | database: content, nodes, ratings; derived lists | a handler of each event, derivation, ranking for eviction | everyone | reports in an order other than what happened | records agree with the stores; nothing held or shunned is sought |
| **Fetcher** `fetcher/` | time of last fetch | ask for one sought item each interval | stats' list, connections | stale lists | asks neither for what is held nor too often |
| **Web server: content and applications** `webserver/data_*`, `bundle_*`, `app_*` | uploads in flight, requests waiting, outcomes remembered | get, put, shun, serve a path | validator, stats, unbundler, eviction | answers that come before the wait | no request sleeps through its answer |
| **Web server: sessions, trust, identities** `webserver/sessions.py`, `trust_*`, `signed_*` | sessions, trust builds, versions of documents | sign in and out, build, edit | connections (`node.trust`) | builds overtaken by newer ones; numbering of versions | the newest trust is published; no version number is used twice |
| **Web server: serving clients** `webserver/server.py`, `inbound_peers.py`, `client_keeping.py`, `app_store.py`, `file_stream.py` ... | peers connected and what they did, application data, attempts of unknown signers | a thread for each connection: read, guard, answer, stream, close | every client; stats, validator, connections | threads over shared files and counts; bodies unread; content that goes while it is sent | each answer in its turn, whole or known to be cut short; the peers named are those connected; no update lost |
| **Backup** `backup/` | jobs, tasks under way, kept archives | passes, restores, expiry | eviction (`storage.full`) | a pass interrupted, storage full half way | a backup is complete or absent; carries on once there is room |
| **Karma** `karma/` | chain followed, weight, claims, history | follow, change, carry over, pay | web server, peers' blocks | a crash between two files; a heavier chain while changing | balances follow the heaviest chain known |
| **Bundles** `bundle/` | none (pure) | layer, build, sign, encrypt | unbundler, backup | precedence of layers | each path resolves to its newest version |
| **Content-addressed storage** `cas/` | files | store, look up through layers, delete; archives | everyone | two processes on a file | a reader sees all of a file or none |
| Protocol values, identity, configuration, applications | none to speak of | parse, render, sign, read | | | pure; tested value by value |

`PROJECT.json` has the same parts with the modules and how far each is modelled, and every hazard with its line and
the properties that would catch it.

## Modules

Definitions keep the names of the code: `_on_eviction_acknowledged` is `OnEvictionAcknowledged`, `_maintain` is
`Maintain`. One action is one handler, or, where threads or processes share state, what one of them does between
two points at which another may come in (a lock released, a file written, a message published). `map` in
`PROJECT.json` gives the lines of each definition. A definition whose name has an underscore and a second part
(`Put_PastHeld`) is a mutation of the one named before it: what a plausible mistake would make of it, used only to
show that a property can tell.

Conventions shared by the modules: times are timers counted down by `Tick` (relative, so time itself needs no
bound); what happens to the system from outside (uploads, crashes, losses, peers closing) is *spent* from a bound
on its kind, and `Bounds`, `Starts` or `Scenarios` is a set of such allowances, so a run explores several scenarios
at once; variables commented "history" appear in no guard of the code's and serve the properties only.

| Module | Models | State, and what it stands for |
|---|---|---|
| `SafeKeeping` | what storage pressure may do to content (`specs/HighLevelDesign.md` 4.5, 4.11) | `held`, `elsewhere` (accepted by a peer), `shunned` |
| `Eviction` | the eviction process, all of it, and its surroundings as it sees them | `mem` (one record: what a crash forgets), `inbox`, requests and notices on their way, `store`, writers, connections each way |
| `Bus` | what the message bus promises modules | for each pair of modules, the messages on their way |
| `Dispatcher` | the dispatcher's loop and reader threads, `messaging/queues.py`, `Module.receive` | `outbox`, `inbox`, how much of each its writer may still take with it (`unsent`), `pending`, `held`, program counter |
| `Supervisor` | `process_supervisor.py` and `children.py`, and what a process may do | `pc` and `turn` of the supervisor; for each slot its process, age, failures, restart timer; the stop events |
| `Content` | web server, validator, stats, unbundler and eviction over the shared files | `store`, `incoming`, `links` (messages between each pair, ordered as `Bus` promises), stats' `rows` and `lists`, the unbundler's memory and files, each request for a path |
| `PeerMix` | `peer_mix.py`: which candidates to dial | pure: `Choose` |
| `Connections` | `connections/module.py`: dialing, admission, trust, closing, rests, new nodes told of | `sessions` (every connection, with what its receive thread and the thread that dialed it still do), `peers`, `dialing`, `resting`, the receive loop `main` |
| `LocalSearch` | `cas/prefix.py`, `protocol/search.py`: what held matches a prefix, and how much of it an answer names | pure |
| `Conversations` | `connections/peer_exchange.py`, and the refreshes and searches by prefix of `module.py` | of each session `talks` (the conversations under way), `busy`, `refresh`, what was `pushed` and `named`; `broadcasts` (the search of the peers for each prefix) |
| `Exchange` | the same file: searches for content and pushes over those connections | `searches`, `underWay`, `ready`, `waits`, `held`, workers; `queue`, `unpushed`, workers |
| `RequestLine` | what a connection promises those who ask over it | the requests unsettled in order, the outcome of each, whether it is open |
| `PeerConnection` | `peer_connection.py`, `response_parser.py`, `peer_session.py` | `waiting`, `outgoing`, the two threads, the bytes each way as halves of responses, the future of each request, callers |
| `Layers` | `bundle/layering.py`, `extensions.py`, and how `backup/runs.py` tells what changed | `bundles`: what each name names, for good |
| `Backup` | the backup process: `module.py`, `jobs.py`, `runs.py`, `builds.py`, `restores.py`, `exports.py`, `imports.py`, `kept_archives.py`, `tasks.py` | five files, the directory, the objects held, `mem` (what a restart forgets), `work` (the pass under way), `mail` |
| `TrustScores` | `identity/trust.py`, `identity/versions.py` | pure: the scores a set of lists gives, and which lists it lacks |
| `Trust` | sessions, trust builds, edits of versions, peer trust, distrusting of false builders, in the web server | `doc` (the versions there are, and where), `sessions`, `builds`, `remembered`, `turn`, `peers`, `distrusts`, what stats keeps |
| `ClientKeeping` | `inbound_peers.py`, `client_keeping.py`: which peers are connected to the web server, named to the others, and kept | `connections`, `naming` and `named` (the list on its way, and the last), `uses` |
| `AppStore` | `app_store.py`, `KeptRead` in `atomic_file.py`: the values an application keeps | `stored` (the file), `lastRead`, `changing` (under the lock) |
| `FileStreams` | `byte_range.py`, and which bytes of which parts a stream sends (`_Span`, `_pieces_within`) | pure |
| `Serving` | `server.py`'s request thread, `signature_guard.py`, `authentication.py`, the guards and handlers, `file_stream.py` | for each connection the client's `script`, `sent`, `wire`, `gone`, `answers`, and the `thread`; `attempts`; `held`, `shunned`, `coming`; `told`, `derived` |
| `KarmaLedger` | `karma/ledger.py`, `weight.py`, `protocol/karma_*.py` | pure: balances, payouts, reach, weight |
| `KarmaBlocks` | what blocks state, and what a node finds as it checks one | pure: a block is a value that holds the one it is built on |
| `KarmaGeneration` | how the nodes of a network build generations: `karma/module.py`, `building.py`, `staking.py`, `validating.py` | for each node the blocks held and remembered, its head; one node's handler is one step |
| `KarmaChain` | `karma/history.py`, `following.py`, `changing.py`, `claims.py`, `carried.py` | the files (`file`, `genealogy`, `headFile`, `carried`), the chain in memory (`history`), a change being written, the heads told, found, weighed and given up on |
| `Karma` | the same process: `module.py`, `payments.py`, `putting.py` over that chain | `payments` (the file), the transaction in hand (`taking`) |
| `MC...` | | the constants and scenarios of the small instances |
| `...Proofs` | | theorems: of `Eviction`, `Dispatcher` (and `Bus`, which it implements), `Supervisor`, `Trust`, `Karma`, `Content`, `Serving`; `ConnectionProofs` is about `PeerConnection` and `Exchange` |

They compose as follows. `Dispatcher` implements `Bus` (`ActsAsBus`, an `INSTANCE` with a refinement mapping), and
`Content` uses just what `Bus` promises: a queue for each pair of modules, and losses. `Eviction` implements
`SafeKeeping` (`KeepsSafely`). `PeerConnection` implements `RequestLine` (`ImplementsLine`), which is how `Exchange`
sees a request: one answer, or a failure. `Eviction` sees the inbox of one module, so it has one queue, in any order
senders produce; `Content` has deletion as one step, which `Eviction` justifies. `Exchange` extends `Conversations`,
which extends `LocalSearch` and `Connections`, which extends `PeerMix`: all of it is one process, under one lock. `Serving` extends `ClientKeeping`, `AppStore` and
`FileStreams`, which its threads share; `Content` has how a path is resolved, which it takes as known. `Backup` extends `Layers`, `Trust` extends `TrustScores`.
Of Karma there are two views: `Karma` extends `KarmaChain`, one process with one thread, for which blocks are correct or
not; `KarmaGeneration` extends `KarmaBlocks` and `KarmaLedger`, several nodes for which a change of chain is one step.

### How the actions correspond to the code

- **Eviction.** Every handler ends in `_evict`, so every action of the module ends in `Evict`, with the memory and
  the files it has come to. Objects have one size. `StartHandOffs` takes candidates off the list as `_evict`'s
  loop does, until what is under way covers the excess. `StatsAnswers`, `HandOffStarts`, `PeerAccepts`,
  `UnbundlerReclaims`... are what the other modules do, as far as this one can tell. A writer looks, stores and
  announces in three steps.
- **Dispatcher.** One `Flush`, `Dispatch` is one inbox served, so `End` may come half way. `unsent` is
  `multiprocessing.Queue`'s feeder thread: what a process that dies may take with it is the last of what it put.
- **Supervisor.** `Poll`, `AwaitEnds`, `CheckModule`, `Wake` are a pass over the slots; `Shutdown`, `Joined`,
  `Terminate`, `Kill`, `Release` stop the modules and then the dispatcher. Processes crash, exit when asked, ignore
  that, or survive SIGTERM and, being left, SIGKILL. A module that published cannot exit until it is read.
- **Content.** The validator's `CheckReads`, `CheckDecides`, `CheckStores`, `CheckAnnounces`, `CheckEnds` are
  `_on_put_completed`, cut where another process may come in. An upload is accepted, written, reported. The
  unbundler handles one message at a time, but the content it looks for may come at any moment. A request for a
  path looks, asks, looks again as it begins to wait, and waits.
- **Connections and Exchange.** Threads are program counters: a dial opens an endpoint, is admitted or refused
  under the lock, ends, and tends the mix (`Maintain`); a connection that closes is taken out of the mix by its
  receive thread, which then tends it; the receive loop closes those no longer trusted one at a time, waiting for
  each. Search and push workers take, look, ask and settle.
- **Conversations.** A conversation with a peer is a program counter of its own, in its session: `ReadsSeekList`, then
  `PushesSought` a batch at a time, `FindsMatches`, and, cut because nothing locks what the session has as named,
  `LeavesOutNamed`, `NotesNamed`, `Posts`; a greeting goes on with `AsksForSought` and `AsksHead`; `Talked` is the end,
  however it came. `OnKarmaHead` and a list of nodes (`PassesOn`) tell every peer. A search for a prefix makes its passes
  in a worker (`PassBegins`, `PassAsks`, `PassEnds`) and waits its turn between them. `start.talks` bounds the model:
  greetings and refreshes are followed in the starts that set it, and in the others a peer taken in is told nothing.
- **PeerConnection.** `request` puts a request on two queues under a lock; the send thread takes from one, the receive
  thread matches what arrives with the other. A caller waits on its futures with a time limit measured from the last
  progress. `close` marks, wakes both threads, and waits for the receive thread. A response arrives in two halves, its
  head and the rest, which is enough for one to be cut short, to be framed by the close, or to be malformed.
- **Backup.** One thing at a time: `Handles` takes a message, `Carries` does the next part of the work most due. A look
  is a pass over the directory's paths, storing an object at each; the module waits for room within it, reading its
  inbox for `storage.full` and setting the rest aside. Times are in looks and waits, not seconds.
- **Trust.** A request thread that changes a list takes the turn for it, finds the version it builds on, places the
  new one and shuns the old; a build's job reads the lists it lacks, in `from_lists`' order, waits, and is done or
  fails. Clocks are not kept: a session may fall idle, and a wait end, whenever they run.
- **Serving.** A thread is a program counter: `ReadsHead`, `ReadsBody`, `Authenticates`, `CountsSigner` and `NamesPeers`
  (`InboundPeers.opened`, whose lock is held while the list is published), a handler, `CountsAnswer`, `SendsAnswer`,
  `Finishes`. It is cut where another may come in: between looking and saving a value (`LooksIntoChange`, `SavesChange`,
  under the store's lock), and at each part of a file (`ChecksPart`, `AsksAhead`, `FetchesPart`, `MissesPart`). What a
  client sends is heads and bodies on one wire, in order, so a body left unread is met as the next request. A body says
  whether it is framed, of known size, too large, garbled or cut off; a path, what the unbundler knows of it.
- **KarmaChain and Karma.** The module has one thread, so a look is a sequence of steps: `Follow` (or `NoneToFollow`),
  `BeginWeighing`, `TakeFound` or `TakeTold`, `Weigh`, `Followed`, then `MakePayments`, `Take`, `PutUp`. It is cut where a
  file is written (`WriteGeneration`, `WriteGenealogy`, `WriteHead`, `Unlink`: `ChainHistory.replace`) and where content
  may come between two heads. A generation stands for its two blocks; whether it is correct, what it weighs and what
  the chain through it claims to weigh are constants, so `Weigh` may stop where a claim is lower, a block is false, or
  one is lacking. `Open` and `OpenHead` are a start, from the files alone. `owed`, `torn`, `asked` and `made` are history
  variables.
- **KarmaBlocks and KarmaGeneration.** A handler of a node is one step, made of operators that take a node's state to
  the set of those it may leave: check what came, follow, put up, combine, stake, validate, shun. What a block is found
  to be depends on it and on the chain below alone, so it is worked out once, as it is placed. The search for a nonce is
  given by each builder's luck.

## Runs

Every run finishes within five minutes on two cores. Deadlock is checked but where the system may really stop: the
supervisor stops; a connection closes; elsewhere, with the events of a scenario spent, nothing is left to do.

| Run | Question | Instance, and why it is enough |
|---|---|---|
| `Eviction` | Does the module ever wait for nothing, misreport full storage, count short, let go of what is new or no peer has, or of a connected peer's key? | Both limits on; its own key and another's, which a peer may connect by, each way; one writer. One event beside a write, or beside a connection: a shun, a crash of any process, a loss of any message, a backup asking, a second connection, free space changing |
| `EvictionLiveness` | Does every hand-off end and storage get back within limits? | Three objects, one limit, one loss, one connection; fair |
| `Dispatcher` | Does it implement the bus, which loses messages only as a process ends, and reach every module that reads, though one does not? | Two modules, inboxes of one message, three messages: enough for one inbox to fill, messages to be held, and one to overtake if it could; one exit and one crash, at any step; fair |
| `Supervisor` | Dispatcher first, backoff, no needless kill, a stop heard, all running in the end? | Two modules; three failures among crashes and launches that fail; delays 1, 2, 3 (the maximum), a life being stable after 2 |
| `Content` | Is only verified content held, is nothing held sought, and does everyone who waits hear? | A bundle and its extension, which is also a node's public key; two senders, a path, two requests; ten scenarios that pair up uploads, fetches, misses, shunning, eviction, requests, reclaiming, crashes and losses |
| `PeerConnection` | Is each request answered by its own response, in order, or failed, and does everything end? | Two callers, one of which pipelines two requests; seven scenarios: closing from either end with a response framed by the close, turning away, forged, garbled and unasked responses, hanging up, stalling |
| `Exchange` | Is the mix tended, nobody distrusted kept, no search or content lost or doubled, and does each end? | Two nodes at three addresses, one of which changed hands; eight scenarios of the mix, four of pushes, four of searches, four of conversations with a peer, two of searches for a prefix, and those followed to their end (see `MCExchange`). Its assumptions have TLC check, too, that a local search finds what a look at everything would, and that an answer names as many as have room, for all small stocks and sizes |
| `Backup` | Is what is recorded whole and true, are requests done in order, does no work give up early or hang? | Two paths, an entry with an attribute of its own object; fourteen scenarios of jobs, restores, builds, imports, exports and archives with edits, filling, late and lost content, failed writes and crashes (see `MCBackup`) |
| `Trust` | Does each session have its build, and the build the newest lists? Is any list left without its newest version? Is what lists say published? | Four identities, versions known, held or elsewhere; fourteen scenarios of sessions, changes, rebuilds, restarts, false blocks (see `MCTrust`) |
| `Serving` | Is each request answered in its turn with what it asked for, are the peers named those connected and few closed, is no change of a value lost? | Three connections, three peers trusted and one not, of 0, 1 and 3 Kismet about this node's 2, two kept; an application of two keys; files of up to three parts with sizes said, unsaid or wrong; some thousand starts: two and three clients where they share something (values, counts), one where the content does (each range of each file; one leave, shun, eviction and loss), and one asking for each thing that is refused (see `MCServing`) |
| `Generation` | Is every block put up one the other nodes find true, do balances add up, do the nodes agree once nothing more is to come? | Eleven meetings of two or three nodes, one that does not mine and one distrusted, over one or two generations with at most three transactions to give, two of one key among them, a stake, an eviction, a restart. `CountedBits` is 2, as one builder's luck is 3 |
| `Karma` | Does a restart find the chain followed, is no heavier correct chain passed over, is no transaction lost or payment made twice? | Ten generations: two forks of different weights and lengths, one of them false, rival roots, claims that are too high; eight scenarios, each with one or two of crashes, failed writes, late blocks, heads told, payments. Two generations may be written or dropped in one change, enough for a crash between any two files |

What the properties say:

- `NeverStalls`: with more held than `max_storage_bytes`, the module always waits for an answer, a timeout or the
  end of a pause. `FullIsCurrent`: what it last said of storage being full is so. `StoredLatelyStays`: what is
  within its grace is neither handed off nor deleted. `KeepsSafely`: it implements `SafeKeeping`.
  `ConnectedKeysKept`: a connected peer's key goes only while news of the connection is on its way.
  `NeverUndercounts`: content held is never counted short, but for announcements lost. `StorageRecovers`: liveness.
- `ActsAsBus`: the refinement. `Bus` loses messages only as it counts an end, and the mapping counts the ends of
  processes, so nothing is lost otherwise. `NotHeldUp`: what is published for a module that reads reaches it.
- `StartsInOrder`: no module before the dispatcher, and each backed off as it failed. `Escalates`: none is killed
  needlessly, nor left running but after SIGKILL. `ComesToRest`: a node asked to stop stops, any other runs everything.
- `OnlyVerified`, `NoUploadStuck`, `SoughtIsMissing`, `NoneSleepsOn`: content held is what its id says; each upload is
  dealt with; nothing held or shunned is sought; no path, and no request, waits for what is there, unless the news is
  still on its way or was lost with a crash.
- `AnswersTrue`: a request answered has its own response, unless the peer spoke unasked, and an exchange that
  returns has only whole, signed ones. `ImplementsLine`: the refinement. `EveryEnds`: every caller, both threads and
  every close come to an end, whatever the peer does or does not do.
- `MixIsTended`: whenever a candidate could be dialed, some thread has still to tend the mix. The mix is tended by no
  timer, so a change nobody follows up leaves the node short of peers. `ConnectionsKept`: each connection taken in is
  the mix's for its node until it closes, none is to a node not trusted, but those being closed, and the operator hears
  what came of a dial. `TasksKept`: new content is in one place exactly until
  it is offered or gone, and each search is carried by one worker or line, and ended by nobody else's; and a peer is busy
  just while a conversation reads its seek list (`TalksKept`), one at a time, so that it is named nothing twice and is
  never left out of refreshing. `EverythingEnds`: dials, searches, pushes and searches for a prefix do, and each peer's
  seek list is read again and again.
- `RecordsHold`: the latest backup of a job, and the bundle recorded beside a directory, bring back just what was seen,
  and all they need was stored; what is listed as an archive is there. `HandledInOrder`: what was asked is done in the
  order asked, though messages are set aside. `WorkEnds`: each piece of work ends, as done or given up, and gives up
  only once nothing came for long enough; a look that is not disturbed leaves what it saw (`LooksSettle`).
- `BuildsKeepUp`: a person's scores are kept just while they have a session, score by the last version a change handed
  them, and lack no list once done. `NewestNotShunned`: a version is shunned only for a newer one of its list that is
  here. `ChangesAccumulate`: a change is made over the newest version placed here. `WordGetsOut`: what the lists say is
  published, again and again.
- `AnswersInStep`: the i-th answer is to the i-th request, and who stays is closed only after an answer that says so
  (`InTurn`); a file's is the bytes asked for, checked, or cut short where nothing can follow, and none is longer than it
  says (`Exact`). `ClientsKept`:
  the list named, the counts and what is kept of each peer are of the same peers, whenever no list is on its way; and one
  is to be closed only if `client_keep_count` stay, and half of those hold more than it. `NoneOverwritten`: the values
  held are what as many additions make them, and a file that cannot be read is never replaced.
- `NothingFalse`: no block a node builds is found false by another. `LedgerAddsUp`: balances sum to what was issued.
  `QuietAgrees`: once nothing more comes of what they hold, the nodes follow one head and have every transaction.
- `Recovers`: a restart at any moment finds the chain followed, or while it is being changed as far as the two agree,
  and `head.json` names its head between writes. `FoundLighterStays`: a correct head weighed, and not given up on,
  weighs no more than the chain followed, however that has been followed on since. `TransactionsKept`: what was taken
  to put up, or was in a chain left, is in the chain followed or carried, unless it is too old or a crash or a failed
  write cost it. `PaidOnce`: each payment is queued, kept or in one transaction, and in one only, whatever crashes.

For each property of each run, `PROJECT.json` names a mutation of the code's logic under which TLC finds the property
violated.

### Fairness

Liveness is checked under weak fairness of what runs by itself and no more.

- Eviction: its loop polls its inbox and comes to `on_idle` (`Module`), time passes, stats, the unbundler and the
  connection manager answer what reaches them, and writers go on. Strong fairness is assumed of peers: one that is
  asked often enough accepts something. A message lost is not answered; that is what the timeouts are for.
- Dispatcher: its loop and threads run, the supervisor restarts what ends, and modules in `Responsive` read.
  The second module of the run is not in it.
- Supervisor: its loop runs and time passes. That a stop is heard needs nothing of the processes. That all runs is
  conditional: it assumes, in the property, that a process told to die does, and that a dispatcher launched often
  enough comes up in time.
- PeerConnection: its threads and callers run and time passes. Nothing is assumed of the peer.
- Exchange: in the scenarios followed to their end, each thread runs on, those of conversations and of passes too; a request to a peer is answered, fails or times
  out (`SearcherAsks` is a step with each of these outcomes); the receive loop comes to `on_idle`; time passes. Nothing
  is assumed of what peers answer or when connections close.
- Backup: the process handles or carries on, storage empties in the end, what others stored is announced, and time
  passes. That what is sought arrives is not assumed.
- Trust: request threads and jobs run, `on_idle` is called, waits end, and what is stored, shunned and asked of peers is
  answered. A rebuild comes once an hour, which is assumed long enough for a build and its check but in the scenario
  with `hasty` rebuilds.

## Proofs

TLAPS checks these for every value of the constants that the modules' assumptions allow. Each module's proof is one
inductive invariant, a lemma for each group of actions that says a step keeps it, and the theorems drawn from it;
every invariant was checked by TLC on its run before it was proved.

**`EvictionProofs`.** `EvictionKeepsSafely`: `Eviction` implements `SafeKeeping`. Content is deleted on the word of a
message, so the invariant, `SafeInv`, is about messages: whatever waits in the inbox and says a peer holds content is
true of `elsewhere`, and whatever says it is shunned is true of `shunned` (`AllHonest`); and what is being offered
was held, accepted or shunned. Neither set ever shrinks, so old messages stay true however late they are handled:
that is why no crash or delay matters. Nothing need be known of the module's memory, which a crash may lose at any
time. The others rest on `EvictionTypeOK`, which every handler's end in `Evict` makes long: `EvictionNeverStalls`
(each way out of `Evict` leaves a timer running or nothing over), `EvictionFullIsCurrent` (what changes the answer is
news on its way, or is said at once), `EvictionStoredStays`, `EvictionKeepsConnected` (a peer named in an inbox, in
memory or in a report to come), `EvictionNeverUndercounts` (a sum of what is counted, announced and to be announced).

**`DispatcherProofs`.** `BusInOrder`: a module receives what another published in order and once, for any
number of messages and whatever is lost. Order in `received` alone is not inductive: `Ordered` adds that each link is
in order, holds only its publisher's messages, already numbered, and that what was received comes before all that is
still on its way. A loss keeps a subsequence, picked by a rising function, so it keeps all of this.
`DispatcherIsBus`: the dispatcher implements `Bus`. What is on its way over a link lies in five places (outbox,
forwarded, in hand, held, inbox), concatenated and filtered by the mapping; each action moves a message from the end
of one to the beginning of the next, which leaves the sequence as it is, or loses some as a process ends, which leaves
a subsequence. The filter is a recursive function over a sequence, of which only its defining equation is used.
`ReceivedInOrder` is the first carried over by the second.

Beside it is what the backup process does with what it is delivered. `HandlesInOrder`: what
it set aside and what is still in its inbox, one after the other, come in the order they were asked and after what it
handled last (`MailOrdered`); a step takes the first, adds a last, or leaves some out and keeps the rest in order, as what
it sets aside of its inbox is. `KeptAsListed`: that an archive listed is there is not inductive, for one that cannot be
recorded is deleted; `OneOrOther` adds that none is listed while one is being kept, that work on an archive is known to
be under way, that a process that ended keeps none, and that only a walk stores.

`RecordsWhole`, and `RecordsKept` with it: the latest backup and each recorded bundle bring back just what was recorded
with them, all that takes was stored, and who can read a bundle can read what it extends. What a bundle says (`said`) is
a recursive function over what it extends, of which only the equation is used. That it has one answer
(`SaidIs`) and that a new bundle leaves it as it was for the old ones (`SaidGrows`) are shown by the bundle of least
number to fail, as one extends only earlier ones. What is made and what was stored only grow
(`Grows`), so what is whole stays whole, and a layer brings back the entries it was made for (`LayerBrings`). The records
alone are not inductive: `AllHolds` adds that what is kept expanded is what its bundle says, that
what work under way is to record was stored or is still wanted of what it stores, and that what a restore has placed was stored.
It is assumed that the parts of an entry are finitely many, and that a walk's `Order` lists every path.

**`SupervisorProofs`.** `SupervisorTypeOK`: no timer runs below zero, and no module waits longer than
`max_restart_delay_seconds`, whatever the delays. TLAPS knows nothing of powers, so that `2 ^ n` is a number is
had from the number of subsets of a set of `n`. `SupervisorStartsInOrder` and `SupervisorEscalates` add what is known at
each program counter: who has been asked, terminated and killed by then.

**`ConnectionProofs`.** Of one connection, `EachAnsweredItsOwn` and `ConnectionIsLine`: the requests waiting, those the
peer has been sent and the responses on their way line up, position for position, until the peer speaks unasked; a
request is in one place only; and once it is closed, whoever closed it is still to wake the rest. (`PeerConnection` names
its specification `LinkSpec`, so that one module can be about it and about `Exchange`.)

Of all the connections, `AllConnectionsKept` and `AllTasksKept` (the conjunction of `AllNewKept`, `AllSearchesKept` and
`AllTalksKept`), from four invariants:

- `ConnectionsHold`. That each connection taken in is the mix's, and to a node allowed, is not inductive: a dial opens,
  is admitted and is told of in three steps, while trust changes and others connect. It adds that what the mix knows
  for a node is a connection to it (`PeersHold`), that nobody is allowed before this node is told whom (`TrustHolds`),
  that each connection that awaits admission belongs to one dial alone (`DialsHold`, `AsksHold`), and, while trust stays
  as it was, why each dial was refused (`RefusalsHold`).
- `SearchesHold`. It adds, for searches that have ended and are still carried too, that none is in two places or twice
  in one (`OnceCarried`), that one under way is in some place (`AllCarried`), and that what is under way for some
  content is a search for it (`SearchersHold`).
- `NewHolds`, with `UnpushedWasTried`. Each piece of new content is in the queue, in a batch or in `unpushed`, in one of
  them and there only once (`Once`). What waits was tried with every peer connected but one that has still to queue it
  again, which is why putting it by under the lock is enough. That a queue loses its first few, gains a last or is
  put behind another is one lemma each, about the places of one content in a sequence (`InSequenceOnce`, `Appends`,
  `Concatenates`, `Removes`).
- `TalksHold`. A session is busy just while one conversation reads, so nothing else notes names for it meanwhile,
  and what a conversation leaves out as named stays all that was; the session of a dial that has ended has not been
  greeted yet (`JoinedHold`).

It is assumed that a start's connections are to different nodes, all of them allowed.

**`TrustProofs`.** `ListsKeepTheirNewest`: what is shunned or about to be (by an edit in its turn, by a build's job, by
a build that has ended) has a newer version here; versions here only grow. `BuildsServeSessions`: per owner, scores that
are complete are complete for the lists read (`GoodBuild`), nothing but its job changes a build while it reads, what a job
has seen is no more than what was changed, and it is done with what it has seen only if nothing lacks. That
`from_lists`, a recursive function over the order in which lists are read, lacks nothing is shown by an explicit witness
and a least counterexample, as induction over data is out of reach.

**`KarmaProofs`.** `KarmaPaysOnce`: where each payment is, at each point of the step that makes transactions, in memory
and in the file. `KarmaRecovers`: the files say the chain in memory, or, at each point of a change, the part of it
written; relative to `ChainInv` (the history is a chain; what is being written makes a chain no lighter than it; a chain
claimed shares its beginning with the history). `KarmaFoundLighterStays`: the chain followed never gets lighter, and
what is weighed and remembered was no heavier; the ones given up on are remembered apart. `KarmaTransactionsKept`: what
is owed is in the chain, collected, or carried. They assume that generations have no cycle and are finitely many,
as ids are hashes of content, and that a start is on a chain.

**`ContentProofs`.** One inductive invariant, `ContentHolds`, gives `ContentOnlyVerified`, `ContentNoUploadStuck`,
`ContentSoughtIsMissing` and `ContentNoneSleepsOn`. As in the code, what each process will do depends on news still on its
way, so the lemmas are about messages: what a step publishes stays on its link until it is handled or lost (`Stays`,
`Told`). It strengthens the properties where they leave something out: an upload of the node's own key is stored at
once; what the seek list names is sought or was shunned; what the validator has in hand is right once it is verified.

**`ServingProofs`.** The threads share two things, each under a lock of its own, and the program counters say who holds
it. `ServingClientsKept`: a connection is named and counted by one step of its thread and given up by another, with those
of other threads, and the publishing of the list, in between. The inductive invariant `IInv` says whose signers each thread
counts, and that the counts are of just those (`CountsAre`); that the list is being named just while one thread has the
lock for it, and is of the peers connected (`LockIsTheirs`); and, for that, what is on each wire (`WiresAre`), that a thread
asked for something still has it (`AskedAre`), and where it goes on after it has published (`GoOnAs`).
`ServingNoneOverwritten` rests on `StoreInv`: what was last read is what is in the file while that is of the same version
(`ReadIs`); a change is being made just while a thread has the store's lock, and only of a file that can be read
(`ChangesAre`); and, where clients only add, what is in the file is as large as what was added, and what is about to be
saved one larger (`SizesAre`).
`ServingInTurn` is the first half of `AnswersInStep`: the i-th answer is to the i-th request, whatever bodies are sent, left
unread or broken off; only the last answer closes or is cut short; and a client that stays is closed only after such a one.
`InTurn` says nothing of what is on the wire or in the thread, so it is far from inductive. `TurnInv` says, of each
connection, that the items on the wire follow one another from the one the thread awaits, a body until it has read that of
the request it is at (`WireOfTurn`); and that the thread is at the request after the last one answered while it prepares
an answer, at that one while it streams its bytes or is between requests, and that once it ends, the client has left or was
told (`AnswersOfTurn`). The lemmas are about one thread, wire and list of answers as values, and each action is shown to be one of them.

What only TLC checks, and why:

- Liveness (`StorageRecovers`, `NotHeldUp`, `ComesToRest`, `EveryEnds`, `EverythingEnds`, `WorkEnds`,
  `WordGetsOut`): the proof system reaches neither `ENABLED` nor fairness.
- `Exact`, the second half of `AnswersInStep` of `Serving`: that the bytes sent are those of the range is about sums over
  parts, by a fold over a sequence of any length. The first half is `ServingInTurn`.
- `NothingFalse`, `LedgerAddsUp` and `QuietAgrees` of `KarmaGeneration`: its operators are recursive, and what they compute for every block would be an
  induction over chains.
- `MixIsTended` of `Exchange`: `Choose` in `PeerMix` is a fold over the candidates, of which the provers can say nothing
  in general.
- `ChangesAccumulate`: it does not hold for all constants. The validator takes uploads in order; `Trust` lets those of
  different lists, and after a restart of the web server of one, be stored in any order, and with two of one list
  pending the older may come last and both be shunned, and then a change starts anew. The run has no such scenario.

## Where the code and its documentation differ

All of these came of models: some as counterexamples to what the documentation says, some while translating. The
properties checked state what the code does.

- "Public keys are never let go of while signatures are checked against them" (`eviction/module.py:94`). When an
  acknowledgement waits ahead of the news that its peer has connected, the key goes while the peer is connected
  (`:470`, `:103`). What does hold is `ConnectedKeysKept`.
- "`size` is what says content is held" (`implementation/Database Schema.md:226`). A report of a deletion that stats hears
  after content was stored again clears its size (`stats/database.py:187`), and content held is never again offered for
  eviction.
- A node that follows none "follows the heaviest root it finds correct" (`karma/following.py:5`, and `:283`). A root's
  validation block is a candidate whether it was found correct or not (`_chosen`, `:291`); the best after the head is
  chosen among those correct only.
- "A node shuns a block only while it holds the block that keeps it" (`specs/KarmaLedger.md:355`; "held there",
  `karma/building.py:69`). What was found correct at a target is remembered after eviction took it (`building.py:662`), so
  a block may be shunned for one no longer held. That no transaction is lost, `QuietAgrees` says of meetings in which nothing
  was evicted.
- Modules "are neither started nor restarted until the dispatcher has reported that it is up"
  (`process_supervisor.py:17`). A dispatcher terminated for not being ready in time, and still alive at the next
  pass, is taken to be up (`:306`). What does hold is `StartsInOrder`.
- What is collected of a chain left is "carried again as the head next changes" if it cannot be written
  (`karma/changing.py:491`): it is not kept, and is lost if the write fails or the process ends first.
- A head given up on is to be weighed again as the head changes (`karma/changing.py:129`): it is forgotten that it was
  weighed, but one that a peer told is weighed only if it is told again.
- A node that has just closed its connection, or turned this node away, may be dialed straight back, where the
  address was listed under another node's id (`connections/module.py:1222`; the docstring at `:16` has it rest).
- A backup fails once storage is full, say its docs; but `StorageFullError` while an entry's attributes are stored
  skips that file, and the pass goes on and succeeds without it (`backup/runs.py`).
- Whether partial scores replace settled ones while a build is under way: `specs/TrustNetwork.md` 4.5 says both. The code
  lays them over the settled ones, so a node distrusted may be published as trusted for a while, and `WordGetsOut` is
  about infinitely often.
- A streamed file cut short is framed "so the client never takes it for the file" (`webserver/file_stream.py:17`). Where its
  size is not recorded it is framed by the close of the connection, and a client can take what came for all of it.

## Weaker than one might expect

Reading the models, the following hold of the code as it is, and the properties are stated so:

- After a restart, eviction has forgotten the grace of what was stored lately, and counts what is held from the files
  while announcements of some are still to come, so may count it high, never low.
- Two nodes over their limits may hand the same content to one another and both delete it after the other's
  acceptance: `elsewhere` says that a peer accepted content, not that it keeps it (`eviction/module.py:6-7`).
- A peer that shuns content answers 202 to its upload and discards it (`webserver/data_write_handler.py:112-114`).
- Content shunned between the validator's looking and its storing stays in the source of truth, though it is
  neither served nor sought. The seek list is not rewritten at once for what was shunned.
- An upload replaced while the previous one is verified goes with it: the file is deleted at the end whatever it is
  by then. Its sender was answered 202.
- A module's uptime is counted until it is reaped, which may be late, so a module that crashed early can count as
  stable. A dispatcher that ignores SIGTERM without having come up is never killed while the node runs.
- A response framed by the close of the connection is delivered as whole even when this node closed it, or its send
  failed, half way through (`connections/peer_connection.py:350`): only the session's check of its digest refuses it. A
  response's signature is not bound to its request, so `AnswersTrue` excepts a peer that speaks unasked.
- A dial's outcome is told from trust as it is when told; `ConnectionsKept` excepts trust that changed in between.
- A push counts the peers it tried by node, so one that closed and came back while content waited is not tried again
  until another connection opens.
- Backup: messages set aside while it waits for room are lost in a crash; a failure to log an archive whose removal
  fails too leaves one that no record names; a record whose removal could not be saved stays; what the backup stores
  itself is not announced to itself.
- Trust: a build started between a change's placing and the validator's storing it reads the version before, or none,
  until the next sign-in or rebuild. The version replaced is shunned as the new one is placed, so an upload lost with
  the web server leaves none to be found here. A restart of the web server forgets the versions it remembered and the
  distrusts that wait. A distrust refused for any reason but missing content is dropped.
- Of two chains as heavy, the better is judged at the generation after the ancestor that the walk came to. If the
  chain has been followed on past it meanwhile, a better one may be found no better, and is not weighed again:
  `FoundLighterStays` is about heavier chains.
- A transaction of the node's own that was in a chain left is carried but not to be put up: a node that does not build
  blocks never puts it up again. A block put up and evicted before any peer fetched it is not put up again at that head.

## Not modelled

- The bytes: hashing, signatures, compression, parsing and rendering, HTTP, wording and logging. Content is right or
  wrong for its id; a path is found in its bundle or not.
- The shutdown event and malformed messages, which nothing here publishes. A semaphore that a dispatcher killed in the
  middle of a write to a queue may leave taken.
- In `Connections`: registering what to do on close and admission are one step, as nothing comes between them; reverse
  DNS. In `Conversations`: the matches kept between two reads of a seek list (each read searches again), and what a peer
  answers, which is the validator's or the stats module's. Hand-offs are in `Eviction`.
- In `Content`: archives, redirects and listings; ratings and priorities.
- In `Backup`: encryption of parts and objects, splitting into bundles, ignored paths, symlinks and directory markers,
  files that change as they are read, reports, eviction of what a restore waited for once it came.
- In `KarmaGeneration`: parsing, compressed sizes (a block is as large as it has entries), the search for a nonce, a block
  named but never coming, forgetting once too much is kept, carrying no longer what was witnessed long ago, files that cannot
  be read or written; heads are weighed together. Eviction takes a block that is not full, never one full or in the chain:
  what waits for those to come back is in `Karma`, by block, and not here. `NothingFalse` sets the code that builds against
  the code that checks where these are two (what is covered and taken, shortening, the runner-up and what it gives up); the
  arithmetic both call (`ledger.py`, `weight.py`) is one operator in the model too, and `LedgerAddsUp` is what checks it. In
  `Karma`: shunning, distrusting and what is asked for again; the order in which heads found and told are weighed within
  each kind; that a block checked at a head is not checked again.
- In `Trust`: eviction of the versions held; making, opening and taking over identities, the reads that answer a page, how drops and signatures are made.
- In `Serving`: the port on which the node is configured; bundle edits, drops, imports, archives and searches as requests;
  a registry of applications that cannot be read. That a client is idle too long is its leaving; values are numbers, as
  large as they say; what the node seeks and the Kismet held do not change; where a path is not resolved within the wait is
  given with the path.
- Fetcher: a timer, for which `OnFetchRequested` may come at any time. Identities; the database's rows of nodes and
  addresses: see the plan.

## Plan

Done: `SafeKeeping` and `Eviction`, as what may lose content for good; `Bus` and `Dispatcher`, on which all else rests;
`Supervisor`; `Content`; `PeerMix`, `Connections`, `LocalSearch`, `Conversations`, `Exchange`; `RequestLine`, `PeerConnection`; `Layers`, `Backup`;
`TrustScores`, `Trust`; `KarmaChain`, `Karma`; `KarmaLedger`, `KarmaBlocks`, `KarmaGeneration`; `ClientKeeping`, `AppStore`, `FileStreams`,
`Serving`. The safety of all but `KarmaGeneration` is proved, but for the properties named above.

Next:

1. **Statistics' database**: nodes and addresses, ratings, ranking. **Fetcher**, with its timer.
2. **Bundle edits, drops and imports** as requests of `Serving`.
