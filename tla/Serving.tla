------------------------------- MODULE Serving -------------------------------
(***************************************************************************)
(* The web server serving its clients: a thread for each connection, that  *)
(* reads requests, checks who signed each, has it answered, and goes on    *)
(* to the next or closes.  RequestHandler, its guards and its handlers.    *)
(*                                                                         *)
(* The threads share the counts of the peers connected (ClientKeeping),    *)
(* the values an application keeps (AppStore), the attempts of signers     *)
(* whose keys are not held, and the content of the node, which comes and   *)
(* goes while files are sent of it (FileStreams).  How a path is resolved  *)
(* to a file, and how content asked for comes, is Content.tla and          *)
(* Exchange.tla; here the one is known, and the other may come.            *)
(*                                                                         *)
(* What a client sends is heads and bodies, on one wire: a body nobody     *)
(* reads would be taken for the next head.                                 *)
(***************************************************************************)
EXTENDS ClientKeeping, AppStore, FileStreams

CONSTANTS
  Connections,      \* those clients make
  Allowed,          \* the peers this node connects to
  Content,
  Files,            \* what paths resolve to: files, and what is known instead
  Searched,         \* the prefixes searched for now
  AttemptLimit,     \* identity.provisional_trust_attempts
  MaxTracked,       \* how many signers they are counted for
  WaitSeconds,      \* network.app_wait_seconds
  AskAgain,         \* network.retry_after_seconds
  ReadAhead,        \* network.read_ahead_parts
  Versions,         \* what tells a file of the store from the one before
  Starts            \* what clients ask, what is held at first, and what may happen

(* What a request may be: `of` is the one before it whose answer it is made *)
(* of, if any.                                                             *)
Ranges ==
  [form : {"none", "from", "suffix"}, first : Nat, last : Nat \cup {Unknown},
   ifRange : {"none", "same", "another"}]
Requests ==
  [route : STRING, signer : Peers \cup {NoPeer}, forged : BOOLEAN, body : STRING,
   content : Content \cup Peers, file : DOMAIN Files, range : Ranges, head : BOOLEAN,
   local : BOOLEAN, site : STRING, page : STRING, json : BOOLEAN,
   match : [kind : {"none", "any", "tag"}, tag : Nat], key : Keys, value : Nat, of : Nat]

(* A file there is none of holds nothing.                                  *)
IsStored(file) ==
  /\ file.version \in Versions \cup {0} /\ file.usable \in BOOLEAN
  /\ IsFiniteSet(DOMAIN file.values) /\ file.values \in [DOMAIN file.values -> Nat]
  /\ file.version = 0 => file = NoFile

ASSUME ServingAssumption ==
  /\ IsFiniteSet(Connections) /\ Allowed \subseteq Peers
  /\ {AttemptLimit, WaitSeconds, AskAgain, ReadAhead} \subseteq Nat
  /\ MaxTracked \in Nat \ {0} /\ 0 \notin Versions
  /\ \A start \in Starts :
       start.script \in [Connections -> Seq(Requests)] /\ IsStored(start.stored)

VARIABLES
  strict,    \* whether unsigned reads of the API are refused, as it may be configured
  script,    \* what each client asks, in order
  sent,      \* how many of its requests each has sent
  wire,      \* what each has sent that is not read
  gone,      \* which have left, or sent all they will
  answers,   \* what each has been sent
  thread,    \* what the thread of each connection is doing
  attempts,  \* RequestAuthenticator._attempts, the least lately seen first
  held,      \* the content, and the keys of peers, in the source of truth
  shunned,   \* the content this node shuns
  coming,    \* the content asked of the network, or uploaded, and not stored
  told,      \* the lists of peers published for the other modules
  derived,   \* whether the lists served here are written
  made,      \* history: what the values held add up to if each change added one
  may        \* how often each thing may still happen

wires == <<strict, script, sent, wire, gone>>
content == <<held, shunned, coming>>
lists == <<told, derived>>
vars == <<wires, answers, thread, clients, store, attempts, content, lists, made, may>>

May(event) == may[event] > 0 /\ may' = [may EXCEPT ![event] = @ - 1]

-----------------------------------------------------------------------------
(* Clients.  A request may be made of an earlier answer: that value, read, *)
(* and one more put in its place.                                          *)

Asked(c, k) ==
  LET request == script[c][k]
      read == answers[c][request.of].value
  IN IF request.of = 0 THEN request
     ELSE [request EXCEPT !.match = [kind |-> "tag", tag |-> read], !.value = read + 1]

Items(k, request) ==
  <<[kind |-> "head", of |-> k]>>
    \o IF request.body \in {"none", "cut"} THEN <<>> ELSE <<[kind |-> "body", of |-> k]>>

Sends(c) ==
  LET k == sent[c] + 1
  IN /\ ~gone[c] /\ thread[c].pc # "closed" /\ k <= Len(script[c])
     /\ LET of == script[c][k].of
        IN of # 0 => of <= Len(answers[c]) /\ answers[c][of].done /\ answers[c][of].status = 200
     /\ wire' = [wire EXCEPT ![c] = @ \o Items(k, script[c][k])]
     /\ sent' = [sent EXCEPT ![c] = k]
     /\ gone' = [gone EXCEPT ![c] = script[c][k].body = "cut"]
     /\ UNCHANGED <<strict, script, answers, thread, clients, store, attempts, content, lists, made, may>>

(* A client leaves, or has been idle for as long as one may be.            *)
Leaves(c) ==
  /\ ~gone[c] /\ thread[c].pc # "closed"
  /\ gone' = [gone EXCEPT ![c] = TRUE]
  /\ \/ thread[c].pc = "reading" /\ wire[c] = <<>> /\ UNCHANGED may
     \/ May("leaves")
  /\ UNCHANGED <<strict, script, sent, wire, answers, thread, clients, store, attempts, content, lists, made>>

-----------------------------------------------------------------------------
(* Threads.                                                                *)

NoStream == [pieces |-> <<>>, whole |-> FALSE, length |-> 0, next |-> 1, taken |-> 0,
             deadline |-> 0, asked |-> [x \in {} |-> 0], sending |-> FALSE]
Response(status) ==
  [status |-> status, close |-> FALSE, bytes |-> <<>>, length |-> 0, value |-> 0]
Closing(response) == [response EXCEPT !.close = TRUE]

NewThread ==
  [pc |-> "reading", at |-> 0, read |-> TRUE, then |-> "reading", signers |-> {},
   telling |-> {}, kept |-> TRUE, response |-> Response(0), stream |-> NoStream]

At(c, pc) == thread[c].pc = pc
Request(c) == Asked(c, thread[c].at)
Signed(request) == request.signer # NoPeer

(* Each peer verified on a connection is told of each request answered.    *)
Answered(t, response) ==
  [t EXCEPT !.pc = "serving", !.response = response, !.telling = t.signers, !.kept = TRUE]
Answers(c, response) == thread' = [thread EXCEPT ![c] = Answered(@, response)]
Goes(c, pc) == thread' = [thread EXCEPT ![c].pc = pc]

Quiet == UNCHANGED <<strict, script, sent, gone, lists, made, may>>

-----------------------------------------------------------------------------
(* Bodies.                                                                 *)

(* unreadable_body_response *)
Unreadable(request) ==
  CASE request.body = "unsaid" -> 411
    [] request.body = "large" -> 413
    [] OTHER -> 0

(* A body is read before what comes then, unless it has been.              *)
Reading(t, then) ==
  IF t.read THEN [t EXCEPT !.pc = then] ELSE [t EXCEPT !.pc = "body", !.then = then]

BodyOr(t, request, then) ==
  IF ~t.read /\ Unreadable(request) # 0 THEN Answered(t, Response(Unreadable(request)))
  ELSE Reading(t, then)

ReadsBody(c) ==
  /\ At(c, "body") /\ wire[c] # <<>>
  /\ wire' = [wire EXCEPT ![c] = Tail(@)]
  /\ thread' = [thread EXCEPT ![c].read = TRUE, ![c].pc = thread[c].then]
  /\ UNCHANGED <<answers, clients, store, attempts, content>> /\ Quiet

(* IncompleteBodyError: the client stopped half way.                       *)
BodyEnds(c) ==
  /\ At(c, "body") /\ wire[c] = <<>> /\ gone[c]
  /\ Goes(c, "finishing")
  /\ UNCHANGED <<wire, answers, clients, store, attempts, content>> /\ Quiet

-----------------------------------------------------------------------------
(* A request is read, and guarded.                                         *)

ApiReads == {"data", "values", "value", "lists", "peers", "client", "inBundle"}

(* What is configured is served on a port of its own, to this machine.     *)
NamesConfig(request) == request.route \in {"config", "configApi"}
RefusedConfig(request) == NamesConfig(request) /\ ~request.local
MovedConfig(request) == IF request.route = "config" THEN 302 ELSE 404

Guarded(t, request) ==
  CASE request.body = "misframed" ->
         [t EXCEPT !.pc = "sending", !.response = Closing(Response(400)), !.kept = TRUE]
    [] RefusedConfig(request) -> Answered(t, Response(403))
    [] NamesConfig(request) -> Answered(t, Response(MovedConfig(request)))
    [] ~Signed(request) /\ strict /\ request.route \in ApiReads ->
         Answered(t, Response(401))
    [] ~Signed(request) -> [t EXCEPT !.pc = "routing"]
    [] OTHER -> BodyOr(t, request, "authenticating")

(* What is no head cannot be parsed, and is answered as no request is.     *)
Misparsed(t) ==
  [t EXCEPT !.pc = "sending", !.at = 0, !.response = Closing(Response(400)), !.kept = TRUE]

ReadsHead(c) ==
  /\ At(c, "reading") /\ wire[c] # <<>>
  /\ wire' = [wire EXCEPT ![c] = Tail(@)]
  /\ LET k == Head(wire[c]).of
         t == [thread[c] EXCEPT !.at = k, !.read = script[c][k].body = "none"]
     IN thread' = [thread EXCEPT ![c] =
          IF Head(wire[c]).kind = "head" THEN Guarded(t, Asked(c, k)) ELSE Misparsed(t)]
  /\ UNCHANGED <<answers, clients, store, attempts, content>> /\ Quiet

ReadsEnd(c) ==
  /\ At(c, "reading") /\ wire[c] = <<>> /\ gone[c]
  /\ Goes(c, "finishing")
  /\ UNCHANGED <<wire, answers, clients, store, attempts, content>> /\ Quiet

(* RequestAuthenticator: a signer whose key is not held is trusted a few   *)
(* times, and the attempts of the one least lately seen are forgotten.     *)
AttemptsLess(n) == SelectSeq(attempts, LAMBDA tried : tried.node # n)
TriedBefore(n) ==
  LET tried == SelectSeq(attempts, LAMBDA each : each.node = n)
  IN IF tried = <<>> THEN 0 ELSE tried[1].times
Latest(tried) == IF Len(tried) > MaxTracked THEN Tail(tried) ELSE tried
Tried(n) ==
  Latest(Append(AttemptsLess(n), [node |-> n, times |-> Least(TriedBefore(n), AttemptLimit) + 1]))

Verified(t, n) ==
  IF n \notin Allowed THEN Answered(t, Closing(Response(403)))
  ELSE [t EXCEPT !.pc = IF n \in t.signers THEN "routing" ELSE "opening"]
Provisional(t, n) ==
  IF TriedBefore(n) >= AttemptLimit THEN Answered(t, Closing(Response(401)))
  ELSE IF n \notin Allowed THEN Answered(t, Closing(Response(403)))
  ELSE [t EXCEPT !.pc = "routing"]

Authenticates(c) ==
  LET n == Request(c).signer
      To(t) == thread' = [thread EXCEPT ![c] = t]
  IN /\ At(c, "authenticating")
     /\ \/ n \notin held /\ To(Provisional(thread[c], n)) /\ attempts' = Tried(n)
        \/ /\ n \in held /\ Request(c).forged
           /\ To(Answered(thread[c], Closing(Response(401)))) /\ UNCHANGED attempts
        \/ /\ n \in held /\ ~Request(c).forged
           /\ To(Verified(thread[c], n)) /\ attempts' = AttemptsLess(n)
     /\ UNCHANGED <<wire, answers, clients, store, content>> /\ Quiet

(* A connection counts as its signer's from the first request verified.    *)
CountsSigner(c) ==
  /\ At(c, "opening")
  /\ LET n == Request(c).signer
     IN /\ Opened(c, n)
        /\ thread' = [thread EXCEPT ![c] =
             [@ EXCEPT !.signers = thread[c].signers \cup {n}, !.then = "routing",
                       !.pc = IF n \in DOMAIN connections THEN "routing" ELSE "naming"]]
  /\ UNCHANGED <<wire, answers, store, attempts, content>> /\ Quiet

NamesPeers(c) ==
  /\ At(c, "naming")
  /\ Publishes(c)
  /\ Goes(c, thread[c].then)
  /\ UNCHANGED <<wire, answers, store, attempts, content>> /\ Quiet

-----------------------------------------------------------------------------
(* Content: read and pushed.                                               *)

Routed(c, route) == At(c, "routing") /\ Request(c).route = route

FindsNoRoute(c) ==
  /\ \/ Routed(c, "nowhere") /\ Answers(c, Response(404))
     \/ Routed(c, "other") /\ Answers(c, Response(405))
  /\ UNCHANGED <<wire, answers, clients, store, attempts, content>> /\ Quiet

ReadsData(c) ==
  LET asked == Request(c).content
  IN /\ Routed(c, "data")
     /\ \/ asked \in shunned /\ Answers(c, Response(404)) /\ UNCHANGED coming
        \/ /\ asked \in held \ shunned
           /\ Answers(c, [Response(200) EXCEPT !.bytes = Bytes(asked), !.length = Length[asked]])
           /\ UNCHANGED coming
        \/ /\ asked \notin held \cup shunned
           /\ Answers(c, Response(503)) /\ coming' = coming \cup {asked}
     /\ UNCHANGED <<wire, answers, clients, store, attempts, held, shunned>> /\ Quiet

ReadsUpload(c) ==
  /\ Routed(c, "push")
  /\ thread' = [thread EXCEPT ![c] = BodyOr(@, Request(c), "pushing")]
  /\ UNCHANGED <<wire, answers, clients, store, attempts, content>> /\ Quiet

(* A signer's own key is stored at once, and anything else by the          *)
(* validator; what is shunned or held is let be.                           *)
TakesUpload(c) ==
  LET n == Request(c).signer
      pushed == Request(c).content
  IN /\ At(c, "pushing")
     /\ \/ /\ n = NoPeer /\ Answers(c, Response(401))
           /\ UNCHANGED <<clients, held, coming>>
        \/ /\ n # NoPeer /\ pushed \in shunned /\ Answers(c, Response(202))
           /\ UNCHANGED <<clients, held, coming>>
        \/ /\ n # NoPeer /\ pushed \in held \ shunned /\ Answers(c, Response(204))
           /\ UNCHANGED <<clients, held, coming>>
        \/ /\ n # NoPeer /\ pushed \notin held \cup shunned /\ pushed = n
           /\ held' = held \cup {n} /\ Answers(c, Response(201))
           /\ UNCHANGED <<clients, coming>>
        \/ /\ n # NoPeer /\ pushed \notin held \cup shunned /\ pushed # n
           /\ coming' = coming \cup {pushed} /\ Pushed(n, pushed)
           /\ Answers(c, Response(202))
           /\ UNCHANGED held
     /\ UNCHANGED <<wire, answers, store, attempts, shunned>> /\ Quiet

-----------------------------------------------------------------------------
(* Who may ask for what.                                                   *)

(* The page a request is from, if it is from one of an application here:   *)
(* of that whose values are asked for, or another, trusted or not.         *)
FromPage(request) == request.page # "none"
OwnPage(request) == request.page = "own"
TrustedPage(request) == request.page = "trusted"

(* Another site may have named this machine, or its page have asked.       *)
NamesHost(request) == request.site # "host"
OwnSite(request) == request.site # "page"
SaysJson(request) == request.json

(* LocalOnly, and OwnSiteOnly.                                             *)
LocalRefusal(request) ==
  CASE ~request.local \/ ~NamesHost(request) \/ ~OwnSite(request) -> 403
    [] request.body # "none" /\ ~SaysJson(request) -> 415
    [] OTHER -> 0
Refusal(request) ==
  IF LocalRefusal(request) # 0 THEN LocalRefusal(request)
  ELSE IF OwnPage(request) THEN 0 ELSE 403

(* json_or_refusal, once the body is read.                                 *)
JsonStatus(request) ==
  CASE ~SaysJson(request) -> 415
    [] request.body \in {"none", "garbled"} -> 400
    [] OTHER -> 0

-----------------------------------------------------------------------------
(* Lists: of nodes, and of what is sought or matches a search, sent by a   *)
(* peer for the other modules; and those derived here, read.               *)

Posted == {"nodes", "seeks", "matches"}

ReadsList(c) ==
  /\ At(c, "routing") /\ Request(c).route \in Posted
  /\ thread' = [thread EXCEPT ![c] = BodyOr(@, Request(c), "listing")]
  /\ UNCHANGED <<wire, answers, clients, store, attempts, content>> /\ Quiet

(* What is named for a search this node no longer makes is let be.         *)
TakesList(c) ==
  LET request == Request(c)
      heard == [route |-> request.route, by |-> request.signer, at |-> c, of |-> thread[c].at]
  IN /\ At(c, "listing")
     /\ \/ ~Signed(request) /\ Answers(c, Response(401)) /\ UNCHANGED told
        \/ /\ Signed(request) /\ request.body # "sent"
           /\ Answers(c, Response(400)) /\ UNCHANGED told
        \/ /\ Signed(request) /\ request.body = "sent" /\ Answers(c, Response(202))
           /\ told' = IF request.route = "matches" /\ request.key \notin Searched THEN told
                      ELSE told \cup {heard}
     /\ UNCHANGED <<wires, answers, clients, store, attempts, content, derived, made, may>>

(* The list of peers is read by trusted pages of this machine, and whether *)
(* it is this machine by any page.                                         *)
ListStatus(request) ==
  CASE request.route = "client" -> IF FromPage(request) THEN 200 ELSE 403
    [] request.route = "peers" /\ LocalRefusal(request) # 0 -> LocalRefusal(request)
    [] request.route = "peers" /\ ~TrustedPage(request) -> 403
    [] OTHER -> IF derived THEN 200 ELSE 503

GivesList(c) ==
  /\ At(c, "routing") /\ Request(c).route \in {"lists", "peers", "client"}
  /\ Answers(c, Response(ListStatus(Request(c))))
  /\ UNCHANGED <<wire, answers, clients, store, attempts, content>> /\ Quiet

-----------------------------------------------------------------------------
(* The values an application keeps: read by its own pages, and changed by  *)
(* those of a local client.                                                *)

ReadsValues(c) ==
  LET request == Request(c)
  IN /\ At(c, "routing") /\ request.route \in {"values", "value"}
     /\ \/ ~OwnPage(request) /\ Answers(c, Response(403)) /\ UNCHANGED store
        \/ /\ OwnPage(request) /\ Reads
           /\ Answers(c, CASE ~Readable -> Response(500)
                           [] Readable /\ request.route = "values" -> Response(200)
                           [] Readable /\ ~Held(request.key) -> Response(404)
                           [] OTHER -> [Response(200) EXCEPT !.value = Current[request.key]])
     /\ UNCHANGED <<wire, answers, clients, attempts, content>> /\ Quiet

ChecksChange(c) ==
  LET request == Request(c)
  IN /\ At(c, "routing") /\ request.route \in {"change", "drop"}
     /\ thread' = [thread EXCEPT ![c] =
          IF Refusal(request) # 0 THEN Answered(@, Response(Refusal(request)))
          ELSE BodyOr(@, request, "looking")]
     /\ UNCHANGED <<wire, answers, clients, store, attempts, content>> /\ Quiet

LooksFor(c, status, values, saved) ==
  /\ LooksInto(c, status, values, saved)
  /\ IF status = 0 THEN Goes(c, "saving") ELSE Answers(c, Response(status))

LooksIntoChange(c) ==
  LET request == Request(c)
      key == request.key
  IN /\ At(c, "looking")
     /\ \/ /\ request.route = "change" /\ JsonStatus(request) # 0
           /\ Answers(c, Response(JsonStatus(request))) /\ UNCHANGED store
        \/ /\ request.route = "change" /\ JsonStatus(request) = 0 /\ ValueTooLarge(request.value)
           /\ Answers(c, Response(413)) /\ UNCHANGED store
        \/ /\ request.route = "change" /\ JsonStatus(request) = 0 /\ ~ValueTooLarge(request.value)
           /\ LooksFor(c, PutStatus(request.match, key), PutValues(key, request.value),
                       IF Held(key) THEN 204 ELSE 201)
        \/ /\ request.route = "drop"
           /\ LooksFor(c, RemovalStatus(request.match, key), ValuesLess(key), 204)
     /\ UNCHANGED <<wire, answers, clients, attempts, content>> /\ Quiet

SavesChange(c) ==
  /\ At(c, "saving")
  /\ \/ /\ \E version \in Versions : Saves(c, version)
        /\ Answers(c, Response(ChangeOf(c).saved))
        /\ made' = made + 1 /\ UNCHANGED may
     \/ /\ Refuses(c) /\ UNCHANGED <<made, may>>
        /\ Answers(c, Response(IF Request(c).route = "change" THEN 413 ELSE 500))
     \/ SaveFails(c) /\ Answers(c, Response(500)) /\ May("failures") /\ UNCHANGED made
  /\ UNCHANGED <<wires, answers, clients, attempts, content, lists>>

-----------------------------------------------------------------------------
(* Files, streamed a part at a time.                                       *)

PartsOf(pieces) == {pieces[i].part : i \in DOMAIN pieces}
StreamOf(span, deadline) ==
  [pieces |-> span.pieces, whole |-> span.whole, length |-> span.length, next |-> 1, taken |-> 0,
   deadline |-> deadline, asked |-> [x \in PartsOf(span.pieces) |-> AskAgain], sending |-> FALSE]

Span(request) ==
  LET file == Files[request.file]
      range == RangeWithin(request.range, Total(file.sizes))
  IN IF Ranged(file, request.range, request.head) THEN SpanOf(file, range) ELSE WholeSpan(file)
Unsatisfiable(request) ==
  LET file == Files[request.file]
  IN /\ Ranged(file, request.range, request.head)
     /\ ~Satisfiable(RangeWithin(request.range, Total(file.sizes)))
FileStatus(request) == IF Ranged(Files[request.file], request.range, request.head) THEN 206 ELSE 200

(* A path of an application, or one into a bundle, which any client reads. *)
Bundled == {"file", "inBundle"}
Unusable(request) == IF request.route = "file" THEN 500 ELSE 400

(* What the unbundler has of the path, or has known of it instead: where   *)
(* it is not told within the wait, the client is to ask again.             *)
KnownStatus(request) ==
  LET of == Files[request.file]
      inBundle == request.route = "inBundle"
  IN CASE of.bundle \in shunned -> 404
       [] of.found = "late" -> 503
       [] of.found = "moved" \/ (of.found = "directory" /\ ~inBundle) -> 302
       [] of.found = "directory" /\ inBundle -> 200
       [] of.found = "protected" /\ inBundle -> 403
       [] of.found \in {"protected", "unusable"} -> Unusable(request)
       [] of.found = "nothing" -> 404
       [] OTHER -> 0

(* What of the wait is left once the path is resolved.                     *)
StartsFile(c) ==
  LET request == Request(c)
      file == Files[request.file]
      begun == [Response(FileStatus(request)) EXCEPT !.length = Span(request).length]
  IN /\ At(c, "routing") /\ request.route \in Bundled
     /\ IF KnownStatus(request) # 0 THEN Answers(c, Response(KnownStatus(request)))
        ELSE IF Unsatisfiable(request) THEN Answers(c, Response(416))
        ELSE IF Span(request).pieces = <<>> /\ ~WholeFile(file, 0)
        THEN Answers(c, Response(Unusable(request)))
        ELSE IF request.head \/ Span(request).pieces = <<>> THEN Answers(c, begun)
        ELSE \E deadline \in 0..WaitSeconds :
               thread' = [thread EXCEPT ![c].pc = "part", ![c].response = begun,
                                        ![c].stream = StreamOf(Span(request), deadline)]
     /\ UNCHANGED <<wire, answers, clients, store, attempts, content>> /\ Quiet

(* The answer begun is cut short, or there is none yet to begin.           *)
Fails(c, status) ==
  IF thread[c].stream.sending THEN Goes(c, "finishing")
  ELSE thread' = [thread EXCEPT ![c] = Answered([@ EXCEPT !.stream = NoStream], Response(status))]

PartNow(c) == thread[c].stream.pieces[thread[c].stream.next].part

ChecksPart(c) ==
  /\ At(c, "part")
  /\ IF PartNow(c) \in shunned THEN Fails(c, Unusable(Request(c))) ELSE Goes(c, "asking")
  /\ UNCHANGED <<wire, answers, clients, store, attempts, content>> /\ Quiet

(* _ask_ahead *)
Due(c) ==
  LET stream == thread[c].stream
      upTo == Least(stream.next + ReadAhead, Len(stream.pieces))
  IN {x \in PartsOf(SubSeq(stream.pieces, stream.next, upTo)) \ (held \cup shunned) :
        stream.asked[x] >= AskAgain}

AsksAhead(c) ==
  /\ At(c, "asking")
  /\ coming' = coming \cup Due(c)
  /\ thread' = [thread EXCEPT ![c].pc = "fetching",
       ![c].stream.asked = [x \in DOMAIN @ |-> IF x \in Due(c) THEN 0 ELSE @[x]]]
  /\ UNCHANGED <<wire, answers, clients, store, attempts, held, shunned>> /\ Quiet

(* A part is as its bundle says, and the file is, as far as it is read.    *)
Fits(c) ==
  LET stream == thread[c].stream
      file == Files[Request(c).file]
      taken == stream.taken + Length[PartNow(c)]
  IN /\ IsOfItsSize(stream.pieces[stream.next])
     /\ stream.whole => /\ NotTooMany(file, taken)
                        /\ stream.next = Len(stream.pieces) => WholeFile(file, taken)

ReadOn(c) ==
  [thread[c].stream EXCEPT !.next = @ + 1, !.taken = @ + Length[PartNow(c)]]

Remains(stream) == stream.next <= Len(stream.pieces)

(* A chunk is the last of an answer, or another part is waited for anew.   *)
After(t, closes) ==
  IF Remains(t.stream)
  THEN [t EXCEPT !.pc = "part", !.stream.deadline = WaitSeconds, !.stream.sending = TRUE]
  ELSE [t EXCEPT !.pc = IF closes THEN "finishing" ELSE "reading",
                 !.stream = NoStream, !.response = Response(0), !.read = TRUE]

LastAnswer(c) == Last(answers[c])

SendsOn(c, chunk) ==
  /\ thread' = [thread EXCEPT ![c] = After([@ EXCEPT !.stream = ReadOn(c)], LastAnswer(c).close)]
  /\ LET grown == [LastAnswer(c) EXCEPT !.bytes = @ \o chunk, !.done = ~Remains(ReadOn(c))]
     IN answers' = [answers EXCEPT ![c] = Append(Front(@), grown)]

FetchesPart(c) ==
  LET stream == thread[c].stream
      chunk == SentOf(stream.pieces[stream.next])
  IN /\ At(c, "fetching") /\ PartNow(c) \in held
     /\ \/ ~Fits(c) /\ Fails(c, Unusable(Request(c))) /\ UNCHANGED answers
        \/ /\ Fits(c) /\ ~stream.sending /\ UNCHANGED answers
           /\ thread' = [thread EXCEPT ![c] =
                Answered([@ EXCEPT !.stream = ReadOn(c)], [@.response EXCEPT !.bytes = chunk])]
        \/ Fits(c) /\ stream.sending /\ SendsOn(c, chunk)
        \/ Fits(c) /\ stream.sending /\ gone[c] /\ Goes(c, "finishing") /\ UNCHANGED answers
     /\ UNCHANGED <<wire, clients, store, attempts, content>> /\ Quiet

MissesPart(c) ==
  /\ At(c, "fetching") /\ PartNow(c) \notin held
  /\ IF thread[c].stream.deadline = 0 THEN Fails(c, 503) ELSE Goes(c, "pausing")
  /\ UNCHANGED <<wire, answers, clients, store, attempts, content>> /\ Quiet

-----------------------------------------------------------------------------
(* An answer is counted for each peer verified, and sent.                  *)

CountsAnswer(c) ==
  /\ At(c, "serving")
  /\ \/ \E n \in thread[c].telling :
          /\ Served(n)
          /\ thread' = [thread EXCEPT ![c].telling = @ \ {n}, ![c].kept = @ /\ KeptOpen(n)]
     \/ thread[c].telling = {} /\ Goes(c, "sending") /\ UNCHANGED clients
  /\ UNCHANGED <<wire, answers, store, attempts, content>> /\ Quiet

(* Mutant of IsLast: what is left unread of a request is read on as one.   *)
IsLastUnlessUnread(t) == t.response.close \/ ~t.kept \/ t.response.length = Unknown

IsLast(t) ==
  \/ t.response.close \/ ~t.read \/ ~t.kept \/ t.response.length = Unknown

Answer(t) ==
  [to |-> t.at, status |-> t.response.status, value |-> t.response.value,
   bytes |-> t.response.bytes, length |-> t.response.length,
   close |-> IsLast(t), done |-> ~Remains(t.stream)]

SendsAnswer(c) ==
  /\ At(c, "sending")
  /\ \/ /\ answers' = [answers EXCEPT ![c] = Append(@, Answer(thread[c]))]
        /\ thread' = [thread EXCEPT ![c] = After(@, IsLast(@))]
     \/ gone[c] /\ Goes(c, "finishing") /\ UNCHANGED answers
  /\ UNCHANGED <<wire, clients, store, attempts, content>> /\ Quiet

(* finish: the connection is counted no longer for any peer.               *)
Finishes(c) ==
  /\ At(c, "finishing")
  /\ \/ \E n \in thread[c].signers :
          /\ Closed(c, n)
          /\ thread' = [thread EXCEPT ![c] =
               [@ EXCEPT !.signers = thread[c].signers \ {n}, !.then = "finishing",
                         !.pc = IF connections[n] > 1 THEN "finishing" ELSE "naming"]]
     \/ /\ thread[c].signers = {}
        /\ thread' = [thread EXCEPT ![c] = [NewThread EXCEPT !.pc = "closed"]]
        /\ UNCHANGED clients
  /\ UNCHANGED <<wire, answers, store, attempts, content>> /\ Quiet

-----------------------------------------------------------------------------
(* What else happens.                                                      *)

Waiting(t) == t.pc \in {"part", "asking", "fetching", "pausing"}
Later(t) ==
  [t EXCEPT !.pc = IF @ = "pausing" THEN "asking" ELSE @,
            !.stream.deadline = IF @ > 0 THEN @ - 1 ELSE 0,
            !.stream.asked = [x \in DOMAIN @ |-> IF @[x] < AskAgain THEN @[x] + 1 ELSE @[x]]]

Tick ==
  /\ thread' = [c \in Connections |-> IF Waiting(thread[c]) THEN Later(thread[c]) ELSE thread[c]]
  /\ uses' = Aged
  /\ <<thread', uses'>> # <<thread, uses>>
  /\ UNCHANGED <<wires, answers, connections, naming, named, store, attempts, content, lists, made, may>>

Others == UNCHANGED <<wires, answers, thread, clients, store, attempts, told, made>>

Arrives(x) ==
  /\ x \in coming
  /\ coming' = coming \ {x}
  /\ held' = IF x \in shunned THEN held ELSE held \cup {x}
  /\ UNCHANGED <<shunned, may, derived>> /\ Others

Shuns(x) ==
  /\ x \notin shunned /\ May("shuns")
  /\ shunned' = shunned \cup {x}
  /\ UNCHANGED <<held, coming, derived>> /\ Others

Deletes(x) ==
  /\ x \in held
  /\ \/ x \in shunned /\ UNCHANGED may
     \/ x \notin shunned /\ May("evictions")
  /\ held' = held \ {x}
  /\ UNCHANGED <<shunned, coming, derived>> /\ Others

(* What is asked for is found nowhere.                                     *)
Misses(x) ==
  /\ x \in coming /\ May("losses")
  /\ coming' = coming \ {x}
  /\ UNCHANGED <<held, shunned, derived>> /\ Others

(* The module that derives a list replaces its file.                       *)
Derives ==
  /\ ~derived /\ May("derives") /\ derived' = TRUE
  /\ UNCHANGED content /\ Others

-----------------------------------------------------------------------------
(* A client that asks nothing does not connect.                            *)
Init ==
  \E start \in Starts :
    /\ strict = start.strict
    /\ script = start.script
    /\ held = start.held
    /\ may = start.may
    /\ StoreInit(start.stored)
    /\ ClientsInit
    /\ sent = [c \in Connections |-> 0]
    /\ wire = [c \in Connections |-> <<>>]
    /\ gone = [c \in Connections |-> script[c] = <<>>]
    /\ answers = [c \in Connections |-> <<>>]
    /\ thread = [c \in Connections |->
         IF gone[c] THEN [NewThread EXCEPT !.pc = "closed"] ELSE NewThread]
    /\ made = Size(start.stored.values)
    /\ attempts = <<>> /\ shunned = {} /\ coming = {}
    /\ told = {} /\ derived = FALSE

Serves(c) ==
  \/ ReadsHead(c) \/ ReadsEnd(c) \/ ReadsBody(c) \/ BodyEnds(c)
  \/ Authenticates(c) \/ CountsSigner(c) \/ NamesPeers(c)
  \/ FindsNoRoute(c) \/ ReadsData(c) \/ ReadsUpload(c) \/ TakesUpload(c)
  \/ ReadsList(c) \/ TakesList(c) \/ GivesList(c)
  \/ ReadsValues(c) \/ ChecksChange(c) \/ LooksIntoChange(c) \/ SavesChange(c)
  \/ StartsFile(c) \/ ChecksPart(c) \/ AsksAhead(c) \/ FetchesPart(c) \/ MissesPart(c)
  \/ CountsAnswer(c) \/ SendsAnswer(c) \/ Finishes(c)

AllClosed == (\A c \in Connections : At(c, "closed")) /\ UNCHANGED vars

Next ==
  \/ \E c \in Connections : Sends(c) \/ Leaves(c) \/ Serves(c)
  \/ \E x \in Content : Arrives(x) \/ Shuns(x) \/ Deletes(x) \/ Misses(x)
  \/ Tick \/ Derives
  \/ AllClosed

Spec == Init /\ [][Next]_vars

-----------------------------------------------------------------------------
(* Properties.                                                             *)

(* The counts, the uses and the list last named are of the same peers      *)
(* whenever no list is on its way out: opened and closed publish under the *)
(* lock, so that no list overtakes another (inbound_peers.py).             *)
NamedAsConnected ==
  LockFree =>
    /\ named = DOMAIN connections /\ Clients = DOMAIN connections
    /\ \A n \in DOMAIN connections :
         connections[n] = Cardinality({c \in Connections : n \in thread[c].signers})

(* A client is to be closed only if as many as are kept stay without it,   *)
(* and half of those staying hold more than it (ClientKeeping.served).     *)
ClosesFewAndPoor ==
  \A n \in Clients \cap Clients' :
    uses'[n].closing /\ ~uses[n].closing =>
      LET staying == {m \in Clients' : ~uses'[m].closing}
          richer == {m \in staying : Kismet[m] > Kismet[n]}
      IN /\ Cardinality(staying) >= KeepCount
         /\ 2 * Cardinality(richer) >= Cardinality(staying) + 1

(* Both, of every step: which peers the server says are connected once it  *)
(* is taken, and which it keeps.                                           *)
ClientsKept == [][NamedAsConnected' /\ ClosesFewAndPoor]_vars

(* What a range of a file is, said of all of its bytes at once.            *)
WholeOf(file) == FoldLeft(LAMBDA bytes, part : bytes \o Bytes(part), <<>>, file.parts)
BytesAsked(request, status) ==
  LET whole == WholeOf(Files[request.file])
      size == Len(whole)
      first == IF request.range.form = "suffix" THEN size - request.range.last
               ELSE request.range.first
      last == IF request.range.form = "suffix" \/ request.range.last = Unknown THEN size - 1
              ELSE request.range.last
      inRange == {i \in 1..size : first <= i - 1 /\ i - 1 <= last}
  IN IF status = 200 \/ inRange = {} THEN whole
     ELSE SubSeq(whole, Min(inRange), Max(inRange))

(* A bundle may say sizes its parts do not have: nothing is then said of   *)
(* which bytes a range of it is.                                           *)
SaysItsSizes(file) == \A i \in DOMAIN file.sizes : file.sizes[i] = Length[file.parts[i]]

IsOfFile(answer, request) ==
  LET asked == BytesAsked(request, answer.status)
  IN /\ answer.status = 200 \/ SaysItsSizes(Files[request.file]) => IsPrefix(answer.bytes, asked)
     /\ answer.status = 206 /\ SaysItsSizes(Files[request.file]) /\ answer.done =>
          answer.bytes = asked
     /\ answer.status = 200 /\ answer.done =>
          answer.bytes = asked /\ Files[request.file].hash # "other"

(* Each answer is of the request sent in its turn, and never of a body     *)
(* taken for one; only the last may close, or be cut short; and a client   *)
(* that stays is closed only after an answer that tells it so, or was cut  *)
(* short (server.py _handle, _send, _stream).                              *)
InTurn ==
  \A c \in Connections :
    /\ \A i \in DOMAIN answers[c] :
         LET answer == answers[c][i]
         IN answer.to = i /\ (answer.close \/ ~answer.done => i = Len(answers[c]))
    /\ At(c, "closed") /\ ~gone[c] =>
         answers[c] # <<>> /\ (LastAnswer(c).close \/ ~LastAnswer(c).done)

(* No answer is longer than it says, and one that is done is as long; a    *)
(* file's is the bytes asked of it, whole and checked, or cut short        *)
(* (file_stream.py).                                                       *)
Exact ==
  \A c \in Connections : \A i \in DOMAIN answers[c] :
    LET answer == answers[c][i]
        request == Asked(c, i)
    IN /\ answer.length # Unknown /\ ~request.head =>
            /\ Len(answer.bytes) <= answer.length
            /\ answer.done => Len(answer.bytes) = answer.length
       /\ /\ request.route \in Bundled /\ answer.status \in {200, 206} /\ ~request.head
          /\ Files[request.file].found = "file"
          => IsOfFile(answer, request)

(* Both: what a client reads on its connection is what it asked, in turn   *)
(* and to the byte.                                                        *)
AnswersInStep == InTurn /\ Exact

(* Changes made of what was read, under If-Match, are never lost: the      *)
(* values held are what as many additions make them; and a file that       *)
(* cannot be read is never replaced (ApplicationStore.put, _save).         *)
OnlyAdds ==
  \A c \in Connections : \A k \in DOMAIN script[c] :
    /\ script[c][k].route # "drop"
    /\ script[c][k].route = "change" => script[c][k].of # 0
AsManyAsAdded == OnlyAdds /\ stored.usable => Size(stored.values) = made
NoneOverwritten == [][AsManyAsAdded' /\ (~stored.usable => UNCHANGED stored)]_vars

=============================================================================
