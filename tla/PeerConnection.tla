---------------------------- MODULE PeerConnection -----------------------------
(***************************************************************************)
(* One connection to a peer (connections/peer_connection.py), the parser of *)
(* what arrives on it (response_parser.py), and the exchanges made over it  *)
(* (peer_session.py): callers that queue requests, a thread that sends      *)
(* them, a thread that receives and matches responses by their order alone. *)
(*                                                                          *)
(* A response arrives in two halves, its head and the rest. `sent' and      *)
(* `got' count the halves of `stream' the peer has sent and this node has   *)
(* read, so the oldest is whole once got >= 2.                              *)
(***************************************************************************)
EXTENDS Integers, Sequences, FiniteSets

CONSTANTS Requests, Callers,
          Batch,      \* of each caller, the requests of its exchange, in order
          Timeout,    \* request_timeout_seconds
          LinkStarts      \* what peers and callers may do in a run: see `may'

\* Each request is one call of request: none is made twice.
ASSUME BatchAssumption ==
    /\ Batch \in [Callers -> (Seq(Requests) \ {<<>>})]
    /\ \A t, u \in Callers : \A i \in DOMAIN Batch[t], j \in DOMAIN Batch[u] :
         Batch[t][i] = Batch[u][j] => t = u /\ i = j
ASSUME TimeoutAssumption == Timeout \in Nat \ {0}

Framings == {"sized", "untilClose", "malformed"}
NoRequest == "none"
Responses == [of : Requests \cup {NoRequest}, framing : Framings, closes : BOOLEAN, signed : BOOLEAN]
Futures == [is : {"unmade", "pending", "failed", "answered"}, of : Requests \cup {NoRequest},
            whole : BOOLEAN, signed : BOOLEAN]

VARIABLES
    waiting,      \* _waiting: requests whose responses have not arrived, in order
    outgoing,     \* _outgoing: requests the send thread has still to take
    closed,       \* _closed
    turnedAway,   \* _turned_away
    failure,      \* _failure: "none", or of what kind
    closer,       \* who has closed the connection and has still to wake the rest
    woken,        \* whether None is on _outgoing and the socket is shut down
    idle,         \* seconds since _last_progress, up to Timeout
    sender, sending,          \* the send thread, and what it is sending
    receiver, patience,       \* the receive thread, and how long select still waits
    toPeer, stream, sent, got, hungUp,    \* the socket: asked, answered, and whether the peer has closed it
    future,       \* of each request: whether it is unmade, pending, failed or answered, and the answer
    callers,      \* of each caller what it is doing, and at which request
    may,          \* how often the peer may send something unasked, malformed, forged..., or close
    unasked,      \* history: how many responses the peer has sent unasked
    age           \* history: seconds each request has waited, up to Timeout

line == <<waiting, outgoing>>
state == <<closed, turnedAway, failure, closer, woken>>
socket == <<toPeer, stream, sent, got, hungUp>>
linkVars == <<waiting, outgoing, closed, turnedAway, failure, closer, woken, idle, sender, sending,
          receiver, patience, toPeer, stream, sent, got, hungUp, future, callers, may, unasked, age>>

Settled(how) == [is |-> how, of |-> NoRequest, whole |-> FALSE, signed |-> FALSE]
AnsweredWith(response, whole) == [is |-> "answered", of |-> response.of, whole |-> whole, signed |-> response.signed]
Min2(m, n) == IF m <= n THEN m ELSE n
Spent(kind) == may[kind] > 0 /\ may' = [may EXCEPT ![kind] = @ - 1]

LinkInit ==
    /\ waiting = <<>> /\ outgoing = <<>>
    /\ closed = FALSE /\ turnedAway = FALSE /\ failure = "none" /\ closer = "none" /\ woken = FALSE
    /\ idle = 0
    /\ sender = "get" /\ sending = <<>>
    /\ receiver = "check" /\ patience = 0
    /\ toPeer = <<>> /\ stream = <<>> /\ sent = 0 /\ got = 0 /\ hungUp = FALSE
    /\ future = [r \in Requests |-> Settled("unmade")]
    /\ callers = [t \in Callers |-> [doing |-> "ask", at |-> 1]]
    /\ may \in LinkStarts
    /\ unasked = 0
    /\ age = [r \in Requests |-> 0]

--------------------------------------------------------------------------------
Fail_Unheard(who, why, away) ==
    IF closed THEN UNCHANGED state
    ELSE closed' = TRUE /\ turnedAway' = away /\ failure' = why /\ UNCHANGED <<closer, woken>>

\* _fail: the first to close the connection says why, and then wakes the other threads. Until it
\* has, it does nothing else.
Fail(who, why, away) ==
    IF closed THEN UNCHANGED state
    ELSE /\ closed' = TRUE /\ turnedAway' = away /\ failure' = why /\ closer' = who
         /\ UNCHANGED woken

Wakes == /\ closer # "none" /\ woken' = TRUE /\ closer' = "none"
         /\ UNCHANGED <<line, closed, turnedAway, failure, idle, sender, sending, receiver,
                        patience, socket, future, callers, may, unasked, age>>

HasWoken(who) == closer # who

Queue_Ahead(r) ==
    /\ waiting' = Append(waiting, r)
    /\ outgoing' = <<r>> \o outgoing
    /\ idle' = IF waiting = <<>> THEN 0 ELSE idle
    /\ future' = [future EXCEPT ![r] = Settled("pending")]
Queue_StillIdle(r) ==
    /\ waiting' = Append(waiting, r) /\ outgoing' = Append(outgoing, r)
    /\ UNCHANGED idle
    /\ future' = [future EXCEPT ![r] = Settled("pending")]

\* request: queued to wait and to be sent under one lock, unless the connection has closed.
Queue(r) ==
    /\ waiting' = Append(waiting, r)
    /\ outgoing' = Append(outgoing, r)
    /\ idle' = IF waiting = <<>> THEN 0 ELSE idle
    /\ future' = [future EXCEPT ![r] = Settled("pending")]

--------------------------------------------------------------------------------
\* A caller's exchange: it makes every request, then takes the responses in turn. One that is not
\* the peer's closes the connection.
At(t) == Batch[t][callers[t].at]
Does(t, doing, at) == callers' = [callers EXCEPT ![t] = [doing |-> doing, at |-> at]]

Asks_Closed(t) ==
    /\ callers[t].doing = "ask"
    /\ IF receiver = "finished"
       THEN Does(t, "raised", 1) /\ UNCHANGED <<line, idle, future>>
       ELSE /\ IF callers[t].at = Len(Batch[t]) THEN Does(t, "take", 1) ELSE Does(t, "ask", callers[t].at + 1)
            /\ Queue(At(t))
    /\ UNCHANGED <<state, sender, sending, receiver, patience, socket, may, unasked, age>>

Asks(t) ==
    /\ callers[t].doing = "ask"
    /\ IF closed
       THEN Does(t, "raised", 1) /\ UNCHANGED <<line, idle, future>>
       ELSE /\ IF callers[t].at = Len(Batch[t]) THEN Does(t, "take", 1) ELSE Does(t, "ask", callers[t].at + 1)
            /\ Queue(At(t))
    /\ UNCHANGED <<state, sender, sending, receiver, patience, socket, may, unasked, age>>

Verified_NoDigest(answer) == answer.signed

\* What the session's check of a response can tell: who signed it, and that all of it is there.
Verified(answer) == answer.signed /\ answer.whole

Takes(t) ==
    /\ callers[t].doing = "take" /\ future[At(t)].is \in {"answered", "failed"}
    /\ IF future[At(t)].is = "failed" THEN Does(t, "raised", 1) /\ UNCHANGED state
       ELSE IF ~Verified(future[At(t)]) THEN Does(t, "close", 1) /\ Fail(t, "closed", FALSE)
       ELSE /\ IF callers[t].at = Len(Batch[t]) THEN Does(t, "returned", 1)
               ELSE Does(t, "take", callers[t].at + 1)
            /\ UNCHANGED state
    /\ UNCHANGED <<line, idle, sender, sending, receiver, patience, socket, future, may, unasked, age>>

\* close returns once the receive thread is done.
Closes(t) ==
    /\ callers[t].doing = "close" /\ HasWoken(t) /\ receiver = "finished"
    /\ Does(t, "raised", 1)
    /\ UNCHANGED <<line, state, idle, sender, sending, receiver, patience, socket, future, may, unasked, age>>

\* The node closes it for a reason of its own: a node no longer trusted, or the node stopping.
NodeCloses ==
    /\ ~closed /\ Spent("closes") /\ Fail("node", "closed", FALSE)
    /\ UNCHANGED <<line, idle, sender, sending, receiver, patience, socket, future, callers, unasked, age>>

--------------------------------------------------------------------------------
\* _send_loop: what is taken once the connection has closed is not sent.
SenderTakes ==
    /\ sender = "get" /\ outgoing # <<>>
    /\ outgoing' = Tail(outgoing)
    /\ IF closed THEN sender' = "ended" /\ UNCHANGED sending
       ELSE sender' = "sending" /\ sending' = <<Head(outgoing)>>
    /\ UNCHANGED <<waiting, state, idle, receiver, patience, socket, future, callers, may, unasked, age>>

SenderTakesNone ==
    /\ sender = "get" /\ outgoing = <<>> /\ woken
    /\ sender' = "ended"
    /\ UNCHANGED <<line, state, idle, sending, receiver, patience, socket, future, callers, may, unasked, age>>

Sends ==
    /\ sender = "sending" /\ ~woken
    /\ toPeer' = toPeer \o sending
    /\ sending' = <<>> /\ idle' = 0 /\ sender' = "get"
    /\ UNCHANGED <<line, state, receiver, patience, stream, sent, got, hungUp, future, callers, may, unasked, age>>

SendFails ==
    /\ sender = "sending"
    /\ \/ (woken \/ hungUp) /\ UNCHANGED may
       \/ Spent("stalls")
    /\ Fail("sender", "unsent", FALSE)
    /\ sending' = <<>> /\ sender' = "failed"
    /\ UNCHANGED <<line, idle, receiver, patience, socket, future, callers, unasked, age>>

SenderEnds ==
    /\ sender = "failed" /\ HasWoken("sender")
    /\ sender' = "ended"
    /\ UNCHANGED <<line, state, idle, sending, receiver, patience, socket, future, callers, may, unasked, age>>

--------------------------------------------------------------------------------
\* _receive_loop, with _time_left, to where select is called. None waiting, it waits its full time.
Checks ==
    /\ receiver = "check"
    /\ \/ /\ closed /\ receiver' = "failing" /\ UNCHANGED <<state, patience>>
       \/ /\ ~closed /\ waiting # <<>> /\ idle >= Timeout
          /\ Fail("receiver", "timeout", FALSE) /\ receiver' = "failing" /\ UNCHANGED patience
       \/ /\ ~closed /\ (waiting = <<>> \/ idle < Timeout)
          /\ receiver' = "select"
          /\ patience' = IF waiting = <<>> THEN Timeout ELSE Timeout - idle
          /\ UNCHANGED state
    /\ UNCHANGED <<line, idle, sender, sending, socket, future, callers, may, unasked, age>>

\* The receive thread is in select and nothing has come of it.
Quiet == receiver = "select" /\ got = sent /\ ~hungUp /\ ~woken

SelectTimesOut ==
    /\ Quiet /\ patience = 0
    /\ receiver' = "check"
    /\ UNCHANGED <<line, state, idle, sender, sending, patience, socket, future, callers, may, unasked, age>>

ReceivesMore ==
    /\ receiver = "select" /\ got < sent
    /\ got' = sent /\ idle' = 0 /\ receiver' = "deliver" /\ patience' = 0
    /\ UNCHANGED <<line, state, sender, sending, toPeer, stream, sent, hungUp, future, callers, may, unasked, age>>

ReceivesEnd ==
    /\ receiver = "select" /\ got = sent /\ (hungUp \/ woken)
    /\ receiver' = "endOfStream" /\ patience' = 0
    /\ UNCHANGED <<line, state, idle, sender, sending, socket, future, callers, may, unasked, age>>

\* recv raises, the peer having reset the connection.
ReceiveFails ==
    /\ receiver = "select" /\ hungUp
    /\ Fail("receiver", "reset", FALSE) /\ receiver' = "failing" /\ patience' = 0
    /\ UNCHANGED <<line, idle, sender, sending, socket, future, callers, may, unasked, age>>

\* What the parser makes of what has come: the head of the oldest response is there; it breaks the
\* rules (a bad status or header, framed two ways, too long); all of a body of known size is there, by
\* its length or its last chunk; or the body is all that comes until the peer closes the connection.
HeadArrived == got > 0
Malformed == HeadArrived /\ Head(stream).framing = "malformed"
Whole == got >= 2 /\ Head(stream).framing = "sized"
UntilClose == HeadArrived /\ Head(stream).framing = "untilClose"

\* _complete: the oldest waiting is answered with the oldest response.
Complete(whole) ==
    /\ waiting' = Tail(waiting) /\ stream' = Tail(stream)
    /\ future' = [future EXCEPT ![Head(waiting)] = AnsweredWith(Head(stream), whole)]
    /\ IF Head(stream).closes \/ Head(stream).framing = "untilClose"
       THEN Fail("receiver", "closed", TRUE) ELSE UNCHANGED state
    /\ age' = [age EXCEPT ![Head(waiting)] = 0]

\* next_response has none to give.
NotYet == ~Malformed /\ ~Whole

\* _deliver, one response at a time.
Delivers ==
    /\ receiver = "deliver" /\ HasWoken("receiver") /\ ~closed
    /\ waiting # <<>> /\ Whole
    /\ Complete(TRUE)
    /\ got' = got - 2 /\ sent' = sent - 2
    /\ UNCHANGED <<outgoing, idle, sender, sending, receiver, patience, toPeer, hungUp, callers, may, unasked>>

DeliversNoMore ==
    /\ receiver = "deliver" /\ HasWoken("receiver")
    /\ closed \/ (IF waiting = <<>> THEN ~HeadArrived ELSE NotYet)
    /\ receiver' = "check"
    /\ UNCHANGED <<line, state, idle, sender, sending, patience, socket, future, callers, may, unasked, age>>

\* A response that is malformed, or that nothing asked for.
DeliveryFails ==
    /\ receiver = "deliver" /\ ~closed /\ HeadArrived
    /\ waiting = <<>> \/ Malformed
    /\ Fail("receiver", "malformed", FALSE) /\ receiver' = "failing"
    /\ UNCHANGED <<line, idle, sender, sending, patience, socket, future, callers, may, unasked, age>>

\* _end_of_stream, whether it was the peer that closed the connection or not.
EndsStream ==
    /\ receiver = "endOfStream"
    /\ IF waiting = <<>> \/ ~HeadArrived
       THEN UNCHANGED <<waiting, state, stream, sent, got, future, age>>
       ELSE IF UntilClose
       THEN Complete(got = 2) /\ got' = 0 /\ sent' = 0
       ELSE Fail("receiver", "malformed", FALSE) /\ UNCHANGED <<waiting, stream, sent, got, future, age>>
    /\ receiver' = "failing"
    /\ UNCHANGED <<outgoing, idle, sender, sending, patience, toPeer, hungUp, callers, may, unasked>>

\* The end of _receive_loop, however it came to it: first closed, then every request left fails.
FailsRest ==
    /\ receiver = "failing"
    /\ Fail("receiver", "closed", FALSE) /\ receiver' = "failWaiting"
    /\ UNCHANGED <<line, idle, sender, sending, patience, socket, future, callers, may, unasked, age>>

FailsWaiting ==
    /\ receiver = "failWaiting" /\ HasWoken("receiver")
    /\ waiting' = <<>>
    /\ future' = [r \in Requests |->
                    IF \E i \in DOMAIN waiting : waiting[i] = r THEN Settled("failed") ELSE future[r]]
    /\ receiver' = "join" /\ age' = [r \in Requests |-> 0]
    /\ UNCHANGED <<outgoing, state, idle, sender, sending, patience, socket, callers, may, unasked>>

Finishes ==
    /\ receiver = "join" /\ sender = "ended"
    /\ receiver' = "finished"
    /\ toPeer' = <<>> /\ stream' = <<>> /\ sent' = 0 /\ got' = 0
    /\ UNCHANGED <<line, state, idle, sender, sending, patience, hungUp, future, callers, may, unasked, age>>

--------------------------------------------------------------------------------
\* The peer answers what reaches it in order: the head of a response, then the rest of it. It may
\* say that it closes the connection after it, frame it by the close, or get it wrong.
Reached == ~hungUp /\ ~woken
Between == sent % 2 = 0
LastSaid == stream[Len(stream)]
Open == /\ Reached
        /\ stream # <<>> => ~LastSaid.closes /\ LastSaid.framing # "untilClose"

Says(response) == stream' = Append(stream, response) /\ sent' = sent + 1

PeerAnswers ==
    /\ toPeer # <<>> /\ Between /\ Open
    /\ toPeer' = Tail(toPeer)
    /\ \/ Says([of |-> Head(toPeer), framing |-> "sized", closes |-> FALSE, signed |-> TRUE]) /\ UNCHANGED may
       \/ Spent("turns") /\ Says([of |-> Head(toPeer), framing |-> "sized", closes |-> TRUE, signed |-> TRUE])
       \/ Spent("frames") /\ Says([of |-> Head(toPeer), framing |-> "untilClose", closes |-> FALSE, signed |-> TRUE])
       \/ Spent("forges") /\ Says([of |-> Head(toPeer), framing |-> "sized", closes |-> FALSE, signed |-> FALSE])
       \/ Spent("garbles") /\ Says([of |-> Head(toPeer), framing |-> "malformed", closes |-> FALSE, signed |-> TRUE])
    /\ UNCHANGED <<line, state, idle, sender, sending, receiver, patience, got, hungUp, future, callers, unasked, age>>

PeerContinues ==
    /\ ~Between /\ Reached
    /\ sent' = sent + 1
    /\ UNCHANGED <<line, state, idle, sender, sending, receiver, patience, toPeer, stream, got, hungUp, future,
                   callers, may, unasked, age>>

PeerSpeaksUnasked ==
    /\ Between /\ Open /\ Spent("unasked")
    /\ Says([of |-> NoRequest, framing |-> "sized", closes |-> FALSE, signed |-> TRUE])
    /\ unasked' = unasked + 1
    /\ UNCHANGED <<line, state, idle, sender, sending, receiver, patience, toPeer, got, hungUp, future, callers, age>>

\* The peer closes the connection, having said that it would, or not.
PeerHangsUp ==
    /\ Reached
    /\ \/ stream # <<>> /\ Between /\ (LastSaid.closes \/ LastSaid.framing = "untilClose") /\ UNCHANGED may
       \/ Spent("hangs")
    /\ hungUp' = TRUE
    /\ UNCHANGED <<line, state, idle, sender, sending, receiver, patience, toPeer, stream, sent, got, future,
                   callers, unasked, age>>

\* Seconds pass as the receive thread waits; what it does when woken takes none.
SecondPasses ==
    /\ Quiet /\ patience > 0
    /\ idle' = Min2(idle + 1, Timeout)
    /\ patience' = patience - 1
    /\ age' = [r \in Requests |-> IF future[r].is = "pending" THEN Min2(age[r] + 1, Timeout) ELSE age[r]]
    /\ UNCHANGED <<line, state, sender, sending, receiver, socket, future, callers, may, unasked>>

--------------------------------------------------------------------------------
Caller(t) == Asks(t) \/ Takes(t) \/ Closes(t)
Sender == SenderTakes \/ SenderTakesNone \/ Sends \/ SendFails \/ SenderEnds
Receiver == \/ Checks \/ SelectTimesOut \/ ReceivesMore \/ ReceivesEnd \/ ReceiveFails \/ Delivers \/ DeliversNoMore
            \/ DeliveryFails \/ EndsStream \/ FailsRest \/ FailsWaiting \/ Finishes
Peer == PeerAnswers \/ PeerContinues \/ PeerSpeaksUnasked \/ PeerHangsUp

LinkNext == (\E t \in Callers : Caller(t)) \/ NodeCloses \/ Wakes \/ Sender \/ Receiver \/ Peer \/ SecondPasses

LinkSpec == LinkInit /\ [][LinkNext]_linkVars

\* Its threads run and time passes. Nothing is assumed of the peer.
LinkFairSpec == /\ LinkSpec /\ WF_linkVars(Wakes) /\ WF_linkVars(Sender) /\ WF_linkVars(Receiver) /\ WF_linkVars(SecondPasses)
            /\ \A t \in Callers : WF_linkVars(Caller(t))

--------------------------------------------------------------------------------
LineTypes == waiting \in Seq(Requests) /\ outgoing \in Seq(Requests)
StateTypes ==
    /\ closed \in BOOLEAN /\ turnedAway \in BOOLEAN /\ woken \in BOOLEAN
    /\ failure \in {"none", "timeout", "malformed", "unsent", "reset", "closed"}
    /\ closer \in Callers \cup {"none", "node", "sender", "receiver"}
ThreadTypes ==
    /\ idle \in 0..Timeout /\ patience \in 0..Timeout
    /\ sender \in {"get", "sending", "failed", "ended"} /\ sending \in Seq(Requests)
    /\ receiver \in {"check", "select", "deliver", "endOfStream", "failing", "failWaiting", "join", "finished"}
SocketTypes ==
    /\ toPeer \in Seq(Requests) /\ stream \in Seq(Responses)
    /\ sent \in Nat /\ got \in Nat /\ hungUp \in BOOLEAN
OutcomeTypes ==
    /\ future \in [Requests -> Futures]
    /\ callers \in [Callers -> [doing : {"ask", "take", "close", "returned", "raised"}, at : Nat \ {0}]]
    /\ unasked \in Nat /\ age \in [Requests -> 0..Timeout]
TypeOK == LineTypes /\ StateTypes /\ ThreadTypes /\ SocketTypes /\ OutcomeTypes

\* The line of requests is what waits, and it is open until the connection closes.
Line == INSTANCE RequestLine WITH
    line <- waiting, outcome <- [r \in Requests |-> future[r].is], open <- ~closed

\* Requests are answered in the order they were made, none made once the connection has closed, and
\* none answered after one has failed: request queues under the lock that _fail takes.
ImplementsLine == Line!Spec

\* A peer that says nothing unasked has each of its responses matched with the request it answers,
\* though they are matched by order alone, three queues and two threads after the request was made.
\* A response is given as whole only if it is, but for one framed by the close of the connection
\* (_end_of_stream); an exchange that returns (PeerSession.exchange) has only whole ones.
OwnAnswers == \A r \in Requests : future[r].is = "answered" => future[r].of = r
ExchangedWhole == \A t \in Callers : callers[t].doing = "returned" =>
    \A i \in DOMAIN Batch[t] : LET answer == future[Batch[t][i]] IN
        answer.is = "answered" /\ answer.whole /\ answer.signed
AnswersTrue == (unasked = 0 => OwnAnswers) /\ ExchangedWhole

\* Every exchange comes to its end, and so do both threads once the connection has closed, whatever
\* the peer does or fails to do; and nothing times out before it has been given the whole timeout,
\* however long the connection was idle before the request was made (request sets _last_progress;
\* _time_left).
EveryEnds == /\ [][failure = "none" /\ failure' = "timeout" => age[Head(waiting)] >= Timeout]_linkVars
             /\ <>(\A t \in Callers : callers[t].doing \in {"returned", "raised"})
             /\ closed ~> receiver = "finished"
================================================================================
