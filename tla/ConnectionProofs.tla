---------------------------- MODULE ConnectionProofs ----------------------------
(***************************************************************************)
(* What holds of connections to peers, for any number of them. Over one,   *)
(* responses are matched with requests by order alone: each request is     *)
(* answered with its own, however the threads meet, and the connection is  *)
(* the line of requests that RequestLine describes. Over all that the      *)
(* connection manager keeps: whom it is connected to, and that what is to  *)
(* be pushed, searched for or read is carried by one, and only one.        *)
(***************************************************************************)
EXTENDS PeerConnection, Exchange, FiniteSetTheorems, SequenceTheorems, TLAPS


(* A request waits exactly while it is pending, and once. *)
Settling ==
    /\ \A i, j \in DOMAIN waiting : waiting[i] = waiting[j] => i = j
    /\ \A i \in DOMAIN waiting : future[waiting[i]].is = "pending"
    /\ \A r \in Requests : future[r].is = "pending" => \E i \in DOMAIN waiting : waiting[i] = r
    /\ receiver \in {"failWaiting", "join", "finished"} => closed

(* What is on its way lines up with what waits: first the responses that have come, then the       *)
(* requests that the peer has, the one being sent, and those still to be sent. Once the send       *)
(* thread has failed or ended the last of these stay where they are, and once the receive thread   *)
(* has failed what waited nothing is matched any more.                                              *)
Window ==
    receiver \notin {"join", "finished"} =>
        /\ Len(stream) + Len(toPeer) + Len(sending) <= Len(waiting)
        /\ \A i \in 1..Len(stream) : stream[i].of = waiting[i]
        /\ \A i \in 1..Len(toPeer) : toPeer[i] = waiting[Len(stream) + i]
        /\ \A i \in 1..Len(sending) : sending[i] = waiting[Len(stream) + Len(toPeer) + i]
        /\ sender \in {"get", "sending"} =>
             /\ Len(stream) + Len(toPeer) + Len(sending) + Len(outgoing) = Len(waiting)
             /\ \A i \in 1..Len(outgoing) :
                  outgoing[i] = waiting[Len(stream) + Len(toPeer) + Len(sending) + i]

Good(answer) == answer.is = "answered" /\ answer.whole /\ answer.signed

(* How far each exchange has come. *)
Exchanges == \A t \in Callers :
    /\ callers[t].doing \in {"ask", "take"} => callers[t].at <= Len(Batch[t])
    /\ callers[t].doing = "ask" =>
         \A i \in DOMAIN Batch[t] : i >= callers[t].at => future[Batch[t][i]].is = "unmade"
    /\ callers[t].doing = "take" =>
         \A i \in DOMAIN Batch[t] : i < callers[t].at => Good(future[Batch[t][i]])
    /\ callers[t].doing = "returned" =>
         \A i \in DOMAIN Batch[t] : Good(future[Batch[t][i]])

IInv == /\ TypeOK /\ Settling /\ Exchanges
        /\ unasked = 0 => OwnAnswers /\ Window
        /\ got <= sent /\ sent <= 2 * Len(stream)
        /\ sender # "sending" => sending = <<>>

(* What the sequences of the connection are made of. *)
LEMMA TailElements ==
    ASSUME NEW S, NEW s \in Seq(S), s # <<>>
    PROVE  /\ Tail(s) \in Seq(S) /\ Len(Tail(s)) = Len(s) - 1
           /\ \A i \in 1..Len(Tail(s)) : Tail(s)[i] = s[i + 1]
           /\ Head(s) = s[1] /\ Head(s) \in S /\ 1 \in DOMAIN s /\ Len(s) \in Nat \ {0}
OBVIOUS

LEMMA AppendElements ==
    ASSUME NEW S, NEW s \in Seq(S), NEW e \in S
    PROVE  /\ Append(s, e) \in Seq(S) /\ Len(Append(s, e)) = Len(s) + 1
           /\ \A i \in 1..Len(s) : Append(s, e)[i] = s[i]
           /\ Append(s, e)[Len(s) + 1] = e
OBVIOUS

LEMMA BatchElements ==
    ASSUME NEW t \in Callers
    PROVE  /\ Batch[t] \in Seq(Requests) /\ Batch[t] # <<>>
           /\ \A i \in 1..Len(Batch[t]) : Batch[t][i] \in Requests
           /\ Len(Batch[t]) \in Nat \ {0}
<1>1. Batch[t] \in Seq(Requests) /\ Batch[t] # <<>>
  BY BatchAssumption
<1>. QED BY <1>1

(* A caller that has still to ask, or to take an answer, is at a request of its own. *)
LEMMA AtRequest ==
    ASSUME TypeOK, Exchanges, NEW t \in Callers, callers[t].doing \in {"ask", "take"}
    PROVE  At(t) \in Requests /\ callers[t].at \in DOMAIN Batch[t]
<1>1. callers[t].at \in Nat \ {0} /\ callers[t].at <= Len(Batch[t])
  BY DEF TypeOK, OutcomeTypes, Exchanges
<1>. QED BY <1>1, BatchElements DEF At

LEMMA FailType ==
    ASSUME StateTypes, NEW who \in Callers \cup {"node", "sender", "receiver"},
           NEW why \in {"timeout", "malformed", "unsent", "reset", "closed"}, NEW away \in BOOLEAN,
           Fail(who, why, away)
    PROVE  StateTypes' /\ closed'
BY DEF StateTypes, Fail, state

LEMMA InitTypeOK == LinkInit => TypeOK
<1> SUFFICES ASSUME LinkInit PROVE TypeOK
  OBVIOUS
<1>1. LineTypes /\ SocketTypes
  <2>1. LineTypes /\ toPeer \in Seq(Requests) /\ stream \in Seq(Responses) /\ sent \in Nat /\ got \in Nat
    BY DEF LinkInit, LineTypes
  <2>2. hungUp \in BOOLEAN BY DEF LinkInit
  <2>. QED BY <2>1, <2>2 DEF SocketTypes
<1>4. StateTypes
  BY DEF LinkInit, StateTypes
<1>2. ThreadTypes
  BY TimeoutAssumption DEF LinkInit, ThreadTypes
<1>3. OutcomeTypes
  <2>1. future \in [Requests -> Futures]
    BY DEF LinkInit, Settled, Futures
  <2>2. callers \in [Callers -> [doing : {"ask", "take", "close", "returned", "raised"}, at : Nat \ {0}]]
    BY DEF LinkInit
  <2>3. unasked \in Nat /\ age \in [Requests -> 0..Timeout]
    BY TimeoutAssumption DEF LinkInit
  <2>. QED BY <2>1, <2>2, <2>3 DEF OutcomeTypes
<1>. QED BY <1>1, <1>2, <1>4, <1>3 DEF TypeOK

(* Groups of variables that a step leaves alone keep their types. *)
LEMMA LineUnchanged == ASSUME LineTypes, UNCHANGED line PROVE LineTypes'
BY DEF LineTypes, line
LEMMA StateUnchanged == ASSUME StateTypes, UNCHANGED state PROVE StateTypes'
BY DEF StateTypes, state
LEMMA ThreadsUnchanged ==
    ASSUME ThreadTypes, UNCHANGED <<idle, sender, sending, receiver, patience>> PROVE ThreadTypes'
BY DEF ThreadTypes
LEMMA SocketUnchanged == ASSUME SocketTypes, UNCHANGED socket PROVE SocketTypes'
BY DEF SocketTypes, socket
LEMMA OutcomesUnchanged ==
    ASSUME OutcomeTypes, UNCHANGED <<future, callers, unasked, age>> PROVE OutcomeTypes'
BY DEF OutcomeTypes

LEMMA DoesType ==
    ASSUME OutcomeTypes, NEW t \in Callers, NEW doing \in {"ask", "take", "close", "returned", "raised"},
           NEW at \in Nat \ {0}, Does(t, doing, at), UNCHANGED <<future, unasked, age>>
    PROVE  OutcomeTypes'
BY DEF OutcomeTypes, Does

(* Every step keeps the types: callers first, then each thread, then the peer and time. *)
LEMMA CallerType ==
    ASSUME IInv, NEW t \in Callers, Caller(t)
    PROVE  TypeOK'
<1> USE DEF IInv
<1>0. TypeOK /\ callers[t].at \in Nat \ {0}
  BY DEF TypeOK, OutcomeTypes
<1>1. CASE Asks(t)
  <2>1. At(t) \in Requests BY <1>1, AtRequest DEF Asks
  <2>2. LineTypes'
    <3>1. CASE UNCHANGED line BY <1>0, <3>1, LineUnchanged DEF TypeOK
    <3>2. CASE Queue(At(t))
      BY <1>0, <2>1, <3>2, AppendElements DEF Queue, LineTypes, TypeOK
    <3>. QED BY <1>1, <3>1, <3>2 DEF Asks
  <2>3. ThreadTypes'
    BY <1>0, <1>1, TimeoutAssumption DEF Asks, Queue, ThreadTypes, TypeOK
  <2>4. OutcomeTypes'
    <3>1. CASE UNCHANGED future
      <4>1. PICK doing \in {"ask", "take", "raised"}, at \in Nat \ {0} : Does(t, doing, at)
        BY <1>0, <1>1 DEF Asks
      <4>. QED BY <1>0, <1>1, <3>1, <4>1, DoesType DEF Asks, TypeOK
    <3>2. CASE Queue(At(t))
      <4>1. future' \in [Requests -> Futures]
        BY <1>0, <2>1, <3>2 DEF Queue, Settled, Futures, OutcomeTypes, TypeOK
      <4>2. PICK doing \in {"ask", "take", "raised"}, at \in Nat \ {0} : Does(t, doing, at)
        BY <1>0, <1>1 DEF Asks
      <4>3. callers' \in [Callers -> [doing : {"ask", "take", "close", "returned", "raised"}, at : Nat \ {0}]]
        BY <1>0, <4>2 DEF Does, OutcomeTypes, TypeOK
      <4>. QED BY <1>0, <1>1, <4>1, <4>3 DEF Asks, OutcomeTypes, TypeOK
    <3>. QED BY <1>1, <3>1, <3>2 DEF Asks
  <2>. QED BY <1>0, <1>1, <2>2, <2>3, <2>4, StateUnchanged, SocketUnchanged DEF Asks, TypeOK
<1>2. CASE Takes(t)
  <2>1. StateTypes'
    BY <1>0, <1>2, FailType, StateUnchanged DEF Takes, TypeOK
  <2>2. PICK doing \in {"take", "close", "returned", "raised"}, at \in Nat \ {0} : Does(t, doing, at)
    <3>1. callers[t].at + 1 \in Nat \ {0} /\ 1 \in Nat \ {0}
      BY <1>0
    <3>. QED BY <1>2, <3>1 DEF Takes
  <2>. QED BY <1>0, <1>2, <2>1, <2>2, DoesType, LineUnchanged, ThreadsUnchanged, SocketUnchanged DEF Takes, TypeOK
<1>3. CASE Closes(t)
  BY <1>0, <1>3, DoesType, LineUnchanged, StateUnchanged, ThreadsUnchanged, SocketUnchanged DEF Closes, TypeOK
<1>. QED BY <1>1, <1>2, <1>3 DEF Caller

LEMMA SenderType ==
    ASSUME TypeOK, Sender
    PROVE  TypeOK'
<1> USE DEF TypeOK
<1>1. CASE SenderTakes
  <2>1. Tail(outgoing) \in Seq(Requests) /\ <<Head(outgoing)>> \in Seq(Requests)
    BY <1>1, TailElements DEF SenderTakes, LineTypes
  <2>2. LineTypes' BY <1>1, <2>1 DEF SenderTakes, LineTypes
  <2>3. ThreadTypes' BY <1>1, <2>1 DEF SenderTakes, ThreadTypes
  <2>. QED BY <1>1, <2>2, <2>3, StateUnchanged, SocketUnchanged, OutcomesUnchanged DEF SenderTakes
<1>2. CASE SenderTakesNone \/ SenderEnds
  <2>1. ThreadTypes' BY <1>2 DEF SenderTakesNone, SenderEnds, ThreadTypes
  <2>. QED BY <1>2, <2>1, LineUnchanged, StateUnchanged, SocketUnchanged, OutcomesUnchanged
          DEF SenderTakesNone, SenderEnds
<1>3. CASE Sends
  <2>1. ThreadTypes' BY <1>3, TimeoutAssumption DEF Sends, ThreadTypes
  <2>2. SocketTypes' BY <1>3 DEF Sends, SocketTypes, ThreadTypes
  <2>. QED BY <1>3, <2>1, <2>2, LineUnchanged, StateUnchanged, OutcomesUnchanged DEF Sends
<1>4. CASE SendFails
  <2>1. StateTypes' BY <1>4, FailType DEF SendFails
  <2>2. ThreadTypes' BY <1>4 DEF SendFails, ThreadTypes
  <2>. QED BY <1>4, <2>1, <2>2, LineUnchanged, SocketUnchanged, OutcomesUnchanged DEF SendFails
<1>. QED BY <1>1, <1>2, <1>3, <1>4 DEF Sender

LEMMA StreamHeld ==
    ASSUME IInv, got > 0
    PROVE  stream # <<>> /\ sent \in Nat /\ got \in Nat /\ sent >= got
BY DEF IInv, TypeOK, SocketTypes

(* What completing the oldest request with the oldest response does to the types. *)
LEMMA CompleteType ==
    ASSUME TypeOK, waiting # <<>>, stream # <<>>, NEW whole \in BOOLEAN, Complete(whole),
           UNCHANGED <<outgoing, callers, unasked, toPeer, hungUp>>, sent' \in Nat, got' \in Nat
    PROVE  LineTypes' /\ StateTypes' /\ SocketTypes' /\ OutcomeTypes'
<1> USE DEF TypeOK
<1>1. Head(stream) \in Responses /\ Tail(stream) \in Seq(Responses)
  BY TailElements DEF SocketTypes
<1>2. Head(waiting) \in Requests /\ Tail(waiting) \in Seq(Requests)
  BY TailElements DEF LineTypes
<1>3. AnsweredWith(Head(stream), whole) \in Futures
  BY <1>1 DEF AnsweredWith, Responses, Futures
<1>4. StateTypes'
  BY FailType, StateUnchanged DEF Complete
<1>5. OutcomeTypes'
  <2>1. future' \in [Requests -> Futures] BY <1>2, <1>3 DEF Complete, OutcomeTypes
  <2>2. age' \in [Requests -> 0..Timeout] BY <1>2, TimeoutAssumption DEF Complete, OutcomeTypes
  <2>. QED BY <2>1, <2>2 DEF OutcomeTypes
<1>. QED BY <1>1, <1>2, <1>4, <1>5 DEF Complete, LineTypes, SocketTypes

LEMMA ReceiverType ==
    ASSUME IInv, Receiver
    PROVE  TypeOK'
<1>0. TypeOK BY DEF IInv
<1> USE DEF TypeOK
<1>1. CASE Checks
  <2>1. StateTypes' BY <1>0, <1>1, FailType, StateUnchanged DEF Checks
  <2>2. patience' \in 0..Timeout
    <3>1. patience' = patience \/ patience' = Timeout \/ (idle < Timeout /\ patience' = Timeout - idle)
      BY <1>1, Zenon DEF Checks
    <3>. QED BY <1>0, <3>1, TimeoutAssumption DEF ThreadTypes
  <2>3. ThreadTypes'
    BY <1>0, <1>1, <2>2 DEF Checks, ThreadTypes
  <2>. QED BY <1>0, <1>1, <2>1, <2>3, LineUnchanged, SocketUnchanged, OutcomesUnchanged DEF Checks
<1>2. CASE SelectTimesOut \/ ReceivesEnd \/ DeliversNoMore
  <2>1. ThreadTypes'
    BY <1>0, <1>2, TimeoutAssumption DEF SelectTimesOut, ReceivesEnd, DeliversNoMore, ThreadTypes
  <2>. QED BY <1>0, <1>2, <2>1, LineUnchanged, StateUnchanged, SocketUnchanged, OutcomesUnchanged
          DEF SelectTimesOut, ReceivesEnd, DeliversNoMore
<1>3. CASE ReceivesMore
  <2>1. ThreadTypes' BY <1>0, <1>3, TimeoutAssumption DEF ReceivesMore, ThreadTypes
  <2>2. SocketTypes' BY <1>0, <1>3 DEF ReceivesMore, SocketTypes
  <2>. QED BY <1>0, <1>3, <2>1, <2>2, LineUnchanged, StateUnchanged, OutcomesUnchanged DEF ReceivesMore
<1>4. CASE ReceiveFails \/ DeliveryFails \/ FailsRest
  <2>1. StateTypes' BY <1>0, <1>4, FailType DEF ReceiveFails, DeliveryFails, FailsRest
  <2>2. ThreadTypes'
    <3>1. patience' \in 0..Timeout
      <4>1. patience' = patience \/ patience' = 0
        BY <1>4 DEF ReceiveFails, DeliveryFails, FailsRest
      <4>. QED BY <1>0, <4>1, TimeoutAssumption DEF ThreadTypes
    <3>2. UNCHANGED <<idle, sender, sending>> /\ receiver' \in {"failing", "failWaiting"}
      BY <1>4 DEF ReceiveFails, DeliveryFails, FailsRest
    <3>. QED BY <1>0, <3>1, <3>2 DEF ThreadTypes
  <2>. QED BY <1>0, <1>4, <2>1, <2>2, LineUnchanged, SocketUnchanged, OutcomesUnchanged
          DEF ReceiveFails, DeliveryFails, FailsRest
<1>5. CASE Delivers
  <2>1. stream # <<>> /\ got - 2 \in Nat /\ sent - 2 \in Nat
    BY <1>0, <1>5, StreamHeld DEF Delivers, SocketTypes, Whole
  <2>2. ThreadTypes' BY <1>0, <1>5 DEF Delivers, ThreadTypes
  <2>. QED BY <1>0, <1>5, <2>1, <2>2, CompleteType DEF Delivers
<1>6. CASE EndsStream
  <2>2. ThreadTypes' BY <1>0, <1>6 DEF EndsStream, ThreadTypes
  <2>3. CASE waiting = <<>> \/ ~HeadArrived
    <3>1. UNCHANGED <<line, state, socket, future, callers, unasked, age>>
      BY <1>6, <2>3 DEF EndsStream, line, socket
    <3>. QED BY <1>0, <2>2, <3>1, LineUnchanged, StateUnchanged, SocketUnchanged, OutcomesUnchanged
  <2>4. CASE ~(waiting = <<>> \/ ~HeadArrived) /\ UntilClose
    <3>1. stream # <<>> BY <1>0, <2>4, StreamHeld DEF HeadArrived, SocketTypes
    <3>2. Complete(got = 2) /\ sent' \in Nat /\ got' \in Nat BY <1>6, <2>4 DEF EndsStream
    <3>. QED BY <1>0, <1>6, <2>2, <2>4, <3>1, <3>2, CompleteType DEF EndsStream
  <2>5. CASE ~(waiting = <<>> \/ ~HeadArrived) /\ ~UntilClose
    <3>1. StateTypes' BY <1>0, <1>6, <2>5, FailType DEF EndsStream
    <3>2. UNCHANGED <<line, socket, future, callers, unasked, age>>
      BY <1>6, <2>5 DEF EndsStream, line, socket
    <3>. QED BY <1>0, <2>2, <3>1, <3>2, LineUnchanged, SocketUnchanged, OutcomesUnchanged
  <2>. QED BY <2>3, <2>4, <2>5
<1>7. CASE FailsWaiting
  <2>1. LineTypes' BY <1>0, <1>7 DEF FailsWaiting, LineTypes
  <2>2. ThreadTypes' BY <1>0, <1>7 DEF FailsWaiting, ThreadTypes
  <2>3. future' \in [Requests -> Futures]
    BY <1>0, <1>7 DEF FailsWaiting, Settled, Futures, OutcomeTypes
  <2>4. OutcomeTypes' BY <1>0, <1>7, <2>3, TimeoutAssumption DEF FailsWaiting, OutcomeTypes
  <2>. QED BY <1>0, <1>7, <2>1, <2>2, <2>4, StateUnchanged, SocketUnchanged DEF FailsWaiting
<1>8. CASE Finishes
  <2>1. ThreadTypes' BY <1>0, <1>8 DEF Finishes, ThreadTypes
  <2>2. SocketTypes' BY <1>0, <1>8 DEF Finishes, SocketTypes
  <2>. QED BY <1>0, <1>8, <2>1, <2>2, LineUnchanged, StateUnchanged, OutcomesUnchanged DEF Finishes
<1>. QED BY <1>1, <1>2, <1>3, <1>4, <1>5, <1>6, <1>7, <1>8 DEF Receiver

LEMMA RestType ==
    ASSUME TypeOK, NodeCloses \/ Wakes \/ Peer \/ SecondPasses
    PROVE  TypeOK'
<1> USE DEF TypeOK
<1>1. CASE NodeCloses
  <2>1. StateTypes' BY <1>1, FailType DEF NodeCloses
  <2>. QED BY <1>1, <2>1, LineUnchanged, ThreadsUnchanged, SocketUnchanged, OutcomesUnchanged DEF NodeCloses
<1>2. CASE Wakes
  <2>1. StateTypes' BY <1>2 DEF Wakes, StateTypes
  <2>. QED BY <1>2, <2>1, LineUnchanged, ThreadsUnchanged, SocketUnchanged, OutcomesUnchanged DEF Wakes
<1>3. CASE PeerAnswers
  <2>1. Head(toPeer) \in Requests /\ Tail(toPeer) \in Seq(Requests)
    BY <1>3, TailElements DEF SocketTypes, PeerAnswers
  <2>2. PICK response \in Responses : Says(response)
    BY <1>3, <2>1 DEF PeerAnswers, Responses, Framings
  <2>3. SocketTypes' BY <1>3, <2>1, <2>2, AppendElements DEF SocketTypes, PeerAnswers, Says
  <2>. QED BY <1>3, <2>3, LineUnchanged, StateUnchanged, ThreadsUnchanged, OutcomesUnchanged DEF PeerAnswers
<1>4. CASE PeerContinues \/ PeerHangsUp
  <2>1. SocketTypes'
    <3>1. CASE PeerContinues BY <3>1 DEF SocketTypes, PeerContinues
    <3>2. CASE PeerHangsUp BY <3>2 DEF SocketTypes, PeerHangsUp
    <3>. QED BY <1>4, <3>1, <3>2
  <2>. QED BY <1>4, <2>1, LineUnchanged, StateUnchanged, ThreadsUnchanged, OutcomesUnchanged
          DEF PeerContinues, PeerHangsUp
<1>5. CASE PeerSpeaksUnasked
  <2>1. PICK response \in Responses : Says(response)
    BY <1>5 DEF PeerSpeaksUnasked, Responses, Framings
  <2>2. SocketTypes' BY <1>5, <2>1, AppendElements DEF SocketTypes, PeerSpeaksUnasked, Says
  <2>3. OutcomeTypes' BY <1>5 DEF PeerSpeaksUnasked, OutcomeTypes
  <2>. QED BY <1>5, <2>2, <2>3, LineUnchanged, StateUnchanged, ThreadsUnchanged DEF PeerSpeaksUnasked
<1>6. CASE SecondPasses
  <2>1. ThreadTypes' BY <1>6, TimeoutAssumption DEF ThreadTypes, SecondPasses, Quiet, Min2
  <2>2. \A r \in Requests : Min2(age[r] + 1, Timeout) \in 0..Timeout
    BY TimeoutAssumption DEF OutcomeTypes, Min2
  <2>3. OutcomeTypes' BY <1>6, <2>2 DEF SecondPasses, OutcomeTypes
  <2>. QED BY <1>6, <2>1, <2>3, LineUnchanged, StateUnchanged, SocketUnchanged DEF SecondPasses
<1>. QED BY <1>1, <1>2, <1>3, <1>4, <1>5, <1>6 DEF Peer

(* What a step may do to the line and its outcomes: nothing, but for a request queued, the oldest   *)
(* answered, or all that wait failed.                                                              *)
Asked(t) == Asks(t) /\ Queue(At(t)) /\ ~closed
Completed == waiting # <<>> /\ stream # <<>> /\ \E whole \in BOOLEAN : Complete(whole)

LEMMA KindsOfStep ==
    ASSUME IInv, [LinkNext]_linkVars
    PROVE  \/ UNCHANGED <<waiting, future>>
           \/ \E t \in Callers : Asked(t) /\ UNCHANGED closed
           \/ Completed /\ (Delivers \/ EndsStream)
           \/ FailsWaiting
<1>1. ASSUME NEW t \in Callers, Caller(t)
      PROVE  UNCHANGED <<waiting, future>> \/ (Asked(t) /\ UNCHANGED closed)
  <2>1. CASE Asks(t) BY <2>1 DEF Asks, Asked, line, state
  <2>2. CASE Takes(t) BY <2>2 DEF Takes, line
  <2>3. CASE Closes(t) BY <2>3 DEF Closes, line
  <2>. QED BY <1>1, <2>1, <2>2, <2>3 DEF Caller
<1>2. CASE Sender
  BY <1>2 DEF Sender, SenderTakes, SenderTakesNone, Sends, SendFails, SenderEnds, line
<1>3. CASE Delivers
  <2>1. got > 0 BY <1>3 DEF Delivers, Whole, IInv, TypeOK, SocketTypes
  <2>. QED BY <1>3, <2>1, StreamHeld DEF Delivers, Completed, Whole
<1>4. CASE EndsStream
  <2>1. CASE waiting = <<>> \/ ~HeadArrived BY <1>4, <2>1 DEF EndsStream
  <2>2. CASE ~(waiting = <<>> \/ ~HeadArrived) /\ UntilClose
    <3>1. got > 0 BY <2>2 DEF HeadArrived, IInv, TypeOK, SocketTypes
    <3>. QED BY <1>4, <2>2, <3>1, StreamHeld DEF EndsStream, Completed, HeadArrived, UntilClose
  <2>3. CASE ~(waiting = <<>> \/ ~HeadArrived) /\ ~UntilClose
    BY <1>4, <2>3 DEF EndsStream
  <2>. QED BY <2>1, <2>2, <2>3
<1>5. CASE \/ Checks \/ SelectTimesOut \/ ReceivesMore \/ ReceivesEnd \/ ReceiveFails \/ DeliversNoMore
           \/ DeliveryFails \/ FailsRest \/ Finishes
  BY <1>5 DEF Checks, SelectTimesOut, ReceivesMore, ReceivesEnd, ReceiveFails, DeliversNoMore, DeliveryFails,
              FailsRest, Finishes, line
<1>6. CASE NodeCloses \/ Wakes \/ Peer \/ SecondPasses
  BY <1>6 DEF NodeCloses, Wakes, Peer, PeerAnswers, PeerContinues, PeerSpeaksUnasked, PeerHangsUp, SecondPasses, line
<1>7. CASE UNCHANGED linkVars BY <1>7 DEF linkVars
<1>. QED BY <1>1, <1>2, <1>3, <1>4, <1>5, <1>6, <1>7 DEF LinkNext, Receiver

(* The connection never opens again, and its receive thread fails what waits only once closed.      *)
LEMMA FailCloses == ASSUME NEW who, NEW why, NEW away, Fail(who, why, away) PROVE closed'
BY DEF Fail, state

LEMMA CloseLasts ==
    ASSUME IInv, [LinkNext]_linkVars
    PROVE  /\ closed => closed'
           /\ receiver' \in {"failWaiting", "join", "finished"} => closed'
<1>1. Settling BY DEF IInv
<1>2. ASSUME NEW t \in Callers, Caller(t) PROVE (closed => closed') /\ receiver' = receiver
  <2>1. CASE Asks(t) BY <2>1 DEF Asks, state
  <2>2. CASE Takes(t) BY <2>2, FailCloses DEF Takes, state
  <2>3. CASE Closes(t) BY <2>3 DEF Closes, state
  <2>. QED BY <1>2, <2>1, <2>2, <2>3 DEF Caller
<1>3. CASE Sender
  <2>1. receiver' = receiver
    BY <1>3 DEF Sender, SenderTakes, SenderTakesNone, Sends, SendFails, SenderEnds
  <2>2. closed => closed'
    BY <1>3, FailCloses DEF Sender, SenderTakes, SenderTakesNone, Sends, SendFails, SenderEnds, state
  <2>. QED BY <1>1, <2>1, <2>2 DEF Settling
<1>4. CASE Receiver
  <2>1. CASE Delivers \/ EndsStream
    <3>1. receiver' \in {"deliver", "failing"} BY <2>1 DEF Delivers, EndsStream
    <3>2. closed => closed'
      <4>1. \A whole \in BOOLEAN : Complete(whole) => (closed => closed') BY FailCloses DEF Complete, state
      <4>2. CASE Delivers BY <4>1, <4>2 DEF Delivers
      <4>3. CASE EndsStream BY <4>1, <4>3, FailCloses DEF EndsStream, state
      <4>. QED BY <2>1, <4>2, <4>3
    <3>. QED BY <3>1, <3>2
  <2>2. CASE Checks \/ SelectTimesOut \/ ReceivesMore \/ ReceivesEnd
    <3>1. receiver' \in {"failing", "select", "check", "deliver", "endOfStream"}
      BY <2>2 DEF Checks, SelectTimesOut, ReceivesMore, ReceivesEnd
    <3>2. closed => closed'
      BY <2>2, FailCloses DEF Checks, SelectTimesOut, ReceivesMore, ReceivesEnd, state
    <3>. QED BY <3>1, <3>2
  <2>3. CASE ReceiveFails \/ DeliversNoMore \/ DeliveryFails \/ FailsRest
    <3>1. CASE FailsRest BY <3>1, FailCloses DEF FailsRest
    <3>2. CASE DeliversNoMore BY <3>2 DEF DeliversNoMore, state
    <3>3. CASE ReceiveFails \/ DeliveryFails BY <3>3, FailCloses DEF ReceiveFails, DeliveryFails
    <3>. QED BY <2>3, <3>1, <3>2, <3>3
  <2>4. CASE FailsWaiting \/ Finishes
    BY <1>1, <2>4 DEF FailsWaiting, Finishes, state, Settling
  <2>. QED BY <1>4, <2>1, <2>2, <2>3, <2>4 DEF Receiver
<1>5. CASE NodeCloses \/ Wakes \/ Peer \/ SecondPasses
  <2>1. receiver' = receiver
    BY <1>5 DEF NodeCloses, Wakes, Peer, PeerAnswers, PeerContinues, PeerSpeaksUnasked, PeerHangsUp, SecondPasses
  <2>2. closed => closed'
    BY <1>5, FailCloses DEF NodeCloses, Wakes, Peer, PeerAnswers, PeerContinues, PeerSpeaksUnasked, PeerHangsUp,
                            SecondPasses, state
  <2>. QED BY <1>1, <2>1, <2>2 DEF Settling
<1>6. CASE UNCHANGED linkVars BY <1>1, <1>6 DEF linkVars, Settling
<1>. QED BY <1>1, <1>2, <1>3, <1>4, <1>5, <1>6 DEF LinkNext, Settling

(* A caller asks for what it has not asked for before. *)
LEMMA AskedIsUnmade ==
    ASSUME IInv, NEW t \in Callers, Asked(t)
    PROVE  /\ At(t) \in Requests /\ callers[t].at \in DOMAIN Batch[t]
           /\ future[At(t)].is = "unmade"
           /\ future' = [future EXCEPT ![At(t)] = Settled("pending")]
<1>1. At(t) \in Requests /\ callers[t].at \in DOMAIN Batch[t]
  BY AtRequest DEF IInv, Asked, Asks
<1>2. callers[t].at >= callers[t].at
  BY <1>1, BatchElements
<1>. QED BY <1>1, <1>2 DEF IInv, Exchanges, Asked, Asks, Queue, At

(* The oldest that waits is pending, and is answered. *)
LEMMA CompletedIsPending ==
    ASSUME IInv, Completed
    PROVE  /\ Head(waiting) = waiting[1] /\ 1 \in DOMAIN waiting /\ waiting[1] \in Requests
           /\ future[waiting[1]].is = "pending"
           /\ \E answer \in Futures : /\ answer.is = "answered" /\ answer.of = Head(stream).of
                                      /\ future' = [future EXCEPT ![waiting[1]] = answer]
           /\ waiting' = Tail(waiting) /\ stream' = Tail(stream)
<1>1. /\ Head(waiting) = waiting[1] /\ 1 \in DOMAIN waiting /\ waiting[1] \in Requests
  BY TailElements DEF IInv, TypeOK, LineTypes, Completed
<1>2. PICK whole \in BOOLEAN : Complete(whole)
  BY DEF Completed
<1>3. Head(stream) \in Responses
  BY TailElements DEF IInv, TypeOK, SocketTypes, Completed
<1>4. AnsweredWith(Head(stream), whole) \in Futures /\ AnsweredWith(Head(stream), whole).is = "answered"
      /\ AnsweredWith(Head(stream), whole).of = Head(stream).of
  BY <1>3 DEF AnsweredWith, Responses, Futures
<1>. QED BY <1>1, <1>2, <1>4 DEF Complete, IInv, Settling

LEMMA SettlingKept ==
    ASSUME IInv, [LinkNext]_linkVars
    PROVE  Settling'
<1> DEFINE Once == \A i, j \in DOMAIN waiting : waiting[i] = waiting[j] => i = j
           Owed == \A i \in DOMAIN waiting : future[waiting[i]].is = "pending"
           Waits == \A r \in Requests : future[r].is = "pending" => \E i \in DOMAIN waiting : waiting[i] = r
<1>1. Once /\ Owed /\ Waits /\ waiting \in Seq(Requests) /\ future \in [Requests -> Futures]
  BY DEF IInv, Settling, TypeOK, LineTypes, OutcomeTypes
<1>2. CASE UNCHANGED <<waiting, future>>
  BY <1>1, <1>2, CloseLasts DEF Settling
<1>3. ASSUME NEW t \in Callers, Asked(t) PROVE (Once /\ Owed /\ Waits)'
  <2>1. /\ At(t) \in Requests /\ future[At(t)].is = "unmade"
        /\ future' = [future EXCEPT ![At(t)] = Settled("pending")]
    BY <1>3, AskedIsUnmade
  <2>2. waiting' = Append(waiting, At(t)) BY <1>3 DEF Asked, Queue
  <2>3. \A i \in 1..Len(waiting) : waiting[i] # At(t) /\ waiting[i] \in Requests
    BY <1>1, <2>1
  <2>4. /\ DOMAIN waiting' = 1..(Len(waiting) + 1) /\ DOMAIN waiting = 1..Len(waiting) /\ Len(waiting) \in Nat
        /\ \A i \in 1..Len(waiting) : waiting'[i] = waiting[i]
        /\ waiting'[Len(waiting) + 1] = At(t)
    BY <1>1, <2>1, <2>2, AppendElements
  <2>5. \A r \in Requests : future'[r].is = IF r = At(t) THEN "pending" ELSE future[r].is
    BY <1>1, <2>1 DEF Settled
  <2>6. Once'
    BY <1>1, <2>3, <2>4
  <2>7. Owed'
    BY <1>1, <2>1, <2>3, <2>4, <2>5
  <2>8. Waits'
    <3>1. ASSUME NEW r \in Requests, future'[r].is = "pending" PROVE \E i \in DOMAIN waiting' : waiting'[i] = r
      <4>1. CASE r = At(t) BY <2>4, <4>1
      <4>2. CASE r # At(t)
        <5>1. PICK i \in DOMAIN waiting : waiting[i] = r BY <1>1, <2>5, <3>1, <4>2
        <5>. QED BY <2>4, <5>1
      <4>. QED BY <4>1, <4>2
    <3>. QED BY <3>1
  <2>. QED BY <2>6, <2>7, <2>8
<1>4. CASE Completed
  <2>1. /\ 1 \in DOMAIN waiting /\ waiting[1] \in Requests
        /\ waiting' = Tail(waiting)
    BY <1>4, CompletedIsPending
  <2>2. PICK answer \in Futures : answer.is = "answered" /\ future' = [future EXCEPT ![waiting[1]] = answer]
    BY <1>4, CompletedIsPending
  <2>3. /\ DOMAIN waiting' = 1..(Len(waiting) - 1) /\ DOMAIN waiting = 1..Len(waiting) /\ Len(waiting) \in Nat \ {0}
        /\ \A i \in 1..(Len(waiting) - 1) : waiting'[i] = waiting[i + 1]
    BY <1>1, <1>4, <2>1, TailElements DEF Completed
  <2>4. \A r \in Requests : future'[r].is = IF r = waiting[1] THEN "answered" ELSE future[r].is
    BY <1>1, <2>1, <2>2
  <2>5. Once'
    <3>1. ASSUME NEW i \in DOMAIN waiting', NEW j \in DOMAIN waiting', waiting'[i] = waiting'[j] PROVE i = j
      <4>1. i + 1 \in DOMAIN waiting /\ j + 1 \in DOMAIN waiting /\ waiting[i + 1] = waiting[j + 1]
        BY <2>3, <3>1
      <4>2. i + 1 = j + 1 BY <1>1, <4>1
      <4>. QED BY <2>3, <4>2
    <3>. QED BY <3>1
  <2>6. Owed'
    <3>1. \A i \in 2..Len(waiting) : waiting[i] \in Requests /\ waiting[i] # waiting[1] BY <1>1, <2>3
    <3>. QED BY <1>1, <2>3, <2>4, <3>1
  <2>7. Waits'
    <3>1. ASSUME NEW r \in Requests, future'[r].is = "pending" PROVE \E i \in DOMAIN waiting' : waiting'[i] = r
      <4>1. PICK i \in DOMAIN waiting : waiting[i] = r /\ i # 1 BY <1>1, <2>4, <3>1
      <4>2. i - 1 \in DOMAIN waiting' /\ waiting'[i - 1] = r BY <2>3, <4>1
      <4>. QED BY <4>2
    <3>. QED BY <3>1
  <2>. QED BY <2>5, <2>6, <2>7, CloseLasts DEF Settling
<1>5. CASE FailsWaiting
  <2>1. waiting' = <<>> /\ DOMAIN waiting' = {} BY <1>5 DEF FailsWaiting
  <2>2. \A r \in Requests : future'[r].is # "pending"
    BY <1>1, <1>5 DEF FailsWaiting, Settled
  <2>. QED BY <2>1, <2>2, CloseLasts DEF Settling
<1>. QED BY <1>2, <1>3, <1>4, <1>5, KindsOfStep, CloseLasts DEF Settling

(* What is settled stays so, and what is not made is made by the caller that comes to it. *)
LEMMA OutcomesLast ==
    ASSUME IInv, [LinkNext]_linkVars, NEW r \in Requests
    PROVE  /\ future[r].is = "answered" => future'[r] = future[r]
           /\ future[r].is = "unmade" =>
                \/ future'[r] = future[r]
                \/ \E t \in Callers : Asks(t) /\ r = At(t) /\ callers[t].at \in DOMAIN Batch[t] /\ ~closed
<1>1. future \in [Requests -> Futures] BY DEF IInv, TypeOK, OutcomeTypes
<1>2. CASE UNCHANGED <<waiting, future>> BY <1>2
<1>3. ASSUME NEW t \in Callers, Asked(t)
      PROVE  /\ future[r].is = "answered" => future'[r] = future[r]
             /\ future[r].is = "unmade" => future'[r] = future[r] \/ r = At(t)
  BY <1>1, <1>3, AskedIsUnmade
<1>4. CASE Completed BY <1>1, <1>4, CompletedIsPending
<1>5. CASE FailsWaiting
  <2>1. \A i \in DOMAIN waiting : future[waiting[i]].is = "pending" BY DEF IInv, Settling
  <2>. QED BY <1>1, <1>5, <2>1 DEF FailsWaiting
<1>. QED BY <1>2, <1>3, <1>4, <1>5, KindsOfStep, AskedIsUnmade DEF Asked

LEMMA ExchangesKept ==
    ASSUME IInv, [LinkNext]_linkVars
    PROVE  Exchanges'
<1>1. /\ callers \in [Callers -> [doing : {"ask", "take", "close", "returned", "raised"}, at : Nat \ {0}]]
      /\ future \in [Requests -> Futures] /\ Exchanges
  BY DEF IInv, TypeOK, OutcomeTypes
<1> DEFINE Kept(u) ==
      /\ callers[u].doing \in {"ask", "take"} => callers[u].at <= Len(Batch[u])
      /\ callers[u].doing = "ask" =>
           \A i \in DOMAIN Batch[u] : i >= callers[u].at => future[Batch[u][i]].is = "unmade"
      /\ callers[u].doing = "take" =>
           \A i \in DOMAIN Batch[u] : i < callers[u].at => Good(future[Batch[u][i]])
      /\ callers[u].doing = "returned" =>
           \A i \in DOMAIN Batch[u] : Good(future[Batch[u][i]])
<1> SUFFICES ASSUME NEW u \in Callers PROVE Kept(u)'
  BY DEF Exchanges
<1>2. Kept(u) BY <1>1 DEF Exchanges
<1>3. /\ DOMAIN Batch[u] = 1..Len(Batch[u]) /\ Len(Batch[u]) \in Nat \ {0}
      /\ \A i \in DOMAIN Batch[u] : Batch[u][i] \in Requests
  BY BatchElements
<1>4. \A i \in DOMAIN Batch[u] : Good(future[Batch[u][i]]) => Good(future'[Batch[u][i]])
  BY <1>3, OutcomesLast DEF Good
<1>5. CASE callers'[u] = callers[u]
  <2>1. ASSUME callers[u].doing = "ask", NEW i \in DOMAIN Batch[u], i >= callers[u].at
        PROVE  future'[Batch[u][i]].is = "unmade"
    <3>1. future[Batch[u][i]].is = "unmade" BY <1>2, <2>1
    <3>2. ASSUME NEW t \in Callers, Asks(t), Batch[u][i] = At(t), callers[t].at \in DOMAIN Batch[t], ~closed
          PROVE  FALSE
      <4>1. t = u BY <3>2, BatchAssumption DEF At
      <4>2. callers'[u] # callers[u]
        <5>1. callers'[u].at # callers[u].at \/ callers'[u].doing # callers[u].doing
          BY <1>1, <3>2, <4>1 DEF Asks, Does
        <5>. QED BY <5>1
      <4>. QED BY <1>5, <4>2
    <3>. QED BY <1>3, <3>1, <3>2, OutcomesLast
  <2>. QED BY <1>2, <1>4, <1>5, <2>1
<1>6. CASE Asks(u)
  <2>1. callers[u].at <= Len(Batch[u]) /\ callers[u].doing = "ask" /\ callers[u].at \in Nat \ {0}
    BY <1>1, <1>2, <1>6 DEF Asks
  <2>2. CASE closed
    <3>1. callers'[u].doing = "raised" BY <1>1, <1>6, <2>2 DEF Asks, Does
    <3>. QED BY <3>1
  <2>3. CASE ~closed /\ callers[u].at = Len(Batch[u])
    <3>1. callers'[u] = [doing |-> "take", at |-> 1] BY <1>1, <1>6, <2>3 DEF Asks, Does
    <3>. QED BY <1>3, <3>1
  <2>4. CASE ~closed /\ callers[u].at # Len(Batch[u])
    <3>1. callers'[u] = [doing |-> "ask", at |-> callers[u].at + 1] BY <1>1, <1>6, <2>4 DEF Asks, Does
    <3>2. ASSUME NEW i \in DOMAIN Batch[u], i >= callers[u].at + 1 PROVE future'[Batch[u][i]].is = "unmade"
      <4>1. future[Batch[u][i]].is = "unmade" BY <1>2, <1>3, <2>1, <3>2
      <4>2. Batch[u][i] # At(u)
        <5>1. callers[u].at \in DOMAIN Batch[u] /\ i # callers[u].at BY <1>3, <2>1, <3>2
        <5>. QED BY <5>1, BatchAssumption DEF At
      <4>3. Asked(u) BY <1>6, <2>4 DEF Asks, Asked
      <4>4. future' = [future EXCEPT ![At(u)] = Settled("pending")] BY <4>3, AskedIsUnmade
      <4>. QED BY <1>1, <1>3, <4>1, <4>2, <4>4
    <3>. QED BY <1>3, <2>1, <2>4, <3>1, <3>2
  <2>. QED BY <2>2, <2>3, <2>4
<1>7. CASE Takes(u)
  <2>1. callers[u].at <= Len(Batch[u]) /\ callers[u].doing = "take" /\ callers[u].at \in Nat \ {0}
    BY <1>1, <1>2, <1>7 DEF Takes
  <2>2. CASE callers'[u].doing \in {"raised", "close"} BY <2>2
  <2>3. CASE callers'[u].doing \notin {"raised", "close"}
    <3>1. At(u) \in Requests /\ callers[u].at \in DOMAIN Batch[u] BY <1>3, <2>1 DEF At
    <3>2. /\ future[At(u)].is = "answered" /\ Verified(future[At(u)])
          /\ callers' = [callers EXCEPT ![u] = IF callers[u].at = Len(Batch[u]) THEN [doing |-> "returned", at |-> 1]
                                               ELSE [doing |-> "take", at |-> callers[u].at + 1]]
      <4>1. future[At(u)].is = "answered"
        <5>1. CASE future[At(u)].is = "failed"
          <6>1. callers'[u].doing = "raised" BY <1>1, <1>7, <5>1 DEF Takes, Does
          <6>. QED BY <2>3, <6>1
        <5>. QED BY <1>7, <5>1 DEF Takes
      <4>2. Verified(future[At(u)])
        <5>1. CASE ~Verified(future[At(u)])
          <6>1. callers'[u].doing = "close" BY <1>1, <1>7, <4>1, <5>1 DEF Takes, Does
          <6>. QED BY <2>3, <6>1
        <5>. QED BY <5>1
      <4>. QED BY <1>7, <4>1, <4>2 DEF Takes, Does
    <3>4. Good(future[At(u)]) BY <3>2 DEF Good, Verified
    <3>5. \A i \in DOMAIN Batch[u] : i < callers[u].at + 1 => Good(future'[Batch[u][i]])
      BY <1>2, <1>3, <1>4, <2>1, <3>4 DEF At
    <3>6. CASE callers[u].at = Len(Batch[u])
      <4>1. callers'[u] = [doing |-> "returned", at |-> 1] BY <1>1, <3>2, <3>6
      <4>. QED BY <1>3, <2>1, <3>5, <3>6, <4>1
    <3>7. CASE callers[u].at # Len(Batch[u])
      <4>1. callers'[u] = [doing |-> "take", at |-> callers[u].at + 1] BY <1>1, <3>2, <3>7
      <4>. QED BY <1>3, <2>1, <3>5, <3>7, <4>1
    <3>. QED BY <3>6, <3>7
  <2>. QED BY <2>2, <2>3
<1>8. CASE Closes(u)
  <2>1. callers'[u].doing = "raised" BY <1>1, <1>8 DEF Closes, Does
  <2>. QED BY <2>1
<1>9. callers'[u] = callers[u] \/ Asks(u) \/ Takes(u) \/ Closes(u)
  <2>1. ASSUME NEW t \in Callers, Caller(t) PROVE t = u \/ callers'[u] = callers[u]
    BY <1>1, <2>1 DEF Caller, Asks, Takes, Closes, Does
  <2>2. CASE Sender
    BY <2>2 DEF Sender, SenderTakes, SenderTakesNone, Sends, SendFails, SenderEnds
  <2>3. CASE Receiver
    BY <2>3 DEF Receiver, Checks, SelectTimesOut, ReceivesMore, ReceivesEnd, ReceiveFails, Delivers, DeliversNoMore,
                DeliveryFails, EndsStream, FailsRest, FailsWaiting, Finishes
  <2>4. CASE NodeCloses \/ Wakes \/ Peer \/ SecondPasses
    BY <2>4 DEF NodeCloses, Wakes, Peer, PeerAnswers, PeerContinues, PeerSpeaksUnasked, PeerHangsUp, SecondPasses
  <2>5. CASE UNCHANGED linkVars BY <2>5 DEF linkVars
  <2>. QED BY <2>1, <2>2, <2>3, <2>4, <2>5 DEF LinkNext, Caller
<1>. QED BY <1>5, <1>6, <1>7, <1>8, <1>9

(* No more has come than was sent, nor was more sent than the responses there are. *)
LEMMA HalvesKept ==
    ASSUME IInv, [LinkNext]_linkVars
    PROVE  got' <= sent' /\ sent' <= 2 * Len(stream')
<1>1. /\ got <= sent /\ sent <= 2 * Len(stream) /\ got \in Nat /\ sent \in Nat
      /\ stream \in Seq(Responses) /\ toPeer \in Seq(Requests)
  BY DEF IInv, TypeOK, SocketTypes
<1>2. CASE UNCHANGED <<stream, sent, got>> BY <1>1, <1>2
<1>3. CASE ReceivesMore BY <1>1, <1>3 DEF ReceivesMore
<1>4. CASE Delivers
  <2>1. stream # <<>> /\ stream' = Tail(stream) BY <1>1, <1>4, StreamHeld DEF Whole, Delivers, Complete
  <2>2. Len(stream') = Len(stream) - 1 BY <1>1, <2>1, TailElements
  <2>. QED BY <1>1, <1>4, <2>2 DEF Delivers
<1>5. CASE EndsStream
  <2>1. CASE waiting = <<>> \/ ~HeadArrived BY <1>1, <1>5, <2>1 DEF EndsStream
  <2>2. CASE ~(waiting = <<>> \/ ~HeadArrived) /\ UntilClose
    <3>1. stream # <<>> BY <1>1, <2>2, StreamHeld DEF HeadArrived
    <3>2. stream' = Tail(stream) /\ sent' = 0 /\ got' = 0 BY <1>5, <2>2 DEF EndsStream, Complete
    <3>3. Len(stream') \in Nat BY <1>1, <3>1, <3>2, TailElements
    <3>. QED BY <3>2, <3>3
  <2>3. CASE ~(waiting = <<>> \/ ~HeadArrived) /\ ~UntilClose
    BY <1>1, <1>5, <2>3 DEF EndsStream
  <2>. QED BY <2>1, <2>2, <2>3
<1>6. CASE Finishes
  BY <1>6 DEF Finishes
<1>7. CASE PeerAnswers \/ PeerSpeaksUnasked
  <2>1. \A r \in Requests : r = Head(toPeer) => r \in Requests OBVIOUS
  <2>2. toPeer # <<>> => Head(toPeer) \in Requests BY <1>1, TailElements
  <2>3. PICK response \in Responses : Says(response)
    BY <1>7, <2>2 DEF PeerAnswers, PeerSpeaksUnasked, Responses, Framings
  <2>4. Len(stream') = Len(stream) + 1 BY <1>1, <2>3, AppendElements DEF Says
  <2>5. UNCHANGED got BY <1>7 DEF PeerAnswers, PeerSpeaksUnasked
  <2>. QED BY <1>1, <2>3, <2>4, <2>5 DEF Says
<1>8. CASE PeerContinues
  BY <1>1, <1>8 DEF PeerContinues, Between
<1>9. \/ UNCHANGED <<stream, sent, got>>
      \/ ReceivesMore \/ Delivers \/ EndsStream \/ Finishes \/ PeerAnswers \/ PeerSpeaksUnasked \/ PeerContinues
  <2>1. ASSUME NEW t \in Callers, Caller(t) PROVE UNCHANGED <<stream, sent, got>>
    BY <2>1 DEF Caller, Asks, Takes, Closes, socket
  <2>2. CASE Sender
    BY <2>2 DEF Sender, SenderTakes, SenderTakesNone, Sends, SendFails, SenderEnds, socket
  <2>3. CASE Receiver
    BY <2>3 DEF Receiver, Checks, SelectTimesOut, ReceivesEnd, ReceiveFails, DeliversNoMore,
                DeliveryFails, FailsRest, FailsWaiting, socket
  <2>4. CASE NodeCloses \/ Wakes \/ Peer \/ SecondPasses
    BY <2>4 DEF NodeCloses, Wakes, Peer, PeerHangsUp, SecondPasses, socket
  <2>5. CASE UNCHANGED linkVars BY <2>5 DEF linkVars
  <2>. QED BY <2>1, <2>2, <2>3, <2>4, <2>5 DEF LinkNext
<1>. QED BY <1>2, <1>3, <1>4, <1>5, <1>6, <1>7, <1>8, <1>9

(* What lines up stays lined up. *)
LEMMA WindowKept ==
    ASSUME IInv, [LinkNext]_linkVars, Window, unasked' = 0, unasked = 0
    PROVE  Window'
<1>1. /\ waiting \in Seq(Requests) /\ outgoing \in Seq(Requests) /\ sending \in Seq(Requests)
      /\ toPeer \in Seq(Requests) /\ stream \in Seq(Responses)
  BY DEF IInv, TypeOK, LineTypes, ThreadTypes, SocketTypes
<1> DEFINE lengths == <<stream, toPeer, sending, waiting, outgoing>>
<1>2. CASE UNCHANGED lengths /\ (receiver' \in {"join", "finished"} \/ receiver \notin {"join", "finished"})
           /\ (sender' \in {"get", "sending"} => sender \in {"get", "sending"})
  BY <1>2 DEF Window
<1>3. ASSUME NEW t \in Callers, Asked(t) PROVE Window'
  <2>1. /\ At(t) \in Requests /\ waiting' = Append(waiting, At(t)) /\ outgoing' = Append(outgoing, At(t))
        /\ UNCHANGED <<stream, toPeer, sending, sender, receiver>>
    BY <1>3, AskedIsUnmade DEF Asked, Asks, Queue, socket
  <2>2. /\ Len(waiting') = Len(waiting) + 1 /\ Len(outgoing') = Len(outgoing) + 1
        /\ \A i \in 1..Len(waiting) : waiting'[i] = waiting[i]
        /\ \A i \in 1..Len(outgoing) : outgoing'[i] = outgoing[i]
        /\ waiting'[Len(waiting) + 1] = At(t) /\ outgoing'[Len(outgoing) + 1] = At(t)
    BY <1>1, <2>1, AppendElements
  <2>3. UNCHANGED <<stream, toPeer, sending, sender>> BY <2>1
  <2>8. CASE receiver' \in {"join", "finished"} BY <2>8 DEF Window
  <2>9. CASE receiver \notin {"join", "finished"}
    <3>2. /\ Len(stream) + Len(toPeer) + Len(sending) <= Len(waiting)
          /\ \A i \in 1..Len(stream) : stream[i].of = waiting[i]
          /\ \A i \in 1..Len(toPeer) : toPeer[i] = waiting[Len(stream) + i]
          /\ \A i \in 1..Len(sending) : sending[i] = waiting[Len(stream) + Len(toPeer) + i]
      BY <2>9 DEF Window
    <3>3. sender \in {"get", "sending"} =>
             /\ Len(stream) + Len(toPeer) + Len(sending) + Len(outgoing) = Len(waiting)
             /\ \A i \in 1..Len(outgoing) :
                  outgoing[i] = waiting[Len(stream) + Len(toPeer) + Len(sending) + i]
      BY <2>9 DEF Window
    <3>4. /\ Len(stream) \in Nat /\ Len(toPeer) \in Nat /\ Len(sending) \in Nat
          /\ Len(waiting) \in Nat /\ Len(outgoing) \in Nat
      BY <1>1
    <3>5. Len(stream') + Len(toPeer') + Len(sending') <= Len(waiting')
      BY <2>2, <2>3, <3>2, <3>3, <3>4
    <3>6. \A i \in 1..Len(stream') : stream'[i].of = waiting'[i]
      BY <2>2, <2>3, <3>2, <3>3, <3>4
    <3>7. ASSUME NEW i \in 1..Len(toPeer') PROVE toPeer'[i] = waiting'[Len(stream') + i]
      <4>1. Len(stream') + i \in 1..Len(waiting) BY <2>2, <2>3, <3>2, <3>3, <3>4
      <4>2. waiting'[Len(stream') + i] = waiting[Len(stream') + i] BY <4>1, <2>2
      <4>3. Len(stream') + i = Len(stream) + i BY <2>2, <2>3, <3>2, <3>3, <3>4
      <4>. QED BY <4>2, <4>3, <2>2, <2>3, <3>2, <3>3, <3>4
    <3>8. ASSUME NEW i \in 1..Len(sending') PROVE sending'[i] = waiting'[Len(stream') + Len(toPeer') + i]
      <4>1. Len(stream') + Len(toPeer') + i \in 1..Len(waiting) BY <2>2, <2>3, <3>2, <3>3, <3>4
      <4>2. waiting'[Len(stream') + Len(toPeer') + i] = waiting[Len(stream') + Len(toPeer') + i] BY <4>1, <2>2
      <4>3. Len(stream') + Len(toPeer') + i = Len(stream) + Len(toPeer) + i BY <2>2, <2>3, <3>2, <3>3, <3>4
      <4>. QED BY <4>2, <4>3, <2>2, <2>3, <3>2, <3>3, <3>4
    <3>9. sender' \in {"get", "sending"} =>
             /\ Len(stream') + Len(toPeer') + Len(sending') + Len(outgoing') = Len(waiting')
             /\ \A i \in 1..Len(outgoing') :
                  outgoing'[i] = waiting'[Len(stream') + Len(toPeer') + Len(sending') + i]
      <4>1. ASSUME sender' \in {"get", "sending"}, NEW i \in 1..Len(outgoing')
            PROVE  outgoing'[i] = waiting'[Len(stream') + Len(toPeer') + Len(sending') + i]
        <5>1. CASE i = Len(outgoing) + 1
          <6>1. Len(stream') + Len(toPeer') + Len(sending') + i = Len(waiting) + 1
            <7>1. Len(stream) + Len(toPeer) + Len(sending) + Len(outgoing) = Len(waiting) BY <2>3, <3>3, <4>1
            <7>2. Len(stream') = Len(stream) /\ Len(toPeer') = Len(toPeer) /\ Len(sending') = Len(sending)
              BY <2>3
            <7>. QED BY <3>4, <5>1, <7>1, <7>2
          <6>2. outgoing'[i] = At(t) BY <2>2, <5>1
          <6>3. waiting'[Len(stream') + Len(toPeer') + Len(sending') + i] = At(t) BY <2>2, <6>1
          <6>. QED BY <6>2, <6>3
        <5>2. CASE i # Len(outgoing) + 1
          <6>1. i \in 1..Len(outgoing) /\ Len(stream) + Len(toPeer) + Len(sending) + i \in 1..Len(waiting)
            BY <2>2, <2>3, <3>3, <3>4, <4>1, <5>2
          <6>. QED BY <2>2, <2>3, <3>3, <4>1, <6>1
        <5>. QED BY <5>1, <5>2
      <4>. QED BY <2>2, <2>3, <3>3, <3>4, <4>1
    <3>. QED BY <3>5, <3>6, <3>7, <3>8, <3>9 DEF Window
  <2>. QED BY <2>1, <2>8, <2>9
<1>4. CASE SenderTakes
  <2>1. /\ outgoing # <<>> /\ outgoing' = Tail(outgoing) /\ sender = "get"
        /\ UNCHANGED <<stream, toPeer, waiting, receiver>>
    BY <1>4 DEF SenderTakes, socket
  <2>2. /\ Len(outgoing') = Len(outgoing) - 1 /\ Head(outgoing) = outgoing[1]
        /\ \A i \in 1..Len(outgoing') : outgoing'[i] = outgoing[i + 1]
    BY <1>1, <2>1, TailElements
  <2>3. CASE closed
    BY <1>4, <2>1, <2>3 DEF SenderTakes, Window
  <2>4. CASE ~closed /\ receiver \notin {"join", "finished"}
    <3>1. sender' = "sending" /\ sending' = <<Head(outgoing)>> BY <1>4, <2>4 DEF SenderTakes
    <3>2. /\ Len(stream) + Len(toPeer) + Len(sending) + Len(outgoing) = Len(waiting)
          /\ \A i \in 1..Len(outgoing) : outgoing[i] = waiting[Len(stream) + Len(toPeer) + Len(sending) + i]
      BY <2>1, <2>4 DEF Window
    <3>3. sending = <<>> BY <2>1 DEF IInv
    <3>. QED BY <1>1, <2>1, <2>2, <2>4, <3>1, <3>2, <3>3 DEF Window
  <2>5. CASE ~closed /\ receiver \in {"join", "finished"}
    BY <2>1, <2>5 DEF Window
  <2>. QED BY <2>3, <2>4, <2>5
<1>5. CASE Sends
  <2>1. /\ toPeer' = toPeer \o sending /\ sending' = <<>> /\ sender' = "get" /\ sender = "sending"
        /\ UNCHANGED <<stream, waiting, outgoing, receiver>>
    BY <1>5 DEF Sends, line
  <2>2. /\ Len(toPeer') = Len(toPeer) + Len(sending) /\ Len(sending') = 0
        /\ \A i \in 1..Len(toPeer) : toPeer'[i] = toPeer[i]
        /\ \A i \in 1..Len(sending) : toPeer'[Len(toPeer) + i] = sending[i]
    BY <1>1, <2>1
  <2>3. \A i \in 1..Len(toPeer') : i <= Len(toPeer) \/ i - Len(toPeer) \in 1..Len(sending)
    BY <1>1, <2>2
  <2>4. \A i \in 1..Len(toPeer') : i > Len(toPeer) => toPeer'[i] = sending[i - Len(toPeer)]
    BY <1>1, <2>2
  <2>. QED BY <1>1, <2>1, <2>2, <2>3, <2>4 DEF Window
<1>6. CASE SendFails
  <2>1. sending' = <<>> /\ sender' = "failed" /\ UNCHANGED <<stream, toPeer, waiting, outgoing, receiver>>
    BY <1>6 DEF SendFails, socket, line
  <2>. QED BY <1>1, <2>1 DEF Window
<1>7. CASE Completed /\ (Delivers \/ EndsStream)
  <2>1. /\ waiting # <<>> /\ stream # <<>> /\ waiting' = Tail(waiting) /\ stream' = Tail(stream)
        /\ UNCHANGED <<outgoing, toPeer, sending, sender>>
    BY <1>7, CompletedIsPending DEF Completed, Delivers, EndsStream
  <2>2. receiver \notin {"join", "finished"} BY <1>7 DEF Delivers, EndsStream
  <2>3. /\ Len(waiting') = Len(waiting) - 1 /\ Len(stream') = Len(stream) - 1
        /\ \A i \in 1..Len(waiting') : waiting'[i] = waiting[i + 1]
        /\ \A i \in 1..Len(stream') : stream'[i] = stream[i + 1]
    BY <1>1, <2>1, TailElements
  <2>4. UNCHANGED <<outgoing, toPeer, sending, sender>> BY <2>1
  <2>8. CASE receiver' \in {"join", "finished"} BY <2>8 DEF Window
  <2>9. CASE receiver \notin {"join", "finished"}
    <3>2. /\ Len(stream) + Len(toPeer) + Len(sending) <= Len(waiting)
          /\ \A i \in 1..Len(stream) : stream[i].of = waiting[i]
          /\ \A i \in 1..Len(toPeer) : toPeer[i] = waiting[Len(stream) + i]
          /\ \A i \in 1..Len(sending) : sending[i] = waiting[Len(stream) + Len(toPeer) + i]
      BY <2>9 DEF Window
    <3>3. sender \in {"get", "sending"} =>
             /\ Len(stream) + Len(toPeer) + Len(sending) + Len(outgoing) = Len(waiting)
             /\ \A i \in 1..Len(outgoing) :
                  outgoing[i] = waiting[Len(stream) + Len(toPeer) + Len(sending) + i]
      BY <2>9 DEF Window
    <3>4. /\ Len(stream) \in Nat /\ Len(toPeer) \in Nat /\ Len(sending) \in Nat
          /\ Len(waiting) \in Nat /\ Len(outgoing) \in Nat
      BY <1>1
    <3>5. Len(stream') + Len(toPeer') + Len(sending') <= Len(waiting')
      BY <2>3, <2>4, <3>2, <3>3, <3>4
    <3>6. \A i \in 1..Len(stream') : stream'[i].of = waiting'[i]
      BY <2>3, <2>4, <3>2, <3>3, <3>4
    <3>7. ASSUME NEW i \in 1..Len(toPeer') PROVE toPeer'[i] = waiting'[Len(stream') + i]
      <4>1. Len(stream') + i \in 1..Len(waiting') BY <2>3, <2>4, <3>2, <3>3, <3>4
      <4>2. waiting'[Len(stream') + i] = waiting[Len(stream') + i + 1] BY <4>1, <2>3
      <4>3. Len(stream') + i + 1 = Len(stream) + i BY <2>3, <2>4, <3>2, <3>3, <3>4
      <4>. QED BY <4>2, <4>3, <2>3, <2>4, <3>2, <3>3, <3>4
    <3>8. ASSUME NEW i \in 1..Len(sending') PROVE sending'[i] = waiting'[Len(stream') + Len(toPeer') + i]
      <4>1. Len(stream') + Len(toPeer') + i \in 1..Len(waiting') BY <2>3, <2>4, <3>2, <3>3, <3>4
      <4>2. waiting'[Len(stream') + Len(toPeer') + i] = waiting[Len(stream') + Len(toPeer') + i + 1] BY <4>1, <2>3
      <4>3. Len(stream') + Len(toPeer') + i + 1 = Len(stream) + Len(toPeer) + i BY <2>3, <2>4, <3>2, <3>3, <3>4
      <4>. QED BY <4>2, <4>3, <2>3, <2>4, <3>2, <3>3, <3>4
    <3>9. sender' \in {"get", "sending"} =>
             /\ Len(stream') + Len(toPeer') + Len(sending') + Len(outgoing') = Len(waiting')
             /\ \A i \in 1..Len(outgoing') :
                  outgoing'[i] = waiting'[Len(stream') + Len(toPeer') + Len(sending') + i]
      <4>1. Len(stream') + Len(toPeer') + Len(sending') + 1 = Len(stream) + Len(toPeer) + Len(sending)
        BY <2>3, <2>4, <3>4
      <4>2. ASSUME sender' \in {"get", "sending"}, NEW i \in 1..Len(outgoing')
            PROVE  outgoing'[i] = waiting'[Len(stream') + Len(toPeer') + Len(sending') + i]
        <5>1. Len(stream') + Len(toPeer') + Len(sending') + i \in 1..Len(waiting')
          BY <2>3, <2>4, <3>3, <3>4, <4>1, <4>2
        <5>2. waiting'[Len(stream') + Len(toPeer') + Len(sending') + i]
                = waiting[Len(stream') + Len(toPeer') + Len(sending') + i + 1]
          BY <2>3, <5>1
        <5>3. Len(stream') + Len(toPeer') + Len(sending') + i + 1 = Len(stream) + Len(toPeer) + Len(sending) + i
          BY <2>3, <2>4, <3>4, <4>1
        <5>. QED BY <2>4, <3>3, <4>2, <5>2, <5>3
      <4>. QED BY <2>3, <2>4, <3>3, <3>4, <4>1, <4>2
    <3>. QED BY <3>5, <3>6, <3>7, <3>8, <3>9 DEF Window
  <2>. QED BY <2>2, <2>9
<1>8. CASE FailsWaiting \/ Finishes
  BY <1>8 DEF FailsWaiting, Finishes, Window
<1>9. CASE PeerAnswers
  <2>1. /\ toPeer # <<>> /\ toPeer' = Tail(toPeer)
        /\ UNCHANGED <<waiting, outgoing, sending, sender, receiver>>
    BY <1>9 DEF PeerAnswers, line
  <2>2. Head(toPeer) \in Requests BY <1>1, <2>1, TailElements
  <2>3. PICK response \in Responses : Says(response) /\ response.of = Head(toPeer)
    <3>1. PICK framing \in Framings, closes \in BOOLEAN, signed \in BOOLEAN :
             Says([of |-> Head(toPeer), framing |-> framing, closes |-> closes, signed |-> signed])
      BY <1>9 DEF PeerAnswers, Framings
    <3>. QED BY <2>2, <3>1 DEF Responses
  <2>4. /\ Len(toPeer') = Len(toPeer) - 1 /\ Head(toPeer) = toPeer[1]
        /\ \A i \in 1..Len(toPeer') : toPeer'[i] = toPeer[i + 1]
        /\ Len(stream') = Len(stream) + 1 /\ stream'[Len(stream) + 1] = response
        /\ \A i \in 1..Len(stream) : stream'[i] = stream[i]
    BY <1>1, <2>1, <2>3, TailElements, AppendElements DEF Says
  <2>8. CASE receiver' \in {"join", "finished"} BY <2>8 DEF Window
  <2>9. CASE receiver \notin {"join", "finished"}
    <3>2. /\ Len(stream) + Len(toPeer) + Len(sending) <= Len(waiting)
          /\ \A i \in 1..Len(stream) : stream[i].of = waiting[i]
          /\ \A i \in 1..Len(toPeer) : toPeer[i] = waiting[Len(stream) + i]
          /\ \A i \in 1..Len(sending) : sending[i] = waiting[Len(stream) + Len(toPeer) + i]
      BY <2>9 DEF Window
    <3>3. sender \in {"get", "sending"} =>
             /\ Len(stream) + Len(toPeer) + Len(sending) + Len(outgoing) = Len(waiting)
             /\ \A i \in 1..Len(outgoing) :
                  outgoing[i] = waiting[Len(stream) + Len(toPeer) + Len(sending) + i]
      BY <2>9 DEF Window
    <3>4. /\ Len(stream) \in Nat /\ Len(toPeer) \in Nat /\ Len(sending) \in Nat
          /\ Len(waiting) \in Nat /\ Len(outgoing) \in Nat
      BY <1>1
    <3>5. Len(stream') + Len(toPeer') + Len(sending') <= Len(waiting')
      BY <2>1, <2>3, <2>4, <3>2, <3>3, <3>4
    <3>6. ASSUME NEW i \in 1..Len(stream') PROVE stream'[i].of = waiting'[i]
      <4>1. CASE i <= Len(stream)
        <5>1. i \in 1..Len(stream) BY <2>4, <3>4, <4>1
        <5>2. stream'[i] = stream[i] BY <2>4, <5>1
        <5>3. stream[i].of = waiting[i] BY <3>2, <5>1
        <5>. QED BY <2>1, <5>2, <5>3
      <4>2. CASE i = Len(stream) + 1
        <5>1. Head(toPeer) = waiting[Len(stream) + 1]
          <6>1. 1 \in 1..Len(toPeer) BY <2>4, <3>4, <1>1, <2>1
          <6>. QED BY <2>4, <3>2, <3>4, <6>1
        <5>2. stream'[i] = response BY <2>4, <4>2
        <5>. QED BY <2>1, <2>3, <4>2, <5>1, <5>2
      <4>. QED BY <2>4, <3>4, <4>1, <4>2
    <3>7. \A i \in 1..Len(toPeer') : toPeer'[i] = waiting'[Len(stream') + i]
      BY <2>1, <2>3, <2>4, <3>2, <3>3, <3>4
    <3>8. \A i \in 1..Len(sending') : sending'[i] = waiting'[Len(stream') + Len(toPeer') + i]
      BY <2>1, <2>3, <2>4, <3>2, <3>3, <3>4
    <3>9. sender' \in {"get", "sending"} =>
             /\ Len(stream') + Len(toPeer') + Len(sending') + Len(outgoing') = Len(waiting')
             /\ \A i \in 1..Len(outgoing') :
                  outgoing'[i] = waiting'[Len(stream') + Len(toPeer') + Len(sending') + i]
      BY <2>1, <2>3, <2>4, <3>2, <3>3, <3>4
    <3>. QED BY <3>5, <3>6, <3>7, <3>8, <3>9 DEF Window
  <2>. QED BY <2>1, <2>8, <2>9
<1>10. \/ UNCHANGED lengths /\ (receiver' \in {"join", "finished"} \/ receiver \notin {"join", "finished"})
          /\ (sender' \in {"get", "sending"} => sender \in {"get", "sending"})
       \/ \E t \in Callers : Asked(t)
       \/ SenderTakes \/ Sends \/ SendFails \/ (Completed /\ (Delivers \/ EndsStream))
       \/ FailsWaiting \/ Finishes \/ PeerAnswers
  <2>1. ASSUME NEW t \in Callers, Caller(t)
        PROVE  Asked(t) \/ UNCHANGED <<stream, toPeer, sending, waiting, outgoing, receiver, sender>>
    <3>1. CASE Asks(t) BY <3>1 DEF Asks, Asked, line, socket
    <3>2. CASE Takes(t) BY <3>2 DEF Takes, line, socket
    <3>3. CASE Closes(t) BY <3>3 DEF Closes, line, socket
    <3>. QED BY <2>1, <3>1, <3>2, <3>3 DEF Caller
  <2>2. CASE SenderTakesNone \/ SenderEnds
    BY <2>2 DEF SenderTakesNone, SenderEnds, socket, line
  <2>3. CASE \/ Checks \/ SelectTimesOut \/ ReceivesMore \/ ReceivesEnd \/ ReceiveFails \/ DeliversNoMore
             \/ DeliveryFails \/ FailsRest
    <3>1. UNCHANGED <<stream, toPeer, sending, waiting, outgoing, sender>>
      BY <2>3 DEF Checks, SelectTimesOut, ReceivesMore, ReceivesEnd, ReceiveFails, DeliversNoMore, DeliveryFails,
                  FailsRest, line, socket
    <3>2. receiver \notin {"join", "finished"}
      BY <2>3 DEF Checks, SelectTimesOut, Quiet, ReceivesMore, ReceivesEnd, ReceiveFails, DeliversNoMore, DeliveryFails,
                  FailsRest
    <3>. QED BY <3>1, <3>2
  <2>4. CASE Delivers
    <3>1. got > 0 BY <2>4 DEF Delivers, Whole, IInv, TypeOK, SocketTypes
    <3>. QED BY <2>4, <3>1, StreamHeld DEF Delivers, Completed, Whole
  <2>5. CASE EndsStream
    <3>1. CASE Completed BY <2>5, <3>1
    <3>2. CASE ~Completed
      <4>1. waiting = <<>> \/ ~HeadArrived \/ ~UntilClose
        <5>1. ASSUME waiting # <<>>, HeadArrived, UntilClose PROVE FALSE
          <6>1. got > 0 BY <5>1 DEF HeadArrived
          <6>. QED BY <2>5, <3>2, <5>1, <6>1, StreamHeld DEF EndsStream, Completed, HeadArrived, UntilClose
        <5>. QED BY <5>1
      <4>. QED BY <2>5, <4>1 DEF EndsStream
    <3>. QED BY <3>1, <3>2
  <2>6. CASE NodeCloses \/ Wakes \/ PeerContinues \/ PeerHangsUp \/ SecondPasses
    BY <2>6 DEF NodeCloses, Wakes, PeerContinues, PeerHangsUp, SecondPasses, line, socket
  <2>7. ~PeerSpeaksUnasked BY DEF PeerSpeaksUnasked
  <2>8. CASE UNCHANGED linkVars BY <2>8 DEF linkVars
  <2>. QED BY <2>1, <2>2, <2>3, <2>4, <2>5, <2>6, <2>7, <2>8 DEF LinkNext, Sender, Receiver, Peer
<1>. QED BY <1>2, <1>3, <1>4, <1>5, <1>6, <1>7, <1>8, <1>9, <1>10

(* So what is answered is answered with its own. *)
LEMMA OwnAnswersKept ==
    ASSUME IInv, [LinkNext]_linkVars, Window, OwnAnswers, unasked = 0
    PROVE  OwnAnswers'
<1>1. future \in [Requests -> Futures] BY DEF IInv, TypeOK, OutcomeTypes
<1>2. CASE UNCHANGED <<waiting, future>> BY <1>2 DEF OwnAnswers
<1>3. ASSUME NEW t \in Callers, Asked(t) PROVE OwnAnswers'
  BY <1>1, <1>3, AskedIsUnmade DEF OwnAnswers, Settled
<1>4. CASE Completed /\ (Delivers \/ EndsStream)
  <2>1. stream # <<>> /\ stream \in Seq(Responses) /\ receiver \notin {"join", "finished"}
    BY <1>4 DEF Completed, Delivers, EndsStream, IInv, TypeOK, SocketTypes
  <2>2. Head(stream) = stream[1] /\ 1 \in 1..Len(stream) BY <2>1, TailElements
  <2>3. Head(stream).of = waiting[1] BY <2>1, <2>2 DEF Window
  <2>4. PICK answer \in Futures : /\ answer.is = "answered" /\ answer.of = waiting[1]
                                  /\ future' = [future EXCEPT ![waiting[1]] = answer]
    BY <1>4, <2>3, CompletedIsPending
  <2>. QED BY <1>1, <2>4 DEF OwnAnswers
<1>5. CASE FailsWaiting BY <1>1, <1>5 DEF FailsWaiting, OwnAnswers, Settled
<1>. QED BY <1>2, <1>3, <1>4, <1>5, KindsOfStep

LEMMA UnaskedGrows ==
    ASSUME IInv, [LinkNext]_linkVars
    PROVE  unasked' = 0 => unasked = 0
<1>1. unasked \in Nat BY DEF IInv, TypeOK, OutcomeTypes
<1>2. ASSUME NEW t \in Callers, Caller(t) PROVE UNCHANGED unasked
  BY <1>2 DEF Caller, Asks, Takes, Closes
<1>3. CASE Sender
  BY <1>3 DEF Sender, SenderTakes, SenderTakesNone, Sends, SendFails, SenderEnds
<1>4. CASE Receiver
  BY <1>4 DEF Receiver, Checks, SelectTimesOut, ReceivesMore, ReceivesEnd, ReceiveFails, Delivers, DeliversNoMore,
              DeliveryFails, EndsStream, FailsRest, FailsWaiting, Finishes
<1>5. CASE NodeCloses \/ Wakes \/ PeerAnswers \/ PeerContinues \/ PeerHangsUp \/ SecondPasses
  BY <1>5 DEF NodeCloses, Wakes, PeerAnswers, PeerContinues, PeerHangsUp, SecondPasses
<1>6. CASE PeerSpeaksUnasked BY <1>1, <1>6 DEF PeerSpeaksUnasked
<1>7. CASE UNCHANGED linkVars BY <1>7 DEF linkVars
<1>. QED BY <1>2, <1>3, <1>4, <1>5, <1>6, <1>7 DEF LinkNext, Peer

(* Only a thread that sends has something in hand. *)
LEMMA SendingKept ==
    ASSUME IInv, [LinkNext]_linkVars
    PROVE  sender' # "sending" => sending' = <<>>
<1>1. sender # "sending" => sending = <<>> BY DEF IInv
<1>2. ASSUME NEW t \in Callers, Caller(t) PROVE UNCHANGED <<sender, sending>>
  BY <1>2 DEF Caller, Asks, Takes, Closes
<1>3. CASE Sender
  BY <1>1, <1>3 DEF Sender, SenderTakes, SenderTakesNone, Sends, SendFails, SenderEnds
<1>4. CASE Receiver
  BY <1>1, <1>4 DEF Receiver, Checks, SelectTimesOut, ReceivesMore, ReceivesEnd, ReceiveFails, Delivers, DeliversNoMore,
              DeliveryFails, EndsStream, FailsRest, FailsWaiting, Finishes
<1>5. CASE NodeCloses \/ Wakes \/ Peer \/ SecondPasses
  BY <1>1, <1>5 DEF NodeCloses, Wakes, Peer, PeerAnswers, PeerContinues, PeerSpeaksUnasked, PeerHangsUp, SecondPasses
<1>6. CASE UNCHANGED linkVars BY <1>1, <1>6 DEF linkVars
<1>. QED BY <1>1, <1>2, <1>3, <1>4, <1>5, <1>6 DEF LinkNext

LEMMA InitIInv == LinkInit => IInv
<1> SUFFICES ASSUME LinkInit PROVE IInv
  OBVIOUS
<1>1. TypeOK BY InitTypeOK
<1>2. Settling BY DEF LinkInit, Settling, Settled
<1>3. Exchanges
  <2>1. \A t \in Callers : callers[t].doing = "ask" /\ callers[t].at = 1 BY DEF LinkInit
  <2>2. \A r \in Requests : future[r].is = "unmade" BY DEF LinkInit, Settled
  <2>. QED BY <2>1, <2>2, BatchElements DEF Exchanges
<1>4. OwnAnswers BY DEF LinkInit, OwnAnswers, Settled
<1>5. Window BY DEF LinkInit, Window
<1>6. got <= sent /\ sent <= 2 * Len(stream) /\ sending = <<>> BY DEF LinkInit
<1>. QED BY <1>1, <1>2, <1>3, <1>4, <1>5, <1>6 DEF IInv

LEMMA StepIInv == IInv /\ [LinkNext]_linkVars => IInv'
<1> SUFFICES ASSUME IInv, [LinkNext]_linkVars PROVE IInv'
  OBVIOUS
<1>1. TypeOK'
  <2>1. CASE UNCHANGED linkVars
    BY <2>1, LineUnchanged, StateUnchanged, ThreadsUnchanged, SocketUnchanged, OutcomesUnchanged
       DEF IInv, TypeOK, linkVars, line, state, socket
  <2>. QED BY <2>1, CallerType, SenderType, ReceiverType, RestType DEF LinkNext, IInv
<1>2. unasked' = 0 => OwnAnswers' /\ Window'
  BY UnaskedGrows, OwnAnswersKept, WindowKept DEF IInv
<1>. QED BY <1>1, <1>2, SettlingKept, ExchangesKept, HalvesKept, SendingKept DEF IInv

LEMMA Invariance == LinkSpec => []IInv
<1>. QED BY InitIInv, StepIInv, PTL DEF LinkSpec

(* Unless the peer says something unasked, each request is answered with its own response; and an   *)
(* exchange that returns has whole, signed responses to all its requests (_deliver matches by order *)
(* alone; PeerSession.exchange).                                                                   *)
THEOREM EachAnsweredItsOwn == LinkSpec => []AnswersTrue
<1>1. IInv => AnswersTrue
  BY DEF IInv, AnswersTrue, ExchangedWhole, Exchanges, Good
<1>. QED BY <1>1, Invariance, PTL

(* A connection is a line of requests: they are settled in the order they were made, none made once *)
(* it has closed, none answered after one has failed.                                               *)
THEOREM ConnectionIsLine == LinkSpec => ImplementsLine
<1>1. LinkInit => Line!Init
  BY DEF LinkInit, Line!Init, Settled
<1>2. IInv /\ [LinkNext]_linkVars => [Line!Next]_Line!vars
  <2> SUFFICES ASSUME IInv, [LinkNext]_linkVars PROVE [Line!Next]_Line!vars
    OBVIOUS
  <2>1. future \in [Requests -> Futures] /\ waiting \in Seq(Requests) /\ closed \in BOOLEAN /\ closed' \in BOOLEAN
    <3>1. StateTypes' BY StepIInv DEF IInv, TypeOK
    <3>. QED BY <3>1 DEF IInv, TypeOK, OutcomeTypes, LineTypes, StateTypes
  <2>2. closed => closed' BY CloseLasts
  <2>3. CASE UNCHANGED <<waiting, future>>
    <3>1. CASE closed' = closed BY <2>3, <3>1 DEF Line!vars
    <3>2. CASE closed' # closed
      <4>1. Line!Close BY <2>1, <2>2, <2>3, <3>2 DEF Line!Close
      <4>. QED BY <4>1 DEF Line!Next
    <3>. QED BY <3>1, <3>2
  <2>4. ASSUME NEW t \in Callers, Asked(t), UNCHANGED closed PROVE Line!Next
    <3>1. PICK r \in Requests : r = At(t)
      BY <2>4, AskedIsUnmade
    <3>2. /\ future[r].is = "unmade" /\ ~closed
          /\ future' = [future EXCEPT ![r] = Settled("pending")] /\ waiting' = Append(waiting, r)
      BY <2>4, <3>1, AskedIsUnmade DEF Asked, Queue
    <3>3. [q \in Requests |-> future'[q].is] = [[q \in Requests |-> future[q].is] EXCEPT ![r] = "pending"]
      BY <2>1, <3>2 DEF Settled
    <3>4. Line!Ask(r) BY <2>4, <3>2, <3>3 DEF Line!Ask
    <3>. QED BY <3>4 DEF Line!Next
  <2>5. CASE Completed
    <3>1. /\ waiting # <<>> /\ waiting' = Tail(waiting) /\ Head(waiting) = waiting[1] /\ waiting[1] \in Requests
      BY <2>5, CompletedIsPending DEF Completed
    <3>2. PICK answer \in Futures : answer.is = "answered" /\ future' = [future EXCEPT ![waiting[1]] = answer]
      BY <2>5, CompletedIsPending
    <3>3. [r \in Requests |-> future'[r].is] = [[r \in Requests |-> future[r].is] EXCEPT ![Head(waiting)] = "answered"]
      BY <2>1, <3>1, <3>2
    <3>4. (~closed)' \in {~closed, FALSE} BY <2>1, <2>2
    <3>5. Line!Answer BY <3>1, <3>3, <3>4 DEF Line!Answer
    <3>. QED BY <3>5 DEF Line!Next
  <2>6. CASE FailsWaiting
    <3>1. waiting' = <<>> /\ closed /\ closed' = closed
      BY <2>6 DEF FailsWaiting, IInv, Settling, state
    <3>2. [r \in Requests |-> future'[r].is]
            = [r \in Requests |-> IF future[r].is = "pending" THEN "failed" ELSE future[r].is]
      BY <2>1, <2>6 DEF FailsWaiting, IInv, Settling, Settled
    <3>3. Line!FailAll BY <3>1, <3>2 DEF Line!FailAll
    <3>. QED BY <3>3 DEF Line!Next
  <2>. QED BY <2>3, <2>4, <2>5, <2>6, KindsOfStep
<1>. QED BY <1>1, <1>2, Invariance, PTL DEF LinkSpec, ImplementsLine, Line!Spec
-----------------------------------------------------------------------------
(* What the connection manager knows of its connections. Of a sequence of  *)
(* them only its length counts, and of each only what is read here.        *)

Sequence(s) == \E n \in Nat : s = [i \in 1..n |-> s[i]]
SessionFields == {"node", "endpoint", "open", "away", "stage", "tail", "busy", "refresh", "talks", "pushed", "named"}
SessionsHold == Sequence(sessions) /\ \A s \in DOMAIN sessions : SessionFields \subseteq DOMAIN sessions[s]

(* Who is connected to is in the mix, and all in the mix are the           *)
(* connection to their nodes.                                              *)
PeersHold == \A n \in Connected : peers[n] \in InMix /\ sessions[peers[n]].node = n

TrustHolds == ~trust.known => trust.allowed = {}
MainHolds == {"pc", "todo", "at"} \subseteq DOMAIN main

(* A connection that a dial has opened is refused, or taken into the mix,  *)
(* by that dial alone.                                                     *)
AwaitsAdmission(S, s) == s \in DOMAIN S /\ S[s].stage = "dialed"
DialFields == {"pc", "node", "endpoints", "turn", "session"}
DialsHold ==
    /\ dialing = [k \in Keys |-> dialing[k]]
    /\ \A k \in Keys :
          /\ DialFields \subseteq DOMAIN dialing[k]
          /\ dialing[k].pc = "admit" => AwaitsAdmission(sessions, dialing[k].session)
    /\ \A j, k \in Keys :
          dialing[j].pc = "admit" /\ dialing[k].pc = "admit" /\ dialing[j].session = dialing[k].session => j = k

AskFields == {"pc", "session", "endpoint", "outcome", "refusal", "current"}
AsksHold ==
    /\ asked = [d \in Dials |-> asked[d]]
    /\ \A d \in Dials :
          /\ AskFields \subseteq DOMAIN asked[d]
          /\ asked[d].pc = "admit" => AwaitsAdmission(sessions, asked[d].session)
    /\ \A c, d \in Dials :
          asked[c].pc = "admit" /\ asked[d].pc = "admit" /\ asked[c].session = asked[d].session => c = d
    /\ \A k \in Keys, d \in Dials :
          dialing[k].pc = "admit" /\ asked[d].pc = "admit" => dialing[k].session # asked[d].session

(* While whom this node trusts stays as it was, why a connection was       *)
(* refused stays true of its node.                                         *)
RefusalHolds(ask) ==
    LET n == sessions[ask.session].node
    IN  /\ ask.session \in DOMAIN sessions
        /\ \/ ask.refusal = "stopping" /\ ~running
           \/ ask.refusal = "own" /\ n = Own
           \/ ask.refusal \in {"unknown", "refused"} /\ ~Allowed(n)
           \/ ask.refusal = "duplicate" /\ Allowed(n)
RefusalsHold == \A d \in Dials : asked[d].pc = "refused" /\ asked[d].current => RefusalHolds(asked[d])

ConnectionsHold ==
    /\ SessionsHold /\ PeersHold /\ TrustHolds /\ MainHolds /\ DialsHold /\ AsksHold /\ RefusalsHold
    /\ NoneLostSight /\ OnlyAllowed /\ DialsToldTruly

LEMMA ConnectionsHoldAtFirst == ConnectionInit => ConnectionsHold
<1> SUFFICES ASSUME ConnectionInit  PROVE ConnectionsHold  OBVIOUS
<1> DEFINE c == start.connected
<1>1. /\ c \in Seq(Endpoints) /\ start.trust \in Trusts
      /\ \A i, j \in DOMAIN c : NodeAt[c[i]] \in start.trust.allowed /\ (NodeAt[c[i]] = NodeAt[c[j]] => i = j)
  BY ConnectionsAssumption DEF ConnectionInit
<1> DEFINE Old(i) == [Session(c[i]) EXCEPT !.stage = "admitted", !.busy = FALSE]
<1>2. sessions = [i \in DOMAIN c |-> Old(i)]
  BY DEF ConnectionInit
<1>3. DOMAIN c = 1..Len(c) /\ Len(c) \in Nat
  BY <1>1
<1>4. \A i \in DOMAIN c : /\ Old(i).node = NodeAt[c[i]] /\ Old(i).stage = "admitted"
                          /\ DOMAIN Old(i) = SessionFields
  BY DEF Session, Identity, SessionFields
<1> HIDE DEF Old, c
<1>5. Sequence(sessions)
  BY <1>2, <1>3 DEF Sequence
<1>6. SessionsHold
  BY <1>2, <1>4, <1>5 DEF SessionsHold
<1>7. InMix = DOMAIN c
  BY <1>2, <1>4 DEF InMix
<1>8. ToSet(c) = {c[i] : i \in DOMAIN c}
  BY DEF ToSet
<1>9. peers = [n \in {NodeAt[c[i]] : i \in DOMAIN c} |-> CHOOSE i \in DOMAIN c : NodeAt[c[i]] = n]
  <2>1. {NodeAt[e] : e \in ToSet(c)} = {NodeAt[c[i]] : i \in DOMAIN c}
    BY <1>8
  <2>2. peers = [n \in {NodeAt[e] : e \in ToSet(c)} |-> CHOOSE i \in DOMAIN c : NodeAt[c[i]] = n]
    BY DEF ConnectionInit, c
  <2> QED  BY <2>1, <2>2
<1>10. \A i \in DOMAIN c : NodeAt[c[i]] \in Connected /\ peers[NodeAt[c[i]]] = i
  BY <1>1, <1>9 DEF Connected
<1>11. PeersHold /\ NoneLostSight
  BY <1>2, <1>4, <1>7, <1>9, <1>10 DEF PeersHold, NoneLostSight, Connected
<1>12. TrustHolds /\ trust = start.trust
  <2>1. trust = start.trust
    BY DEF ConnectionInit
  <2>2. \A nodes : Allowing(nodes).known
    BY DEF Allowing
  <2>3. ~trust.known => trust = Untold
    BY <1>1, <2>1, <2>2 DEF Trusts
  <2> QED  BY <2>1, <2>3 DEF TrustHolds, Untold
<1>13. OnlyAllowed
  BY <1>1, <1>9, <1>12 DEF OnlyAllowed, Connected, Allowed
<1>14. MainHolds
  BY DEF MainHolds, ConnectionInit, Busy
<1>15. /\ dialing = [k \in Keys |-> Idle] /\ asked = [d \in Dials |-> NotAsked]
       /\ Idle.pc = "idle" /\ NotAsked.pc = "idle" /\ DOMAIN Idle = DialFields /\ DOMAIN NotAsked = AskFields
  BY DEF ConnectionInit, Idle, NotAsked, DialFields, AskFields
<1>16. DialsHold /\ AsksHold /\ RefusalsHold /\ DialsToldTruly
  BY <1>15 DEF DialsHold, AsksHold, RefusalsHold, DialsToldTruly
<1> QED  BY <1>6, <1>11, <1>12, <1>13, <1>14, <1>16 DEF ConnectionsHold

(* What a step may do to the connections without taking any in or out:     *)
(* close some, and say things over them.                                   *)
Calmer ==
    /\ Sequence(sessions')
    /\ DOMAIN sessions' = DOMAIN sessions
    /\ \A s \in DOMAIN sessions :
          /\ SessionFields \subseteq DOMAIN sessions'[s]
          /\ sessions'[s].node = sessions[s].node
          /\ sessions'[s].stage = sessions[s].stage
          /\ sessions'[s].open => sessions[s].open

(* No dial comes to await admission. *)
DialsDrop ==
    /\ dialing' = [k \in Keys |-> dialing'[k]]
    /\ \A k \in Keys : \/ dialing'[k] = dialing[k]
                       \/ DialFields \subseteq DOMAIN dialing'[k] /\ dialing'[k].pc # "admit"
AsksDrop ==
    /\ asked' = [d \in Dials |-> asked'[d]]
    /\ \A d \in Dials : \/ asked'[d] = asked[d]
                        \/ /\ AskFields \subseteq DOMAIN asked'[d]
                           /\ asked'[d].pc = asked[d].pc /\ asked'[d].session = asked[d].session
                        \/ AskFields \subseteq DOMAIN asked'[d] /\ asked'[d].pc # "admit"

LEMMA CalmSteps ==
  ASSUME ConnectionsHold, Calmer, DialsDrop, AsksDrop, peers' = peers,
         TrustHolds', MainHolds', RefusalsHold', OnlyAllowed', DialsToldTruly'
  PROVE  ConnectionsHold'
<1>1. SessionsHold'
  BY DEF Calmer, SessionsHold
<1>2. InMix' = InMix
  BY DEF Calmer, InMix
<1>3. PeersHold' /\ NoneLostSight'
  BY <1>2 DEF ConnectionsHold, PeersHold, NoneLostSight, Connected, Calmer, InMix
<1>4. \A s : AwaitsAdmission(sessions, s) => AwaitsAdmission(sessions', s)
  BY DEF AwaitsAdmission, Calmer
<1>5. \A k \in Keys : /\ DialFields \subseteq DOMAIN dialing'[k]
                      /\ dialing'[k].pc = "admit" => dialing[k].pc = "admit" /\ dialing'[k].session = dialing[k].session
  BY DEF ConnectionsHold, DialsHold, DialsDrop
<1>6. \A d \in Dials : /\ AskFields \subseteq DOMAIN asked'[d]
                       /\ asked'[d].pc = "admit" => asked[d].pc = "admit" /\ asked'[d].session = asked[d].session
  BY DEF ConnectionsHold, AsksHold, AsksDrop
<1>7. DialsHold'
  BY <1>4, <1>5 DEF ConnectionsHold, DialsHold, DialsDrop
<1>8. AsksHold'
  BY <1>4, <1>5, <1>6 DEF ConnectionsHold, AsksHold, AsksDrop
<1> QED  BY <1>1, <1>3, <1>7, <1>8 DEF ConnectionsHold

LEMMA CalmerRefusals ==
  ASSUME ConnectionsHold, Calmer, running' = running, trust' = trust
  PROVE  \A ask : RefusalHolds(ask) => RefusalHolds(ask)'
BY DEF Calmer, RefusalHolds, Allowed

(* Of the dials asked for, none is changed. *)
LEMMA CalmerAlone ==
  ASSUME ConnectionsHold, Calmer, DialsDrop, UNCHANGED <<main, running, trust, peers, asked>>
  PROVE  ConnectionsHold'
<1>1. AsksDrop /\ TrustHolds' /\ MainHolds' /\ DialsToldTruly'
  BY DEF ConnectionsHold, AsksHold, AsksDrop, TrustHolds, MainHolds, DialsToldTruly
<1>2. RefusalsHold'
  BY CalmerRefusals DEF ConnectionsHold, RefusalsHold
<1>3. OnlyAllowed'
  BY DEF ConnectionsHold, OnlyAllowed, Connected, Allowed, Calmer, PeersHold, InMix
<1> QED  BY <1>1, <1>2, <1>3, CalmSteps

LEMMA SameDials == ConnectionsHold /\ dialing' = dialing => DialsDrop
BY DEF ConnectionsHold, DialsHold, DialsDrop
LEMMA SameAsks == ConnectionsHold /\ asked' = asked => AsksDrop
BY DEF ConnectionsHold, AsksHold, AsksDrop
LEMMA SameSessions == ConnectionsHold /\ sessions' = sessions => Calmer
BY DEF ConnectionsHold, SessionsHold, Calmer

(* One connection changed is a calmer step, and so are many. *)
LEMMA CalmerEach ==
  ASSUME ConnectionsHold, sessions' = [s \in DOMAIN sessions |-> sessions'[s]],
         \A s \in DOMAIN sessions :
            /\ SessionFields \subseteq DOMAIN sessions'[s]
            /\ sessions'[s].node = sessions[s].node
            /\ sessions'[s].stage = sessions[s].stage
            /\ sessions'[s].open => sessions[s].open
  PROVE  Calmer
<1>1. Sequence(sessions')
  BY DEF ConnectionsHold, SessionsHold, Sequence
<1>2. DOMAIN sessions' = DOMAIN sessions
  OBVIOUS
<1> QED  BY <1>1, <1>2 DEF Calmer

LEMMA CalmerOne ==
  ASSUME ConnectionsHold, NEW t, NEW other, sessions' = [sessions EXCEPT ![t] = other],
         t \in DOMAIN sessions =>
            /\ SessionFields \subseteq DOMAIN other
            /\ other.node = sessions[t].node
            /\ other.stage = sessions[t].stage
            /\ other.open => sessions[t].open
  PROVE  Calmer
<1>1. Sequence(sessions')
  BY DEF ConnectionsHold, SessionsHold, Sequence
<1> QED  BY <1>1 DEF Calmer, ConnectionsHold, SessionsHold

LEMMA MaintainDrops == ConnectionsHold /\ Maintain => DialsDrop
<1> SUFFICES ASSUME ConnectionsHold, Maintain  PROVE DialsDrop  OBVIOUS
<1>1. CASE UNCHANGED dialing
  BY <1>1, SameDials
<1>2. CASE ~UNCHANGED dialing
  <2> DEFINE For(k) == {c \in ToSet(Wanted) : Key(c) = k}
             NextOf(k) == IF For(k) = {} THEN dialing[k] ELSE Dialed(CHOOSE c \in For(k) : TRUE)
  <2>1. dialing' = [k \in Keys |-> NextOf(k)]
    BY <1>2 DEF Maintain
  <2>2. \A c : DialFields \subseteq DOMAIN Dialed(c) /\ Dialed(c).pc = "open"
    BY DEF Dialed, Idle, DialFields
  <2>3. \A k \in Keys : NextOf(k) = dialing[k] \/ \E c : NextOf(k) = Dialed(c)
    OBVIOUS
  <2> HIDE DEF New
  <2> QED  BY <2>1, <2>2, <2>3 DEF DialsDrop
<1> QED  BY <1>1, <1>2

(* A dial opens a connection, which then awaits admission by it alone.     *)
Longer(e, t) ==
    /\ Sequence(sessions') /\ DOMAIN sessions' = DOMAIN sessions \cup {t} /\ t \notin DOMAIN sessions
    /\ \A s \in DOMAIN sessions : sessions'[s] = sessions[s]
    /\ sessions'[t] = Session(e)

LEMMA OpensOne == ASSUME SessionsHold, NEW e, Opens(e)  PROVE Longer(e, Len(sessions'))
<1>1. PICK n \in Nat : sessions = [i \in 1..n |-> sessions[i]]
  BY DEF SessionsHold, Sequence
<1> DEFINE S == {sessions[i] : i \in 1..n} \cup {Session(e)}
<1>2. sessions \in Seq(S) /\ Len(sessions) = n /\ Session(e) \in S
  <2>1. sessions \in [1..n -> S]
    BY <1>1
  <2> HIDE DEF S
  <2>2. sessions \in Seq(S)
    BY <2>1
  <2>3. Len(sessions) = n
    BY <2>1, <2>2
  <2> QED  BY <2>2, <2>3 DEF S
<1> HIDE DEF S
<1>3. sessions' = Append(sessions, Session(e))
  BY DEF Opens
<1>4. /\ Len(sessions') = n + 1 /\ DOMAIN sessions' = 1..(n + 1)
      /\ \A i \in 1..n : sessions'[i] = sessions[i]
      /\ sessions'[n + 1] = Session(e)
      /\ sessions' \in Seq(S)
  BY <1>2, <1>3
<1>5. Sequence(sessions')
  BY <1>4 DEF Sequence
<1>6. DOMAIN sessions = 1..n
  BY <1>1
<1> QED  BY <1>4, <1>5, <1>6 DEF Longer

LEMMA LongerHolds ==
  ASSUME ConnectionsHold, NEW e, NEW t, Longer(e, t), UNCHANGED <<main, running, trust, peers>>
  PROVE  /\ SessionsHold' /\ PeersHold' /\ TrustHolds' /\ MainHolds' /\ NoneLostSight' /\ OnlyAllowed'
         /\ \A s : AwaitsAdmission(sessions, s) => AwaitsAdmission(sessions', s)
         /\ AwaitsAdmission(sessions', t) /\ ~AwaitsAdmission(sessions, t)
         /\ \A ask : RefusalHolds(ask) => RefusalHolds(ask)'
<1>1. DOMAIN Session(e) = SessionFields /\ Session(e).stage = "dialed"
  BY DEF Session, SessionFields
<1>2. SessionsHold'
  BY <1>1 DEF ConnectionsHold, SessionsHold, Longer
<1>3. InMix' = InMix
  BY <1>1 DEF Longer, InMix
<1>4. PeersHold' /\ NoneLostSight'
  BY <1>3 DEF ConnectionsHold, PeersHold, NoneLostSight, Connected, Longer, InMix
<1>5. TrustHolds' /\ MainHolds'
  BY DEF ConnectionsHold, TrustHolds, MainHolds
<1>6. OnlyAllowed'
  BY DEF ConnectionsHold, OnlyAllowed, Connected, Allowed, Longer, PeersHold, InMix
<1>7. /\ \A s : AwaitsAdmission(sessions, s) => AwaitsAdmission(sessions', s)
      /\ AwaitsAdmission(sessions', t) /\ ~AwaitsAdmission(sessions, t)
  BY <1>1 DEF AwaitsAdmission, Longer
<1>8. \A ask : RefusalHolds(ask) => RefusalHolds(ask)'
  BY DEF RefusalHolds, Allowed, Longer
<1> QED  BY <1>2, <1>4, <1>5, <1>6, <1>7, <1>8

LEMMA StepDialOpens == ASSUME ConnectionsHold, NEW k \in Keys, DialOpens(k)  PROVE ConnectionsHold'
<1> DEFINE dial == dialing[k]
           e == dial.endpoints[dial.turn]
<1>1. CASE Opens(e) /\ dialing' = [dialing EXCEPT ![k].pc = "admit", ![k].session = Len(sessions')]
  <2>1. PICK t : t = Len(sessions') /\ Longer(e, t)
    BY <1>1, OpensOne DEF ConnectionsHold
  <2>2. UNCHANGED <<main, running, trust, peers, asked>>
    BY DEF DialOpens
  <2> HIDE DEF e
  <2>3. /\ dialing' = [j \in Keys |-> dialing'[j]]
        /\ \A j \in Keys \ {k} : dialing'[j] = dialing[j]
        /\ DialFields \subseteq DOMAIN dialing'[k] /\ dialing'[k].pc = "admit" /\ dialing'[k].session = t
    BY <1>1, <2>1 DEF ConnectionsHold, DialsHold, DialFields
  <2>4. DialsHold'
    BY <2>1, <2>2, <2>3, LongerHolds DEF ConnectionsHold, DialsHold
  <2>5. AsksHold'
    BY <2>1, <2>2, <2>3, LongerHolds DEF ConnectionsHold, AsksHold
  <2>6. RefusalsHold' /\ DialsToldTruly'
    BY <2>1, <2>2, LongerHolds DEF ConnectionsHold, RefusalsHold, DialsToldTruly
  <2> QED  BY <2>1, <2>2, <2>4, <2>5, <2>6, LongerHolds DEF ConnectionsHold
<1>2. CASE dialing' = [dialing EXCEPT ![k] = NextEndpoint(@)] /\ UNCHANGED <<sessions, events>>
  <2>1. DialFields \subseteq DOMAIN NextEndpoint(dial) /\ NextEndpoint(dial).pc # "admit"
    BY DEF NextEndpoint, ConnectionsHold, DialsHold, DialFields
  <2>2. DialsDrop
    BY <1>2, <2>1 DEF DialsDrop, ConnectionsHold, DialsHold
  <2> QED  BY <1>2, <2>2, SameSessions, CalmerAlone DEF DialOpens
<1> QED  BY <1>1, <1>2 DEF DialOpens

LEMMA StepAskedOpens == ASSUME ConnectionsHold, NEW d \in Dials, AskedOpens(d)  PROVE ConnectionsHold'
<1> DEFINE e == asked[d].endpoint
<1>1. CASE Opens(e) /\ asked' = [asked EXCEPT ![d].pc = "admit", ![d].session = Len(sessions')]
  <2>1. PICK t : t = Len(sessions') /\ Longer(e, t)
    BY <1>1, OpensOne DEF ConnectionsHold
  <2>2. UNCHANGED <<main, running, trust, peers, dialing>>
    BY DEF AskedOpens
  <2> HIDE DEF e
  <2>3. /\ asked' = [c \in Dials |-> asked'[c]]
        /\ \A c \in Dials \ {d} : asked'[c] = asked[c]
        /\ AskFields \subseteq DOMAIN asked'[d] /\ asked'[d].pc = "admit" /\ asked'[d].session = t
    BY <1>1, <2>1 DEF ConnectionsHold, AsksHold, AskFields
  <2>4. DialsHold'
    BY <2>1, <2>2, LongerHolds DEF ConnectionsHold, DialsHold
  <2>5. AsksHold'
    BY <2>1, <2>2, <2>3, LongerHolds DEF ConnectionsHold, DialsHold, AsksHold
  <2>6. RefusalsHold' /\ DialsToldTruly'
    BY <2>1, <2>2, <2>3, LongerHolds DEF ConnectionsHold, RefusalsHold, DialsToldTruly
  <2> QED  BY <2>1, <2>2, <2>4, <2>5, <2>6, LongerHolds DEF ConnectionsHold
<1>2. CASE /\ asked' = [asked EXCEPT ![d].pc = "told", ![d].outcome = "unreached"]
           /\ UNCHANGED <<sessions, events>>
  <2>1. /\ asked' = [c \in Dials |-> asked'[c]]
        /\ \A c \in Dials \ {d} : asked'[c] = asked[c]
        /\ AskFields \subseteq DOMAIN asked'[d] /\ asked'[d].pc = "told" /\ asked'[d].outcome = "unreached"
    BY <1>2 DEF ConnectionsHold, AsksHold, AskFields
  <2>2. UNCHANGED <<main, running, trust, peers, dialing, sessions>>
    BY <1>2 DEF AskedOpens
  <2>3. AsksDrop
    BY <2>1 DEF AsksDrop
  <2>4. Calmer /\ DialsDrop
    BY <2>2, SameSessions, SameDials
  <2>5. RefusalsHold'
    BY <2>1, <2>2, <2>4, CalmerRefusals DEF ConnectionsHold, RefusalsHold
  <2>6. DialsToldTruly'
    BY <2>1 DEF ConnectionsHold, DialsToldTruly
  <2>7. TrustHolds' /\ MainHolds' /\ OnlyAllowed'
    BY <2>2 DEF ConnectionsHold, TrustHolds, MainHolds, OnlyAllowed, Connected, Allowed
  <2> QED  BY <2>2, <2>3, <2>4, <2>5, <2>6, <2>7, CalmSteps
<1> QED  BY <1>1, <1>2 DEF AskedOpens

(* A connection that awaits admission is taken into the mix, or refused. *)
LEMMA AdmitsOne ==
  ASSUME ConnectionsHold, NEW s, NEW tail, AwaitsAdmission(sessions, s), Admit(s, tail),
         UNCHANGED <<main, running, trust>>
  PROVE  /\ SessionsHold' /\ PeersHold' /\ TrustHolds' /\ MainHolds' /\ NoneLostSight' /\ OnlyAllowed'
         /\ \A q : AwaitsAdmission(sessions, q) /\ q # s => AwaitsAdmission(sessions', q)
         /\ \A ask : RefusalHolds(ask) => RefusalHolds(ask)'
         /\ \A ask : ask.session = s /\ ask.refusal = Refusal(s) /\ Refusal(s) # "none" => RefusalHolds(ask)'
<1> DEFINE n == sessions[s].node
           session == IF Refusal(s) = "none" THEN [sessions[s] EXCEPT !.stage = "admitted", !.tail = tail]
                      ELSE [sessions[s] EXCEPT !.stage = "gone", !.open = FALSE]
<1>1. sessions' = [sessions EXCEPT ![s] = session]
  BY DEF Admit
<1>2. s \in DOMAIN sessions /\ sessions[s].stage = "dialed" /\ SessionFields \subseteq DOMAIN sessions[s]
  BY DEF AwaitsAdmission, ConnectionsHold, SessionsHold
<1>3. /\ SessionFields \subseteq DOMAIN session /\ session.node = n
      /\ session.stage = IF Refusal(s) = "none" THEN "admitted" ELSE "gone"
  BY <1>2 DEF SessionFields
<1> HIDE DEF session
<1>4. SessionsHold'
  <2>1. Sequence(sessions')
    BY <1>1 DEF ConnectionsHold, SessionsHold, Sequence
  <2> QED  BY <2>1, <1>1, <1>3 DEF ConnectionsHold, SessionsHold
<1>5. /\ DOMAIN sessions' = DOMAIN sessions
      /\ \A q \in DOMAIN sessions : sessions'[q].node = sessions[q].node
      /\ \A q \in DOMAIN sessions \ {s} : sessions'[q] = sessions[q]
      /\ sessions'[s].stage = IF Refusal(s) = "none" THEN "admitted" ELSE "gone"
  BY <1>1, <1>2, <1>3
<1>6. TrustHolds' /\ MainHolds'
  BY DEF ConnectionsHold, TrustHolds, MainHolds
<1>7. \A q : AwaitsAdmission(sessions, q) /\ q # s => AwaitsAdmission(sessions', q)
  BY <1>5 DEF AwaitsAdmission
<1>8. \A ask : RefusalHolds(ask) => RefusalHolds(ask)'
  BY <1>5 DEF RefusalHolds, Allowed
<1>9. /\ Refusal(s) = "none" => running /\ n # Own /\ trust.known /\ Allowed(n) /\ n \notin Connected
      /\ Refusal(s) = "stopping" => ~running
      /\ Refusal(s) = "own" => n = Own
      /\ Refusal(s) = "unknown" => ~trust.known
      /\ Refusal(s) = "refused" => ~Allowed(n)
      /\ Refusal(s) = "duplicate" => Allowed(n)
      /\ Refusal(s) \in {"none", "stopping", "own", "unknown", "refused", "duplicate"}
  BY DEF Refusal
<1>10. \A ask : ask.session = s /\ ask.refusal = Refusal(s) /\ Refusal(s) # "none" => RefusalHolds(ask)'
  BY <1>2, <1>5, <1>9 DEF RefusalHolds, Allowed, ConnectionsHold, TrustHolds
<1>11. CASE Refusal(s) = "none"
  <2>1. peers' = With(peers, n, s)
    BY <1>11 DEF Admit
  <2>2. InMix' = InMix \cup {s}
    BY <1>2, <1>5, <1>11 DEF InMix
  <2>3. /\ Connected' = Connected \cup {n} /\ peers'[n] = s
        /\ \A m \in Connected \ {n} : peers'[m] = peers[m]
    BY <2>1 DEF With, Connected
  <2>4. PeersHold' /\ NoneLostSight'
    <3>1. \A m \in Connected' : peers'[m] \in InMix' /\ sessions'[peers'[m]].node = m
      BY <1>2, <1>5, <2>2, <2>3 DEF ConnectionsHold, PeersHold, InMix
    <3>2. \A q \in InMix' : sessions'[q].node \in Connected' /\ peers'[sessions'[q].node] = q
      <4>1. \A q \in InMix : sessions[q].node \in Connected \ {n} /\ peers[sessions[q].node] = q
        BY <1>9, <1>11 DEF ConnectionsHold, NoneLostSight
      <4>2. \A q \in InMix : sessions'[q].node = sessions[q].node
        BY <1>5 DEF InMix
      <4> QED  BY <1>2, <1>5, <2>2, <2>3, <4>1, <4>2
    <3> QED  BY <3>1, <3>2 DEF PeersHold, NoneLostSight
  <2>5. OnlyAllowed'
    <3>1. \A m \in Connected \ {n} : peers[m] \in DOMAIN sessions \ {s}
      BY <1>2 DEF ConnectionsHold, PeersHold, InMix
    <3> QED  BY <1>5, <1>9, <1>11, <2>3, <3>1 DEF ConnectionsHold, OnlyAllowed, Allowed
  <2> QED  BY <1>4, <1>6, <1>7, <1>8, <1>10, <2>4, <2>5
<1>12. CASE Refusal(s) # "none"
  <2>1. peers' = peers
    BY <1>12 DEF Admit
  <2>2. InMix' = InMix /\ s \notin InMix
    BY <1>2, <1>5, <1>12 DEF InMix
  <2>3. \A q \in InMix : sessions'[q] = sessions[q]
    BY <1>5, <2>2 DEF InMix
  <2>4. PeersHold' /\ NoneLostSight'
    BY <2>1, <2>2, <2>3 DEF ConnectionsHold, PeersHold, NoneLostSight, Connected
  <2>5. OnlyAllowed'
    BY <2>1, <2>2, <2>3 DEF ConnectionsHold, PeersHold, OnlyAllowed, Allowed, Connected
  <2> QED  BY <1>4, <1>6, <1>7, <1>8, <1>10, <2>4, <2>5
<1> QED  BY <1>11, <1>12

LEMMA StepDialAdmits == ASSUME ConnectionsHold, NEW k \in Keys, DialAdmits(k)  PROVE ConnectionsHold'
<1> DEFINE dial == dialing[k]
           s == dial.session
           next == IF Refusal(s) = "none" THEN [dial EXCEPT !.pc = "ended"]
                   ELSE IF ~running \/ sessions[s].node = dial.node
                   THEN [dial EXCEPT !.pc = "ended", !.session = NoSession]
                   ELSE NextEndpoint(dial)
<1>1. dial.pc = "admit" /\ AwaitsAdmission(sessions, s)
  BY DEF DialAdmits, ConnectionsHold, DialsHold
<1>2. Admit(s, "dialing") /\ dialing' = [dialing EXCEPT ![k] = next] /\ UNCHANGED <<main, running, trust, asked>>
  BY DEF DialAdmits
<1>3. DialFields \subseteq DOMAIN next /\ next.pc # "admit"
  BY DEF NextEndpoint, ConnectionsHold, DialsHold, DialFields
<1> HIDE DEF next
<1>4. /\ dialing' = [j \in Keys |-> dialing'[j]]
      /\ \A j \in Keys \ {k} : dialing'[j] = dialing[j]
      /\ DialFields \subseteq DOMAIN dialing'[k] /\ dialing'[k].pc # "admit"
  BY <1>2, <1>3 DEF ConnectionsHold, DialsHold
<1>5. DialsHold'
  BY <1>1, <1>2, <1>4, AdmitsOne DEF ConnectionsHold, DialsHold
<1>6. AsksHold'
  BY <1>1, <1>2, <1>4, AdmitsOne DEF ConnectionsHold, AsksHold
<1>7. RefusalsHold' /\ DialsToldTruly'
  BY <1>1, <1>2, AdmitsOne DEF ConnectionsHold, RefusalsHold, DialsToldTruly
<1> QED  BY <1>1, <1>2, <1>5, <1>6, <1>7, AdmitsOne DEF ConnectionsHold

LEMMA StepAskedAdmits == ASSUME ConnectionsHold, NEW d \in Dials, AskedAdmits(d)  PROVE ConnectionsHold'
<1> DEFINE s == asked[d].session
           next == IF Refusal(s) = "none" THEN [asked[d] EXCEPT !.pc = "told", !.outcome = "connected"]
                   ELSE [asked[d] EXCEPT !.pc = "refused", !.refusal = Refusal(s)]
<1>1. asked[d].pc = "admit" /\ AwaitsAdmission(sessions, s)
  BY DEF AskedAdmits, ConnectionsHold, AsksHold
<1>2. Admit(s, "greet") /\ asked' = [asked EXCEPT ![d] = next] /\ UNCHANGED <<main, running, trust, dialing>>
  BY DEF AskedAdmits
<1>3. /\ AskFields \subseteq DOMAIN next /\ next.session = s
      /\ \/ next.pc = "told" /\ next.outcome = "connected"
         \/ next.pc = "refused" /\ next.refusal = Refusal(s) /\ Refusal(s) # "none"
  BY DEF ConnectionsHold, AsksHold, AskFields
<1> HIDE DEF next
<1>4. /\ asked' = [c \in Dials |-> asked'[c]]
      /\ \A c \in Dials \ {d} : asked'[c] = asked[c]
      /\ asked'[d] = next
  BY <1>2, <1>3 DEF ConnectionsHold, AsksHold
<1> HIDE DEF s
<1>5. DialsHold'
  BY <1>1, <1>2, <1>4, AdmitsOne DEF ConnectionsHold, DialsHold, AsksHold, s
<1>6. AsksHold'
  BY <1>1, <1>2, <1>3, <1>4, AdmitsOne DEF ConnectionsHold, AsksHold, s
<1>7. RefusalsHold'
  BY <1>1, <1>2, <1>3, <1>4, AdmitsOne DEF ConnectionsHold, RefusalsHold
<1>8. DialsToldTruly'
  BY <1>3, <1>4 DEF ConnectionsHold, DialsToldTruly
<1> QED  BY <1>1, <1>2, <1>5, <1>6, <1>7, <1>8, AdmitsOne DEF ConnectionsHold

LEMMA StepDialEnds == ASSUME ConnectionsHold, NEW k \in Keys, DialEnds(k)  PROVE ConnectionsHold'
<1> DEFINE t == dialing[k].session
<1>1. Calmer
  <2>1. CASE sessions' = sessions
    BY <2>1, SameSessions
  <2>2. CASE sessions' = [sessions EXCEPT ![t].tail = "maintain"]
    <3> DEFINE other == [sessions[t] EXCEPT !.tail = "maintain"]
    <3>1. sessions' = [sessions EXCEPT ![t] = other]
      BY <2>2
    <3>2. t \in DOMAIN sessions =>
            /\ SessionFields \subseteq DOMAIN other
            /\ other.node = sessions[t].node
            /\ other.stage = sessions[t].stage
            /\ other.open => sessions[t].open
      BY DEF ConnectionsHold, SessionsHold, SessionFields
    <3> HIDE DEF other
    <3> QED  BY <3>1, <3>2, CalmerOne
  <2> QED  BY <2>1, <2>2 DEF DialEnds
<1>2. DialsDrop
  <2>1. DialFields \subseteq DOMAIN Idle /\ Idle.pc # "admit"
    BY DEF Idle, DialFields
  <2>2. dialing' = [dialing EXCEPT ![k] = Idle]
    BY DEF DialEnds
  <2> QED  BY <2>1, <2>2 DEF DialsDrop, ConnectionsHold, DialsHold
<1> QED  BY <1>1, <1>2, CalmerAlone DEF DialEnds

LEMMA StepAskedTells == ASSUME ConnectionsHold, NEW d \in Dials, AskedTells(d)  PROVE ConnectionsHold'
<1> DEFINE n == sessions[asked[d].session].node
<1>1. UNCHANGED <<main, running, trust, sessions, peers, dialing>> /\ asked[d].pc = "refused"
  BY DEF AskedTells
<1>2. /\ asked' = [c \in Dials |-> asked'[c]]
      /\ \A c \in Dials \ {d} : asked'[c] = asked[c]
      /\ AskFields \subseteq DOMAIN asked'[d]
      /\ asked'[d].pc = "told" /\ asked'[d].outcome = Outcome(n)
      /\ asked'[d].refusal = asked[d].refusal /\ asked'[d].current = asked[d].current
  BY DEF AskedTells, ConnectionsHold, AsksHold, AskFields
<1>3. Calmer /\ DialsDrop /\ AsksDrop
  BY <1>1, <1>2, SameSessions, SameDials DEF AsksDrop
<1>4. TrustHolds' /\ MainHolds' /\ OnlyAllowed'
  BY <1>1 DEF ConnectionsHold, TrustHolds, MainHolds, OnlyAllowed, Connected, Allowed
<1>5. RefusalsHold'
  BY <1>1, <1>2, <1>3, CalmerRefusals DEF ConnectionsHold, RefusalsHold
<1>6. asked[d].current =>
        /\ Outcome(n) = "already_connected" => asked[d].refusal = "duplicate"
        /\ Outcome(n) = "not_trusted" => asked[d].refusal \in {"unknown", "refused"}
  <2>1. /\ Outcome(n) = "already_connected" => n # Own /\ running /\ Allowed(n)
        /\ Outcome(n) = "not_trusted" => n # Own /\ running /\ ~Allowed(n)
    BY DEF Outcome
  <2>2. asked[d].current => RefusalHolds(asked[d])
    BY <1>1 DEF ConnectionsHold, RefusalsHold
  <2> QED  BY <2>1, <2>2 DEF RefusalHolds
<1>7. DialsToldTruly'
  BY <1>2, <1>6 DEF ConnectionsHold, DialsToldTruly
<1> QED  BY <1>1, <1>3, <1>4, <1>5, <1>7, CalmSteps

LEMMA StepOnDialRequested ==
  ASSUME ConnectionsHold, NEW d \in Dials, NEW e, OnDialRequested(d, e)  PROVE ConnectionsHold'
<1> DEFINE next == IF \E n \in Connected : sessions[peers[n]].endpoint = e
                   THEN [NotAsked EXCEPT !.pc = "told", !.endpoint = e,
                             !.outcome = "already_connected", !.refusal = "duplicate"]
                   ELSE [NotAsked EXCEPT !.pc = "open", !.endpoint = e]
<1>1. UNCHANGED <<main, running, trust, sessions, peers, dialing>> /\ asked' = [asked EXCEPT ![d] = next]
  BY DEF OnDialRequested
<1>2. /\ DOMAIN next = AskFields
      /\ \/ next.pc = "told" /\ next.outcome = "already_connected" /\ next.refusal = "duplicate"
         \/ next.pc = "open"
  BY DEF NotAsked, AskFields
<1> HIDE DEF next
<1>3. /\ asked' = [c \in Dials |-> asked'[c]]
      /\ \A c \in Dials \ {d} : asked'[c] = asked[c]
      /\ asked'[d] = next
  BY <1>1 DEF ConnectionsHold, AsksHold
<1>4. AsksDrop
  BY <1>2, <1>3 DEF AsksDrop
<1>5. Calmer /\ DialsDrop
  BY <1>1, SameSessions, SameDials
<1>6. TrustHolds' /\ MainHolds' /\ OnlyAllowed'
  BY <1>1 DEF ConnectionsHold, TrustHolds, MainHolds, OnlyAllowed, Connected, Allowed
<1>7. RefusalsHold'
  BY <1>1, <1>2, <1>3, <1>5, CalmerRefusals DEF ConnectionsHold, RefusalsHold
<1>8. DialsToldTruly'
  BY <1>2, <1>3 DEF ConnectionsHold, DialsToldTruly
<1> QED  BY <1>1, <1>4, <1>5, <1>6, <1>7, <1>8, CalmSteps

(* A connection closed leaves the mix, and the peers. *)
LEMMA StepClosed == ASSUME ConnectionsHold, NEW s \in DOMAIN sessions, Closed(s)  PROVE ConnectionsHold'
<1> DEFINE n == sessions[s].node
           other == [sessions[s] EXCEPT !.stage = "closed"]
<1>1. s \in InMix /\ UNCHANGED <<main, running, trust, dialing, asked>> /\ sessions' = [sessions EXCEPT ![s] = other]
  BY DEF Closed, InMix, dials
<1>2. SessionFields \subseteq DOMAIN other /\ other.node = n /\ other.stage = "closed"
  BY DEF ConnectionsHold, SessionsHold, SessionFields
<1> HIDE DEF other
<1>3. /\ DOMAIN sessions' = DOMAIN sessions
      /\ \A q \in DOMAIN sessions : sessions'[q].node = sessions[q].node
      /\ \A q \in DOMAIN sessions \ {s} : sessions'[q] = sessions[q]
      /\ sessions'[s].stage = "closed"
  BY <1>1, <1>2
<1>4. SessionsHold'
  <2>1. Sequence(sessions')
    BY <1>1 DEF ConnectionsHold, SessionsHold, Sequence
  <2> QED  BY <2>1, <1>1, <1>2 DEF ConnectionsHold, SessionsHold
<1>5. n \in Connected /\ peers[n] = s
  BY <1>1 DEF ConnectionsHold, NoneLostSight
<1>6. peers' = [m \in Connected \ {n} |-> peers[m]]
  BY <1>5 DEF Closed, TakesOut
<1>7. InMix' = InMix \ {s}
  BY <1>3 DEF InMix
<1>8. Connected' = Connected \ {n} /\ \A m \in Connected' : peers'[m] = peers[m] /\ peers[m] # s
  <2>1. Connected' = Connected \ {n} /\ \A m \in Connected' : peers'[m] = peers[m]
    BY <1>6 DEF Connected
  <2>2. \A m \in Connected : sessions[peers[m]].node = m
    BY DEF ConnectionsHold, PeersHold
  <2> QED  BY <2>1, <2>2
<1>9. PeersHold'
  BY <1>3, <1>7, <1>8 DEF ConnectionsHold, PeersHold, InMix
<1>10. NoneLostSight'
  <2>1. \A q \in InMix \ {s} : sessions[q].node # n
    BY <1>5 DEF ConnectionsHold, NoneLostSight
  <2> QED  BY <1>3, <1>7, <1>8, <2>1 DEF ConnectionsHold, NoneLostSight, InMix
<1>11. OnlyAllowed'
  <2>1. \A m \in Connected' : peers[m] \in DOMAIN sessions \ {s}
    BY <1>8 DEF ConnectionsHold, PeersHold, InMix
  <2> QED  BY <1>1, <1>3, <1>8, <2>1 DEF ConnectionsHold, OnlyAllowed, Allowed
<1>12. TrustHolds' /\ MainHolds' /\ DialsToldTruly'
  BY <1>1 DEF ConnectionsHold, TrustHolds, MainHolds, DialsToldTruly
<1>13. \A q : AwaitsAdmission(sessions, q) => AwaitsAdmission(sessions', q)
  BY <1>1, <1>3 DEF AwaitsAdmission, InMix
<1>14. DialsHold' /\ AsksHold'
  <2>1. DialsHold'
    BY <1>1, <1>13 DEF ConnectionsHold, DialsHold
  <2>2. AsksHold'
    BY <1>1, <1>13 DEF ConnectionsHold, AsksHold
  <2> QED  BY <2>1, <2>2
<1>15. RefusalsHold'
  <2>1. \A ask : RefusalHolds(ask) => RefusalHolds(ask)'
    BY <1>1, <1>3 DEF RefusalHolds, Allowed
  <2> QED  BY <1>1, <2>1 DEF ConnectionsHold, RefusalsHold
<1> QED  BY <1>4, <1>9, <1>10, <1>11, <1>12, <1>14, <1>15 DEF ConnectionsHold

(* A connection that has left the mix is done with. *)
LEMMA StepClosedMaintains ==
  ASSUME ConnectionsHold, NEW s \in DOMAIN sessions, ClosedMaintains(s)  PROVE ConnectionsHold'
<1> DEFINE other == [sessions[s] EXCEPT !.stage = "gone"]
<1>1. /\ sessions[s].stage = "closed" /\ UNCHANGED <<main, running, trust, peers, asked>>
      /\ sessions' = [sessions EXCEPT ![s] = other] /\ DialsDrop
  BY MaintainDrops DEF ClosedMaintains
<1>2. SessionFields \subseteq DOMAIN other /\ other.node = sessions[s].node /\ other.stage = "gone"
  BY DEF ConnectionsHold, SessionsHold, SessionFields
<1> HIDE DEF other
<1>3. /\ DOMAIN sessions' = DOMAIN sessions
      /\ \A q \in DOMAIN sessions : sessions'[q].node = sessions[q].node
      /\ \A q \in DOMAIN sessions \ {s} : sessions'[q] = sessions[q]
      /\ sessions'[s].stage = "gone"
  BY <1>1, <1>2
<1>4. SessionsHold'
  <2>1. Sequence(sessions')
    BY <1>1 DEF ConnectionsHold, SessionsHold, Sequence
  <2> QED  BY <2>1, <1>1, <1>2 DEF ConnectionsHold, SessionsHold
<1>5. InMix' = InMix /\ s \notin InMix
  BY <1>1, <1>3 DEF InMix
<1>6. \A q \in InMix : sessions'[q] = sessions[q]
  BY <1>3, <1>5 DEF InMix
<1>7. PeersHold' /\ NoneLostSight'
  BY <1>1, <1>5, <1>6 DEF ConnectionsHold, PeersHold, NoneLostSight, Connected
<1>8. OnlyAllowed'
  BY <1>1, <1>6 DEF ConnectionsHold, PeersHold, OnlyAllowed, Allowed, Connected
<1>9. TrustHolds' /\ MainHolds' /\ DialsToldTruly'
  BY <1>1 DEF ConnectionsHold, TrustHolds, MainHolds, DialsToldTruly
<1>10. \A q : AwaitsAdmission(sessions, q) => AwaitsAdmission(sessions', q)
  BY <1>1, <1>3 DEF AwaitsAdmission
<1>11. \A k \in Keys : /\ DialFields \subseteq DOMAIN dialing'[k]
                       /\ dialing'[k].pc = "admit" => dialing'[k] = dialing[k]
  BY <1>1 DEF ConnectionsHold, DialsHold, DialsDrop
<1>12. DialsHold'
  BY <1>1, <1>10, <1>11 DEF ConnectionsHold, DialsHold, DialsDrop
<1>13. AsksHold'
  BY <1>1, <1>10, <1>11 DEF ConnectionsHold, AsksHold
<1>14. RefusalsHold'
  <2>1. \A ask : RefusalHolds(ask) => RefusalHolds(ask)'
    BY <1>1, <1>3 DEF RefusalHolds, Allowed
  <2> QED  BY <1>1, <2>1 DEF ConnectionsHold, RefusalsHold
<1> QED  BY <1>4, <1>7, <1>8, <1>9, <1>12, <1>13, <1>14 DEF ConnectionsHold

LEMMA StepJoinedMaintains ==
  ASSUME ConnectionsHold, NEW s \in DOMAIN sessions, JoinedMaintains(s)  PROVE ConnectionsHold'
<1> DEFINE other == [sessions[s] EXCEPT !.tail = "greet"]
<1>1. sessions' = [sessions EXCEPT ![s] = other]
  BY DEF JoinedMaintains
<1>2. /\ SessionFields \subseteq DOMAIN other
      /\ other.node = sessions[s].node /\ other.stage = sessions[s].stage /\ other.open = sessions[s].open
  BY DEF ConnectionsHold, SessionsHold, SessionFields
<1> HIDE DEF other
<1>3. Calmer
  BY <1>1, <1>2, CalmerOne
<1> QED  BY <1>3, MaintainDrops, CalmerAlone DEF JoinedMaintains

LEMMA StepEndedMaintains == ASSUME ConnectionsHold, NEW k, EndedMaintains(k)  PROVE ConnectionsHold'
BY SameSessions, MaintainDrops, CalmerAlone DEF EndedMaintains

LEMMA StepPeerCloses == ASSUME ConnectionsHold, NEW s \in DOMAIN sessions, PeerCloses(s)  PROVE ConnectionsHold'
<1>1. PICK away : sessions' = [sessions EXCEPT ![s].open = FALSE, ![s].away = away]
  BY DEF PeerCloses
<1> DEFINE other == [sessions[s] EXCEPT !.open = FALSE, !.away = away]
<1>2. sessions' = [sessions EXCEPT ![s] = other]
  BY <1>1 DEF ConnectionsHold, SessionsHold
<1>3. /\ SessionFields \subseteq DOMAIN other
      /\ other.node = sessions[s].node /\ other.stage = sessions[s].stage /\ other.open = FALSE
  BY DEF ConnectionsHold, SessionsHold, SessionFields
<1> HIDE DEF other
<1>4. Calmer
  BY <1>2, <1>3, CalmerOne
<1> QED  BY <1>4, SameDials, CalmerAlone DEF PeerCloses, dials

(* What the receive loop does to its own state alone, or to the mix. *)
LEMMA StepMain ==
  ASSUME ConnectionsHold, Calmer, DialsDrop, UNCHANGED <<running, trust, peers, asked>>, MainHolds',
         main.pc = "closing" =>
            /\ main'.pc = "closing" \/ main.todo = {}
            /\ main'.pc = "closing" => main.todo \cap InMix \subseteq main'.todo
  PROVE  ConnectionsHold'
<1>1. AsksDrop /\ TrustHolds' /\ DialsToldTruly'
  BY DEF ConnectionsHold, AsksHold, AsksDrop, TrustHolds, DialsToldTruly
<1>2. RefusalsHold'
  <2>1. \A ask : RefusalHolds(ask) => RefusalHolds(ask)'
    BY DEF Calmer, RefusalHolds, Allowed
  <2> QED  BY <2>1 DEF ConnectionsHold, RefusalsHold
<1>3. OnlyAllowed'
  BY DEF ConnectionsHold, OnlyAllowed, Connected, Allowed, Calmer, PeersHold, InMix
<1> QED  BY <1>1, <1>2, <1>3, CalmSteps

LEMMA BusyFields == ASSUME NEW pc, NEW todo
  PROVE /\ DOMAIN Busy(pc, todo) = {"pc", "todo", "at"} /\ Busy(pc, todo).pc = pc /\ Busy(pc, todo).todo = todo
BY DEF Busy

LEMMA StepMainCloses == ASSUME ConnectionsHold, NEW s, MainCloses(s)  PROVE ConnectionsHold'
<1> DEFINE other == [sessions[s] EXCEPT !.open = FALSE]
<1>1. sessions' = [sessions EXCEPT ![s] = other]
  BY DEF MainCloses, Shut
<1>2. s \in DOMAIN sessions =>
      /\ SessionFields \subseteq DOMAIN other
      /\ other.node = sessions[s].node /\ other.stage = sessions[s].stage /\ other.open = FALSE
  BY DEF ConnectionsHold, SessionsHold, SessionFields
<1> HIDE DEF other
<1>3. Calmer
  BY <1>1, <1>2, CalmerOne
<1>4. MainHolds' /\ main'.pc = "closing" /\ main'.todo = main.todo
  BY DEF MainCloses, ConnectionsHold, MainHolds
<1> QED  BY <1>3, <1>4, SameDials, StepMain DEF MainCloses, dials

LEMMA StepMainHasClosed == ConnectionsHold /\ MainHasClosed => ConnectionsHold'
<1> SUFFICES ASSUME ConnectionsHold, MainHasClosed  PROVE ConnectionsHold'  OBVIOUS
<1>1. MainHolds' /\ main'.pc = "closing" /\ main'.todo = main.todo \ {main.at}
  BY DEF MainHasClosed, ConnectionsHold, MainHolds
<1>2. main.at \notin InMix
  BY DEF MainHasClosed, InMix
<1> QED  BY <1>1, <1>2, SameSessions, SameDials, StepMain DEF MainHasClosed, dials

LEMMA StepAllClosed == ConnectionsHold /\ AllClosed => ConnectionsHold'
<1> SUFFICES ASSUME ConnectionsHold, AllClosed  PROVE ConnectionsHold'  OBVIOUS
<1>1. MainHolds' /\ main'.pc # "closing" /\ main.todo = {}
  BY BusyFields DEF AllClosed, MainHolds
<1> QED  BY <1>1, SameSessions, SameDials, StepMain DEF AllClosed, dials

LEMMA StepMainMaintains == ConnectionsHold /\ MainMaintains => ConnectionsHold'
<1> SUFFICES ASSUME ConnectionsHold, MainMaintains  PROVE ConnectionsHold'  OBVIOUS
<1>1. MainHolds' /\ main.pc # "closing"
  BY BusyFields DEF MainMaintains, MainHolds
<1> QED  BY <1>1, SameSessions, MaintainDrops, StepMain DEF MainMaintains

LEMMA TellsCalmly == ConnectionsHold /\ sessions' = ToldEach => Calmer
<1> SUFFICES ASSUME ConnectionsHold, sessions' = ToldEach  PROVE Calmer  OBVIOUS
<1>1. \A s \in DOMAIN sessions :
        /\ SessionFields \subseteq DOMAIN Told(s)
        /\ Told(s).node = sessions[s].node /\ Told(s).stage = sessions[s].stage /\ Told(s).open = sessions[s].open
  BY DEF Told, ConnectionsHold, SessionsHold, SessionFields
<1>2. DOMAIN sessions' = DOMAIN sessions /\ \A s \in DOMAIN sessions : sessions'[s] = Told(s)
  BY DEF ToldEach
<1>3. sessions' = [s \in DOMAIN sessions |-> sessions'[s]]
  BY DEF ToldEach
<1> QED  BY <1>1, <1>2, <1>3, CalmerEach

LEMMA StepPassesOn == ConnectionsHold /\ PassesOn => ConnectionsHold'
<1> SUFFICES ASSUME ConnectionsHold, PassesOn  PROVE ConnectionsHold'  OBVIOUS
<1>1. MainHolds' /\ main.pc # "closing"
  BY BusyFields DEF PassesOn, MainHolds
<1>2. Calmer
  BY TellsCalmly, SameSessions DEF PassesOn
<1> QED  BY <1>1, <1>2, SameDials, StepMain DEF PassesOn, dials

LEMMA StepOnNodeListUpdated == ASSUME ConnectionsHold, NEW list, OnNodeListUpdated(list)  PROVE ConnectionsHold'
<1>1. MainHolds' /\ main.pc # "closing"
  BY BusyFields DEF OnNodeListUpdated, MainHolds
<1> QED  BY <1>1, SameSessions, SameDials, StepMain DEF OnNodeListUpdated, dials

(* Whom this node trusts changes, or it stops: those connected that are    *)
(* not to stay are all to be closed.                                       *)
LEMMA StepOnNodeTrust == ASSUME ConnectionsHold, NEW allowed, OnNodeTrust(allowed)  PROVE ConnectionsHold'
<1>1. UNCHANGED <<running, sessions, peers, dialing>> /\ trust' = Allowing(allowed)
  BY DEF OnNodeTrust
<1>2. trust'.allowed = allowed /\ trust'.known
  BY <1>1 DEF Allowing
<1>3. MainHolds' /\ main'.pc = "closing" /\ main'.todo = {peers[n] : n \in Connected \ allowed}
  BY BusyFields DEF OnNodeTrust, MainHolds
<1>4. /\ asked' = [d \in Dials |-> asked'[d]]
      /\ \A d \in Dials :
            /\ AskFields \subseteq DOMAIN asked'[d]
            /\ asked'[d].pc = asked[d].pc /\ asked'[d].session = asked[d].session
            /\ asked'[d].refusal = asked[d].refusal /\ asked'[d].outcome = asked[d].outcome
            /\ asked'[d].current => asked[d].current /\ asked[d].pc # "refused"
  BY DEF OnNodeTrust, ConnectionsHold, AsksHold, AskFields
<1>5. AsksDrop /\ Calmer /\ DialsDrop
  BY <1>1, <1>4, SameSessions, SameDials DEF AsksDrop
<1>6. RefusalsHold' /\ DialsToldTruly'
  BY <1>4 DEF ConnectionsHold, RefusalsHold, DialsToldTruly
<1>7. TrustHolds'
  BY <1>2 DEF TrustHolds
<1>8. OnlyAllowed'
  BY <1>1, <1>2, <1>3 DEF OnlyAllowed, Connected, Allowed
<1> QED  BY <1>1, <1>3, <1>5, <1>6, <1>7, <1>8, CalmSteps

LEMMA StepOnStop == ConnectionsHold /\ OnStop => ConnectionsHold'
<1> SUFFICES ASSUME ConnectionsHold, OnStop  PROVE ConnectionsHold'  OBVIOUS
<1>1. UNCHANGED <<trust, sessions, peers, dialing, asked>> /\ running' = FALSE
  BY DEF OnStop, dials
<1>2. MainHolds' /\ main'.pc = "closing" /\ main'.todo = {peers[n] : n \in Connected}
  BY BusyFields DEF OnStop, MainHolds
<1>3. AsksDrop /\ Calmer /\ DialsDrop
  BY <1>1, SameSessions, SameDials, SameAsks
<1>4. RefusalsHold' /\ DialsToldTruly' /\ TrustHolds'
  BY <1>1 DEF ConnectionsHold, RefusalsHold, RefusalHolds, Allowed, DialsToldTruly, TrustHolds
<1>5. OnlyAllowed'
  BY <1>1, <1>2 DEF OnlyAllowed, Connected, Allowed
<1> QED  BY <1>1, <1>2, <1>3, <1>4, <1>5, CalmSteps

(* What is said over the connections, and searched for and pushed, changes *)
(* nothing of them.                                                        *)
LEMMA QuietStep ==
  ASSUME ConnectionsHold, Calmer, UNCHANGED <<main, running, trust, peers, dials>>
  PROVE  ConnectionsHold'
BY SameDials, CalmerAlone DEF dials

LEMMA CalmBecomes ==
  ASSUME ConnectionsHold, NEW s \in DOMAIN sessions, NEW other, Becomes(s, other),
         SessionFields \subseteq DOMAIN other,
         other.node = sessions[s].node, other.stage = sessions[s].stage, other.open = sessions[s].open
  PROVE  ConnectionsHold'
<1>1. sessions' = [sessions EXCEPT ![s] = other]
  BY DEF Becomes
<1>2. Calmer
  BY <1>1, CalmerOne
<1> QED  BY <1>2, QuietStep DEF Becomes

(* What one conversation makes of its session. *)
TalkedOver(s, other) ==
    /\ SessionFields \subseteq DOMAIN other
    /\ other.node = sessions[s].node /\ other.stage = sessions[s].stage
    /\ other.open = sessions[s].open /\ other.tail = sessions[s].tail

LEMMA TalksAreCalm ==
  ASSUME ConnectionsHold, NEW s \in DOMAIN sessions, NEW i, NEW talk
  PROVE  TalkedOver(s, GoesOn(s, i, talk)) /\ TalkedOver(s, Over(s, i))
BY DEF ConnectionsHold, SessionsHold, SessionFields, TalkedOver, GoesOn, Over

LEMMA TalksTalkOver ==
  ASSUME ConnectionsHold, NEW s \in DOMAIN sessions, NEW stock, Talks(s, stock)
  PROVE  \E other : Becomes(s, other) /\ TalkedOver(s, other)
<1>1. PICK i \in DOMAIN sessions[s].talks :
        \/ ReadsSeekList(s, i) \/ PushesSought(s, i, stock) \/ FindsMatches(s, i, stock)
        \/ LeavesOutNamed(s, i) \/ NotesNamed(s, i) \/ Posts(s, i)
        \/ AsksForSought(s, i) \/ AsksHead(s, i) \/ Talked(s, i) \/ Tells(s, i)
  BY DEF Talks
<1>2. \A talk : Becomes(s, GoesOn(s, i, talk)) => \E other : Becomes(s, other) /\ TalkedOver(s, other)
  BY TalksAreCalm
<1>3. CASE ReadsSeekList(s, i)
  BY <1>2, <1>3 DEF ReadsSeekList
<1>4. CASE PushesSought(s, i, stock)
  <2> DEFINE talk == sessions[s].talks[i]
             given == ToSet(NextBatch(talk.wanted)) \cap stock
             rest == SubSeq(talk.wanted, Depth + 1, Len(talk.wanted))
             third == [GoesOn(s, i, [talk EXCEPT !.wanted = rest]) EXCEPT !.pushed = @ \cup given]
  <2>1. \/ Becomes(s, GoesOn(s, i, [talk EXCEPT !.pc = "match"]))
        \/ Becomes(s, GoesOn(s, i, [talk EXCEPT !.pc = "end"]))
        \/ Becomes(s, third)
    BY <1>4 DEF PushesSought
  <2>2. TalkedOver(s, third)
    BY TalksAreCalm DEF TalkedOver, SessionFields
  <2> QED  BY <1>2, <2>1, <2>2
<1>5. CASE FindsMatches(s, i, stock)
  BY <1>2, <1>5 DEF FindsMatches
<1>6. CASE LeavesOutNamed(s, i)
  BY <1>2, <1>6 DEF LeavesOutNamed
<1>7. CASE NotesNamed(s, i)
  <2> DEFINE talk == sessions[s].talks[i]
             noted == [q \in DOMAIN talk.names |-> NamedFor(s, q) \cup talk.names[q]]
             other == [GoesOn(s, i, [talk EXCEPT !.pc = "posting"]) EXCEPT !.named = noted]
  <2>1. Becomes(s, other)
    BY <1>7 DEF NotesNamed
  <2>2. TalkedOver(s, other)
    BY TalksAreCalm DEF TalkedOver, SessionFields
  <2> QED  BY <2>1, <2>2
<1>8. CASE Posts(s, i)
  BY <1>2, <1>8 DEF Posts
<1>9. CASE AsksForSought(s, i)
  BY <1>2, <1>9 DEF AsksForSought
<1>10. CASE AsksHead(s, i)
  BY <1>2, <1>10 DEF AsksHead
<1>11. CASE Talked(s, i)
  <2> DEFINE other == [Over(s, i) EXCEPT !.busy = FALSE, !.refresh = Refresh]
  <2>1. Becomes(s, other)
    BY <1>11 DEF Talked
  <2>2. TalkedOver(s, other)
    BY TalksAreCalm DEF TalkedOver, SessionFields
  <2> QED  BY <2>1, <2>2
<1>12. CASE Tells(s, i)
  BY <1>12, TalksAreCalm DEF Tells
<1> QED  BY <1>1, <1>3, <1>4, <1>5, <1>6, <1>7, <1>8, <1>9, <1>10, <1>11, <1>12

LEMMA StepTalks == ASSUME ConnectionsHold, NEW s \in DOMAIN sessions, NEW stock, Talks(s, stock)  PROVE ConnectionsHold'
BY TalksTalkOver, CalmBecomes DEF TalkedOver

LEMMA StepSearches == ConnectionsHold /\ Searches => ConnectionsHold'
<1> SUFFICES ASSUME ConnectionsHold, NEW w \in SearchWorkers, SearchThread(w)  PROVE ConnectionsHold'
  BY DEF Searches
<1>1. UNCHANGED <<main, running, trust, sessions, peers, dials>>
  BY DEF SearchThread, SearcherTakes, SearcherLooks, SearcherAsks, SearcherFinds, SearcherFails, connectionVars
<1> QED  BY <1>1, SameSessions, QuietStep

LEMMA StepPushes == ConnectionsHold /\ Pushes => ConnectionsHold'
<1> SUFFICES ASSUME ConnectionsHold, Pushes  PROVE ConnectionsHold'  OBVIOUS
<1>1. ASSUME NEW w \in PushWorkers, PusherTakes(w) \/ PusherReads(w) \/ PusherAssigns(w)  PROVE ConnectionsHold'
  BY <1>1, SameSessions, QuietStep DEF PusherTakes, PusherReads, PusherAssigns, connectionVars
<1>2. ASSUME NEW w \in PushWorkers, PusherSends(w)  PROVE ConnectionsHold'
  <2>1. UNCHANGED <<main, running, trust, peers, dials>>
    BY <1>2 DEF PusherSends
  <2>2. sessions' = sessions \/ \E s, more : sessions' = [sessions EXCEPT ![s].pushed = more]
    BY <1>2 DEF PusherSends
  <2>3. ASSUME NEW s, NEW more, sessions' = [sessions EXCEPT ![s].pushed = more]  PROVE Calmer
    <3> DEFINE other == [sessions[s] EXCEPT !.pushed = more]
    <3>1. sessions' = [sessions EXCEPT ![s] = other]
      BY <2>3
    <3>2. s \in DOMAIN sessions => TalkedOver(s, other)
      BY DEF TalkedOver, ConnectionsHold, SessionsHold, SessionFields
    <3> HIDE DEF other
    <3> QED  BY <3>1, <3>2, CalmerOne DEF TalkedOver
  <2> QED  BY <2>1, <2>2, <2>3, SameSessions, QuietStep
<1>3. ASSUME NEW s \in DOMAIN sessions, PushesUnpushed(s)  PROVE ConnectionsHold'
  <2>1. UNCHANGED <<main, running, trust, peers, dials>>
    BY <1>3 DEF PushesUnpushed, Greets
  <2> DEFINE talks == IF start.talks THEN Append(sessions[s].talks, Conversation("greet", "read")) ELSE sessions[s].talks
             other == [sessions[s] EXCEPT !.tail = "done", !.talks = talks]
  <2>2. sessions' = [sessions EXCEPT ![s] = other]
    BY <1>3 DEF PushesUnpushed, Greets, ConnectionsHold, SessionsHold
  <2>3. /\ SessionFields \subseteq DOMAIN other /\ other.node = sessions[s].node
        /\ other.stage = sessions[s].stage /\ other.open = sessions[s].open
    BY DEF ConnectionsHold, SessionsHold, SessionFields
  <2> HIDE DEF other
  <2>4. Calmer
    BY <2>2, <2>3, CalmerOne
  <2> QED  BY <2>1, <2>4, QuietStep
<1> QED  BY <1>1, <1>2, <1>3 DEF Pushes, PushThread, JoinedPushes

LEMMA StepSpeaks == ConnectionsHold /\ Speaks => ConnectionsHold'
<1> SUFFICES ASSUME ConnectionsHold, Speaks  PROVE ConnectionsHold'  OBVIOUS
<1>1. CASE OnKarmaHead
  BY <1>1, TellsCalmly, QuietStep DEF OnKarmaHead
<1>2. ASSUME NEW q, NEW by, OnSearchRequested(q, by)  PROVE ConnectionsHold'
  BY <1>2, SameSessions, QuietStep DEF OnSearchRequested, Broadcasts
<1>3. ASSUME NEW n \in Nodes, TalksWith(n)  PROVE ConnectionsHold'
  BY <1>3, StepTalks DEF TalksWith
<1>4. ASSUME NEW q \in Queries, PassThread(q)  PROVE ConnectionsHold'
  <2>1. UNCHANGED <<main, running, trust, sessions, peers, dials>>
    BY <1>4 DEF PassThread, MakesPass, PassBegins, PassAsks, PassEnds, PassFails, Broadcasts
  <2> QED  BY <2>1, SameSessions, QuietStep
<1> QED  BY <1>1, <1>2, <1>3, <1>4 DEF Speaks, Hears

LEMMA StepRequests == ConnectionsHold /\ OthersAct => ConnectionsHold'
<1> SUFFICES ASSUME ConnectionsHold, OthersAct  PROVE ConnectionsHold'  OBVIOUS
<1>1. UNCHANGED <<main, running, trust, sessions, peers, dials>>
  BY DEF OthersAct, OnFetchRequested, OnDataStored, Removed
<1> QED  BY <1>1, SameSessions, QuietStep

LEMMA StepOnIdle == ConnectionsHold /\ OnIdle => ConnectionsHold'
<1> SUFFICES ASSUME ConnectionsHold, OnIdle  PROVE ConnectionsHold'  OBVIOUS
<1> DEFINE other(s) == IF s \in DueSessions THEN Refreshing(s) ELSE sessions[s]
<1>1. sessions' = [s \in DOMAIN sessions |-> other(s)]
  BY DEF OnIdle
<1>2. \A s \in DOMAIN sessions : TalkedOver(s, other(s))
  BY DEF TalkedOver, Refreshing, ConnectionsHold, SessionsHold, SessionFields
<1> HIDE DEF other
<1>3. Calmer
  BY <1>1, <1>2, CalmerEach DEF TalkedOver
<1>4. UNCHANGED <<running, trust, peers, dials>> /\ main.pc # "closing" /\ MainHolds'
  BY BusyFields DEF OnIdle, LetsRested, ConnectionsHold, MainHolds
<1> QED  BY <1>3, <1>4, SameDials, StepMain DEF dials

LEMMA StepTick == ConnectionsHold /\ Tick => ConnectionsHold'
<1> SUFFICES ASSUME ConnectionsHold, Tick  PROVE ConnectionsHold'  OBVIOUS
<1> DEFINE other(s) == [sessions[s] EXCEPT !.refresh = Less(@)]
<1>1. sessions' = [s \in DOMAIN sessions |-> other(s)]
  BY DEF Tick
<1>2. \A s \in DOMAIN sessions : TalkedOver(s, other(s))
  BY DEF TalkedOver, ConnectionsHold, SessionsHold, SessionFields
<1> HIDE DEF other
<1>3. Calmer
  BY <1>1, <1>2, CalmerEach DEF TalkedOver
<1> QED  BY <1>3, QuietStep DEF Tick, RestsAge

LEMMA StepConnects == ConnectionsHold /\ Connects => ConnectionsHold'
<1> SUFFICES ASSUME ConnectionsHold, Connects  PROVE ConnectionsHold'  OBVIOUS
<1>1. CASE Threads
  BY <1>1, StepDialOpens, StepDialAdmits, StepDialEnds, StepAskedOpens, StepAskedAdmits, StepAskedTells,
     StepClosed, StepClosedMaintains, StepJoinedMaintains, StepEndedMaintains
     DEF Threads, DialThread, AskedThread, SessionThreads
<1>2. CASE Receives
  BY <1>2, StepMainHasClosed, StepAllClosed, StepMainMaintains, StepPassesOn, StepMainCloses DEF Receives
<1>3. CASE Arrivals
  BY <1>3, StepPeerCloses, StepOnDialRequested, StepOnNodeTrust, StepOnNodeListUpdated, StepOnStop DEF Arrivals
<1> QED  BY <1>1, <1>2, <1>3 DEF Connects

LEMMA ConnectionsHoldAlways == Spec => []ConnectionsHold
<1>1. Init => ConnectionsHold
  BY ConnectionsHoldAtFirst DEF Init
<1>2. ConnectionsHold /\ [Next]_vars => ConnectionsHold'
  <2>1. CASE Next
    BY <2>1, StepConnects, StepSearches, StepPushes, StepSpeaks, StepRequests, StepOnIdle, StepTick DEF Next
  <2>2. CASE UNCHANGED vars
    <3>1. UNCHANGED <<main, running, trust, sessions, peers, dials>>
      BY <2>2 DEF vars, connectionVars
    <3> QED  BY <3>1, SameSessions, QuietStep
  <2> QED  BY <2>1, <2>2
<1> QED  BY <1>1, <1>2, PTL DEF Spec

(* Each connection is kept where it can be closed, and closed once its node *)
(* is no longer allowed, and what came of a dial asked for is told as it    *)
(* was: for any nodes, candidates and addresses, however dials, closings    *)
(* and changes of trust cross.                                              *)
THEOREM AllConnectionsKept == Spec => []ConnectionsKept
<1>1. ConnectionsHold => ConnectionsKept
  BY DEF ConnectionsHold, ConnectionsKept
<1> QED  BY <1>1, ConnectionsHoldAlways, PTL

-----------------------------------------------------------------------------
(* Each search is carried by one: a worker that makes a pass of it, or     *)
(* those ready, or those that wait for their next pass; and none of these  *)
(* has it twice.                                                           *)

SearchFields == {"content", "pass", "tried", "due", "asks", "ended"}
SearchersHold ==
    /\ Sequence(searches)
    /\ \A s \in DOMAIN searches : SearchFields \subseteq DOMAIN searches[s] /\ SearchFor(s) \in Content
    /\ underWay = [c \in Content |-> underWay[c]]
    /\ \A c \in Content : underWay[c] # NoSearch => underWay[c] \in DOMAIN searches /\ SearchFor(underWay[c]) = c
    /\ \A s \in DOMAIN searches : EndedByNoOther(s)
    /\ held = [c \in Content |-> held[c]]
    /\ \A c \in Content : HeldOff(c)

WorkersHold ==
    /\ searcher = [w \in SearchWorkers |-> searcher[w]]
    /\ \A w \in SearchWorkers :
          /\ {"pc", "search", "session"} \subseteq DOMAIN searcher[w]
          /\ searcher[w].search \in DOMAIN searches \cup {NoSearch}
          /\ searcher[w].pc = "idle" <=> searcher[w].search = NoSearch
    /\ Sequence(ready)
    /\ \A i \in DOMAIN ready : ready[i] \in DOMAIN searches
    /\ DOMAIN waits \subseteq DOMAIN searches

OnceCarried ==
    /\ \A v, w \in SearchWorkers : searcher[v].search = searcher[w].search => v = w \/ searcher[v].search = NoSearch
    /\ \A i, j \in DOMAIN ready : ready[i] = ready[j] => i = j
    /\ \A w \in SearchWorkers : \A i \in DOMAIN ready : searcher[w].search # ready[i]
    /\ \A w \in SearchWorkers : searcher[w].search \notin DOMAIN waits
    /\ \A i \in DOMAIN ready : ready[i] \notin DOMAIN waits

IsCarried(s) ==
    \/ \E w \in SearchWorkers : searcher[w].search = s
    \/ \E i \in DOMAIN ready : ready[i] = s
    \/ s \in DOMAIN waits
AllCarried == \A s \in DOMAIN searches : running /\ Live(s) => IsCarried(s)

SearchesHold == start \in Starts /\ SearchersHold /\ WorkersHold /\ OnceCarried /\ AllCarried

LEMMA NoneIsNoSearch == Sequence(searches) => NoSearch \notin DOMAIN searches
BY DEF Sequence, NoSearch

LEMMA SearchesAreKept == SearchesHold => SearchesKept
<1> SUFFICES ASSUME SearchesHold  PROVE SearchesKept  OBVIOUS
<1>1. ASSUME NEW s \in DOMAIN searches  PROVE CarriedByOne(s)
  <2> DEFINE A == {<<"worker", w>> : w \in {v \in SearchWorkers : searcher[v].search = s}}
             B == {<<"ready", i>> : i \in {j \in DOMAIN ready : ready[j] = s}}
             C == {<<"waiting", i>> : i \in {s} \cap DOMAIN waits}
  <2>1. Carriers(s) = A \cup B \cup C
    BY DEF Carriers
  <2>2. s # NoSearch
    BY NoneIsNoSearch DEF SearchesHold, SearchersHold
  <2>3. /\ \A x, y \in A : x = y
        /\ \A x, y \in B : x = y
        /\ \A x, y \in C : x = y
    BY <2>2 DEF SearchesHold, OnceCarried
  <2>4. (A = {} \/ B = {}) /\ (A = {} \/ C = {}) /\ (B = {} \/ C = {})
    BY DEF SearchesHold, OnceCarried
  <2> HIDE DEF A, B, C
  <2>5. \A x, y \in Carriers(s) : x = y
    BY <2>1, <2>3, <2>4
  <2>6. Cardinality(Carriers(s)) <= 1
    <3>1. CASE Carriers(s) = {}
      BY <3>1, FS_EmptySet
    <3>2. CASE Carriers(s) # {}
      <4>1. PICK x : x \in Carriers(s)
        BY <3>2
      <4>2. Carriers(s) = {x}
        BY <2>5, <4>1
      <4>3. Cardinality({x}) = 1
        BY FS_Singleton
      <4> QED  BY <4>2, <4>3
    <3> QED  BY <3>1, <3>2
  <2>7. running /\ Live(s) => Carriers(s) # {}
    <3>1. IsCarried(s) => A # {} \/ B # {} \/ C # {}
      BY DEF IsCarried, A, B, C
    <3> QED  BY <2>1, <3>1 DEF SearchesHold, AllCarried
  <2> QED  BY <2>6, <2>7 DEF CarriedByOne
<1> QED  BY <1>1 DEF SearchesKept, SearchesHold, SearchersHold

LEMMA SearchesAtFirst == Init => SearchesHold
<1> SUFFICES ASSUME Init  PROVE SearchesHold  OBVIOUS
<1>1. /\ start \in Starts /\ searches = <<>> /\ underWay = [c \in Content |-> NoSearch] /\ ready = <<>>
      /\ waits = <<>> /\ held = [c \in Content |-> 0] /\ searcher = [w \in SearchWorkers |-> NotSearching]
  BY DEF Init, ConnectionInit
<1>2. Sequence(<<>>) /\ DOMAIN <<>> = {}
  BY DEF Sequence
<1>3. /\ DOMAIN NotSearching = {"pc", "search", "session"}
      /\ NotSearching.pc = "idle" /\ NotSearching.search = NoSearch
  BY DEF NotSearching
<1>4. SearchersHold
  BY <1>1, <1>2 DEF SearchersHold, HeldOff
<1>5. WorkersHold /\ OnceCarried /\ AllCarried
  BY <1>1, <1>2, <1>3 DEF WorkersHold, OnceCarried, AllCarried
<1> QED  BY <1>1, <1>4, <1>5 DEF SearchesHold

(* What leaves the searches, or changes only how long they wait and what   *)
(* they have tried.                                                        *)
SameSearches ==
    /\ Sequence(searches') /\ DOMAIN searches' = DOMAIN searches
    /\ \A s \in DOMAIN searches :
          /\ SearchFields \subseteq DOMAIN searches'[s]
          /\ searches'[s].content = searches[s].content
          /\ searches'[s].ended = searches[s].ended
LEMMA TheSameSearches == SearchersHold /\ searches' = searches => SameSearches
BY DEF SearchersHold, SameSearches

LEMMA OneSearchTries ==
  ASSUME SearchersHold, NEW s, NEW other, searches' = [searches EXCEPT ![s] = other],
         s \in DOMAIN searches => /\ SearchFields \subseteq DOMAIN other
                                  /\ other.content = searches[s].content /\ other.ended = searches[s].ended
  PROVE  SameSearches
<1>1. Sequence(searches')
  BY DEF SearchersHold, Sequence
<1> QED  BY <1>1 DEF SearchersHold, SameSearches

LEMMA SearchersStay ==
  ASSUME SearchersHold, SameSearches, underWay' = underWay, held' = [c \in Content |-> held'[c]],
         \A c \in Content : held'[c] > 0 => held[c] > 0
  PROVE  SearchersHold' /\ (\A s \in DOMAIN searches : Live(s)' <=> Live(s))
<1>1. \A s \in DOMAIN searches : searches'[s].content = SearchFor(s) /\ searches[s].content = SearchFor(s)
  BY DEF SameSearches, SearchFor
<1>2. \A s \in DOMAIN searches : Live(s)' <=> Live(s)
  BY <1>1 DEF Live, SearchFor
<1>3. \A s \in DOMAIN searches : EndedByNoOther(s)'
  BY <1>2 DEF SameSearches, SearchersHold, EndedByNoOther
<1>4. \A c \in Content : HeldOff(c)'
  BY DEF SearchersHold, HeldOff
<1> QED  BY <1>1, <1>2, <1>3, <1>4 DEF SearchersHold, SameSearches, SearchFor

LEMMA OthersSearch ==
  ASSUME SearchesHold, UNCHANGED <<searches, underWay, ready, waits, held, searcher, start>>, running' => running
  PROVE  SearchesHold'
<1>1. SearchersHold'
  BY DEF SearchesHold, SearchersHold, SearchFor, EndedByNoOther, Live, HeldOff
<1>2. WorkersHold' /\ OnceCarried'
  BY DEF SearchesHold, WorkersHold, OnceCarried
<1>3. AllCarried'
  BY DEF SearchesHold, AllCarried, IsCarried, Live, SearchFor
<1> QED  BY <1>1, <1>2, <1>3 DEF SearchesHold

(* A worker takes the first of those ready. *)
LEMMA StepSearcherTakes ==
  ASSUME SearchesHold, NEW w \in SearchWorkers, SearcherTakes(w)  PROVE SearchesHold'
<1> DEFINE s == Head(ready)
           next == [searcher[w] EXCEPT !.pc = "next", !.search = s]
<1>1. /\ searcher[w].pc = "idle" /\ ready # <<>> /\ ready' = Tail(ready)
      /\ searcher' = [searcher EXCEPT ![w] = next]
      /\ UNCHANGED <<running, start, searches, underWay, waits, held>>
  BY DEF SearcherTakes, connectionVars, events
<1>2. PICK n \in Nat : ready = [i \in 1..n |-> ready[i]]
  BY DEF SearchesHold, WorkersHold, Sequence
<1>3. /\ n > 0 /\ s = ready[1] /\ DOMAIN ready' = 1..(n - 1)
      /\ \A i \in 1..(n - 1) : ready'[i] = ready[i + 1]
      /\ Sequence(ready')
  <2> DEFINE S == {ready[i] : i \in 1..n}
  <2>1. ready \in [1..n -> S]
    BY <1>2
  <2> HIDE DEF S
  <2>2. ready \in Seq(S) /\ Len(ready) = n
    BY <2>1
  <2>3. n > 0 /\ s = ready[1] /\ Len(ready') = n - 1 /\ ready' \in Seq(S)
        /\ \A i \in 1..(n - 1) : ready'[i] = ready[i + 1]
    BY <1>1, <2>2
  <2> QED  BY <2>3 DEF Sequence
<1>4. {"pc", "search", "session"} \subseteq DOMAIN next /\ next.pc = "next" /\ next.search = s
  BY DEF SearchesHold, WorkersHold
<1> HIDE DEF next
<1>5. /\ searcher' = [v \in SearchWorkers |-> searcher'[v]] /\ searcher'[w] = next
      /\ \A v \in SearchWorkers \ {w} : searcher'[v] = searcher[v]
  BY <1>1 DEF SearchesHold, WorkersHold
<1> HIDE DEF s
<1>6. s \in DOMAIN searches /\ s # NoSearch /\ 1 \in DOMAIN ready
  BY <1>2, <1>3, NoneIsNoSearch DEF SearchesHold, SearchersHold, WorkersHold
<1>7. SearchersHold'
  BY <1>1 DEF SearchesHold, SearchersHold, SearchFor, EndedByNoOther, Live, HeldOff
<1>8. \A i \in DOMAIN ready' : i + 1 \in DOMAIN ready /\ ready'[i] = ready[i + 1] /\ i + 1 # 1 /\ i \in Nat
  <2>1. DOMAIN ready = 1..n
    BY <1>2
  <2>2. \A i \in 1..(n - 1) : i + 1 \in 1..n /\ i + 1 # 1 /\ i \in Nat
    OBVIOUS
  <2> QED  BY <1>3, <2>1, <2>2
<1>9. WorkersHold'
  BY <1>1, <1>3, <1>4, <1>5, <1>6, <1>8 DEF SearchesHold, WorkersHold
<1>10. OnceCarried'
  <2>1. \A v \in SearchWorkers \ {w} : searcher[v].search # s
    BY <1>3, <1>6 DEF SearchesHold, OnceCarried
  <2>2. \A i \in DOMAIN ready' : ready'[i] # s
    BY <1>3, <1>6, <1>8 DEF SearchesHold, OnceCarried
  <2>3. s \notin DOMAIN waits
    BY <1>3, <1>6 DEF SearchesHold, OnceCarried
  <2>4. \A i, j \in DOMAIN ready' : ready'[i] = ready'[j] => i = j
    <3>1. SUFFICES ASSUME NEW i \in DOMAIN ready', NEW j \in DOMAIN ready', ready'[i] = ready'[j]  PROVE i = j
      OBVIOUS
    <3>2. i + 1 = j + 1
      BY <1>8, <3>1 DEF SearchesHold, OnceCarried
    <3> QED  BY <1>8, <3>2
  <2>5. \A v \in SearchWorkers \ {w}, i \in DOMAIN ready' : searcher[v].search # ready'[i]
    BY <1>8 DEF SearchesHold, OnceCarried
  <2>6. \A i \in DOMAIN ready' : ready'[i] \notin DOMAIN waits
    BY <1>8 DEF SearchesHold, OnceCarried
  <2>7. \A u, v \in SearchWorkers : searcher'[u].search = searcher'[v].search => u = v \/ searcher'[u].search = NoSearch
    BY <1>4, <1>5, <2>1 DEF SearchesHold, OnceCarried
  <2>8. \A v \in SearchWorkers, i \in DOMAIN ready' : searcher'[v].search # ready'[i]
    BY <1>4, <1>5, <2>2, <2>5
  <2>9. \A v \in SearchWorkers : searcher'[v].search \notin DOMAIN waits
    BY <1>4, <1>5, <2>3 DEF SearchesHold, OnceCarried
  <2> QED  BY <1>1, <2>4, <2>6, <2>7, <2>8, <2>9 DEF OnceCarried
<1>11. AllCarried'
  <2>1. \A q \in DOMAIN searches : IsCarried(q) => IsCarried(q)'
    <3> SUFFICES ASSUME NEW q \in DOMAIN searches, IsCarried(q)  PROVE IsCarried(q)'  OBVIOUS
    <3>1. CASE q = s
      BY <1>4, <1>5, <3>1 DEF IsCarried
    <3>2. CASE q # s
      <4>1. q # NoSearch
        BY NoneIsNoSearch DEF SearchesHold, SearchersHold
      <4>2. CASE \E v \in SearchWorkers : searcher[v].search = q
        <5>1. PICK v \in SearchWorkers : searcher[v].search = q
          BY <4>2
        <5>2. v # w
          BY <1>1, <4>1, <5>1 DEF SearchesHold, WorkersHold
        <5> QED  BY <1>5, <5>1, <5>2 DEF IsCarried
      <4>3. CASE \E i \in DOMAIN ready : ready[i] = q
        <5>1. PICK i \in 1..n : ready[i] = q
          BY <1>2, <4>3
        <5>2. i # 1
          BY <1>3, <3>2, <5>1
        <5>3. i - 1 \in 1..(n - 1) /\ ready'[i - 1] = q
          BY <1>3, <5>1, <5>2
        <5> QED  BY <1>3, <5>3 DEF IsCarried
      <4>4. CASE q \in DOMAIN waits
        BY <1>1, <4>4 DEF IsCarried
      <4> QED  BY <3>2, <4>2, <4>3, <4>4 DEF IsCarried
    <3> QED  BY <3>1, <3>2
  <2> QED  BY <1>1, <2>1 DEF SearchesHold, AllCarried, Live, SearchFor
<1> QED  BY <1>1, <1>7, <1>9, <1>10, <1>11 DEF SearchesHold

(* A worker that lets go of its search, which goes to wait, or is over. *)
LEMMA LetsGo ==
  ASSUME SearchesHold, NEW w \in SearchWorkers, searcher' = [searcher EXCEPT ![w] = NotSearching],
         NEW s, s = searcher[w].search, s # NoSearch,
         UNCHANGED <<running, start, ready>>, SearchersHold', DOMAIN searches' = DOMAIN searches,
         DOMAIN waits \subseteq DOMAIN waits', DOMAIN waits' \subseteq DOMAIN waits \cup {s},
         \A q \in DOMAIN searches : Live(q)' => Live(q),
         running /\ Live(s)' => s \in DOMAIN waits'
  PROVE  SearchesHold'
<1>1. s \in DOMAIN searches
  BY DEF SearchesHold, WorkersHold
<1>2. /\ DOMAIN NotSearching = {"pc", "search", "session"}
      /\ NotSearching.pc = "idle" /\ NotSearching.search = NoSearch
  BY DEF NotSearching
<1>3. /\ searcher' = [v \in SearchWorkers |-> searcher'[v]] /\ searcher'[w] = NotSearching
      /\ \A v \in SearchWorkers \ {w} : searcher'[v] = searcher[v]
  BY DEF SearchesHold, WorkersHold
<1>4. NoSearch \notin DOMAIN searches
  BY NoneIsNoSearch DEF SearchesHold, SearchersHold
<1>5. WorkersHold'
  BY <1>1, <1>2, <1>3 DEF SearchesHold, WorkersHold
<1>6. OnceCarried'
  <2>1. \A v \in SearchWorkers \ {w} : searcher[v].search # s
    BY DEF SearchesHold, OnceCarried
  <2>2. \A v \in SearchWorkers : searcher'[v].search # s
    BY <1>2, <1>3, <2>1
  <2>3. \A i \in DOMAIN ready : ready[i] # s /\ ready[i] # NoSearch
    BY <1>4 DEF SearchesHold, OnceCarried, WorkersHold
  <2>4. NoSearch \notin DOMAIN waits
    BY <1>4 DEF SearchesHold, WorkersHold
  <2>5. \A v \in SearchWorkers : searcher'[v].search = searcher[v].search \/ searcher'[v].search = NoSearch
    BY <1>2, <1>3
  <2>6. \A u, v \in SearchWorkers : searcher'[u].search = searcher'[v].search => u = v \/ searcher'[u].search = NoSearch
    BY <1>2, <1>3 DEF SearchesHold, OnceCarried
  <2>7. \A v \in SearchWorkers : searcher'[v].search \notin DOMAIN waits'
    BY <2>2, <2>4, <2>5, <1>1, <1>4 DEF SearchesHold, OnceCarried
  <2>8. \A i \in DOMAIN ready' : ready'[i] \notin DOMAIN waits'
    BY <2>3 DEF SearchesHold, OnceCarried
  <2>9. \A v \in SearchWorkers, i \in DOMAIN ready' : searcher'[v].search # ready'[i]
    BY <2>3, <2>5 DEF SearchesHold, OnceCarried
  <2> QED  BY <2>6, <2>7, <2>8, <2>9 DEF SearchesHold, OnceCarried
<1>7. AllCarried'
  <2> SUFFICES ASSUME NEW q \in DOMAIN searches, running, Live(q)'  PROVE IsCarried(q)'
    BY DEF AllCarried
  <2>1. CASE q = s
    BY <2>1 DEF IsCarried
  <2>2. CASE q # s
    <3>1. IsCarried(q)
      BY DEF SearchesHold, AllCarried
    <3> QED  BY <1>3, <2>2, <3>1 DEF IsCarried
  <2> QED  BY <2>1, <2>2
<1> QED  BY <1>5, <1>6, <1>7 DEF SearchesHold

(* A worker that goes on with its search. *)
LEMMA KeepsIt ==
  ASSUME SearchesHold, NEW w \in SearchWorkers, NEW next, searcher' = [searcher EXCEPT ![w] = next],
         UNCHANGED <<running, start, ready, underWay, waits, held>>, SameSearches,
         {"pc", "search", "session"} \subseteq DOMAIN next, next.pc # "idle", searcher[w].pc # "idle",
         next.search = searcher[w].search
  PROVE  SearchesHold'
<1>1. /\ searcher' = [v \in SearchWorkers |-> searcher'[v]]
      /\ searcher'[w].pc # "idle"
      /\ \A v \in SearchWorkers : /\ searcher'[v].search = searcher[v].search
                                  /\ {"pc", "search", "session"} \subseteq DOMAIN searcher'[v]
                                  /\ v # w => searcher'[v] = searcher[v]
  BY DEF SearchesHold, WorkersHold
<1>2. SearchersHold' /\ (\A s \in DOMAIN searches : Live(s)' <=> Live(s))
  BY SearchersStay DEF SearchesHold, SearchersHold
<1>3. WorkersHold'
  BY <1>1 DEF SearchesHold, WorkersHold, SameSearches
<1>4. OnceCarried'
  BY <1>1 DEF SearchesHold, OnceCarried
<1>5. AllCarried'
  BY <1>1, <1>2 DEF SearchesHold, AllCarried, IsCarried, SameSearches
<1> QED  BY <1>2, <1>3, <1>4, <1>5 DEF SearchesHold

LEMMA StepSearcherLooks ==
  ASSUME SearchesHold, NEW w \in SearchWorkers, SearcherLooks(w)  PROVE SearchesHold'
<1> DEFINE t == searcher[w].search
<1>1. PICK s : s = t
  OBVIOUS
<1>2. /\ searcher[w].pc = "next" /\ UNCHANGED <<running, start, underWay, ready, held>>
  BY DEF SearcherLooks, connectionVars, events
<1>3. s \in DOMAIN searches /\ s # NoSearch /\ SearchFields \subseteq DOMAIN searches[s]
      /\ {"pc", "search", "session"} \subseteq DOMAIN searcher[w]
  BY <1>1, <1>2, NoneIsNoSearch DEF SearchesHold, SearchersHold, WorkersHold
<1>4. CASE /\ ~running \/ ~Live(s)
           /\ searcher' = [searcher EXCEPT ![w] = NotSearching] /\ UNCHANGED <<searches, waits>>
  <2>1. SearchersHold' /\ (\A q \in DOMAIN searches : Live(q)' <=> Live(q))
    BY <1>2, <1>4, TheSameSearches, SearchersStay DEF SearchesHold, SearchersHold
  <2> QED  BY <1>1, <1>2, <1>3, <1>4, <2>1, LetsGo
<1>5. CASE AsksNext(w)
  <2> DEFINE notAsked == Unasked(s)
             i == First(DueAt(s, notAsked))
             more == {notAsked[j] : j \in 1..i}
             other == [searches[s] EXCEPT !.tried = @ \cup more, !.asks = @ + 1]
             next == [searcher[w] EXCEPT !.pc = "ask", !.session = peers[notAsked[i]]]
  <2>1. /\ searches' = [searches EXCEPT ![s].tried = @ \cup more, ![s].asks = @ + 1]
        /\ searcher' = [searcher EXCEPT ![w].pc = "ask", ![w].session = peers[notAsked[i]]]
        /\ UNCHANGED waits
    BY <1>1, <1>5 DEF AsksNext
  <2> HIDE DEF notAsked, i, more
  <2>2. searches' = [searches EXCEPT ![s] = other]
    BY <1>3, <2>1 DEF SearchesHold, SearchersHold
  <2>3. searcher' = [searcher EXCEPT ![w] = next]
    BY <2>1 DEF SearchesHold, WorkersHold
  <2>4. SearchFields \subseteq DOMAIN other /\ other.content = searches[s].content /\ other.ended = searches[s].ended
    BY <1>3 DEF SearchFields
  <2>5. {"pc", "search", "session"} \subseteq DOMAIN next /\ next.pc = "ask" /\ next.search = searcher[w].search
    BY <1>3
  <2> HIDE DEF other, next
  <2>6. SameSearches
    BY <2>2, <2>4, OneSearchTries DEF SearchesHold
  <2> QED  BY <1>2, <2>1, <2>3, <2>5, <2>6, KeepsIt
<1>6. CASE StartsNextPass(w)
  <2> DEFINE other == [searches[s] EXCEPT !.pass = @ + 1, !.tried = {}]
  <2>1. searches' = [searches EXCEPT ![s].pass = @ + 1, ![s].tried = {}]
    BY <1>1, <1>6 DEF StartsNextPass
  <2>2. searches' = [searches EXCEPT ![s] = other]
    BY <1>3, <2>1 DEF SearchesHold, SearchersHold
  <2>3. SearchFields \subseteq DOMAIN other /\ other.content = searches[s].content /\ other.ended = searches[s].ended
    BY <1>3 DEF SearchFields
  <2> HIDE DEF other
  <2>4. SameSearches
    BY <2>2, <2>3, OneSearchTries DEF SearchesHold
  <2>5. CASE UNCHANGED <<waits, searcher>>
    <3>1. searcher' = [searcher EXCEPT ![w] = searcher[w]]
      BY <2>5 DEF SearchesHold, WorkersHold
    <3> QED  BY <1>2, <1>3, <2>4, <2>5, <3>1, KeepsIt
  <2>6. CASE waits' = With(waits, s, ResumeAfter(s)) /\ searcher' = [searcher EXCEPT ![w] = NotSearching]
    <3>1. SearchersHold' /\ (\A q \in DOMAIN searches : Live(q)' <=> Live(q))
      BY <1>2, <2>4, SearchersStay DEF SearchesHold, SearchersHold
    <3>2. DOMAIN waits' = DOMAIN waits \cup {s}
      BY <2>6 DEF With
    <3> QED  BY <1>1, <1>2, <1>3, <2>4, <2>6, <3>1, <3>2, LetsGo DEF SameSearches
  <2> QED  BY <1>1, <1>6, <2>5, <2>6 DEF StartsNextPass
<1>7. CASE searcher' = [searcher EXCEPT ![w].pc = "fail"] /\ UNCHANGED <<searches, waits>>
  <2> DEFINE next == [searcher[w] EXCEPT !.pc = "fail"]
  <2>1. searcher' = [searcher EXCEPT ![w] = next]
    BY <1>7 DEF SearchesHold, WorkersHold
  <2>2. {"pc", "search", "session"} \subseteq DOMAIN next /\ next.pc = "fail" /\ next.search = searcher[w].search
    BY <1>3
  <2> HIDE DEF next
  <2>3. SameSearches
    BY <1>7, TheSameSearches DEF SearchesHold
  <2> QED  BY <1>2, <1>7, <2>1, <2>2, <2>3, KeepsIt
<1> QED  BY <1>1, <1>4, <1>5, <1>6, <1>7 DEF SearcherLooks

LEMMA StepSearcherAsks ==
  ASSUME SearchesHold, NEW w \in SearchWorkers, SearcherAsks(w)  PROVE SearchesHold'
<1> DEFINE s == searcher[w].search
           n == sessions[searcher[w].session].node
           Next2(pc) == [searcher[w] EXCEPT !.pc = pc, !.session = NoSession]
<1>1. searcher[w].pc = "ask" /\ UNCHANGED <<running, start, underWay, ready, waits, held>>
  BY DEF SearcherAsks, events, Spend
<1>2. s \in DOMAIN searches /\ SearchFields \subseteq DOMAIN searches[s]
      /\ {"pc", "search", "session"} \subseteq DOMAIN searcher[w]
  BY <1>1 DEF SearchesHold, SearchersHold, WorkersHold
<1>3. PICK pc \in {"found", "next", "fail"} : searcher' = [searcher EXCEPT ![w].pc = pc, ![w].session = NoSession]
  BY DEF SearcherAsks
<1>4. searcher' = [searcher EXCEPT ![w] = Next2(pc)]
  BY <1>3 DEF SearchesHold, WorkersHold
<1>5. /\ {"pc", "search", "session"} \subseteq DOMAIN Next2(pc)
      /\ Next2(pc).pc # "idle" /\ Next2(pc).search = searcher[w].search
  BY <1>2
<1>6. SameSearches
  <2>1. CASE UNCHANGED searches
    BY <2>1, TheSameSearches DEF SearchesHold
  <2>2. CASE \E after : searches' = [searches EXCEPT ![s].due[n] = after]
    <3>1. PICK after : searches' = [searches EXCEPT ![s].due[n] = after]
      BY <2>2
    <3> DEFINE due == [searches[s].due EXCEPT ![n] = after]
               other == [searches[s] EXCEPT !.due = due]
    <3>2. searches' = [searches EXCEPT ![s] = other]
      BY <3>1, <1>2 DEF SearchesHold, SearchersHold
    <3> HIDE DEF due
    <3>3. SearchFields \subseteq DOMAIN other /\ other.content = searches[s].content /\ other.ended = searches[s].ended
      BY <1>2 DEF SearchFields
    <3> HIDE DEF other, s
    <3> QED  BY <3>2, <3>3, OneSearchTries DEF SearchesHold
  <2> QED  BY <2>1, <2>2 DEF SearcherAsks
<1> HIDE DEF Next2
<1> QED  BY <1>1, <1>4, <1>5, <1>6, KeepsIt

(* A search ends only itself, and only if it is still under way. *)
LEMMA EndsOne ==
  ASSUME SearchesHold, NEW s \in DOMAIN searches, NEW how \in {"found", "failed", "stored"}, Ends(s, how),
         held' = [c \in Content |-> held'[c]],
         \A c \in Content : held'[c] > 0 => held[c] > 0 \/ (Live(s) /\ c = SearchFor(s))
  PROVE  /\ SearchersHold' /\ DOMAIN searches' = DOMAIN searches
         /\ \A q \in DOMAIN searches : Live(q)' <=> Live(q) /\ q # s
<1>1. CASE ~Live(s)
  <2>1. UNCHANGED <<searches, underWay>>
    BY <1>1 DEF Ends
  <2>2. SameSearches
    BY <2>1, TheSameSearches DEF SearchesHold
  <2>3. SearchersHold' /\ (\A q \in DOMAIN searches : Live(q)' <=> Live(q))
    BY <1>1, <2>1, <2>2, SearchersStay DEF SearchesHold
  <2> QED  BY <1>1, <2>1, <2>3
<1>2. CASE Live(s)
  <2> DEFINE c == SearchFor(s)
             other == [searches[s] EXCEPT !.ended = how]
  <2>1. underWay' = [underWay EXCEPT ![c] = NoSearch] /\ searches' = [searches EXCEPT ![s] = other]
    BY <1>2 DEF Ends, SearchesHold, SearchersHold
  <2>2. c \in Content /\ underWay[c] = s /\ SearchFields \subseteq DOMAIN searches[s]
    BY <1>2 DEF SearchesHold, SearchersHold, Live
  <2>3. SearchFields \subseteq DOMAIN other /\ other.content = c /\ other.ended = how
    BY <2>2 DEF SearchFields, SearchFor
  <2> HIDE DEF other
  <2>4. Sequence(searches') /\ DOMAIN searches' = DOMAIN searches
    BY <2>1 DEF SearchesHold, SearchersHold, Sequence
  <2>5. /\ \A q \in DOMAIN searches : searches'[q].content = SearchFor(q) /\ SearchFields \subseteq DOMAIN searches'[q]
        /\ \A q \in DOMAIN searches \ {s} : searches'[q] = searches[q]
        /\ searches'[s].ended = how
    BY <2>1, <2>3 DEF SearchFor, SearchesHold, SearchersHold
  <2>6. /\ underWay' = [d \in Content |-> underWay'[d]] /\ underWay'[c] = NoSearch
        /\ \A d \in Content \ {c} : underWay'[d] = underWay[d]
    BY <2>1, <2>2 DEF SearchesHold, SearchersHold
  <2>7. \A q \in DOMAIN searches : q # NoSearch /\ SearchFor(q) \in Content
    BY NoneIsNoSearch DEF SearchesHold, SearchersHold
  <2>8. \A q \in DOMAIN searches : Live(q)' <=> underWay'[SearchFor(q)] = q
    BY <2>5 DEF Live, SearchFor
  <2> HIDE DEF c
  <2>9. \A q \in DOMAIN searches : Live(q)' <=> Live(q) /\ q # s
    <3>1. \A q \in DOMAIN searches : SearchFor(q) = c /\ q # s => ~Live(q)
      BY <2>2 DEF Live
    <3>2. \A q \in DOMAIN searches : SearchFor(q) = c => ~Live(q)'
      BY <2>6, <2>7, <2>8
    <3>3. SearchFor(s) = c
      BY DEF c
    <3> QED  BY <2>6, <2>7, <2>8, <3>1, <3>2, <3>3 DEF Live
  <2>10. \A q \in DOMAIN searches : EndedByNoOther(q)'
    <3>1. \A q \in DOMAIN searches \ {s} : EndedByNoOther(q)'
      BY <2>5, <2>9 DEF SearchesHold, SearchersHold, EndedByNoOther
    <3>2. EndedByNoOther(s)'
      BY <2>5 DEF EndedByNoOther
    <3> QED  BY <3>1, <3>2
  <2>11. \A d \in Content : HeldOff(d)'
    BY <2>6 DEF SearchesHold, SearchersHold, HeldOff, c
  <2>12. \A d \in Content : underWay'[d] # NoSearch => underWay'[d] \in DOMAIN searches' /\ searches'[underWay'[d]].content = d
    BY <2>4, <2>5, <2>6 DEF SearchesHold, SearchersHold
  <2>13. SearchersHold'
    BY <2>4, <2>5, <2>6, <2>7, <2>10, <2>11, <2>12 DEF SearchersHold, SearchFor
  <2> QED  BY <2>4, <2>9, <2>13
<1> QED  BY <1>1, <1>2

LEMMA StepSearcherFinds ==
  ASSUME SearchesHold, NEW w \in SearchWorkers, SearcherFinds(w)  PROVE SearchesHold'
<1>1. PICK s : s = searcher[w].search
  OBVIOUS
<1>2. /\ searcher[w].pc = "found" /\ UNCHANGED <<running, start, ready, waits, held>> /\ Ends(s, "found")
      /\ searcher' = [searcher EXCEPT ![w] = NotSearching]
  BY <1>1 DEF SearcherFinds, connectionVars, events
<1>3. s \in DOMAIN searches /\ s # NoSearch
  BY <1>1, <1>2, NoneIsNoSearch DEF SearchesHold, SearchersHold, WorkersHold
<1>4. /\ SearchersHold' /\ DOMAIN searches' = DOMAIN searches
      /\ \A q \in DOMAIN searches : Live(q)' <=> Live(q) /\ q # s
  <2>1. held' = [c \in Content |-> held'[c]] /\ (\A c \in Content : held'[c] > 0 => held[c] > 0)
    BY <1>2 DEF SearchesHold, SearchersHold
  <2>2. \A c \in Content : held'[c] > 0 => held[c] > 0 \/ (Live(s) /\ c = SearchFor(s))
    BY <2>1
  <2> QED  BY <1>2, <1>3, <2>1, <2>2, EndsOne
<1> QED  BY <1>1, <1>2, <1>3, <1>4, LetsGo

LEMMA StepSearcherFails ==
  ASSUME SearchesHold, NEW w \in SearchWorkers, SearcherFails(w)  PROVE SearchesHold'
<1>1. PICK s : s = searcher[w].search
  OBVIOUS
<1>2. /\ searcher[w].pc = "fail" /\ UNCHANGED <<running, start, ready, waits>> /\ Ends(s, "failed")
      /\ searcher' = [searcher EXCEPT ![w] = NotSearching]
      /\ held' = IF Live(s) /\ searches[s].asks > 0 THEN [held EXCEPT ![SearchFor(s)] = Hold] ELSE held
  BY <1>1 DEF SearcherFails, connectionVars, events
<1>3. s \in DOMAIN searches /\ s # NoSearch
  BY <1>1, <1>2, NoneIsNoSearch DEF SearchesHold, SearchersHold, WorkersHold
<1>4. /\ held' = [c \in Content |-> held'[c]]
      /\ \A c \in Content : held'[c] > 0 => held[c] > 0 \/ (Live(s) /\ c = SearchFor(s))
  <2>1. held = [c \in Content |-> held[c]]
    BY DEF SearchesHold, SearchersHold
  <2>2. CASE held' = held
    BY <2>1, <2>2
  <2>3. CASE Live(s) /\ held' = [held EXCEPT ![SearchFor(s)] = Hold]
    <3> DEFINE d == SearchFor(s)
    <3>1. held' = [held EXCEPT ![d] = Hold]
      BY <2>3
    <3> HIDE DEF d
    <3>2. held' = [c \in Content |-> held'[c]] /\ (\A c \in Content : held'[c] > 0 => held[c] > 0 \/ c = d)
      BY <2>1, <3>1
    <3> QED  BY <2>3, <3>2 DEF d
  <2> QED  BY <1>2, <2>2, <2>3
<1>5. /\ SearchersHold' /\ DOMAIN searches' = DOMAIN searches
      /\ \A q \in DOMAIN searches : Live(q)' <=> Live(q) /\ q # s
  BY <1>2, <1>3, <1>4, EndsOne
<1> QED  BY <1>1, <1>2, <1>3, <1>5, LetsGo

(* A search is started, where there was none. *)
LEMMA StepOnFetchRequested ==
  ASSUME SearchesHold, NEW c \in Content, OnFetchRequested(c)  PROVE SearchesHold'
<1>1. UNCHANGED <<running, start, waits, held, searcher>>
  BY DEF OnFetchRequested, Spend
<1>2. CASE UNCHANGED <<searches, underWay, ready>>
  BY <1>1, <1>2, OthersSearch
<1>3. CASE /\ underWay[c] = NoSearch /\ held[c] = 0
           /\ searches' = Append(searches, Search(c))
           /\ underWay' = [underWay EXCEPT ![c] = Len(searches')]
           /\ ready' = Append(ready, Len(searches'))
  <2>1. PICK n \in Nat : searches = [i \in 1..n |-> searches[i]]
    BY DEF SearchesHold, SearchersHold, Sequence
  <2>2. PICK m \in Nat : ready = [i \in 1..m |-> ready[i]]
    BY DEF SearchesHold, WorkersHold, Sequence
  <2>3. DOMAIN searches = 1..n /\ DOMAIN ready = 1..m
    BY <2>1, <2>2
  <2>4. /\ Len(searches') = n + 1 /\ DOMAIN searches' = 1..(n + 1)
        /\ (\A i \in 1..n : searches'[i] = searches[i]) /\ searches'[n + 1] = Search(c)
        /\ Sequence(searches')
    <3> DEFINE S == {searches[i] : i \in 1..n} \cup {Search(c)}
    <3>1. searches \in [1..n -> S] /\ Search(c) \in S
      BY <2>1
    <3> HIDE DEF S
    <3>2. searches \in Seq(S) /\ Len(searches) = n
      BY <3>1
    <3>3. /\ Len(searches') = n + 1 /\ DOMAIN searches' = 1..(n + 1) /\ searches' \in Seq(S)
          /\ (\A i \in 1..n : searches'[i] = searches[i]) /\ searches'[n + 1] = Search(c)
      BY <1>3, <3>1, <3>2
    <3> QED  BY <3>3 DEF Sequence
  <2>5. /\ DOMAIN ready' = 1..(m + 1)
        /\ (\A i \in 1..m : ready'[i] = ready[i]) /\ ready'[m + 1] = n + 1
        /\ Sequence(ready')
    <3> DEFINE S == {ready[i] : i \in 1..m} \cup {n + 1}
    <3>1. ready \in [1..m -> S] /\ n + 1 \in S
      BY <2>2
    <3> HIDE DEF S
    <3>2. ready \in Seq(S) /\ Len(ready) = m
      BY <3>1
    <3>3. /\ DOMAIN ready' = 1..(m + 1) /\ ready' \in Seq(S) /\ Len(ready') = m + 1
          /\ (\A i \in 1..m : ready'[i] = ready[i]) /\ ready'[m + 1] = n + 1
      BY <1>3, <2>4, <3>1, <3>2
    <3> QED  BY <3>3 DEF Sequence
  <2>6. PICK s : s = n + 1 /\ s # NoSearch /\ s \notin DOMAIN searches /\ DOMAIN searches' = DOMAIN searches \cup {s}
    BY <2>3, <2>4 DEF NoSearch
  <2>7. /\ underWay' = [d \in Content |-> underWay'[d]] /\ underWay'[c] = s
        /\ \A d \in Content \ {c} : underWay'[d] = underWay[d]
    BY <1>3, <2>4, <2>6 DEF SearchesHold, SearchersHold
  <2>8. DOMAIN Search(c) = SearchFields /\ Search(c).content = c
    BY DEF Search, SearchFields
  <2>9. /\ \A q \in DOMAIN searches : searches'[q] = searches[q] /\ searches'[q].content = SearchFor(q)
        /\ searches'[s].content = c
    BY <2>3, <2>4, <2>6, <2>8 DEF SearchFor
  <2>10. Live(s)' /\ (\A q \in DOMAIN searches : Live(q)' <=> Live(q))
    <3>1. \A q \in DOMAIN searches : q # s /\ q # NoSearch /\ SearchFor(q) \in Content
      BY <2>6, NoneIsNoSearch DEF SearchesHold, SearchersHold
    <3>2. \A q \in DOMAIN searches \cup {s} : Live(q)' <=> underWay'[searches'[q].content] = q
      BY DEF Live, SearchFor
    <3>3. Live(s)'
      BY <2>7, <2>9, <3>2
    <3>4. ASSUME NEW q \in DOMAIN searches  PROVE Live(q)' <=> Live(q)
      <4>1. Live(q)' <=> underWay'[SearchFor(q)] = q
        BY <2>9, <3>2
      <4>2. CASE SearchFor(q) = c
        BY <1>3, <2>7, <3>1, <4>1, <4>2 DEF Live
      <4>3. CASE SearchFor(q) # c
        BY <2>7, <3>1, <4>1, <4>3 DEF Live
      <4> QED  BY <4>2, <4>3
    <3> QED  BY <3>3, <3>4
  <2>11. SearchersHold'
    <3>1. \A q \in DOMAIN searches' : SearchFields \subseteq DOMAIN searches'[q] /\ searches'[q].content \in Content
      BY <2>4, <2>6, <2>8, <2>9 DEF SearchesHold, SearchersHold, SearchFor
    <3>2. \A d \in Content : underWay'[d] # NoSearch => underWay'[d] \in DOMAIN searches' /\ searches'[underWay'[d]].content = d
      BY <2>6, <2>7, <2>9 DEF SearchesHold, SearchersHold
    <3>3. \A q \in DOMAIN searches' : EndedByNoOther(q)'
      BY <2>6, <2>9, <2>10 DEF SearchesHold, SearchersHold, EndedByNoOther
    <3>4. \A d \in Content : HeldOff(d)'
      <4>1. \A d \in Content \ {c} : HeldOff(d)'
        BY <1>1, <2>7 DEF SearchesHold, SearchersHold, HeldOff
      <4>2. HeldOff(c)'
        BY <1>1, <1>3 DEF HeldOff
      <4> QED  BY <4>1, <4>2
    <3> QED  BY <1>1, <2>4, <2>7, <3>1, <3>2, <3>3, <3>4 DEF SearchesHold, SearchersHold, SearchFor
  <2>12. /\ \A i \in DOMAIN ready' : (i \in DOMAIN ready /\ ready'[i] = ready[i]) \/ (i = m + 1 /\ ready'[i] = s)
         /\ m + 1 \in DOMAIN ready' /\ ready'[m + 1] = s
         /\ \A i \in DOMAIN ready : i \in DOMAIN ready' /\ ready'[i] = ready[i]
    <3>1. \A i \in 1..(m + 1) : i \in 1..m \/ i = m + 1
      OBVIOUS
    <3>2. m + 1 \in 1..(m + 1) /\ (\A i \in 1..m : i \in 1..(m + 1))
      OBVIOUS
    <3>3. ready'[m + 1] = s
      BY <2>5, <2>6
    <3>4. DOMAIN ready' = 1..(m + 1) /\ (\A i \in 1..m : ready'[i] = ready[i])
      BY <2>5
    <3>5. ASSUME NEW i \in DOMAIN ready'
          PROVE (i \in DOMAIN ready /\ ready'[i] = ready[i]) \/ (i = m + 1 /\ ready'[i] = s)
      BY <2>3, <3>1, <3>3, <3>4
    <3>6. \A i \in DOMAIN ready : i \in DOMAIN ready' /\ ready'[i] = ready[i]
      BY <2>3, <3>2, <3>4
    <3> QED  BY <3>2, <3>3, <3>4, <3>5, <3>6
  <2>13. WorkersHold'
    BY <1>1, <2>5, <2>6, <2>12 DEF SearchesHold, WorkersHold
  <2>14. OnceCarried'
    <3>1. \A w \in SearchWorkers : searcher[w].search # s
      BY <2>6 DEF SearchesHold, WorkersHold
    <3>2. \A i \in DOMAIN ready : ready[i] # s
      BY <2>6 DEF SearchesHold, WorkersHold
    <3>3. s \notin DOMAIN waits
      BY <2>6 DEF SearchesHold, WorkersHold
    <3> QED  BY <1>1, <2>12, <3>1, <3>2, <3>3 DEF SearchesHold, OnceCarried
  <2>15. AllCarried'
    <3>1. \A q \in DOMAIN searches : IsCarried(q) => IsCarried(q)'
      BY <1>1, <2>12 DEF IsCarried
    <3>2. IsCarried(s)'
      BY <2>6, <2>12 DEF IsCarried
    <3> QED  BY <1>1, <2>6, <2>10, <3>1, <3>2 DEF SearchesHold, AllCarried
  <2> QED  BY <1>1, <2>11, <2>13, <2>14, <2>15 DEF SearchesHold
<1> QED  BY <1>2, <1>3 DEF OnFetchRequested

(* The search for content stored is over with, whoever has it. *)
LEMMA StepOnDataStored ==
  ASSUME SearchesHold, NEW c \in Content, NEW source, OnDataStored(c, source)  PROVE SearchesHold'
<1>1. /\ UNCHANGED <<running, start, ready, waits, searcher>>
      /\ underWay' = [underWay EXCEPT ![c] = NoSearch] /\ held' = [held EXCEPT ![c] = 0]
      /\ searches' = IF underWay[c] = NoSearch THEN searches
                     ELSE [searches EXCEPT ![underWay[c]].ended = "stored"]
  BY DEF OnDataStored, Spend
<1>2. /\ held' = [d \in Content |-> held'[d]] /\ \A d \in Content : held'[d] > 0 => held[d] > 0
  BY <1>1 DEF SearchesHold, SearchersHold
<1>3. /\ SearchersHold' /\ DOMAIN searches' = DOMAIN searches
      /\ \A q \in DOMAIN searches : Live(q)' => Live(q)
  <2>1. CASE underWay[c] = NoSearch
    <3>1. underWay' = underWay /\ SameSearches
      BY <1>1, <2>1, TheSameSearches DEF SearchesHold, SearchersHold
    <3> QED  BY <1>1, <1>2, <2>1, <3>1, SearchersStay DEF SearchesHold
  <2>2. CASE underWay[c] # NoSearch
    <3>1. PICK s : s = underWay[c] /\ s \in DOMAIN searches /\ SearchFor(s) = c
      BY <2>2 DEF SearchesHold, SearchersHold
    <3>2. Ends(s, "stored")
      BY <1>1, <2>2, <3>1 DEF Ends, Live, SearchFor
    <3>3. \A d \in Content : held'[d] > 0 => held[d] > 0 \/ (Live(s) /\ d = SearchFor(s))
      BY <1>2
    <3> QED  BY <1>2, <3>1, <3>2, <3>3, EndsOne
  <2> QED  BY <2>1, <2>2
<1>4. WorkersHold' /\ OnceCarried'
  BY <1>1, <1>3 DEF SearchesHold, WorkersHold, OnceCarried
<1>5. AllCarried'
  BY <1>1, <1>3 DEF SearchesHold, AllCarried, IsCarried
<1> QED  BY <1>1, <1>3, <1>4, <1>5 DEF SearchesHold

-----------------------------------------------------------------------------
(* A set as a sequence has each of its members once. *)
LEMMA InSequenceOnce ==
  ASSUME NEW S, IsFiniteSet(S)
  PROVE  \E n \in Nat : /\ SetToSeq(S) \in [1..n -> S]
                        /\ \A i, j \in 1..n : SetToSeq(S)[i] = SetToSeq(S)[j] => i = j
                        /\ \A x \in S : \E i \in 1..n : SetToSeq(S)[i] = x
<1> DEFINE n == Cardinality(S)
<1>1. n \in Nat /\ ExistsBijection(1..n, S)
  BY FS_CardinalityType
<1>2. \E f \in [1..n -> S] : IsInjective(f)
  BY <1>1 DEF ExistsBijection, Bijection, Injection
<1>3. PICK f \in [1..n -> S] : f = SetToSeq(S) /\ IsInjective(f)
  BY <1>2 DEF SetToSeq
<1>4. f \in Injection(1..n, S)
  BY <1>3 DEF Injection
<1>5. Cardinality(1..n) = n
  BY <1>1, FS_Interval
<1>6. f \in Surjection(1..n, S)
  BY <1>4, <1>5, FS_Injection
<1>7. \A x \in S : \E i \in 1..n : f[i] = x
  BY <1>6 DEF Surjection
<1> HIDE DEF n
<1> QED  BY <1>1, <1>3, <1>7 DEF IsInjective

(* One sequence after another. *)
After(t, m, u, n, v) ==
    /\ Sequence(v) /\ DOMAIN v = 1..(m + n)
    /\ \A i \in 1..m : v[i] = t[i]
    /\ \A i \in 1..n : v[m + i] = u[i]
LEMMA Concatenates ==
  ASSUME NEW t, NEW m \in Nat, NEW u, NEW n \in Nat, t = [i \in 1..m |-> t[i]], u = [i \in 1..n |-> u[i]]
  PROVE  After(t, m, u, n, t \o u)
<1> DEFINE T == {t[i] : i \in 1..m} \cup {u[i] : i \in 1..n}
<1>1. t \in [1..m -> T] /\ u \in [1..n -> T]
  OBVIOUS
<1> HIDE DEF T
<1>2. t \in Seq(T) /\ Len(t) = m /\ u \in Seq(T) /\ Len(u) = n
  BY <1>1
<1>3. /\ t \o u \in Seq(T) /\ Len(t \o u) = m + n
      /\ \A i \in 1..(m + n) : (t \o u)[i] = IF i <= m THEN t[i] ELSE u[i - m]
  BY <1>2, ConcatProperties
<1>4. \A i \in 1..m : (t \o u)[i] = t[i]
  BY <1>3
<1>5. \A i \in 1..n : m + i \in 1..(m + n) /\ ~(m + i <= m) /\ (m + i) - m = i
  OBVIOUS
<1>6. \A i \in 1..n : (t \o u)[m + i] = u[i]
  BY <1>3, <1>5
<1>7. \A v \in Seq(T) : DOMAIN v = 1..Len(v) /\ v = [i \in 1..Len(v) |-> v[i]]
  OBVIOUS
<1>8. DOMAIN (t \o u) = 1..(m + n) /\ t \o u = [i \in 1..(m + n) |-> (t \o u)[i]]
  BY <1>3, <1>7
<1>9. m + n \in Nat
  OBVIOUS
<1> QED  BY <1>4, <1>6, <1>8, <1>9 DEF Sequence, After

(* The searches that have waited become ready, and wait no more. *)
LEMMA StepResumes ==
  ASSUME SearchesHold, Resumes, UNCHANGED <<running, start>>  PROVE SearchesHold'
<1>1. PICK S : S = Due
  OBVIOUS
<1>2. /\ ready' = ready \o SetToSeq(S) /\ DOMAIN waits' = DOMAIN waits \ S
      /\ UNCHANGED <<running, start, searches, underWay, held, searcher>>
  BY <1>1 DEF Resumes
<1>3. PICK k \in Nat : searches = [i \in 1..k |-> searches[i]]
  BY DEF SearchesHold, SearchersHold, Sequence
<1>4. S \subseteq DOMAIN waits /\ S \subseteq DOMAIN searches /\ S \subseteq 1..k
  BY <1>1, <1>3 DEF Due, SearchesHold, WorkersHold
<1>5. IsFiniteSet(S)
  <2>1. IsFiniteSet(1..k) /\ S \in SUBSET (1..k)
    BY <1>4, FS_Interval
  <2> QED  BY <2>1, FS_Subset
<1>6. PICK n \in Nat : /\ SetToSeq(S) \in [1..n -> S]
                       /\ \A i, j \in 1..n : SetToSeq(S)[i] = SetToSeq(S)[j] => i = j
                       /\ \A x \in S : \E i \in 1..n : SetToSeq(S)[i] = x
  BY <1>5, InSequenceOnce
<1>7. PICK f : f = SetToSeq(S)
  OBVIOUS
<1>8. PICK m \in Nat : ready = [i \in 1..m |-> ready[i]]
  BY DEF SearchesHold, WorkersHold, Sequence
<1>9. /\ Sequence(ready') /\ DOMAIN ready' = 1..(m + n)
      /\ \A i \in 1..m : ready'[i] = ready[i]
      /\ \A i \in 1..n : ready'[m + i] = f[i]
  <2>1. f = [i \in 1..n |-> f[i]]
    BY <1>6, <1>7
  <2>2. After(ready, m, f, n, ready \o f)
    BY <1>8, <2>1, Concatenates
  <2>3. ready' = ready \o f
    BY <1>2, <1>7
  <2> QED  BY <2>2, <2>3 DEF After
<1>10. /\ DOMAIN ready = 1..m
       /\ \A i \in 1..n : f[i] \in S
       /\ \A i, j \in 1..n : f[i] = f[j] => i = j
       /\ \A x \in S : \E i \in 1..n : f[i] = x
  BY <1>6, <1>7, <1>8
(* Each of those ready was before, or is one that has waited. *)
<1> DEFINE From(i) == i - m
<1>11. \A i \in DOMAIN ready' : \/ i \in DOMAIN ready /\ ready'[i] = ready[i]
                                \/ i \notin DOMAIN ready /\ From(i) \in 1..n /\ ready'[i] = f[From(i)] /\ ready'[i] \in S
  <2> SUFFICES ASSUME NEW i \in 1..(m + n), i \notin 1..m
               PROVE  From(i) \in 1..n /\ ready'[i] = f[From(i)] /\ ready'[i] \in S
    BY <1>9, <1>10
  <2>1. From(i) \in 1..n /\ m + From(i) = i
    OBVIOUS
  <2> QED  BY <1>9, <1>10, <2>1
<1>12. \A i, j \in DOMAIN ready' : From(i) = From(j) => i = j
  BY <1>9
<1> HIDE DEF From
<1>13. SearchersHold'
  BY <1>2 DEF SearchesHold, SearchersHold, SearchFor, EndedByNoOther, Live, HeldOff
<1>14. WorkersHold'
  BY <1>2, <1>4, <1>9, <1>11 DEF SearchesHold, WorkersHold
<1>15. OnceCarried'
  <2>1. ASSUME NEW i \in DOMAIN ready', NEW j \in DOMAIN ready', ready'[i] = ready'[j]  PROVE i = j
    <3>1. \A q \in DOMAIN ready : ready[q] \notin S
      BY <1>4 DEF SearchesHold, OnceCarried
    <3>2. i \in DOMAIN ready <=> j \in DOMAIN ready
      BY <1>11, <2>1, <3>1
    <3>3. CASE i \in DOMAIN ready
      BY <1>11, <2>1, <3>2, <3>3 DEF SearchesHold, OnceCarried
    <3>4. CASE i \notin DOMAIN ready
      <4>1. From(i) \in 1..n /\ From(j) \in 1..n /\ f[From(i)] = f[From(j)]
        BY <1>11, <2>1, <3>2, <3>4
      <4> QED  BY <1>10, <1>12, <4>1
    <3> QED  BY <3>3, <3>4
  <2>2. \A w \in SearchWorkers : \A i \in DOMAIN ready' : searcher[w].search # ready'[i]
    BY <1>4, <1>11 DEF SearchesHold, OnceCarried
  <2>3. \A i \in DOMAIN ready' : ready'[i] \notin DOMAIN waits'
    BY <1>2, <1>11 DEF SearchesHold, OnceCarried
  <2> QED  BY <1>2, <2>1, <2>2, <2>3 DEF SearchesHold, OnceCarried
<1>16. AllCarried'
  <2>1. \A i \in DOMAIN ready : i \in DOMAIN ready' /\ ready'[i] = ready[i]
    BY <1>9, <1>10
  <2>2. \A i \in 1..n : m + i \in DOMAIN ready' /\ ready'[m + i] = f[i]
    BY <1>9
  <2>3. \A q \in S : \E i \in DOMAIN ready' : ready'[i] = q
    BY <1>10, <2>2
  <2>4. \A q \in DOMAIN searches : IsCarried(q) => IsCarried(q)'
    BY <1>2, <2>1, <2>3 DEF IsCarried
  <2> QED  BY <1>2, <2>4 DEF SearchesHold, AllCarried, Live, SearchFor
<1> QED  BY <1>2, <1>13, <1>14, <1>15, <1>16 DEF SearchesHold

(* Time passes. *)
LEMMA StepSearchesTick ==
  ASSUME SearchesHold, Tick  PROVE SearchesHold'
<1> DEFINE other(s) == [searches[s] EXCEPT !.due = [n \in Nodes |-> Less(@[n])]]
<1>1. /\ searches' = [s \in DOMAIN searches |-> other(s)]
      /\ waits' = [s \in DOMAIN waits |-> Less(waits[s])]
      /\ held' = [c \in Content |-> Less(held[c])]
      /\ UNCHANGED <<running, start, underWay, ready, searcher>>
  BY DEF Tick, RestsAge, events
<1>2. \A s \in DOMAIN searches : /\ DOMAIN other(s) = DOMAIN searches[s]
                                 /\ other(s).content = searches[s].content
                                 /\ other(s).ended = searches[s].ended
  BY DEF SearchesHold, SearchersHold, SearchFields
<1> HIDE DEF other
<1>3. SameSearches
  <2>1. Sequence(searches')
    BY <1>1 DEF SearchesHold, SearchersHold, Sequence
  <2> QED  BY <1>1, <1>2, <2>1 DEF SearchesHold, SearchersHold, SameSearches
<1>4. \A c \in Content : held'[c] > 0 => held[c] > 0
  BY <1>1 DEF Less
<1>5. held' = [c \in Content |-> held'[c]]
  BY <1>1
<1>6. SearchersHold' /\ (\A s \in DOMAIN searches : Live(s)' <=> Live(s))
  BY <1>1, <1>3, <1>4, <1>5, SearchersStay DEF SearchesHold
<1>7. DOMAIN searches' = DOMAIN searches /\ DOMAIN waits' = DOMAIN waits
  BY <1>1
<1>8. WorkersHold' /\ OnceCarried'
  BY <1>1, <1>7 DEF SearchesHold, WorkersHold, OnceCarried
<1>9. AllCarried'
  BY <1>1, <1>6, <1>7 DEF SearchesHold, AllCarried, IsCarried
<1> QED  BY <1>1, <1>6, <1>8, <1>9 DEF SearchesHold

LEMMA ConnectsLeavesStart == Connects => start' = start /\ (running' => running)
<1> SUFFICES ASSUME Connects  PROVE start' = start /\ (running' => running)  OBVIOUS
<1>1. CASE Threads
  <2>1. ASSUME NEW k, DialThread(k)  PROVE UNCHANGED <<running, start>>
    BY <2>1 DEF DialThread, DialOpens, DialAdmits, DialEnds, Opens, Spend, events
  <2>2. ASSUME NEW d, AskedThread(d)  PROVE UNCHANGED <<running, start>>
    BY <2>2 DEF AskedThread, AskedOpens, AskedAdmits, AskedTells, Opens, Spend, events
  <2>3. ASSUME NEW s, Closed(s) \/ ClosedMaintains(s) \/ JoinedMaintains(s)  PROVE UNCHANGED <<running, start>>
    BY <2>3 DEF Closed, ClosedMaintains, JoinedMaintains, events
  <2>4. ASSUME NEW k, EndedMaintains(k)  PROVE UNCHANGED <<running, start>>
    BY <2>4 DEF EndedMaintains, events
  <2> QED  BY <1>1, <2>1, <2>2, <2>3, <2>4 DEF Threads, SessionThreads
<1>2. CASE Receives
  BY <1>2 DEF Receives, MainHasClosed, AllClosed, MainMaintains, PassesOn, MainCloses, events
<1>3. CASE Arrivals
  <2>1. ASSUME NEW s, PeerCloses(s)  PROVE UNCHANGED <<running, start>>
    BY <2>1 DEF PeerCloses, Spend
  <2>2. ASSUME NEW d, NEW e, OnDialRequested(d, e)  PROVE UNCHANGED <<running, start>>
    BY <2>2 DEF OnDialRequested, Spend
  <2>3. ASSUME NEW allowed, OnNodeTrust(allowed)  PROVE UNCHANGED <<running, start>>
    BY <2>3 DEF OnNodeTrust, Spend
  <2>4. ASSUME NEW list, OnNodeListUpdated(list)  PROVE UNCHANGED <<running, start>>
    BY <2>4 DEF OnNodeListUpdated, Spend
  <2>5. CASE OnStop
    BY <2>5 DEF OnStop, Spend
  <2> QED  BY <1>3, <2>1, <2>2, <2>3, <2>4, <2>5 DEF Arrivals
<1> QED  BY <1>1, <1>2, <1>3 DEF Connects

LEMMA TalksLeavesStart == ASSUME NEW s, NEW holds, Talks(s, holds)  PROVE UNCHANGED <<running, start>>
BY DEF Talks, ReadsSeekList, PushesSought, FindsMatches, LeavesOutNamed, NotesNamed, Posts, AsksForSought,
   AsksHead, Talked, Tells, Becomes, events

LEMMA SearchesHoldAlways == Spec => []SearchesHold
<1>1. Init => SearchesHold
  BY SearchesAtFirst
<1>2. SearchesHold /\ [Next]_vars => SearchesHold'
  <2> SUFFICES ASSUME SearchesHold, [Next]_vars  PROVE SearchesHold'  OBVIOUS
  <2>1. CASE Connects
    BY <2>1, ConnectsLeavesStart, OthersSearch DEF Connects, NoOther, searchVars
  <2>2. CASE Searches
    BY <2>2, StepSearcherTakes, StepSearcherLooks, StepSearcherAsks, StepSearcherFinds, StepSearcherFails
       DEF Searches, SearchThread
  <2>3. CASE Pushes
    <3>1. UNCHANGED <<searchVars, running, start>>
      BY <2>3 DEF Pushes, PushThread, JoinedPushes, PusherTakes, PusherReads, PusherAssigns, PusherSends,
                  PushesUnpushed, Greets, connectionVars, events
    <3> QED  BY <3>1, OthersSearch DEF searchVars
  <2>4. CASE Speaks
    <3>1. CASE Hears
      <4>1. UNCHANGED <<searchVars, running, start>>
        BY <3>1 DEF Hears, OnKarmaHead, OnSearchRequested, Broadcasts, Spend
      <4> QED  BY <4>1, OthersSearch DEF searchVars
    <3>2. CASE \E n \in Nodes : TalksWith(n)
      <4>1. UNCHANGED <<searchVars, running, start>>
        BY <3>2, TalksLeavesStart DEF TalksWith
      <4> QED  BY <4>1, OthersSearch DEF searchVars
    <3>3. CASE \E q \in Queries : PassThread(q)
      <4>1. UNCHANGED <<searchVars, running, start>>
        BY <3>3 DEF PassThread, MakesPass, PassBegins, PassAsks, PassEnds, PassFails, Broadcasts, Spend, events
      <4> QED  BY <4>1, OthersSearch DEF searchVars
    <3> QED  BY <2>4, <3>1, <3>2, <3>3 DEF Speaks
  <2>5. CASE OthersAct
    <3>1. PICK c \in start.contents : \/ OnFetchRequested(c)
                                      \/ \E source \in start.sources : OnDataStored(c, source)
                                      \/ Removed(c)
      BY <2>5 DEF OthersAct
    <3>2. c \in Content
      BY ExchangeAssumption DEF SearchesHold
    <3>3. CASE Removed(c)
      <4>1. UNCHANGED <<searchVars, running, start>>
        BY <3>3 DEF Removed, Spend
      <4> QED  BY <4>1, OthersSearch DEF searchVars
    <3> QED  BY <3>1, <3>2, <3>3, StepOnFetchRequested, StepOnDataStored
  <2>6. CASE OnIdle
    <3>1. Resumes /\ UNCHANGED <<running, start>>
      BY <2>6 DEF OnIdle, LetsRested, events
    <3> QED  BY <3>1, StepResumes
  <2>7. CASE Tick
    BY <2>7, StepSearchesTick
  <2>8. CASE UNCHANGED vars
    BY <2>8, OthersSearch DEF vars, searchVars, connectionVars, events
  <2> QED  BY <2>1, <2>2, <2>3, <2>4, <2>5, <2>6, <2>7, <2>8 DEF Next
<1> QED  BY <1>1, <1>2, PTL DEF Spec

(* What is searched for is carried by one, whatever is stored and asked    *)
(* for meanwhile; a search ends only itself, and none is under way for     *)
(* what is held off: for any content, peers and number of workers.         *)
THEOREM AllSearchesKept == Spec => []SearchesKept
BY SearchesHoldAlways, SearchesAreKept, PTL

-----------------------------------------------------------------------------
(* A peer's seek list is read by one conversation at a time, for as long   *)
(* as the peer is busy.                                                    *)

TalkFields == {"kind", "pc", "wanted", "names", "unnamed"}
ReadingIn(talks) == {i \in DOMAIN talks : talks[i].kind # "tell"}
NamedIn(session, q) == IF q \in DOMAIN session.named THEN session.named[q] ELSE {}

Talking(talks) ==
    /\ Sequence(talks)
    /\ \A i \in DOMAIN talks : /\ TalkFields \subseteq DOMAIN talks[i]
                               /\ talks[i].kind = "tell" <=> talks[i].pc = "tell"
ReadByOne(talks) == \A i, j \in ReadingIn(talks) : i = j
NotYetNamed(session, talk) ==
    talk.pc = "noting" => \A q \in DOMAIN talk.unnamed : talk.unnamed[q] \cap NamedIn(session, q) = {}

MixHolds(session) ==
    /\ Talking(session.talks)
    /\ ReadByOne(session.talks)
    /\ session.tail # "done" => ReadingIn(session.talks) = {}
    /\ session.busy <=> ReadingIn(session.talks) # {} \/ session.tail # "done"
    /\ \A i \in ReadingIn(session.talks) : NotYetNamed(session, session.talks[i])

(* One that awaits admission is busy, though nothing was said over it.     *)
MetHolds(session) ==
    /\ session.stage = "dialed" => session.talks = <<>> /\ session.tail = "done" /\ session.busy
    /\ session.stage = "admitted" => MixHolds(session)

(* A dial that has joined a peer to the mix, and it alone, has still to    *)
(* end.                                                                    *)
Joined(dial) == dial.pc = "ended" /\ dial.session # NoSession
JoinedHold ==
    /\ \A s \in DOMAIN sessions : sessions[s].stage = "dialed" => sessions[s].tail = "done"
    /\ \A k \in Keys : Joined(dialing[k]) =>
          dialing[k].session \in DOMAIN sessions /\ sessions[dialing[k].session].tail = "dialing"
    /\ \A j, k \in Keys :
          Joined(dialing[j]) /\ Joined(dialing[k]) /\ dialing[j].session = dialing[k].session => j = k

TalksHold == JoinedHold /\ (start.talks => \A s \in DOMAIN sessions : MetHolds(sessions[s]))

LEMMA Appends ==
  ASSUME NEW t, Sequence(t), NEW x
  PROVE  \E m : /\ m \notin DOMAIN t /\ DOMAIN Append(t, x) = DOMAIN t \cup {m} /\ Append(t, x)[m] = x
                /\ \A i \in DOMAIN t : Append(t, x)[i] = t[i]
                /\ Sequence(Append(t, x))
<1>1. PICK n \in Nat : t = [i \in 1..n |-> t[i]]
  BY DEF Sequence
<1> DEFINE S == {t[i] : i \in 1..n} \cup {x}
<1>2. t \in [1..n -> S] /\ x \in S /\ DOMAIN t = 1..n
  BY <1>1
<1> HIDE DEF S
<1>3. t \in Seq(S) /\ Len(t) = n
  BY <1>2
<1>4. /\ Append(t, x) \in Seq(S) /\ Len(Append(t, x)) = n + 1
      /\ \A i \in 1..n : Append(t, x)[i] = t[i]
      /\ Append(t, x)[n + 1] = x
  BY <1>2, <1>3
<1>5. \A u \in Seq(S) : Sequence(u) /\ DOMAIN u = 1..Len(u)
  BY DEF Sequence
<1>6. 1..(n + 1) = 1..n \cup {n + 1} /\ n + 1 \notin 1..n
  OBVIOUS
<1> QED  BY <1>2, <1>4, <1>5, <1>6

(* One without its i-th member, which each of the others has its own place *)
(* in.                                                                     *)
Places(t, i, u, f) ==
    /\ \A j \in DOMAIN u : u[j] = t[f[j]]
    /\ \A j, k \in DOMAIN u : f[j] = f[k] => j = k
    /\ \A j \in DOMAIN t \ {i} : \E k \in DOMAIN u : f[k] = j
Shortened(t, i, u) == Sequence(u) /\ \E f \in [DOMAIN u -> DOMAIN t \ {i}] : Places(t, i, u, f)

LEMMA Removes == ASSUME NEW t, Sequence(t), NEW i \in DOMAIN t  PROVE Shortened(t, i, RemoveAt(t, i))
<1>1. PICK n \in Nat : t = [j \in 1..n |-> t[j]]
  BY DEF Sequence
<1> DEFINE S == {t[j] : j \in 1..n}
<1>2. t \in [1..n -> S] /\ DOMAIN t = 1..n
  BY <1>1
<1> HIDE DEF S
<1>3. t \in Seq(S) /\ Len(t) = n /\ i \in 1..n
  BY <1>2
<1> DEFINE a == SubSeq(t, 1, i - 1)
           b == SubSeq(t, i + 1, n)
           u == a \o b
           f == [j \in 1..(n - 1) |-> IF j < i THEN j ELSE j + 1]
<1>4. /\ a \in Seq(S) /\ Len(a) = i - 1 /\ (\A j \in 1..(i - 1) : a[j] = t[j])
  BY <1>3
<1>5. /\ b \in Seq(S) /\ Len(b) = n - i /\ (\A j \in 1..(n - i) : b[j] = t[i + j])
  BY <1>3
<1>6. RemoveAt(t, i) = u
  BY <1>3 DEF RemoveAt
<1> HIDE DEF a, b
<1>7. /\ u \in Seq(S) /\ Len(u) = (i - 1) + (n - i)
      /\ \A j \in 1..((i - 1) + (n - i)) : u[j] = IF j <= i - 1 THEN a[j] ELSE b[j - (i - 1)]
  <2>1. /\ u \in Seq(S) /\ Len(u) = Len(a) + Len(b)
        /\ \A j \in 1..(Len(a) + Len(b)) : u[j] = IF j <= Len(a) THEN a[j] ELSE b[j - Len(a)]
    BY <1>4, <1>5, ConcatProperties
  <2>2. Len(a) = i - 1 /\ Len(b) = n - i
    BY <1>4, <1>5
  <2> HIDE DEF u
  <2> QED  BY <2>1, <2>2
<1> HIDE DEF u
<1>8. (i - 1) + (n - i) = n - 1 /\ n - 1 \in Nat
  BY <1>3
<1>9. DOMAIN u = 1..(n - 1) /\ Sequence(u)
  BY <1>7, <1>8 DEF Sequence
<1>10. ASSUME NEW j \in 1..(n - 1)  PROVE f[j] \in 1..n /\ f[j] # i /\ u[j] = t[f[j]]
  <2>1. CASE j < i
    <3>1. j \in 1..(i - 1) /\ j <= i - 1
      BY <1>3, <2>1
    <3>2. u[j] = a[j]
      BY <1>7, <1>8, <3>1
    <3>3. a[j] = t[j]
      BY <1>4, <3>1
    <3>4. f[j] = j /\ j \in 1..n /\ j # i
      BY <1>3, <2>1
    <3> QED  BY <3>2, <3>3, <3>4
  <2>2. CASE ~(j < i)
    <3>1. j - (i - 1) \in 1..(n - i) /\ ~(j <= i - 1) /\ i + (j - (i - 1)) = j + 1 /\ j + 1 \in 1..n /\ j + 1 # i
      BY <1>3, <2>2
    <3>2. u[j] = b[j - (i - 1)]
      BY <1>7, <1>8, <3>1
    <3>3. b[j - (i - 1)] = t[i + (j - (i - 1))]
      BY <1>5, <3>1
    <3>4. f[j] = j + 1
      BY <2>2
    <3> QED  BY <3>1, <3>2, <3>3, <3>4
  <2> QED  BY <2>1, <2>2
<1>11. f \in [DOMAIN u -> DOMAIN t \ {i}] /\ DOMAIN f = 1..(n - 1)
  BY <1>2, <1>9, <1>10
<1>12. \A j, k \in 1..(n - 1) : f[j] = f[k] => j = k
  BY <1>3
<1>13. ASSUME NEW j \in 1..n, j # i  PROVE \E k \in 1..(n - 1) : f[k] = j
  <2>1. CASE j < i
    <3>1. j \in 1..(n - 1) /\ f[j] = j
      BY <1>3, <2>1
    <3> QED  BY <3>1
  <2>2. CASE ~(j < i)
    <3>1. j - 1 \in 1..(n - 1) /\ f[j - 1] = j
      BY <1>3, <1>13, <2>2
    <3> QED  BY <3>1
  <2> QED  BY <2>1, <2>2
<1> HIDE DEF f
<1>14. Places(t, i, u, f)
  BY <1>2, <1>9, <1>10, <1>12, <1>13 DEF Places
<1> QED  BY <1>6, <1>9, <1>11, <1>14 DEF Shortened

(* What is appended to a session's conversations, taken from them or gone  *)
(* on with leaves at most one that reads.                                  *)
LEMMA ConversationIs ==
  ASSUME NEW kind, NEW pc
  PROVE  /\ DOMAIN Conversation(kind, pc) = TalkFields
         /\ Conversation(kind, pc).kind = kind /\ Conversation(kind, pc).pc = pc
BY DEF Conversation, TalkFields

LEMMA ToldHolds ==
  ASSUME NEW r, MixHolds(r), NEW u, u.talks = Append(r.talks, Conversation("tell", "tell")),
         u.tail = r.tail, u.busy = r.busy, u.named = r.named
  PROVE  MixHolds(u)
<1>1. PICK m : /\ m \notin DOMAIN r.talks /\ DOMAIN u.talks = DOMAIN r.talks \cup {m}
               /\ u.talks[m] = Conversation("tell", "tell")
               /\ \A i \in DOMAIN r.talks : u.talks[i] = r.talks[i]
               /\ Sequence(u.talks)
  BY Appends DEF MixHolds, Talking
<1>2. Talking(u.talks)
  BY <1>1, ConversationIs DEF MixHolds, Talking
<1>3. ReadingIn(u.talks) = ReadingIn(r.talks)
  BY <1>1, ConversationIs DEF ReadingIn
<1>4. \A i \in ReadingIn(r.talks) : u.talks[i] = r.talks[i]
  BY <1>1 DEF ReadingIn
<1>5. \A q : NamedIn(u, q) = NamedIn(r, q)
  BY DEF NamedIn
<1> QED  BY <1>2, <1>3, <1>4, <1>5 DEF MixHolds, ReadByOne, NotYetNamed

LEMMA ReadsAnew ==
  ASSUME NEW r, MixHolds(r), ReadingIn(r.talks) = {}, NEW kind \in {"greet", "refresh"}, NEW u,
         u.talks = Append(r.talks, Conversation(kind, "read")), u.tail = "done", u.busy
  PROVE  MixHolds(u)
<1>1. PICK m : /\ m \notin DOMAIN r.talks /\ DOMAIN u.talks = DOMAIN r.talks \cup {m}
               /\ u.talks[m] = Conversation(kind, "read")
               /\ \A i \in DOMAIN r.talks : u.talks[i] = r.talks[i]
               /\ Sequence(u.talks)
  BY Appends DEF MixHolds, Talking
<1>2. kind # "tell" /\ "read" # "tell" /\ "read" # "noting"
  OBVIOUS
<1>3. Talking(u.talks)
  BY <1>1, <1>2, ConversationIs DEF MixHolds, Talking
<1>4. ReadingIn(u.talks) = {m}
  BY <1>1, <1>2, ConversationIs DEF ReadingIn
<1>5. NotYetNamed(u, u.talks[m])
  BY <1>1, <1>2, ConversationIs DEF NotYetNamed
<1> QED  BY <1>3, <1>4, <1>5 DEF MixHolds, ReadByOne

LEMMA TalkGoesOn ==
  ASSUME NEW r, MixHolds(r), NEW i \in DOMAIN r.talks, r.talks[i].pc # "tell",
         NEW talk, TalkFields \subseteq DOMAIN talk, talk.kind = r.talks[i].kind, talk.pc # "tell",
         NEW u, u.talks = [r.talks EXCEPT ![i] = talk], u.tail = r.tail, u.busy = r.busy, NotYetNamed(u, talk)
  PROVE  MixHolds(u)
<1>1. /\ DOMAIN u.talks = DOMAIN r.talks /\ u.talks[i] = talk
      /\ \A j \in DOMAIN r.talks \ {i} : u.talks[j] = r.talks[j]
  OBVIOUS
<1>2. Sequence(u.talks)
  BY DEF MixHolds, Talking, Sequence
<1>3. Talking(u.talks)
  BY <1>1, <1>2 DEF MixHolds, Talking
<1>4. i \in ReadingIn(r.talks)
  BY DEF MixHolds, Talking, ReadingIn
<1>5. ReadingIn(u.talks) = {i} /\ ReadingIn(r.talks) = {i}
  <2>1. ReadingIn(r.talks) = {i}
    BY <1>4 DEF MixHolds, ReadByOne
  <2>2. ReadingIn(u.talks) = ReadingIn(r.talks)
    BY <1>1 DEF ReadingIn
  <2> QED  BY <2>1, <2>2
<1> QED  BY <1>1, <1>3, <1>5 DEF MixHolds, ReadByOne

LEMMA TalkIsOver ==
  ASSUME NEW r, MixHolds(r), NEW i \in DOMAIN r.talks, r.talks[i].pc # "tell",
         NEW u, u.talks = RemoveAt(r.talks, i), u.tail = r.tail, u.busy = FALSE
  PROVE  MixHolds(u)
<1>1. Shortened(r.talks, i, u.talks)
  BY Removes DEF MixHolds, Talking
<1>2. PICK f \in [DOMAIN u.talks -> DOMAIN r.talks \ {i}] : Places(r.talks, i, u.talks, f)
  BY <1>1 DEF Shortened
<1>3. i \in ReadingIn(r.talks)
  BY DEF MixHolds, Talking, ReadingIn
<1>4. Talking(u.talks)
  BY <1>1, <1>2 DEF MixHolds, Talking, Shortened, Places
<1>5. ReadingIn(u.talks) = {}
  BY <1>2, <1>3 DEF MixHolds, ReadByOne, ReadingIn, Places
<1> QED  BY <1>3, <1>4, <1>5 DEF MixHolds, ReadByOne

LEMMA TellIsOver ==
  ASSUME NEW r, MixHolds(r), NEW i \in DOMAIN r.talks, r.talks[i].pc = "tell",
         NEW u, u.talks = RemoveAt(r.talks, i), u.tail = r.tail, u.busy = r.busy, u.named = r.named
  PROVE  MixHolds(u)
<1>1. Shortened(r.talks, i, u.talks)
  BY Removes DEF MixHolds, Talking
<1>2. PICK f \in [DOMAIN u.talks -> DOMAIN r.talks \ {i}] : Places(r.talks, i, u.talks, f)
  BY <1>1 DEF Shortened
<1>3. /\ \A j \in DOMAIN u.talks : f[j] \in DOMAIN r.talks \ {i} /\ u.talks[j] = r.talks[f[j]]
      /\ \A j, k \in DOMAIN u.talks : f[j] = f[k] => j = k
      /\ \A j \in DOMAIN r.talks \ {i} : \E k \in DOMAIN u.talks : f[k] = j
  BY <1>2 DEF Places
<1>4. i \notin ReadingIn(r.talks)
  BY DEF MixHolds, Talking, ReadingIn
<1>5. Talking(u.talks)
  BY <1>1, <1>3 DEF MixHolds, Talking, Shortened
<1>6. \A j \in ReadingIn(u.talks) : f[j] \in ReadingIn(r.talks) /\ u.talks[j] = r.talks[f[j]]
  BY <1>3 DEF ReadingIn
<1>7. ReadByOne(u.talks)
  BY <1>3, <1>6 DEF MixHolds, ReadByOne, ReadingIn
<1>8. ReadingIn(u.talks) = {} <=> ReadingIn(r.talks) = {}
  <2>1. ASSUME NEW j \in ReadingIn(r.talks)  PROVE ReadingIn(u.talks) # {}
    <3>1. PICK k \in DOMAIN u.talks : f[k] = j
      BY <1>3, <1>4 DEF ReadingIn
    <3>2. k \in ReadingIn(u.talks)
      BY <1>3, <3>1 DEF ReadingIn
    <3> QED  BY <3>2
  <2> QED  BY <1>6, <2>1
<1>9. \A q : NamedIn(u, q) = NamedIn(r, q)
  BY DEF NamedIn
<1>10. \A j \in ReadingIn(u.talks) : NotYetNamed(u, u.talks[j])
  BY <1>6, <1>9 DEF MixHolds, NotYetNamed
<1> QED  BY <1>5, <1>7, <1>8, <1>10 DEF MixHolds

(* What goes on but for what is said. *)
SameTalk(r, u) ==
    /\ u.talks = r.talks /\ u.tail = r.tail /\ u.busy = r.busy /\ u.named = r.named
    /\ u.stage = r.stage \/ u.stage \notin {"dialed", "admitted"}
LEMMA SameTalkHolds == ASSUME NEW r, NEW u, SameTalk(r, u), MetHolds(r)  PROVE MetHolds(u)
<1>1. \A q : NamedIn(u, q) = NamedIn(r, q)
  BY DEF SameTalk, NamedIn
<1> QED  BY <1>1 DEF SameTalk, MetHolds, MixHolds, NotYetNamed

NoneJoins == \A k \in Keys : Joined(dialing'[k]) => dialing'[k] = dialing[k]

LEMMA TalksGoOn ==
  ASSUME TalksHold, start' = start, NoneJoins, DOMAIN sessions' = DOMAIN sessions,
         \A s \in DOMAIN sessions :
            /\ sessions'[s].stage = "dialed" => sessions[s].stage = "dialed" /\ sessions'[s].tail = sessions[s].tail
            /\ sessions[s].tail = "dialing" => sessions'[s].tail = "dialing"
            /\ start.talks => MetHolds(sessions'[s])
  PROVE  TalksHold'
<1>1. JoinedHold'
  BY DEF TalksHold, JoinedHold, NoneJoins
<1> QED  BY <1>1 DEF TalksHold, MetHolds, MixHolds, Talking, ReadByOne, ReadingIn, NotYetNamed, NamedIn, Sequence

LEMMA TalksTheSame ==
  ASSUME TalksHold, start' = start, NoneJoins, DOMAIN sessions' = DOMAIN sessions,
         \A s \in DOMAIN sessions : SameTalk(sessions[s], sessions'[s])
  PROVE  TalksHold'
<1>1. \A s \in DOMAIN sessions : start.talks => MetHolds(sessions'[s])
  BY SameTalkHolds DEF TalksHold
<1>2. \A s \in DOMAIN sessions :
        /\ sessions'[s].stage = "dialed" => sessions[s].stage = "dialed" /\ sessions'[s].tail = sessions[s].tail
        /\ sessions[s].tail = "dialing" => sessions'[s].tail = "dialing"
  BY DEF SameTalk
<1> QED  BY <1>1, <1>2, TalksGoOn

LEMMA TalksQuiet ==
  ASSUME TalksHold, UNCHANGED <<start, sessions>>, NoneJoins  PROVE TalksHold'
BY TalksTheSame DEF SameTalk

LEMMA NoDialJoins == dialing' = dialing => NoneJoins
BY DEF NoneJoins
LEMMA MaintainJoinsNone == Maintain => NoneJoins
<1> SUFFICES ASSUME Maintain  PROVE NoneJoins  OBVIOUS
<1>1. CASE UNCHANGED dialing
  BY <1>1 DEF NoneJoins
<1>2. CASE ~UNCHANGED dialing
  <2> DEFINE For(k) == {c \in ToSet(Wanted) : Key(c) = k}
             Next2(k) == IF For(k) = {} THEN dialing[k] ELSE Dialed(CHOOSE c \in For(k) : TRUE)
  <2>1. dialing' = [k \in Keys |-> Next2(k)]
    BY <1>2 DEF Maintain
  <2>2. \A c : Dialed(c).pc = "open"
    BY DEF Dialed, Idle
  <2>3. \A k \in Keys : Next2(k) = dialing[k] \/ \E c : Next2(k) = Dialed(c)
    OBVIOUS
  <2> HIDE DEF Next2
  <2> QED  BY <2>1, <2>2, <2>3 DEF NoneJoins, Joined
<1> QED  BY <1>1, <1>2

LEMMA NextEndpointJoinsNone == ASSUME NEW dial, DialFields \subseteq DOMAIN dial  PROVE ~Joined(NextEndpoint(dial))
BY DEF NextEndpoint, Joined, DialFields, NoSession

(* One session that stays in its stage, its tail or its conversation gone  *)
(* on.                                                                     *)
LEMMA OneTalks ==
  ASSUME ConnectionsHold, TalksHold, start' = start, NoneJoins, NEW t \in DOMAIN sessions, NEW other,
         sessions' = [sessions EXCEPT ![t] = other],
         other.stage = "dialed" => sessions[t].stage = "dialed" /\ other.tail = sessions[t].tail,
         sessions[t].tail = "dialing" => other.tail = "dialing",
         start.talks => MetHolds(other)
  PROVE  TalksHold'
<1>1. /\ DOMAIN sessions' = DOMAIN sessions /\ sessions'[t] = other
      /\ \A s \in DOMAIN sessions \ {t} : sessions'[s] = sessions[s]
  OBVIOUS
<1>2. \A s \in DOMAIN sessions :
        /\ sessions'[s].stage = "dialed" => sessions[s].stage = "dialed" /\ sessions'[s].tail = sessions[s].tail
        /\ sessions[s].tail = "dialing" => sessions'[s].tail = "dialing"
        /\ start.talks => MetHolds(sessions'[s])
  BY <1>1 DEF TalksHold
<1> QED  BY <1>1, <1>2, TalksGoOn

LEMMA OneTalksTheSame ==
  ASSUME ConnectionsHold, TalksHold, start' = start, NoneJoins, NEW t, NEW other,
         sessions' = [sessions EXCEPT ![t] = other], t \in DOMAIN sessions => SameTalk(sessions[t], other)
  PROVE  TalksHold'
<1>1. DOMAIN sessions' = DOMAIN sessions
  OBVIOUS
<1>2. \A s \in DOMAIN sessions : SameTalk(sessions[s], sessions'[s])
  BY DEF SameTalk
<1> QED  BY <1>1, <1>2, TalksTheSame

(* A dial opens a connection. *)
LEMMA LongerTalks ==
  ASSUME ConnectionsHold, TalksHold, NEW e, NEW t, Longer(e, t), start' = start, NoneJoins
  PROVE  TalksHold'
<1>1. /\ Session(e).stage = "dialed" /\ Session(e).tail = "done" /\ Session(e).talks = <<>> /\ Session(e).busy
  BY DEF Session
<1>2. MetHolds(Session(e))
  BY <1>1 DEF MetHolds
<1>3. start.talks => \A s \in DOMAIN sessions' : MetHolds(sessions'[s])
  BY <1>2 DEF TalksHold, Longer
<1>4. JoinedHold'
  BY <1>1 DEF TalksHold, JoinedHold, NoneJoins, Longer
<1> QED  BY <1>3, <1>4 DEF TalksHold, MetHolds, MixHolds, Talking, ReadByOne, ReadingIn, NotYetNamed, NamedIn, Sequence

LEMMA TalkDialOpens == ASSUME ConnectionsHold, TalksHold, NEW k \in Keys, DialOpens(k)  PROVE TalksHold'
<1> DEFINE e == dialing[k].endpoints[dialing[k].turn]
<1>1. CASE Opens(e) /\ dialing' = [dialing EXCEPT ![k].pc = "admit", ![k].session = Len(sessions')]
  <2>1. PICK t : t = Len(sessions') /\ Longer(e, t)
    BY <1>1, OpensOne DEF ConnectionsHold
  <2> HIDE DEF e
  <2>2. start' = start
    BY <1>1 DEF Opens, Spend
  <2>3. /\ \A j \in Keys \ {k} : dialing'[j] = dialing[j]
        /\ dialing'[k].pc = "admit"
    BY <1>1 DEF ConnectionsHold, DialsHold, DialFields
  <2>4. NoneJoins
    BY <2>3 DEF NoneJoins, Joined
  <2> QED  BY <2>1, <2>2, <2>4, LongerTalks
<1>2. CASE dialing' = [dialing EXCEPT ![k] = NextEndpoint(@)] /\ UNCHANGED <<sessions, events>>
  <2>1. ~Joined(NextEndpoint(dialing[k]))
    BY NextEndpointJoinsNone DEF ConnectionsHold, DialsHold
  <2>2. NoneJoins
    BY <1>2, <2>1 DEF NoneJoins, ConnectionsHold, DialsHold
  <2> QED  BY <1>2, <2>2, TalksQuiet DEF events
<1> QED  BY <1>1, <1>2 DEF DialOpens

LEMMA TalkAskedOpens == ASSUME ConnectionsHold, TalksHold, NEW d \in Dials, AskedOpens(d)  PROVE TalksHold'
<1> DEFINE e == asked[d].endpoint
<1>1. NoneJoins
  BY NoDialJoins DEF AskedOpens
<1>2. CASE Opens(e)
  <2>1. PICK t : t = Len(sessions') /\ Longer(e, t)
    BY <1>2, OpensOne DEF ConnectionsHold
  <2>2. start' = start
    BY <1>2 DEF Opens, Spend
  <2> HIDE DEF e
  <2> QED  BY <1>1, <2>1, <2>2, LongerTalks
<1>3. CASE UNCHANGED <<sessions, events>>
  BY <1>1, <1>3, TalksQuiet DEF events
<1> QED  BY <1>2, <1>3 DEF AskedOpens

(* One that awaits admission is taken in, busy and still to be greeted, or *)
(* is not.                                                                 *)
LEMMA AdmittedTalks ==
  ASSUME ConnectionsHold, TalksHold, NEW s, NEW tail \in {"dialing", "greet"}, AwaitsAdmission(sessions, s),
         Admit(s, tail), start' = start
  PROVE  /\ DOMAIN sessions' = DOMAIN sessions
         /\ \A q \in DOMAIN sessions \ {s} : sessions'[q] = sessions[q]
         /\ sessions'[s].stage # "dialed" /\ (Refusal(s) = "none" => sessions'[s].tail = tail)
         /\ sessions[s].tail = "done"
         /\ start.talks' => \A q \in DOMAIN sessions' : MetHolds(sessions'[q])
<1> DEFINE session == IF Refusal(s) = "none" THEN [sessions[s] EXCEPT !.stage = "admitted", !.tail = tail]
                      ELSE [sessions[s] EXCEPT !.stage = "gone", !.open = FALSE]
<1>1. sessions' = [sessions EXCEPT ![s] = session]
  BY DEF Admit
<1>2. s \in DOMAIN sessions /\ sessions[s].stage = "dialed" /\ SessionFields \subseteq DOMAIN sessions[s]
  BY DEF AwaitsAdmission, ConnectionsHold, SessionsHold
<1>3. /\ Refusal(s) = "none" => session.stage = "admitted" /\ session.tail = tail
      /\ Refusal(s) # "none" => session.stage = "gone"
      /\ session.talks = sessions[s].talks /\ session.busy = sessions[s].busy
  BY <1>2 DEF SessionFields
<1> HIDE DEF session
<1>4. /\ DOMAIN sessions' = DOMAIN sessions
      /\ \A q \in DOMAIN sessions \ {s} : sessions'[q] = sessions[q]
      /\ sessions'[s] = session
  BY <1>1, <1>2
<1>5. sessions[s].tail = "done"
  BY <1>2 DEF TalksHold, JoinedHold
<1>6. start.talks => MetHolds(session)
  <2> SUFFICES ASSUME start.talks  PROVE MetHolds(session)  OBVIOUS
  <2>1. sessions[s].talks = <<>> /\ sessions[s].busy
    BY <1>2 DEF TalksHold, MetHolds
  <2>2. CASE Refusal(s) = "none"
    <3>1. Talking(<<>>) /\ ReadingIn(<<>>) = {}
      BY DEF Talking, ReadingIn, Sequence
    <3> QED  BY <1>3, <2>1, <2>2, <3>1 DEF MetHolds, MixHolds, ReadByOne
  <2>3. CASE Refusal(s) # "none"
    BY <1>3, <2>3 DEF MetHolds
  <2> QED  BY <2>2, <2>3
<1> QED  BY <1>2, <1>3, <1>4, <1>5, <1>6 DEF TalksHold

LEMMA TalkDialAdmits == ASSUME ConnectionsHold, TalksHold, NEW k \in Keys, DialAdmits(k)  PROVE TalksHold'
<1> DEFINE dial == dialing[k]
           next == IF Refusal(dial.session) = "none" THEN [dial EXCEPT !.pc = "ended"]
                   ELSE IF ~running \/ sessions[dial.session].node = dial.node
                   THEN [dial EXCEPT !.pc = "ended", !.session = NoSession]
                   ELSE NextEndpoint(dial)
<1>1. PICK s : s = dial.session
  OBVIOUS
<1>2. dial.pc = "admit" /\ AwaitsAdmission(sessions, s)
  BY <1>1 DEF DialAdmits, ConnectionsHold, DialsHold
<1>3. Admit(s, "dialing") /\ dialing' = [dialing EXCEPT ![k] = next] /\ start' = start
  BY <1>1 DEF DialAdmits, events
<1>4. /\ Joined(next) => Refusal(s) = "none" /\ next.session = s
  <2>1. CASE Refusal(s) = "none"
    BY <1>1, <2>1 DEF ConnectionsHold, DialsHold, DialFields
  <2>2. CASE Refusal(s) # "none"
    BY <1>1, <2>2, NextEndpointJoinsNone DEF ConnectionsHold, DialsHold, DialFields, Joined
  <2> QED  BY <2>1, <2>2
<1> HIDE DEF next
<1>5. /\ \A j \in Keys \ {k} : dialing'[j] = dialing[j]
      /\ dialing'[k] = next
  BY <1>3 DEF ConnectionsHold, DialsHold
<1>6. /\ DOMAIN sessions' = DOMAIN sessions
      /\ \A q \in DOMAIN sessions \ {s} : sessions'[q] = sessions[q]
      /\ sessions'[s].stage # "dialed" /\ (Refusal(s) = "none" => sessions'[s].tail = "dialing")
      /\ sessions[s].tail = "done"
      /\ start.talks' => \A q \in DOMAIN sessions' : MetHolds(sessions'[q])
  BY <1>2, <1>3, AdmittedTalks
<1>7. s \in DOMAIN sessions
  BY <1>2 DEF AwaitsAdmission
<1>8. JoinedHold'
  <2>1. \A j \in Keys \ {k} : Joined(dialing'[j]) => dialing'[j].session # s
    BY <1>5, <1>6 DEF TalksHold, JoinedHold
  <2>2. \A j \in Keys : Joined(dialing'[j]) =>
          dialing'[j].session \in DOMAIN sessions /\ sessions'[dialing'[j].session].tail = "dialing"
    BY <1>4, <1>5, <1>6, <1>7, <2>1 DEF TalksHold, JoinedHold
  <2>3. \A i, j \in Keys : Joined(dialing'[i]) /\ Joined(dialing'[j]) /\ dialing'[i].session = dialing'[j].session => i = j
    BY <1>4, <1>5, <2>1 DEF TalksHold, JoinedHold
  <2>4. \A q \in DOMAIN sessions' : sessions'[q].stage = "dialed" => sessions'[q].tail = "done"
    BY <1>6 DEF TalksHold, JoinedHold
  <2> QED  BY <1>6, <2>2, <2>3, <2>4 DEF JoinedHold
<1> QED  BY <1>6, <1>8 DEF TalksHold, MetHolds, MixHolds, Talking, ReadByOne, ReadingIn, NotYetNamed, NamedIn, Sequence

LEMMA TalkAskedAdmits == ASSUME ConnectionsHold, TalksHold, NEW d \in Dials, AskedAdmits(d)  PROVE TalksHold'
<1>1. PICK s : s = asked[d].session
  OBVIOUS
<1>2. AwaitsAdmission(sessions, s)
  BY <1>1 DEF AskedAdmits, ConnectionsHold, AsksHold
<1>3. Admit(s, "greet") /\ dialing' = dialing /\ start' = start
  BY <1>1 DEF AskedAdmits, events
<1>4. /\ DOMAIN sessions' = DOMAIN sessions
      /\ \A q \in DOMAIN sessions \ {s} : sessions'[q] = sessions[q]
      /\ sessions'[s].stage # "dialed" /\ sessions[s].tail = "done"
      /\ start.talks' => \A q \in DOMAIN sessions' : MetHolds(sessions'[q])
  BY <1>2, <1>3, AdmittedTalks
<1>5. JoinedHold'
  BY <1>3, <1>4 DEF TalksHold, JoinedHold
<1> QED  BY <1>4, <1>5 DEF TalksHold, MetHolds, MixHolds, Talking, ReadByOne, ReadingIn, NotYetNamed, NamedIn, Sequence

(* The tail of a session that joined the mix goes on, before it is greeted. *)
LEMMA TailGoesOn ==
  ASSUME NEW r, MetHolds(r), r.tail # "done", NEW u, u.tail # "done",
         u.stage = r.stage, u.talks = r.talks, u.busy = r.busy, u.named = r.named
  PROVE  MetHolds(u)
<1>1. \A q : NamedIn(u, q) = NamedIn(r, q)
  BY DEF NamedIn
<1> QED  BY <1>1 DEF MetHolds, MixHolds, NotYetNamed

LEMMA TalkDialEnds == ASSUME ConnectionsHold, TalksHold, NEW k \in Keys, DialEnds(k)  PROVE TalksHold'
<1>1. PICK t : t = dialing[k].session
  OBVIOUS
<1>2. start' = start /\ dialing[k].pc = "ended" /\ dialing' = [dialing EXCEPT ![k] = Idle]
  BY DEF DialEnds, events
<1>3. Idle.pc = "idle" /\ ~Joined(Idle)
  BY DEF Idle, Joined
<1>4. (\A j \in Keys \ {k} : dialing'[j] = dialing[j]) /\ dialing'[k] = Idle
  BY <1>2 DEF ConnectionsHold, DialsHold
<1>5. NoneJoins
  BY <1>3, <1>4 DEF NoneJoins
<1>6. CASE t = NoSession
  BY <1>1, <1>2, <1>5, <1>6, TalksQuiet DEF DialEnds
<1>7. CASE t # NoSession
  <2> DEFINE other == [sessions[t] EXCEPT !.tail = "maintain"]
  <2>1. sessions' = [sessions EXCEPT ![t] = other]
    BY <1>1, <1>7 DEF DialEnds
  <2>2. Joined(dialing[k])
    BY <1>1, <1>2, <1>7 DEF Joined
  <2>3. t \in DOMAIN sessions /\ sessions[t].tail = "dialing" /\ SessionFields \subseteq DOMAIN sessions[t]
    BY <1>1, <2>2 DEF TalksHold, JoinedHold, ConnectionsHold, SessionsHold
  <2>4. /\ other.tail = "maintain" /\ other.stage = sessions[t].stage /\ other.talks = sessions[t].talks
        /\ other.busy = sessions[t].busy /\ other.named = sessions[t].named
    BY <2>3 DEF SessionFields
  <2> HIDE DEF other
  <2>5. /\ DOMAIN sessions' = DOMAIN sessions /\ sessions'[t] = other
        /\ \A s \in DOMAIN sessions \ {t} : sessions'[s] = sessions[s]
    BY <2>1, <2>3
  <2>6. start.talks => \A s \in DOMAIN sessions' : MetHolds(sessions'[s])
    <3>1. start.talks => MetHolds(other)
      BY <2>3, <2>4, TailGoesOn DEF TalksHold
    <3> QED  BY <2>5, <3>1 DEF TalksHold
  <2>7. JoinedHold'
    <3>1. \A j \in Keys : Joined(dialing'[j]) => j # k /\ dialing'[j] = dialing[j] /\ dialing[j].session # t
      BY <1>1, <1>3, <1>4, <2>2 DEF TalksHold, JoinedHold
    <3>2. \A s \in DOMAIN sessions' : sessions'[s].stage = "dialed" => sessions'[s].tail = "done"
      BY <2>3, <2>4, <2>5 DEF TalksHold, JoinedHold
    <3> QED  BY <2>5, <3>1, <3>2 DEF TalksHold, JoinedHold
  <2> QED  BY <1>2, <2>6, <2>7 DEF TalksHold, MetHolds, MixHolds, Talking, ReadByOne, ReadingIn, NotYetNamed, NamedIn, Sequence
<1> QED  BY <1>6, <1>7

LEMMA TalkJoinedMaintains ==
  ASSUME ConnectionsHold, TalksHold, NEW s \in DOMAIN sessions, JoinedMaintains(s)  PROVE TalksHold'
<1> DEFINE other == [sessions[s] EXCEPT !.tail = "greet"]
<1>1. sessions' = [sessions EXCEPT ![s] = other] /\ start' = start /\ NoneJoins /\ sessions[s].tail = "maintain"
  BY MaintainJoinsNone DEF JoinedMaintains, events
<1>2. /\ other.tail = "greet" /\ other.stage = sessions[s].stage /\ other.talks = sessions[s].talks
      /\ other.busy = sessions[s].busy /\ other.named = sessions[s].named
  BY DEF ConnectionsHold, SessionsHold, SessionFields
<1> HIDE DEF other
<1>3. start.talks => MetHolds(other)
  BY <1>1, <1>2, TailGoesOn DEF TalksHold
<1>4. other.stage = "dialed" => sessions[s].stage = "dialed" /\ other.tail = sessions[s].tail
  BY <1>1, <1>2 DEF TalksHold, JoinedHold
<1> QED  BY <1>1, <1>3, <1>4, OneTalks

LEMMA TalkGreets ==
  ASSUME ConnectionsHold, TalksHold, NEW s \in DOMAIN sessions, Greets(s)  PROVE TalksHold'
<1> DEFINE talks == IF start.talks THEN Append(sessions[s].talks, Conversation("greet", "read")) ELSE sessions[s].talks
           other == [sessions[s] EXCEPT !.tail = "done", !.talks = talks]
<1>1. sessions' = [sessions EXCEPT ![s] = other]
  BY DEF Greets, ConnectionsHold, SessionsHold
<1>2. start' = start /\ NoneJoins /\ sessions[s].tail = "greet"
  BY NoDialJoins DEF Greets, events, dials
<1>3. /\ other.tail = "done" /\ other.stage = sessions[s].stage /\ other.talks = talks
      /\ other.busy = sessions[s].busy
  BY DEF ConnectionsHold, SessionsHold, SessionFields
<1> HIDE DEF other
<1>4. start.talks => MetHolds(other)
  <2> SUFFICES ASSUME start.talks, other.stage = "admitted"  PROVE MixHolds(other)
    BY <1>2, <1>3 DEF MetHolds, TalksHold, JoinedHold
  <2>1. MixHolds(sessions[s])
    BY <1>3 DEF TalksHold, MetHolds
  <2>2. ReadingIn(sessions[s].talks) = {} /\ sessions[s].busy
    BY <1>2, <2>1 DEF MixHolds
  <2>3. other.talks = Append(sessions[s].talks, Conversation("greet", "read"))
    BY <1>3
  <2> QED  BY <1>3, <2>1, <2>2, <2>3, ReadsAnew
<1>5. other.stage # "dialed"
  BY <1>2, <1>3 DEF TalksHold, JoinedHold
<1> QED  BY <1>1, <1>2, <1>4, <1>5, OneTalks

(* Connections that close, with what is said over them. *)
LEMMA TalkPeerCloses == ASSUME ConnectionsHold, TalksHold, NEW s \in DOMAIN sessions, PeerCloses(s)  PROVE TalksHold'
<1>1. PICK away : sessions' = [sessions EXCEPT ![s].open = FALSE, ![s].away = away]
  BY DEF PeerCloses
<1> DEFINE other == [sessions[s] EXCEPT !.open = FALSE, !.away = away]
<1>2. sessions' = [sessions EXCEPT ![s] = other]
  BY <1>1 DEF ConnectionsHold, SessionsHold
<1>3. SameTalk(sessions[s], other)
  BY DEF SameTalk, ConnectionsHold, SessionsHold, SessionFields
<1> HIDE DEF other
<1>4. start' = start /\ NoneJoins
  BY NoDialJoins DEF PeerCloses, Spend, dials
<1> QED  BY <1>2, <1>3, <1>4, OneTalksTheSame

LEMMA TalkClosed == ASSUME ConnectionsHold, TalksHold, NEW s \in DOMAIN sessions, Closed(s)  PROVE TalksHold'
<1> DEFINE other == [sessions[s] EXCEPT !.stage = "closed"]
<1>1. sessions' = [sessions EXCEPT ![s] = other] /\ start' = start /\ NoneJoins
  BY NoDialJoins DEF Closed, events, dials
<1>2. SameTalk(sessions[s], other)
  BY DEF SameTalk, ConnectionsHold, SessionsHold, SessionFields
<1> HIDE DEF other
<1> QED  BY <1>1, <1>2, OneTalksTheSame

LEMMA TalkClosedMaintains ==
  ASSUME ConnectionsHold, TalksHold, NEW s \in DOMAIN sessions, ClosedMaintains(s)  PROVE TalksHold'
<1> DEFINE other == [sessions[s] EXCEPT !.stage = "gone"]
<1>1. sessions' = [sessions EXCEPT ![s] = other] /\ start' = start /\ NoneJoins
  BY MaintainJoinsNone DEF ClosedMaintains, events
<1>2. SameTalk(sessions[s], other)
  BY DEF SameTalk, ConnectionsHold, SessionsHold, SessionFields
<1> HIDE DEF other
<1> QED  BY <1>1, <1>2, OneTalksTheSame

LEMMA TalkMainCloses == ASSUME ConnectionsHold, TalksHold, NEW s, MainCloses(s)  PROVE TalksHold'
<1> DEFINE other == [sessions[s] EXCEPT !.open = FALSE]
<1>1. sessions' = [sessions EXCEPT ![s] = other] /\ start' = start /\ NoneJoins
  BY NoDialJoins DEF MainCloses, Shut, events, dials
<1>2. s \in DOMAIN sessions => SameTalk(sessions[s], other)
  BY DEF SameTalk, ConnectionsHold, SessionsHold, SessionFields
<1> HIDE DEF other
<1> QED  BY <1>1, <1>2, OneTalksTheSame

LEMMA TalkPusherSends == ASSUME ConnectionsHold, TalksHold, NEW w, PusherSends(w)  PROVE TalksHold'
<1>1. start' = start /\ NoneJoins
  BY NoDialJoins DEF PusherSends, events, dials
<1>2. sessions' = sessions \/ \E s, more : sessions' = [sessions EXCEPT ![s].pushed = more]
  BY DEF PusherSends
<1>3. ASSUME NEW s, NEW more, sessions' = [sessions EXCEPT ![s].pushed = more]  PROVE TalksHold'
  <2> DEFINE other == [sessions[s] EXCEPT !.pushed = more]
  <2>1. sessions' = [sessions EXCEPT ![s] = other]
    BY <1>3
  <2>2. s \in DOMAIN sessions => SameTalk(sessions[s], other)
    BY DEF SameTalk, ConnectionsHold, SessionsHold, SessionFields
  <2> HIDE DEF other
  <2> QED  BY <1>1, <2>1, <2>2, OneTalksTheSame
<1> QED  BY <1>1, <1>2, <1>3, TalksQuiet

LEMMA TalkTick == ConnectionsHold /\ TalksHold /\ Tick => TalksHold'
<1> SUFFICES ASSUME ConnectionsHold, TalksHold, Tick  PROVE TalksHold'  OBVIOUS
<1> DEFINE other(s) == [sessions[s] EXCEPT !.refresh = Less(@)]
<1>1. sessions' = [s \in DOMAIN sessions |-> other(s)]
  BY DEF Tick
<1>2. start' = start /\ NoneJoins
  BY NoDialJoins DEF Tick, RestsAge, events, dials
<1>3. \A s \in DOMAIN sessions : SameTalk(sessions[s], other(s))
  BY DEF SameTalk, ConnectionsHold, SessionsHold, SessionFields
<1> HIDE DEF other
<1> QED  BY <1>1, <1>2, <1>3, TalksTheSame

LEMMA TalkToldEach ==
  ASSUME ConnectionsHold, TalksHold, sessions' = ToldEach, start' = start, NoneJoins  PROVE TalksHold'
<1>1. DOMAIN sessions' = DOMAIN sessions /\ \A s \in DOMAIN sessions : sessions'[s] = Told(s)
  BY DEF ToldEach
<1>2. ASSUME NEW s \in DOMAIN sessions
      PROVE  /\ Told(s).stage = sessions[s].stage /\ Told(s).tail = sessions[s].tail
             /\ start.talks => MetHolds(Told(s))
  <2>1. CASE start.talks /\ s \in InMix
    <3>1. /\ Told(s).talks = Append(sessions[s].talks, Conversation("tell", "tell"))
          /\ Told(s).stage = sessions[s].stage /\ Told(s).tail = sessions[s].tail
          /\ Told(s).busy = sessions[s].busy /\ Told(s).named = sessions[s].named
      BY <2>1 DEF Told, ConnectionsHold, SessionsHold, SessionFields
    <3>2. sessions[s].stage = "admitted" /\ MixHolds(sessions[s])
      BY <2>1 DEF InMix, TalksHold, MetHolds
    <3>3. MixHolds(Told(s))
      BY <3>1, <3>2, ToldHolds
    <3> QED  BY <3>1, <3>2, <3>3 DEF MetHolds
  <2>2. CASE ~(start.talks /\ s \in InMix)
    BY <2>2 DEF Told, TalksHold
  <2> QED  BY <2>1, <2>2
<1> QED  BY <1>1, <1>2, TalksGoOn

LEMMA TalkOnIdle == ConnectionsHold /\ TalksHold /\ OnIdle => TalksHold'
<1> SUFFICES ASSUME ConnectionsHold, TalksHold, OnIdle  PROVE TalksHold'  OBVIOUS
<1> DEFINE other(s) == IF s \in DueSessions THEN Refreshing(s) ELSE sessions[s]
<1>1. sessions' = [s \in DOMAIN sessions |-> other(s)]
  BY DEF OnIdle
<1>2. start' = start /\ NoneJoins
  BY NoDialJoins DEF OnIdle, LetsRested, events, dials
<1>3. ASSUME NEW s \in DOMAIN sessions
      PROVE  /\ other(s).stage = sessions[s].stage /\ other(s).tail = sessions[s].tail
             /\ start.talks => MetHolds(other(s))
  <2>1. CASE s \in DueSessions
    <3>1. sessions[s].stage = "admitted" /\ start.talks /\ ~sessions[s].busy
      BY <2>1 DEF DueSessions, InMix
    <3>2. /\ Refreshing(s).talks = Append(sessions[s].talks, Conversation("refresh", "read"))
          /\ Refreshing(s).stage = "admitted" /\ Refreshing(s).tail = sessions[s].tail /\ Refreshing(s).busy
      BY <3>1 DEF Refreshing, ConnectionsHold, SessionsHold, SessionFields
    <3>3. MixHolds(sessions[s])
      BY <3>1 DEF TalksHold, MetHolds
    <3>4. ReadingIn(sessions[s].talks) = {} /\ sessions[s].tail = "done"
      BY <3>1, <3>3 DEF MixHolds
    <3>5. MixHolds(Refreshing(s))
      BY <3>2, <3>3, <3>4, ReadsAnew
    <3> QED  BY <2>1, <3>1, <3>2, <3>5 DEF MetHolds
  <2>2. CASE s \notin DueSessions
    BY <2>2 DEF TalksHold
  <2> QED  BY <2>1, <2>2
<1> HIDE DEF other
<1> QED  BY <1>1, <1>2, <1>3, TalksGoOn

(* A conversation with one of the peers goes on, or is over. *)
LEMMA TalkBecomes ==
  ASSUME ConnectionsHold, TalksHold, NEW s \in DOMAIN sessions, sessions[s].talks # <<>>, NEW other, Becomes(s, other),
         other.stage = sessions[s].stage, other.tail = sessions[s].tail,
         MixHolds(sessions[s]) => MixHolds(other)
  PROVE  TalksHold'
<1>1. sessions' = [sessions EXCEPT ![s] = other] /\ start' = start /\ NoneJoins
  BY NoDialJoins DEF Becomes, events, dials
<1>2. start.talks => MetHolds(other)
  BY DEF TalksHold, MetHolds
<1> QED  BY <1>1, <1>2, OneTalks

LEMMA GoesOnIs ==
  ASSUME ConnectionsHold, NEW s \in DOMAIN sessions, NEW i, NEW talk
  PROVE  /\ GoesOn(s, i, talk).talks = [sessions[s].talks EXCEPT ![i] = talk]
         /\ GoesOn(s, i, talk).stage = sessions[s].stage /\ GoesOn(s, i, talk).tail = sessions[s].tail
         /\ GoesOn(s, i, talk).busy = sessions[s].busy /\ GoesOn(s, i, talk).named = sessions[s].named
         /\ DOMAIN GoesOn(s, i, talk) = DOMAIN sessions[s]
BY DEF GoesOn, ConnectionsHold, SessionsHold, SessionFields

LEMMA OverIs ==
  ASSUME ConnectionsHold, NEW s \in DOMAIN sessions, NEW i
  PROVE  /\ Over(s, i).talks = RemoveAt(sessions[s].talks, i)
         /\ Over(s, i).stage = sessions[s].stage /\ Over(s, i).tail = sessions[s].tail
         /\ Over(s, i).busy = sessions[s].busy /\ Over(s, i).named = sessions[s].named
         /\ DOMAIN Over(s, i) = DOMAIN sessions[s]
BY DEF Over, ConnectionsHold, SessionsHold, SessionFields

(* What a conversation goes on to is one of the same kind. *)
GoesOnTo(talk, next) ==
    /\ TalkFields \subseteq DOMAIN next /\ next.kind = talk.kind /\ next.pc # "tell"

LEMMA TalkGoesOnTo ==
  ASSUME ConnectionsHold, TalksHold, NEW s \in DOMAIN sessions, NEW i \in DOMAIN sessions[s].talks,
         sessions[s].talks[i].pc # "tell", NEW next, NEW other, Becomes(s, other),
         other.talks = [sessions[s].talks EXCEPT ![i] = next],
         other.stage = sessions[s].stage, other.tail = sessions[s].tail, other.busy = sessions[s].busy,
         TalkFields \subseteq DOMAIN sessions[s].talks[i] =>
            GoesOnTo(sessions[s].talks[i], next) /\ NotYetNamed(other, next)
  PROVE  TalksHold'
<1>1. MixHolds(sessions[s]) => MixHolds(other)
  <2> SUFFICES ASSUME MixHolds(sessions[s])  PROVE MixHolds(other)  OBVIOUS
  <2>1. TalkFields \subseteq DOMAIN sessions[s].talks[i]
    BY DEF MixHolds, Talking
  <2>2. TalkFields \subseteq DOMAIN next /\ next.kind = sessions[s].talks[i].kind /\ next.pc # "tell" /\ NotYetNamed(other, next)
    BY <2>1 DEF GoesOnTo
  <2> QED  BY <2>2, TalkGoesOn
<1>2. sessions[s].talks # <<>>
  OBVIOUS
<1> QED  BY <1>1, <1>2, TalkBecomes

LEMMA TalkOnlyGoesOn ==
  ASSUME ConnectionsHold, TalksHold, NEW s \in DOMAIN sessions, NEW i \in DOMAIN sessions[s].talks,
         sessions[s].talks[i].pc # "tell", NEW next, Becomes(s, GoesOn(s, i, next)),
         TalkFields \subseteq DOMAIN sessions[s].talks[i] =>
            GoesOnTo(sessions[s].talks[i], next) /\ next.pc # "noting"
  PROVE  TalksHold'
<1>1. PICK other : other = GoesOn(s, i, next)
  OBVIOUS
<1>2. /\ other.talks = [sessions[s].talks EXCEPT ![i] = next]
      /\ other.stage = sessions[s].stage /\ other.tail = sessions[s].tail /\ other.busy = sessions[s].busy
  BY <1>1, GoesOnIs
<1>3. TalkFields \subseteq DOMAIN sessions[s].talks[i] =>
         GoesOnTo(sessions[s].talks[i], next) /\ NotYetNamed(other, next)
  BY DEF NotYetNamed
<1> QED  BY <1>1, <1>2, <1>3, TalkGoesOnTo

LEMMA TalkReads ==
  ASSUME ConnectionsHold, TalksHold, NEW s \in DOMAIN sessions, NEW i \in DOMAIN sessions[s].talks, ReadsSeekList(s, i)
  PROVE  TalksHold'
<1> DEFINE talk == sessions[s].talks[i]
           Reads(list) == [talk EXCEPT !.pc = "push", !.wanted = Without(list.data, sessions[s].pushed),
                                       !.names = [q \in list.queries |-> {}]]
<1>1. talk.pc = "read"
  BY DEF ReadsSeekList
<1>2. ASSUME NEW list, Becomes(s, GoesOn(s, i, Reads(list)))  PROVE TalksHold'
  <2>1. TalkFields \subseteq DOMAIN talk => GoesOnTo(talk, Reads(list)) /\ Reads(list).pc # "noting"
    BY DEF GoesOnTo, TalkFields
  <2> HIDE DEF Reads
  <2> QED  BY <1>1, <1>2, <2>1, TalkOnlyGoesOn
<1>3. ASSUME NEW pc \in {"seek", "end"}, Becomes(s, GoesOn(s, i, [talk EXCEPT !.pc = pc]))  PROVE TalksHold'
  <2> DEFINE next == [talk EXCEPT !.pc = pc]
  <2>1. TalkFields \subseteq DOMAIN talk => GoesOnTo(talk, next) /\ next.pc # "noting"
    BY DEF GoesOnTo, TalkFields
  <2> HIDE DEF next
  <2>2. Becomes(s, GoesOn(s, i, next))
    BY <1>3 DEF next
  <2> QED  BY <1>1, <2>1, <2>2, TalkOnlyGoesOn
<1>4. AfterNames(talk) \in {"seek", "end"}
  BY DEF AfterNames
<1> QED  BY <1>2, <1>3, <1>4 DEF ReadsSeekList

LEMMA TalkPushes ==
  ASSUME ConnectionsHold, TalksHold, NEW s \in DOMAIN sessions, NEW i \in DOMAIN sessions[s].talks,
         NEW stock, PushesSought(s, i, stock)
  PROVE  TalksHold'
<1> DEFINE talk == sessions[s].talks[i]
           given == ToSet(NextBatch(talk.wanted)) \cap stock
           rest == SubSeq(talk.wanted, Depth + 1, Len(talk.wanted))
           shorter == [talk EXCEPT !.wanted = rest]
           third == [GoesOn(s, i, shorter) EXCEPT !.pushed = @ \cup given]
<1>1. talk.pc = "push"
  BY DEF PushesSought
<1>2. \/ Becomes(s, GoesOn(s, i, [talk EXCEPT !.pc = "match"]))
      \/ Becomes(s, GoesOn(s, i, [talk EXCEPT !.pc = "end"]))
      \/ Becomes(s, third)
  BY DEF PushesSought
<1>3. ASSUME NEW pc \in {"match", "end"}, Becomes(s, GoesOn(s, i, [talk EXCEPT !.pc = pc]))  PROVE TalksHold'
  <2> DEFINE next == [talk EXCEPT !.pc = pc]
  <2>1. TalkFields \subseteq DOMAIN talk => GoesOnTo(talk, next) /\ next.pc # "noting"
    BY DEF GoesOnTo, TalkFields
  <2> HIDE DEF next
  <2>2. Becomes(s, GoesOn(s, i, next))
    BY <1>3 DEF next
  <2> QED  BY <1>1, <2>1, <2>2, TalkOnlyGoesOn
<1>4. CASE Becomes(s, third)
  <2>1. TalkFields \subseteq DOMAIN talk => GoesOnTo(talk, shorter) /\ shorter.pc # "noting"
    BY <1>1 DEF GoesOnTo, TalkFields
  <2> HIDE DEF shorter
  <2>2. /\ third.talks = [sessions[s].talks EXCEPT ![i] = shorter]
        /\ third.stage = sessions[s].stage /\ third.tail = sessions[s].tail /\ third.busy = sessions[s].busy
    BY GoesOnIs DEF ConnectionsHold, SessionsHold, SessionFields
  <2> HIDE DEF third
  <2>3. TalkFields \subseteq DOMAIN talk => GoesOnTo(talk, shorter) /\ NotYetNamed(third, shorter)
    BY <2>1 DEF NotYetNamed
  <2> QED  BY <1>1, <1>4, <2>2, <2>3, TalkGoesOnTo
<1> HIDE DEF third, talk
<1> QED  BY <1>2, <1>3, <1>4 DEF talk

LEMMA TalkFinds ==
  ASSUME ConnectionsHold, TalksHold, NEW s \in DOMAIN sessions, NEW i \in DOMAIN sessions[s].talks,
         NEW stock, FindsMatches(s, i, stock)
  PROVE  TalksHold'
<1> DEFINE talk == sessions[s].talks[i]
           next == [talk EXCEPT !.pc = "naming", !.names = [q \in DOMAIN @ |-> Matches(q, stock) \ sessions[s].pushed]]
<1>1. talk.pc = "match" /\ Becomes(s, GoesOn(s, i, next))
  BY DEF FindsMatches
<1>2. TalkFields \subseteq DOMAIN talk => GoesOnTo(talk, next) /\ next.pc # "noting"
  BY DEF GoesOnTo, TalkFields
<1> HIDE DEF next
<1> QED  BY <1>1, <1>2, TalkOnlyGoesOn

LEMMA TalkLeavesOut ==
  ASSUME ConnectionsHold, TalksHold, NEW s \in DOMAIN sessions, NEW i \in DOMAIN sessions[s].talks, LeavesOutNamed(s, i)
  PROVE  TalksHold'
<1> DEFINE talk == sessions[s].talks[i]
           unnamed == [q \in DOMAIN talk.names |-> talk.names[q] \ NamedFor(s, q)]
           next == [talk EXCEPT !.pc = "noting", !.unnamed = unnamed]
           other == GoesOn(s, i, next)
<1>1. talk.pc = "naming" /\ Becomes(s, other)
  BY DEF LeavesOutNamed
<1>2. /\ other.talks = [sessions[s].talks EXCEPT ![i] = next]
      /\ other.stage = sessions[s].stage /\ other.tail = sessions[s].tail /\ other.busy = sessions[s].busy
      /\ other.named = sessions[s].named
  BY GoesOnIs
<1>3. \A q : NamedIn(other, q) = NamedFor(s, q)
  BY <1>2 DEF NamedIn, NamedFor
<1>4. \A q \in DOMAIN unnamed : unnamed[q] \cap NamedFor(s, q) = {}
  OBVIOUS
<1>5. TalkFields \subseteq DOMAIN talk => GoesOnTo(talk, next) /\ next.unnamed = unnamed
  <2> HIDE DEF unnamed
  <2> QED  BY DEF GoesOnTo, TalkFields
<1> HIDE DEF other, next, unnamed
<1>6. TalkFields \subseteq DOMAIN talk => GoesOnTo(talk, next) /\ NotYetNamed(other, next)
  BY <1>3, <1>4, <1>5 DEF NotYetNamed
<1> QED  BY <1>1, <1>2, <1>6, TalkGoesOnTo

LEMMA TalkNotes ==
  ASSUME ConnectionsHold, TalksHold, NEW s \in DOMAIN sessions, NEW i \in DOMAIN sessions[s].talks, NotesNamed(s, i)
  PROVE  TalksHold'
<1> DEFINE talk == sessions[s].talks[i]
           noted == [q \in DOMAIN talk.names |-> NamedFor(s, q) \cup talk.names[q]]
           next == [talk EXCEPT !.pc = "posting"]
           other == [GoesOn(s, i, next) EXCEPT !.named = noted]
<1>1. talk.pc = "noting" /\ Becomes(s, other)
  BY DEF NotesNamed
<1>2. TalkFields \subseteq DOMAIN talk => GoesOnTo(talk, next) /\ next.pc # "noting"
  BY DEF GoesOnTo, TalkFields
<1> HIDE DEF next, noted
<1>3. /\ other.talks = [sessions[s].talks EXCEPT ![i] = next]
      /\ other.stage = sessions[s].stage /\ other.tail = sessions[s].tail /\ other.busy = sessions[s].busy
  BY GoesOnIs DEF ConnectionsHold, SessionsHold, SessionFields
<1> HIDE DEF other
<1>4. TalkFields \subseteq DOMAIN talk => GoesOnTo(talk, next) /\ NotYetNamed(other, next)
  BY <1>2 DEF NotYetNamed
<1> QED  BY <1>1, <1>3, <1>4, TalkGoesOnTo

LEMMA TalkPosts ==
  ASSUME ConnectionsHold, TalksHold, NEW s \in DOMAIN sessions, NEW i \in DOMAIN sessions[s].talks, Posts(s, i)
  PROVE  TalksHold'
<1> DEFINE talk == sessions[s].talks[i]
           posting == \E q \in DOMAIN talk.unnamed : talk.unnamed[q] # {}
           fresh == Conversation(talk.kind, AfterNames(talk))
           next == [fresh EXCEPT !.pc = IF posting /\ ~sessions[s].open THEN "end" ELSE @]
<1>1. talk.pc = "posting" /\ Becomes(s, GoesOn(s, i, next))
  BY DEF Posts
<1>2. DOMAIN fresh = TalkFields /\ fresh.kind = talk.kind /\ fresh.pc \in {"seek", "end"}
  BY ConversationIs DEF AfterNames
<1> HIDE DEF fresh, posting
<1>3. GoesOnTo(talk, next) /\ next.pc # "noting"
  BY <1>2 DEF GoesOnTo, TalkFields
<1> HIDE DEF next
<1> QED  BY <1>1, <1>3, TalkOnlyGoesOn

LEMMA TalkAsks ==
  ASSUME ConnectionsHold, TalksHold, NEW s \in DOMAIN sessions, NEW i \in DOMAIN sessions[s].talks,
         AsksForSought(s, i) \/ AsksHead(s, i)
  PROVE  TalksHold'
<1> DEFINE talk == sessions[s].talks[i]
<1>1. talk.pc \in {"seek", "head"}
  BY DEF AsksForSought, AsksHead
<1>2. PICK pc \in {"end", "head"} : Becomes(s, GoesOn(s, i, [talk EXCEPT !.pc = pc]))
  BY DEF AsksForSought, AsksHead
<1> DEFINE next == [talk EXCEPT !.pc = pc]
<1>3. TalkFields \subseteq DOMAIN talk => GoesOnTo(talk, next) /\ next.pc # "noting"
  BY DEF GoesOnTo, TalkFields
<1> HIDE DEF next
<1>4. Becomes(s, GoesOn(s, i, next))
  BY <1>2 DEF next
<1> QED  BY <1>1, <1>3, <1>4, TalkOnlyGoesOn

LEMMA TalkEnds ==
  ASSUME ConnectionsHold, TalksHold, NEW s \in DOMAIN sessions, NEW i \in DOMAIN sessions[s].talks, Talked(s, i)
  PROVE  TalksHold'
<1> DEFINE other == [Over(s, i) EXCEPT !.busy = FALSE, !.refresh = Refresh]
<1>1. sessions[s].talks[i].pc = "end" /\ Becomes(s, other)
  BY DEF Talked
<1>2. /\ other.talks = RemoveAt(sessions[s].talks, i) /\ other.busy = FALSE
      /\ other.stage = sessions[s].stage /\ other.tail = sessions[s].tail
  BY OverIs DEF ConnectionsHold, SessionsHold, SessionFields
<1> HIDE DEF other
<1>3. MixHolds(sessions[s]) => MixHolds(other)
  BY <1>1, <1>2, TalkIsOver
<1>4. sessions[s].talks # <<>>
  OBVIOUS
<1> QED  BY <1>1, <1>2, <1>3, <1>4, TalkBecomes

LEMMA TellEnds ==
  ASSUME ConnectionsHold, TalksHold, NEW s \in DOMAIN sessions, NEW i \in DOMAIN sessions[s].talks, Tells(s, i)
  PROVE  TalksHold'
<1>1. PICK other : other = Over(s, i)
  OBVIOUS
<1>2. sessions[s].talks[i].pc = "tell" /\ Becomes(s, other)
  BY <1>1 DEF Tells
<1>3. /\ other.talks = RemoveAt(sessions[s].talks, i) /\ other.busy = sessions[s].busy
      /\ other.stage = sessions[s].stage /\ other.tail = sessions[s].tail /\ other.named = sessions[s].named
  BY <1>1, OverIs
<1>4. MixHolds(sessions[s]) => MixHolds(other)
  BY <1>2, <1>3, TellIsOver
<1>5. sessions[s].talks # <<>>
  OBVIOUS
<1> QED  BY <1>2, <1>3, <1>4, <1>5, TalkBecomes

LEMMA TalkTalks ==
  ASSUME ConnectionsHold, TalksHold, NEW s \in DOMAIN sessions, NEW stock, Talks(s, stock)  PROVE TalksHold'
BY TalkReads, TalkPushes, TalkFinds, TalkLeavesOut, TalkNotes, TalkPosts, TalkAsks, TalkEnds, TellEnds DEF Talks

LEMMA TalksAtFirst == Init => TalksHold
<1> SUFFICES ASSUME Init  PROVE TalksHold  OBVIOUS
<1> DEFINE c == start.connected
           Old(i) == [Session(c[i]) EXCEPT !.stage = "admitted", !.busy = FALSE]
<1>1. sessions = [i \in DOMAIN c |-> Old(i)] /\ dialing = [k \in Keys |-> Idle]
  BY DEF Init, ConnectionInit
<1>2. \A i : /\ Old(i).stage = "admitted" /\ Old(i).tail = "done" /\ Old(i).busy = FALSE /\ Old(i).talks = <<>>
  BY DEF Session
<1> HIDE DEF Old, c
<1>3. Talking(<<>>) /\ ReadingIn(<<>>) = {}
  BY DEF Talking, ReadingIn, Sequence
<1>4. \A i : MetHolds(Old(i))
  BY <1>2, <1>3 DEF MetHolds, MixHolds, ReadByOne
<1>5. ~Joined(Idle)
  BY DEF Idle, Joined
<1> QED  BY <1>1, <1>2, <1>4, <1>5 DEF TalksHold, JoinedHold

LEMMA TalksAreKept == TalksHold => TalksKept
<1> SUFFICES ASSUME TalksHold, start.talks, NEW s \in InMix  PROVE OneReads(s) /\ BusyIsReading(s) /\ NamedOnce(s)
  BY DEF TalksKept
<1>1. MixHolds(sessions[s]) /\ Reading(s) = ReadingIn(sessions[s].talks)
  BY DEF TalksHold, MetHolds, InMix, Reading, ReadingIn
<1>2. BusyIsReading(s) /\ NamedOnce(s)
  BY <1>1 DEF MixHolds, BusyIsReading, NamedOnce, NotYetNamed, NamedIn, NamedFor
<1>3. OneReads(s)
  <2>1. CASE Reading(s) = {}
    BY <2>1, FS_EmptySet DEF OneReads
  <2>2. CASE Reading(s) # {}
    <3>1. PICK i : i \in Reading(s)
      BY <2>2
    <3>2. Reading(s) = {i}
      BY <1>1, <3>1 DEF MixHolds, ReadByOne
    <3>3. Cardinality({i}) = 1
      BY FS_Singleton
    <3> QED  BY <3>2, <3>3 DEF OneReads
  <2> QED  BY <2>1, <2>2
<1> QED  BY <1>2, <1>3

LEMMA TalkConnects == ConnectionsHold /\ TalksHold /\ Connects => TalksHold'
<1> SUFFICES ASSUME ConnectionsHold, TalksHold, Connects  PROVE TalksHold'  OBVIOUS
<1>1. start' = start
  BY ConnectsLeavesStart
<1>2. CASE Threads
  <2>1. ASSUME NEW d \in Dials, AskedTells(d)  PROVE TalksHold'
    BY <1>1, <2>1, NoDialJoins, TalksQuiet DEF AskedTells
  <2>2. ASSUME NEW k, EndedMaintains(k)  PROVE TalksHold'
    BY <1>1, <2>2, MaintainJoinsNone, TalksQuiet DEF EndedMaintains
  <2> QED  BY <1>2, <2>1, <2>2, TalkDialOpens, TalkDialAdmits, TalkDialEnds, TalkAskedOpens, TalkAskedAdmits,
             TalkClosed, TalkClosedMaintains, TalkJoinedMaintains DEF Threads, DialThread, AskedThread, SessionThreads
<1>3. CASE Receives
  <2>1. CASE MainHasClosed \/ AllClosed
    BY <1>1, <2>1, NoDialJoins, TalksQuiet DEF MainHasClosed, AllClosed, dials
  <2>2. CASE MainMaintains
    BY <1>1, <2>2, MaintainJoinsNone, TalksQuiet DEF MainMaintains
  <2>3. CASE PassesOn
    BY <1>1, <2>3, NoDialJoins, TalksQuiet, TalkToldEach DEF PassesOn, dials
  <2> QED  BY <1>3, <2>1, <2>2, <2>3, TalkMainCloses DEF Receives
<1>4. CASE Arrivals
  <2>1. ASSUME NEW d, NEW e, OnDialRequested(d, e)  PROVE TalksHold'
    BY <1>1, <2>1, NoDialJoins, TalksQuiet DEF OnDialRequested
  <2>2. ASSUME NEW allowed, OnNodeTrust(allowed)  PROVE TalksHold'
    BY <1>1, <2>2, NoDialJoins, TalksQuiet DEF OnNodeTrust
  <2>3. ASSUME NEW list, OnNodeListUpdated(list)  PROVE TalksHold'
    BY <1>1, <2>3, NoDialJoins, TalksQuiet DEF OnNodeListUpdated, dials
  <2>4. CASE OnStop
    BY <1>1, <2>4, NoDialJoins, TalksQuiet DEF OnStop, dials
  <2> QED  BY <1>4, <2>1, <2>2, <2>3, <2>4, TalkPeerCloses DEF Arrivals
<1> QED  BY <1>2, <1>3, <1>4 DEF Connects

(* Each peer's seek list is read by one conversation at a time, for just   *)
(* as long as it is busy, and none is named what it was named already,     *)
(* though nothing locks what a session has as named: for any peers and any *)
(* that they seek, however conversations, refreshings and closings cross.  *)
THEOREM AllTalksKept == Spec => []TalksKept
<1>1. Init => TalksHold
  BY TalksAtFirst
<1>2. ConnectionsHold /\ TalksHold /\ [Next]_vars => TalksHold'
  <2> SUFFICES ASSUME ConnectionsHold, TalksHold, [Next]_vars  PROVE TalksHold'  OBVIOUS
  <2>1. CASE Connects
    BY <2>1, TalkConnects
  <2>2. CASE Searches
    <3>1. UNCHANGED <<start, sessions, dialing>>
      BY <2>2 DEF Searches, SearchThread, SearcherTakes, SearcherLooks, SearcherAsks, SearcherFinds, SearcherFails,
                  connectionVars, events, dials, Spend
    <3> QED  BY <3>1, NoDialJoins, TalksQuiet
  <2>3. CASE Pushes
    <3>1. ASSUME NEW w, PusherTakes(w) \/ PusherReads(w) \/ PusherAssigns(w)  PROVE TalksHold'
      <4>1. UNCHANGED <<start, sessions, dialing>>
        BY <3>1 DEF PusherTakes, PusherReads, PusherAssigns, connectionVars, events, dials
      <4> QED  BY <4>1, NoDialJoins, TalksQuiet
    <3> QED  BY <2>3, <3>1, TalkPusherSends, TalkGreets DEF Pushes, PushThread, JoinedPushes, PushesUnpushed
  <2>4. CASE Speaks
    <3>1. CASE OnKarmaHead
      BY <3>1, NoDialJoins, TalkToldEach DEF OnKarmaHead, Spend, dials
    <3>2. ASSUME NEW q, NEW by, OnSearchRequested(q, by)  PROVE TalksHold'
      BY <3>2, NoDialJoins, TalksQuiet DEF OnSearchRequested, Broadcasts, Spend, dials
    <3>3. ASSUME NEW q, PassThread(q)  PROVE TalksHold'
      <4>1. UNCHANGED <<start, sessions, dialing>>
        BY <3>3 DEF PassThread, MakesPass, PassBegins, PassAsks, PassEnds, PassFails, Broadcasts, Spend, events, dials
      <4> QED  BY <4>1, NoDialJoins, TalksQuiet
    <3> QED  BY <2>4, <3>1, <3>2, <3>3, TalkTalks DEF Speaks, Hears, TalksWith
  <2>5. CASE OthersAct
    <3>1. UNCHANGED <<start, sessions, dialing>>
      BY <2>5 DEF OthersAct, OnFetchRequested, OnDataStored, Removed, Spend, dials
    <3> QED  BY <3>1, NoDialJoins, TalksQuiet
  <2>6. CASE OnIdle
    BY <2>6, TalkOnIdle
  <2>7. CASE Tick
    BY <2>7, TalkTick
  <2>8. CASE UNCHANGED vars
    <3>1. UNCHANGED <<start, sessions, dialing>>
      BY <2>8 DEF vars, connectionVars, events, dials
    <3> QED  BY <3>1, NoDialJoins, TalksQuiet
  <2> QED  BY <2>1, <2>2, <2>3, <2>4, <2>5, <2>6, <2>7, <2>8 DEF Next
<1>3. TalksHold => TalksKept
  BY TalksAreKept
<1> QED  BY <1>1, <1>2, <1>3, ConnectionsHoldAlways, PTL DEF Spec

-----------------------------------------------------------------------------
(* New content is in one place. *)

TaskFields == {"new", "at", "tried", "ranked", "session"}
One(S) == \A x, y \in S : x = y

Once(c) ==
    /\ One(InQueue(c)) /\ \A w \in PushWorkers : One(Carried(pusher[w], c))
    /\ \A v, w \in PushWorkers : Carried(pusher[v], c) # {} /\ Carried(pusher[w], c) # {} => v = w
    /\ InQueue(c) # {} => c \notin DOMAIN unpushed /\ \A w \in PushWorkers : Carried(pusher[w], c) = {}
    /\ c \in DOMAIN unpushed => \A w \in PushWorkers : Carried(pusher[w], c) = {}
    /\ fate[c] = "new" <=> \/ InQueue(c) # {} \/ c \in DOMAIN unpushed
                           \/ \E w \in PushWorkers : Carried(pusher[w], c) # {}

TasksHave(tasks) == \A i \in DOMAIN tasks : TaskFields \subseteq DOMAIN tasks[i]
PushersHold ==
    /\ Sequence(queue)
    /\ pusher = [w \in PushWorkers |-> pusher[w]]
    /\ \A w \in PushWorkers : TasksHave(pusher[w])
    /\ IsFiniteSet(DOMAIN unpushed)
    /\ fate = [c \in Content |-> fate[c]]
NewHolds == PushersHold /\ \A c \in Content : Once(c)

LEMMA NewAtFirst == Init => NewHolds
<1> SUFFICES ASSUME Init  PROVE NewHolds  OBVIOUS
<1>1. /\ queue = <<>> /\ unpushed = <<>> /\ pusher = [w \in PushWorkers |-> <<>>] /\ fate = [c \in Content |-> "none"]
  BY DEF Init, NotPushing
<1>2. Sequence(<<>>) /\ DOMAIN <<>> = {}
  BY DEF Sequence
<1>3. PushersHold
  BY <1>1, <1>2, FS_EmptySet DEF PushersHold, TasksHave
<1>4. \A c \in Content : Once(c)
  BY <1>1, <1>2 DEF Once, One, InQueue, Carried
<1> QED  BY <1>3, <1>4 DEF NewHolds

LEMMA NewIsOnce == NewHolds => KeptOnce
<1> SUFFICES ASSUME NewHolds, NEW c \in Content  PROVE Cardinality(Spots(c)) = IF fate[c] = "new" THEN 1 ELSE 0
  BY DEF KeptOnce
<1> DEFINE A == {<<"queue", i>> : i \in InQueue(c)}
           C == {<<"unpushed", d>> : d \in {c} \cap DOMAIN unpushed}
           On(w) == {<<"worker", w, i>> : i \in Carried(pusher[w], c)}
           B == WithWorkers(c)
<1>1. Spots(c) = A \cup B \cup C
  BY DEF Spots
<1>2. Once(c)
  BY DEF NewHolds
<1>3. A # {} <=> InQueue(c) # {}
  OBVIOUS
<1>4. \A w \in PushWorkers : (Carried(pusher[w], c) # {} <=> \E x : x \in On(w))
  OBVIOUS
<1>5. C # {} <=> c \in DOMAIN unpushed
  OBVIOUS
<1>6. (\A x, y \in A : x = y) /\ (\A x, y \in C : x = y) /\ (\A w \in PushWorkers : \A x, y \in On(w) : x = y)
  BY <1>2 DEF Once, One
<1>7. \A x : x \in B <=> \E w \in PushWorkers : x \in On(w)
  BY DEF WithWorkers
<1> HIDE DEF A, On, B, C
<1>8. B # {} <=> \E w \in PushWorkers : Carried(pusher[w], c) # {}
  <2>1. B # {} <=> \E x : x \in B
    OBVIOUS
  <2> QED  BY <1>4, <1>7, <2>1
<1>9. \A x, y \in B : x = y
  <2>1. SUFFICES ASSUME NEW x \in B, NEW y \in B  PROVE x = y
    OBVIOUS
  <2>2. PICK v \in PushWorkers, w \in PushWorkers : x \in On(v) /\ y \in On(w)
    BY <1>7
  <2>3. v = w
    BY <1>2, <1>4, <2>2 DEF Once
  <2> QED  BY <1>6, <2>2, <2>3
<1>10. \A x, y \in Spots(c) : x = y
  BY <1>1, <1>2, <1>3, <1>5, <1>6, <1>8, <1>9 DEF Once
<1>11. Spots(c) # {} <=> fate[c] = "new"
  BY <1>1, <1>2, <1>3, <1>5, <1>8 DEF Once
<1>12. CASE Spots(c) = {}
  BY <1>11, <1>12, FS_EmptySet
<1>13. CASE Spots(c) # {}
  <2>1. PICK x : x \in Spots(c)
    BY <1>13
  <2>2. Spots(c) = {x}
    BY <1>10, <2>1
  <2>3. Cardinality({x}) = 1
    BY FS_Singleton
  <2> QED  BY <1>11, <1>13, <2>2, <2>3
<1> QED  BY <1>12, <1>13

(* A worker's tasks going on carry what they did. *)
LEMMA OnwardKeeps ==
  ASSUME NEW tasks, TasksHave(tasks)
  PROVE  TasksHave(Onward(tasks)) /\ \A c : Carried(Onward(tasks), c) = Carried(tasks, c)
<1> DEFINE next == [i \in DOMAIN tasks |-> [tasks[i] EXCEPT !.at = IF @ = "left" THEN "assign" ELSE @]]
<1>1. CASE Onward(tasks) = NotPushing /\ \A i \in DOMAIN tasks : tasks[i].at = "over"
  BY <1>1 DEF NotPushing, TasksHave, Carried
<1>2. CASE Onward(tasks) = next
  <2>1. \A i \in DOMAIN tasks : /\ DOMAIN next[i] = DOMAIN tasks[i] /\ next[i].new = tasks[i].new
                                /\ next[i].at = "over" <=> tasks[i].at = "over"
    BY DEF TasksHave, TaskFields
  <2>2. DOMAIN next = DOMAIN tasks
    OBVIOUS
  <2> HIDE DEF next
  <2> QED  BY <1>2, <2>1, <2>2 DEF TasksHave, Carried
<1>3. CASE Onward(tasks) = tasks
  BY <1>3
<1> QED  BY <1>1, <1>2, <1>3 DEF Onward

(* What a worker then carries. *)
LEMMA WorkerGoesOn ==
  ASSUME PushersHold, NEW w \in PushWorkers, NEW tasks, TasksHave(tasks), GoesOnWith(w, tasks)
  PROVE  /\ pusher' = [v \in PushWorkers |-> pusher'[v]] /\ \A v \in PushWorkers : TasksHave(pusher'[v])
         /\ \A v \in PushWorkers \ {w} : pusher'[v] = pusher[v]
         /\ \A c : Carried(pusher'[w], c) = Carried(tasks, c)
<1>1. pusher' = [pusher EXCEPT ![w] = Onward(tasks)]
  BY DEF GoesOnWith
<1> QED  BY <1>1, OnwardKeeps DEF PushersHold

GoneOn(w, i, task) ==
    /\ pusher' = [v \in PushWorkers |-> pusher'[v]] /\ \A v \in PushWorkers : TasksHave(pusher'[v])
    /\ \A v \in PushWorkers \ {w} : pusher'[v] = pusher[v]
    /\ task.at # "over" => \A c : Carried(pusher'[w], c) = Carried(pusher[w], c)
    /\ task.at = "over" => \A c : Carried(pusher'[w], c) = Carried(pusher[w], c) \ {i}
    /\ \A c : i \in Carried(pusher[w], c) <=> c = task.new.content

LEMMA TaskGoesOn ==
  ASSUME PushersHold, NEW w \in PushWorkers, NEW i \in DOMAIN pusher[w], NEW task, TaskFields \subseteq DOMAIN task,
         task.new = pusher[w][i].new, pusher[w][i].at # "over", Becoming(w, i, task)
  PROVE  GoneOn(w, i, task)
<1> DEFINE tasks == [pusher[w] EXCEPT ![i] = task]
<1>1. GoesOnWith(w, tasks)
  BY DEF Becoming
<1>2. DOMAIN tasks = DOMAIN pusher[w] /\ tasks[i] = task /\ \A j \in DOMAIN pusher[w] \ {i} : tasks[j] = pusher[w][j]
  OBVIOUS
<1> HIDE DEF tasks
<1>3. TasksHave(tasks)
  BY <1>2 DEF PushersHold, TasksHave
<1>4. /\ task.at # "over" => \A c : Carried(tasks, c) = Carried(pusher[w], c)
      /\ task.at = "over" => \A c : Carried(tasks, c) = Carried(pusher[w], c) \ {i}
      /\ \A c : i \in Carried(pusher[w], c) <=> c = task.new.content
  BY <1>2 DEF Carried
<1> QED  BY <1>1, <1>3, <1>4, WorkerGoesOn DEF GoneOn

(* A worker's task goes on, and what it is about stays where it is, is     *)
(* settled, waits for a connection or is queued again.                     *)
LEMMA TaskStep ==
  ASSUME NewHolds, NEW w \in PushWorkers, NEW i \in DOMAIN pusher[w], NEW task, TaskFields \subseteq DOMAIN task,
         task.new = pusher[w][i].new, pusher[w][i].at # "over", Becoming(w, i, task),
         \/ task.at # "over" /\ UNCHANGED <<queue, unpushed, fate>>
         \/ /\ task.at = "over" /\ UNCHANGED <<queue, unpushed>>
            /\ \E how \in {"gone", "home", "offered"} : Settles({task.new.content}, how)
         \/ /\ task.at = "over" /\ UNCHANGED <<queue, fate>>
            /\ \E x : unpushed' = With(unpushed, task.new.content, x)
         \/ /\ task.at = "over" /\ UNCHANGED <<unpushed, fate>>
            /\ queue' = Append(queue, task.new)
  PROVE  NewHolds'
<1> DEFINE d == task.new.content
<1>1. /\ PushersHold
      /\ \A c \in Content : Once(c)
  BY DEF NewHolds
<1>2. /\ pusher' = [v \in PushWorkers |-> pusher'[v]] /\ \A v \in PushWorkers : TasksHave(pusher'[v])
      /\ \A v \in PushWorkers \ {w} : pusher'[v] = pusher[v]
      /\ task.at # "over" => \A c : Carried(pusher'[w], c) = Carried(pusher[w], c)
      /\ task.at = "over" => \A c : Carried(pusher'[w], c) = Carried(pusher[w], c) \ {i}
      /\ \A c : i \in Carried(pusher[w], c) <=> c = d
  <2>1. GoneOn(w, i, task)
    BY <1>1, TaskGoesOn
  <2> QED  BY <2>1 DEF GoneOn
<1>3. \A v \in PushWorkers \ {w} : \A c : Carried(pusher'[v], c) = Carried(pusher[v], c)
  BY <1>2
<1>4. ASSUME task.at = "over", NEW c \in Content, c # d
      PROVE  Carried(pusher'[w], c) = Carried(pusher[w], c)
  <2> HIDE DEF d
  <2>1. i \notin Carried(pusher[w], c)
    BY <1>2, <1>4
  <2>2. Carried(pusher'[w], c) = Carried(pusher[w], c) \ {i}
    BY <1>2, <1>4
  <2> QED  BY <2>1, <2>2
<1>5. d \in Content => /\ Carried(pusher[w], d) = {i}
                       /\ \A v \in PushWorkers \ {w} : Carried(pusher[v], d) = {}
                       /\ InQueue(d) = {} /\ d \notin DOMAIN unpushed /\ fate[d] = "new"
  <2>1. ASSUME d \in Content
        PROVE  /\ Carried(pusher[w], d) = {i}
               /\ \A v \in PushWorkers \ {w} : Carried(pusher[v], d) = {}
               /\ InQueue(d) = {} /\ d \notin DOMAIN unpushed /\ fate[d] = "new"
    <3>1. Once(d) /\ i \in Carried(pusher[w], d)
      BY <1>1, <1>2, <2>1
    <3> HIDE DEF d
    <3>2. PICK S : S = Carried(pusher[w], d)
      OBVIOUS
    <3>3. i \in S /\ \A x, y \in S : x = y
      BY <3>1, <3>2 DEF Once, One
    <3>4. S = {i}
      BY <3>3
    <3>5. \A v \in PushWorkers \ {w} : Carried(pusher[v], d) = {}
      BY <3>1 DEF Once
    <3>6. InQueue(d) = {} /\ d \notin DOMAIN unpushed /\ fate[d] = "new"
      BY <3>1 DEF Once
    <3> QED  BY <3>2, <3>4, <3>5, <3>6
  <2> QED  BY <2>1
<1>6. \A c : queue' = queue => InQueue(c)' = InQueue(c)
  BY DEF InQueue
<1>7. CASE task.at # "over" /\ UNCHANGED <<queue, unpushed, fate>>
  <2>1. \A c \in Content : \A v \in PushWorkers : Carried(pusher'[v], c) = Carried(pusher[v], c)
    BY <1>2, <1>3, <1>7
  <2>2. \A c \in Content : Once(c)'
    BY <1>1, <1>6, <1>7, <2>1 DEF Once
  <2> QED  BY <1>1, <1>2, <1>7, <2>2 DEF NewHolds, PushersHold
<1>8. ASSUME task.at = "over"
      PROVE  d \in Content => \A v \in PushWorkers : Carried(pusher'[v], d) = {}
  BY <1>2, <1>3, <1>5, <1>8
<1> HIDE DEF d
<1>9. ASSUME task.at = "over", UNCHANGED <<queue, unpushed>>, NEW how \in {"gone", "home", "offered"}, Settles({d}, how)
      PROVE  NewHolds'
  <2>1. fate' = [c \in Content |-> fate'[c]] /\ \A c \in Content : fate'[c] = IF c = d THEN how ELSE fate[c]
    BY <1>9 DEF Settles
  <2>2. \A c \in Content : Once(c)'
    <3> SUFFICES ASSUME NEW c \in Content  PROVE Once(c)'
      OBVIOUS
    <3>1. CASE c = d
      <4>1. InQueue(c)' = {} /\ c \notin DOMAIN unpushed' /\ fate'[c] # "new"
        BY <1>5, <1>6, <1>9, <2>1, <3>1
      <4> QED  BY <1>8, <1>9, <3>1, <4>1 DEF Once, One
    <3>2. CASE c # d
      <4>1. \A v \in PushWorkers : Carried(pusher'[v], c) = Carried(pusher[v], c)
        BY <1>3, <1>4, <1>9, <3>2
      <4> QED  BY <1>1, <1>6, <1>9, <2>1, <3>2, <4>1 DEF Once
    <3> QED  BY <3>1, <3>2
  <2> QED  BY <1>1, <1>2, <1>9, <2>1, <2>2 DEF NewHolds, PushersHold
<1>10. ASSUME task.at = "over", UNCHANGED <<queue, fate>>, NEW x, unpushed' = With(unpushed, d, x)
       PROVE  NewHolds'
  <2>1. DOMAIN unpushed' = DOMAIN unpushed \cup {d}
    BY <1>10 DEF With
  <2>2. IsFiniteSet(DOMAIN unpushed')
    BY <1>1, <2>1, FS_AddElement DEF PushersHold
  <2>3. \A c \in Content : Once(c)'
    <3> SUFFICES ASSUME NEW c \in Content  PROVE Once(c)'
      OBVIOUS
    <3>1. CASE c = d
      <4>1. InQueue(c)' = {} /\ c \in DOMAIN unpushed' /\ fate'[c] = "new"
        BY <1>5, <1>6, <1>10, <2>1, <3>1
      <4> QED  BY <1>8, <1>10, <3>1, <4>1 DEF Once, One
    <3>2. CASE c # d
      <4>1. \A v \in PushWorkers : Carried(pusher'[v], c) = Carried(pusher[v], c)
        BY <1>3, <1>4, <1>10, <3>2
      <4> QED  BY <1>1, <1>6, <1>10, <2>1, <3>2, <4>1 DEF Once
    <3> QED  BY <3>1, <3>2
  <2> QED  BY <1>1, <1>2, <1>10, <2>2, <2>3 DEF NewHolds, PushersHold
<1>11. ASSUME task.at = "over", UNCHANGED <<unpushed, fate>>, queue' = Append(queue, task.new)
       PROVE  NewHolds'
  <2>1. PICK m : /\ m \notin DOMAIN queue /\ DOMAIN queue' = DOMAIN queue \cup {m} /\ queue'[m] = task.new
                 /\ \A j \in DOMAIN queue : queue'[j] = queue[j]
                 /\ Sequence(queue')
    BY <1>1, <1>11, Appends DEF PushersHold
  <2>2. \A c : InQueue(c)' = InQueue(c) \cup IF c = d THEN {m} ELSE {}
    BY <2>1 DEF InQueue, d
  <2>3. \A c \in Content : Once(c)'
    <3> SUFFICES ASSUME NEW c \in Content  PROVE Once(c)'
      OBVIOUS
    <3>1. CASE c = d
      <4>1. InQueue(c)' = {m} /\ c \notin DOMAIN unpushed' /\ fate'[c] = "new"
        BY <1>5, <1>11, <2>2, <3>1
      <4> QED  BY <1>8, <1>11, <3>1, <4>1 DEF Once, One
    <3>2. CASE c # d
      <4>1. \A v \in PushWorkers : Carried(pusher'[v], c) = Carried(pusher[v], c)
        BY <1>3, <1>4, <1>11, <3>2
      <4>2. InQueue(c)' = InQueue(c)
        BY <2>2, <3>2
      <4> QED  BY <1>1, <1>11, <3>2, <4>1, <4>2 DEF Once
    <3> QED  BY <3>1, <3>2
  <2> QED  BY <1>1, <1>2, <1>11, <2>1, <2>3 DEF NewHolds, PushersHold
<1> QED  BY <1>7, <1>9, <1>10, <1>11 DEF d

(* One that is read is gone, or is to be assigned a connection. *)
LEMMA NewPusherReads == ASSUME NewHolds, NEW w \in PushWorkers, PusherReads(w)  PROVE NewHolds'
<1>1. PICK i \in Tasks(w, "read") :
        /\ UNCHANGED <<queue, unpushed>>
        /\ \/ /\ Becoming(w, i, [pusher[w][i] EXCEPT !.at = "over"])
              /\ Settles({pusher[w][i].new.content}, "gone")
           \/ /\ \E ranked : Becoming(w, i, [pusher[w][i] EXCEPT !.at = "assign", !.ranked = ranked])
              /\ UNCHANGED fate
  BY DEF PusherReads
<1>2. i \in DOMAIN pusher[w] /\ pusher[w][i].at # "over" /\ TaskFields \subseteq DOMAIN pusher[w][i]
  BY <1>1 DEF Tasks, NewHolds, PushersHold, TasksHave
<1>3. CASE Becoming(w, i, [pusher[w][i] EXCEPT !.at = "over"]) /\ Settles({pusher[w][i].new.content}, "gone")
  <2> DEFINE task == [pusher[w][i] EXCEPT !.at = "over"]
  <2>1. TaskFields \subseteq DOMAIN task /\ task.new = pusher[w][i].new /\ task.at = "over"
    BY <1>2 DEF TaskFields
  <2>2. Becoming(w, i, task) /\ Settles({task.new.content}, "gone")
    BY <1>3, <2>1
  <2> HIDE DEF task
  <2> QED  BY <1>1, <1>2, <2>1, <2>2, TaskStep
<1>4. ASSUME NEW ranked, Becoming(w, i, [pusher[w][i] EXCEPT !.at = "assign", !.ranked = ranked]), UNCHANGED fate
      PROVE  NewHolds'
  <2> DEFINE task == [pusher[w][i] EXCEPT !.at = "assign", !.ranked = ranked]
  <2>1. TaskFields \subseteq DOMAIN task /\ task.new = pusher[w][i].new /\ task.at # "over"
    BY <1>2 DEF TaskFields
  <2>2. Becoming(w, i, task)
    BY <1>4
  <2> HIDE DEF task
  <2> QED  BY <1>1, <1>2, <1>4, <2>1, <2>2, TaskStep
<1> QED  BY <1>1, <1>3, <1>4

(* One that no connection is left for waits or is queued again, one that   *)
(* came from there is home, and another is bound for it.                   *)
LEMMA NewPusherAssigns == ASSUME NewHolds, NEW w \in PushWorkers, PusherAssigns(w)  PROVE NewHolds'
<1>1. PICK i \in Tasks(w, "assign") :
        \/ /\ WaitsForPeer(pusher[w][i])
           /\ Becoming(w, i, [pusher[w][i] EXCEPT !.at = "over"])
           /\ UNCHANGED fate
        \/ /\ Becoming(w, i, [pusher[w][i] EXCEPT !.at = "over"])
           /\ Settles({pusher[w][i].new.content}, "home")
           /\ UNCHANGED <<queue, unpushed>>
        \/ /\ \E s, tried : Becoming(w, i, [pusher[w][i] EXCEPT !.at = "bound", !.session = s, !.tried = tried])
           /\ UNCHANGED <<queue, unpushed, fate>>
  BY DEF PusherAssigns
<1>2. i \in DOMAIN pusher[w] /\ pusher[w][i].at # "over" /\ TaskFields \subseteq DOMAIN pusher[w][i]
  BY <1>1 DEF Tasks, NewHolds, PushersHold, TasksHave
<1>3. ASSUME Becoming(w, i, [pusher[w][i] EXCEPT !.at = "over"]),
             \/ WaitsForPeer(pusher[w][i]) /\ UNCHANGED fate
             \/ Settles({pusher[w][i].new.content}, "home") /\ UNCHANGED <<queue, unpushed>>
      PROVE  NewHolds'
  <2> DEFINE task == [pusher[w][i] EXCEPT !.at = "over"]
  <2>1. TaskFields \subseteq DOMAIN task /\ task.new = pusher[w][i].new /\ task.at = "over"
    BY <1>2 DEF TaskFields
  <2>2. Becoming(w, i, task)
    BY <1>3
  <2> HIDE DEF task
  <2>3. CASE Settles({pusher[w][i].new.content}, "home") /\ UNCHANGED <<queue, unpushed>>
    BY <1>2, <2>1, <2>2, <2>3, TaskStep
  <2>4. CASE WaitsForPeer(pusher[w][i]) /\ UNCHANGED fate
    <3>1. \/ UNCHANGED queue /\ \E x : unpushed' = With(unpushed, task.new.content, x)
          \/ UNCHANGED unpushed /\ queue' = Append(queue, task.new)
      BY <2>1, <2>4 DEF WaitsForPeer, Waiting
    <3> QED  BY <1>2, <2>1, <2>2, <2>4, <3>1, TaskStep
  <2> QED  BY <1>3, <2>3, <2>4
<1>4. ASSUME NEW s, NEW tried,
             Becoming(w, i, [pusher[w][i] EXCEPT !.at = "bound", !.session = s, !.tried = tried]),
             UNCHANGED <<queue, unpushed, fate>>
      PROVE  NewHolds'
  <2> DEFINE task == [pusher[w][i] EXCEPT !.at = "bound", !.session = s, !.tried = tried]
  <2>1. TaskFields \subseteq DOMAIN task /\ task.new = pusher[w][i].new /\ task.at # "over"
    BY <1>2 DEF TaskFields
  <2>2. Becoming(w, i, task)
    BY <1>4
  <2> HIDE DEF task
  <2> QED  BY <1>2, <1>4, <2>1, <2>2, TaskStep
<1> QED  BY <1>1, <1>3, <1>4

(* A worker's batch is the first of what is queued. *)
LEMMA NewPusherTakes == ASSUME NewHolds, NEW w \in PushWorkers, PusherTakes(w)  PROVE NewHolds'
<1> DEFINE size == Smaller(Depth, Len(queue))
           batch == [i \in 1..size |-> Task(queue[i])]
<1>1. /\ pusher[w] = <<>> /\ pusher' = [pusher EXCEPT ![w] = batch]
      /\ queue' = SubSeq(queue, size + 1, Len(queue)) /\ UNCHANGED <<unpushed, fate>>
  BY DEF PusherTakes, NotPushing
<1>2. PICK n \in Nat : queue = [i \in 1..n |-> queue[i]]
  BY DEF NewHolds, PushersHold, Sequence
<1>3. /\ size \in 0..n /\ Sequence(queue') /\ DOMAIN queue' = 1..(n - size)
      /\ \A i \in 1..(n - size) : queue'[i] = queue[i + size]
  <2> DEFINE T == {queue[i] : i \in 1..n}
  <2>1. queue \in [1..n -> T]
    BY <1>2
  <2> HIDE DEF T
  <2>2. queue \in Seq(T) /\ Len(queue) = n
    BY <2>1
  <2>3. size \in 0..n
    BY <2>2, ConversationsAssumption DEF Smaller
  <2> HIDE DEF size
  <2>4. /\ queue' \in Seq(T) /\ Len(queue') = n - size
        /\ \A i \in 1..(n - size) : queue'[i] = queue[i + size]
    BY <1>1, <2>2, <2>3
  <2> QED  BY <2>3, <2>4 DEF Sequence
<1> HIDE DEF size
<1>4. /\ \A i \in 1..size : TaskFields \subseteq DOMAIN Task(queue[i]) /\ Task(queue[i]).new = queue[i]
                            /\ Task(queue[i]).at # "over"
      /\ DOMAIN batch = 1..size /\ \A i \in 1..size : batch[i] = Task(queue[i])
  BY DEF Task, TaskFields
<1> HIDE DEF batch
<1>5. /\ pusher' = [v \in PushWorkers |-> pusher'[v]] /\ pusher'[w] = batch
      /\ \A v \in PushWorkers \ {w} : pusher'[v] = pusher[v]
  BY <1>1 DEF NewHolds, PushersHold
<1>6. PushersHold'
  <2>1. TasksHave(batch)
    BY <1>4 DEF TasksHave
  <2> QED  BY <1>1, <1>3, <1>5, <2>1 DEF NewHolds, PushersHold
<1>7. ASSUME NEW c \in Content  PROVE Once(c)'
  <2>1. Once(c) /\ Carried(pusher[w], c) = {}
    BY <1>1 DEF NewHolds, Carried
  <2>2. Carried(batch, c) = InQueue(c) \cap 1..size
    <3>1. \A i \in 1..size : i \in 1..n
      BY <1>3
    <3>2. \A i : i \in Carried(batch, c) <=> i \in 1..size /\ queue[i].content = c
      BY <1>4 DEF Carried
    <3>3. \A i : i \in InQueue(c) <=> i \in 1..n /\ queue[i].content = c
      BY <1>2 DEF InQueue
    <3> QED  BY <3>1, <3>2, <3>3
  <2>3. \A i : i \in InQueue(c)' <=> i \in 1..(n - size) /\ i + size \in InQueue(c)
    <3>1. \A i \in 1..(n - size) : i + size \in 1..n
      BY <1>3
    <3>2. \A i : i \in InQueue(c)' <=> i \in 1..(n - size) /\ queue'[i].content = c
      BY <1>3 DEF InQueue
    <3>3. \A i : i \in InQueue(c) <=> i \in 1..n /\ queue[i].content = c
      BY <1>2 DEF InQueue
    <3> QED  BY <1>3, <3>1, <3>2, <3>3
  <2>4. InQueue(c) \subseteq 1..n
    BY <1>2 DEF InQueue
  <2>5. \A v \in PushWorkers \ {w} : Carried(pusher'[v], c) = Carried(pusher[v], c)
    BY <1>5
  <2>6. CASE InQueue(c) = {}
    <3>1. Carried(batch, c) = {} /\ InQueue(c)' = {}
      BY <2>2, <2>3, <2>6
    <3> QED  BY <1>1, <1>5, <2>1, <2>5, <2>6, <3>1 DEF Once
  <2>7. CASE InQueue(c) # {}
    <3>1. PICK j \in 1..n : InQueue(c) = {j}
      <4>1. PICK j : j \in InQueue(c)
        BY <2>7
      <4>2. \A x, y \in InQueue(c) : x = y
        BY <2>1 DEF Once, One
      <4>3. InQueue(c) = {j} /\ j \in 1..n
        BY <2>4, <4>1, <4>2
      <4> QED  BY <4>3
    <3>2. c \notin DOMAIN unpushed /\ fate[c] = "new" /\ \A v \in PushWorkers : Carried(pusher[v], c) = {}
      BY <2>1, <2>7 DEF Once
    <3>3. CASE j <= size
      <4>1. Carried(batch, c) = {j}
        BY <1>3, <2>2, <3>1, <3>3
      <4>2. InQueue(c)' = {}
        BY <1>3, <2>3, <3>1, <3>3
      <4> QED  BY <1>1, <1>5, <2>5, <3>2, <4>1, <4>2 DEF Once, One
    <3>4. CASE j > size
      <4>1. Carried(batch, c) = {}
        BY <1>3, <2>2, <3>1, <3>4
      <4>2. InQueue(c)' = {j - size}
        BY <1>3, <2>3, <3>1, <3>4
      <4> QED  BY <1>1, <1>5, <2>5, <3>2, <4>1, <4>2 DEF Once, One
    <3> QED  BY <1>3, <3>1, <3>3, <3>4
  <2> QED  BY <2>6, <2>7
<1> QED  BY <1>6, <1>7 DEF NewHolds

(* What is bound for one connection is offered there, or left. *)
LEMMA NewPusherSends == ASSUME NewHolds, NEW w \in PushWorkers, PusherSends(w)  PROVE NewHolds'
<1>1. PICK s : /\ UNCHANGED <<queue, unpushed>>
               /\ LET group == {i \in Tasks(w, "bound") : pusher[w][i].session = s}
                      stage == IF sessions[s].open THEN "over" ELSE "left"
                  IN  GoesOnWith(w, [i \in DOMAIN pusher[w] |->
                         IF i \in group THEN [pusher[w][i] EXCEPT !.at = stage] ELSE pusher[w][i]])
               /\ IF sessions[s].open
                  THEN Settles({pusher[w][i].new.content : i \in {j \in Tasks(w, "bound") : pusher[w][j].session = s}}, "offered")
                  ELSE UNCHANGED fate
  BY DEF PusherSends
<1> DEFINE group == {i \in Tasks(w, "bound") : pusher[w][i].session = s}
           contents == {pusher[w][i].new.content : i \in group}
           stage == IF sessions[s].open THEN "over" ELSE "left"
           tasks == [i \in DOMAIN pusher[w] |->
                       IF i \in group THEN [pusher[w][i] EXCEPT !.at = stage] ELSE pusher[w][i]]
<1>2. PushersHold /\ TasksHave(pusher[w]) /\ \A c \in Content : Once(c)
  BY DEF NewHolds, PushersHold
<1>3. /\ DOMAIN tasks = DOMAIN pusher[w]
      /\ \A i \in DOMAIN tasks : /\ TaskFields \subseteq DOMAIN tasks[i] /\ tasks[i].new = pusher[w][i].new
                                 /\ tasks[i].at = IF i \in group THEN stage ELSE pusher[w][i].at
  BY <1>2 DEF TasksHave, TaskFields
<1>4. \A i : i \in group => i \in DOMAIN pusher[w] /\ pusher[w][i].at # "over"
  BY DEF Tasks
<1>5. GoesOnWith(w, tasks)
  BY <1>1
<1> HIDE DEF tasks
<1>6. TasksHave(tasks)
  BY <1>3 DEF TasksHave
<1>7. /\ pusher' = [v \in PushWorkers |-> pusher'[v]] /\ \A v \in PushWorkers : TasksHave(pusher'[v])
      /\ \A v \in PushWorkers \ {w} : pusher'[v] = pusher[v]
      /\ \A c : Carried(pusher'[w], c) = Carried(tasks, c)
  BY <1>2, <1>5, <1>6, WorkerGoesOn
<1>8. \A c : InQueue(c)' = InQueue(c)
  BY <1>1 DEF InQueue
<1>9. \A c : \A v \in PushWorkers \ {w} : Carried(pusher'[v], c) = Carried(pusher[v], c)
  BY <1>7
<1>10. CASE ~sessions[s].open
  <2>1. \A c : Carried(tasks, c) = Carried(pusher[w], c)
    <3>1. \A i \in DOMAIN tasks : tasks[i].at = "over" <=> pusher[w][i].at = "over"
      BY <1>3, <1>4, <1>10
    <3> QED  BY <1>3, <3>1 DEF Carried
  <2>2. UNCHANGED fate
    BY <1>1, <1>10
  <2>3. \A c : \A v \in PushWorkers : Carried(pusher'[v], c) = Carried(pusher[v], c)
    BY <1>7, <1>9, <2>1
  <2>4. \A c \in Content : Once(c)'
    BY <1>1, <1>2, <1>8, <2>2, <2>3 DEF Once
  <2> QED  BY <1>1, <1>2, <1>7, <2>2, <2>4 DEF NewHolds, PushersHold
<1>11. CASE sessions[s].open
  <2>1. fate' = [c \in Content |-> fate'[c]] /\ \A c \in Content : fate'[c] = IF c \in contents THEN "offered" ELSE fate[c]
    BY <1>1, <1>11 DEF Settles
  <2>2. \A c : Carried(tasks, c) = Carried(pusher[w], c) \ group
    <3>1. \A i \in DOMAIN tasks : tasks[i].at = "over" <=> i \in group \/ pusher[w][i].at = "over"
      BY <1>3, <1>11
    <3> HIDE DEF group
    <3> QED  BY <1>3, <3>1 DEF Carried
  <2>3. \A c : c \in contents => \E i \in group : i \in Carried(pusher[w], c)
    BY <1>4 DEF Carried
  <2>4. \A c : c \notin contents => \A i \in Carried(pusher[w], c) : i \notin group
    BY DEF Carried
  <2> HIDE DEF group, contents
  <2>5. ASSUME NEW c \in Content  PROVE Once(c)'
    <3>1. CASE c \notin contents
      <4>1. Carried(tasks, c) = Carried(pusher[w], c)
        BY <2>2, <2>4, <3>1
      <4>2. \A v \in PushWorkers : Carried(pusher'[v], c) = Carried(pusher[v], c)
        BY <1>7, <1>9, <4>1
      <4> QED  BY <1>1, <1>2, <1>8, <2>1, <3>1, <4>2 DEF Once
    <3>2. CASE c \in contents
      <4>1. PICK i \in group : i \in Carried(pusher[w], c)
        BY <2>3, <3>2
      <4>2. \A x, y \in Carried(pusher[w], c) : x = y
        BY <1>2 DEF Once, One
      <4>3. Carried(pusher'[w], c) = {}
        BY <1>7, <2>2, <4>1, <4>2
      <4>4. InQueue(c) = {} /\ c \notin DOMAIN unpushed /\ \A v \in PushWorkers \ {w} : Carried(pusher[v], c) = {}
        BY <1>2, <4>1 DEF Once
      <4>5. \A v \in PushWorkers : Carried(pusher'[v], c) = {}
        BY <1>9, <4>3, <4>4
      <4>6. InQueue(c)' = {} /\ c \notin DOMAIN unpushed' /\ fate'[c] # "new"
        BY <1>1, <1>8, <2>1, <3>2, <4>4
      <4> QED  BY <4>5, <4>6 DEF Once, One
    <3> QED  BY <3>1, <3>2
  <2> QED  BY <1>1, <1>2, <1>7, <2>1, <2>5 DEF NewHolds, PushersHold
<1> QED  BY <1>10, <1>11

(* All that waits for a connection is queued. *)
LEMMA NewPushesUnpushed == ASSUME NewHolds, NEW s, PushesUnpushed(s)  PROVE NewHolds'
<1>1. PICK S : S = DOMAIN unpushed
  OBVIOUS
<1>2. PICK f : f = SetToSeq(S)
  OBVIOUS
<1> DEFINE more == [i \in DOMAIN f |-> New(f[i], unpushed[f[i]].source)]
<1>3. queue' = queue \o more /\ unpushed' = <<>> /\ UNCHANGED <<pusher, fate>>
  BY <1>1, <1>2 DEF PushesUnpushed
<1>4. PICK n \in Nat : f \in [1..n -> S] /\ (\A i, j \in 1..n : f[i] = f[j] => i = j) /\ \A x \in S : \E i \in 1..n : f[i] = x
  <2>1. IsFiniteSet(S)
    BY <1>1 DEF NewHolds, PushersHold
  <2> QED  BY <1>2, <2>1, InSequenceOnce
<1>5. PICK m \in Nat : queue = [i \in 1..m |-> queue[i]]
  BY DEF NewHolds, PushersHold, Sequence
<1>6. DOMAIN more = 1..n /\ \A i \in 1..n : more[i].content = f[i]
  BY <1>4 DEF New
<1>7. more = [i \in 1..n |-> more[i]]
  BY <1>4
<1> HIDE DEF more
<1>8. /\ Sequence(queue') /\ DOMAIN queue' = 1..(m + n)
      /\ \A i \in 1..m : queue'[i] = queue[i]
      /\ \A i \in 1..n : queue'[m + i] = more[i]
  <2>1. After(queue, m, more, n, queue \o more)
    BY <1>5, <1>7, Concatenates
  <2> QED  BY <1>3, <2>1 DEF After
<1>9. \A k \in 1..(m + n) : k \in 1..m \/ \E i \in 1..n : k = m + i
  <2> SUFFICES ASSUME NEW k \in 1..(m + n), k \notin 1..m  PROVE \E i \in 1..n : k = m + i
    OBVIOUS
  <2>1. k - m \in 1..n /\ k = m + (k - m)
    OBVIOUS
  <2> QED  BY <2>1
<1>10. \A i \in 1..m : i \in 1..(m + n)
  OBVIOUS
<1>11. \A i \in 1..n : m + i \in 1..(m + n) /\ m + i \notin 1..m
  OBVIOUS
<1>12. DOMAIN unpushed' = {} /\ IsFiniteSet(DOMAIN unpushed')
  <2>1. DOMAIN unpushed' = {}
    BY <1>3
  <2> QED  BY <2>1, FS_EmptySet
<1>13. PushersHold'
  BY <1>3, <1>8, <1>12 DEF NewHolds, PushersHold
<1>14. ASSUME NEW c \in Content  PROVE Once(c)'
  <2>1. Once(c)
    BY DEF NewHolds
  <2>2. \A i : i \in InQueue(c) <=> i \in 1..m /\ queue[i].content = c
    BY <1>5 DEF InQueue
  <2>3. \A k : k \in InQueue(c)' <=> k \in 1..(m + n) /\ queue'[k].content = c
    BY <1>8 DEF InQueue
  <2>4. CASE c \notin S
    <3>1. \A i \in 1..n : f[i] # c
      BY <1>4, <2>4
    <3>2. \A i \in 1..n : queue'[m + i].content # c
      BY <1>6, <1>8, <3>1
    <3>3. \A k : k \in InQueue(c)' <=> k \in InQueue(c)
      BY <1>8, <1>9, <1>10, <2>2, <2>3, <3>2
    <3>4. InQueue(c)' = InQueue(c)
      BY <3>3
    <3> QED  BY <1>1, <1>3, <1>12, <2>1, <2>4, <3>4 DEF Once
  <2>5. CASE c \in S
    <3>1. PICK i \in 1..n : f[i] = c
      BY <1>4, <2>5
    <3>2. InQueue(c) = {} /\ fate[c] = "new" /\ \A w \in PushWorkers : Carried(pusher[w], c) = {}
      BY <1>1, <2>1, <2>5 DEF Once
    <3>3. InQueue(c)' = {m + i}
      <4>1. m + i \in InQueue(c)'
        BY <1>6, <1>8, <1>11, <2>3, <3>1
      <4>2. ASSUME NEW k \in InQueue(c)'  PROVE k = m + i
        <5>1. k \in 1..(m + n) /\ queue'[k].content = c
          BY <2>3
        <5>2. k \notin 1..m
          BY <1>8, <2>2, <3>2, <5>1
        <5>3. PICK j \in 1..n : k = m + j
          BY <1>9, <5>1, <5>2
        <5>4. f[j] = c
          BY <1>6, <1>8, <5>1, <5>3
        <5> QED  BY <1>4, <3>1, <5>3, <5>4
      <4> QED  BY <4>1, <4>2
    <3> QED  BY <1>3, <1>12, <3>2, <3>3 DEF Once, One
  <2> QED  BY <2>4, <2>5
<1> QED  BY <1>13, <1>14 DEF NewHolds

(* What is stored is queued. *)
LEMMA NewOnDataStored == ASSUME NewHolds, NEW d \in Content, NEW source, OnDataStored(d, source)  PROVE NewHolds'
<1>1. /\ fate[d] = "none" /\ queue' = Append(queue, New(d, source)) /\ fate' = [fate EXCEPT ![d] = "new"]
      /\ UNCHANGED <<unpushed, pusher>>
  BY DEF OnDataStored
<1>2. PICK m : /\ m \notin DOMAIN queue /\ DOMAIN queue' = DOMAIN queue \cup {m} /\ queue'[m] = New(d, source)
               /\ \A j \in DOMAIN queue : queue'[j] = queue[j]
               /\ Sequence(queue')
  BY <1>1, Appends DEF NewHolds, PushersHold
<1>3. \A c : InQueue(c)' = InQueue(c) \cup IF c = d THEN {m} ELSE {}
  BY <1>2 DEF InQueue, New
<1>4. fate' = [c \in Content |-> fate'[c]] /\ fate'[d] = "new" /\ \A c \in Content \ {d} : fate'[c] = fate[c]
  BY <1>1 DEF NewHolds, PushersHold
<1>5. PushersHold'
  BY <1>1, <1>2, <1>4 DEF NewHolds, PushersHold
<1>6. ASSUME NEW c \in Content  PROVE Once(c)'
  <2>1. Once(c)
    BY DEF NewHolds
  <2>2. CASE c # d
    <3>1. InQueue(c)' = InQueue(c)
      BY <1>3, <2>2
    <3> QED  BY <1>1, <1>4, <2>1, <2>2, <3>1 DEF Once
  <2>3. CASE c = d
    <3>1. InQueue(c) = {} /\ c \notin DOMAIN unpushed /\ \A w \in PushWorkers : Carried(pusher[w], c) = {}
      BY <1>1, <2>1, <2>3 DEF Once
    <3>2. InQueue(c)' = {m}
      BY <1>3, <2>3, <3>1
    <3> QED  BY <1>1, <1>4, <2>3, <3>1, <3>2 DEF Once, One
  <2> QED  BY <2>2, <2>3
<1> QED  BY <1>5, <1>6 DEF NewHolds

LEMMA NewTheSame == ASSUME NewHolds, UNCHANGED <<queue, unpushed, pusher, fate>>  PROVE NewHolds'
BY DEF NewHolds, PushersHold, Once, InQueue

LEMMA NewGoesOn == SearchesHold /\ NewHolds /\ [Next]_vars => NewHolds'
<1> SUFFICES ASSUME SearchesHold, NewHolds, [Next]_vars  PROVE NewHolds'  OBVIOUS
<1>1. CASE Connects
  BY <1>1, NewTheSame DEF Connects, NoOther, pushVars
<1>2. CASE Searches
  BY <1>2, NewTheSame DEF Searches, SearchThread, SearcherTakes, SearcherLooks, SearcherAsks, SearcherFinds,
     SearcherFails, pushVars
<1>3. CASE Pushes
  BY <1>3, NewPusherTakes, NewPusherReads, NewPusherAssigns, NewPusherSends, NewPushesUnpushed
  DEF Pushes, PushThread, JoinedPushes
<1>4. CASE Speaks
  BY <1>4, NewTheSame DEF Speaks, Hears, TalksWith, PassThread, pushVars
<1>5. CASE OthersAct
  <2>1. PICK c \in start.contents : \/ OnFetchRequested(c)
                                    \/ \E source \in start.sources : OnDataStored(c, source)
                                    \/ Removed(c)
    BY <1>5 DEF OthersAct
  <2>2. c \in Content
    BY ExchangeAssumption DEF SearchesHold
  <2> QED  BY <2>1, <2>2, NewTheSame, NewOnDataStored DEF OnFetchRequested, Removed, pushVars
<1>6. CASE OnIdle
  BY <1>6, NewTheSame DEF OnIdle, pushVars
<1>7. CASE Tick
  BY <1>7, NewTheSame DEF Tick, pushVars
<1>8. CASE UNCHANGED vars
  BY <1>8, NewTheSame DEF vars, pushVars
<1> QED  BY <1>1, <1>2, <1>3, <1>4, <1>5, <1>6, <1>7, <1>8 DEF Next

-----------------------------------------------------------------------------
(* What waits for a connection was sent to all that are connected and were *)
(* pushed what waited. No session whose tail is done has one again.        *)
TailsStay ==
    \A n \in Connected' : sessions'[peers'[n]].tail = "done" => n \in Connected /\ sessions[peers[n]].tail = "done"

LEMMA WaitsOn ==
  ASSUME UnpushedWasTried, TailsStay, UNCHANGED unpushed  PROVE UnpushedWasTried'
BY DEF UnpushedWasTried, TailsStay

LEMMA TailsOfEach ==
  ASSUME ConnectionsHold, Connected' \subseteq Connected, \A n \in Connected' : peers'[n] = peers[n],
         \A s \in DOMAIN sessions : sessions'[s].tail = "done" => sessions[s].tail = "done"
  PROVE  TailsStay
BY DEF TailsStay, ConnectionsHold, PeersHold, InMix

LEMMA TailsOfOne ==
  ASSUME ConnectionsHold, peers' = peers, NEW t, NEW other, sessions' = [sessions EXCEPT ![t] = other],
         t \in DOMAIN sessions /\ other.tail = "done" => sessions[t].tail = "done"
  PROVE  TailsStay
BY TailsOfEach DEF Connected

LEMMA TailsTheSame == ASSUME ConnectionsHold, UNCHANGED <<sessions, peers>>  PROVE TailsStay
BY TailsOfEach DEF Connected

LEMMA TailsOpens == ASSUME ConnectionsHold, NEW e, Opens(e), peers' = peers  PROVE TailsStay
<1>1. \A s \in DOMAIN sessions : sessions'[s] = sessions[s]
  BY OpensOne DEF ConnectionsHold, Longer
<1> QED  BY <1>1, TailsOfEach DEF Connected

LEMMA TailsAdmit ==
  ASSUME ConnectionsHold, NEW s, AwaitsAdmission(sessions, s), NEW tail, tail # "done", Admit(s, tail)
  PROVE  TailsStay
<1>1. s \in DOMAIN sessions /\ SessionFields \subseteq DOMAIN sessions[s]
  BY DEF AwaitsAdmission, ConnectionsHold, SessionsHold
<1>2. CASE Refusal(s) = "none"
  <2> DEFINE other == [sessions[s] EXCEPT !.stage = "admitted", !.tail = tail]
  <2>1. sessions' = [sessions EXCEPT ![s] = other] /\ peers' = With(peers, sessions[s].node, s)
    BY <1>2 DEF Admit
  <2>2. other.tail = tail
    BY <1>1 DEF SessionFields
  <2> HIDE DEF other
  <2>3. /\ Connected' = Connected \cup {sessions[s].node} /\ peers'[sessions[s].node] = s
        /\ \A n \in Connected \ {sessions[s].node} : peers'[n] = peers[n]
    BY <2>1 DEF With, Connected
  <2>4. sessions'[s].tail # "done" /\ \A q \in DOMAIN sessions \ {s} : sessions'[q] = sessions[q]
    BY <1>1, <2>1, <2>2
  <2>5. \A n \in Connected : peers[n] \in DOMAIN sessions
    BY DEF ConnectionsHold, PeersHold, InMix
  <2> QED  BY <2>3, <2>4, <2>5 DEF TailsStay
<1>3. CASE Refusal(s) # "none"
  <2> DEFINE other == [sessions[s] EXCEPT !.stage = "gone", !.open = FALSE]
  <2>1. sessions' = [sessions EXCEPT ![s] = other] /\ peers' = peers
    BY <1>3 DEF Admit
  <2>2. other.tail = sessions[s].tail
    BY <1>1 DEF SessionFields
  <2> HIDE DEF other
  <2> QED  BY <2>1, <2>2, TailsOfOne
<1> QED  BY <1>2, <1>3

LEMMA TailsThreads == ConnectionsHold /\ Threads => TailsStay
<1> SUFFICES ASSUME ConnectionsHold, Threads  PROVE TailsStay  OBVIOUS
<1>1. ASSUME NEW k \in Keys, DialOpens(k)  PROVE TailsStay
  BY <1>1, TailsOpens, TailsTheSame DEF DialOpens
<1>2. ASSUME NEW d \in Dials, AskedOpens(d)  PROVE TailsStay
  BY <1>2, TailsOpens, TailsTheSame DEF AskedOpens
<1>3. ASSUME NEW k \in Keys, DialAdmits(k)  PROVE TailsStay
  <2>1. AwaitsAdmission(sessions, dialing[k].session) /\ Admit(dialing[k].session, "dialing")
    BY <1>3 DEF DialAdmits, ConnectionsHold, DialsHold
  <2> QED  BY <2>1, TailsAdmit
<1>4. ASSUME NEW d \in Dials, AskedAdmits(d)  PROVE TailsStay
  <2>1. AwaitsAdmission(sessions, asked[d].session) /\ Admit(asked[d].session, "greet")
    BY <1>4 DEF AskedAdmits, ConnectionsHold, AsksHold
  <2> QED  BY <2>1, TailsAdmit
<1>5. ASSUME NEW t, NEW tail, tail # "done", sessions' = [sessions EXCEPT ![t].tail = tail], peers' = peers
      PROVE  TailsStay
  <2> DEFINE other == [sessions[t] EXCEPT !.tail = tail]
  <2>1. t \in DOMAIN sessions => other.tail # "done"
    BY <1>5 DEF ConnectionsHold, SessionsHold, SessionFields
  <2>2. sessions' = [sessions EXCEPT ![t] = other]
    BY <1>5
  <2> HIDE DEF other
  <2> QED  BY <1>5, <2>1, <2>2, TailsOfOne
<1>6. ASSUME NEW k, DialEnds(k)  PROVE TailsStay
  <2>1. PICK t : t = dialing[k].session
    OBVIOUS
  <2>2. peers' = peers /\ (sessions' = sessions \/ sessions' = [sessions EXCEPT ![t].tail = "maintain"])
    BY <1>6, <2>1 DEF DialEnds
  <2> QED  BY <1>5, <2>2, TailsTheSame
<1>7. ASSUME NEW s, JoinedMaintains(s)  PROVE TailsStay
  BY <1>5, <1>7 DEF JoinedMaintains
<1>8. ASSUME NEW s, NEW stage, sessions' = [sessions EXCEPT ![s].stage = stage]
      PROVE  \A q \in DOMAIN sessions : sessions'[q].tail = "done" => sessions[q].tail = "done"
  BY <1>8 DEF ConnectionsHold, SessionsHold, SessionFields
<1>9. ASSUME NEW s, Closed(s)  PROVE TailsStay
  <2>1. Connected' \subseteq Connected /\ \A n \in Connected' : peers'[n] = peers[n]
    BY <1>9 DEF Closed, TakesOut, Connected
  <2>2. sessions' = [sessions EXCEPT ![s].stage = "closed"]
    BY <1>9 DEF Closed
  <2> QED  BY <1>8, <2>1, <2>2, TailsOfEach
<1>10. ASSUME NEW s, ClosedMaintains(s)  PROVE TailsStay
  <2>1. sessions' = [sessions EXCEPT ![s].stage = "gone"] /\ peers' = peers
    BY <1>10 DEF ClosedMaintains
  <2> QED  BY <1>8, <2>1, TailsOfEach DEF Connected
<1>11. ASSUME NEW d \in Dials, AskedTells(d)  PROVE TailsStay
  BY <1>11, TailsTheSame DEF AskedTells
<1>12. ASSUME NEW k, EndedMaintains(k)  PROVE TailsStay
  BY <1>12, TailsTheSame DEF EndedMaintains
<1> QED  BY <1>1, <1>2, <1>3, <1>4, <1>6, <1>7, <1>9, <1>10, <1>11, <1>12
         DEF Threads, DialThread, AskedThread, SessionThreads

LEMMA TailsToldEach == ASSUME ConnectionsHold, sessions' = ToldEach, peers' = peers  PROVE TailsStay
<1>1. \A s \in DOMAIN sessions : sessions'[s] = Told(s) /\ Told(s).tail = sessions[s].tail
  BY DEF ToldEach, Told, ConnectionsHold, SessionsHold, SessionFields
<1> QED  BY <1>1, TailsOfEach DEF Connected

LEMMA TailsConnects == ConnectionsHold /\ Connects => TailsStay
<1> SUFFICES ASSUME ConnectionsHold, Connects  PROVE TailsStay  OBVIOUS
<1>1. ASSUME NEW s, NEW open, NEW away, peers' = peers,
             \/ sessions' = [sessions EXCEPT ![s].open = open]
             \/ sessions' = [sessions EXCEPT ![s].open = open, ![s].away = away]
      PROVE  TailsStay
  <2>1. \A q \in DOMAIN sessions : sessions'[q].tail = "done" => sessions[q].tail = "done"
    BY <1>1 DEF ConnectionsHold, SessionsHold, SessionFields
  <2> QED  BY <1>1, <2>1, TailsOfEach DEF Connected
<1>2. CASE Receives
  <2>1. ASSUME NEW s, MainCloses(s)  PROVE TailsStay
    BY <1>1, <2>1 DEF MainCloses, Shut
  <2>2. CASE PassesOn
    BY <2>2, TailsToldEach, TailsTheSame DEF PassesOn
  <2>3. CASE MainHasClosed \/ AllClosed \/ MainMaintains
    BY <2>3, TailsTheSame DEF MainHasClosed, AllClosed, MainMaintains
  <2> QED  BY <1>2, <2>1, <2>2, <2>3 DEF Receives
<1>3. CASE Arrivals
  <2>1. ASSUME NEW s, PeerCloses(s)  PROVE TailsStay
    BY <1>1, <2>1 DEF PeerCloses
  <2>2. ASSUME NEW d, NEW e, OnDialRequested(d, e)  PROVE TailsStay
    BY <2>2, TailsTheSame DEF OnDialRequested
  <2>3. ASSUME NEW allowed, OnNodeTrust(allowed)  PROVE TailsStay
    BY <2>3, TailsTheSame DEF OnNodeTrust
  <2>4. ASSUME NEW list, OnNodeListUpdated(list)  PROVE TailsStay
    BY <2>4, TailsTheSame DEF OnNodeListUpdated
  <2>5. CASE OnStop
    BY <2>5, TailsTheSame DEF OnStop
  <2> QED  BY <1>3, <2>1, <2>2, <2>3, <2>4, <2>5 DEF Arrivals
<1> QED  BY <1>2, <1>3, TailsThreads DEF Connects

LEMMA WaitsAtFirst == Init => UnpushedWasTried
BY DEF Init, UnpushedWasTried

(* What a worker put by was sent to every peer there is. *)
LEMMA WaitsPusherAssigns ==
  ASSUME ConnectionsHold, UnpushedWasTried, NEW w, PusherAssigns(w)  PROVE UnpushedWasTried'
<1>1. UNCHANGED <<sessions, peers>>
  BY DEF PusherAssigns, connectionVars
<1>2. TailsStay
  BY <1>1, TailsTheSame
<1>3. PICK i \in Tasks(w, "assign") : unpushed' = unpushed \/ WaitsForPeer(pusher[w][i])
  BY DEF PusherAssigns
<1> DEFINE task == pusher[w][i]
<1>4. CASE unpushed' = unpushed
  BY <1>2, <1>4, WaitsOn
<1>5. CASE unpushed' # unpushed
  <2>1. unpushed' = With(unpushed, task.new.content, [source |-> task.new.source, tried |-> task.tried])
        /\ Connected \subseteq task.tried
    BY <1>3, <1>5 DEF WaitsForPeer, Waiting
  <2>2. /\ DOMAIN unpushed' = DOMAIN unpushed \cup {task.new.content}
        /\ unpushed'[task.new.content].tried = task.tried
        /\ \A c \in DOMAIN unpushed \ {task.new.content} : unpushed'[c] = unpushed[c]
    BY <2>1 DEF With
  <2> QED  BY <1>1, <2>1, <2>2 DEF UnpushedWasTried, Connected
<1> QED  BY <1>4, <1>5

LEMMA WaitsPushes == ConnectionsHold /\ UnpushedWasTried /\ Pushes => UnpushedWasTried'
<1> SUFFICES ASSUME ConnectionsHold, UnpushedWasTried, Pushes  PROVE UnpushedWasTried'  OBVIOUS
<1>1. ASSUME NEW w, PusherTakes(w) \/ PusherReads(w)  PROVE UnpushedWasTried'
  <2>1. UNCHANGED <<sessions, peers, unpushed>>
    BY <1>1 DEF PusherTakes, PusherReads, connectionVars
  <2> QED  BY <2>1, TailsTheSame, WaitsOn
<1>2. ASSUME NEW w, PusherSends(w)  PROVE UnpushedWasTried'
  <2>1. UNCHANGED <<unpushed, peers>>
    BY <1>2 DEF PusherSends
  <2>2. sessions' = sessions \/ \E s, more : sessions' = [sessions EXCEPT ![s].pushed = more]
    BY <1>2 DEF PusherSends
  <2>3. \A q \in DOMAIN sessions : sessions'[q].tail = "done" => sessions[q].tail = "done"
    BY <2>2 DEF ConnectionsHold, SessionsHold, SessionFields
  <2> QED  BY <2>1, <2>3, TailsOfEach, WaitsOn DEF Connected
<1>3. ASSUME NEW s, PushesUnpushed(s)  PROVE UnpushedWasTried'
  <2>1. unpushed' = <<>>
    BY <1>3 DEF PushesUnpushed
  <2> QED  BY <2>1 DEF UnpushedWasTried
<1> QED  BY <1>1, <1>2, <1>3, WaitsPusherAssigns DEF Pushes, PushThread, JoinedPushes

LEMMA WaitsSpeaks == ConnectionsHold /\ UnpushedWasTried /\ Speaks => UnpushedWasTried'
<1> SUFFICES ASSUME ConnectionsHold, UnpushedWasTried, Speaks  PROVE UnpushedWasTried'  OBVIOUS
<1>1. UNCHANGED unpushed
  BY DEF Speaks, Hears, TalksWith, PassThread, pushVars
<1>2. CASE OnKarmaHead
  BY <1>1, <1>2, TailsToldEach, WaitsOn DEF OnKarmaHead
<1>3. ASSUME NEW q, NEW by, OnSearchRequested(q, by)  PROVE UnpushedWasTried'
  BY <1>1, <1>3, TailsTheSame, WaitsOn DEF OnSearchRequested, Broadcasts
<1>4. ASSUME NEW q, PassThread(q)  PROVE UnpushedWasTried'
  <2>1. UNCHANGED <<sessions, peers>>
    BY <1>4 DEF PassThread, MakesPass, PassBegins, PassAsks, PassEnds, PassFails, Broadcasts
  <2> QED  BY <1>1, <2>1, TailsTheSame, WaitsOn
<1>5. ASSUME NEW s \in DOMAIN sessions, NEW stock, Talks(s, stock)  PROVE UnpushedWasTried'
  <2>1. PICK other : Becomes(s, other) /\ other.tail = sessions[s].tail
    BY <1>5, TalksTalkOver DEF TalkedOver
  <2>2. TailsStay
    BY <2>1, TailsOfOne DEF Becomes
  <2> QED  BY <1>1, <2>2, WaitsOn
<1> QED  BY <1>2, <1>3, <1>4, <1>5 DEF Speaks, Hears, TalksWith

LEMMA WaitsGoesOn == ConnectionsHold /\ UnpushedWasTried /\ [Next]_vars => UnpushedWasTried'
<1> SUFFICES ASSUME ConnectionsHold, UnpushedWasTried, [Next]_vars  PROVE UnpushedWasTried'  OBVIOUS
<1>1. CASE Connects
  BY <1>1, TailsConnects, WaitsOn DEF Connects, NoOther, pushVars
<1>2. CASE Searches
  <2>1. UNCHANGED <<sessions, peers, unpushed>>
    BY <1>2 DEF Searches, SearchThread, SearcherTakes, SearcherLooks, SearcherAsks, SearcherFinds, SearcherFails,
                connectionVars, pushVars
  <2> QED  BY <2>1, TailsTheSame, WaitsOn
<1>3. CASE OthersAct
  <2>1. UNCHANGED <<sessions, peers, unpushed>>
    BY <1>3 DEF OthersAct, OnFetchRequested, OnDataStored, Removed, pushVars
  <2> QED  BY <2>1, TailsTheSame, WaitsOn
<1>4. CASE OnIdle
  <2>1. /\ sessions' = [s \in DOMAIN sessions |-> IF s \in DueSessions THEN Refreshing(s) ELSE sessions[s]]
        /\ UNCHANGED <<peers, unpushed>>
    BY <1>4 DEF OnIdle, LetsRested, pushVars
  <2>2. \A s \in DOMAIN sessions : Refreshing(s).tail = sessions[s].tail
    BY DEF Refreshing, ConnectionsHold, SessionsHold, SessionFields
  <2> QED  BY <2>1, <2>2, TailsOfEach, WaitsOn DEF Connected
<1>5. CASE Tick
  <2> DEFINE Aged(s) == [sessions[s] EXCEPT !.refresh = Less(@)]
  <2>1. sessions' = [s \in DOMAIN sessions |-> Aged(s)] /\ UNCHANGED <<peers, unpushed>>
    BY <1>5 DEF Tick, RestsAge, pushVars
  <2>2. \A s \in DOMAIN sessions : Aged(s).tail = sessions[s].tail
    BY DEF ConnectionsHold, SessionsHold, SessionFields
  <2> HIDE DEF Aged
  <2> QED  BY <2>1, <2>2, TailsOfEach, WaitsOn DEF Connected
<1>6. CASE UNCHANGED vars
  BY <1>6, TailsTheSame, WaitsOn DEF vars, connectionVars, pushVars
<1> QED  BY <1>1, <1>2, <1>3, <1>4, <1>5, <1>6, WaitsPushes, WaitsSpeaks DEF Next

(* New content is in the queue, with a worker or waiting for a connection, *)
(* and in one of these, until it is offered to a peer or found gone; and   *)
(* none that waits is passed over by a peer that connects meanwhile: for   *)
(* any peers, content, and number of workers.                              *)
THEOREM AllNewKept == Spec => []NewIsKept
<1>1. Init => NewHolds /\ UnpushedWasTried
  BY NewAtFirst, WaitsAtFirst
<1>2. ConnectionsHold /\ SearchesHold /\ NewHolds /\ UnpushedWasTried /\ [Next]_vars => (NewHolds /\ UnpushedWasTried)'
  BY NewGoesOn, WaitsGoesOn
<1>3. NewHolds /\ UnpushedWasTried => NewIsKept
  BY NewIsOnce DEF NewIsKept
<1> QED  BY <1>1, <1>2, <1>3, ConnectionsHoldAlways, SearchesHoldAlways, PTL DEF Spec

(* What is to be pushed or searched for, and the reading of each peer's    *)
(* seek list, is carried by one at every moment, and by only one.          *)
THEOREM AllTasksKept == Spec => []TasksKept
<1>1. NewIsKept /\ SearchesKept /\ TalksKept => TasksKept
  BY DEF TasksKept
<1> QED  BY <1>1, AllNewKept, AllSearchesKept, AllTalksKept, PTL
================================================================================
