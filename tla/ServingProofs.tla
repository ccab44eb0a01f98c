---------------------------- MODULE ServingProofs ----------------------------
(* The web server keeps count of its clients, closes few of them, loses no   *)
(* change of what an application keeps, and answers each request in its      *)
(* turn, for any peers, requests, content and values.                        *)
EXTENDS Serving, FiniteSetTheorems, SequenceTheorems, WellFoundedInduction, TLAPS

-----------------------------------------------------------------------------
(* The inductive invariant.  A connection is counted for each peer verified  *)
(* on it, and a list is on its way out exactly while a thread has the lock:  *)
(* what that list names is then what is counted, and what the list last      *)
(* named when none is.                                                       *)

AfterBody == {"authenticating", "pushing", "looking", "listing"}
Asking == {"body", "authenticating", "opening", "routing", "looking"}
Use == [idle : Nat, requests : Nat, closing : BOOLEAN]

IsThread(t) == {"pc", "at", "then", "signers"} \subseteq DOMAIN t
Holders(n) == {c \in Connections : n \in thread[c].signers}

WiresAre ==
  /\ DOMAIN script = Connections /\ DOMAIN wire = Connections /\ sent \in [Connections -> Nat]
  /\ \A c \in Connections :
       script[c] \in Seq(Requests) /\ wire[c] \in Seq([kind : {"head", "body"}, of : DOMAIN script[c]])
ThreadsAre ==
  /\ DOMAIN thread = Connections /\ DOMAIN answers = Connections
  /\ \A c \in Connections : IsThread(thread[c]) /\ thread[c].signers \subseteq Peers
GoOnAs ==
  \A c \in Connections :
    /\ At(c, "body") => thread[c].then \in AfterBody
    /\ At(c, "naming") => thread[c].then \in {"routing", "finishing"}
    /\ At(c, "opening") => Request(c).signer \in Allowed \ thread[c].signers
AskedAre ==
  \A c \in Connections :
    thread[c].pc \in Asking \/ (At(c, "naming") /\ thread[c].then = "routing")
      => thread[c].at \in DOMAIN script[c]
LockIsTheirs ==
  /\ \A c \in Connections : At(c, "naming") <=> IsNaming(c)
  /\ \A list \in naming : list.peers = DOMAIN connections
  /\ \A list \in naming : \A other \in naming : list = other
  /\ LockFree => named = DOMAIN connections
CountsAre ==
  /\ DOMAIN connections = {n \in Peers : Holders(n) # {}}
  /\ \A n \in DOMAIN connections : connections[n] = Cardinality(Holders(n))
  /\ uses \in [DOMAIN connections -> Use]
IInv == WiresAre /\ ThreadsAre /\ GoOnAs /\ AskedAre /\ LockIsTheirs /\ CountsAre

LEMMA InitIsCounted == ServingAssumption /\ KeepingAssumption /\ Init => IInv
<1> SUFFICES ASSUME ServingAssumption, KeepingAssumption, Init PROVE IInv
  OBVIOUS
<1>1. /\ DOMAIN thread = Connections /\ DOMAIN answers = Connections
      /\ \A c \in Connections : IsThread(thread[c]) /\ thread[c].signers = {}
      /\ \A c \in Connections : thread[c].pc \in {"reading", "closed"}
  BY DEF Init, NewThread, IsThread
<1>2. connections = [n \in {} |-> 0] /\ naming = {} /\ named = {} /\ uses = [n \in {} |-> NewUse]
  BY DEF Init, ClientsInit
<1>3. \A n : Holders(n) = {}
  BY <1>1 DEF Holders
<1>4. WiresAre
  BY DEF Init, ServingAssumption, WiresAre
<1>5. AskedAre
  BY <1>1 DEF AskedAre, Asking, At
<1> QED
  BY <1>1, <1>2, <1>3, <1>4, <1>5
  DEF IInv, ThreadsAre, GoOnAs, LockIsTheirs, CountsAre, At, LockFree, IsNaming

-----------------------------------------------------------------------------
(* Steps of a thread that leave the clients as they are, and steps that are  *)
(* of no thread.                                                             *)

Plain(t, u) ==
  /\ IsThread(u) /\ u.signers = t.signers
  /\ u.pc \notin {"opening", "naming"}
  /\ u.pc = "body" => u.then \in AfterBody
Steady(t, u) ==
  /\ Plain(t, u)
  /\ u.pc # "saving" /\ (u.pc \in Asking => u.at = t.at)

OnlyAnswers(c) == answers' = answers \/ \E a : answers' = [answers EXCEPT ![c] = a]

OnlyReads(c) == wire' = wire \/ (wire[c] # <<>> /\ wire' = [wire EXCEPT ![c] = Tail(@)])

GoesOnAs(c, u) ==
  /\ Plain(thread[c], u) /\ thread' = [thread EXCEPT ![c] = u]
  /\ u.pc = "saving" => At(c, "looking")
  /\ u.pc \in Asking => u.at \in DOMAIN script[c]
GoesOn(c) ==
  /\ ~At(c, "naming")
  /\ \E u : GoesOnAs(c, u)
  /\ OnlyAnswers(c) /\ OnlyReads(c) /\ UNCHANGED <<script, sent>>

LEMMA WiresStay ==
  ASSUME IInv, NEW c \in Connections, OnlyReads(c), UNCHANGED <<script, sent>>
  PROVE  WiresAre'
<1>1. DOMAIN wire' = Connections /\ \A d \in Connections \ {c} : wire'[d] = wire[d]
  BY DEF OnlyReads, IInv, WiresAre
<1>2. wire'[c] \in Seq([kind : {"head", "body"}, of : DOMAIN script[c]])
  <2>1. PICK items, T : /\ items = wire[c] /\ T = [kind : {"head", "body"}, of : DOMAIN script[c]]
                        /\ items \in Seq(T)
    BY DEF IInv, WiresAre
  <2>2. items # <<>> => Tail(items) \in Seq(T)
    BY <2>1
  <2>3. wire'[c] = items \/ (items # <<>> /\ wire'[c] = Tail(items))
    BY <2>1 DEF OnlyReads, IInv, WiresAre
  <2> QED  BY <2>1, <2>2, <2>3
<1> QED  BY <1>1, <1>2 DEF IInv, WiresAre

LEMMA StaysCounted ==
  ASSUME IInv, NEW c \in Connections, GoesOn(c), UNCHANGED <<connections, naming, named>>,
         uses' \in [DOMAIN connections -> Use]
  PROVE  IInv'
<1>0. WiresAre' /\ script' = script
  BY WiresStay DEF GoesOn
<1>1. PICK u : GoesOnAs(c, u)
  BY DEF GoesOn
<1>2. thread'[c] = u /\ \A d \in Connections \ {c} : thread'[d] = thread[d] /\ answers'[d] = answers[d]
  BY <1>1 DEF GoesOn, GoesOnAs, OnlyAnswers, IInv, ThreadsAre
<1>3. DOMAIN thread' = Connections /\ DOMAIN answers' = Connections
  BY <1>1 DEF GoesOn, GoesOnAs, OnlyAnswers, IInv, ThreadsAre
<1>4. ThreadsAre'
  BY <1>1, <1>2, <1>3 DEF IInv, ThreadsAre, Plain, GoesOnAs
<1>5. GoOnAs'
  <2> SUFFICES ASSUME NEW d \in Connections
               PROVE  /\ thread'[d].pc = "body" => thread'[d].then \in AfterBody
                      /\ thread'[d].pc = "naming" => thread'[d].then \in {"routing", "finishing"}
                      /\ thread'[d].pc = "opening" => Request(d)'.signer \in Allowed \ thread'[d].signers
    BY DEF GoOnAs, At
  <2>1. CASE d = c
    BY <2>1, <1>1, <1>2 DEF Plain, GoesOnAs
  <2>2. CASE d # c
    <3>1. Request(d)' = Request(d)
      BY <2>2, <1>0, <1>2 DEF Request, Asked
    <3> QED  BY <3>1, <2>2, <1>2 DEF IInv, GoOnAs, At
  <2> QED  BY <2>1, <2>2
<1>6. AskedAre'
  BY <1>0, <1>1, <1>2 DEF IInv, AskedAre, At, Plain, GoesOnAs
<1>7. \A d \in Connections : At(d, "naming")' <=> At(d, "naming")
  BY <1>1, <1>2 DEF At, Plain, GoesOn, GoesOnAs
<1>8. LockIsTheirs'
  BY <1>7 DEF IInv, LockIsTheirs, IsNaming, LockFree
<1>9. \A n : Holders(n)' = Holders(n)
  BY <1>1, <1>2 DEF Holders, Plain, GoesOnAs
<1>10. CountsAre'
  BY <1>9 DEF IInv, CountsAre
<1> QED  BY <1>0, <1>4, <1>5, <1>6, <1>8, <1>10 DEF IInv

LEMMA Untouched ==
  ASSUME IInv, UNCHANGED <<script, answers, thread, clients>>, WiresAre'
  PROVE  IInv'
<1>1. UNCHANGED <<connections, naming, named, uses>>
  BY DEF clients
<1>2. \A n : Holders(n)' = Holders(n)
  BY DEF Holders
<1>3. \A d : Request(d)' = Request(d)
  BY DEF Request, Asked
<1> QED
  BY <1>1, <1>2, <1>3
  DEF IInv, ThreadsAre, GoOnAs, AskedAre, LockIsTheirs, CountsAre, At, LockFree, IsNaming

-----------------------------------------------------------------------------
(* What a thread goes on as. *)

LEMMA AnsweredSteady ==
  ASSUME NEW t, IsThread(t), NEW response
  PROVE  Steady(t, Answered(t, response)) /\ Answered(t, response).pc = "serving"
BY DEF Steady, Plain, IsThread, Answered, Asking

LEMMA GoneSteady ==
  ASSUME NEW t, IsThread(t), NEW pc, pc \notin {"opening", "naming", "body", "saving"}
  PROVE  Steady(t, [t EXCEPT !.pc = pc])
BY DEF Steady, Plain, IsThread

LEMMA ReadingSteady ==
  ASSUME NEW t, IsThread(t), NEW request, NEW then \in AfterBody
  PROVE  Steady(t, BodyOr(t, request, then))
<1>1. Steady(t, Reading(t, then))
  BY DEF Steady, Plain, IsThread, Reading, AfterBody
<1> QED  BY <1>1, AnsweredSteady DEF BodyOr

LEMMA GuardedSteady ==
  ASSUME NEW t, IsThread(t), NEW request
  PROVE  Steady(t, Guarded(t, request))
<1>1. Steady(t, [t EXCEPT !.pc = "sending", !.response = Closing(Response(400)), !.kept = TRUE])
  BY DEF Steady, Plain, IsThread, Asking
<1>2. Steady(t, [t EXCEPT !.pc = "routing"])
  BY GoneSteady
<1>3. Steady(t, BodyOr(t, request, "authenticating"))
  BY ReadingSteady DEF AfterBody
<1> QED  BY <1>1, <1>2, <1>3, AnsweredSteady DEF Guarded

LEMMA MisparsedSteady ==
  ASSUME NEW t, IsThread(t)
  PROVE  Plain(t, Misparsed(t)) /\ Misparsed(t).pc = "sending"
BY DEF Plain, IsThread, Misparsed

LEMMA AfterSteady ==
  ASSUME NEW t, IsThread(t), NEW closes
  PROVE  Steady(t, After(t, closes)) /\ After(t, closes).pc \notin Asking
BY DEF Steady, Plain, IsThread, After, Asking

(* It is all the same if another field of the thread is set before.          *)
LEMMA SteadyOf ==
  ASSUME NEW t, NEW r, NEW u, IsThread(t), IsThread(r), r.signers = t.signers, Plain(r, u)
  PROVE  Plain(t, u)
BY DEF Plain

StaysPut(c) ==
  /\ ~At(c, "naming") /\ OnlyAnswers(c) /\ OnlyReads(c) /\ UNCHANGED <<script, sent, clients>>

LEMMA Going ==
  ASSUME IInv, NEW c \in Connections, StaysPut(c),
         NEW u, Steady(thread[c], u), thread' = [thread EXCEPT ![c] = u],
         u.pc \in Asking => thread[c].pc \in Asking
  PROVE  GoesOn(c)
BY DEF GoesOn, GoesOnAs, StaysPut, Steady, IInv, AskedAre

LEMMA Answering ==
  ASSUME IInv, NEW c \in Connections, ~At(c, "naming"), OnlyAnswers(c), OnlyReads(c),
         UNCHANGED <<script, sent>>, NEW response, Answers(c, response)
  PROVE  GoesOn(c)
<1>1. PICK u : u = Answered(thread[c], response) /\ thread' = [thread EXCEPT ![c] = u]
  BY DEF Answers
<1>2. IsThread(thread[c])
  BY DEF IInv, ThreadsAre
<1>3. Plain(thread[c], u) /\ u.pc = "serving"
  BY <1>1, <1>2, AnsweredSteady DEF Steady
<1> QED  BY <1>1, <1>3 DEF GoesOn, GoesOnAs, Asking

LEMMA GoingTo ==
  ASSUME IInv, NEW c \in Connections, StaysPut(c),
         NEW pc, pc \notin {"naming"} \cup Asking, pc = "saving" => At(c, "looking"), Goes(c, pc)
  PROVE  GoesOn(c)
<1>1. PICK u : u = [thread[c] EXCEPT !.pc = pc] /\ thread' = [thread EXCEPT ![c] = u]
  BY DEF Goes
<1>2. IsThread(thread[c])
  BY DEF IInv, ThreadsAre
<1>3. Plain(thread[c], u) /\ u.pc = pc
  BY <1>1, <1>2 DEF Plain, IsThread, Asking
<1> QED  BY <1>1, <1>3 DEF GoesOn, GoesOnAs, StaysPut

LEMMA AnsweringAs ==
  ASSUME IInv, NEW c \in Connections, StaysPut(c),
         NEW t, IsThread(t), t.signers = thread[c].signers, NEW response,
         thread' = [thread EXCEPT ![c] = Answered(t, response)]
  PROVE  GoesOn(c)
<1>1. PICK u : u = Answered(t, response) /\ thread' = [thread EXCEPT ![c] = u]
  OBVIOUS
<1>2. Plain(t, u) /\ u.pc = "serving" /\ IsThread(thread[c])
  BY <1>1, AnsweredSteady DEF Steady, IInv, ThreadsAre
<1>3. Plain(thread[c], u)
  BY <1>2, SteadyOf
<1> QED  BY <1>1, <1>2, <1>3 DEF GoesOn, GoesOnAs, StaysPut, Asking

LEMMA GoingAfter ==
  ASSUME IInv, NEW c \in Connections, StaysPut(c),
         NEW t, IsThread(t), t.signers = thread[c].signers, NEW closes,
         thread' = [thread EXCEPT ![c] = After(t, closes)]
  PROVE  GoesOn(c)
<1>1. PICK u : u = After(t, closes) /\ thread' = [thread EXCEPT ![c] = u]
  OBVIOUS
<1>2. Steady(t, u) /\ u.pc \notin Asking /\ IsThread(thread[c])
  BY <1>1, AfterSteady DEF IInv, ThreadsAre
<1>3. Plain(thread[c], u)
  BY <1>2, SteadyOf DEF Steady
<1> QED  BY <1>1, <1>2, <1>3 DEF GoesOn, GoesOnAs, StaysPut, Steady

-----------------------------------------------------------------------------
(* Each action of a thread that leaves the clients as they are. *)

LEMMA HeadsGoOn ==
  ASSUME IInv, NEW c \in Connections,
         ReadsHead(c) \/ ReadsEnd(c) \/ ReadsBody(c) \/ BodyEnds(c)
  PROVE  GoesOn(c) /\ UNCHANGED clients
<1>1. IsThread(thread[c])
  BY DEF IInv, ThreadsAre
<1>2. CASE ReadsHead(c)
  <2>1. StaysPut(c)
    BY <1>2 DEF ReadsHead, At, StaysPut, OnlyAnswers, OnlyReads, Quiet
  <2> DEFINE k == Head(wire[c]).of
             t == [thread[c] EXCEPT !.at = k, !.read = script[c][k].body = "none"]
             u == IF Head(wire[c]).kind = "head" THEN Guarded(t, Asked(c, k)) ELSE Misparsed(t)
  <2>2. thread' = [thread EXCEPT ![c] = u]
    BY <1>2 DEF ReadsHead
  <2>3. IsThread(t) /\ t.signers = thread[c].signers
    BY <1>1 DEF IsThread
  <2>4. Plain(t, u) /\ u.pc # "saving" /\ (u.pc \in Asking => Head(wire[c]).kind = "head" /\ u.at = k)
    <3>1. t.at = k
      BY <1>1 DEF IsThread
    <3> HIDE DEF t, k
    <3> QED  BY <2>3, <3>1, GuardedSteady, MisparsedSteady DEF Steady, Asking
  <2>5. k \in DOMAIN script[c]
    <3>1. PICK items, T : /\ items = wire[c] /\ T = [kind : {"head", "body"}, of : DOMAIN script[c]]
                          /\ items \in Seq(T) /\ items # <<>>
      BY <1>2 DEF ReadsHead, IInv, WiresAre
    <3>2. Head(items) \in T
      <4> HIDE DEF k, t, u
      <4> QED  BY <3>1, HeadTailProperties
    <3> QED  BY <3>1, <3>2
  <2>6. Plain(thread[c], u)
    <3> HIDE DEF t, k, u
    <3> QED  BY <1>1, <2>3, <2>4, SteadyOf
  <2> HIDE DEF t, k, u
  <2>7. GoesOnAs(c, u)
    BY <2>2, <2>4, <2>5, <2>6 DEF GoesOnAs
  <2> QED  BY <2>1, <2>7 DEF GoesOn, StaysPut
<1>3. CASE ReadsEnd(c)
  <2>1. StaysPut(c) /\ Goes(c, "finishing")
    BY <1>3 DEF ReadsEnd, At, StaysPut, OnlyAnswers, OnlyReads, Quiet
  <2> QED  BY <2>1, GoingTo DEF StaysPut, Asking
<1>4. CASE ReadsBody(c)
  <2>1. StaysPut(c)
    BY <1>4 DEF ReadsBody, At, StaysPut, OnlyAnswers, OnlyReads, Quiet
  <2>2. thread' = [thread EXCEPT ![c] = [thread[c] EXCEPT !.read = TRUE, !.pc = thread[c].then]]
    BY <1>4 DEF ReadsBody
  <2>3. thread[c].then \in AfterBody
    BY <1>4 DEF ReadsBody, IInv, GoOnAs
  <2>4. Steady(thread[c], [thread[c] EXCEPT !.read = TRUE, !.pc = thread[c].then])
    BY <1>1, <2>3 DEF Steady, Plain, IsThread, AfterBody
  <2>5. thread[c].pc \in Asking
    BY <1>4 DEF ReadsBody, At, Asking
  <2> QED  BY <2>1, <2>2, <2>4, <2>5, Going DEF StaysPut
<1>5. CASE BodyEnds(c)
  <2>1. StaysPut(c) /\ Goes(c, "finishing")
    BY <1>5 DEF BodyEnds, At, StaysPut, OnlyAnswers, OnlyReads, Quiet
  <2> QED  BY <2>1, GoingTo DEF StaysPut, Asking
<1> QED  BY <1>2, <1>3, <1>4, <1>5

LEMMA ContentGoesOn ==
  ASSUME IInv, NEW c \in Connections,
         FindsNoRoute(c) \/ ReadsData(c) \/ ReadsUpload(c)
  PROVE  GoesOn(c) /\ UNCHANGED clients
<1>1. IsThread(thread[c])
  BY DEF IInv, ThreadsAre
<1>2. CASE FindsNoRoute(c)
  <2>1. StaysPut(c)
    BY <1>2 DEF FindsNoRoute, Routed, At, StaysPut, OnlyAnswers, OnlyReads, Quiet
  <2>2. Answers(c, Response(404)) \/ Answers(c, Response(405))
    BY <1>2 DEF FindsNoRoute
  <2> QED  BY <2>1, <2>2, Answering DEF StaysPut
<1>3. CASE ReadsData(c)
  <2>1. StaysPut(c)
    BY <1>3 DEF ReadsData, Routed, At, StaysPut, OnlyAnswers, OnlyReads, Quiet
  <2>2. \E response : Answers(c, response)
    BY <1>3 DEF ReadsData
  <2> QED  BY <2>1, <2>2, Answering DEF StaysPut
<1>4. CASE ReadsUpload(c)
  <2>1. StaysPut(c)
    BY <1>4 DEF ReadsUpload, Routed, At, StaysPut, OnlyAnswers, OnlyReads, Quiet
  <2>2. thread' = [thread EXCEPT ![c] = BodyOr(thread[c], Request(c), "pushing")]
    BY <1>4 DEF ReadsUpload
  <2>3. Steady(thread[c], BodyOr(thread[c], Request(c), "pushing"))
    BY <1>1, ReadingSteady DEF AfterBody
  <2>4. thread[c].pc \in Asking
    BY <1>4 DEF ReadsUpload, Routed, At, Asking
  <2> QED  BY <2>1, <2>2, <2>3, <2>4, Going DEF StaysPut
<1> QED  BY <1>2, <1>3, <1>4

LEMMA ListsGoOn ==
  ASSUME IInv, NEW c \in Connections, ReadsList(c) \/ TakesList(c) \/ GivesList(c)
  PROVE  GoesOn(c) /\ UNCHANGED clients
<1>1. IsThread(thread[c])
  BY DEF IInv, ThreadsAre
<1>2. CASE ReadsList(c)
  <2>1. StaysPut(c)
    BY <1>2 DEF ReadsList, At, StaysPut, OnlyAnswers, OnlyReads, Quiet
  <2>2. thread' = [thread EXCEPT ![c] = BodyOr(thread[c], Request(c), "listing")]
    BY <1>2 DEF ReadsList
  <2>3. Steady(thread[c], BodyOr(thread[c], Request(c), "listing"))
    BY <1>1, ReadingSteady DEF AfterBody
  <2>4. thread[c].pc \in Asking
    BY <1>2 DEF ReadsList, At, Asking
  <2> QED  BY <2>1, <2>2, <2>3, <2>4, Going DEF StaysPut
<1>3. CASE TakesList(c)
  <2>1. StaysPut(c)
    BY <1>3 DEF TakesList, At, StaysPut, OnlyAnswers, OnlyReads, wires
  <2>2. \E response : Answers(c, response)
    BY <1>3 DEF TakesList
  <2> QED  BY <2>1, <2>2, Answering DEF StaysPut
<1>4. CASE GivesList(c)
  <2>1. StaysPut(c)
    BY <1>4 DEF GivesList, At, StaysPut, OnlyAnswers, OnlyReads, Quiet
  <2>2. \E response : Answers(c, response)
    BY <1>4 DEF GivesList
  <2> QED  BY <2>1, <2>2, Answering DEF StaysPut
<1> QED  BY <1>2, <1>3, <1>4

LEMMA ValuesGoOn ==
  ASSUME IInv, NEW c \in Connections,
         ReadsValues(c) \/ ChecksChange(c) \/ LooksIntoChange(c) \/ SavesChange(c)
  PROVE  GoesOn(c) /\ UNCHANGED clients
<1>1. IsThread(thread[c])
  BY DEF IInv, ThreadsAre
<1>2. CASE ReadsValues(c)
  <2>1. StaysPut(c)
    BY <1>2 DEF ReadsValues, At, StaysPut, OnlyAnswers, OnlyReads, Quiet
  <2>2. \E response : Answers(c, response)
    BY <1>2 DEF ReadsValues
  <2> QED  BY <2>1, <2>2, Answering DEF StaysPut
<1>3. CASE ChecksChange(c)
  <2>1. StaysPut(c)
    BY <1>3 DEF ChecksChange, At, StaysPut, OnlyAnswers, OnlyReads, Quiet
  <2>2. PICK u : /\ thread' = [thread EXCEPT ![c] = u]
                 /\ \/ u = Answered(thread[c], Response(Refusal(Request(c))))
                    \/ u = BodyOr(thread[c], Request(c), "looking")
    BY <1>3 DEF ChecksChange
  <2>3. Steady(thread[c], u)
    BY <1>1, <2>2, ReadingSteady, AnsweredSteady DEF AfterBody
  <2>4. thread[c].pc \in Asking
    BY <1>3 DEF ChecksChange, At, Asking
  <2> QED  BY <2>1, <2>2, <2>3, <2>4, Going DEF StaysPut
<1>4. CASE LooksIntoChange(c)
  <2>1. StaysPut(c)
    BY <1>4 DEF LooksIntoChange, At, StaysPut, OnlyAnswers, OnlyReads, Quiet
  <2>2. Goes(c, "saving") \/ \E response : Answers(c, response)
    BY <1>4 DEF LooksIntoChange, LooksFor
  <2>3. At(c, "looking")
    BY <1>4 DEF LooksIntoChange
  <2> QED  BY <2>1, <2>2, <2>3, Answering, GoingTo DEF StaysPut, Asking
<1>5. CASE SavesChange(c)
  <2>1. StaysPut(c)
    BY <1>5 DEF SavesChange, At, StaysPut, OnlyAnswers, OnlyReads, wires
  <2>2. \E response : Answers(c, response)
    BY <1>5 DEF SavesChange
  <2> QED  BY <2>1, <2>2, Answering DEF StaysPut
<1> QED  BY <1>2, <1>3, <1>4, <1>5

LEMMA Failing ==
  ASSUME IInv, NEW c \in Connections, StaysPut(c), NEW status, Fails(c, status)
  PROVE  GoesOn(c)
<1>1. CASE Goes(c, "finishing")
  BY <1>1, GoingTo DEF Asking
<1>2. CASE ~Goes(c, "finishing")
  <2> DEFINE t == [thread[c] EXCEPT !.stream = NoStream]
  <2>1. thread' = [thread EXCEPT ![c] = Answered(t, Response(status))]
    BY <1>2 DEF Fails
  <2>2. IsThread(thread[c]) /\ IsThread(t) /\ t.signers = thread[c].signers
    BY DEF IInv, ThreadsAre, IsThread
  <2> HIDE DEF t
  <2> QED  BY <2>1, <2>2, AnsweringAs
<1> QED  BY <1>1, <1>2

LEMMA FilesGoOn ==
  ASSUME IInv, NEW c \in Connections,
         StartsFile(c) \/ ChecksPart(c) \/ AsksAhead(c) \/ MissesPart(c)
  PROVE  GoesOn(c) /\ UNCHANGED clients
<1>1. IsThread(thread[c])
  BY DEF IInv, ThreadsAre
<1>2. CASE StartsFile(c)
  <2>1. StaysPut(c)
    BY <1>2 DEF StartsFile, At, StaysPut, OnlyAnswers, OnlyReads, Quiet
  <2>2. CASE \E response : Answers(c, response)
    BY <2>1, <2>2, Answering DEF StaysPut
  <2>3. CASE ~ \E response : Answers(c, response)
    <3>1. PICK begun, stream : thread' = [thread EXCEPT ![c].pc = "part", ![c].response = begun,
                                                     ![c].stream = stream]
      BY <1>2, <2>3 DEF StartsFile
    <3> DEFINE u == [thread[c] EXCEPT !.pc = "part", !.response = begun, !.stream = stream]
    <3>2. thread' = [thread EXCEPT ![c] = u]
      BY <3>1
    <3>3. Steady(thread[c], u) /\ u.pc \notin Asking
      BY <1>1 DEF Steady, Plain, IsThread, Asking
    <3> QED  BY <2>1, <3>2, <3>3, Going DEF StaysPut
  <2> QED  BY <2>2, <2>3
<1>3. CASE ChecksPart(c)
  <2>1. StaysPut(c)
    BY <1>3 DEF ChecksPart, At, StaysPut, OnlyAnswers, OnlyReads, Quiet
  <2>2. Goes(c, "asking") \/ \E status : Fails(c, status)
    BY <1>3 DEF ChecksPart
  <2> QED  BY <2>1, <2>2, GoingTo, Failing DEF StaysPut, Asking
<1>4. CASE AsksAhead(c)
  <2>1. StaysPut(c)
    BY <1>4 DEF AsksAhead, At, StaysPut, OnlyAnswers, OnlyReads, Quiet
  <2>2. PICK stream : thread' = [thread EXCEPT ![c] = [thread[c] EXCEPT !.pc = "fetching", !.stream = stream]]
    <3> DEFINE asked == [x \in DOMAIN thread[c].stream.asked |->
                           IF x \in Due(c) THEN 0 ELSE thread[c].stream.asked[x]]
               stream == [thread[c].stream EXCEPT !.asked = asked]
    <3>1. thread' = [thread EXCEPT ![c] = [thread[c] EXCEPT !.pc = "fetching", !.stream = stream]]
      BY <1>4, ZenonT(30) DEF AsksAhead
    <3> QED  BY <3>1
  <2>3. PICK u : u = [thread[c] EXCEPT !.pc = "fetching", !.stream = stream]
    OBVIOUS
  <2>4. Steady(thread[c], u) /\ u.pc \notin Asking
    BY <1>1, <2>3 DEF Steady, Plain, IsThread, Asking
  <2> QED  BY <2>1, <2>2, <2>3, <2>4, Going DEF StaysPut
<1>5. CASE MissesPart(c)
  <2>1. StaysPut(c)
    BY <1>5 DEF MissesPart, At, StaysPut, OnlyAnswers, OnlyReads, Quiet
  <2>2. Goes(c, "pausing") \/ Fails(c, 503)
    BY <1>5 DEF MissesPart
  <2> QED  BY <2>1, <2>2, GoingTo, Failing DEF StaysPut, Asking
<1> QED  BY <1>2, <1>3, <1>4, <1>5

LEMMA SendingGoesOn ==
  ASSUME IInv, NEW c \in Connections, FetchesPart(c) \/ SendsAnswer(c)
  PROVE  GoesOn(c) /\ UNCHANGED clients
<1>1. IsThread(thread[c])
  BY DEF IInv, ThreadsAre
<1>2. CASE FetchesPart(c)
  <2>1. OnlyAnswers(c)
    <3>1. ASSUME NEW chunk, SendsOn(c, chunk) PROVE \E a : answers' = [answers EXCEPT ![c] = a]
      BY <3>1 DEF SendsOn
    <3> QED  BY <1>2, <3>1 DEF FetchesPart, OnlyAnswers
  <2>2. StaysPut(c)
    BY <1>2, <2>1 DEF FetchesPart, At, Quiet, StaysPut, OnlyReads
  <2> DEFINE t == [thread[c] EXCEPT !.stream = ReadOn(c)]
  <2>3. IsThread(t) /\ t.signers = thread[c].signers
    BY <1>1 DEF IsThread
  <2>4. \/ Fails(c, Unusable(Request(c))) \/ Goes(c, "finishing")
        \/ \E response : thread' = [thread EXCEPT ![c] = Answered(t, response)]
        \/ thread' = [thread EXCEPT ![c] = After(t, LastAnswer(c).close)]
    BY <1>2 DEF FetchesPart, SendsOn
  <2> HIDE DEF t
  <2>5. ASSUME NEW response, thread' = [thread EXCEPT ![c] = Answered(t, response)] PROVE GoesOn(c)
    BY <2>2, <2>3, <2>5, AnsweringAs
  <2>6. ASSUME thread' = [thread EXCEPT ![c] = After(t, LastAnswer(c).close)] PROVE GoesOn(c)
    BY <2>2, <2>3, <2>6, GoingAfter
  <2> QED  BY <2>2, <2>4, <2>5, <2>6, Failing, GoingTo DEF StaysPut, Asking
<1>3. CASE SendsAnswer(c)
  <2>1. StaysPut(c)
    BY <1>3 DEF SendsAnswer, At, StaysPut, OnlyAnswers, OnlyReads, Quiet
  <2>2. \/ Goes(c, "finishing")
        \/ thread' = [thread EXCEPT ![c] = After(thread[c], IsLast(thread[c]))]
    BY <1>3 DEF SendsAnswer
  <2> QED  BY <1>1, <2>1, <2>2, GoingTo, GoingAfter DEF StaysPut, Asking
<1> QED  BY <1>2, <1>3

-----------------------------------------------------------------------------
(* A signer is verified: its connection is then counted, if it is not.       *)

LEMMA OpensCounted ==
  ASSUME IInv, NEW c \in Connections, At(c, "authenticating"),
         Request(c).signer \in Allowed \ thread[c].signers,
         thread' = [thread EXCEPT ![c] = [thread[c] EXCEPT !.pc = "opening"]],
         OnlyReads(c), UNCHANGED <<script, sent, answers, clients>>
  PROVE  IInv'
<1> DEFINE u == [thread[c] EXCEPT !.pc = "opening"]
<1>1. IsThread(u) /\ u.pc = "opening" /\ u.at = thread[c].at /\ u.signers = thread[c].signers
  BY DEF IInv, ThreadsAre, IsThread
<1>2. thread'[c] = u /\ \A d \in Connections \ {c} : thread'[d] = thread[d]
  BY DEF IInv, ThreadsAre
<1>3. DOMAIN thread' = Connections
  BY DEF IInv, ThreadsAre
<1> HIDE DEF u
<1>4. UNCHANGED <<connections, naming, named, uses>>
  BY DEF clients
<1>5. \A d \in Connections : thread'[d].at = thread[d].at /\ thread'[d].signers = thread[d].signers
  BY <1>1, <1>2
<1>6. ASSUME NEW d \in Connections PROVE Request(d)' = Request(d)
  <2>1. PICK k : k = thread[d].at /\ k = thread'[d].at
    BY <1>5
  <2>2. Asked(d, k)' = Asked(d, k)
    BY DEF Asked
  <2> QED  BY <2>1, <2>2 DEF Request
<1>7. ThreadsAre'
  BY <1>1, <1>2, <1>3 DEF IInv, ThreadsAre
<1>8. GoOnAs'
  <2> SUFFICES ASSUME NEW d \in Connections
               PROVE  /\ thread'[d].pc = "body" => thread'[d].then \in AfterBody
                      /\ thread'[d].pc = "naming" => thread'[d].then \in {"routing", "finishing"}
                      /\ thread'[d].pc = "opening" => Request(d)'.signer \in Allowed \ thread'[d].signers
    BY DEF GoOnAs, At
  <2>1. CASE d = c
    BY <2>1, <1>1, <1>2, <1>6
  <2>2. CASE d # c
    BY <2>2, <1>2, <1>6 DEF IInv, GoOnAs, At
  <2> QED  BY <2>1, <2>2
<1>9. \A d \in Connections : At(d, "naming")' <=> At(d, "naming")
  BY <1>1, <1>2 DEF At
<1>10. LockIsTheirs'
  BY <1>4, <1>9 DEF IInv, LockIsTheirs, IsNaming, LockFree
<1>11. \A n : Holders(n)' = Holders(n)
  BY <1>5 DEF Holders
<1>12. CountsAre'
  BY <1>4, <1>11 DEF IInv, CountsAre
<1>13. WiresAre'
  BY WiresStay
<1>14. AskedAre'
  BY <1>1, <1>2 DEF IInv, AskedAre, At, Asking
<1> QED  BY <1>7, <1>8, <1>10, <1>12, <1>13, <1>14 DEF IInv

LEMMA AuthenticatesCounted ==
  ASSUME IInv, NEW c \in Connections, Authenticates(c)
  PROVE  IInv' /\ UNCHANGED clients
<1>1. At(c, "authenticating") /\ StaysPut(c) /\ UNCHANGED <<script, answers, clients>>
  BY DEF Authenticates, At, StaysPut, OnlyAnswers, OnlyReads, Quiet
<1>2. IsThread(thread[c]) /\ UNCHANGED <<connections, naming, named, uses>>
  BY <1>1 DEF IInv, ThreadsAre, clients
<1>3. PICK u : /\ thread' = [thread EXCEPT ![c] = u]
               /\ \/ u = Provisional(thread[c], Request(c).signer)
                  \/ u = Answered(thread[c], Closing(Response(401)))
                  \/ u = Verified(thread[c], Request(c).signer)
  BY DEF Authenticates
<1>4. CASE u = [thread[c] EXCEPT !.pc = "opening"] /\ Request(c).signer \in Allowed \ thread[c].signers
  BY <1>1, <1>3, <1>4, OpensCounted DEF StaysPut
<1>5. CASE Steady(thread[c], u)
  <2>1. GoesOn(c)
    BY <1>1, <1>3, <1>5, Going DEF At, Asking
  <2>2. uses' \in [DOMAIN connections -> Use]
    BY <1>2 DEF IInv, CountsAre
  <2>3. UNCHANGED <<connections, naming, named>>
    BY <1>2
  <2> QED  BY <2>1, <2>2, <2>3, <1>1, StaysCounted
<1>6. Steady(thread[c], [thread[c] EXCEPT !.pc = "routing"])
  BY <1>2, GoneSteady
<1>7. \A response : Steady(thread[c], Answered(thread[c], response))
  BY <1>2, AnsweredSteady
<1>8. u = Provisional(thread[c], Request(c).signer) => Steady(thread[c], u)
  BY <1>6, <1>7 DEF Provisional
<1>9. u = Verified(thread[c], Request(c).signer) =>
        \/ Steady(thread[c], u)
        \/ u = [thread[c] EXCEPT !.pc = "opening"] /\ Request(c).signer \in Allowed \ thread[c].signers
  BY <1>6, <1>7 DEF Verified
<1> QED  BY <1>1, <1>3, <1>4, <1>5, <1>7, <1>8, <1>9

-----------------------------------------------------------------------------
(* The counts change with the peers verified on a connection. *)

LEMMA Elsewhere ==
  ASSUME IInv, NEW c \in Connections, NEW u, thread' = [thread EXCEPT ![c] = u],
         IsThread(u), u.signers \subseteq Peers, u.pc \notin {"body", "opening"},
         u.pc = "naming" => u.then \in {"routing", "finishing"},
         "routing" \in {u.pc, u.then} => u.at \in DOMAIN script[c],
         u.pc \in {"routing", "naming", "finishing"},
         UNCHANGED <<script, sent, wire, answers>>
  PROVE  /\ WiresAre' /\ ThreadsAre' /\ GoOnAs' /\ AskedAre'
         /\ thread'[c] = u /\ \A d \in Connections \ {c} : thread'[d] = thread[d]
<1>1. thread'[c] = u /\ \A d \in Connections \ {c} : thread'[d] = thread[d]
  BY DEF IInv, ThreadsAre
<1>2. DOMAIN thread' = Connections
  BY DEF IInv, ThreadsAre
<1>3. ThreadsAre'
  BY <1>1, <1>2 DEF IInv, ThreadsAre
<1>4. GoOnAs'
  <2> SUFFICES ASSUME NEW d \in Connections
               PROVE  /\ thread'[d].pc = "body" => thread'[d].then \in AfterBody
                      /\ thread'[d].pc = "naming" => thread'[d].then \in {"routing", "finishing"}
                      /\ thread'[d].pc = "opening" => Request(d)'.signer \in Allowed \ thread'[d].signers
    BY DEF GoOnAs, At
  <2>1. CASE d = c
    BY <2>1, <1>1
  <2>2. CASE d # c
    <3>1. Request(d)' = Request(d)
      BY <2>2, <1>1 DEF Request, Asked
    <3> QED  BY <2>2, <1>1, <3>1 DEF IInv, GoOnAs, At
  <2> QED  BY <2>1, <2>2
<1>5. WiresAre'
  BY DEF IInv, WiresAre
<1>6. AskedAre'
  BY <1>1 DEF IInv, AskedAre, At, Asking
<1> QED  BY <1>1, <1>3, <1>4, <1>5, <1>6

LEMMA HoldersFinite ==
  ASSUME ServingAssumption, NEW n
  PROVE  IsFiniteSet(Holders(n)) /\ Cardinality(Holders(n)) \in Nat
<1>1. IsFiniteSet(Connections)
  BY DEF ServingAssumption
<1>2. Holders(n) \subseteq Connections
  BY DEF Holders
<1>3. IsFiniteSet(Holders(n))
  BY <1>1, <1>2, FS_Subset
<1> QED  BY <1>3, FS_CardinalityType

LEMMA CountsSignerCounted ==
  ASSUME ServingAssumption, IInv, NEW c \in Connections, CountsSigner(c)
  PROVE  IInv'
<1>0. PICK n, u :
        /\ n = Request(c).signer
        /\ u = [thread[c] EXCEPT !.signers = thread[c].signers \cup {n}, !.then = "routing",
                         !.pc = IF n \in DOMAIN connections THEN "routing" ELSE "naming"]
  OBVIOUS
<1>1. n \in Peers /\ n \notin thread[c].signers
  BY <1>0 DEF CountsSigner, IInv, GoOnAs, ServingAssumption
<1>2. thread' = [thread EXCEPT ![c] = u]
  BY <1>0 DEF CountsSigner
<1>3. /\ IsThread(u) /\ u.signers = thread[c].signers \cup {n} /\ u.then = "routing"
      /\ u.at = thread[c].at
      /\ u.pc = IF n \in DOMAIN connections THEN "routing" ELSE "naming"
  BY <1>0 DEF IInv, ThreadsAre, IsThread
<1>4. Opened(c, n) /\ UNCHANGED <<script, sent, wire, answers>> /\ LockFree /\ UNCHANGED named
  BY <1>0 DEF CountsSigner, Quiet, Opened
<1>5. u.signers \subseteq Peers
  BY <1>1, <1>3 DEF IInv, ThreadsAre
<1>6. /\ WiresAre' /\ ThreadsAre' /\ GoOnAs' /\ AskedAre' /\ thread'[c] = u
      /\ \A d \in Connections \ {c} : thread'[d] = thread[d]
  <2>1. /\ IsThread(u) /\ u.pc \notin {"body", "opening"}
        /\ u.pc = "naming" => u.then \in {"routing", "finishing"}
        /\ u.pc \in {"routing", "naming", "finishing"}
    BY <1>3
  <2>2. UNCHANGED <<script, sent, wire, answers>>
    BY <1>4
  <2>3. u.at \in DOMAIN script[c]
    BY <1>3 DEF CountsSigner, IInv, AskedAre, At, Asking
  <2> QED  BY <1>2, <1>5, <2>1, <2>2, <2>3, Elsewhere
<1>7. Holders(n)' = Holders(n) \cup {c} /\ c \notin Holders(n)
  BY <1>1, <1>3, <1>6 DEF Holders
<1>8. ASSUME NEW m, m # n PROVE Holders(m)' = Holders(m)
  BY <1>3, <1>6, <1>8 DEF Holders
<1>9. \A d \in Connections : ~At(d, "naming")
  BY <1>4 DEF IInv, LockIsTheirs, LockFree, IsNaming
<1>10. PICK old, new : /\ old = Holders(n) /\ new = Holders(n)'
                       /\ new = old \cup {c} /\ c \notin old /\ IsFiniteSet(old)
  BY <1>7, HoldersFinite
<1>11. Cardinality(old) \in Nat /\ Cardinality(new) = Cardinality(old) + 1
  BY <1>10, FS_CardinalityType, FS_AddElement
<1>12. CASE n \in DOMAIN connections
  <2>1. connections' = [connections EXCEPT ![n] = @ + 1] /\ UNCHANGED <<naming, uses>>
    BY <1>4, <1>12 DEF Opened
  <2>2. DOMAIN connections' = DOMAIN connections
    BY <2>1
  <2>3. LockIsTheirs'
    <3>1. \A d \in Connections : ~At(d, "naming")'
      BY <1>3, <1>6, <1>9, <1>12 DEF At
    <3> QED  BY <1>4, <2>1, <2>2, <3>1 DEF IInv, LockIsTheirs, LockFree, IsNaming
  <2>4. CountsAre'
    <3>1. \A m \in Peers : Holders(m)' # {} <=> Holders(m) # {}
      BY <1>7, <1>8, <1>12 DEF IInv, CountsAre
    <3>2. DOMAIN connections' = {m \in Peers : Holders(m)' # {}}
      BY <2>2, <3>1 DEF IInv, CountsAre
    <3>3. connections'[n] = Cardinality(Holders(n)')
      BY <2>1, <1>10, <1>11, <1>12 DEF IInv, CountsAre
    <3>4. \A m \in DOMAIN connections' : connections'[m] = Cardinality(Holders(m)')
      BY <2>1, <2>2, <3>3, <1>8 DEF IInv, CountsAre
    <3> QED  BY <2>1, <2>2, <3>2, <3>4 DEF IInv, CountsAre
  <2> QED  BY <1>6, <2>3, <2>4 DEF IInv
<1>13. CASE n \notin DOMAIN connections
  <2>1. /\ connections' = With(connections, n, 1) /\ uses' = With(uses, n, NewUse)
        /\ naming' = naming \cup {[at |-> c, peers |-> DOMAIN connections']}
    BY <1>4, <1>13 DEF Opened, Names
  <2>2. /\ DOMAIN connections' = DOMAIN connections \cup {n} /\ connections'[n] = 1
        /\ \A m \in DOMAIN connections : connections'[m] = connections[m]
    BY <2>1, <1>13 DEF With
  <2>3. LockIsTheirs'
    <3>1. \A d \in Connections : At(d, "naming")' <=> d = c
      BY <1>3, <1>6, <1>9, <1>13 DEF At
    <3>2. naming' = {[at |-> c, peers |-> DOMAIN connections']}
      BY <2>1, <1>4 DEF LockFree
    <3>3. PICK list, peers : peers = DOMAIN connections' /\ list = [at |-> c, peers |-> peers]
      OBVIOUS
    <3>4. naming' = {list} /\ list.at = c /\ list.peers = DOMAIN connections'
      BY <3>2, <3>3
    <3> QED  BY <3>1, <3>4 DEF LockIsTheirs, LockFree, IsNaming
  <2>4. CountsAre'
    <3>1. old = {}
      BY <1>1, <1>10, <1>13 DEF IInv, CountsAre
    <3>2. Cardinality(new) = 1
      BY <1>11, <3>1, FS_EmptySet
    <3>3. \A m \in Peers : Holders(m)' # {} <=> m = n \/ Holders(m) # {}
      BY <1>7, <1>8
    <3>4. DOMAIN connections' = {m \in Peers : Holders(m)' # {}}
      BY <2>2, <3>3, <1>1 DEF IInv, CountsAre
    <3>5. \A m \in DOMAIN connections' : connections'[m] = Cardinality(Holders(m)')
      BY <2>2, <3>2, <1>10, <1>8 DEF IInv, CountsAre
    <3>6. NewUse \in Use
      BY DEF NewUse, Use
    <3>7. uses' \in [DOMAIN connections' -> Use]
      BY <2>1, <2>2, <3>6, <1>13 DEF IInv, CountsAre, With
    <3> QED  BY <3>4, <3>5, <3>7 DEF CountsAre
  <2> QED  BY <1>6, <2>3, <2>4 DEF IInv
<1> QED  BY <1>12, <1>13

LEMMA FinishesCounted ==
  ASSUME ServingAssumption, IInv, NEW c \in Connections, Finishes(c)
  PROVE  IInv'
<1>1. UNCHANGED <<script, sent, wire, answers>> /\ ~At(c, "naming") /\ OnlyAnswers(c) /\ OnlyReads(c)
  BY DEF Finishes, Quiet, At, OnlyAnswers, OnlyReads
<1>2. CASE thread[c].signers = {} /\ UNCHANGED clients
           /\ thread' = [thread EXCEPT ![c] = [NewThread EXCEPT !.pc = "closed"]]
  <2>1. PICK u : u = [NewThread EXCEPT !.pc = "closed"]
    OBVIOUS
  <2>2. IsThread(u) /\ u.signers = {} /\ u.pc = "closed"
    BY <2>1 DEF NewThread, IsThread
  <2>3. GoesOnAs(c, u)
    BY <1>2, <2>1, <2>2 DEF Plain, GoesOnAs, Asking
  <2>4. GoesOn(c)
    BY <1>1, <2>3 DEF GoesOn
  <2>5. UNCHANGED <<connections, naming, named>> /\ uses' \in [DOMAIN connections -> Use]
    BY <1>2 DEF clients, IInv, CountsAre
  <2> QED  BY <2>4, <2>5, StaysCounted
<1>3. ASSUME NEW n \in thread[c].signers, Closed(c, n),
             thread' = [thread EXCEPT ![c] =
               [thread[c] EXCEPT !.signers = thread[c].signers \ {n}, !.then = "finishing",
                                 !.pc = IF connections[n] > 1 THEN "finishing" ELSE "naming"]]
      PROVE  IInv'
  <2>1. PICK u :
          u = [thread[c] EXCEPT !.signers = thread[c].signers \ {n}, !.then = "finishing",
                                !.pc = IF connections[n] > 1 THEN "finishing" ELSE "naming"]
    OBVIOUS
  <2>2. /\ IsThread(u) /\ u.signers = thread[c].signers \ {n} /\ u.then = "finishing"
        /\ u.pc = IF connections[n] > 1 THEN "finishing" ELSE "naming"
    BY <2>1 DEF IInv, ThreadsAre, IsThread
  <2>3. n \in Peers /\ u.signers \subseteq Peers
    BY <2>2 DEF IInv, ThreadsAre
  <2>4. /\ WiresAre' /\ ThreadsAre' /\ GoOnAs' /\ AskedAre' /\ thread'[c] = u
        /\ \A d \in Connections \ {c} : thread'[d] = thread[d]
    <3>1. /\ IsThread(u) /\ u.pc \notin {"body", "opening"}
          /\ u.pc = "naming" => u.then \in {"routing", "finishing"}
          /\ u.pc \in {"routing", "naming", "finishing"} /\ "routing" \notin {u.pc, u.then}
      BY <2>2
    <3>2. UNCHANGED <<script, sent, wire, answers>> /\ thread' = [thread EXCEPT ![c] = u]
      BY <1>1, <1>3, <2>1
    <3> QED  BY <2>3, <3>1, <3>2, Elsewhere
  <2>5. Holders(n)' = Holders(n) \ {c} /\ c \in Holders(n)
    BY <2>2, <2>4 DEF Holders
  <2>6. ASSUME NEW m, m # n PROVE Holders(m)' = Holders(m)
    BY <2>2, <2>4, <2>6 DEF Holders
  <2>7. LockFree /\ UNCHANGED named
    BY <1>3 DEF Closed
  <2>8. \A d \in Connections : ~At(d, "naming")
    BY <2>7 DEF IInv, LockIsTheirs, LockFree, IsNaming
  <2>9. PICK old, new : /\ old = Holders(n) /\ new = Holders(n)'
                        /\ new = old \ {c} /\ c \in old /\ IsFiniteSet(old)
    BY <2>5, HoldersFinite
  <2>10. /\ Cardinality(old) \in Nat /\ Cardinality(new) = Cardinality(old) - 1
         /\ IsFiniteSet(new) /\ Cardinality(new) \in Nat
    <3>1. Cardinality(old \ {c}) = Cardinality(old) - 1
      BY <2>9, FS_RemoveElement
    <3>2. IsFiniteSet(old \ {c})
      BY <2>9, FS_Subset
    <3> QED  BY <2>9, <3>1, <3>2, FS_CardinalityType
  <2>11. n \in DOMAIN connections /\ connections[n] = Cardinality(old)
    BY <2>3, <2>9 DEF IInv, CountsAre
  <2>12. CASE connections[n] > 1
    <3>1. connections' = [connections EXCEPT ![n] = @ - 1] /\ UNCHANGED <<naming, uses>>
      BY <1>3, <2>12 DEF Closed
    <3>2. DOMAIN connections' = DOMAIN connections
      BY <3>1
    <3>3. LockIsTheirs'
      <4>1. \A d \in Connections : ~At(d, "naming")'
        BY <2>2, <2>4, <2>8, <2>12 DEF At
      <4> QED  BY <2>7, <3>1, <3>2, <4>1 DEF IInv, LockIsTheirs, LockFree, IsNaming
    <3>4. new # {}
      BY <2>10, <2>11, <2>12, FS_EmptySet
    <3>5. \A m \in Peers : Holders(m)' # {} <=> Holders(m) # {}
      BY <2>9, <2>6, <3>4
    <3>6. DOMAIN connections' = {m \in Peers : Holders(m)' # {}}
      BY <3>2, <3>5 DEF IInv, CountsAre
    <3>7. connections'[n] = Cardinality(Holders(n)')
      BY <3>1, <2>9, <2>10, <2>11
    <3>8. \A m \in DOMAIN connections' : connections'[m] = Cardinality(Holders(m)')
      BY <3>1, <3>2, <3>7, <2>6 DEF IInv, CountsAre
    <3>9. CountsAre'
      BY <3>1, <3>2, <3>6, <3>8 DEF IInv, CountsAre
    <3> QED  BY <2>4, <3>3, <3>9 DEF IInv
  <2>13. CASE ~(connections[n] > 1)
    <3>1. /\ connections' = Without(connections, n) /\ uses' = Without(uses, n)
          /\ naming' = naming \cup {[at |-> c, peers |-> DOMAIN connections']}
      BY <1>3, <2>13 DEF Closed, Names
    <3>2. /\ DOMAIN connections' = DOMAIN connections \ {n}
          /\ \A m \in DOMAIN connections' : connections'[m] = connections[m]
      BY <3>1 DEF Without
    <3>3. LockIsTheirs'
      <4>1. \A d \in Connections : At(d, "naming")' <=> d = c
        BY <2>2, <2>4, <2>8, <2>13 DEF At
      <4>2. PICK list, peers : peers = DOMAIN connections' /\ list = [at |-> c, peers |-> peers]
        OBVIOUS
      <4>3. naming' = {list} /\ list.at = c /\ list.peers = DOMAIN connections'
        BY <3>1, <2>7, <4>2 DEF LockFree
      <4> QED  BY <4>1, <4>3 DEF LockIsTheirs, LockFree, IsNaming
    <3>4. new = {}
      <4>1. Cardinality(new) = 0
        BY <2>10, <2>11, <2>13
      <4> QED  BY <2>10, <4>1, FS_EmptySet
    <3>5. \A m \in Peers : Holders(m)' # {} <=> m # n /\ Holders(m) # {}
      BY <2>9, <2>6, <3>4
    <3>6. DOMAIN connections' = {m \in Peers : Holders(m)' # {}}
      BY <3>2, <3>5 DEF IInv, CountsAre
    <3>7. \A m \in DOMAIN connections' : connections'[m] = Cardinality(Holders(m)')
      BY <3>2, <2>6 DEF IInv, CountsAre
    <3>8. uses' \in [DOMAIN connections' -> Use]
      BY <3>1, <3>2 DEF IInv, CountsAre, Without
    <3>9. CountsAre'
      BY <3>6, <3>7, <3>8 DEF CountsAre
    <3> QED  BY <2>4, <3>3, <3>9 DEF IInv
  <2> QED  BY <2>12, <2>13
<1> QED  BY <1>2, <1>3 DEF Finishes

LEMMA NamesPeersCounted ==
  ASSUME ServingAssumption, IInv, NEW c \in Connections, NamesPeers(c)
  PROVE  IInv'
<1>1. PICK list \in naming : list.at = c /\ named' = list.peers /\ naming' = naming \ {list}
                             /\ UNCHANGED <<connections, uses>>
  BY DEF NamesPeers, Publishes
<1>2. UNCHANGED <<script, sent, wire, answers>> /\ At(c, "naming")
  BY DEF NamesPeers, Quiet
<1>3. PICK u : u = [thread[c] EXCEPT !.pc = thread[c].then]
  OBVIOUS
<1>4. /\ IsThread(u) /\ u.signers = thread[c].signers /\ u.pc \in {"routing", "finishing"}
      /\ u.pc = thread[c].then /\ u.then = thread[c].then /\ u.at = thread[c].at
  BY <1>2, <1>3 DEF IInv, ThreadsAre, IsThread, GoOnAs
<1>5. thread' = [thread EXCEPT ![c] = u]
  BY <1>3 DEF NamesPeers, Goes
<1>6. /\ WiresAre' /\ ThreadsAre' /\ GoOnAs' /\ AskedAre' /\ thread'[c] = u
      /\ \A d \in Connections \ {c} : thread'[d] = thread[d]
  <2>2. "routing" \in {u.pc, u.then} => u.at \in DOMAIN script[c]
    BY <1>2, <1>4 DEF IInv, AskedAre
  <2>1. /\ u.pc \notin {"body", "opening"} /\ u.signers \subseteq Peers
        /\ u.pc = "naming" => u.then \in {"routing", "finishing"}
    BY <1>4 DEF IInv, ThreadsAre
  <2>3. u.pc \in {"routing", "naming", "finishing"}
    BY <1>4
  <2> QED  BY <1>2, <1>4, <1>5, <2>1, <2>2, <2>3, Elsewhere
<1>7. naming' = {}
  BY <1>1 DEF IInv, LockIsTheirs
<1>8. LockIsTheirs'
  <2>1. \A d \in Connections \ {c} : ~At(d, "naming")
    BY <1>1 DEF IInv, LockIsTheirs, IsNaming
  <2>2. \A d \in Connections : ~At(d, "naming")'
    BY <2>1, <1>4, <1>6 DEF At
  <2>3. named' = DOMAIN connections'
    BY <1>1 DEF IInv, LockIsTheirs
  <2> QED  BY <1>7, <2>2, <2>3 DEF LockIsTheirs, LockFree, IsNaming
<1>9. \A n : Holders(n)' = Holders(n)
  BY <1>4, <1>6 DEF Holders
<1>10. CountsAre'
  BY <1>1, <1>9 DEF IInv, CountsAre
<1> QED  BY <1>6, <1>8, <1>10 DEF IInv

LEMMA TakesUploadCounted ==
  ASSUME IInv, NEW c \in Connections, TakesUpload(c)
  PROVE  GoesOn(c) /\ UNCHANGED <<connections, naming, named>>
         /\ uses' \in [DOMAIN connections -> Use]
         /\ \A n \in Clients : uses'[n].closing => uses[n].closing
<1>1. ~At(c, "naming") /\ OnlyAnswers(c) /\ OnlyReads(c) /\ UNCHANGED <<script, sent>>
  BY DEF TakesUpload, At, OnlyAnswers, OnlyReads, Quiet
<1>2. \E response : Answers(c, response)
  BY DEF TakesUpload
<1>3. GoesOn(c)
  BY <1>1, <1>2, Answering
<1>4. UNCHANGED clients \/ \E n, pushed : Pushed(n, pushed)
  BY DEF TakesUpload
<1>5. CASE UNCHANGED clients
  <2>1. UNCHANGED <<connections, naming, named, uses>>
    BY <1>5 DEF clients
  <2> QED  BY <1>3, <2>1 DEF IInv, CountsAre
<1>6. ASSUME NEW n, NEW pushed, Pushed(n, pushed)
      PROVE  /\ UNCHANGED <<connections, naming, named>> /\ uses' \in [DOMAIN connections -> Use]
             /\ \A m \in Clients : uses'[m].closing => uses[m].closing
  <2>1. CASE uses' = uses
    BY <1>6, <2>1 DEF Pushed, IInv, CountsAre
  <2>2. CASE n \in Clients /\ uses' = [uses EXCEPT ![n] = [uses[n] EXCEPT !.idle = 0, !.closing = FALSE]]
    <3>1. uses \in [DOMAIN connections -> Use] /\ n \in DOMAIN connections
      BY <2>2 DEF IInv, CountsAre, Clients
    <3>2. PICK use : use = [uses[n] EXCEPT !.idle = 0, !.closing = FALSE]
      OBVIOUS
    <3>3. use \in Use /\ use.closing = FALSE
      BY <3>1, <3>2 DEF Use
    <3>4. uses' = [uses EXCEPT ![n] = use]
      BY <2>2, <3>2
    <3> QED  BY <1>6, <3>1, <3>3, <3>4 DEF Pushed, Clients
  <2>3. \/ uses' = uses
        \/ n \in Clients /\ uses' = [uses EXCEPT ![n] = [uses[n] EXCEPT !.idle = 0, !.closing = FALSE]]
    BY <1>6 DEF Pushed
  <2> QED  BY <2>1, <2>2, <2>3
<1> QED  BY <1>3, <1>4, <1>5, <1>6

(* An answer counted: of a client that is closed from then on, it is known   *)
(* that its keeping closes it.                                               *)
LEMMA CountsAnswerCounted ==
  ASSUME IInv, NEW c \in Connections, CountsAnswer(c)
  PROVE  /\ GoesOn(c) /\ UNCHANGED <<connections, naming, named>>
         /\ uses' \in [DOMAIN connections -> Use]
         /\ \/ \A n \in Clients : uses'[n].closing = uses[n].closing
            \/ \E n \in Clients : /\ ~uses[n].closing /\ uses'[n].closing /\ Closes(n)
                                  /\ \A m \in Clients \ {n} : uses'[m] = uses[m]
<1>1. /\ ~At(c, "naming") /\ OnlyAnswers(c) /\ OnlyReads(c) /\ UNCHANGED <<script, sent>>
      /\ IsThread(thread[c])
  BY DEF CountsAnswer, At, OnlyAnswers, OnlyReads, Quiet, IInv, ThreadsAre
<1>2. uses \in [DOMAIN connections -> Use] /\ Clients = DOMAIN connections
  BY DEF IInv, CountsAre, Clients
<1>3. CASE Goes(c, "sending") /\ UNCHANGED clients
  <2>1. GoesOn(c)
    BY <1>1, <1>3, GoingTo DEF StaysPut, Asking
  <2>2. UNCHANGED <<connections, naming, named, uses>>
    BY <1>3 DEF clients
  <2> QED  BY <2>1, <2>2, <1>2
<1>4. ASSUME NEW n \in thread[c].telling, Served(n),
             NEW telling, NEW kept,
             thread' = [thread EXCEPT ![c] = [thread[c] EXCEPT !.telling = telling, !.kept = kept]]
      PROVE  /\ GoesOn(c) /\ UNCHANGED <<connections, naming, named>>
             /\ uses' \in [DOMAIN connections -> Use]
             /\ \/ \A m \in Clients : uses'[m].closing = uses[m].closing
                \/ \E m \in Clients : /\ ~uses[m].closing /\ uses'[m].closing /\ Closes(m)
                                      /\ \A k \in Clients \ {m} : uses'[k] = uses[k]
  <2>1. GoesOn(c)
    <3>1. thread[c].pc = "serving"
      BY DEF CountsAnswer, At
    <3>2. PICK u : u = [thread[c] EXCEPT !.telling = telling, !.kept = kept]
      OBVIOUS
    <3>3. GoesOnAs(c, u)
      BY <1>1, <1>4, <3>1, <3>2 DEF Plain, GoesOnAs, IsThread, Asking
    <3> QED  BY <1>1, <3>3 DEF GoesOn
  <2>2. UNCHANGED <<connections, naming, named>> /\ uses' = Used(n)
    BY <1>4 DEF Served
  <2>3. CASE uses' = uses
    BY <2>1, <2>2, <2>3, <1>2
  <2>4. CASE uses' # uses
    <3>1. n \in Clients /\ ~uses[n].closing /\ uses[n] \in Use
      BY <2>2, <2>4, <1>2 DEF Used
    <3>2. PICK use : use = [Counted(n) EXCEPT !.closing = ~Passes(n, Counted(n)) /\ Closes(n)]
      OBVIOUS
    <3>3. uses' = [uses EXCEPT ![n] = use]
      BY <2>2, <3>1, <3>2 DEF Used
    <3>4. Counted(n) \in Use
      BY <3>1 DEF Counted, Use
    <3>5. use \in Use /\ (use.closing => Closes(n))
      BY <3>2, <3>4 DEF Use
    <3>6. uses' \in [DOMAIN connections -> Use] /\ uses'[n] = use
          /\ \A m \in Clients \ {n} : uses'[m] = uses[m]
      BY <1>2, <3>1, <3>3, <3>5
    <3>7. use.closing \in BOOLEAN /\ uses[n].closing \in BOOLEAN
      BY <3>1, <3>5 DEF Use
    <3>8. CASE use.closing
      BY <2>1, <2>2, <3>1, <3>5, <3>6, <3>8
    <3>9. CASE ~use.closing
      <4>1. use.closing = uses[n].closing
        BY <3>1, <3>7, <3>9
      <4>2. \A m \in Clients : uses'[m].closing = uses[m].closing
        BY <3>6, <4>1
      <4> QED  BY <2>1, <2>2, <3>6, <4>2
    <3> QED  BY <3>8, <3>9
  <2> QED  BY <2>3, <2>4
<1>5. \/ Goes(c, "sending") /\ UNCHANGED clients
      \/ \E n \in thread[c].telling : \E telling, kept :
           /\ Served(n)
           /\ thread' = [thread EXCEPT ![c] = [thread[c] EXCEPT !.telling = telling, !.kept = kept]]
  <2>1. ASSUME NEW n \in thread[c].telling,
               thread' = [thread EXCEPT ![c].telling = @ \ {n}, ![c].kept = @ /\ KeptOpen(n)]
        PROVE  \E telling, kept :
                 thread' = [thread EXCEPT ![c] = [thread[c] EXCEPT !.telling = telling, !.kept = kept]]
    <3>1. thread' = [thread EXCEPT ![c] = [thread[c] EXCEPT !.telling = thread[c].telling \ {n},
                                                  !.kept = thread[c].kept /\ KeptOpen(n)]]
      BY <2>1, <1>1 DEF IInv, ThreadsAre, IsThread
    <3> QED  BY <3>1
  <2> QED  BY <2>1 DEF CountsAnswer
<1> QED  BY <1>3, <1>4, <1>5

LEMMA TickCounted ==
  ASSUME IInv, Tick
  PROVE  /\ IInv'
         /\ \A n \in Clients : uses'[n].closing = uses[n].closing
<1>1. /\ thread' = [c \in Connections |-> IF Waiting(thread[c]) THEN Later(thread[c]) ELSE thread[c]]
      /\ uses' = Aged /\ UNCHANGED <<script, sent, wire, answers, connections, naming, named>>
  BY DEF Tick, wires
<1>2. DOMAIN thread' = Connections /\ \A c \in Connections : IsThread(thread[c])
  BY <1>1 DEF IInv, ThreadsAre
<1>3. ASSUME NEW c \in Connections
      PROVE  /\ IsThread(thread'[c]) /\ thread'[c].signers = thread[c].signers
             /\ thread'[c].at = thread[c].at /\ thread'[c].then = thread[c].then
             /\ \A pc \in Asking \cup {"naming"} : thread'[c].pc = pc <=> thread[c].pc = pc
  <2>1. CASE ~Waiting(thread[c])
    BY <1>1, <1>2, <2>1
  <2>2. CASE Waiting(thread[c])
    <3>1. PICK t, u : t = thread[c] /\ u = Later(t)
      OBVIOUS
    <3>2. thread'[c] = u /\ IsThread(t) /\ Waiting(t)
      BY <1>1, <1>2, <2>2, <3>1
    <3>3. /\ IsThread(u) /\ u.signers = t.signers /\ u.at = t.at /\ u.then = t.then
          /\ u.pc \in {"part", "asking", "fetching"}
      BY <3>1, <3>2 DEF Later, IsThread, Waiting
    <3>4. t.pc \in {"part", "asking", "fetching", "pausing"}
      BY <3>2 DEF Waiting
    <3> QED  BY <3>1, <3>2, <3>3, <3>4 DEF Asking
  <2> QED  BY <2>1, <2>2
<1>4. ASSUME NEW d \in Connections PROVE Request(d)' = Request(d)
  <2>1. PICK k : k = thread[d].at /\ k = thread'[d].at
    BY <1>3
  <2>2. Asked(d, k)' = Asked(d, k)
    BY <1>1 DEF Asked
  <2> QED  BY <2>1, <2>2 DEF Request
<1>5. ThreadsAre'
  BY <1>1, <1>2, <1>3 DEF IInv, ThreadsAre
<1>6. GoOnAs'
  BY <1>3, <1>4 DEF IInv, GoOnAs, At, Asking
<1>7. LockIsTheirs'
  <2>1. \A c \in Connections : At(c, "naming")' <=> At(c, "naming")
    BY <1>3 DEF At
  <2> QED  BY <1>1, <2>1 DEF IInv, LockIsTheirs, IsNaming, LockFree
<1>8. \A n : Holders(n)' = Holders(n)
  BY <1>3 DEF Holders
<1>9. /\ uses' \in [DOMAIN connections -> Use]
      /\ \A n \in Clients : uses'[n].closing = uses[n].closing
  <2>1. uses \in [DOMAIN connections -> Use] /\ Clients = DOMAIN connections
    BY DEF IInv, CountsAre, Clients
  <2>2. ASSUME NEW n \in Clients
        PROVE  uses'[n] \in Use /\ uses'[n].closing = uses[n].closing
    <3>1. PICK use, age : /\ use = uses[n] /\ age = [use EXCEPT !.idle = IF @ < ValueSeconds THEN @ + 1 ELSE @]
                          /\ uses'[n] = age
      BY <1>1, <2>2 DEF Aged
    <3>2. use \in Use
      BY <2>1, <2>2, <3>1
    <3> QED  BY <3>1, <3>2 DEF Use
  <2>3. uses' = [n \in Clients |-> uses'[n]]
    BY <1>1 DEF Aged
  <2> QED  BY <2>1, <2>2, <2>3
<1>10. CountsAre'
  BY <1>1, <1>8, <1>9 DEF IInv, CountsAre
<1>11. WiresAre'
  BY <1>1 DEF IInv, WiresAre
<1>12. AskedAre'
  BY <1>1, <1>3 DEF IInv, AskedAre, At
<1> QED  BY <1>5, <1>6, <1>7, <1>9, <1>10, <1>11, <1>12 DEF IInv

-----------------------------------------------------------------------------
(* Every step. *)

(* What a step leaves of who is to be closed. *)
ClosesNone == \A n \in Clients \cap Clients' : uses'[n].closing => uses[n].closing
ClosesOne(n) ==
  /\ n \in Clients /\ Clients' = Clients /\ ~uses[n].closing /\ uses'[n].closing /\ Closes(n)
  /\ \A m \in Clients \ {n} : uses'[m] = uses[m]

LEMMA ThreadCounted ==
  ASSUME ServingAssumption, IInv, NEW c \in Connections, Serves(c)
  PROVE  IInv' /\ (ClosesNone \/ \E n : ClosesOne(n))
<1>1. CASE GoesOn(c) /\ UNCHANGED clients
  <2>1. UNCHANGED <<connections, naming, named>> /\ uses' = uses
    BY <1>1 DEF clients
  <2>2. uses' \in [DOMAIN connections -> Use]
    BY <2>1 DEF IInv, CountsAre
  <2>3. IInv'
    BY <1>1, <2>1, <2>2, StaysCounted
  <2> QED  BY <2>1, <2>3 DEF ClosesNone
<1>2. CASE ReadsHead(c) \/ ReadsEnd(c) \/ ReadsBody(c) \/ BodyEnds(c)
  BY <1>1, <1>2, HeadsGoOn
<1>3. CASE FindsNoRoute(c) \/ ReadsData(c) \/ ReadsUpload(c)
  BY <1>1, <1>3, ContentGoesOn
<1>4. CASE ReadsList(c) \/ TakesList(c) \/ GivesList(c)
  BY <1>1, <1>4, ListsGoOn
<1>5. CASE ReadsValues(c) \/ ChecksChange(c) \/ LooksIntoChange(c) \/ SavesChange(c)
  BY <1>1, <1>5, ValuesGoOn
<1>6. CASE StartsFile(c) \/ ChecksPart(c) \/ AsksAhead(c) \/ MissesPart(c)
  BY <1>1, <1>6, FilesGoOn
<1>7. CASE FetchesPart(c) \/ SendsAnswer(c)
  BY <1>1, <1>7, SendingGoesOn
<1>8. CASE Authenticates(c)
  <2>1. IInv' /\ uses' = uses
    BY <1>8, AuthenticatesCounted DEF clients
  <2> QED  BY <2>1 DEF ClosesNone
<1>9. CASE CountsSigner(c)
  <2>1. IInv'
    BY <1>9, CountsSignerCounted
  <2>2. uses' = uses \/ \E n : uses' = With(uses, n, NewUse)
    BY <1>9 DEF CountsSigner, Opened
  <2>3. ClosesNone
    <3>1. ASSUME NEW n, uses' = With(uses, n, NewUse), NEW m \in Clients, uses'[m].closing
          PROVE  uses[m].closing
      BY <3>1 DEF With, NewUse, Clients
    <3> QED  BY <2>2, <3>1 DEF ClosesNone
  <2> QED  BY <2>1, <2>3
<1>10. CASE NamesPeers(c)
  <2>1. IInv' /\ uses' = uses
    BY <1>10, NamesPeersCounted DEF NamesPeers, Publishes
  <2> QED  BY <2>1 DEF ClosesNone
<1>11. CASE TakesUpload(c)
  BY <1>11, TakesUploadCounted, StaysCounted DEF ClosesNone
<1>12. CASE CountsAnswer(c)
  <2>1. IInv'
    BY <1>12, CountsAnswerCounted, StaysCounted
  <2>2. Clients' = Clients
    BY <1>12, CountsAnswerCounted DEF IInv, CountsAre, Clients
  <2> QED  BY <1>12, <2>1, <2>2, CountsAnswerCounted DEF ClosesNone, ClosesOne
<1>13. CASE Finishes(c)
  <2>1. IInv'
    BY <1>13, FinishesCounted
  <2>2. uses' = uses \/ \E n : uses' = Without(uses, n)
    BY <1>13 DEF Finishes, Closed, clients
  <2>3. ClosesNone
    <3>1. ASSUME NEW n, uses' = Without(uses, n), NEW m \in Clients', uses'[m].closing
          PROVE  uses[m].closing
      BY <3>1 DEF Without, Clients
    <3> QED  BY <2>2, <3>1 DEF ClosesNone
  <2> QED  BY <2>1, <2>3
<1> QED
  BY <1>2, <1>3, <1>4, <1>5, <1>6, <1>7, <1>8, <1>9, <1>10, <1>11, <1>12, <1>13 DEF Serves

LEMMA SendsOnWires ==
  ASSUME IInv, NEW c \in Connections, Sends(c)
  PROVE  WiresAre'
<1>1. PICK asks, items, k, T :
        /\ asks = script[c] /\ items = wire[c] /\ k = sent[c] + 1
        /\ T = [kind : {"head", "body"}, of : DOMAIN script[c]]
        /\ asks \in Seq(Requests) /\ items \in Seq(T) /\ sent[c] \in Nat
  BY DEF IInv, WiresAre
<1>2. k \in DOMAIN asks /\ k \in Nat
  BY <1>1 DEF Sends
<1>3. PICK more : more = Items(k, script[c][k]) /\ more \in Seq(T)
  <2>1. [kind |-> "head", of |-> k] \in T /\ [kind |-> "body", of |-> k] \in T
    BY <1>1, <1>2
  <2>2. <<[kind |-> "head", of |-> k]>> \in Seq(T) /\ <<[kind |-> "body", of |-> k]>> \in Seq(T)
        /\ <<>> \in Seq(T)
    BY <2>1
  <2>3. \A one, other : one \in Seq(T) /\ other \in Seq(T) => one \o other \in Seq(T)
    OBVIOUS
  <2> QED  BY <2>2, <2>3 DEF Items
<1>4. items \o more \in Seq(T)
  BY <1>1, <1>3
<1>5. wire' = [wire EXCEPT ![c] = items \o more] /\ sent' = [sent EXCEPT ![c] = k]
      /\ UNCHANGED script
  BY <1>1, <1>3 DEF Sends
<1> QED  BY <1>1, <1>2, <1>4, <1>5 DEF IInv, WiresAre

LEMMA StepCounted ==
  ASSUME ServingAssumption, IInv, [Next]_vars
  PROVE  IInv' /\ (ClosesNone \/ \E n : ClosesOne(n))
<1>1. CASE UNCHANGED <<script, answers, thread, clients>> /\ WiresAre'
  <2>1. IInv' /\ uses' = uses
    BY <1>1, Untouched DEF clients
  <2> QED  BY <2>1 DEF ClosesNone
<1>0. ASSUME UNCHANGED <<script, sent, wire>> PROVE WiresAre'
  BY <1>0 DEF IInv, WiresAre
<1>2. ASSUME NEW c \in Connections, Sends(c) \/ Leaves(c)
      PROVE  UNCHANGED <<script, answers, thread, clients>> /\ WiresAre'
  BY <1>0, <1>2, SendsOnWires DEF Sends, Leaves
<1>3. ASSUME NEW x \in Content, Arrives(x) \/ Shuns(x) \/ Deletes(x) \/ Misses(x)
      PROVE  UNCHANGED <<script, sent, wire, answers, thread, clients>>
  BY <1>3 DEF Arrives, Shuns, Deletes, Misses, Others, wires
<1>4. CASE Derives
  BY <1>0, <1>1, <1>4 DEF Derives, Others, wires
<1>5. CASE Tick
  BY <1>5, TickCounted DEF ClosesNone
<1>6. CASE UNCHANGED vars
  BY <1>0, <1>1, <1>6 DEF vars, wires
<1> QED
  BY <1>0, <1>1, <1>2, <1>3, <1>4, <1>5, <1>6, ThreadCounted DEF Next, AllClosed

-----------------------------------------------------------------------------
(* Who holds less than the median. *)

LEMMA LeastOfAmounts ==
  ASSUME NEW S \in SUBSET Nat, NEW some \in S
  PROVE  Min(S) \in S /\ Min(S) <= some
<1> DEFINE Below == {k \in S : k <= some}
           R == StrictSubsetOrdering(0..some)
           Parts == {{k \in Below : k <= m} : m \in Below}
<1>1. \E least \in S : \A m \in S : least <= m
  <2>1. IsFiniteSet(0..some) /\ some \in 0..some /\ Below \subseteq 0..some
    <3>1. some \in Nat /\ some <= some /\ \A k \in Below : k \in Nat /\ k <= some
      OBVIOUS
    <3>2. IsFiniteSet(0..some)
      BY <3>1, FS_Interval
    <3>3. \A k \in Below : k \in 0..some
      BY <3>1
    <3>4. some \in 0..some
      BY <3>1
    <3> QED  BY <3>2, <3>3, <3>4
  <2>2. IsWellFoundedOn(R, FiniteSubsetsOf(0..some))
    BY <2>1, FS_StrictSubsetOrderingWellFounded
  <2>3. Parts \subseteq FiniteSubsetsOf(0..some)
    <3>1. \A T \in Parts : T \in SUBSET (0..some)
      <4>1. \A T \in Parts : T \subseteq Below
        OBVIOUS
      <4> HIDE DEF Parts, Below
      <4> QED  BY <4>1, <2>1
    <3>2. FiniteSubsetsOf(0..some) = SUBSET (0..some)
      BY <2>1, FS_FiniteSubsetsOfFinite
    <3> HIDE DEF Parts
    <3> QED  BY <3>1, <3>2
  <2>4. Parts # {}
    <3>1. some \in Below
      BY <2>1
    <3> QED  BY <3>1
  <2>5. PICK T \in Parts : \A U \in Parts : <<U, T>> \notin R
    <3> HIDE DEF Parts, R
    <3> QED  BY <2>2, <2>3, <2>4, WFMin
  <2>6. PICK least \in Below : T = {k \in Below : k <= least}
    OBVIOUS
  <2>7. ASSUME NEW m \in S, ~(least <= m) PROVE FALSE
    <3>1. m \in Nat /\ least \in Nat /\ some \in Nat /\ least <= some /\ m < least
      BY <2>7
    <3>2. m \in Below
      BY <3>1
    <3> DEFINE U == {k \in Below : k <= m}
    <3>3. \A k \in U : k \in T
      <4>1. \A k \in U : k \in Nat /\ k \in Below /\ k <= least
        BY <3>1
      <4> QED  BY <4>1, <2>6
    <3>4. least \in T /\ least \notin U
      <4>1. least <= least /\ ~(least <= m)
        BY <3>1
      <4> QED  BY <4>1, <2>6
    <3>5. U \in Parts
      BY <3>2
    <3>6. U \subseteq 0..some /\ T \subseteq 0..some
      <4>1. U \subseteq Below /\ T \subseteq Below
        BY <2>6
      <4> HIDE DEF U, Below
      <4> QED  BY <4>1, <2>1
    <3>7. <<U, T>> \in R
      <4> HIDE DEF U
      <4> QED  BY <3>3, <3>4, <3>6 DEF StrictSubsetOrdering
    <3> QED  BY <2>5, <3>5, <3>7
  <2> QED  BY <2>6, <2>7
<1> QED  BY <1>1 DEF Min

(* One that holds less than the median of those it is among is passed by at  *)
(* least half of them.                                                       *)
LEMMA PoorerThanHalf ==
  ASSUME KeepingAssumption, NEW peers \in SUBSET Peers, NEW n \in peers,
         2 * Kismet[n] < TwiceMedian(peers)
  PROVE  2 * Cardinality(AtMost(peers, Kismet[n])) <= Cardinality(peers)
<1>1. IsFiniteSet(peers) /\ \A m \in peers : Kismet[m] \in Nat
  <2>1. IsFiniteSet(Peers) /\ \A m \in Peers : Kismet[m] \in Nat
    BY DEF KeepingAssumption
  <2> QED  BY <2>1, FS_Subset
<1>2. Cardinality(peers) \in Nat
  BY <1>1, FS_CardinalityType
<1>3. \A amount \in Nat : Cardinality(AtMost(peers, amount)) \in Nat
  <2>1. \A amount : AtMost(peers, amount) \subseteq peers
    BY DEF AtMost
  <2> QED  BY <2>1, <1>1, FS_Subset, FS_CardinalityType
<1>4. SUFFICES ASSUME Cardinality(peers) < 2 * Cardinality(AtMost(peers, Kismet[n])) PROVE FALSE
  BY <1>1, <1>2, <1>3
<1>5. Kismet[n] \in MostHold(peers)
  BY <1>4 DEF MostHold
<1>6. HalfHold(peers) \in SUBSET Nat /\ MostHold(peers) \in SUBSET HalfHold(peers)
  BY <1>1, <1>2, <1>3 DEF HalfHold, MostHold
<1>7. PICK low, high : low = Min(HalfHold(peers)) /\ high = Min(MostHold(peers))
  OBVIOUS
<1>8. low \in Nat /\ low <= Kismet[n]
  BY <1>5, <1>6, <1>7, LeastOfAmounts
<1>9. high \in Nat /\ high <= Kismet[n]
  <2>1. MostHold(peers) \in SUBSET Nat
    BY <1>6
  <2> QED  BY <1>5, <1>7, <2>1, LeastOfAmounts
<1>10. TwiceMedian(peers) = low + high
  BY <1>7 DEF TwiceMedian
<1> QED  BY <1>1, <1>8, <1>9, <1>10

LEMMA ClosesAPoorOne ==
  ASSUME KeepingAssumption, IInv, IInv', ClosesNone \/ \E n : ClosesOne(n)
  PROVE  ClosesFewAndPoor
<1> SUFFICES ASSUME NEW n \in Clients \cap Clients', uses'[n].closing, ~uses[n].closing
             PROVE  LET staying == {m \in Clients' : ~uses'[m].closing}
                        richer == {m \in staying : Kismet[m] > Kismet[n]}
                    IN /\ Cardinality(staying) >= KeepCount
                       /\ 2 * Cardinality(richer) >= Cardinality(staying) + 1
  BY DEF ClosesFewAndPoor
<1>1. ClosesOne(n)
  <2>1. PICK m : ClosesOne(m)
    BY DEF ClosesNone
  <2>2. m = n
    BY <2>1 DEF ClosesOne
  <2> QED  BY <2>1, <2>2
<1>2. PICK before, staying, poorer, richer :
        /\ before = Staying /\ staying = {m \in Clients' : ~uses'[m].closing}
        /\ poorer = AtMost(before, Kismet[n])
        /\ richer = {m \in staying : Kismet[m] > Kismet[n]}
  OBVIOUS
<1>3. before \subseteq Peers /\ n \in before
  BY <1>1, <1>2 DEF ClosesOne, Staying, IInv, CountsAre, Clients
<1>4. staying = before \ {n}
  BY <1>1, <1>2 DEF ClosesOne, Staying
<1>5. IsFiniteSet(before) /\ \A m \in before : Kismet[m] \in Nat
  <2>1. IsFiniteSet(Peers) /\ \A m \in Peers : Kismet[m] \in Nat
    BY DEF KeepingAssumption
  <2> QED  BY <2>1, <1>3, FS_Subset
<1>6. poorer \subseteq before /\ n \in poorer /\ richer = before \ poorer
  <2>1. \A m \in before : Kismet[m] > Kismet[n] <=> ~(Kismet[m] <= Kismet[n])
    BY <1>3, <1>5
  <2>2. Kismet[n] <= Kismet[n]
    BY <1>3, <1>5
  <2> QED  BY <1>2, <1>3, <1>4, <2>1, <2>2 DEF AtMost
<1>7. IsFiniteSet(poorer) /\ IsFiniteSet(richer) /\ Cardinality(poorer) \in Nat
      /\ Cardinality(richer) \in Nat /\ Cardinality(before) \in Nat
  <2>1. IsFiniteSet(poorer) /\ IsFiniteSet(richer)
    BY <1>5, <1>6, FS_Subset
  <2> QED  BY <1>5, <2>1, FS_CardinalityType
<1>8. Cardinality(before) = Cardinality(poorer) + Cardinality(richer)
  <2>1. before = poorer \cup richer /\ poorer \cap richer = {}
    BY <1>6
  <2>2. Cardinality(poorer \cup richer)
          = Cardinality(poorer) + Cardinality(richer) - Cardinality(poorer \cap richer)
    BY <1>7, FS_Union
  <2>3. Cardinality(poorer \cap richer) = 0
    BY <2>1, FS_EmptySet
  <2> QED  BY <2>1, <2>2, <2>3, <1>7
<1>9. Cardinality(staying) = Cardinality(before) - 1
  BY <1>3, <1>4, <1>5, FS_RemoveElement
<1>10. Cardinality(before) > KeepCount /\ 2 * Kismet[n] < TwiceMedian(before) /\ KeepCount \in Nat
  BY <1>1, <1>2 DEF ClosesOne, Closes, KeepingAssumption
<1>11. 2 * Cardinality(poorer) <= Cardinality(before)
  BY <1>2, <1>3, <1>10, PoorerThanHalf
<1>12. Cardinality(staying) >= KeepCount /\ 2 * Cardinality(richer) >= Cardinality(staying) + 1
  BY <1>7, <1>8, <1>9, <1>10, <1>11
<1> QED  BY <1>2, <1>12

-----------------------------------------------------------------------------
(* The server keeps its clients: whenever no list of peers is on its way     *)
(* out, the list last named, the uses kept and the counts are of exactly the *)
(* peers verified on a connection that is open, each counted once for each;  *)
(* and a step that lets a client be closed leaves as many as are to be kept, *)
(* half of them holding more than it (InboundPeers, ClientKeeping).          *)
THEOREM ServingClientsKept == Spec => ClientsKept
<1>1. Init => IInv
  BY InitIsCounted, ServingAssumption, KeepingAssumption
<1>2. IInv /\ [Next]_vars => IInv' /\ (NamedAsConnected' /\ ClosesFewAndPoor)
  <2> SUFFICES ASSUME IInv, [Next]_vars PROVE IInv' /\ NamedAsConnected' /\ ClosesFewAndPoor
    OBVIOUS
  <2>1. IInv' /\ (ClosesNone \/ \E n : ClosesOne(n))
    BY StepCounted, ServingAssumption
  <2>2. ClosesFewAndPoor
    BY <2>1, ClosesAPoorOne, KeepingAssumption
  <2>3. NamedAsConnected'
    BY <2>1 DEF IInv, LockIsTheirs, CountsAre, NamedAsConnected, Clients, Holders
  <2> QED  BY <2>1, <2>2, <2>3
<1>3. IInv /\ [Next]_vars => [NamedAsConnected' /\ ClosesFewAndPoor]_vars
  BY <1>2
<1>4. IInv /\ [Next]_vars => IInv'
  BY <1>2
<1> QED  BY <1>1, <1>3, <1>4, PTL DEF Spec, ClientsKept

-----------------------------------------------------------------------------
(* The values kept: what a thread read last is what is on disk whenever it   *)
(* is of the same version; a change is being made exactly while a thread has *)
(* the lock, and only of a file that can be read; and of additions only,     *)
(* what is kept is one larger than before, or is to be.                      *)

KeepsNumbers(values) == IsFiniteSet(DOMAIN values) /\ values \in [DOMAIN values -> Nat]

ReadIs ==
  /\ stored.version = 0 => stored.values = NoValues /\ stored.usable
  /\ lastRead.version = stored.version /\ stored.version # 0 =>
       lastRead.values = stored.values /\ stored.usable
ChangesAre ==
  /\ \A c \in Connections : At(c, "saving") <=> \E change \in changing : change.at = c
  /\ \A change \in changing : \A other \in changing : change = other
  /\ \A change \in changing : stored.usable
SizesAre ==
  OnlyAdds =>
    /\ made \in Nat
    /\ stored.usable => KeepsNumbers(stored.values) /\ Size(stored.values) = made
    /\ \A change \in changing : KeepsNumbers(change.values) /\ Size(change.values) = made + 1
StoreInv == ReadIs /\ ChangesAre /\ SizesAre

LEMMA KeptBytesFinite ==
  ASSUME NEW values, KeepsNumbers(values)
  PROVE  IsFiniteSet(KeptBytes(values)) /\ Size(values) \in Nat
<1> DEFINE Of(k) == {<<k, byte>> : byte \in 1..values[k]}
           All == {Of(k) : k \in DOMAIN values}
<1>1. ASSUME NEW k \in DOMAIN values PROVE IsFiniteSet(Of(k))
  <2>1. PICK n \in Nat : n = values[k]
    BY DEF KeepsNumbers
  <2>2. PICK S, T, f : S = 1..n /\ T = Of(k) /\ f = [byte \in 1..n |-> <<k, byte>>]
    OBVIOUS
  <2>3. IsFiniteSet(S)
    BY <2>1, <2>2, FS_Interval
  <2>4. f \in Surjection(S, T)
    BY <2>1, <2>2 DEF Surjection
  <2> QED  BY <2>2, <2>3, <2>4, FS_Surjection
<1>2. IsFiniteSet(All)
  <2>1. PICK S, f : S = DOMAIN values /\ f = [k \in S |-> Of(k)]
    OBVIOUS
  <2>2. f \in Surjection(S, All)
    <3> HIDE DEF Of
    <3> QED  BY <2>1 DEF Surjection
  <2>3. IsFiniteSet(S)
    BY <2>1 DEF KeepsNumbers
  <2> HIDE DEF All
  <2> QED  BY <2>2, <2>3, FS_Surjection
<1>3. \A T \in All : IsFiniteSet(T)
  <2> HIDE DEF Of
  <2> QED  BY <1>1
<1>4. IsFiniteSet(UNION All)
  <2> HIDE DEF All
  <2> QED  BY <1>2, <1>3, FS_UNION
<1>5. UNION All = KeptBytes(values)
  BY DEF KeptBytes
<1> QED  BY <1>4, <1>5, FS_CardinalityType DEF Size

LEMMA KeptByte ==
  ASSUME NEW values, NEW x
  PROVE  x \in KeptBytes(values) <=> \E k \in DOMAIN values : \E byte \in 1..values[k] : x = <<k, byte>>
<1> DEFINE Of(k) == {<<k, byte>> : byte \in 1..values[k]}
<1>1. x \in KeptBytes(values) <=> \E k \in DOMAIN values : x \in Of(k)
  <2>1. KeptBytes(values) = UNION {Of(k) : k \in DOMAIN values}
    BY DEF KeptBytes
  <2> HIDE DEF Of
  <2> QED  BY <2>1
<1>2. \A k : x \in Of(k) <=> \E byte \in 1..values[k] : x = <<k, byte>>
  OBVIOUS
<1> QED  BY <1>1, <1>2

(* A value one larger put in place of one makes what is kept one larger.     *)
LEMMA OneMoreKept ==
  ASSUME NEW values, KeepsNumbers(values), NEW key \in DOMAIN values,
         NEW put, put = [k \in DOMAIN put |-> put[k]], DOMAIN put = DOMAIN values,
         put[key] = values[key] + 1, \A k \in DOMAIN values : k # key => put[k] = values[k]
  PROVE  KeepsNumbers(put) /\ Size(put) = Size(values) + 1
<1>1. DOMAIN put = DOMAIN values /\ values[key] \in Nat /\ put[key] = values[key] + 1
      /\ \A k \in DOMAIN values : k # key => put[k] = values[k]
  BY DEF KeepsNumbers
<1>2. KeepsNumbers(put)
  <2>1. put = [k \in DOMAIN put |-> put[k]]
    OBVIOUS
  <2>2. \A k \in DOMAIN values : values[k] \in Nat
    BY DEF KeepsNumbers
  <2>3. \A k \in DOMAIN put : put[k] \in Nat
    BY <1>1, <2>2
  <2> QED  BY <1>1, <2>1, <2>3 DEF KeepsNumbers
<1>3. PICK n \in Nat : n = values[key]
  BY <1>1
<1>4. 1..(n + 1) = (1..n) \cup {n + 1}
  OBVIOUS
<1>5. PICK new : new = <<key, n + 1>>
  OBVIOUS
<1>6. KeptBytes(put) = KeptBytes(values) \cup {new}
  <2>1. ASSUME NEW x PROVE x \in KeptBytes(put) <=> x \in KeptBytes(values) \/ x = new
    <3> DEFINE Was(k) == \E byte \in 1..values[k] : x = <<k, byte>>
               Is(k) == \E byte \in 1..put[k] : x = <<k, byte>>
    <3>1. x \in KeptBytes(put) <=> \E k \in DOMAIN put : Is(k)
      BY KeptByte
    <3>2. x \in KeptBytes(values) <=> \E k \in DOMAIN values : Was(k)
      BY KeptByte
    <3>3. (\E byte \in 1..put[key] : x = <<key, byte>>)
            <=> (\E byte \in 1..values[key] : x = <<key, byte>>) \/ x = new
      <4>1. PICK S, T : S = 1..values[key] /\ T = 1..put[key]
        OBVIOUS
      <4>2. T = S \cup {n + 1}
        BY <1>1, <1>3, <1>4, <4>1
      <4>3. (\E byte \in T : x = <<key, byte>>) <=> (\E byte \in S : x = <<key, byte>>) \/ x = new
        BY <4>2, <1>5, Zenon
      <4> QED  BY <4>1, <4>3
    <3>4. \A k \in DOMAIN values : k # key =>
            ((\E byte \in 1..put[k] : x = <<k, byte>>) <=> (\E byte \in 1..values[k] : x = <<k, byte>>))
      BY <1>1
    <3>5. Is(key) <=> Was(key) \/ x = new
      BY <3>3
    <3>6. \A k \in DOMAIN values : k # key => (Is(k) <=> Was(k))
      BY <3>4
    <3> HIDE DEF Is, Was
    <3> QED  BY <1>1, <3>1, <3>2, <3>5, <3>6
  <2> QED  BY <2>1
<1>7. new \notin KeptBytes(values)
  <2>1. ASSUME new \in KeptBytes(values) PROVE FALSE
    <3>1. PICK k \in DOMAIN values : \E byte \in 1..values[k] : new = <<k, byte>>
      BY <2>1 DEF KeptBytes
    <3>2. PICK byte \in 1..values[k] : new = <<k, byte>>
      BY <3>1
    <3>3. k = key /\ byte = n + 1
      BY <3>2, <1>5
    <3> QED  BY <3>2, <3>3, <1>3
  <2> QED  BY <2>1
<1>8. IsFiniteSet(KeptBytes(values))
  BY KeptBytesFinite
<1>9. Cardinality(KeptBytes(values) \cup {new}) = Cardinality(KeptBytes(values)) + 1
  BY <1>7, <1>8, FS_AddElement
<1> QED  BY <1>2, <1>6, <1>9 DEF Size

LEMMA InitKeepsValues == ServingAssumption /\ Init => StoreInv
<1> SUFFICES ASSUME ServingAssumption, Init PROVE StoreInv
  OBVIOUS
<1>1. PICK start \in Starts : StoreInit(start.stored) /\ made = Size(start.stored.values)
  BY DEF Init
<1>2. PICK file : file = start.stored /\ IsStored(file)
  BY DEF ServingAssumption
<1>3. stored = file /\ lastRead = NothingRead /\ changing = {} /\ made = Size(file.values)
  BY <1>1, <1>2 DEF StoreInit
<1>4. ReadIs
  BY <1>2, <1>3 DEF ReadIs, NothingRead, IsStored, NoFile
<1>5. ChangesAre
  <2>1. \A c \in Connections : thread[c].pc \in {"reading", "closed"}
    BY DEF Init, NewThread
  <2> QED  BY <1>3, <2>1 DEF ChangesAre, At
<1>6. SizesAre
  <2>1. KeepsNumbers(file.values)
    BY <1>2 DEF IsStored, KeepsNumbers
  <2> QED  BY <1>3, <2>1, KeptBytesFinite DEF SizesAre
<1> QED  BY <1>4, <1>5, <1>6 DEF StoreInv

LEMMA SizesStay ==
  ASSUME SizesAre, UNCHANGED <<stored, changing, made, script>>
  PROVE  SizesAre'
<1>1. PICK file, some, n : file = stored /\ some = changing /\ n = made
  OBVIOUS
<1>2. /\ stored' = file /\ changing' = some /\ made' = n
      /\ OnlyAdds' <=> OnlyAdds
  BY <1>1 DEF OnlyAdds
<1>3. OnlyAdds =>
        /\ n \in Nat /\ (file.usable => KeepsNumbers(file.values) /\ Size(file.values) = n)
        /\ \A change \in some : KeepsNumbers(change.values) /\ Size(change.values) = n + 1
  BY <1>1 DEF SizesAre
<1> QED  BY <1>2, <1>3 DEF SizesAre

LEMMA StoreStays ==
  ASSUME StoreInv, UNCHANGED <<store, made, script>>,
         \A d \in Connections : At(d, "saving")' <=> At(d, "saving")
  PROVE  StoreInv'
<1>1. UNCHANGED <<stored, lastRead, changing>>
  BY DEF store
<1>3. SizesAre'
  BY <1>1, SizesStay DEF StoreInv
<1>4. ChangesAre'
  BY <1>1 DEF StoreInv, ChangesAre
<1>5. ReadIs'
  BY <1>1 DEF StoreInv, ReadIs, NoValues
<1> QED  BY <1>3, <1>4, <1>5 DEF StoreInv

LEMMA ReadsWhatIsStored ==
  ASSUME ReadIs
  PROVE  /\ Readable => stored.usable /\ Current = stored.values
         /\ lastRead' = ReadNow /\ UNCHANGED stored => ReadIs'
<1>1. Readable => stored.usable /\ Current = stored.values
  BY DEF ReadIs, Readable, Current
<1>2. ASSUME lastRead' = ReadNow, UNCHANGED stored PROVE ReadIs'
  <2>1. PICK now : now = ReadNow
    OBVIOUS
  <2>2. now.version = stored.version /\ stored.version # 0 => now.values = stored.values /\ stored.usable
    <3>1. CASE stored.version = 0
      BY <3>1
    <3>2. CASE stored.version # 0 /\ Readable
      BY <1>1, <2>1, <3>2 DEF ReadNow
    <3>3. CASE stored.version # 0 /\ ~Readable
      BY <2>1, <3>3 DEF ReadNow, ReadIs
    <3> QED  BY <3>1, <3>2, <3>3
  <2>3. lastRead' = now /\ stored' = stored
    BY <1>2, <2>1
  <2> QED  BY <2>2, <2>3 DEF ReadIs, NoValues
<1> QED  BY <1>1, <1>2

(* A step of a thread that neither looks into a change nor saves one.        *)
LEMMA NeverSaving ==
  ASSUME IInv, NEW c \in Connections, Serves(c), ~At(c, "looking"), ~At(c, "saving")
  PROVE  \A d \in Connections : At(d, "saving")' <=> At(d, "saving")
<1>1. ASSUME NEW u, thread' = [thread EXCEPT ![c] = u], u.pc # "saving"
      PROVE  \A d \in Connections : At(d, "saving")' <=> At(d, "saving")
  BY <1>1 DEF IInv, ThreadsAre, At
<1>2. CASE GoesOn(c)
  BY <1>1, <1>2 DEF GoesOn, GoesOnAs
<1>3. IsThread(thread[c])
  BY DEF IInv, ThreadsAre
<1>4. CASE Authenticates(c)
  <2>1. PICK u : /\ thread' = [thread EXCEPT ![c] = u]
                 /\ \/ u = Provisional(thread[c], Request(c).signer)
                    \/ u = Answered(thread[c], Closing(Response(401)))
                    \/ u = Verified(thread[c], Request(c).signer)
    BY <1>4 DEF Authenticates
  <2>2. u.pc # "saving"
    BY <1>3, <2>1 DEF Provisional, Answered, Verified, IsThread
  <2> QED  BY <1>1, <2>1, <2>2
<1>5. CASE CountsSigner(c)
  <2>1. PICK n, u :
          /\ thread' = [thread EXCEPT ![c] = u]
          /\ u = [thread[c] EXCEPT !.signers = thread[c].signers \cup {n}, !.then = "routing",
                         !.pc = IF n \in DOMAIN connections THEN "routing" ELSE "naming"]
    BY <1>5 DEF CountsSigner
  <2>2. u.pc # "saving"
    BY <1>3, <2>1 DEF IsThread
  <2> QED  BY <1>1, <2>1, <2>2
<1>6. CASE NamesPeers(c)
  <2>1. PICK u : thread' = [thread EXCEPT ![c] = u] /\ u = [thread[c] EXCEPT !.pc = thread[c].then]
    BY <1>6 DEF NamesPeers, Goes
  <2>2. u.pc # "saving"
    BY <1>3, <1>6, <2>1 DEF IsThread, NamesPeers, IInv, GoOnAs
  <2> QED  BY <1>1, <2>1, <2>2
<1>7. CASE Finishes(c)
  <2>1. PICK u :
          /\ thread' = [thread EXCEPT ![c] = u]
          /\ \/ u = [NewThread EXCEPT !.pc = "closed"]
             \/ \E n : u = [thread[c] EXCEPT !.signers = thread[c].signers \ {n}, !.then = "finishing",
                                             !.pc = IF connections[n] > 1 THEN "finishing" ELSE "naming"]
    BY <1>7 DEF Finishes
  <2>2. u.pc # "saving"
    BY <1>3, <2>1 DEF IsThread, NewThread
  <2> QED  BY <1>1, <2>1, <2>2
<1> QED
  BY <1>2, <1>4, <1>5, <1>6, <1>7, HeadsGoOn, ContentGoesOn, ListsGoOn, ValuesGoOn, FilesGoOn,
     SendingGoesOn, TakesUploadCounted, CountsAnswerCounted DEF Serves

(* A thread that answers, or goes to save, takes none of the others there.   *)
LEMMA OnlyItsSaving ==
  ASSUME IInv, NEW c \in Connections
  PROVE  /\ \A response : Answers(c, response) =>
              /\ ~At(c, "saving")'
              /\ \A d \in Connections \ {c} : At(d, "saving")' <=> At(d, "saving")
         /\ Goes(c, "saving") =>
              /\ At(c, "saving")'
              /\ \A d \in Connections \ {c} : At(d, "saving")' <=> At(d, "saving")
<1>1. IsThread(thread[c]) /\ DOMAIN thread = Connections
  BY DEF IInv, ThreadsAre
<1>2. ASSUME NEW response, Answers(c, response)
      PROVE  /\ ~At(c, "saving")'
             /\ \A d \in Connections \ {c} : At(d, "saving")' <=> At(d, "saving")
  <2>1. PICK u : u = Answered(thread[c], response) /\ thread' = [thread EXCEPT ![c] = u]
    BY <1>2 DEF Answers
  <2>2. u.pc = "serving"
    BY <1>1, <2>1 DEF Answered, IsThread
  <2> QED  BY <1>1, <2>1, <2>2 DEF At
<1>3. ASSUME Goes(c, "saving")
      PROVE  /\ At(c, "saving")'
             /\ \A d \in Connections \ {c} : At(d, "saving")' <=> At(d, "saving")
  <2>1. PICK u : u = [thread[c] EXCEPT !.pc = "saving"] /\ thread' = [thread EXCEPT ![c] = u]
    BY <1>3 DEF Goes
  <2>2. u.pc = "saving"
    BY <1>1, <2>1 DEF IsThread
  <2> QED  BY <1>1, <2>1, <2>2 DEF At
<1> QED  BY <1>2, <1>3

LEMMA LooksIntoKept ==
  ASSUME IInv, StoreInv, NEW c \in Connections, LooksIntoChange(c)
  PROVE  StoreInv' /\ UNCHANGED stored
<1>1. At(c, "looking") /\ ~At(c, "saving") /\ UNCHANGED <<script, made>>
  BY DEF LooksIntoChange, At, Quiet
<1>2. OnlyAdds' <=> OnlyAdds
  BY <1>1 DEF OnlyAdds
<1>3. ASSUME UNCHANGED store, NEW response, Answers(c, response)
      PROVE  StoreInv' /\ UNCHANGED stored
  <2>1. \A d \in Connections : At(d, "saving")' <=> At(d, "saving")
    BY <1>1, <1>3, OnlyItsSaving
  <2> QED  BY <1>1, <1>3, <2>1, StoreStays DEF store
<1>4. ASSUME NEW status, NEW values, NEW saved, LooksFor(c, status, values, saved),
             status = 0 => Readable,
             OnlyAdds /\ status = 0 => KeepsNumbers(values) /\ Size(values) = Size(stored.values) + 1
      PROVE  StoreInv' /\ UNCHANGED stored
  <2>1. lastRead' = ReadNow /\ UNCHANGED stored /\ changing = {}
        /\ changing' = IF status = 0 THEN {[at |-> c, values |-> values, saved |-> saved]} ELSE {}
    BY <1>4 DEF LooksFor, LooksInto, StoreFree
  <2>2. ReadIs'
    BY <2>1, ReadsWhatIsStored DEF StoreInv
  <2>3. \A d \in Connections : ~At(d, "saving")
    BY <2>1 DEF StoreInv, ChangesAre
  <2>4. CASE status # 0
    <3>1. \E response : Answers(c, response)
      BY <1>4, <2>4 DEF LooksFor
    <3>2. \A d \in Connections : ~At(d, "saving")'
      BY <3>1, <2>3, OnlyItsSaving
    <3>3. ChangesAre' /\ changing' = {}
      BY <2>1, <2>4, <3>2 DEF ChangesAre
    <3>4. SizesAre'
      BY <1>1, <1>2, <2>1, <3>3 DEF StoreInv, SizesAre, KeepsNumbers, Size, KeptBytes
    <3> QED  BY <2>1, <2>2, <3>3, <3>4 DEF StoreInv
  <2>5. CASE status = 0
    <3>1. Goes(c, "saving") /\ stored.usable
      BY <1>4, <2>5, ReadsWhatIsStored DEF LooksFor, StoreInv
    <3>2. At(c, "saving")' /\ \A d \in Connections \ {c} : ~At(d, "saving")'
      BY <3>1, <2>3, OnlyItsSaving
    <3>3. PICK change : change = [at |-> c, values |-> values, saved |-> saved]
      OBVIOUS
    <3>4. changing' = {change} /\ change.at = c /\ change.values = values
      BY <2>1, <2>5, <3>3
    <3>5. ChangesAre'
      BY <2>1, <3>1, <3>2, <3>4 DEF ChangesAre
    <3>6. SizesAre'
      <4>1. ASSUME OnlyAdds
            PROVE  /\ made \in Nat /\ KeepsNumbers(stored.values) /\ Size(stored.values) = made
                   /\ KeepsNumbers(values) /\ Size(values) = made + 1
        BY <4>1, <1>4, <2>5, <3>1 DEF StoreInv, SizesAre
      <4> QED  BY <1>1, <1>2, <2>1, <3>4, <4>1 DEF SizesAre, KeepsNumbers, Size, KeptBytes
    <3> QED  BY <2>1, <2>2, <3>5, <3>6 DEF StoreInv
  <2> QED  BY <2>4, <2>5
<1>5. PICK request, k : request = Request(c) /\ k = thread[c].at /\ k \in DOMAIN script[c]
  BY <1>1 DEF IInv, AskedAre, At, Asking
<1>6. request.route = script[c][k].route
  <2>1. PICK asked, read : asked = script[c][k] /\ read = answers[c][asked.of].value
    OBVIOUS
  <2>2. asked \in Requests
    <3>1. script[c] \in Seq(Requests)
      BY DEF IInv, WiresAre
    <3> QED  BY <1>5, <2>1, <3>1, ElementOfSeq
  <2>3. request = IF asked.of = 0 THEN asked
                  ELSE [asked EXCEPT !.match = [kind |-> "tag", tag |-> read], !.value = read + 1]
    BY <1>5, <2>1 DEF Request, Asked
  <2> QED  BY <2>1, <2>2, <2>3 DEF Requests
<1>7. ASSUME OnlyAdds
      PROVE  /\ request.route # "drop"
             /\ request.route = "change" =>
                  request.match.kind = "tag" /\ request.value = request.match.tag + 1
  <2>1. PICK asked, read : asked = script[c][k] /\ read = answers[c][asked.of].value
    OBVIOUS
  <2>2. asked \in Requests
    <3>1. script[c] \in Seq(Requests)
      BY DEF IInv, WiresAre
    <3> QED  BY <1>5, <2>1, <3>1, ElementOfSeq
  <2>3. request = IF asked.of = 0 THEN asked
                  ELSE [asked EXCEPT !.match = [kind |-> "tag", tag |-> read], !.value = read + 1]
    BY <1>5, <2>1 DEF Request, Asked
  <2>4. asked.route # "drop" /\ (asked.route = "change" => asked.of # 0)
    BY <1>5, <1>7, <2>1 DEF OnlyAdds
  <2> QED  BY <1>6, <2>1, <2>2, <2>3, <2>4 DEF Requests
<1>8. CASE \E response : Answers(c, response) /\ UNCHANGED store
  BY <1>3, <1>8
<1>9. CASE /\ request.route = "change"
           /\ LooksFor(c, PutStatus(request.match, request.key), PutValues(request.key, request.value),
                       IF Held(request.key) THEN 204 ELSE 201)
  <2>1. PICK status, values : /\ status = PutStatus(request.match, request.key)
                              /\ values = PutValues(request.key, request.value)
    OBVIOUS
  <2>2. status = 0 => Readable /\ Matches(request.match, request.key)
    BY <2>1 DEF PutStatus
  <2>3. ASSUME OnlyAdds, status = 0
        PROVE  KeepsNumbers(values) /\ Size(values) = Size(stored.values) + 1
    <3>1. stored.usable /\ Current = stored.values
      BY <2>2, <2>3, ReadsWhatIsStored DEF StoreInv
    <3>2. PICK old, key : old = stored.values /\ key = request.key
      OBVIOUS
    <3>3. KeepsNumbers(old)
      BY <2>3, <3>1, <3>2 DEF StoreInv, SizesAre
    <3>4. key \in DOMAIN old /\ old[key] = request.match.tag
      BY <1>7, <1>9, <2>2, <2>3, <3>1, <3>2 DEF Matches, Held
    <3>5. values = [x \in DOMAIN old \cup {key} |-> IF x = key THEN old[key] + 1 ELSE old[x]]
      BY <1>7, <1>9, <2>1, <2>3, <3>1, <3>2, <3>4 DEF PutValues
    <3>6. /\ values = [x \in DOMAIN values |-> values[x]] /\ DOMAIN values = DOMAIN old
          /\ values[key] = old[key] + 1 /\ \A x \in DOMAIN old : x # key => values[x] = old[x]
      BY <3>4, <3>5
    <3> QED  BY <3>2, <3>3, <3>4, <3>6, OneMoreKept
  <2> QED  BY <1>4, <1>9, <2>1, <2>2, <2>3
<1>10. CASE /\ request.route = "drop"
            /\ LooksFor(c, RemovalStatus(request.match, request.key), ValuesLess(request.key), 204)
  <2>1. PICK status : status = RemovalStatus(request.match, request.key)
    OBVIOUS
  <2>2. status = 0 => Readable
    BY <2>1 DEF RemovalStatus
  <2>3. ~OnlyAdds
    BY <1>7, <1>10
  <2> QED  BY <1>4, <1>10, <2>1, <2>2, <2>3
<1> QED  BY <1>5, <1>8, <1>9, <1>10 DEF LooksIntoChange

LEMMA SavesKept ==
  ASSUME ServingAssumption, IInv, StoreInv, NEW c \in Connections, SavesChange(c)
  PROVE  StoreInv' /\ stored.usable
<1>1. PICK change : changing = {change} /\ change.at = c /\ stored.usable
  BY DEF SavesChange, StoreInv, ChangesAre
<1>2. ChangeOf(c) = change
  BY <1>1 DEF ChangeOf
<1>3. changing' = {} /\ UNCHANGED script
  BY <1>1, <1>2 DEF SavesChange, Saves, Refuses, SaveFails, Ends, wires
<1>4. OnlyAdds' <=> OnlyAdds
  BY <1>3 DEF OnlyAdds
<1>5. \E response : Answers(c, response)
  BY DEF SavesChange
<1>6. \A d \in Connections : ~At(d, "saving")'
  BY <1>1, <1>5, OnlyItsSaving DEF StoreInv, ChangesAre
<1>7. ChangesAre'
  BY <1>3, <1>6 DEF ChangesAre
<1>8. CASE UNCHANGED <<stored, lastRead, made>>
  <2>1. ReadIs'
    BY <1>8 DEF StoreInv, ReadIs, NoValues
  <2>2. SizesAre'
    BY <1>3, <1>4, <1>8 DEF StoreInv, SizesAre, KeepsNumbers, Size, KeptBytes
  <2> QED  BY <1>1, <1>7, <2>1, <2>2 DEF StoreInv
<1>9. ASSUME NEW version \in Versions, Saves(c, version), made' = made + 1
      PROVE  StoreInv' /\ stored.usable
  <2>1. PICK file : stored' = file /\ file = IF change.values = NoValues THEN NoFile
                                             ELSE File(version, change.values)
    BY <1>2, <1>9 DEF Saves
  <2>2. file.values = change.values /\ file.usable = TRUE /\ (file.version = 0 => file.values = NoValues)
    BY <2>1 DEF NoFile, File, ServingAssumption
  <2>3. lastRead'.version = 0
    BY <1>9 DEF Saves, NothingRead
  <2>4. ReadIs'
    BY <2>1, <2>2, <2>3 DEF ReadIs, NoValues
  <2>5. SizesAre'
    <3>1. ASSUME OnlyAdds PROVE made \in Nat /\ KeepsNumbers(change.values) /\ Size(change.values) = made + 1
      BY <3>1, <1>1 DEF StoreInv, SizesAre
    <3>2. PICK values, n : values = change.values /\ n = made + 1
      OBVIOUS
    <3>3. OnlyAdds => n \in Nat /\ KeepsNumbers(values) /\ Size(values) = n
      BY <3>1, <3>2
    <3>4. stored' = file /\ file.values = values /\ made' = n /\ changing' = {}
      BY <1>3, <1>9, <2>1, <2>2, <3>2
    <3> QED  BY <1>4, <3>3, <3>4 DEF SizesAre
  <2> QED  BY <1>1, <1>7, <2>4, <2>5 DEF StoreInv
<1> QED  BY <1>8, <1>9 DEF SavesChange, Refuses, SaveFails

LEMMA StepKeepsValues ==
  ASSUME ServingAssumption, IInv, StoreInv, [Next]_vars
  PROVE  StoreInv' /\ (~stored.usable => UNCHANGED stored)
<1>1. ASSUME UNCHANGED <<store, made, script>>,
             \A d \in Connections : At(d, "saving")' <=> At(d, "saving")
      PROVE  StoreInv' /\ UNCHANGED stored
  BY <1>1, StoreStays DEF store
<1>2. ASSUME NEW c \in Connections, Serves(c)
      PROVE  StoreInv' /\ (~stored.usable => UNCHANGED stored)
  <2>1. CASE LooksIntoChange(c)
    BY <2>1, LooksIntoKept
  <2>2. CASE SavesChange(c)
    BY <2>2, SavesKept
  <2>3. CASE ~LooksIntoChange(c) /\ ~SavesChange(c)
    <3>1. ~At(c, "looking") /\ ~At(c, "saving")
      BY <1>2, <2>3
      DEF Serves, At, ReadsHead, ReadsEnd, ReadsBody, BodyEnds, Authenticates, CountsSigner,
          NamesPeers, FindsNoRoute, ReadsData, ReadsUpload, TakesUpload, ReadsList, TakesList,
          GivesList, ReadsValues, ChecksChange, StartsFile, ChecksPart, AsksAhead, FetchesPart,
          MissesPart, CountsAnswer, SendsAnswer, Finishes, Routed
    <3>2. \A d \in Connections : At(d, "saving")' <=> At(d, "saving")
      BY <1>2, <3>1, NeverSaving
    <3>3. UNCHANGED <<made, script>> /\ (UNCHANGED store \/ Reads)
      BY <1>2, <2>3
      DEF Serves, ReadsHead, ReadsEnd, ReadsBody, BodyEnds, Authenticates, CountsSigner,
          NamesPeers, FindsNoRoute, ReadsData, ReadsUpload, TakesUpload, ReadsList, TakesList,
          GivesList, ReadsValues, ChecksChange, StartsFile, ChecksPart, AsksAhead, FetchesPart,
          MissesPart, CountsAnswer, SendsAnswer, Finishes, Quiet, wires
    <3>4. CASE Reads
      <4>1. lastRead' = ReadNow /\ UNCHANGED <<stored, changing, made, script>>
        BY <3>3, <3>4 DEF Reads
      <4>2. ReadIs'
        BY <4>1, ReadsWhatIsStored DEF StoreInv
      <4>3. ChangesAre'
        BY <4>1, <3>2 DEF StoreInv, ChangesAre
      <4>4. SizesAre'
        BY <4>1, SizesStay DEF StoreInv
      <4> QED  BY <4>1, <4>2, <4>3, <4>4 DEF StoreInv
    <3> QED  BY <1>1, <3>2, <3>3, <3>4
  <2> QED  BY <2>1, <2>2, <2>3
<1>3. CASE UNCHANGED <<script, thread, store, made>>
  BY <1>1, <1>3 DEF At
<1>4. ASSUME NEW c \in Connections, Sends(c) \/ Leaves(c)
      PROVE  UNCHANGED <<script, thread, store, made>>
  BY <1>4 DEF Sends, Leaves
<1>5. ASSUME NEW x \in Content, Arrives(x) \/ Shuns(x) \/ Deletes(x) \/ Misses(x)
      PROVE  UNCHANGED <<script, thread, store, made>>
  BY <1>5 DEF Arrives, Shuns, Deletes, Misses, Others, wires
<1>6. CASE Derives
  BY <1>3, <1>6 DEF Derives, Others, wires
<1>7. CASE Tick
  <2>1. UNCHANGED <<script, store, made>>
        /\ thread' = [d \in Connections |-> IF Waiting(thread[d]) THEN Later(thread[d]) ELSE thread[d]]
    BY <1>7 DEF Tick, wires
  <2>2. ASSUME NEW d \in Connections PROVE At(d, "saving")' <=> At(d, "saving")
    <3>1. PICK t, u : t = thread[d] /\ u = Later(t) /\ IsThread(t)
      BY DEF IInv, ThreadsAre
    <3>2. CASE Waiting(t)
      <4>1. u.pc \in {"part", "asking", "fetching"} /\ t.pc # "saving"
        BY <3>1, <3>2 DEF Later, IsThread, Waiting
      <4>2. thread'[d] = u
        BY <2>1, <3>1, <3>2
      <4> QED  BY <3>1, <4>1, <4>2 DEF At
    <3>3. CASE ~Waiting(t)
      BY <2>1, <3>1, <3>3 DEF At
    <3> QED  BY <3>2, <3>3
  <2> QED  BY <1>1, <2>1, <2>2
<1>8. CASE UNCHANGED vars
  BY <1>3, <1>8 DEF vars, wires
<1> QED  BY <1>2, <1>3, <1>4, <1>5, <1>6, <1>7, <1>8 DEF Next, AllClosed

(* No change of what an application keeps is lost: where every one is an     *)
(* addition to a value read, and says so, the values kept are as large as    *)
(* the additions answered make them; and a file that cannot be read is never *)
(* replaced (ApplicationStore, under its lock).                              *)
THEOREM ServingNoneOverwritten == Spec => NoneOverwritten
<1>1. Init => IInv /\ StoreInv
  BY InitIsCounted, InitKeepsValues, ServingAssumption, KeepingAssumption
<1>2. IInv /\ StoreInv /\ [Next]_vars => IInv' /\ StoreInv' /\ (~stored.usable => UNCHANGED stored)
  BY StepCounted, StepKeepsValues, ServingAssumption
<1>3. StoreInv => AsManyAsAdded
  BY DEF StoreInv, SizesAre, AsManyAsAdded
<1>4. StoreInv' => AsManyAsAdded'
  BY DEF StoreInv, SizesAre, AsManyAsAdded
<1>5. IInv /\ StoreInv /\ [Next]_vars => [AsManyAsAdded' /\ (~stored.usable => UNCHANGED stored)]_vars
  BY <1>2, <1>4
<1>6. IInv /\ StoreInv /\ [Next]_vars => (IInv /\ StoreInv)'
  BY <1>2
<1> QED  BY <1>1, <1>5, <1>6, PTL DEF Spec, NoneOverwritten

-----------------------------------------------------------------------------
(* What a client reads, in turn.  The items on a wire follow one another as  *)
(* they were sent, from the one the thread awaits: a body, while it has not  *)
(* read that of the request it is at.  All answers but the last are whole    *)
(* and leave the connection open; a thread is one answer behind the request  *)
(* it is at, except between requests and while it streams the answer; and    *)
(* one that ends, of a client that stays, has said so or was cut short.      *)

Fields == {"pc", "at", "then", "signers", "read", "response", "stream", "telling", "kept"}
IsWholeThread(t) == Fields \subseteq DOMAIN t /\ "sending" \in DOMAIN t.stream
IsSequence(s) == Len(s) \in Nat /\ s = [i \in 1..Len(s) |-> s[i]]
IsAnswer(a) == {"to", "close", "done", "bytes"} \subseteq DOMAIN a

Fetching == {"part", "asking", "fetching", "pausing"}
Ending(t) == t.pc \in {"finishing", "closed"} \/ (t.pc = "naming" /\ t.then = "finishing")
Streams(t) == t.pc \in Fetching /\ t.stream.sending
Prepares(t) == t.pc # "reading" /\ ~Ending(t) /\ ~Streams(t)

HeadOf(k) == [kind |-> "head", of |-> k]
BodyOf(k) == [kind |-> "body", of |-> k]
Awaited(t) == IF t.read THEN HeadOf(t.at + 1) ELSE BodyOf(t.at)
ItemAfter(item, s) ==
  IF item.kind = "head" /\ s[item.of].body # "none" THEN BodyOf(item.of) ELSE HeadOf(item.of + 1)
ItemAt(t, w, s, i) == IF i = 1 THEN Awaited(t) ELSE ItemAfter(w[i - 1], s)
WireOfTurn(t, w, k, g, s) ==
  /\ \A i \in 1..Len(w) : w[i] = ItemAt(t, w, s, i)
  /\ ~g => HeadOf(k + 1) = ItemAt(t, w, s, Len(w) + 1)

Whole(a, n) == \A i \in 1..n : a[i].done /\ ~a[i].close
SaidSo(a) == a # <<>> /\ (a[Len(a)].close \/ ~a[Len(a)].done)
AnswersOfTurn(t, a, g) ==
  /\ IsSequence(a) /\ \A i \in 1..Len(a) : IsAnswer(a[i]) /\ a[i].to = i
  /\ Whole(a, Len(a) - 1)
  /\ t.pc = "reading" => t.at = Len(a) /\ t.read /\ Whole(a, Len(a))
  /\ Prepares(t) => t.at = Len(a) + 1 /\ Whole(a, Len(a))
  /\ Streams(t) => t.at = Len(a) /\ SaidSo(a) /\ ~a[Len(a)].done /\ (a[Len(a)].close \/ t.read)
  /\ Ending(t) => g \/ SaidSo(a)

OfTurn(t, w, a, k, g, s) ==
  /\ IsWholeThread(t) /\ (t.pc = "body" => ~t.read)
  /\ AnswersOfTurn(t, a, g)
  /\ ~Ending(t) => WireOfTurn(t, w, k, g, s)
TurnInv ==
  /\ DOMAIN gone = Connections
  /\ \A c \in Connections : OfTurn(thread[c], wire[c], answers[c], sent[c], gone[c], script[c])

LEMMA SequenceIsSeq ==
  ASSUME NEW s, IsSequence(s)
  PROVE  s \in Seq({s[i] : i \in 1..Len(s)})
<1>1. PICK n \in Nat : n = Len(s) /\ s = [i \in 1..n |-> s[i]]
  BY DEF IsSequence
<1> QED  BY <1>1, SeqDef

LEMMA SeqIsSequence ==
  ASSUME NEW S, NEW s \in Seq(S)
  PROVE  IsSequence(s)
BY LenProperties DEF IsSequence

LEMMA Appended ==
  ASSUME NEW s, IsSequence(s), NEW x
  PROVE  /\ IsSequence(Append(s, x)) /\ Len(Append(s, x)) = Len(s) + 1
         /\ \A i \in 1..Len(s) : Append(s, x)[i] = s[i]
         /\ Append(s, x)[Len(s) + 1] = x
<1>1. PICK S : s \in Seq(S) /\ x \in S
  <2>1. PICK T : T = {s[i] : i \in 1..Len(s)} /\ s \in Seq(T)
    BY SequenceIsSeq
  <2>2. s \in Seq(T \cup {x})
    BY <2>1, SeqMonotonic
  <2> QED  BY <2>2
<1>2. PICK longer : longer = Append(s, x) /\ longer \in Seq(S)
  BY <1>1, AppendProperties
<1>3. IsSequence(longer)
  BY <1>2, SeqIsSequence
<1> QED  BY <1>1, <1>2, <1>3, AppendProperties

(* The last of a sequence put anew.                                          *)
LEMMA LastPut ==
  ASSUME NEW s, IsSequence(s), s # <<>>, NEW x, NEW b, b = Append(Front(s), x)
  PROVE  /\ IsSequence(b) /\ Len(b) = Len(s)
         /\ \A i \in 1..(Len(s) - 1) : b[i] = s[i]
         /\ b[Len(s)] = x
<1>1. PICK n \in Nat : n = Len(s)
  BY DEF IsSequence
<1>2. n # 0
  BY <1>1, SequenceIsSeq, EmptySeq
<1>3. PICK S : s \in Seq(S) /\ \A i \in 1..n : s[i] \in S
  BY <1>1, SequenceIsSeq, ElementOfSeq
<1>4. PICK front : /\ front = Front(s) /\ front \in Seq(S) /\ Len(front) = n - 1
                   /\ \A i \in 1..(n - 1) : front[i] = s[i]
  <2>1. 1 \in Int /\ n - 1 \in Int /\ \A i \in 1..(n - 1) : s[i] \in S
    BY <1>3
  <2>2. PICK front : front = SubSeq(s, 1, n - 1)
    OBVIOUS
  <2>3. front \in Seq(S) /\ Len(front) = n - 1 /\ \A i \in 1..(n - 1) : front[i] = s[i]
    BY <1>2, <2>1, <2>2, SubSeqProperties
  <2> QED  BY <1>1, <2>2, <2>3 DEF Front
<1>5. IsSequence(front)
  BY <1>4, SeqIsSequence
<1> QED  BY <1>1, <1>4, <1>5, Appended

(* Two items one after another are read: the first, and those that follow.   *)
LEMMA TailOfWire ==
  ASSUME NEW S, NEW w \in Seq(S), w # <<>>
  PROVE  /\ Len(Tail(w)) = Len(w) - 1 /\ Len(w) - 1 \in Nat
         /\ \A i \in 1..(Len(w) - 1) : Tail(w)[i] = w[i + 1]
         /\ w[1] = Head(w) /\ w[1] \in S
<1>1. Len(w) \in Nat /\ Len(w) # 0
  BY EmptySeq, LenProperties
<1>2. Len(Tail(w)) = Len(w) - 1 /\ \A i \in 1..Len(Tail(w)) : Tail(w)[i] = w[i + 1]
  BY HeadTailProperties
<1> QED  BY <1>1, <1>2, HeadTailProperties, ElementOfSeq DEF Head

-----------------------------------------------------------------------------
(* A thread goes on with the request it is at, or ends.                      *)

StillAt(t, u) ==
  /\ IsWholeThread(u) /\ u.at = t.at /\ u.read = t.read /\ (u.pc = "body" => ~u.read)
Prepared(t, u) == StillAt(t, u) /\ Prepares(u)
Continues(t, u) ==
  /\ StillAt(t, u)
  /\ (Prepares(t) /\ Prepares(u)) \/ (Streams(t) /\ Streams(u)) \/ (Ending(t) /\ Ending(u))

LEMMA ContinuesOfTurn ==
  ASSUME NEW t, NEW w, NEW a, NEW k, NEW g, NEW s, OfTurn(t, w, a, k, g, s),
         NEW u, Continues(t, u)
  PROVE  OfTurn(u, w, a, k, g, s)
<1>1. \/ Prepares(u) /\ ~Streams(u) /\ ~Ending(u) /\ Prepares(t)
      \/ Streams(u) /\ ~Prepares(u) /\ ~Ending(u) /\ Streams(t)
      \/ Ending(u) /\ ~Prepares(u) /\ ~Streams(u) /\ Ending(t)
  BY DEF Continues, Prepares, Streams, Ending, Fetching
<1>2. u.pc # "reading" /\ (Ending(t) <=> Ending(u))
  BY <1>1 DEF Prepares, Streams, Ending, Fetching
<1>3. u.at = t.at /\ u.read = t.read
  BY DEF Continues, StillAt
<1>4. AnswersOfTurn(u, a, g)
  BY <1>1, <1>2, <1>3 DEF OfTurn, AnswersOfTurn
<1>5. ~Ending(u) => WireOfTurn(u, w, k, g, s)
  BY <1>2, <1>3 DEF OfTurn, WireOfTurn, ItemAt, Awaited
<1> QED  BY <1>4, <1>5 DEF OfTurn, Continues, StillAt

LEMMA EndsOfTurn ==
  ASSUME NEW t, NEW w, NEW a, NEW k, NEW g, NEW s, OfTurn(t, w, a, k, g, s), g \/ SaidSo(a),
         NEW u, IsWholeThread(u), Ending(u)
  PROVE  OfTurn(u, w, a, k, g, s)
<1>1. u.pc \notin {"reading", "body"} /\ ~Prepares(u) /\ ~Streams(u)
  BY DEF Prepares, Streams, Ending, Fetching
<1> QED  BY <1>1 DEF OfTurn, AnswersOfTurn

(* A head is read: that of the next request, and never a body.               *)
LEMMA HeadOfTurn ==
  ASSUME NEW t, NEW T, NEW w \in Seq(T), NEW a, NEW k, NEW g, NEW s, OfTurn(t, w, a, k, g, s),
         t.pc = "reading", w # <<>>
  PROVE  /\ Head(w) = HeadOf(t.at + 1)
         /\ \A u : /\ IsWholeThread(u) /\ Prepares(u) /\ (u.pc = "body" => ~u.read)
                   /\ u.at = t.at + 1 /\ (u.read <=> s[u.at].body = "none")
                   => OfTurn(u, Tail(w), a, k, g, s)
<1>1. ~Ending(t) /\ t.at = Len(a) /\ t.read /\ Whole(a, Len(a)) /\ WireOfTurn(t, w, k, g, s)
  BY DEF OfTurn, AnswersOfTurn, Ending
<1>2. PICK n \in Nat : /\ n = Len(Tail(w)) /\ Len(w) = n + 1
                       /\ \A i \in 1..n : Tail(w)[i] = w[i + 1]
                       /\ w[1] = Head(w)
  <2>1. Len(w) \in Nat
    BY LenProperties
  <2>2. PICK n \in Nat : n = Len(w) - 1
    BY TailOfWire
  <2> QED  BY <2>1, <2>2, TailOfWire
<1>3. Head(w) = HeadOf(t.at + 1)
  <2>1. w[1] = ItemAt(t, w, s, 1)
    BY <1>1, <1>2 DEF WireOfTurn
  <2> QED  BY <1>1, <1>2, <2>1 DEF ItemAt, Awaited
<1>4. ASSUME NEW u, IsWholeThread(u), Prepares(u), u.pc = "body" => ~u.read,
             u.at = t.at + 1, u.read <=> s[u.at].body = "none"
      PROVE  OfTurn(u, Tail(w), a, k, g, s)
  <2>1. u.pc # "reading" /\ ~Ending(u) /\ ~Streams(u)
    BY <1>4 DEF Prepares
  <2>2. AnswersOfTurn(u, a, g)
    BY <1>1, <1>4, <2>1 DEF OfTurn, AnswersOfTurn
  <2>3. Awaited(u) = ItemAfter(w[1], s)
    BY <1>2, <1>3, <1>4 DEF Awaited, ItemAfter, HeadOf
  <2>4. \A i \in 1..(n + 1) : ItemAt(u, Tail(w), s, i) = ItemAt(t, w, s, i + 1)
    BY <1>2, <2>3 DEF ItemAt
  <2>5. WireOfTurn(u, Tail(w), k, g, s)
    BY <1>1, <1>2, <2>4 DEF WireOfTurn
  <2> QED  BY <1>4, <2>2, <2>5 DEF OfTurn
<1> QED  BY <1>3, <1>4

LEMMA BodyOfTurn ==
  ASSUME NEW t, NEW T, NEW w \in Seq(T), NEW a, NEW k, NEW g, NEW s, OfTurn(t, w, a, k, g, s),
         t.pc = "body", w # <<>>,
         NEW u, IsWholeThread(u), Prepares(u), u.pc # "body", u.at = t.at, u.read = TRUE
  PROVE  OfTurn(u, Tail(w), a, k, g, s)
<1>1. ~Ending(t) /\ Prepares(t) /\ ~t.read /\ WireOfTurn(t, w, k, g, s)
  BY DEF OfTurn, Ending, Prepares, Streams, Fetching
<1>2. PICK n \in Nat : /\ n = Len(Tail(w)) /\ Len(w) = n + 1
                       /\ \A i \in 1..n : Tail(w)[i] = w[i + 1]
  <2>1. Len(w) \in Nat
    BY LenProperties
  <2>2. PICK n \in Nat : n = Len(w) - 1
    BY TailOfWire
  <2> QED  BY <2>1, <2>2, TailOfWire
<1>3. w[1] = BodyOf(t.at)
  <2>1. w[1] = ItemAt(t, w, s, 1)
    BY <1>1, <1>2 DEF WireOfTurn
  <2> QED  BY <1>1, <2>1 DEF ItemAt, Awaited
<1>4. Awaited(u) = ItemAfter(w[1], s)
  BY <1>3 DEF Awaited, ItemAfter, BodyOf
<1>5. \A i \in 1..(n + 1) : ItemAt(u, Tail(w), s, i) = ItemAt(t, w, s, i + 1)
  BY <1>2, <1>4 DEF ItemAt
<1>6. WireOfTurn(u, Tail(w), k, g, s)
  BY <1>1, <1>2, <1>5 DEF WireOfTurn
<1>7. AnswersOfTurn(u, a, g)
  BY <1>1 DEF OfTurn, AnswersOfTurn, Prepares
<1> QED  BY <1>6, <1>7 DEF OfTurn

(* An answer, or more of one, is sent: it is the last, and says so or lets   *)
(* the thread read on; or more of it is to come.                             *)
LEMMA AfterOfTurn ==
  ASSUME NEW t, NEW w, NEW b, NEW k, NEW g, NEW s, NEW closes,
         IsWholeThread(t), WireOfTurn(t, w, k, g, s),
         IsSequence(b), b # <<>>, \A i \in 1..Len(b) : IsAnswer(b[i]) /\ b[i].to = i,
         Whole(b, Len(b) - 1), t.at = Len(b),
         b[Len(b)].done <=> ~Remains(t.stream), b[Len(b)].close <=> closes, closes \/ t.read
  PROVE  OfTurn(After(t, closes), w, b, k, g, s)
<1>0. PICK n \in Nat : n = Len(b) /\ n # 0
  BY SequenceIsSeq, EmptySeq DEF IsSequence
<1>1. PICK u : u = After(t, closes)
  OBVIOUS
<1>2. CASE Remains(t.stream)
  <2>1. /\ IsWholeThread(u) /\ u.pc = "part" /\ u.stream.sending /\ u.at = t.at /\ u.read = t.read
    BY <1>1, <1>2 DEF After, IsWholeThread, Fields
  <2>2. Streams(u) /\ ~Prepares(u) /\ ~Ending(u) /\ u.pc \notin {"reading", "body"}
    BY <2>1 DEF Streams, Prepares, Ending, Fetching
  <2>3. AnswersOfTurn(u, b, g)
    BY <1>2, <2>1, <2>2 DEF AnswersOfTurn, SaidSo
  <2>4. WireOfTurn(u, w, k, g, s)
    BY <2>1 DEF WireOfTurn, ItemAt, Awaited
  <2> QED  BY <1>1, <2>1, <2>2, <2>3, <2>4 DEF OfTurn
<1>3. CASE ~Remains(t.stream) /\ closes
  <2>1. IsWholeThread(u) /\ u.pc = "finishing"
    BY <1>1, <1>3 DEF After, IsWholeThread, Fields, NoStream
  <2>2. Ending(u) /\ ~Streams(u) /\ ~Prepares(u) /\ u.pc \notin {"reading", "body"}
    BY <2>1 DEF Streams, Prepares, Ending, Fetching
  <2>3. AnswersOfTurn(u, b, g)
    BY <1>3, <2>1, <2>2 DEF AnswersOfTurn, SaidSo
  <2> QED  BY <1>1, <2>1, <2>2, <2>3 DEF OfTurn
<1>4. CASE ~Remains(t.stream) /\ ~closes
  <2>1. IsWholeThread(u) /\ u.pc = "reading" /\ u.at = t.at /\ u.read = TRUE
    BY <1>1, <1>4 DEF After, IsWholeThread, Fields, NoStream
  <2>2. ~Ending(u) /\ ~Streams(u) /\ ~Prepares(u) /\ u.pc # "body"
    BY <2>1 DEF Streams, Prepares, Ending, Fetching
  <2>3. Whole(b, n)
    BY <1>0, <1>4 DEF Whole
  <2>4. AnswersOfTurn(u, b, g)
    BY <1>0, <2>1, <2>2, <2>3 DEF AnswersOfTurn
  <2>5. WireOfTurn(u, w, k, g, s)
    BY <1>4, <2>1 DEF WireOfTurn, ItemAt, Awaited
  <2> QED  BY <1>1, <2>1, <2>2, <2>4, <2>5 DEF OfTurn
<1> QED  BY <1>2, <1>3, <1>4

LEMMA AnswerOfTurn ==
  ASSUME NEW t, NEW w, NEW a, NEW k, NEW g, NEW s, OfTurn(t, w, a, k, g, s), t.pc = "sending"
  PROVE  OfTurn(After(t, IsLast(t)), w, Append(a, Answer(t)), k, g, s)
<1>1. Prepares(t) /\ ~Ending(t)
  BY DEF Prepares, Streams, Ending, Fetching
<1>2. /\ t.at = Len(a) + 1 /\ Whole(a, Len(a)) /\ WireOfTurn(t, w, k, g, s)
      /\ IsSequence(a) /\ \A i \in 1..Len(a) : IsAnswer(a[i]) /\ a[i].to = i
  BY <1>1 DEF OfTurn, AnswersOfTurn
<1>3. PICK n \in Nat : n = Len(a)
  BY <1>2 DEF IsSequence
<1>4. PICK x, closes : x = Answer(t) /\ closes = IsLast(t)
  OBVIOUS
<1>5. IsAnswer(x) /\ x.to = n + 1 /\ (x.done <=> ~Remains(t.stream)) /\ (x.close <=> closes)
  BY <1>2, <1>3, <1>4 DEF Answer, IsAnswer
<1>6. closes \/ t.read
  BY <1>4 DEF IsLast
<1>7. PICK b : /\ b = Append(a, x) /\ IsSequence(b) /\ Len(b) = n + 1
               /\ \A i \in 1..n : b[i] = a[i]
               /\ b[n + 1] = x
  BY <1>2, <1>3, Appended
<1>8. /\ \A i \in 1..(n + 1) : IsAnswer(b[i]) /\ b[i].to = i
      /\ Whole(b, Len(b) - 1) /\ b # <<>>
  <2>1. Whole(b, n) /\ n = Len(b) - 1
    BY <1>2, <1>3, <1>7 DEF Whole
  <2>2. \A i \in 1..(n + 1) : IsAnswer(b[i]) /\ b[i].to = i
    BY <1>2, <1>3, <1>5, <1>7
  <2> QED  BY <1>7, <2>1, <2>2
<1>9. /\ IsWholeThread(t) /\ t.at = Len(b) /\ \A i \in 1..Len(b) : IsAnswer(b[i]) /\ b[i].to = i
      /\ b[Len(b)].done <=> ~Remains(t.stream)
      /\ b[Len(b)].close <=> closes
  BY <1>2, <1>3, <1>5, <1>7, <1>8 DEF OfTurn
<1>10. OfTurn(After(t, closes), w, b, k, g, s)
  BY <1>2, <1>6, <1>7, <1>8, <1>9, AfterOfTurn
<1> QED  BY <1>4, <1>7, <1>10

LEMMA MoreOfTurn ==
  ASSUME NEW t, NEW w, NEW a, NEW k, NEW g, NEW s, OfTurn(t, w, a, k, g, s), Streams(t),
         NEW u, StillAt(t, u),
         NEW x, IsAnswer(x), x.to = Last(a).to, x.close = Last(a).close,
         x.done <=> ~Remains(u.stream)
  PROVE  OfTurn(After(u, Last(a).close), w, Append(Front(a), x), k, g, s)
<1>1. ~Ending(t)
  BY DEF Streams, Ending, Fetching
<1>2. /\ t.at = Len(a) /\ Whole(a, Len(a) - 1) /\ WireOfTurn(t, w, k, g, s)
      /\ IsSequence(a) /\ \A i \in 1..Len(a) : IsAnswer(a[i]) /\ a[i].to = i
      /\ a # <<>> /\ (Last(a).close \/ t.read)
  BY <1>1 DEF OfTurn, AnswersOfTurn, SaidSo, Last
<1>3. PICK n \in Nat : n = Len(a) /\ n # 0
  BY <1>2, SequenceIsSeq, EmptySeq DEF IsSequence
<1>4. PICK b : /\ b = Append(Front(a), x) /\ IsSequence(b) /\ Len(b) = n
               /\ \A i \in 1..(n - 1) : b[i] = a[i]
               /\ b[n] = x
  <2>1. PICK b : b = Append(Front(a), x)
    OBVIOUS
  <2>2. /\ IsSequence(b) /\ Len(b) = Len(a)
        /\ \A i \in 1..(Len(a) - 1) : b[i] = a[i]
        /\ b[Len(a)] = x
    <3>1. PICK answer : answer = a /\ IsSequence(answer) /\ answer # <<>>
      BY <1>2
    <3>2. b = Append(Front(answer), x)
      BY <2>1, <3>1
    <3>3. IsSequence(b)
      BY <3>1, <3>2, LastPut
    <3>4. Len(b) = Len(answer)
      BY <3>1, <3>2, LastPut
    <3>5. \A i \in 1..(Len(answer) - 1) : b[i] = answer[i]
      BY <3>1, <3>2, LastPut
    <3>6. b[Len(answer)] = x
      BY <3>1, <3>2, LastPut
    <3> QED  BY <3>1, <3>3, <3>4, <3>5, <3>6
  <2> QED  BY <1>3, <2>1, <2>2
<1>5. /\ \A i \in 1..n : IsAnswer(b[i]) /\ b[i].to = i
      /\ Whole(b, n - 1) /\ b # <<>>
  <2>1. Whole(b, n - 1)
    BY <1>2, <1>3, <1>4 DEF Whole
  <2>2. x.to = n
    BY <1>2, <1>3 DEF Last
  <2>3. \A i \in 1..n : IsAnswer(b[i]) /\ b[i].to = i
    BY <1>2, <1>3, <1>4, <2>2
  <2> QED  BY <1>3, <1>4, <2>1, <2>3
<1>6. IsWholeThread(u) /\ u.at = n /\ u.read = t.read /\ WireOfTurn(u, w, k, g, s)
  BY <1>2, <1>3 DEF StillAt, WireOfTurn, ItemAt, Awaited
<1>7. PICK closes : closes = Last(a).close /\ (b[n].close <=> closes) /\ (closes \/ u.read)
  BY <1>2, <1>4, <1>6
<1>8. /\ u.at = Len(b) /\ \A i \in 1..Len(b) : IsAnswer(b[i]) /\ b[i].to = i
      /\ b[Len(b)].done <=> ~Remains(u.stream)
      /\ b[Len(b)].close <=> closes
      /\ Whole(b, Len(b) - 1)
  BY <1>4, <1>5, <1>6, <1>7
<1>9. OfTurn(After(u, closes), w, b, k, g, s)
  BY <1>4, <1>5, <1>6, <1>7, <1>8, AfterOfTurn
<1> QED  BY <1>4, <1>7, <1>9

(* A client sends its next request.                                          *)
LEMMA SentOfTurn ==
  ASSUME NEW t, NEW T, NEW w \in Seq(T), NEW a, NEW k \in Nat, NEW s, OfTurn(t, w, a, k, FALSE, s),
         NEW request, request = s[k + 1], NEW g, g <=> request.body = "cut"
  PROVE  OfTurn(t, w \o Items(k + 1, request), a, k + 1, g, s)
<1>1. AnswersOfTurn(t, a, g)
  BY DEF OfTurn, AnswersOfTurn
<1>2. CASE Ending(t)
  BY <1>1, <1>2 DEF OfTurn
<1>3. CASE ~Ending(t)
  <2>1. WireOfTurn(t, w, k, FALSE, s) /\ HeadOf(k + 1) = ItemAt(t, w, s, Len(w) + 1)
    BY <1>3 DEF OfTurn, WireOfTurn
  <2>2. PICK n \in Nat : n = Len(w)
    BY LenProperties
  <2>3. PICK all, U, items :
          /\ items = Items(k + 1, request) /\ all = w \o items
          /\ w \in Seq(U) /\ items \in Seq(U) /\ items[1] = HeadOf(k + 1)
          /\ IF request.body \in {"none", "cut"} THEN Len(items) = 1
             ELSE Len(items) = 2 /\ items[2] = BodyOf(k + 1)
    <3>1. PICK h, b, items : h = HeadOf(k + 1) /\ b = BodyOf(k + 1) /\ items = Items(k + 1, request)
      OBVIOUS
    <3>2. PICK U : h \in U /\ b \in U /\ w \in Seq(U)
      <4>1. PICK U : U = T \cup {h, b}
        OBVIOUS
      <4> QED  BY <4>1, SeqMonotonic
    <3>3. PICK rest : /\ items = <<h>> \o rest
                      /\ rest = IF request.body \in {"none", "cut"} THEN <<>> ELSE <<b>>
      BY <3>1 DEF Items, HeadOf, BodyOf
    <3>4. <<h>> \in Seq(U) /\ rest \in Seq(U)
      BY <3>2, <3>3
    <3>5. /\ items \in Seq(U) /\ Len(items) = Len(<<h>>) + Len(rest)
          /\ \A i \in 1..(Len(<<h>>) + Len(rest)) :
               items[i] = IF i <= Len(<<h>>) THEN <<h>>[i] ELSE rest[i - Len(<<h>>)]
      BY <3>3, <3>4, ConcatProperties
    <3>6. Len(<<h>>) = 1 /\ <<h>>[1] = h
      OBVIOUS
    <3>7. Len(rest) = IF request.body \in {"none", "cut"} THEN 0 ELSE 1
      BY <3>3
    <3>8. request.body \notin {"none", "cut"} => rest[1] = b
      BY <3>3
    <3>9. PICK all : all = w \o items
      OBVIOUS
    <3>10. items[1] = h
      BY <3>5, <3>6, <3>7
    <3>11. request.body \in {"none", "cut"} => Len(items) = 1
      BY <3>5, <3>6, <3>7
    <3>12. request.body \notin {"none", "cut"} => Len(items) = 2 /\ items[2] = b
      BY <3>5, <3>6, <3>7, <3>8
    <3> QED  BY <3>1, <3>2, <3>5, <3>9, <3>10, <3>11, <3>12
  <2>4. /\ Len(all) = n + Len(items)
        /\ \A i \in 1..(n + Len(items)) : all[i] = IF i <= n THEN w[i] ELSE items[i - n]
    BY <2>2, <2>3, ConcatProperties
  <2>5. \A i \in 1..(n + 1) : ItemAt(t, all, s, i) = ItemAt(t, w, s, i)
    <3>1. Len(items) \in {1, 2}
      BY <2>3
    <3>2. \A i \in 1..n : all[i] = w[i]
      BY <2>4, <3>1
    <3> QED  BY <3>2 DEF ItemAt
  <2>6. \A i \in 1..n : all[i] = ItemAt(t, all, s, i)
    <3>1. Len(items) \in {1, 2}
      BY <2>3
    <3> QED  BY <2>1, <2>2, <2>4, <2>5, <3>1 DEF WireOfTurn
  <2>7. all[n + 1] = HeadOf(k + 1) /\ all[n + 1] = ItemAt(t, all, s, n + 1)
    <3>1. Len(items) \in {1, 2} /\ items[1] = HeadOf(k + 1)
      BY <2>3
    <3>2. all[n + 1] = HeadOf(k + 1)
      BY <2>4, <3>1
    <3> QED  BY <2>1, <2>2, <2>5, <3>2
  <2>8. ItemAt(t, all, s, n + 2) = IF request.body = "none" THEN HeadOf(k + 2) ELSE BodyOf(k + 1)
    BY <2>7 DEF ItemAt, ItemAfter, HeadOf
  <2>9. CASE request.body \in {"none", "cut"}
    <3>1. Len(all) = n + 1
      BY <2>3, <2>4, <2>9
    <3>2. \A i \in 1..(n + 1) : all[i] = ItemAt(t, all, s, i)
      BY <2>6, <2>7
    <3>3. ~g => request.body = "none"
      BY <2>9
    <3>4. WireOfTurn(t, all, k + 1, g, s)
      BY <2>8, <3>1, <3>2, <3>3 DEF WireOfTurn
    <3> QED  BY <1>1, <2>3, <3>4 DEF OfTurn
  <2>10. CASE request.body \notin {"none", "cut"}
    <3>1. Len(all) = n + 2 /\ all[n + 2] = BodyOf(k + 1)
      BY <2>3, <2>4, <2>10
    <3>2. request.body # "none"
      BY <2>10
    <3>3. \A i \in 1..(n + 2) : all[i] = ItemAt(t, all, s, i)
      BY <2>6, <2>7, <2>8, <3>1, <3>2
    <3>4. ItemAt(t, all, s, n + 3) = HeadOf(k + 2)
      BY <3>1 DEF ItemAt, ItemAfter, BodyOf
    <3>5. WireOfTurn(t, all, k + 1, g, s)
      BY <3>1, <3>3, <3>4 DEF WireOfTurn
    <3> QED  BY <1>1, <2>3, <3>5 DEF OfTurn
  <2> QED  BY <2>9, <2>10
<1> QED  BY <1>2, <1>3

-----------------------------------------------------------------------------
(* What a thread goes on as, with the request it is at. *)

Busy == {"body", "authenticating", "opening", "routing", "pushing", "listing", "looking",
         "saving", "serving", "sending"}

LEMMA BusyPrepares ==
  ASSUME NEW t, t.pc \in Busy
  PROVE  Prepares(t) /\ ~Ending(t) /\ ~Streams(t)
BY DEF Busy, Prepares, Ending, Streams, Fetching

LEMMA GonePrepared ==
  ASSUME NEW t, IsWholeThread(t), NEW pc \in Busy \ {"body"}
  PROVE  Prepared(t, [t EXCEPT !.pc = pc])
<1>1. PICK u : u = [t EXCEPT !.pc = pc]
  OBVIOUS
<1>2. IsWholeThread(u) /\ u.pc = pc /\ u.at = t.at /\ u.read = t.read
  BY <1>1 DEF IsWholeThread, Fields
<1> QED  BY <1>1, <1>2, BusyPrepares DEF Prepared, StillAt

LEMMA AnsweredPrepared ==
  ASSUME NEW t, IsWholeThread(t), NEW response
  PROVE  Prepared(t, Answered(t, response))
<1>1. PICK u : u = Answered(t, response)
  OBVIOUS
<1>2. IsWholeThread(u) /\ u.pc = "serving" /\ u.at = t.at /\ u.read = t.read
  BY <1>1 DEF Answered, IsWholeThread, Fields
<1>3. Prepares(u)
  BY <1>2, BusyPrepares DEF Busy
<1> QED  BY <1>1, <1>2, <1>3 DEF Prepared, StillAt

LEMMA ReadingPrepared ==
  ASSUME NEW t, IsWholeThread(t), NEW request, NEW then \in AfterBody
  PROVE  Prepared(t, BodyOr(t, request, then))
<1>1. PICK u : u = Reading(t, then)
  OBVIOUS
<1>2. /\ IsWholeThread(u) /\ u.at = t.at /\ u.read = t.read
      /\ u.pc = IF t.read THEN then ELSE "body"
  BY <1>1 DEF Reading, IsWholeThread, Fields
<1>3. u.pc \in Busy /\ (u.pc = "body" => ~u.read)
  BY <1>2 DEF Busy, AfterBody
<1>4. Prepared(t, u)
  BY <1>2, <1>3, BusyPrepares DEF Prepared, StillAt
<1> QED  BY <1>1, <1>4, AnsweredPrepared DEF BodyOr

LEMMA GuardedPrepared ==
  ASSUME NEW t, IsWholeThread(t), NEW request
  PROVE  Prepared(t, Guarded(t, request))
<1>1. Prepared(t, [t EXCEPT !.pc = "sending", !.response = Closing(Response(400)), !.kept = TRUE])
  <2>1. PICK u : u = [t EXCEPT !.pc = "sending", !.response = Closing(Response(400)), !.kept = TRUE]
    OBVIOUS
  <2>2. IsWholeThread(u) /\ u.pc = "sending" /\ u.at = t.at /\ u.read = t.read
    BY <2>1 DEF IsWholeThread, Fields
  <2>3. Prepares(u)
    BY <2>2, BusyPrepares DEF Busy
  <2> QED  BY <2>1, <2>2, <2>3 DEF Prepared, StillAt
<1>2. Prepared(t, [t EXCEPT !.pc = "routing"])
  BY GonePrepared DEF Busy
<1>3. Prepared(t, BodyOr(t, request, "authenticating"))
  BY ReadingPrepared DEF AfterBody
<1> QED  BY <1>1, <1>2, <1>3, AnsweredPrepared DEF Guarded

-----------------------------------------------------------------------------
(* Steps of a thread. *)

SameClient == UNCHANGED <<script, sent, gone>>
Silent == UNCHANGED <<script, sent, gone, wire, answers>>

LEMMA StepInTurn ==
  ASSUME IInv, TurnInv, NEW c \in Connections, NEW u, NEW w, NEW a,
         thread' = [thread EXCEPT ![c] = u], SameClient,
         wire' = [wire EXCEPT ![c] = w] \/ (w = wire[c] /\ wire' = wire),
         answers' = [answers EXCEPT ![c] = a] \/ (a = answers[c] /\ answers' = answers),
         OfTurn(u, w, a, sent[c], gone[c], script[c])
  PROVE  TurnInv'
<1>1. DOMAIN thread = Connections /\ DOMAIN wire = Connections /\ DOMAIN answers = Connections
  BY DEF IInv, WiresAre, ThreadsAre
<1>2. /\ thread'[c] = u /\ wire'[c] = w /\ answers'[c] = a
      /\ \A d \in Connections \ {c} :
           thread'[d] = thread[d] /\ wire'[d] = wire[d] /\ answers'[d] = answers[d]
  BY <1>1
<1>3. UNCHANGED <<script, sent, gone>>
  BY DEF SameClient
<1> QED  BY <1>2, <1>3 DEF TurnInv

LEMMA SilentInTurn ==
  ASSUME IInv, TurnInv, NEW c \in Connections, NEW u, thread' = [thread EXCEPT ![c] = u], Silent,
         OfTurn(u, wire[c], answers[c], sent[c], gone[c], script[c])
  PROVE  TurnInv'
<1>2. DOMAIN thread = Connections /\ UNCHANGED <<script, sent, gone, wire, answers>>
  BY DEF Silent, IInv, ThreadsAre
<1>3. thread'[c] = u /\ \A d \in Connections \ {c} : thread'[d] = thread[d]
  BY <1>2
<1> QED  BY <1>2, <1>3 DEF TurnInv

LEMMA ContinuesInTurn ==
  ASSUME IInv, TurnInv, NEW c \in Connections, NEW u, thread' = [thread EXCEPT ![c] = u], Silent,
         Continues(thread[c], u)
  PROVE  TurnInv'
BY ContinuesOfTurn, SilentInTurn DEF TurnInv

LEMMA PreparedInTurn ==
  ASSUME IInv, TurnInv, NEW c \in Connections, NEW u, thread' = [thread EXCEPT ![c] = u], Silent,
         Prepares(thread[c]), Prepared(thread[c], u)
  PROVE  TurnInv'
BY ContinuesInTurn DEF Continues, Prepared

LEMMA AnswersInTurn ==
  ASSUME IInv, TurnInv, NEW c \in Connections, NEW response, Answers(c, response), Silent,
         Prepares(thread[c])
  PROVE  TurnInv'
<1>1. PICK u : u = Answered(thread[c], response) /\ thread' = [thread EXCEPT ![c] = u]
  BY DEF Answers
<1>2. IsWholeThread(thread[c])
  BY DEF TurnInv, OfTurn
<1>3. Prepared(thread[c], u)
  BY <1>1, <1>2, AnsweredPrepared
<1> QED  BY <1>1, <1>3, PreparedInTurn

LEMMA GoesInTurn ==
  ASSUME IInv, TurnInv, NEW c \in Connections, NEW pc \in Busy \ {"body"}, Goes(c, pc), Silent,
         Prepares(thread[c])
  PROVE  TurnInv'
<1>1. PICK u : u = [thread[c] EXCEPT !.pc = pc] /\ thread' = [thread EXCEPT ![c] = u]
  BY DEF Goes
<1>2. IsWholeThread(thread[c])
  BY DEF TurnInv, OfTurn
<1>3. Prepared(thread[c], u)
  BY <1>1, <1>2, GonePrepared
<1> QED  BY <1>1, <1>3, PreparedInTurn

LEMMA EndsInTurn ==
  ASSUME IInv, TurnInv, NEW c \in Connections, Goes(c, "finishing"), Silent,
         gone[c] \/ SaidSo(answers[c])
  PROVE  TurnInv'
<1>1. PICK u : u = [thread[c] EXCEPT !.pc = "finishing"] /\ thread' = [thread EXCEPT ![c] = u]
  BY DEF Goes
<1>2. OfTurn(thread[c], wire[c], answers[c], sent[c], gone[c], script[c])
  BY DEF TurnInv
<1>3. IsWholeThread(u) /\ Ending(u)
  BY <1>1, <1>2 DEF OfTurn, IsWholeThread, Fields, Ending
<1>4. OfTurn(u, wire[c], answers[c], sent[c], gone[c], script[c])
  BY <1>2, <1>3, EndsOfTurn
<1> QED  BY <1>1, <1>4, SilentInTurn

-----------------------------------------------------------------------------
(* Each action. *)

LEMMA HeadsInTurn ==
  ASSUME IInv, TurnInv, NEW c \in Connections, ReadsHead(c)
  PROVE  TurnInv'
<1>1. PICK t, w, a, k, g, s :
        /\ t = thread[c] /\ w = wire[c] /\ a = answers[c] /\ k = sent[c] /\ g = gone[c] /\ s = script[c]
        /\ OfTurn(t, w, a, k, g, s)
  BY DEF TurnInv
<1>2. t.pc = "reading" /\ w # <<>>
  BY <1>1 DEF ReadsHead, At
<1>3. PICK T : w \in Seq(T)
  BY <1>1 DEF IInv, WiresAre
<1>4. PICK n : /\ Head(w) = HeadOf(n) /\ n = t.at + 1
               /\ \A u : /\ IsWholeThread(u) /\ Prepares(u) /\ (u.pc = "body" => ~u.read)
                         /\ u.at = n /\ (u.read <=> s[u.at].body = "none")
                         => OfTurn(u, Tail(w), a, k, g, s)
  BY <1>1, <1>2, <1>3, HeadOfTurn
<1>5. PICK r : r = [t EXCEPT !.at = n, !.read = s[n].body = "none"]
  OBVIOUS
<1>6. IsWholeThread(r) /\ r.at = n /\ (r.read <=> s[n].body = "none")
  BY <1>1, <1>5 DEF OfTurn, IsWholeThread, Fields
<1>7. PICK u : u = Guarded(r, Asked(c, n))
  OBVIOUS
<1>8. Prepared(r, u)
  BY <1>6, <1>7, GuardedPrepared
<1>9. OfTurn(u, Tail(w), a, k, g, s)
  BY <1>4, <1>6, <1>8 DEF Prepared, StillAt
<1>10. thread' = [thread EXCEPT ![c] = u]
  <2>1. Head(wire[c]).of = n /\ Head(wire[c]).kind = "head"
    BY <1>1, <1>4 DEF HeadOf
  <2>2. thread' = [thread EXCEPT ![c] =
          IF Head(wire[c]).kind = "head"
          THEN Guarded([thread[c] EXCEPT !.at = Head(wire[c]).of,
                                         !.read = script[c][Head(wire[c]).of].body = "none"],
                       Asked(c, Head(wire[c]).of))
          ELSE Misparsed([thread[c] EXCEPT !.at = Head(wire[c]).of,
                                           !.read = script[c][Head(wire[c]).of].body = "none"])]
    BY DEF ReadsHead
  <2> QED  BY <1>1, <1>5, <1>7, <2>1, <2>2
<1>11. SameClient /\ wire' = [wire EXCEPT ![c] = Tail(w)] /\ UNCHANGED answers
  BY <1>1 DEF ReadsHead, Quiet, SameClient
<1> QED  BY <1>1, <1>9, <1>10, <1>11, StepInTurn

LEMMA BodiesInTurn ==
  ASSUME IInv, TurnInv, NEW c \in Connections, ReadsBody(c)
  PROVE  TurnInv'
<1>1. PICK t, w, a, k, g, s :
        /\ t = thread[c] /\ w = wire[c] /\ a = answers[c] /\ k = sent[c] /\ g = gone[c] /\ s = script[c]
        /\ OfTurn(t, w, a, k, g, s)
  BY DEF TurnInv
<1>2. t.pc = "body" /\ w # <<>> /\ t.then \in AfterBody
  BY <1>1 DEF ReadsBody, At, IInv, GoOnAs
<1>3. PICK T : w \in Seq(T)
  BY <1>1 DEF IInv, WiresAre
<1>4. PICK u : u = [t EXCEPT !.read = TRUE, !.pc = t.then]
  OBVIOUS
<1>5. IsWholeThread(u) /\ u.pc \in AfterBody /\ u.at = t.at /\ u.read = TRUE
  BY <1>1, <1>2, <1>4 DEF OfTurn, IsWholeThread, Fields
<1>6. Prepares(u) /\ u.pc # "body"
  BY <1>5, BusyPrepares DEF Busy, AfterBody
<1>7. OfTurn(u, Tail(w), a, k, g, s)
  BY <1>1, <1>2, <1>3, <1>5, <1>6, BodyOfTurn
<1>8. thread' = [thread EXCEPT ![c] = u]
  BY <1>1, <1>4 DEF ReadsBody
<1>9. SameClient /\ wire' = [wire EXCEPT ![c] = Tail(w)] /\ UNCHANGED answers
  BY <1>1 DEF ReadsBody, Quiet, SameClient
<1> QED  BY <1>1, <1>7, <1>8, <1>9, StepInTurn

LEMMA SignersInTurn ==
  ASSUME IInv, TurnInv, NEW c \in Connections,
         Authenticates(c) \/ CountsSigner(c) \/ NamesPeers(c)
  PROVE  TurnInv'
<1>1. Silent
  BY DEF Authenticates, CountsSigner, NamesPeers, Quiet, Silent
<1>2. IsWholeThread(thread[c])
  BY DEF TurnInv, OfTurn
<1>3. CASE Authenticates(c)
  <2>1. PICK u : /\ thread' = [thread EXCEPT ![c] = u]
                 /\ \/ u = Provisional(thread[c], Request(c).signer)
                    \/ u = Answered(thread[c], Closing(Response(401)))
                    \/ u = Verified(thread[c], Request(c).signer)
    BY <1>3 DEF Authenticates
  <2>2. \A pc \in {"routing", "opening"} : Prepared(thread[c], [thread[c] EXCEPT !.pc = pc])
    BY <1>2, GonePrepared DEF Busy
  <2>3. \A response : Prepared(thread[c], Answered(thread[c], response))
    BY <1>2, AnsweredPrepared
  <2>4. Prepared(thread[c], u)
    BY <2>1, <2>2, <2>3 DEF Provisional, Verified
  <2>5. Prepares(thread[c])
    BY <1>3, BusyPrepares DEF Authenticates, At, Busy
  <2> QED  BY <1>1, <2>1, <2>4, <2>5, PreparedInTurn
<1>4. CASE CountsSigner(c)
  <2>1. PICK n, u :
          /\ thread' = [thread EXCEPT ![c] = u]
          /\ u = [thread[c] EXCEPT !.signers = thread[c].signers \cup {n}, !.then = "routing",
                         !.pc = IF n \in DOMAIN connections THEN "routing" ELSE "naming"]
    BY <1>4 DEF CountsSigner
  <2>2. /\ IsWholeThread(u) /\ u.pc \in {"routing", "naming"} /\ u.then = "routing"
        /\ u.at = thread[c].at /\ u.read = thread[c].read
    BY <1>2, <2>1 DEF IsWholeThread, Fields
  <2>3. Prepared(thread[c], u)
    BY <2>2 DEF Prepared, StillAt, Prepares, Ending, Streams, Fetching
  <2>4. Prepares(thread[c])
    BY <1>4, BusyPrepares DEF CountsSigner, At, Busy
  <2> QED  BY <1>1, <2>1, <2>3, <2>4, PreparedInTurn
<1>5. CASE NamesPeers(c)
  <2>1. PICK u : /\ u = [thread[c] EXCEPT !.pc = thread[c].then]
                 /\ thread' = [thread EXCEPT ![c] = u]
    BY <1>5 DEF NamesPeers, Goes
  <2>2. thread[c].pc = "naming" /\ thread[c].then \in {"routing", "finishing"}
    BY <1>5 DEF NamesPeers, At, IInv, GoOnAs
  <2>3. IsWholeThread(u) /\ u.pc = thread[c].then /\ u.at = thread[c].at /\ u.read = thread[c].read
    BY <1>2, <2>1 DEF IsWholeThread, Fields
  <2>4. Continues(thread[c], u)
    BY <2>2, <2>3 DEF Continues, StillAt, Prepares, Ending, Streams, Fetching
  <2> QED  BY <1>1, <2>1, <2>4, ContinuesInTurn
<1> QED  BY <1>3, <1>4, <1>5

LEMMA BodiesAskedInTurn ==
  ASSUME IInv, TurnInv, NEW c \in Connections, ReadsUpload(c) \/ ReadsList(c) \/ ChecksChange(c)
  PROVE  TurnInv'
<1>1. Silent /\ Prepares(thread[c])
  <2>1. At(c, "routing")
    BY DEF ReadsUpload, Routed, ReadsList, ChecksChange
  <2> QED  BY <2>1, BusyPrepares DEF At, Busy, ReadsUpload, ReadsList, ChecksChange, Quiet, Silent
<1>2. IsWholeThread(thread[c])
  BY DEF TurnInv, OfTurn
<1>3. PICK u : /\ thread' = [thread EXCEPT ![c] = u]
               /\ \/ u = Answered(thread[c], Response(Refusal(Request(c))))
                  \/ \E then \in AfterBody : u = BodyOr(thread[c], Request(c), then)
  BY DEF ReadsUpload, ReadsList, ChecksChange, AfterBody
<1>4. Prepared(thread[c], u)
  BY <1>2, <1>3, AnsweredPrepared, ReadingPrepared
<1> QED  BY <1>1, <1>3, <1>4, PreparedInTurn

LEMMA AnsweringInTurn ==
  ASSUME IInv, TurnInv, NEW c \in Connections,
         \/ FindsNoRoute(c) \/ ReadsData(c) \/ TakesUpload(c) \/ TakesList(c) \/ GivesList(c)
         \/ ReadsValues(c) \/ LooksIntoChange(c) \/ SavesChange(c)
  PROVE  TurnInv'
<1>1. thread[c].pc \in Busy
  BY DEF FindsNoRoute, ReadsData, TakesUpload, TakesList, GivesList, ReadsValues, LooksIntoChange,
         SavesChange, Routed, At, Busy
<1>2. Prepares(thread[c])
  BY <1>1, BusyPrepares
<1>3. Silent
  BY DEF FindsNoRoute, ReadsData, TakesUpload, TakesList, GivesList, ReadsValues, LooksIntoChange,
         SavesChange, Quiet, wires, Silent
<1>4. Goes(c, "saving") \/ \E response : Answers(c, response)
  BY DEF FindsNoRoute, ReadsData, TakesUpload, TakesList, GivesList, ReadsValues, LooksIntoChange,
         LooksFor, SavesChange
<1> QED  BY <1>2, <1>3, <1>4, AnswersInTurn, GoesInTurn DEF Busy

LEMMA EndingInTurn ==
  ASSUME IInv, TurnInv, NEW c \in Connections, ReadsEnd(c) \/ BodyEnds(c) \/ Finishes(c)
  PROVE  TurnInv'
<1>1. Silent
  BY DEF ReadsEnd, BodyEnds, Finishes, Quiet, Silent
<1>2. CASE ReadsEnd(c) \/ BodyEnds(c)
  BY <1>1, <1>2, EndsInTurn DEF ReadsEnd, BodyEnds
<1>3. CASE Finishes(c)
  <2>1. OfTurn(thread[c], wire[c], answers[c], sent[c], gone[c], script[c])
    BY DEF TurnInv
  <2>2. Ending(thread[c]) /\ IsWholeThread(thread[c])
    BY <1>3, <2>1 DEF Finishes, At, Ending, OfTurn
  <2>3. gone[c] \/ SaidSo(answers[c])
    BY <2>1, <2>2 DEF OfTurn, AnswersOfTurn
  <2>4. PICK u :
          /\ thread' = [thread EXCEPT ![c] = u]
          /\ \/ u = [NewThread EXCEPT !.pc = "closed"]
             \/ \E n : u = [thread[c] EXCEPT !.signers = thread[c].signers \ {n}, !.then = "finishing",
                                             !.pc = IF connections[n] > 1 THEN "finishing" ELSE "naming"]
    BY <1>3 DEF Finishes
  <2>5. IsWholeThread(u) /\ Ending(u)
    <3>1. CASE u = [NewThread EXCEPT !.pc = "closed"]
      BY <3>1 DEF IsWholeThread, Fields, Ending, NewThread, NoStream
    <3>2. ASSUME NEW n,
                 u = [thread[c] EXCEPT !.signers = thread[c].signers \ {n}, !.then = "finishing",
                                       !.pc = IF connections[n] > 1 THEN "finishing" ELSE "naming"]
          PROVE  IsWholeThread(u) /\ Ending(u)
      BY <2>2, <3>2 DEF IsWholeThread, Fields, Ending
    <3> QED  BY <2>4, <3>1, <3>2
  <2>6. OfTurn(u, wire[c], answers[c], sent[c], gone[c], script[c])
    BY <2>1, <2>3, <2>5, EndsOfTurn
  <2> QED  BY <1>1, <2>4, <2>6, SilentInTurn
<1> QED  BY <1>2, <1>3

LEMMA FetchingContinues ==
  ASSUME NEW t, IsWholeThread(t), t.pc \in Fetching, NEW u, IsWholeThread(u), u.pc \in Fetching,
         u.at = t.at, u.read = t.read, u.stream.sending = t.stream.sending
  PROVE  Continues(t, u)
BY DEF Continues, StillAt, Prepares, Ending, Streams, Fetching

LEMMA FailsInTurn ==
  ASSUME IInv, TurnInv, NEW c \in Connections, Silent, thread[c].pc \in Fetching,
         NEW status, Fails(c, status)
  PROVE  TurnInv'
<1>1. OfTurn(thread[c], wire[c], answers[c], sent[c], gone[c], script[c])
  BY DEF TurnInv
<1>2. CASE thread[c].stream.sending
  <2>1. Streams(thread[c]) /\ Goes(c, "finishing")
    BY <1>2 DEF Streams, Fails
  <2>2. SaidSo(answers[c])
    BY <1>1, <2>1 DEF OfTurn, AnswersOfTurn
  <2> QED  BY <2>1, <2>2, EndsInTurn
<1>3. CASE ~thread[c].stream.sending
  <2>1. PICK r, u : /\ r = [thread[c] EXCEPT !.stream = NoStream]
                    /\ u = Answered(r, Response(status)) /\ thread' = [thread EXCEPT ![c] = u]
    BY <1>3 DEF Fails
  <2>2. IsWholeThread(r) /\ r.at = thread[c].at /\ r.read = thread[c].read
    BY <1>1, <2>1 DEF OfTurn, IsWholeThread, Fields, NoStream
  <2>3. Prepared(thread[c], u)
    BY <2>1, <2>2, AnsweredPrepared DEF Prepared, StillAt
  <2>4. Prepares(thread[c])
    BY <1>3 DEF Prepares, Ending, Streams, Fetching
  <2> QED  BY <2>1, <2>3, <2>4, PreparedInTurn
<1> QED  BY <1>2, <1>3

LEMMA FilesInTurn ==
  ASSUME IInv, TurnInv, NEW c \in Connections,
         StartsFile(c) \/ ChecksPart(c) \/ AsksAhead(c) \/ MissesPart(c)
  PROVE  TurnInv'
<1>1. Silent
  BY DEF StartsFile, ChecksPart, AsksAhead, MissesPart, Quiet, Silent
<1>2. IsWholeThread(thread[c])
  BY DEF TurnInv, OfTurn
<1>3. ASSUME NEW pc \in Fetching, thread[c].pc \in Fetching, Goes(c, pc) PROVE TurnInv'
  <2>1. PICK u : u = [thread[c] EXCEPT !.pc = pc] /\ thread' = [thread EXCEPT ![c] = u]
    BY <1>3 DEF Goes
  <2>2. /\ IsWholeThread(u) /\ u.pc \in Fetching /\ u.at = thread[c].at /\ u.read = thread[c].read
        /\ u.stream.sending = thread[c].stream.sending
    BY <1>2, <1>3, <2>1 DEF IsWholeThread, Fields
  <2> QED  BY <1>1, <1>2, <1>3, <2>1, <2>2, FetchingContinues, ContinuesInTurn
<1>4. CASE StartsFile(c)
  <2>1. Prepares(thread[c])
    BY <1>4, BusyPrepares DEF StartsFile, At, Busy
  <2>2. CASE \E response : Answers(c, response)
    BY <1>1, <2>1, <2>2, AnswersInTurn
  <2>3. CASE ~ \E response : Answers(c, response)
    <3>1. PICK begun, span, deadline :
            thread' = [thread EXCEPT ![c].pc = "part", ![c].response = begun,
                                     ![c].stream = StreamOf(span, deadline)]
      BY <1>4, <2>3 DEF StartsFile
    <3>2. PICK stream : /\ stream = StreamOf(span, deadline)
                        /\ "sending" \in DOMAIN stream /\ ~stream.sending
      <4>1. PICK stream : stream = StreamOf(span, deadline)
        OBVIOUS
      <4>2. "sending" \in DOMAIN stream /\ ~stream.sending
        BY <4>1 DEF StreamOf
      <4> QED  BY <4>1, <4>2
    <3>3. PICK u : /\ u = [thread[c] EXCEPT !.pc = "part", !.response = begun, !.stream = stream]
                   /\ thread' = [thread EXCEPT ![c] = u]
      BY <3>1, <3>2
    <3>4. IsWholeThread(u) /\ u.pc = "part" /\ u.at = thread[c].at /\ u.read = thread[c].read
          /\ ~u.stream.sending
      BY <1>2, <3>2, <3>3 DEF IsWholeThread, Fields
    <3>5. Prepared(thread[c], u)
      BY <3>4 DEF Prepared, StillAt, Prepares, Ending, Streams
    <3> QED  BY <1>1, <2>1, <3>3, <3>5, PreparedInTurn
  <2> QED  BY <2>2, <2>3
<1>5. CASE ChecksPart(c)
  <2>1. thread[c].pc \in Fetching
    BY <1>5 DEF ChecksPart, At, Fetching
  <2>2. Goes(c, "asking") \/ \E status : Fails(c, status)
    BY <1>5 DEF ChecksPart
  <2> QED  BY <1>1, <1>3, <2>1, <2>2, FailsInTurn DEF Fetching
<1>6. CASE AsksAhead(c)
  <2>1. thread[c].pc \in Fetching
    BY <1>6 DEF AsksAhead, At, Fetching
  <2>2. PICK stream :
          /\ thread' = [thread EXCEPT ![c] = [thread[c] EXCEPT !.pc = "fetching", !.stream = stream]]
          /\ DOMAIN stream = DOMAIN thread[c].stream /\ stream.sending = thread[c].stream.sending
    <3> DEFINE asked == [x \in DOMAIN thread[c].stream.asked |->
                           IF x \in Due(c) THEN 0 ELSE thread[c].stream.asked[x]]
               stream == [thread[c].stream EXCEPT !.asked = asked]
    <3>1. thread' = [thread EXCEPT ![c] = [thread[c] EXCEPT !.pc = "fetching", !.stream = stream]]
      BY <1>6, ZenonT(30) DEF AsksAhead
    <3>2. DOMAIN stream = DOMAIN thread[c].stream /\ stream.sending = thread[c].stream.sending
      <4>1. "sending" \in DOMAIN thread[c].stream
        BY <1>2 DEF IsWholeThread
      <4> HIDE DEF asked
      <4> QED  BY <4>1
    <3> HIDE DEF stream
    <3> QED  BY <3>1, <3>2
  <2>3. PICK u : u = [thread[c] EXCEPT !.pc = "fetching", !.stream = stream]
    OBVIOUS
  <2>4. /\ IsWholeThread(u) /\ u.pc \in Fetching /\ u.at = thread[c].at /\ u.read = thread[c].read
        /\ u.stream.sending = thread[c].stream.sending
    BY <1>2, <2>2, <2>3 DEF IsWholeThread, Fields, Fetching
  <2> QED  BY <1>1, <1>2, <2>1, <2>2, <2>3, <2>4, FetchingContinues, ContinuesInTurn
<1>7. CASE MissesPart(c)
  <2>1. thread[c].pc \in Fetching
    BY <1>7 DEF MissesPart, At, Fetching
  <2>2. Goes(c, "pausing") \/ Fails(c, 503)
    BY <1>7 DEF MissesPart
  <2> QED  BY <1>1, <1>3, <2>1, <2>2, FailsInTurn DEF Fetching
<1> QED  BY <1>4, <1>5, <1>6, <1>7

LEMMA PartsInTurn ==
  ASSUME IInv, TurnInv, NEW c \in Connections, FetchesPart(c)
  PROVE  TurnInv'
<1>1. PICK t, w, a, k, g, s :
        /\ t = thread[c] /\ w = wire[c] /\ a = answers[c] /\ k = sent[c] /\ g = gone[c] /\ s = script[c]
        /\ OfTurn(t, w, a, k, g, s)
  BY DEF TurnInv
<1>2. SameClient /\ UNCHANGED wire /\ t.pc \in Fetching /\ IsWholeThread(t)
  BY <1>1 DEF FetchesPart, Quiet, SameClient, At, Fetching, OfTurn
<1>3. PICK r : r = [t EXCEPT !.stream = ReadOn(c)]
  OBVIOUS
<1>4. /\ IsWholeThread(r) /\ r.pc = t.pc /\ r.at = t.at /\ r.read = t.read
      /\ r.stream = ReadOn(c) /\ r.stream.sending = t.stream.sending
  <2>1. PICK stream, taken : /\ stream = t.stream
                             /\ ReadOn(c) = [stream EXCEPT !.next = @ + 1, !.taken = taken]
    BY <1>1 DEF ReadOn
  <2>2. "sending" \in DOMAIN ReadOn(c) /\ ReadOn(c).sending = stream.sending
    BY <1>2, <2>1 DEF IsWholeThread
  <2> QED  BY <1>2, <1>3, <2>1, <2>2 DEF IsWholeThread, Fields
<1>5. ASSUME NEW response, ~t.stream.sending, UNCHANGED answers,
             thread' = [thread EXCEPT ![c] = Answered(r, response)]
      PROVE  TurnInv'
  <2>1. PICK u : u = Answered(r, response) /\ thread' = [thread EXCEPT ![c] = u]
    BY <1>5
  <2>2. Prepared(t, u)
    BY <1>4, <2>1, AnsweredPrepared DEF Prepared, StillAt
  <2>3. Prepares(t)
    BY <1>2, <1>5 DEF Prepares, Ending, Streams, Fetching
  <2> QED  BY <1>1, <1>2, <1>5, <2>1, <2>2, <2>3, PreparedInTurn DEF Silent, SameClient
<1>6. ASSUME t.stream.sending, NEW chunk, SendsOn(c, chunk) PROVE TurnInv'
  <2>1. PICK x : x = [Last(a) EXCEPT !.bytes = Last(a).bytes \o chunk, !.done = ~Remains(ReadOn(c))]
    OBVIOUS
  <2>2. PICK u, b : /\ u = After(r, Last(a).close) /\ thread' = [thread EXCEPT ![c] = u]
                    /\ b = Append(Front(a), x) /\ answers' = [answers EXCEPT ![c] = b]
    BY <1>1, <1>3, <1>6, <2>1 DEF SendsOn, LastAnswer
  <2>3. Streams(t) /\ StillAt(t, r)
    BY <1>2, <1>4, <1>6 DEF Streams, StillAt, Fetching
  <2>4. IsAnswer(Last(a))
    <3>1. IsSequence(a) /\ a # <<>> /\ \A i \in 1..Len(a) : IsAnswer(a[i])
      BY <1>1, <2>3 DEF OfTurn, AnswersOfTurn, SaidSo
    <3>2. Len(a) \in 1..Len(a)
      BY <3>1, SequenceIsSeq, EmptySeq
    <3> QED  BY <3>1, <3>2 DEF Last
  <2>5. IsAnswer(x) /\ x.to = Last(a).to /\ x.close = Last(a).close /\ (x.done <=> ~Remains(r.stream))
    BY <1>4, <2>1, <2>4 DEF IsAnswer
  <2>6. OfTurn(u, w, b, k, g, s)
    BY <1>1, <2>2, <2>3, <2>5, MoreOfTurn
  <2> QED  BY <1>1, <1>2, <2>2, <2>6, StepInTurn
<1>7. ASSUME UNCHANGED answers, (\E status : Fails(c, status)) \/ (g /\ Goes(c, "finishing"))
      PROVE  TurnInv'
  <2>1. Silent
    BY <1>2, <1>7 DEF Silent, SameClient
  <2> QED  BY <1>1, <1>2, <1>7, <2>1, FailsInTurn, EndsInTurn
<1> QED  BY <1>1, <1>3, <1>5, <1>6, <1>7 DEF FetchesPart

LEMMA AnswersSentInTurn ==
  ASSUME IInv, TurnInv, NEW c \in Connections, CountsAnswer(c) \/ SendsAnswer(c)
  PROVE  TurnInv'
<1>1. PICK t, w, a, k, g, s :
        /\ t = thread[c] /\ w = wire[c] /\ a = answers[c] /\ k = sent[c] /\ g = gone[c] /\ s = script[c]
        /\ OfTurn(t, w, a, k, g, s)
  BY DEF TurnInv
<1>2. CASE CountsAnswer(c)
  <2>1. Silent /\ Prepares(t)
    BY <1>1, <1>2, BusyPrepares DEF CountsAnswer, Quiet, Silent, At, Busy
  <2>2. CASE Goes(c, "sending")
    BY <1>1, <2>1, <2>2, GoesInTurn DEF Busy
  <2>3. ASSUME NEW telling, NEW kept,
               thread' = [thread EXCEPT ![c] = [thread[c] EXCEPT !.telling = telling, !.kept = kept]]
        PROVE  TurnInv'
    <3>1. PICK u : /\ u = [t EXCEPT !.telling = telling, !.kept = kept]
                   /\ thread' = [thread EXCEPT ![c] = u]
      BY <1>1, <2>3
    <3>2. IsWholeThread(u) /\ u.pc = "serving" /\ u.at = t.at /\ u.read = t.read
      BY <1>1, <1>2, <3>1 DEF CountsAnswer, At, OfTurn, IsWholeThread, Fields
    <3>3. Prepared(t, u)
      BY <3>2, BusyPrepares DEF Prepared, StillAt, Busy
    <3> QED  BY <1>1, <2>1, <3>1, <3>3, PreparedInTurn
  <2>4. ASSUME NEW n \in t.telling,
               thread' = [thread EXCEPT ![c].telling = @ \ {n}, ![c].kept = @ /\ KeptOpen(n)]
        PROVE  TurnInv'
    <3>1. thread' = [thread EXCEPT ![c] = [thread[c] EXCEPT !.telling = thread[c].telling \ {n},
                                                  !.kept = thread[c].kept /\ KeptOpen(n)]]
      BY <2>4, <1>1 DEF OfTurn, IsWholeThread, Fields, IInv, ThreadsAre
    <3> QED  BY <2>3, <3>1
  <2> QED  BY <1>1, <1>2, <2>2, <2>4 DEF CountsAnswer
<1>3. CASE SendsAnswer(c)
  <2>1. SameClient /\ UNCHANGED wire /\ t.pc = "sending"
    BY <1>1, <1>3 DEF SendsAnswer, Quiet, SameClient, At
  <2>2. CASE g /\ Goes(c, "finishing") /\ UNCHANGED answers
    BY <1>1, <2>1, <2>2, EndsInTurn DEF Silent, SameClient
  <2>3. CASE ~(g /\ Goes(c, "finishing") /\ UNCHANGED answers)
    <3>1. PICK u, b : /\ u = After(t, IsLast(t)) /\ thread' = [thread EXCEPT ![c] = u]
                      /\ b = Append(a, Answer(t)) /\ answers' = [answers EXCEPT ![c] = b]
      BY <1>1, <1>3, <2>3 DEF SendsAnswer
    <3>2. OfTurn(u, w, b, k, g, s)
      BY <1>1, <2>1, <3>1, AnswerOfTurn
    <3> QED  BY <1>1, <2>1, <3>1, <3>2, StepInTurn
  <2> QED  BY <2>2, <2>3
<1> QED  BY <1>2, <1>3

LEMMA ThreadsInTurn ==
  ASSUME IInv, TurnInv, NEW c \in Connections, Serves(c)
  PROVE  TurnInv'
BY HeadsInTurn, BodiesInTurn, SignersInTurn, BodiesAskedInTurn, AnsweringInTurn, EndingInTurn,
   FilesInTurn, PartsInTurn, AnswersSentInTurn DEF Serves

LEMMA ClientsInTurn ==
  ASSUME IInv, TurnInv, NEW c \in Connections, Sends(c) \/ Leaves(c)
  PROVE  TurnInv'
<1>1. PICK t, w, a, k, g, s :
        /\ t = thread[c] /\ w = wire[c] /\ a = answers[c] /\ k = sent[c] /\ g = gone[c] /\ s = script[c]
        /\ OfTurn(t, w, a, k, g, s)
  BY DEF TurnInv
<1>2. UNCHANGED <<script, answers, thread>> /\ DOMAIN gone = Connections /\ ~g
  BY <1>1 DEF Sends, Leaves, TurnInv
<1>3. DOMAIN wire = Connections /\ sent \in [Connections -> Nat] /\ \E T : w \in Seq(T)
  BY <1>1 DEF IInv, WiresAre
<1>4. CASE Sends(c)
  <2>1. PICK request, now, items :
          /\ request = s[k + 1] /\ (now <=> request.body = "cut")
          /\ items = w \o Items(k + 1, request)
          /\ wire' = [wire EXCEPT ![c] = items] /\ sent' = [sent EXCEPT ![c] = k + 1]
          /\ gone' = [gone EXCEPT ![c] = now]
    <3>1. PICK request, now, items :
            /\ request = script[c][sent[c] + 1] /\ now = (request.body = "cut")
            /\ items = wire[c] \o Items(sent[c] + 1, request)
      OBVIOUS
    <3>2. /\ wire' = [wire EXCEPT ![c] = items] /\ sent' = [sent EXCEPT ![c] = sent[c] + 1]
          /\ gone' = [gone EXCEPT ![c] = now]
      BY <1>4, <3>1 DEF Sends
    <3>3. now <=> request.body = "cut"
      BY <3>1
    <3> QED  BY <1>1, <3>1, <3>2, <3>3
  <2>2. OfTurn(t, w, a, k, FALSE, s)
    BY <1>1, <1>2 DEF OfTurn, AnswersOfTurn, WireOfTurn
  <2>3. k \in Nat
    BY <1>1, <1>3
  <2>4. OfTurn(t, items, a, k + 1, now, s)
    BY <1>3, <2>1, <2>2, <2>3, SentOfTurn
  <2>5. /\ wire'[c] = items /\ sent'[c] = k + 1 /\ gone'[c] = now /\ DOMAIN gone' = Connections
        /\ \A d \in Connections \ {c} : wire'[d] = wire[d] /\ sent'[d] = sent[d] /\ gone'[d] = gone[d]
    BY <1>2, <1>3, <2>1
  <2> QED  BY <1>1, <1>2, <2>4, <2>5 DEF TurnInv
<1>5. CASE Leaves(c)
  <2>1. gone' = [gone EXCEPT ![c] = TRUE] /\ UNCHANGED <<wire, sent>>
    BY <1>5 DEF Leaves
  <2>2. OfTurn(t, w, a, k, TRUE, s)
    BY <1>1 DEF OfTurn, AnswersOfTurn, WireOfTurn
  <2>3. /\ gone'[c] = TRUE /\ DOMAIN gone' = Connections
        /\ \A d \in Connections \ {c} : gone'[d] = gone[d]
    BY <1>2, <2>1
  <2> QED  BY <1>1, <1>2, <2>1, <2>2, <2>3 DEF TurnInv
<1> QED  BY <1>4, <1>5

LEMMA TickInTurn ==
  ASSUME IInv, TurnInv, Tick
  PROVE  TurnInv'
<1>1. UNCHANGED <<script, sent, gone, wire, answers>>
      /\ thread' = [d \in Connections |-> IF Waiting(thread[d]) THEN Later(thread[d]) ELSE thread[d]]
  BY DEF Tick, wires
<1>2. ASSUME NEW d \in Connections
      PROVE  OfTurn(thread'[d], wire[d], answers[d], sent[d], gone[d], script[d])
  <2>1. OfTurn(thread[d], wire[d], answers[d], sent[d], gone[d], script[d])
    BY DEF TurnInv
  <2>2. PICK t : t = thread[d] /\ IsWholeThread(t)
    BY <2>1 DEF OfTurn
  <2>3. CASE ~Waiting(t)
    BY <1>1, <2>1, <2>2, <2>3
  <2>4. CASE Waiting(t)
    <3>1. PICK u : u = Later(t) /\ thread'[d] = u
      BY <1>1, <2>2, <2>4
    <3>2. t.pc \in Fetching
      BY <2>4 DEF Waiting, Fetching
    <3>3. /\ IsWholeThread(u) /\ u.pc = (IF t.pc = "pausing" THEN "asking" ELSE t.pc)
          /\ u.at = t.at /\ u.read = t.read /\ u.stream.sending = t.stream.sending
      <4>1. PICK waits, asked, stream :
              /\ stream = [t.stream EXCEPT !.deadline = waits, !.asked = asked]
              /\ u = [t EXCEPT !.pc = IF t.pc = "pausing" THEN "asking" ELSE t.pc, !.stream = stream]
        <5> DEFINE waits == IF t.stream.deadline > 0 THEN t.stream.deadline - 1 ELSE 0
                   asked == [x \in DOMAIN t.stream.asked |->
                               IF t.stream.asked[x] < AskAgain THEN t.stream.asked[x] + 1
                               ELSE t.stream.asked[x]]
                   stream == [t.stream EXCEPT !.deadline = waits, !.asked = asked]
        <5>1. u = [t EXCEPT !.pc = IF t.pc = "pausing" THEN "asking" ELSE t.pc, !.stream = stream]
          BY <2>2, <3>1 DEF Later, IsWholeThread, Fields
        <5> HIDE DEF waits, asked
        <5> QED  BY <5>1
      <4>2. DOMAIN stream = DOMAIN t.stream /\ stream.sending = t.stream.sending
        BY <2>2, <4>1 DEF IsWholeThread
      <4> QED  BY <2>2, <4>1, <4>2 DEF IsWholeThread, Fields
    <3>4. Continues(t, u)
      BY <2>2, <3>2, <3>3, FetchingContinues DEF Fetching
    <3> QED  BY <2>1, <2>2, <3>1, <3>4, ContinuesOfTurn
  <2> QED  BY <2>3, <2>4
<1> QED  BY <1>1, <1>2 DEF TurnInv

LEMMA StepsInTurn ==
  ASSUME IInv, TurnInv, [Next]_vars
  PROVE  TurnInv'
<1>1. CASE UNCHANGED <<script, sent, gone, wire, answers, thread>>
  BY <1>1 DEF TurnInv
<1>2. ASSUME NEW x \in Content, Arrives(x) \/ Shuns(x) \/ Deletes(x) \/ Misses(x)
      PROVE  UNCHANGED <<script, sent, gone, wire, answers, thread>>
  BY <1>2 DEF Arrives, Shuns, Deletes, Misses, Others, wires
<1>3. CASE Derives
  BY <1>1, <1>3 DEF Derives, Others, wires
<1>4. CASE UNCHANGED vars
  BY <1>1, <1>4 DEF vars, wires
<1> QED
  BY <1>1, <1>2, <1>3, <1>4, ThreadsInTurn, ClientsInTurn, TickInTurn DEF Next, AllClosed

LEMMA InitInTurn == ServingAssumption /\ KeepingAssumption /\ Init => TurnInv
<1> SUFFICES ASSUME ServingAssumption, KeepingAssumption, Init PROVE TurnInv
  OBVIOUS
<1>1. DOMAIN gone = Connections
  BY DEF Init
<1>2. ASSUME NEW c \in Connections
      PROVE  OfTurn(thread[c], wire[c], answers[c], sent[c], gone[c], script[c])
  <2>1. wire[c] = <<>> /\ answers[c] = <<>> /\ sent[c] = 0
    BY DEF Init
  <2>2. AnswersOfTurn(NewThread, <<>>, gone[c]) /\ IsWholeThread(NewThread)
    <3>1. NewThread.pc = "reading" /\ NewThread.at = 0 /\ NewThread.read = TRUE
      BY DEF NewThread
    <3>2. IsWholeThread(NewThread)
      BY DEF IsWholeThread, Fields, NewThread, NoStream
    <3>3. ~Prepares(NewThread) /\ ~Streams(NewThread) /\ ~Ending(NewThread)
      BY <3>1 DEF Prepares, Streams, Ending, Fetching
    <3>4. IsSequence(<<>>) /\ Len(<<>>) = 0
      BY DEF IsSequence
    <3> QED  BY <3>1, <3>2, <3>3, <3>4 DEF AnswersOfTurn, Whole
  <2>3. CASE ~gone[c]
    <3>1. thread[c] = NewThread
      BY <2>3 DEF Init
    <3>2. NewThread.pc = "reading" /\ Awaited(NewThread) = HeadOf(1)
      BY DEF NewThread, Awaited
    <3>3. WireOfTurn(NewThread, <<>>, 0, gone[c], script[c])
      BY <3>2 DEF WireOfTurn, ItemAt
    <3> QED  BY <2>1, <2>2, <3>1, <3>2, <3>3 DEF OfTurn
  <2>4. CASE gone[c]
    <3>1. PICK u : u = [NewThread EXCEPT !.pc = "closed"] /\ thread[c] = u
      BY <2>4 DEF Init
    <3>2. IsWholeThread(u) /\ u.pc = "closed"
      BY <3>1 DEF IsWholeThread, Fields, NewThread, NoStream
    <3>3. Ending(u) /\ ~Prepares(u) /\ ~Streams(u)
      BY <3>2 DEF Prepares, Streams, Ending, Fetching
    <3>4. AnswersOfTurn(u, <<>>, gone[c])
      BY <2>2, <2>4, <3>2, <3>3 DEF AnswersOfTurn
    <3> QED  BY <2>1, <3>1, <3>2, <3>3, <3>4 DEF OfTurn
  <2> QED  BY <2>3, <2>4
<1> QED  BY <1>1, <1>2 DEF TurnInv

(* Each answer is of the request sent in its turn, whatever the clients send *)
(* and leave unread: no body is taken for a request, only the last answer of *)
(* a connection may close it or be cut short, and a client that stays is     *)
(* closed only after such an answer (RequestHandler: _handle, _send,         *)
(* _stream).                                                                 *)
THEOREM ServingInTurn == Spec => []InTurn
<1>1. Init => IInv /\ TurnInv
  BY InitIsCounted, InitInTurn, ServingAssumption, KeepingAssumption
<1>2. IInv /\ TurnInv /\ [Next]_vars => (IInv /\ TurnInv)'
  BY StepCounted, StepsInTurn, ServingAssumption
<1>3. IInv /\ TurnInv => InTurn
  <2> SUFFICES ASSUME TurnInv, NEW c \in Connections
               PROVE  /\ \A i \in DOMAIN answers[c] :
                           LET answer == answers[c][i]
                           IN answer.to = i /\ (answer.close \/ ~answer.done => i = Len(answers[c]))
                      /\ At(c, "closed") /\ ~gone[c] =>
                           answers[c] # <<>> /\ (LastAnswer(c).close \/ ~LastAnswer(c).done)
    BY DEF InTurn
  <2>1. PICK t, a, g : /\ t = thread[c] /\ a = answers[c] /\ g = gone[c] /\ AnswersOfTurn(t, a, g)
    BY DEF TurnInv, OfTurn
  <2>2. PICK n \in Nat : n = Len(a) /\ DOMAIN a = 1..n
    BY <2>1 DEF AnswersOfTurn, IsSequence
  <2>3. \A i \in 1..n : a[i].to = i /\ (a[i].close \/ ~a[i].done => i = n)
    BY <2>1, <2>2 DEF AnswersOfTurn, Whole
  <2>4. t.pc = "closed" /\ ~g => SaidSo(a)
    BY <2>1 DEF AnswersOfTurn, Ending
  <2>5. LastAnswer(c) = a[Len(a)]
    BY <2>1 DEF LastAnswer, Last
  <2> QED  BY <2>1, <2>2, <2>3, <2>4, <2>5 DEF SaidSo, At
<1> QED  BY <1>1, <1>2, <1>3, PTL DEF Spec
=============================================================================
