---------------------------- MODULE EvictionProofs ----------------------------
(***************************************************************************)
(* Proofs about the eviction module, for every value of its constants.     *)
(***************************************************************************)
EXTENDS Eviction, SequenceTheorems, FiniteSetTheorems, TLAPS

(* A message that says a peer holds content, or that it is shunned, says so *)
(* truly, given what peers have accepted and what is shunned.               *)
Honest(message, taken, refused) ==
    /\ message.type = "eviction.acknowledged" /\ message.holders >= HandOffCopies
           => message.content \in taken
    /\ message.type = "data.shunned" => message.content \in refused

AllHonest == \A i \in DOMAIN inbox : Honest(inbox[i], elsewhere, shunned)

(* The inductive invariant behind KeepsSafely: nothing that waits to be     *)
(* handled could have content deleted that only this node holds.            *)
SafeInv ==
    /\ store \subseteq Content
    /\ inbox \in Seq(Messages)
    /\ offers \subseteq Content
    /\ elsewhere \subseteq Content
    /\ shunned \subseteq Content
    /\ offers \subseteq store \cup elsewhere \cup shunned
    /\ linked \in [Directions -> SUBSET Nodes]
    /\ writing \in [Writers -> [phase : {"resting", "missing", "stored"}, content : Content]]
    /\ AllHonest

Grows == /\ elsewhere \subseteq elsewhere'
         /\ shunned \subseteq shunned'

-----------------------------------------------------------------------------
(* What happens to the inbox, in each of the ways it can. *)

LEMMA StillHonest ==
    ASSUME NEW message, NEW e1, NEW e2, NEW s1, NEW s2, e1 \subseteq e2, s1 \subseteq s2,
           Honest(message, e1, s1)
    PROVE  Honest(message, e2, s2)
BY DEF Honest

LEMMA InboxKept ==
    ASSUME inbox \in Seq(Messages), AllHonest, Grows, UNCHANGED inbox
    PROVE  inbox' \in Seq(Messages) /\ AllHonest'
BY StillHonest DEF AllHonest, Grows

LEMMA InboxDelivered ==
    ASSUME NEW message \in Messages, Honest(message, elsewhere', shunned'),
           inbox \in Seq(Messages), AllHonest, Grows, Deliver(message)
    PROVE  inbox' \in Seq(Messages) /\ AllHonest'
<1> inbox' \in Seq(Messages)
  BY DEF Deliver
<1> SUFFICES ASSUME NEW i \in DOMAIN inbox'
             PROVE  Honest(inbox'[i], elsewhere', shunned')
  BY DEF AllHonest
<1>1. CASE i \in DOMAIN inbox
  BY <1>1, StillHonest DEF Deliver, AllHonest, Grows
<1>2. CASE i \notin DOMAIN inbox
  BY <1>2 DEF Deliver
<1> QED BY <1>1, <1>2

LEMMA InboxHandled ==
    ASSUME NEW type, inbox \in Seq(Messages), AllHonest, Receive(type), Grows
    PROVE  /\ inbox' \in Seq(Messages) /\ AllHonest'
           /\ Honest(Head(inbox), elsewhere, shunned)
           /\ Head(inbox) \in Messages
           /\ Head(inbox).type = type
<1> inbox # <<>> /\ inbox' = Tail(inbox)
  BY DEF Receive
<1> 1 \in DOMAIN inbox /\ Head(inbox) = inbox[1]
  OBVIOUS
<1> \A i \in DOMAIN inbox' : i + 1 \in DOMAIN inbox /\ inbox'[i] = inbox[i + 1]
  OBVIOUS
<1> QED
  BY StillHonest DEF AllHonest, Receive, Grows

(* RemoveAt only takes away. *)
LEMMA RemoveAtElements ==
    ASSUME NEW S, NEW s \in Seq(S), NEW i \in DOMAIN s
    PROVE  /\ RemoveAt(s, i) \in Seq(S)
           /\ \A j \in DOMAIN RemoveAt(s, i) : \E k \in DOMAIN s : RemoveAt(s, i)[j] = s[k]
<1> DEFINE before == SubSeq(s, 1, i - 1)
           after == SubSeq(s, i + 1, Len(s))
<1>1. /\ before \in Seq(S) /\ Len(before) = i - 1
      /\ \A j \in 1..(i - 1) : before[j] = s[j]
  OBVIOUS
<1>2. /\ after \in Seq(S) /\ Len(after) = Len(s) - i
      /\ \A j \in 1..(Len(s) - i) : after[j] = s[i + j]
  <2>1. /\ i + 1 \in Int /\ Len(s) \in Int
        /\ \A j \in (i + 1)..Len(s) : s[j] \in S
    OBVIOUS
  <2>2. /\ after \in Seq(S)
        /\ Len(after) = IF i + 1 <= Len(s) THEN Len(s) - (i + 1) + 1 ELSE 0
        /\ \A j \in 1..(Len(s) - (i + 1) + 1) : after[j] = s[(i + 1) + j - 1]
    BY <2>1, SubSeqProperties
  <2>. QED BY <2>2
<1>3. /\ before \o after \in Seq(S)
      /\ Len(before \o after) = Len(before) + Len(after)
      /\ \A j \in 1..(Len(before) + Len(after)) :
             (before \o after)[j] = IF j <= Len(before) THEN before[j]
                                    ELSE after[j - Len(before)]
  BY <1>1, <1>2, ConcatProperties
<1>4. RemoveAt(s, i) = before \o after
  BY DEF RemoveAt
<1> HIDE DEF before, after
<1>5. ASSUME NEW j \in DOMAIN (before \o after)
      PROVE  \E k \in DOMAIN s : (before \o after)[j] = s[k]
  <2>1. CASE j <= i - 1
    <3>1. j \in DOMAIN s /\ (before \o after)[j] = s[j]
      BY <1>1, <1>2, <1>3, <2>1
    <3>. QED BY <3>1
  <2>2. CASE j > i - 1
    <3>1. j + 1 \in DOMAIN s /\ (before \o after)[j] = s[j + 1]
      BY <1>1, <1>2, <1>3, <2>2
    <3>. QED BY <3>1
  <2>. QED BY <2>1, <2>2, <1>1, <1>2, <1>3
<1> QED BY <1>3, <1>4, <1>5

LEMMA InboxLost ==
    ASSUME NEW i \in DOMAIN inbox, inbox \in Seq(Messages), AllHonest, Grows,
           inbox' = RemoveAt(inbox, i)
    PROVE  inbox' \in Seq(Messages) /\ AllHonest'
<1>1. /\ inbox' \in Seq(Messages)
      /\ \A j \in DOMAIN inbox' : \E k \in DOMAIN inbox : inbox'[j] = inbox[k]
  BY RemoveAtElements
<1>2. ASSUME NEW j \in DOMAIN inbox'
      PROVE  Honest(inbox'[j], elsewhere', shunned')
  <2>1. PICK k \in DOMAIN inbox : inbox'[j] = inbox[k]
    BY <1>1
  <2>2. Honest(inbox[k], elsewhere, shunned)
    BY DEF AllHonest
  <2>. QED BY <2>1, <2>2, StillHonest DEF Grows
<1> QED BY <1>1, <1>2 DEF AllHonest

-----------------------------------------------------------------------------
(* Every step keeps SafeInv, and is a step of SafeKeeping or stutters.      *)

Keeps == SafeInv' /\ [Keeping!Next]_(Keeping!vars)

(* A handler that leaves the store as it is. *)
LEMMA HandlerKeeps ==
    ASSUME NEW type, SafeInv, Receive(type), UNCHANGED <<store, writing, peers, history>>
    PROVE  Keeps
<1>1. Grows
  BY DEF Grows, peers, history
<1>2. inbox' \in Seq(Messages) /\ AllHonest'
  BY <1>1, InboxHandled DEF SafeInv
<1>3. SafeInv'
  BY <1>2 DEF SafeInv, peers, history
<1>4. UNCHANGED Keeping!vars
  BY DEF Keeping!vars, peers, history
<1> QED BY <1>3, <1>4 DEF Keeps

(* A handler that deletes content that may go. *)
LEMMA DeletionKeeps ==
    ASSUME NEW type, NEW c \in Content, SafeInv, Receive(type),
           UNCHANGED <<writing, peers, history>>,
           store' = store \ {c}, c # Own, c \in elsewhere \cup shunned
    PROVE  Keeps
<1>1. Grows
  BY DEF Grows, peers, history
<1>2. inbox' \in Seq(Messages) /\ AllHonest'
  BY <1>1, InboxHandled DEF SafeInv
<1>3. SafeInv'
  BY <1>2 DEF SafeInv, peers, history
<1>4. Keeping!LetGo(c)
  BY DEF Keeping!LetGo, peers, history
<1> QED BY <1>3, <1>4 DEF Keeps, Keeping!Next

LEMMA AcknowledgedKeeps ==
    ASSUME SafeInv, OnEvictionAcknowledged
    PROVE  Keeps
<1> USE DEF OnEvictionAcknowledged
<1> DEFINE c == Head(inbox).content
           goes == ~Kept([mem EXCEPT !.handingOff[c] = NoTimer], c) /\ mem.grace[c] = 0 /\ c \in store
<1>1. Receive("eviction.acknowledged")
  OBVIOUS
<1>2. CASE UNCHANGED store
  BY <1>1, <1>2, HandlerKeeps
<1>3. CASE store' # store
  <2>1. /\ Head(inbox).holders >= HandOffCopies
        /\ store' = store \ {c}
        /\ c # Own
        /\ c \in store
    BY <1>3 DEF Kept
  <2>2. Honest(Head(inbox), elsewhere, shunned)
    BY <1>1, InboxHandled DEF SafeInv, Grows, peers, history
  <2>3. c \in elsewhere
    BY <1>1, <2>1, <2>2 DEF Honest, Receive
  <2>. QED BY <1>1, <2>1, <2>3, DeletionKeeps DEF SafeInv
<1> QED BY <1>2, <1>3

LEMMA ShunnedKeeps ==
    ASSUME SafeInv, OnDataShunned
    PROVE  Keeps
<1> USE DEF OnDataShunned
<1> DEFINE c == Head(inbox).content
<1>1. Receive("data.shunned")
  OBVIOUS
<1>2. CASE UNCHANGED store
  BY <1>1, <1>2, HandlerKeeps
<1>3. CASE store' # store
  <2>1. store' = store \ {c} /\ c # Own /\ c \in store
    BY <1>3 DEF Kept
  <2>2. Honest(Head(inbox), elsewhere, shunned)
    BY <1>1, InboxHandled DEF SafeInv, Grows, peers, history
  <2>3. c \in shunned
    BY <1>1, <2>2 DEF Honest, Receive
  <2>. QED BY <1>1, <2>1, <2>3, DeletionKeeps DEF SafeInv
<1> QED BY <1>2, <1>3

LEMMA ModuleKeeps ==
    ASSUME SafeInv, Module
    PROVE  Keeps
<1>1. CASE Start
  <2>1. SafeInv' /\ UNCHANGED Keeping!vars
    BY <1>1, InboxKept DEF Start, SafeInv, Grows, AllHonest, peers, history, Keeping!vars
  <2>. QED BY <2>1 DEF Keeps
<1>2. CASE OnDataStored
  BY <1>2, HandlerKeeps DEF OnDataStored
<1>3. CASE OnEvictionAcknowledged
  BY <1>3, AcknowledgedKeeps
<1>4. CASE OnEvictionCandidates
  BY <1>4, HandlerKeeps DEF OnEvictionCandidates
<1>5. CASE OnDataShunned
  BY <1>5, ShunnedKeeps
<1>6. CASE OnPeersConnected
  BY <1>6, HandlerKeeps DEF OnPeersConnected
<1>7. CASE OnStorageFullRequested
  BY <1>7, HandlerKeeps DEF OnStorageFullRequested
<1>8. CASE OnResolvedReclaimed
  BY <1>8, HandlerKeeps DEF OnResolvedReclaimed
<1>9. CASE OnIdle
  <2>1. SafeInv' /\ UNCHANGED Keeping!vars
    BY <1>9 DEF OnIdle, SafeInv, AllHonest, peers, history, Keeping!vars
  <2>. QED BY <2>1 DEF Keeps
<1> QED BY <1>1, <1>2, <1>3, <1>4, <1>5, <1>6, <1>7, <1>8, <1>9 DEF Module

(* A step of another module that leaves the store as it is, and sends the   *)
(* eviction module one message at most.                                     *)
SendsHonestly ==
    \/ UNCHANGED inbox
    \/ \E message \in Messages : Honest(message, elsewhere', shunned') /\ Deliver(message)

LEMMA SenderKeeps ==
    ASSUME SafeInv, SendsHonestly, Grows, UNCHANGED store,
           offers' \subseteq offers \/ offers' \subseteq offers \cup store,
           elsewhere' \subseteq elsewhere \cup offers, shunned' \subseteq Content,
           linked' \in [Directions -> SUBSET Nodes],
           writing' \in [Writers -> [phase : {"resting", "missing", "stored"},
                                     content : Content]]
    PROVE  SafeInv'
<1>1. inbox' \in Seq(Messages) /\ AllHonest'
  <2>1. CASE UNCHANGED inbox
    BY <2>1, InboxKept DEF SafeInv
  <2>2. CASE \E message \in Messages : Honest(message, elsewhere', shunned') /\ Deliver(message)
    BY <2>2, InboxDelivered DEF SafeInv
  <2>. QED BY <2>1, <2>2 DEF SendsHonestly
<1> QED BY <1>1 DEF SafeInv, Grows

LEMMA AcceptKeeps ==
    ASSUME SafeInv, SafeInv', UNCHANGED <<store, shunned>>,
           NEW taken \in SUBSET offers, elsewhere' = elsewhere \cup taken
    PROVE  Keeps
<1>1. Keeping!Accept(taken) /\ taken \in SUBSET Content
  BY DEF Keeping!Accept, SafeInv
<1> QED BY <1>1 DEF Keeps, Keeping!Next

LEMMA StutterKeeps ==
    ASSUME SafeInv', UNCHANGED <<store, elsewhere, shunned>>
    PROVE  Keeps
BY DEF Keeps, Keeping!vars

LEMMA HandOffEndKeeps ==
    ASSUME SafeInv, NEW c \in Content, NEW holders \in 0..HandOffCopies,
           HandOffEnds(c, holders), NEW taken \in SUBSET {c}, elsewhere' = elsewhere \cup taken,
           holders > 0 => taken = {c}
    PROVE  Keeps
<1> USE DEF HandOffEnds
<1>1. c \in offers /\ taken \in SUBSET offers /\ UNCHANGED <<store, writing, shunned>> /\ Grows
  BY DEF Grows, history
<1>2. SendsHonestly
  <2>1. LET message == [type |-> "eviction.acknowledged", content |-> c, holders |-> holders]
        IN  message \in Messages /\ Honest(message, elsewhere', shunned')
    BY DEF Messages, Honest, HandOffCopies
  <2>. QED BY <2>1 DEF SendsHonestly, Acknowledge
<1>3. SafeInv'
  BY <1>1, <1>2, SenderKeeps DEF SafeInv
<1> QED BY <1>1, <1>3, AcceptKeeps

LEMMA HandOffStartKeeps ==
    ASSUME SafeInv, NEW c \in Content, HandOffStarts(c)
    PROVE  Keeps
<1> USE DEF HandOffStarts
<1>1. UNCHANGED <<store, writing, elsewhere, shunned>> /\ Grows
  BY DEF Grows, history
<1>2. SendsHonestly
  <2>1. LET message == [type |-> "eviction.acknowledged", content |-> c, holders |-> 0]
        IN  message \in Messages /\ Honest(message, elsewhere', shunned')
    BY DEF Messages, Honest, HandOffCopies
  <2>. QED BY <2>1 DEF SendsHonestly, Acknowledge
<1>3. offers' \subseteq offers \cup store
  OBVIOUS
<1>4. SafeInv'
  BY <1>1, <1>2, <1>3, SenderKeeps DEF SafeInv
<1> QED BY <1>1, <1>4, StutterKeeps

LEMMA LinksKeep ==
    ASSUME SafeInv, NEW d \in Directions, NEW nodes \in SUBSET Nodes, Deliver(Connected(d, nodes)),
           UNCHANGED <<store, offers, elsewhere, writing, shunned>>,
           linked' \in [Directions -> SUBSET Nodes]
    PROVE  Keeps
<1>1. SendsHonestly
  <2>1. Connected(d, nodes) \in Messages /\ Honest(Connected(d, nodes), elsewhere', shunned')
    BY DEF Messages, Honest, Connected
  <2>. QED BY <2>1 DEF SendsHonestly
<1>2. SafeInv'
  BY <1>1, SenderKeeps DEF SafeInv, Grows
<1> QED BY <1>2, StutterKeeps

(* An answer, or a question, that is neither an acknowledgement nor about   *)
(* what is shunned.                                                         *)
LEMMA AnswerKeeps ==
    ASSUME SafeInv, NEW message \in Messages, Deliver(message),
           message.type \notin {"eviction.acknowledged", "data.shunned"},
           UNCHANGED <<store, offers, elsewhere, shunned, linked>>,
           writing' \in [Writers -> [phase : {"resting", "missing", "stored"},
                                     content : Content]]
    PROVE  Keeps
<1>1. SendsHonestly
  BY DEF SendsHonestly, Honest
<1>2. SafeInv'
  BY <1>1, SenderKeeps DEF SafeInv, Grows
<1> QED BY <1>2, StutterKeeps

LEMMA StatsKeeps ==
    ASSUME SafeInv, StatsAnswers
    PROVE  Keeps
<1>1. PICK objects \in SeqOf(Content, MaxCandidates) :
          Deliver([type |-> "eviction.candidates", objects |-> objects])
  <2>1. SeqOf(store \ (Head(requests).exclude \cup {Own}), MaxCandidates)
            \subseteq SeqOf(Content, MaxCandidates)
    BY DEF SeqOf, SafeInv
  <2>. QED BY <2>1 DEF StatsAnswers
<1>2. objects \in Seq(Content)
  <2>1. MaxCandidates \in Nat
    BY EvictionAssumption
  <2>2. PICK n \in 0..MaxCandidates : objects \in [1..n -> Content]
    BY <2>1 DEF SeqOf
  <2>. QED BY <2>1, <2>2
<1>3. [type |-> "eviction.candidates", objects |-> objects] \in Messages
  BY <1>2 DEF Messages
<1> QED BY <1>1, <1>3, AnswerKeeps DEF StatsAnswers, SafeInv, peers, history

LEMMA SurroundingsKeep ==
    ASSUME SafeInv, Surroundings
    PROVE  Keeps
<1> USE DEF peers, history
<1>1. CASE StatsAnswers
  BY <1>1, StatsKeeps
<1>2. CASE UnbundlerReclaims
  <2>1. [type |-> "resolved.reclaimed"] \in Messages
    BY DEF Messages
  <2>. QED BY <1>2, <2>1, AnswerKeeps DEF UnbundlerReclaims, SafeInv
<1>3. CASE BackupAsks
  <2>1. [type |-> "storage.full_requested"] \in Messages
    BY DEF Messages
  <2>. QED BY <1>3, <2>1, AnswerKeeps DEF BackupAsks, Announce, SafeInv
<1>4. CASE FreeSpaceChanges
  <2>1. SafeInv'
    BY <1>4, SenderKeeps DEF FreeSpaceChanges, SendsHonestly, SafeInv, Grows, bus
  <2>. QED BY <1>4, <2>1, StutterKeeps DEF FreeSpaceChanges
<1>5. ASSUME NEW c \in Content, HandOffStarts(c)
      PROVE  Keeps
  BY <1>5, HandOffStartKeeps
<1>6. ASSUME NEW c \in Content, PeerAccepts(c)
      PROVE  Keeps
  <2>1. /\ HandOffCopies \in 0..HandOffCopies /\ {c} \in SUBSET {c}
        /\ elsewhere' = elsewhere \cup {c}
    BY <1>6 DEF PeerAccepts, HandOffCopies
  <2>. QED BY <1>6, <2>1, HandOffEndKeeps DEF PeerAccepts
<1>7. ASSUME NEW c \in Content, PeersRefuse(c)
      PROVE  Keeps
  <2>1. PICK taken \in SUBSET {c} : elsewhere' = elsewhere \cup taken
    BY <1>7 DEF PeersRefuse, Taken
  <2>. QED BY <1>7, <2>1, HandOffEndKeeps DEF PeersRefuse, HandOffCopies
<1>8. ASSUME NEW c \in Content, Shuns(c)
      PROVE  Keeps
  <2>1. Deliver([type |-> "data.shunned", content |-> c]) /\ c \in shunned'
    BY <1>8 DEF Shuns, Announce
  <2>2. SendsHonestly
    <3>1. LET message == [type |-> "data.shunned", content |-> c]
          IN  message \in Messages /\ Honest(message, elsewhere', shunned')
      BY <2>1 DEF Messages, Honest
    <3>. QED BY <2>1, <3>1 DEF SendsHonestly
  <2>3. SafeInv'
    BY <1>8, <2>2, SenderKeeps DEF Shuns, SafeInv, Grows
  <2>4. Keeping!Shun(c)
    BY <1>8 DEF Shuns, Keeping!Shun
  <2>. QED BY <2>3, <2>4 DEF Keeps, Keeping!Next
<1>9. ASSUME NEW d \in Directions, NEW p \in Nodes, Opened(d, p) \/ Closed(d, p),
             linked[d] \subseteq Nodes
      PROVE  Keeps
  <2>1. PICK nodes \in SUBSET Nodes : LinksChange(d, nodes)
    BY <1>9 DEF Opened, Closed
  <2>2. linked' \in [Directions -> SUBSET Nodes]
    BY <2>1 DEF LinksChange, SafeInv
  <2>. QED BY <2>1, <2>2, LinksKeep DEF LinksChange, Announce
<1>10. ASSUME NEW d \in Directions, OnPeersConnectedRequested(d), linked[d] \subseteq Nodes
       PROVE  Keeps
  BY <1>10, LinksKeep DEF OnPeersConnectedRequested, SafeInv
<1>11. ASSUME NEW w \in Writers, Stores(w)
       PROVE  Keeps
  <2>1. writing[w].content \in Content
    BY DEF SafeInv
  <2>2. SafeInv'
    BY <1>11, <2>1, InboxKept DEF Stores, SafeInv, Grows, AllHonest, bus
  <2>3. Keeping!Keep(writing[w].content)
    BY <1>11 DEF Stores, Keeping!Keep
  <2>. QED BY <2>1, <2>2, <2>3 DEF Keeps, Keeping!Next
<1>12. ASSUME NEW w \in Writers, Announces(w)
       PROVE  Keeps
  <2>1. [type |-> "data.stored", content |-> writing[w].content] \in Messages
    BY DEF Messages, SafeInv
  <2>2. writing' \in [Writers -> [phase : {"resting", "missing", "stored"}, content : Content]]
    BY <1>12, EvictionAssumption DEF Announces, SafeInv, Resting
  <2>. QED BY <1>12, <2>1, <2>2, AnswerKeeps DEF Announces
<1>13. ASSUME NEW w \in Writers, NEW c \in Content, LooksFor(w, c)
       PROVE  Keeps
  <2>1. writing' \in [Writers -> [phase : {"resting", "missing", "stored"}, content : Content]]
    BY <1>13 DEF LooksFor, SafeInv
  <2>2. SafeInv'
    BY <1>13, <2>1, SenderKeeps DEF LooksFor, SendsHonestly, SafeInv, Grows, bus
  <2>. QED BY <1>13, <2>2, StutterKeeps DEF LooksFor
<1> QED
  BY <1>1, <1>2, <1>3, <1>4, <1>5, <1>6, <1>7, <1>8, <1>9, <1>10, <1>11, <1>12, <1>13
  DEF Surroundings, SafeInv

LEMMA FailuresKeep ==
    ASSUME SafeInv, Failures
    PROVE  Keeps
<1> USE DEF peers, history
<1>1. CASE EvictionCrashes
  <2>1. SafeInv'
    BY <1>1 DEF EvictionCrashes, SafeInv, AllHonest, bus
  <2>. QED BY <1>1, <2>1, StutterKeeps DEF EvictionCrashes
<1>2. CASE MessageLost
  <2>1. CASE UNCHANGED inbox
    <3>1. SafeInv'
      BY <1>2, <2>1 DEF MessageLost, SafeInv, AllHonest
    <3>. QED BY <1>2, <3>1, StutterKeeps DEF MessageLost
  <2>2. CASE \E i \in DOMAIN inbox : inbox' = RemoveAt(inbox, i)
    <3>1. inbox' \in Seq(Messages) /\ AllHonest'
      BY <1>2, <2>2, InboxLost DEF MessageLost, SafeInv, Grows
    <3>2. SafeInv'
      BY <1>2, <3>1 DEF MessageLost, SafeInv
    <3>. QED BY <1>2, <3>2, StutterKeeps DEF MessageLost
  <2>. QED BY <1>2, <2>1, <2>2 DEF MessageLost
<1>3. ASSUME NEW d \in Directions, LinksCrash(d)
      PROVE  Keeps
  <2>1. PICK taken \in SUBSET (offers \ offers') : elsewhere' = elsewhere \cup taken
    BY <1>3 DEF LinksCrash, Taken
  <2>2. SendsHonestly
    <3>1. Connected(d, {}) \in Messages /\ Honest(Connected(d, {}), elsewhere', shunned')
      BY DEF Messages, Honest, Connected
    <3>. QED BY <1>3, <3>1 DEF LinksCrash, Announce, SendsHonestly
  <2>3. SafeInv'
    BY <1>3, <2>1, <2>2, SenderKeeps DEF LinksCrash, SafeInv, Grows
  <2>. QED BY <1>3, <2>1, <2>3, AcceptKeeps DEF LinksCrash
<1>4. ASSUME NEW w \in Writers, WriterCrashes(w)
      PROVE  Keeps
  <2>1. SafeInv'
    BY <1>4, EvictionAssumption DEF WriterCrashes, SafeInv, Resting, AllHonest, bus
  <2>. QED BY <1>4, <2>1, StutterKeeps DEF WriterCrashes
<1> QED BY <1>1, <1>2, <1>3, <1>4 DEF Failures

LEMMA NextKeeps ==
    ASSUME SafeInv, [Next]_vars
    PROVE  Keeps
<1>1. CASE Tick
  <2>1. SafeInv'
    BY <1>1 DEF Tick, SafeInv, AllHonest, bus, peers
  <2>. QED BY <1>1, <2>1, StutterKeeps DEF Tick, peers
<1>2. CASE UNCHANGED vars
  BY <1>2 DEF vars, Keeps, SafeInv, AllHonest, Keeping!vars
<1> QED
  BY <1>1, <1>2, ModuleKeeps, SurroundingsKeep, FailuresKeep DEF Next

LEMMA InitSafe == Init => SafeInv /\ Keeping!Init
BY EvictionAssumption DEF Init, SafeInv, AllHonest, Keeping!Init, Resting

(* The eviction module implements SafeKeeping: whatever the order of its    *)
(* messages, and whoever crashes, content leaves the source of truth only   *)
(* once a peer has accepted it or the owner has shunned it.                 *)
THEOREM EvictionKeepsSafely == Spec => KeepsSafely
<1>1. Spec => []SafeInv
  BY InitSafe, NextKeeps, PTL DEF Spec, Keeps
<1>2. SafeInv /\ [Next]_vars => [Keeping!Next]_(Keeping!vars)
  BY NextKeeps DEF Keeps
<1> QED BY InitSafe, <1>1, <1>2, PTL DEF Spec, KeepsSafely, Keeping!Spec

-----------------------------------------------------------------------------
(* The memory of the module, through what every handler ends with.         *)

Request == [bytes : Int, exclude : SUBSET Content]

LEMMA SettingsTyped ==
    /\ Own \in Content /\ IsFiniteSet(Content) /\ IsFiniteSet(Writers)
    /\ MaxHeld \in Nat \cup {NoLimit}
    /\ MinFree \in Nat /\ Disk \in Nat /\ Headroom \in Nat /\ Grace \in Nat
    /\ RetryDelay \in Nat /\ ReclaimInterval \in Nat
    /\ MaxHandOffs \in Nat \ {0} /\ MaxCandidates \in Nat \ {0} /\ HandOffTimeout \in Nat \ {0}
    /\ CandidatesTimeout \in Nat \ {0} /\ ReclaimTimeout \in Nat \ {0}
BY EvictionAssumption DEF NoLimit

LEMMA SubsetsCounted ==
    ASSUME NEW S \in SUBSET Content
    PROVE  IsFiniteSet(S) /\ Cardinality(S) \in Nat /\ (Cardinality(S) > 0 => S # {})
BY SettingsTyped, FS_Subset, FS_CardinalityType, FS_EmptySet

LEMMA NoneListed == <<>> \in Seq(Content)
OBVIOUS

LEMMA StartedTyped ==
    ASSUME NEW files \in SUBSET Content
    PROVE  Started(files) \in Memory
<1>1. (IF MaxHeld = NoLimit THEN 0 ELSE Cardinality(files)) \in Nat
  BY SubsetsCounted
<1> QED BY <1>1, SettingsTyped DEF Started, Memory, Timers, NoTimer

LEMMA ExcessTyped ==
    ASSUME NEW m \in Memory, NEW files \in SUBSET Content, NEW use \in Int
    PROVE  Excess(m, files, use) \in Nat
<1>1. Cardinality(files) \in Nat /\ m.held \in Nat
  BY SubsetsCounted DEF Memory
<1> QED BY <1>1, SettingsTyped DEF Excess, Larger, FreeBytes, NoLimit

LEMMA ReportTyped ==
    ASSUME NEW m \in Memory, NEW files, NEW use
    PROVE  LET r == ReportFull(m, files, use)
           IN  /\ r \in Memory
               /\ r = [m EXCEPT !.full = r.full]
               /\ r.full = OverLimits(m, files, use, 1)
<1>1. OverLimits(m, files, use, 1) \in BOOLEAN
  BY DEF OverLimits
<1> HIDE DEF OverLimits
<1> QED BY <1>1 DEF ReportFull, Memory

(* Hand-offs are started of what may be handed off, and stats is being      *)
(* asked for more unless there are enough of them.                          *)
LEMMA HandOffsStarted ==
    ASSUME NEW m \in Memory, NEW excess \in Nat, StartHandOffs(m, excess)
    PROVE  \E taken \in SUBSET Content, candidates \in Seq(Content), asking \in Timers(CandidatesTimeout) :
               /\ \A c \in taken : MayHandOff(m, c)
               /\ notices' = [c \in Content |-> IF c \in taken THEN notices[c] + 1 ELSE notices[c]]
               /\ mem' = [m EXCEPT !.handingOff = [c \in Content |-> IF c \in taken THEN HandOffTimeout
                                                                      ELSE m.handingOff[c]],
                                   !.candidates = candidates,
                                   !.asking = asking]
               /\ Cardinality(taken) >= Wanted(m, excess) \/ Running(asking)
               /\ requests' = requests \/ \E r \in Request : requests' = Append(requests, r)
               /\ UNCHANGED reclaims
<1> DEFINE taken(n) == {c \in ToSet(SubSeq(m.candidates, 1, n)) : MayHandOff(m, c)}
           enough(n) == Cardinality(taken(n)) >= Wanted(m, excess)
           ask(n) == ~enough(n) /\ ~Running(m.asking)
           rest(n) == SubSeq(m.candidates, n + 1, Len(m.candidates))
           asking(n) == IF ask(n) THEN CandidatesTimeout ELSE m.asking
           chosen(n) == [c \in Content |-> IF c \in taken(n) THEN HandOffTimeout ELSE m.handingOff[c]]
           started(n) == [m EXCEPT !.handingOff = chosen(n), !.candidates = rest(n), !.asking = asking(n)]
           request(n) == [bytes |-> excess - Cardinality(HandingOff(started(n))),
                          exclude |-> HandingOff(started(n)) \cup PeerKeys(m) \cup StoredLately(m)]
<1>1. PICK n \in 0..Len(m.candidates) :
          /\ mem' = started(n)
          /\ requests' = IF ~ask(n) THEN requests ELSE Append(requests, request(n))
          /\ notices' = [c \in Content |-> IF c \in taken(n) THEN notices[c] + 1 ELSE notices[c]]
  BY DEF StartHandOffs
<1>2. m.candidates \in Seq(Content)
  BY DEF Memory
<1>3. taken(n) \subseteq Content
  <2>1. \A i \in 1..n : m.candidates[i] \in Content
    BY <1>2
  <2>2. ToSet(SubSeq(m.candidates, 1, n)) \subseteq Content
    BY <1>2, <2>1, SubSeqProperties DEF ToSet
  <2> QED BY <2>2
<1>4. rest(n) \in Seq(Content)
  BY <1>2, SubSeqProperties
<1>5. asking(n) \in Timers(CandidatesTimeout)
  BY SettingsTyped DEF Memory, Timers
<1>6. enough(n) \/ Running(asking(n))
  BY SettingsTyped DEF Running, NoTimer
<1>7. request(n) \in Request
  <2>1. HandingOff(started(n)) \subseteq Content /\ StoredLately(m) \subseteq Content
    BY DEF HandingOff, StoredLately
  <2>2. PeerKeys(m) \subseteq Content
    BY EvictionAssumption DEF PeerKeys, Memory
  <2>3. Cardinality(HandingOff(started(n))) \in Nat
    BY <2>1, SubsetsCounted
  <2> HIDE DEF started
  <2> QED BY <2>1, <2>2, <2>3 DEF Request
<1>8. UNCHANGED reclaims
  BY DEF StartHandOffs
<1>9. PICK T, R, A, Q : T = taken(n) /\ R = rest(n) /\ A = asking(n) /\ Q = request(n)
  OBVIOUS
<1>10. mem' = [m EXCEPT !.handingOff = [c \in Content |-> IF c \in T THEN HandOffTimeout ELSE m.handingOff[c]],
                        !.candidates = R, !.asking = A]
  BY <1>1, <1>9
<1>11. /\ \A c \in T : MayHandOff(m, c)
       /\ notices' = [c \in Content |-> IF c \in T THEN notices[c] + 1 ELSE notices[c]]
       /\ requests' = requests \/ requests' = Append(requests, Q)
       /\ Cardinality(T) >= Wanted(m, excess) \/ Running(A)
  BY <1>1, <1>6, <1>9
<1> HIDE DEF taken, rest, asking, request, started, chosen, enough, ask
<1> QED BY <1>3, <1>4, <1>5, <1>7, <1>8, <1>9, <1>10, <1>11

(* However a handler ends, the module remembers what it held, whom it is    *)
(* connected to and what was stored lately, says rightly whether storage is *)
(* full, and hands off only what may be.                                    *)
Ended(m, files, use) ==
    /\ mem' \in Memory
    /\ mem'.held = m.held /\ mem'.connected = m.connected /\ mem'.grace = m.grace
    /\ mem'.full = OverLimits(m, files, use, 1)
    /\ \/ notices' = notices
       \/ \E taken \in SUBSET Content :
              /\ \A c \in taken : MayHandOff(m, c)
              /\ notices' = [c \in Content |-> IF c \in taken THEN notices[c] + 1 ELSE notices[c]]
    /\ requests' = requests \/ \E r \in Request : requests' = Append(requests, r)
    /\ reclaims' = reclaims \/ reclaims' = reclaims + 1

(* And it waits for something, while there is too much. *)
Waits(m) == HandingOff(m) # {} \/ Running(m.asking) \/ Running(m.reclaiming) \/ Running(m.paused)

LEMMA EvictEnds ==
    ASSUME NEW m \in Memory, NEW files \in SUBSET Content, NEW use \in Int, Evict(m, files, use)
    PROVE  Ended(m, files, use) /\ (Excess(m, files, use) > 0 => Waits(mem'))
<1> PICK r : r = ReportFull(m, files, use)
  OBVIOUS
<1>1. /\ r \in Memory /\ r = [m EXCEPT !.full = r.full]
      /\ r.full = OverLimits(m, files, use, 1)
  BY ReportTyped
<1>2. /\ r.held = m.held /\ r.connected = m.connected /\ r.grace = m.grace
      /\ r.handingOff = m.handingOff
  BY <1>1 DEF Memory
<1>3. PICK excess \in Nat : excess = Excess(r, files, use) /\ excess = Excess(m, files, use)
  BY <1>1, <1>2, ExcessTyped DEF Excess
<1>4. \A c : MayHandOff(r, c) = MayHandOff(m, c)
  BY <1>2 DEF MayHandOff, Kept, PeerKeys, HandingOff
<1>5. CASE Waiting(r) /\ mem' = r /\ UNCHANGED <<requests, notices, reclaims>>
  <2>1. r.paused > 0 \/ HandingOff(r) # {} \/ Running(r.reclaiming)
    <3>1. ASSUME Cardinality(HandingOff(r)) >= MaxHandOffs PROVE HandingOff(r) # {}
      <4>1. HandingOff(r) \in SUBSET Content
        BY DEF HandingOff
      <4> QED BY <3>1, <4>1, SubsetsCounted, SettingsTyped
    <3> QED BY <1>5, <3>1 DEF Waiting
  <2>2. r.paused > 0 => Running(r.paused)
    BY <1>1 DEF Running, NoTimer
  <2> QED BY <1>1, <1>2, <1>5, <2>1, <2>2 DEF Ended, Waits
<1>6. CASE excess = 0 /\ mem' = [r EXCEPT !.candidates = <<>>] /\ UNCHANGED <<requests, notices, reclaims>>
  <2>2. PICK none \in Seq(Content) : none = <<>>
    BY NoneListed, Zenon
  <2>3. mem' = [r EXCEPT !.candidates = none]
    BY <1>6, <2>2
  <2>1. mem' \in Memory /\ mem'.held = r.held /\ mem'.connected = r.connected /\ mem'.grace = r.grace
        /\ mem'.full = r.full
    BY <1>1, <2>3 DEF Memory
  <2> QED BY <1>1, <1>2, <1>3, <1>6, <2>1 DEF Ended
<1>7. CASE Reclaim(r)
  <2>1. mem' = [r EXCEPT !.reclaiming = ReclaimTimeout, !.reclaimDue = ReclaimInterval]
        /\ reclaims' = reclaims + 1 /\ UNCHANGED <<notices, requests>>
    BY <1>7 DEF Reclaim
  <2>4. ReclaimTimeout \in Timers(ReclaimTimeout) /\ ReclaimInterval \in 0..ReclaimInterval
    BY SettingsTyped DEF Timers
  <2>2. mem' \in Memory /\ mem'.held = r.held /\ mem'.connected = r.connected /\ mem'.grace = r.grace
        /\ mem'.full = r.full /\ mem'.reclaiming = ReclaimTimeout
    BY <1>1, <2>1, <2>4 DEF Memory
  <2>3. Running(mem'.reclaiming)
    BY <2>2, SettingsTyped DEF Running, NoTimer
  <2> QED BY <1>1, <1>2, <2>1, <2>2, <2>3 DEF Ended, Waits
<1>8. CASE excess > 0 /\ StartHandOffs(r, excess)
  <2>1. PICK taken \in SUBSET Content, candidates \in Seq(Content), asking \in Timers(CandidatesTimeout) :
               /\ \A c \in taken : MayHandOff(r, c)
               /\ notices' = [c \in Content |-> IF c \in taken THEN notices[c] + 1 ELSE notices[c]]
               /\ mem' = [r EXCEPT !.handingOff = [c \in Content |-> IF c \in taken THEN HandOffTimeout
                                                                      ELSE r.handingOff[c]],
                                   !.candidates = candidates,
                                   !.asking = asking]
               /\ Cardinality(taken) >= Wanted(r, excess) \/ Running(asking)
               /\ requests' = requests \/ \E q \in Request : requests' = Append(requests, q)
               /\ UNCHANGED reclaims
    BY <1>1, <1>8, HandOffsStarted
  <2>2. PICK chosen : chosen = [c \in Content |-> IF c \in taken THEN HandOffTimeout ELSE r.handingOff[c]]
    OBVIOUS
  <2>3. chosen \in [Content -> Timers(HandOffTimeout)]
    <3>1. r.handingOff \in [Content -> Timers(HandOffTimeout)]
      BY <1>1 DEF Memory
    <3>2. HandOffTimeout \in Timers(HandOffTimeout)
      BY SettingsTyped DEF Timers
    <3> QED BY <2>2, <3>1, <3>2
  <2>4. mem' \in Memory /\ mem'.held = r.held /\ mem'.connected = r.connected /\ mem'.grace = r.grace
        /\ mem'.full = r.full /\ mem'.handingOff = chosen /\ mem'.asking = asking
    BY <1>1, <2>1, <2>2, <2>3 DEF Memory
  <2>5. Waits(mem')
    <3>1. CASE Running(asking)
      BY <2>4, <3>1 DEF Waits
    <3>2. CASE Cardinality(taken) >= Wanted(r, excess)
      <4>1. HandingOff(r) \in SUBSET Content
        BY DEF HandingOff
      <4>2. Cardinality(HandingOff(r)) \in Nat /\ Cardinality(taken) \in Nat
        BY <4>1, SubsetsCounted
      <4>3. Cardinality(taken) > 0 \/ Cardinality(HandingOff(r)) > 0
        BY <1>8, <3>2, <4>2, SettingsTyped DEF Wanted, Larger, Fewer
      <4>4. taken # {} \/ HandingOff(r) # {}
        BY <4>1, <4>3, SubsetsCounted
      <4>5. PICK c \in Content : c \in taken \/ Running(r.handingOff[c])
        BY <4>4 DEF HandingOff
      <4>6. Running(chosen[c])
        BY <2>2, <4>5, SettingsTyped DEF Running, NoTimer
      <4> QED BY <2>4, <4>6 DEF Waits, HandingOff
    <3> QED BY <2>1, <3>1, <3>2
  <2>6. \A c \in taken : MayHandOff(m, c)
    BY <1>4, <2>1
  <2> QED BY <1>1, <1>2, <2>1, <2>4, <2>5, <2>6 DEF Ended
<1> HIDE DEF Waiting, Reclaim, StartHandOffs, Excess
<1>9. \/ Waiting(r) /\ mem' = r /\ UNCHANGED <<requests, notices, reclaims>>
      \/ excess = 0 /\ mem' = [r EXCEPT !.candidates = <<>>] /\ UNCHANGED <<requests, notices, reclaims>>
      \/ Reclaim(r)
      \/ excess > 0 /\ StartHandOffs(r, excess)
  <2>1. LET e == Excess(ReportFull(m, files, use), files, use)
            s == ReportFull(m, files, use)
        IN  \/ Waiting(s) /\ mem' = s /\ UNCHANGED <<requests, notices, reclaims>>
            \/ e = 0 /\ mem' = [s EXCEPT !.candidates = <<>>] /\ UNCHANGED <<requests, notices, reclaims>>
            \/ Reclaim(s)
            \/ e > 0 /\ StartHandOffs(s, e)
    BY ZenonT(30) DEF Evict
  <2> QED BY <2>1, <1>3
<1> QED BY <1>3, <1>5, <1>6, <1>7, <1>8, <1>9

-----------------------------------------------------------------------------
(* What a handler does, once it has brought the memory to m, and dropped    *)
(* what it dropped.                                                         *)

Sent(m) ==
    /\ \/ notices' = notices
       \/ \E taken \in SUBSET Content :
              /\ \A c \in taken : MayHandOff(m, c)
              /\ notices' = [c \in Content |-> IF c \in taken THEN notices[c] + 1 ELSE notices[c]]
    /\ requests' = requests \/ \E r \in Request : requests' = Append(requests, r)
    /\ reclaims' = reclaims \/ reclaims' = reclaims + 1

Handled(m, dropped) ==
    /\ store' = store \ dropped
    /\ mem' \in Memory
    /\ mem'.held = m.held /\ mem'.connected = m.connected /\ mem'.grace = m.grace
    /\ \/ mem'.full = OverLimits(m, store', used, 1)
       \/ mem'.full = mem.full /\ m.held = mem.held /\ dropped = {} /\ up
    /\ \/ Excess(m, store', used) > 0 => Waits(mem')
       \/ (Waits(mem) => Waits(mem')) /\ m.held = mem.held /\ up
    /\ Sent(m)

(* The memory m it came to, of what it was told. *)
Same(m) == m.held = mem.held /\ m.connected = mem.connected /\ m.grace = mem.grace

Drops(m, dropped, c) ==
    \/ dropped = {} /\ m.held = mem.held
    \/ dropped = {c} /\ c \in store /\ ~Kept(mem, c) /\ m.held = Larger(0, mem.held - 1)

Took(m, dropped, message) ==
    \/ /\ message.type = "data.stored" /\ dropped = {}
       /\ m.held = mem.held + 1 /\ m.connected = mem.connected
       /\ m.grace = [mem.grace EXCEPT ![message.content] = Grace]
    \/ /\ message.type = "eviction.acknowledged"
       /\ m.connected = mem.connected /\ m.grace = mem.grace
       /\ Drops(m, dropped, message.content)
       /\ dropped # {} => mem.grace[message.content] = 0
    \/ /\ message.type = "data.shunned"
       /\ m.connected = mem.connected
       /\ m.grace = mem.grace \/ m.grace = [mem.grace EXCEPT ![message.content] = 0]
       /\ Drops(m, dropped, message.content)
    \/ /\ message.type = "peers.connected" /\ dropped = {}
       /\ m.held = mem.held /\ m.grace = mem.grace /\ m.connected = NamedIn(mem.connected, message)
    \/ /\ message.type \in {"eviction.candidates", "storage.full_requested", "resolved.reclaimed"}
       /\ dropped = {} /\ Same(m)
       /\ message.type = "resolved.reclaimed" => mem'.full = OverLimits(m, store', used, 1)

Came(m, dropped) ==
    \/ /\ ~up /\ m = Started(store) /\ dropped = {} /\ asked' = Directions /\ UNCHANGED inbox
       /\ Excess(m, store', used) > 0 => Waits(mem')
       /\ mem'.full = OverLimits(m, store', used, 1)
    \/ up /\ Same(m) /\ dropped = {} /\ UNCHANGED <<asked, inbox>>
    \/ /\ up /\ inbox # <<>> /\ inbox' = Tail(inbox) /\ UNCHANGED asked
       /\ Took(m, dropped, Head(inbox))

Handles ==
    /\ up' = TRUE /\ UNCHANGED <<used, writing, peers, history>>
    /\ \E m \in Memory, dropped \in SUBSET Content : Handled(m, dropped) /\ Came(m, dropped)

LEMMA EvictHandles ==
    ASSUME TypeOK, NEW m \in Memory, NEW dropped \in SUBSET Content,
           store' = store \ dropped, Evict(m, store', used)
    PROVE  Handled(m, dropped) /\ mem'.full = OverLimits(m, store', used, 1)
           /\ (Excess(m, store', used) > 0 => Waits(mem'))
<1> PICK files, use : files = store' /\ use = used
  OBVIOUS
<1>a. store' \subseteq Content /\ used \in Int
  <2>1. store \subseteq Content /\ used \in Int
    BY DEF TypeOK
  <2> HIDE DEF Evict
  <2> QED BY <2>1
<1>b. files \in SUBSET Content /\ use \in Int
  BY <1>a
<1>1. Ended(m, files, use) /\ (Excess(m, files, use) > 0 => Waits(mem'))
  <2>1. Evict(m, files, use)
    <3> HIDE DEF Evict
    <3> QED OBVIOUS
  <2> HIDE DEF Evict, Ended, Excess, Waits
  <2> QED BY <1>b, <2>1, EvictEnds
<1>2. /\ mem'.full = OverLimits(m, files, use, 1) /\ Sent(m) /\ mem' \in Memory
      /\ mem'.held = m.held /\ mem'.connected = m.connected /\ mem'.grace = m.grace
  <2> HIDE DEF OverLimits, MayHandOff, Memory
  <2> QED BY <1>1 DEF Ended, Sent
<1>3. /\ mem'.full = OverLimits(m, store', used, 1)
      /\ (Excess(m, store', used) > 0 => Waits(mem'))
  <2> HIDE DEF Excess, OverLimits, Waits
  <2> QED BY <1>1, <1>2
<1> HIDE DEF Excess, OverLimits, Waits, Sent, Memory
<1> QED BY <1>2, <1>3 DEF Handled

(* A handler that says nothing, and leaves the store as it is. *)
LEMMA QuietlyHandles ==
    ASSUME TypeOK, NEW m \in Memory, up, NothingSent, UNCHANGED store, m.held = mem.held,
           mem' \in Memory, mem'.held = m.held, mem'.connected = m.connected, mem'.grace = m.grace,
           mem'.full = mem.full \/ mem'.full = OverLimits(m, store, used, 1),
           \/ Excess(m, store, used) > 0 => Waits(mem')
           \/ Waits(mem) => Waits(mem')
    PROVE  Handled(m, {})
<1> HIDE DEF Excess, OverLimits
<1>1. store' = store \ {}
  OBVIOUS
<1>2. OverLimits(m, store', used, 1) = OverLimits(m, store, used, 1)
      /\ Excess(m, store', used) = Excess(m, store, used)
  BY Zenon
<1>3. Sent(m)
  BY DEF Sent, NothingSent
<1> QED BY <1>1, <1>2, <1>3 DEF Handled

LEMMA StartHandles == ASSUME TypeOK, Start PROVE Handles
<1> PICK m : m = Started(store)
  OBVIOUS
<1>1. m \in Memory
  BY StartedTyped DEF TypeOK
<1>2. /\ ~up /\ up' = TRUE /\ asked' = Directions /\ Evict(m, store', used)
      /\ UNCHANGED <<store, used, inbox, writing, peers, history>>
  <2>1. /\ ~up /\ up' = TRUE /\ asked' = Directions /\ Evict(Started(store), store, used)
        /\ UNCHANGED <<store, used, inbox, writing, peers, history>>
    BY Zenon DEF Start
  <2> HIDE DEF Evict, Started
  <2> QED BY <2>1
<1>3. store' = store \ {}
  BY <1>2
<1>4. /\ Handled(m, {}) /\ mem'.full = OverLimits(m, store', used, 1)
      /\ (Excess(m, store', used) > 0 => Waits(mem'))
  <2> HIDE DEF Evict, Handled, Excess, OverLimits
  <2> QED BY <1>1, <1>2, <1>3, EvictHandles
<1>5. Came(m, {})
  BY <1>2, <1>4 DEF Came
<1> QED BY <1>1, <1>2, <1>4, <1>5 DEF Handles

LEMMA StoredHandles == ASSUME TypeOK, OnDataStored PROVE Handles
<1> PICK m, c : c = Head(inbox).content /\ m = Stored(mem, c)
  OBVIOUS
<1>1. /\ up /\ inbox # <<>> /\ Head(inbox).type = "data.stored" /\ inbox' = Tail(inbox)
      /\ Evict(Stored(mem, Head(inbox).content), store, used)
      /\ UNCHANGED <<store, used, up, asked, writing, peers, history>>
  BY Zenon DEF OnDataStored, Receive
<1>2. Head(inbox) \in Messages
  BY <1>1 DEF TypeOK
<1>3. c \in Content
  BY <1>1, <1>2 DEF Messages
<1>4. m \in Memory /\ m.held = mem.held + 1 /\ m.connected = mem.connected
      /\ m.grace = [mem.grace EXCEPT ![c] = Grace]
  <2>1. mem \in Memory
    BY DEF TypeOK
  <2>2. PICK grace, held : grace = [mem.grace EXCEPT ![c] = Grace] /\ held = mem.held + 1
    OBVIOUS
  <2>3. grace \in [Content -> 0..Grace] /\ held \in Nat
    BY <1>3, <2>1, <2>2, SettingsTyped DEF Memory
  <2>4. m = [mem EXCEPT !.grace = grace, !.held = held]
    BY <2>2 DEF Stored
  <2> QED BY <2>1, <2>2, <2>3, <2>4 DEF Memory
<1>5. Handled(m, {})
  <2>1. Evict(m, store', used) /\ store' = store \ {}
    <3> HIDE DEF Evict, Stored
    <3> QED BY <1>1
  <2> HIDE DEF Evict, Handled
  <2> QED BY <2>1, <1>4, EvictHandles
<1>6. Came(m, {})
  BY <1>1, <1>4 DEF Came, Took
<1> QED BY <1>1, <1>4, <1>5, <1>6 DEF Handles

LEMMA ReclaimedHandles == ASSUME TypeOK, OnResolvedReclaimed PROVE Handles
<1> PICK m : m = [mem EXCEPT !.reclaiming = NoTimer]
  OBVIOUS
<1>1. /\ up /\ inbox # <<>> /\ Head(inbox).type = "resolved.reclaimed" /\ inbox' = Tail(inbox)
      /\ Evict([mem EXCEPT !.reclaiming = NoTimer], store, used)
      /\ UNCHANGED <<store, used, up, asked, writing, peers, history>>
  BY Zenon DEF OnResolvedReclaimed, Receive
<1>2. m \in Memory /\ Same(m)
  BY DEF TypeOK, Memory, Same, Timers
<1>3. Handled(m, {}) /\ mem'.full = OverLimits(m, store', used, 1)
  <2>1. Evict(m, store', used) /\ store' = store \ {}
    <3> HIDE DEF Evict
    <3> QED BY <1>1
  <2> HIDE DEF Evict, Handled, OverLimits
  <2> QED BY <2>1, <1>2, EvictHandles
<1>4. Came(m, {})
  BY <1>1, <1>2, <1>3 DEF Came, Took
<1> QED BY <1>1, <1>2, <1>3, <1>4 DEF Handles

LEMMA AcknowledgedHandles == ASSUME TypeOK, OnEvictionAcknowledged PROVE Handles
<1> PICK c, m : c = Head(inbox).content /\ m = [mem EXCEPT !.handingOff[c] = NoTimer]
  OBVIOUS
<1> PICK goes \in BOOLEAN : goes = (~Kept(m, c) /\ m.grace[c] = 0 /\ c \in store)
  OBVIOUS
<1>1. /\ up /\ inbox # <<>> /\ Head(inbox).type = "eviction.acknowledged" /\ inbox' = Tail(inbox)
      /\ UNCHANGED <<used, up, asked, writing, peers, history>>
  BY Zenon DEF OnEvictionAcknowledged, Receive
<1>2. \/ mem' = [m EXCEPT !.paused = RetryDelay] /\ NothingSent /\ UNCHANGED store
      \/ Evict(m, store, used) /\ UNCHANGED store
      \/ goes /\ store' = store \ {c} /\ Evict(Deleted(m), store \ {c}, used)
  <2>1. LET cc == Head(inbox).content
            mm == [mem EXCEPT !.handingOff[cc] = NoTimer]
            gg == ~Kept(mm, cc) /\ mm.grace[cc] = 0 /\ cc \in store
        IN  \/ mem' = [mm EXCEPT !.paused = RetryDelay] /\ NothingSent /\ UNCHANGED store
            \/ Evict(mm, store, used) /\ UNCHANGED store
            \/ gg /\ store' = store \ {cc} /\ Evict(Deleted(mm), store \ {cc}, used)
    BY ZenonT(30) DEF OnEvictionAcknowledged
  <2> HIDE DEF Evict, Deleted, Kept
  <2> QED BY <2>1
<1>3. Head(inbox) \in Messages
  BY <1>1 DEF TypeOK
<1>4. c \in Content
  BY <1>1, <1>3 DEF Messages
<1>5. m \in Memory /\ Same(m)
  <2>1. mem \in Memory
    BY DEF TypeOK
  <2>2. PICK timers : timers = [mem.handingOff EXCEPT ![c] = NoTimer]
    OBVIOUS
  <2>3. timers \in [Content -> Timers(HandOffTimeout)]
    BY <2>1, <2>2 DEF Memory, Timers
  <2>4. m = [mem EXCEPT !.handingOff = timers]
    BY <2>2
  <2> QED BY <2>1, <2>3, <2>4 DEF Memory, Same
<1>6. CASE mem' = [m EXCEPT !.paused = RetryDelay] /\ NothingSent /\ UNCHANGED store
  <2>1. RetryDelay \in Timers(RetryDelay + Grace)
    BY SettingsTyped DEF Timers
  <2>2. /\ mem' \in Memory /\ mem'.held = m.held /\ mem'.connected = m.connected
        /\ mem'.grace = m.grace /\ mem'.full = mem.full /\ mem'.paused = RetryDelay
    BY <1>5, <1>6, <2>1 DEF Memory
  <2>3. Waits(mem')
    BY <2>2, SettingsTyped DEF Waits, Running, NoTimer
  <2>4. Handled(m, {})
    BY <1>1, <1>5, <1>6, <2>2, <2>3, QuietlyHandles DEF Same
  <2>5. Came(m, {})
    BY <1>1, <1>5 DEF Came, Took, Same, Drops
  <2> QED BY <1>1, <1>5, <2>4, <2>5 DEF Handles
<1>7. CASE Evict(m, store, used) /\ UNCHANGED store
  <2>1. Handled(m, {})
    <3>1. Evict(m, store', used) /\ store' = store \ {}
      <4> HIDE DEF Evict
      <4> QED BY <1>7
    <3> HIDE DEF Evict, Handled
    <3> QED BY <3>1, <1>5, EvictHandles
  <2>2. Came(m, {})
    BY <1>1, <1>5 DEF Came, Took, Same, Drops
  <2> QED BY <1>1, <1>5, <2>1, <2>2 DEF Handles
<1>8. CASE goes /\ store' = store \ {c} /\ Evict(Deleted(m), store \ {c}, used)
  <2>1. PICK d : d = Deleted(m)
    OBVIOUS
  <2>2. d \in Memory /\ d.held = Larger(0, m.held - 1) /\ d.connected = m.connected /\ d.grace = m.grace
    <3>1. PICK held : held = Larger(0, m.held - 1)
      OBVIOUS
    <3>4. m.held \in Nat
      BY <1>5 DEF Memory
    <3>2. held \in Nat
      BY <3>1, <3>4 DEF Larger
    <3>3. d = [m EXCEPT !.held = held]
      BY <2>1, <3>1 DEF Deleted
    <3> QED BY <1>5, <3>1, <3>2, <3>3 DEF Memory
  <2>3. Handled(d, {c})
    <3>1. Evict(d, store', used) /\ store' = store \ {c} /\ {c} \in SUBSET Content
      <4> HIDE DEF Evict, Deleted
      <4> QED BY <1>4, <1>8, <2>1
    <3> HIDE DEF Evict, Handled
    <3> QED BY <3>1, <2>2, EvictHandles
  <2>4. ~Kept(mem, c) /\ mem.grace[c] = 0 /\ c \in store
    BY <1>5, <1>8 DEF Kept, PeerKeys, Same
  <2>5. Came(d, {c})
    <3> HIDE DEF Kept
    <3> QED BY <1>1, <1>5, <2>2, <2>4 DEF Came, Took, Same, Drops
  <2> QED BY <1>1, <1>4, <2>2, <2>3, <2>5 DEF Handles
<1> QED BY <1>2, <1>6, <1>7, <1>8

LEMMA CandidatesHandles == ASSUME TypeOK, OnEvictionCandidates PROVE Handles
<1> PICK m : m = [mem EXCEPT !.asking = NoTimer, !.candidates = Head(inbox).objects]
  OBVIOUS
<1> PICK idle \in BOOLEAN : idle = (HandingOff(m) = {} /\ Excess(m, store, used) > 0)
  OBVIOUS
<1>1. /\ up /\ inbox # <<>> /\ Head(inbox).type = "eviction.candidates" /\ inbox' = Tail(inbox)
      /\ UNCHANGED <<store, used, up, asked, writing, peers, history>>
  BY Zenon DEF OnEvictionCandidates, Receive
<1>2. \/ Evict(m, store, used)
      \/ idle /\ WaitForMore(m) /\ NothingSent
      \/ ~idle /\ mem' = m /\ NothingSent
  <2>1. LET mm == [mem EXCEPT !.asking = NoTimer, !.candidates = Head(inbox).objects]
            ii == HandingOff(mm) = {} /\ Excess(mm, store, used) > 0
        IN  \/ Evict(mm, store, used)
            \/ ii /\ WaitForMore(mm) /\ NothingSent
            \/ ~ii /\ mem' = mm /\ NothingSent
    BY ZenonT(30) DEF OnEvictionCandidates
  <2> HIDE DEF Evict, HandingOff, Excess, WaitForMore
  <2> QED BY <2>1
<1>3. Head(inbox) \in Messages
  BY <1>1 DEF TypeOK
<1>4. Head(inbox).objects \in Seq(Content)
  BY <1>1, <1>3 DEF Messages
<1>5. m \in Memory /\ Same(m) /\ m.full = mem.full
  BY <1>4 DEF TypeOK, Memory, Same, Timers
<1>6. Came(m, {})
  BY <1>1, <1>5 DEF Came, Took
<1>7. CASE Evict(m, store, used)
  <2>1. Evict(m, store', used) /\ store' = store \ {}
    <3> HIDE DEF Evict
    <3> QED BY <1>1, <1>7
  <2>2. Handled(m, {})
    <3> HIDE DEF Evict, Handled
    <3> QED BY <2>1, <1>5, EvictHandles
  <2> QED BY <1>1, <1>5, <1>6, <2>2 DEF Handles
<1>8. CASE idle /\ WaitForMore(m) /\ NothingSent
  <2>1. PICK pause \in Timers(RetryDelay + Grace) : Running(pause) /\ mem' = [m EXCEPT !.paused = pause]
    <3>1. CASE \E earliest \in StoredLately(m) : mem' = [m EXCEPT !.paused = m.grace[earliest]]
      <4>1. PICK e \in Content : m.grace[e] > 0 /\ mem' = [m EXCEPT !.paused = m.grace[e]]
        BY <3>1 DEF StoredLately
      <4>2. m.grace[e] \in 0..Grace
        BY <1>5 DEF Memory
      <4>3. PICK pause : pause = m.grace[e]
        OBVIOUS
      <4>4. pause \in Timers(RetryDelay + Grace) /\ Running(pause)
        BY <4>2, <4>3, SettingsTyped DEF Timers, Running, NoTimer
      <4> QED BY <4>1, <4>3, <4>4
    <3>2. CASE mem' = [m EXCEPT !.paused = RetryDelay]
      <4>1. RetryDelay \in Timers(RetryDelay + Grace) /\ Running(RetryDelay)
        BY SettingsTyped DEF Timers, Running, NoTimer
      <4> QED BY <3>2, <4>1
    <3> QED BY <1>8, <3>1, <3>2 DEF WaitForMore
  <2>2. /\ mem' \in Memory /\ mem'.held = m.held /\ mem'.connected = m.connected
        /\ mem'.grace = m.grace /\ mem'.full = m.full /\ Waits(mem')
    BY <1>5, <2>1 DEF Memory, Waits
  <2>3. Handled(m, {})
    BY <1>1, <1>5, <1>8, <2>2, QuietlyHandles DEF Same
  <2> QED BY <1>1, <1>5, <1>6, <2>3 DEF Handles
<1>9. CASE ~idle /\ mem' = m /\ NothingSent
  <2>1. Excess(m, store, used) > 0 => Waits(mem')
    BY <1>9 DEF Waits
  <2>2. Handled(m, {})
    BY <1>1, <1>5, <1>9, <2>1, QuietlyHandles DEF Same
  <2> QED BY <1>1, <1>5, <1>6, <2>2 DEF Handles
<1> QED BY <1>2, <1>7, <1>8, <1>9

LEMMA WithoutTyped ==
    ASSUME NEW objects \in Seq(Content), NEW c
    PROVE  Without(objects, c) \in Seq(Content)
<1>1. CASE \E i \in DOMAIN objects : objects[i] = c
  <2>1. PICK i \in DOMAIN objects : i = (CHOOSE j \in DOMAIN objects : objects[j] = c)
    BY <1>1
  <2>2. RemoveAt(objects, i) \in Seq(Content)
    <3>1. i \in 1..Len(objects)
      BY <2>1
    <3>2. SubSeq(objects, 1, i - 1) \in Seq(Content) /\ SubSeq(objects, i + 1, Len(objects)) \in Seq(Content)
      BY <3>1, SubSeqProperties
    <3> QED BY <3>2, ConcatProperties DEF RemoveAt
  <2> QED BY <1>1, <2>1, <2>2 DEF Without
<1>2. CASE ~\E i \in DOMAIN objects : objects[i] = c
  BY <1>2 DEF Without
<1> QED BY <1>1, <1>2

LEMMA ShunnedHandles == ASSUME TypeOK, OnDataShunned PROVE Handles
<1> PICK c, m : c = Head(inbox).content /\ m = [mem EXCEPT !.grace[c] = 0, !.candidates = Without(@, c)]
  OBVIOUS
<1>1. /\ up /\ inbox # <<>> /\ Head(inbox).type = "data.shunned" /\ inbox' = Tail(inbox)
      /\ UNCHANGED <<used, up, asked, writing, peers, history>>
  BY Zenon DEF OnDataShunned, Receive
<1>2. \/ mem' = mem /\ store' = store /\ NothingSent
      \/ mem' = m /\ store' = store /\ NothingSent
      \/ ~Kept(mem, c) /\ c \in store /\ store' = store \ {c} /\ Evict(Deleted(m), store \ {c}, used)
  <2>1. LET cc == Head(inbox).content
            mm == [mem EXCEPT !.grace[cc] = 0, !.candidates = Without(@, cc)]
        IN  \/ mem' = mem /\ store' = store /\ NothingSent
            \/ mem' = mm /\ store' = store /\ NothingSent
            \/ ~Kept(mem, cc) /\ cc \in store /\ store' = store \ {cc} /\ Evict(Deleted(mm), store \ {cc}, used)
    BY ZenonT(30) DEF OnDataShunned
  <2> HIDE DEF Evict, Deleted, Kept, Without
  <2> QED BY <2>1
<1>3. Head(inbox) \in Messages
  BY <1>1 DEF TypeOK
<1>4. c \in Content
  BY <1>1, <1>3 DEF Messages
<1>0. mem \in Memory
  BY DEF TypeOK
<1>5. /\ m \in Memory /\ m.held = mem.held /\ m.connected = mem.connected /\ m.full = mem.full
      /\ m.grace = [mem.grace EXCEPT ![c] = 0] /\ (Waits(mem) => Waits(m))
  <2>1. PICK grace, candidates : grace = [mem.grace EXCEPT ![c] = 0] /\ candidates = Without(mem.candidates, c)
    OBVIOUS
  <2>4. mem.grace \in [Content -> 0..Grace] /\ mem.candidates \in Seq(Content)
    BY <1>0 DEF Memory
  <2>5. candidates \in Seq(Content)
    BY <2>1, <2>4, WithoutTyped
  <2>6. PICK old : old = mem.grace
    OBVIOUS
  <2>7. old \in [Content -> 0..Grace] /\ grace = [old EXCEPT ![c] = 0] /\ 0 \in 0..Grace
    BY <2>1, <2>4, <2>6, SettingsTyped
  <2>8. grace \in [Content -> 0..Grace]
    BY <2>7
  <2>2. grace \in [Content -> 0..Grace] /\ candidates \in Seq(Content)
    BY <2>5, <2>8
  <2>3. m = [mem EXCEPT !.grace = grace, !.candidates = candidates]
    BY <2>1
  <2> QED BY <1>0, <2>1, <2>2, <2>3 DEF Memory, Waits, HandingOff
<1>6. CASE mem' = mem /\ store' = store /\ NothingSent
  <2>1. Handled(mem, {})
    BY <1>0, <1>1, <1>6, QuietlyHandles
  <2>2. Came(mem, {})
    BY <1>1 DEF Came, Took, Drops
  <2> QED BY <1>0, <1>1, <2>1, <2>2 DEF Handles
<1>7. CASE mem' = m /\ store' = store /\ NothingSent
  <2>1. Handled(m, {})
    BY <1>1, <1>5, <1>7, QuietlyHandles
  <2>2. Came(m, {})
    BY <1>1, <1>5 DEF Came, Took, Drops
  <2> QED BY <1>1, <1>5, <2>1, <2>2 DEF Handles
<1>8. CASE ~Kept(mem, c) /\ c \in store /\ store' = store \ {c} /\ Evict(Deleted(m), store \ {c}, used)
  <2>1. PICK d : d = Deleted(m)
    OBVIOUS
  <2>2. d \in Memory /\ d.held = Larger(0, m.held - 1) /\ d.connected = m.connected /\ d.grace = m.grace
    <3>1. PICK held : held = Larger(0, m.held - 1)
      OBVIOUS
    <3>4. m.held \in Nat
      BY <1>5 DEF Memory
    <3>2. held \in Nat
      BY <3>1, <3>4 DEF Larger
    <3>3. d = [m EXCEPT !.held = held]
      BY <2>1, <3>1 DEF Deleted
    <3> QED BY <1>5, <3>1, <3>2, <3>3 DEF Memory
  <2>3. Handled(d, {c})
    <3>1. Evict(d, store', used) /\ store' = store \ {c} /\ {c} \in SUBSET Content
      <4> HIDE DEF Evict, Deleted
      <4> QED BY <1>4, <1>8, <2>1
    <3> HIDE DEF Evict, Handled
    <3> QED BY <3>1, <2>2, EvictHandles
  <2>5. Came(d, {c})
    <3> HIDE DEF Kept
    <3> QED BY <1>1, <1>5, <1>8, <2>2 DEF Came, Took, Drops
  <2> QED BY <1>1, <1>4, <2>2, <2>3, <2>5 DEF Handles
<1> QED BY <1>2, <1>6, <1>7, <1>8

LEMMA PeersConnectedHandles == ASSUME TypeOK, OnPeersConnected PROVE Handles
<1>1. /\ up /\ inbox # <<>> /\ Head(inbox).type = "peers.connected" /\ inbox' = Tail(inbox)
      /\ mem' = [mem EXCEPT !.connected = NamedIn(mem.connected, Head(inbox))] /\ NothingSent
      /\ UNCHANGED <<store, used, up, asked, writing, peers, history>>
  BY Zenon DEF OnPeersConnected, Receive
<1>2. Head(inbox) \in Messages
  BY <1>1 DEF TypeOK
<1>3. Head(inbox).direction \in Directions /\ Head(inbox).nodes \in SUBSET Nodes
  BY <1>1, <1>2 DEF Messages
<1>4. PICK m, connected : m = mem' /\ connected = NamedIn(mem.connected, Head(inbox))
  OBVIOUS
<1>5. mem \in Memory
  BY DEF TypeOK
<1>6. connected \in [Directions -> SUBSET Nodes]
  BY <1>3, <1>4, <1>5 DEF NamedIn, Memory
<1>7. m = [mem EXCEPT !.connected = connected]
  BY <1>1, <1>4
<1>8. /\ m \in Memory /\ m.held = mem.held /\ m.grace = mem.grace /\ m.full = mem.full
      /\ m.connected = connected /\ (Waits(mem) => Waits(m))
  BY <1>5, <1>6, <1>7 DEF Memory, Waits, HandingOff
<1>9. Handled(m, {})
  BY <1>1, <1>4, <1>8, QuietlyHandles
<1>10. Came(m, {})
  BY <1>1, <1>4, <1>8 DEF Came, Took
<1> QED BY <1>1, <1>8, <1>9, <1>10 DEF Handles

LEMMA FullRequestedHandles == ASSUME TypeOK, OnStorageFullRequested PROVE Handles
<1>1. /\ up /\ inbox # <<>> /\ Head(inbox).type = "storage.full_requested" /\ inbox' = Tail(inbox)
      /\ mem' = ReportFull(mem, store, used) /\ NothingSent
      /\ UNCHANGED <<store, used, up, asked, writing, peers, history>>
  BY Zenon DEF OnStorageFullRequested, Receive
<1>2. mem \in Memory
  BY DEF TypeOK
<1>3. PICK r : r = ReportFull(mem, store, used)
  OBVIOUS
<1>4. r \in Memory /\ r = [mem EXCEPT !.full = r.full] /\ r.full = OverLimits(mem, store, used, 1)
  BY <1>2, <1>3, ReportTyped
<1>5. r.held = mem.held /\ r.connected = mem.connected /\ r.grace = mem.grace /\ (Waits(mem) => Waits(r))
  BY <1>2, <1>4 DEF Memory, Waits, HandingOff
<1>6. Handled(mem, {})
  <2> HIDE DEF ReportFull, OverLimits
  <2> QED BY <1>1, <1>2, <1>3, <1>4, <1>5, QuietlyHandles
<1>7. Came(mem, {})
  BY <1>1 DEF Came, Took, Same
<1> QED BY <1>1, <1>2, <1>6, <1>7 DEF Handles

LEMMA IdleHandles == ASSUME TypeOK, OnIdle PROVE Handles
<1> PICK reported : reported = ReportFull(mem, store, used)
  OBVIOUS
<1> PICK m : m = [reported EXCEPT !.handingOff = [c \in Content |-> GivenUp(@[c])],
                                  !.asking = GivenUp(@),
                                  !.reclaiming = GivenUp(@),
                                  !.paused = GivenUp(@)]
  OBVIOUS
<1>1. /\ up /\ UNCHANGED <<store, used, up, inbox, asked, writing, peers, history>>
  BY Zenon DEF OnIdle
<1>2. Evict(m, store, used) \/ (mem' = reported /\ NothingSent)
  <2>1. LET rr == ReportFull(mem, store, used)
            mm == [rr EXCEPT !.handingOff = [c \in Content |-> GivenUp(@[c])],
                             !.asking = GivenUp(@),
                             !.reclaiming = GivenUp(@),
                             !.paused = GivenUp(@)]
        IN  Evict(mm, store, used) \/ (mem' = rr /\ NothingSent)
    BY ZenonT(30) DEF OnIdle
  <2> HIDE DEF Evict, ReportFull, GivenUp
  <2> QED BY <2>1
<1>3. mem \in Memory
  BY DEF TypeOK
<1>4. /\ reported \in Memory /\ reported = [mem EXCEPT !.full = reported.full]
      /\ reported.full = OverLimits(mem, store, used, 1)
  BY <1>3, ReportTyped
<1>5. Same(reported) /\ (Waits(mem) => Waits(reported))
  BY <1>3, <1>4 DEF Memory, Waits, HandingOff, Same
<1>6. m \in Memory /\ Same(m)
  <2>1. PICK h, a, r, p : /\ h = [c \in Content |-> GivenUp(reported.handingOff[c])]
                          /\ a = GivenUp(reported.asking) /\ r = GivenUp(reported.reclaiming)
                          /\ p = GivenUp(reported.paused)
    OBVIOUS
  <2>2. h \in [Content -> Timers(HandOffTimeout)]
    BY <1>4, <2>1 DEF GivenUp, Timers, Memory
  <2>3. /\ a \in Timers(CandidatesTimeout) /\ r \in Timers(ReclaimTimeout)
        /\ p \in Timers(RetryDelay + Grace)
    BY <1>4, <2>1 DEF GivenUp, Timers, Memory
  <2>4. m = [reported EXCEPT !.handingOff = h, !.asking = a, !.reclaiming = r, !.paused = p]
    BY <2>1
  <2> QED BY <1>4, <1>5, <2>2, <2>3, <2>4 DEF Memory, Same
<1>7. CASE Evict(m, store, used)
  <2>1. Evict(m, store', used) /\ store' = store \ {}
    <3> HIDE DEF Evict
    <3> QED BY <1>1, <1>7
  <2>2. Handled(m, {})
    <3> HIDE DEF Evict, Handled
    <3> QED BY <2>1, <1>6, EvictHandles
  <2>3. Came(m, {})
    BY <1>1, <1>6 DEF Came
  <2> QED BY <1>1, <1>6, <2>2, <2>3 DEF Handles
<1>8. CASE mem' = reported /\ NothingSent
  <2>1. Handled(mem, {})
    <3> HIDE DEF OverLimits
    <3> QED BY <1>1, <1>3, <1>4, <1>5, <1>8, QuietlyHandles DEF Same
  <2>2. Came(mem, {})
    BY <1>1 DEF Came, Same
  <2> QED BY <1>1, <1>3, <2>1, <2>2 DEF Handles
<1> QED BY <1>2, <1>7, <1>8

LEMMA ModuleHandles == ASSUME TypeOK, Module PROVE Handles
BY StartHandles, StoredHandles, AcknowledgedHandles, CandidatesHandles, ShunnedHandles,
   PeersConnectedHandles, FullRequestedHandles, ReclaimedHandles, IdleHandles DEF Module

-----------------------------------------------------------------------------
(* Types. What SafeInv says of them need not be shown again. *)

Rest ==
    /\ used \in Nat /\ up \in BOOLEAN /\ mem \in Memory
    /\ requests \in Seq(Request) /\ notices \in [Content -> Nat] /\ reclaims \in Nat
    /\ asked \subseteq Directions
    /\ fresh \in [Content -> 0..Grace] /\ lost \in Nat /\ spent \in [Kinds -> Nat]

LEMMA TypeSplit == TypeOK => Rest
BY DEF Rest, TypeOK, Request

LEMMA RestTyped ==
    ASSUME SafeInv, Rest
    PROVE  TypeOK
<1> HIDE DEF Memory, Messages
<1> QED BY DEF SafeInv, Rest, TypeOK, Request

LEMMA SentTyped ==
    ASSUME Rest, NEW m, Sent(m)
    PROVE  requests' \in Seq(Request) /\ notices' \in [Content -> Nat] /\ reclaims' \in Nat
<1>1. notices' \in [Content -> Nat]
  BY DEF Sent, Rest
<1>2. requests' \in Seq(Request)
  <2>1. requests' = requests \/ \E r \in Request : requests' = Append(requests, r)
    BY Zenon DEF Sent
  <2>2. requests \in Seq(Request)
    BY DEF Rest
  <2> HIDE DEF Request
  <2> QED BY <2>1, <2>2
<1> QED BY <1>1, <1>2 DEF Sent, Rest

LEMMA ModuleTyped ==
    ASSUME TypeOK, Module
    PROVE  Rest'
<1>1. Handles
  BY ModuleHandles
<1>2. Rest
  BY TypeSplit
<1>3. PICK m \in Memory, dropped \in SUBSET Content : Handled(m, dropped) /\ Came(m, dropped)
  BY <1>1 DEF Handles
<1>4. Sent(m) /\ mem' \in Memory
  BY <1>3 DEF Handled
<1>5. asked' \subseteq Directions
  BY <1>2, <1>3 DEF Came, Rest
<1>6. up' = TRUE /\ UNCHANGED <<used, fresh, lost, spent>>
  BY <1>1 DEF Handles, history
<1>7. requests' \in Seq(Request) /\ notices' \in [Content -> Nat] /\ reclaims' \in Nat
  BY <1>2, <1>4, SentTyped
<1> HIDE DEF Memory, Request
<1> QED BY <1>2, <1>4, <1>5, <1>6, <1>7 DEF Rest

LEMMA SpentTyped ==
    ASSUME NEW kind \in Kinds, spent \in [Kinds -> Nat], Spend(kind)
    PROVE  spent' \in [Kinds -> Nat]
BY DEF Spend

LEMMA Typed ==
    ASSUME TypeOK, SafeInv, Next
    PROVE  Rest'
<1> Rest
  BY TypeSplit
<1> HIDE DEF Memory, Request
<1> USE DEF eviction, peers, history, bus
<1>1. CASE Module
  BY <1>1, ModuleTyped
<1>2. CASE StatsAnswers
  <2>1. requests # <<>> /\ requests' = Tail(requests)
        /\ UNCHANGED <<store, used, eviction, notices, reclaims, asked, peers, writing, history>>
    BY <1>2 DEF StatsAnswers
  <2>2. requests' \in Seq(Request)
    BY <2>1 DEF Rest
  <2> QED BY <2>1, <2>2 DEF Rest
<1>3. CASE UnbundlerReclaims
  BY <1>3 DEF UnbundlerReclaims, Rest
<1>4. CASE BackupAsks
  BY <1>4, SpentTyped DEF BackupAsks, Rest, Kinds
<1>5. CASE FreeSpaceChanges
  <2>1. used' \in Nat
    <3>1. Cardinality(store) \in Nat
      BY SubsetsCounted DEF SafeInv
    <3> QED BY <1>5, <3>1, SettingsTyped DEF FreeSpaceChanges
  <2> QED BY <1>5, <2>1, SpentTyped DEF FreeSpaceChanges, Rest, Kinds
<1>6. ASSUME NEW c \in Content, HandOffStarts(c) PROVE Rest'
  BY <1>6 DEF HandOffStarts, Rest
<1>7. ASSUME NEW c \in Content, PeerAccepts(c) \/ PeersRefuse(c) PROVE Rest'
  BY <1>7 DEF PeerAccepts, PeersRefuse, HandOffEnds, Rest
<1>8. ASSUME NEW c \in Content, Shuns(c) PROVE Rest'
  BY <1>8, SpentTyped DEF Shuns, Rest, Kinds
<1>9. ASSUME NEW d \in Directions, NEW p \in Nodes, Spend("links") /\ (Opened(d, p) \/ Closed(d, p))
      PROVE  Rest'
  BY <1>9, SpentTyped DEF Opened, Closed, LinksChange, Rest, Kinds
<1>10. ASSUME NEW d \in Directions, OnPeersConnectedRequested(d) PROVE Rest'
  BY <1>10 DEF OnPeersConnectedRequested, Rest
<1>11. ASSUME NEW w \in Writers, Stores(w) \/ Announces(w) \/ (\E c \in Content : LooksFor(w, c))
       PROVE  Rest'
  <2>1. CASE Stores(w)
    BY <2>1 DEF Stores, Rest
  <2>2. CASE Announces(w)
    <3>1. fresh' \in [Content -> 0..Grace]
      <4>1. Grace \in 0..Grace /\ fresh \in [Content -> 0..Grace]
            /\ fresh' = [fresh EXCEPT ![writing[w].content] = Grace]
        BY <2>2, SettingsTyped DEF Announces, Rest
      <4> QED BY <4>1
    <3> QED BY <2>2, <3>1 DEF Announces, Rest
  <2>3. ASSUME NEW c \in Content, LooksFor(w, c) PROVE Rest'
    BY <2>3, SpentTyped DEF LooksFor, Rest, Kinds
  <2> QED BY <1>11, <2>1, <2>2, <2>3
<1>12. CASE EvictionCrashes
  <2>1. Started({}) \in Memory
    BY StartedTyped
  <2> HIDE DEF Started
  <2> QED BY <1>12, <2>1, SpentTyped DEF EvictionCrashes, Rest, Kinds
<1>13. CASE MessageLost
  <2>1. spent' \in [Kinds -> Nat]
    BY <1>13, SpentTyped DEF MessageLost, Rest, Kinds
  <2>2. UNCHANGED <<used, up, mem, fresh>>
    BY <1>13 DEF MessageLost
  <2>3. CASE UNCHANGED <<requests, notices, reclaims, asked>> /\ lost' \in {lost, lost + 1}
    BY <2>1, <2>2, <2>3 DEF Rest
  <2>4. CASE (\E i \in DOMAIN requests : requests' = RemoveAt(requests, i)) /\ UNCHANGED <<notices, reclaims, asked, lost>>
    <3>1. requests' \in Seq(Request)
      BY <2>4, RemoveAtElements DEF Rest
    <3> QED BY <2>1, <2>2, <2>4, <3>1 DEF Rest
  <2>5. CASE (\E c \in Content : notices[c] > 0 /\ notices' = [notices EXCEPT ![c] = @ - 1])
             /\ UNCHANGED <<requests, reclaims, asked, lost>>
    BY <2>1, <2>2, <2>5 DEF Rest
  <2>6. CASE reclaims > 0 /\ reclaims' = reclaims - 1 /\ UNCHANGED <<requests, notices, asked, lost>>
    BY <2>1, <2>2, <2>6 DEF Rest
  <2>7. CASE (\E d \in asked : asked' = asked \ {d}) /\ UNCHANGED <<requests, notices, reclaims, lost>>
    BY <2>1, <2>2, <2>7 DEF Rest
  <2> QED BY <1>13, <2>3, <2>4, <2>5, <2>6, <2>7 DEF MessageLost
<1>14. ASSUME NEW d \in Directions, LinksCrash(d) PROVE Rest'
  BY <1>14, SpentTyped DEF LinksCrash, Rest, Kinds
<1>15. ASSUME NEW w \in Writers, WriterCrashes(w) PROVE Rest'
  BY <1>15, SpentTyped DEF WriterCrashes, Rest, Kinds
<1>16. CASE Tick
  <2>1. PICK h, a, r, u, p, g :
            /\ h = [c \in Content |-> Ticked(mem.handingOff[c])] /\ a = Ticked(mem.asking)
            /\ r = Ticked(mem.reclaiming) /\ u = Ticked(mem.reclaimDue) /\ p = Ticked(mem.paused)
            /\ g = [c \in Content |-> Ticked(mem.grace[c])]
    OBVIOUS
  <2>2. mem' = [mem EXCEPT !.handingOff = h, !.asking = a, !.reclaiming = r, !.reclaimDue = u,
                           !.paused = p, !.grace = g]
    BY <1>16, <2>1 DEF Tick
  <2>3. mem \in Memory
    BY DEF Rest
  <2>4. h \in [Content -> Timers(HandOffTimeout)] /\ g \in [Content -> 0..Grace]
    BY <2>1, <2>3, SettingsTyped DEF Memory, Ticked, Timers, NoTimer
  <2>5. /\ a \in Timers(CandidatesTimeout) /\ r \in Timers(ReclaimTimeout)
        /\ u \in 0..ReclaimInterval /\ p \in Timers(RetryDelay + Grace)
    <3>1. /\ mem.asking \in Timers(CandidatesTimeout) /\ mem.reclaiming \in Timers(ReclaimTimeout)
          /\ mem.reclaimDue \in 0..ReclaimInterval /\ mem.paused \in Timers(RetryDelay + Grace)
      BY <2>3 DEF Memory
    <3>2. /\ \A n \in Nat : \A t \in Timers(n) : Ticked(t) \in Timers(n)
          /\ \A t \in 0..ReclaimInterval : Ticked(t) \in 0..ReclaimInterval
      BY SettingsTyped DEF Ticked, Timers, NoTimer
    <3> QED BY <2>1, <3>1, <3>2, SettingsTyped
  <2>6. mem' \in Memory
    BY <2>2, <2>3, <2>4, <2>5 DEF Memory
  <2>7. fresh' \in [Content -> 0..Grace]
    <3>1. fresh \in [Content -> 0..Grace] /\ fresh' = [c \in Content |-> Ticked(fresh[c])]
      BY <1>16 DEF Tick, Rest
    <3>2. \A t \in 0..Grace : Ticked(t) \in 0..Grace
      BY SettingsTyped DEF Ticked
    <3> QED BY <3>1, <3>2
  <2> QED BY <1>16, <2>6, <2>7 DEF Tick, Rest
<1> QED
  BY <1>1, <1>2, <1>3, <1>4, <1>5, <1>6, <1>7, <1>8, <1>9, <1>10, <1>11, <1>12, <1>13, <1>14, <1>15, <1>16
  DEF Next, Surroundings, Failures

LEMMA InitTyped == Init => TypeOK /\ SafeInv
<1> SUFFICES ASSUME Init PROVE TypeOK /\ SafeInv
  OBVIOUS
<1>1. SafeInv
  BY InitSafe
<1>2. mem \in Memory
  BY StartedTyped DEF Init
<1>3. used \in Nat
  <2>1. Cardinality(store) \in Nat
    BY <1>1, SubsetsCounted DEF SafeInv
  <2> QED BY <2>1, SettingsTyped DEF Init
<1>4. Rest
  <2> HIDE DEF Memory, Request, Started
  <2>1. /\ notices \in [Content -> Nat] /\ reclaims \in Nat /\ lost \in Nat
        /\ spent \in [Kinds -> Nat] /\ asked \subseteq Directions
    BY DEF Init
  <2>2. fresh \in [Content -> 0..Grace]
    BY SettingsTyped DEF Init
  <2>3. requests \in Seq(Request)
    BY DEF Init
  <2>4. up \in BOOLEAN
    BY Zenon DEF Init
  <2> QED BY <1>2, <1>3, <2>1, <2>2, <2>3, <2>4 DEF Rest
<1> QED BY <1>1, <1>4, RestTyped

LEMMA NextTyped ==
    ASSUME TypeOK, SafeInv, [Next]_vars
    PROVE  TypeOK' /\ SafeInv'
<1>1. SafeInv'
  BY NextKeeps DEF Keeps
<1>2. CASE Next
  <2>1. Rest'
    BY <1>2, Typed
  <2> HIDE DEF Memory, Messages
  <2> QED BY <1>1, <2>1 DEF SafeInv, Rest, TypeOK, Request
<1>3. CASE UNCHANGED vars
  BY <1>1, <1>3 DEF TypeOK, vars
<1> QED BY <1>2, <1>3

(* Every variable has its type throughout: the memory of the module, its    *)
(* timers within their settings, what is sent and what waits.               *)
THEOREM EvictionTypeOK == Spec => []TypeOK
BY InitTyped, NextTyped, PTL DEF Spec

LEMMA SpecTyped == Spec => [](TypeOK /\ SafeInv)
BY InitTyped, NextTyped, PTL DEF Spec

-----------------------------------------------------------------------------
(* What any step does to what the module knows and is told. *)

SpentMore == \A kind \in Kinds : spent'[kind] >= spent[kind]

(* Nothing it knows or is told changes, but for the free space. *)
Stays ==
    /\ UNCHANGED <<store, up, mem, writing, lost, fresh, inbox, linked, asked>> /\ SpentMore
    /\ used' = used \/ spent'["space"] > 0
    /\ shunned \subseteq shunned' /\ \A c \in Content : notices'[c] <= notices[c]

(* It is told something other than what was stored. *)
Tells(message) ==
    /\ UNCHANGED <<store, up, mem, writing, lost, fresh>> /\ SpentMore
    /\ message.type # "data.stored" /\ Deliver(message)
    /\ used' = used \/ message.type = "resolved.reclaimed"
    /\ shunned \subseteq shunned' /\ \A c \in Content : notices'[c] <= notices[c]
    /\ \/ message.type # "peers.connected" /\ UNCHANGED <<linked, asked>>
       \/ /\ message.type = "peers.connected"
          /\ linked' = [linked EXCEPT ![message.direction] = message.nodes]
          /\ asked \ {message.direction} \subseteq asked'

(* A writer goes on, or crashes. *)
Writes(w) ==
    /\ UNCHANGED <<used, up, mem, linked, asked, shunned, notices>> /\ SpentMore
    /\ \/ Stores(w) \/ Announces(w) \/ WriterCrashes(w) \/ \E c \in Content : LooksFor(w, c)

LEMMA SpendsMore ==
    ASSUME TypeOK, NEW kind \in Kinds, Spend(kind)
    PROVE  SpentMore /\ spent'[kind] > 0
BY DEF Spend, SpentMore, TypeOK

LEMMA SpendsNoMore ==
    ASSUME TypeOK, UNCHANGED spent
    PROVE  SpentMore
BY DEF SpentMore, TypeOK

LEMMA NoticesKept ==
    ASSUME TypeOK, UNCHANGED notices
    PROVE  \A c \in Content : notices'[c] <= notices[c]
BY DEF TypeOK

LEMMA Steps ==
    ASSUME TypeOK, [Next]_vars
    PROVE  \/ Handles \/ Stays \/ \E message : Tells(message)
           \/ \E w \in Writers : Writes(w)
           \/ EvictionCrashes \/ MessageLost \/ Tick
<1> USE DEF eviction, peers, history, bus
<1> HIDE DEF Handles
<1>0. linked \in [Directions -> SUBSET Nodes]
  BY DEF TypeOK
<1>1. CASE StatsAnswers
  <2>1. PICK objects : Deliver([type |-> "eviction.candidates", objects |-> objects])
    BY <1>1 DEF StatsAnswers
  <2>2. Tells([type |-> "eviction.candidates", objects |-> objects])
    BY <1>1, <2>1, SpendsNoMore, NoticesKept DEF StatsAnswers, Tells
  <2> QED BY <2>2
<1>2. CASE UnbundlerReclaims
  <2>1. Tells([type |-> "resolved.reclaimed"])
    BY <1>2, SpendsNoMore, NoticesKept DEF UnbundlerReclaims, Tells
  <2> QED BY <2>1
<1>3. CASE BackupAsks
  <2>1. Tells([type |-> "storage.full_requested"])
    BY <1>3, SpendsMore, NoticesKept DEF BackupAsks, Announce, Tells, Kinds
  <2> QED BY <2>1
<1>4. CASE FreeSpaceChanges
  <2>1. Stays
    BY <1>4, SpendsMore, NoticesKept DEF FreeSpaceChanges, Stays, Kinds
  <2> QED BY <2>1
<1>5. ASSUME NEW c \in Content, HandOffStarts(c)
      PROVE  Stays \/ \E message : Tells(message)
  <2>1. \A o \in Content : notices'[o] <= notices[o]
    BY <1>5 DEF HandOffStarts, TypeOK
  <2>2. CASE UNCHANGED inbox
    BY <1>5, <2>1, <2>2, SpendsNoMore DEF HandOffStarts, Stays
  <2>3. CASE Acknowledge(c, 0)
    <3>1. Tells([type |-> "eviction.acknowledged", content |-> c, holders |-> 0])
      BY <1>5, <2>1, <2>3, SpendsNoMore DEF HandOffStarts, Acknowledge, Tells
    <3> QED BY <3>1
  <2> QED BY <1>5, <2>2, <2>3 DEF HandOffStarts
<1>6. ASSUME NEW c \in Content, NEW holders, HandOffEnds(c, holders)
      PROVE  \E message : Tells(message)
  <2>1. Tells([type |-> "eviction.acknowledged", content |-> c, holders |-> holders])
    BY <1>6, SpendsNoMore, NoticesKept DEF HandOffEnds, Acknowledge, Tells
  <2> QED BY <2>1
<1>7. ASSUME NEW c \in Content, Shuns(c)
      PROVE  \E message : Tells(message)
  <2>1. Tells([type |-> "data.shunned", content |-> c])
    BY <1>7, SpendsMore, NoticesKept DEF Shuns, Announce, Tells, Kinds
  <2> QED BY <2>1
<1>8. ASSUME NEW d \in Directions, NEW nodes, Spend("links"), LinksChange(d, nodes)
      PROVE  \E message : Tells(message)
  <2>1. Tells(Connected(d, nodes))
    BY <1>8, SpendsMore, NoticesKept DEF LinksChange, Announce, Connected, Tells, Kinds
  <2> QED BY <2>1
<1>9. ASSUME NEW d \in Directions, OnPeersConnectedRequested(d)
      PROVE  \E message : Tells(message)
  <2>1. linked' = [linked EXCEPT ![d] = linked[d]]
    BY <1>0, <1>9 DEF OnPeersConnectedRequested
  <2>2. Tells(Connected(d, linked[d]))
    BY <1>9, <2>1, SpendsNoMore, NoticesKept DEF OnPeersConnectedRequested, Connected, Tells
  <2> QED BY <2>2
<1>10. ASSUME NEW w \in Writers, Stores(w) \/ Announces(w) \/ \E c \in Content : LooksFor(w, c)
       PROVE  Writes(w)
  <2>1. CASE Stores(w)
    BY <2>1, SpendsNoMore DEF Writes, Stores
  <2>2. CASE Announces(w)
    BY <2>2, SpendsNoMore DEF Writes, Announces
  <2>3. ASSUME NEW c \in Content, LooksFor(w, c) PROVE Writes(w)
    BY <2>3, SpendsMore DEF Writes, LooksFor, Kinds
  <2> QED BY <1>10, <2>1, <2>2, <2>3
<1>11. ASSUME NEW d \in Directions, LinksCrash(d)
       PROVE  \E message : Tells(message)
  <2>1. Tells(Connected(d, {}))
    BY <1>11, SpendsMore, NoticesKept DEF LinksCrash, Announce, Connected, Tells, Kinds
  <2> QED BY <2>1
<1>12. ASSUME NEW w \in Writers, WriterCrashes(w)
       PROVE  Writes(w)
  BY <1>12, SpendsMore DEF Writes, WriterCrashes, Kinds
<1>13. CASE UNCHANGED vars
  <2>1. Stays
    BY <1>13, SpendsNoMore, NoticesKept DEF Stays, vars
  <2> QED BY <2>1
<1>14. CASE Surroundings
  <2>1. ASSUME NEW c \in Content, PeerAccepts(c) \/ PeersRefuse(c)
        PROVE  \E message : Tells(message)
    BY <1>6, <2>1 DEF PeerAccepts, PeersRefuse
  <2>2. ASSUME NEW d \in Directions, NEW p \in Nodes, Spend("links") /\ (Opened(d, p) \/ Closed(d, p))
        PROVE  \E message : Tells(message)
    BY <1>8, <2>2 DEF Opened, Closed
  <2> HIDE DEF Stays, Tells, Writes
  <2> QED BY <1>1, <1>2, <1>3, <1>4, <1>5, <1>7, <1>9, <1>10, <1>14, <2>1, <2>2 DEF Surroundings
<1> HIDE DEF Stays, Tells, Writes
<1> QED BY <1>11, <1>12, <1>13, <1>14, ModuleHandles DEF Next, Failures

-----------------------------------------------------------------------------
(* NeverStalls. *)

LEMMA MoreIsWaitedFor ==
    ASSUME TypeOK, NeverStalls, [Next]_vars
    PROVE  NeverStalls'
<1> SUFFICES ASSUME up', HeldExcess' > 0
             PROVE  Waits(mem')
  BY DEF NeverStalls, Waits
<1>0. up /\ HeldExcess > 0 => Waits(mem)
  BY DEF NeverStalls, Waits
<1>1. CASE Handles
  <2>1. PICK m \in Memory, dropped \in SUBSET Content : Handled(m, dropped)
    BY <1>1 DEF Handles
  <2>2. mem'.held = m.held
    BY <2>1 DEF Handled
  <2>3. CASE Excess(m, store', used) > 0 => Waits(mem')
    <3>1. store' \in SUBSET Content /\ used \in Int
      <4>1. store' = store \ dropped
        BY <2>1 DEF Handled
      <4> QED BY <4>1 DEF TypeOK
    <3>2. PICK files, use : files = store' /\ use = used
      OBVIOUS
    <3>3. m.held \in Nat /\ Cardinality(files) \in Nat
      BY <3>1, <3>2, SubsetsCounted DEF Memory
    <3>4. Excess(m, files, use) > 0
      <4>1. HeldExcess' = IF MaxHeld = NoLimit THEN 0 ELSE Larger(0, m.held + Headroom - MaxHeld)
        BY <2>2 DEF HeldExcess
      <4>2. m.held + Headroom - MaxHeld > 0 /\ MaxHeld # NoLimit
        BY <3>3, <4>1, SettingsTyped DEF Larger
      <4>3. Disk - Cardinality(files) - use \in Int
        BY <3>1, <3>2, <3>3, SettingsTyped
      <4> QED BY <3>3, <4>2, <4>3, SettingsTyped DEF Excess, Larger, FreeBytes
    <3> QED BY <2>3, <3>2, <3>4
  <2>4. CASE (Waits(mem) => Waits(mem')) /\ m.held = mem.held /\ up
    <3>1. HeldExcess > 0
      BY <2>2, <2>4 DEF HeldExcess
    <3> QED BY <1>0, <2>4, <3>1
  <2> QED BY <2>1, <2>3, <2>4 DEF Handled
<1>2. CASE UNCHANGED <<up, mem>>
  BY <1>0, <1>2 DEF HeldExcess
<1>3. CASE EvictionCrashes
  BY <1>3 DEF EvictionCrashes
<1>4. CASE Tick
  <2>1. mem \in Memory
    BY DEF TypeOK
  <2>2. PICK h, a, r, u, p, g :
            /\ h = [c \in Content |-> Ticked(mem.handingOff[c])] /\ a = Ticked(mem.asking)
            /\ r = Ticked(mem.reclaiming) /\ u = Ticked(mem.reclaimDue) /\ p = Ticked(mem.paused)
            /\ g = [c \in Content |-> Ticked(mem.grace[c])]
    OBVIOUS
  <2>3. /\ up
        /\ mem' = [mem EXCEPT !.handingOff = h, !.asking = a, !.reclaiming = r, !.reclaimDue = u,
                              !.paused = p, !.grace = g]
    BY <1>4, <2>2 DEF Tick
  <2>4. /\ mem'.held = mem.held /\ mem'.handingOff = h /\ mem'.asking = a
        /\ mem'.reclaiming = r /\ mem'.paused = p
    BY <2>1, <2>3 DEF Memory
  <2>5. Waits(mem)
    BY <1>0, <2>3, <2>4 DEF HeldExcess
  <2>6. \A n \in Nat : \A t \in Timers(n) : Running(t) => Running(Ticked(t))
    BY DEF Running, Ticked, Timers, NoTimer
  <2>7. /\ mem.handingOff \in [Content -> Timers(HandOffTimeout)]
        /\ mem.asking \in Timers(CandidatesTimeout) /\ mem.reclaiming \in Timers(ReclaimTimeout)
        /\ mem.paused \in Timers(RetryDelay + Grace)
    BY <2>1 DEF Memory
  <2>8. \A c \in Content : Running(mem.handingOff[c]) => Running(h[c])
    <3> HIDE DEF Running, Ticked
    <3> QED BY <2>2, <2>6, <2>7, SettingsTyped
  <2>9. /\ Running(mem.asking) => Running(a)
        /\ Running(mem.reclaiming) => Running(r)
        /\ Running(mem.paused) => Running(p)
    <3> HIDE DEF Running, Ticked
    <3> QED BY <2>2, <2>6, <2>7, SettingsTyped
  <2>10. PICK now, before : now = mem' /\ before = mem
    OBVIOUS
  <2>11. (\E c \in Content : Running(before.handingOff[c])) \/ Running(before.asking)
         \/ Running(before.reclaiming) \/ Running(before.paused)
    <3> HIDE DEF Running
    <3> QED BY <2>5, <2>10 DEF Waits, HandingOff
  <2>12. (\E c \in Content : Running(now.handingOff[c])) \/ Running(now.asking)
         \/ Running(now.reclaiming) \/ Running(now.paused)
    <3> HIDE DEF Running
    <3> QED BY <2>4, <2>8, <2>9, <2>10, <2>11
  <2>13. Waits(now)
    <3> HIDE DEF Running
    <3> QED BY <2>12 DEF Waits, HandingOff
  <2> HIDE DEF Waits
  <2> QED BY <2>10, <2>13
<1>5. MessageLost => UNCHANGED <<up, mem>>
  BY DEF MessageLost, eviction
<1>6. (Stays \/ (\E message : Tells(message)) \/ \E w \in Writers : Writes(w)) => UNCHANGED <<up, mem>>
  BY DEF Stays, Tells, Writes
<1> HIDE DEF Handles, Stays, Tells, Writes, EvictionCrashes, MessageLost, Tick, Waits, HeldExcess
<1> QED BY <1>1, <1>2, <1>3, <1>4, <1>5, <1>6, Steps

(* With more held than the limit on it allows, the module always waits for  *)
(* something that will have it carry on. *)
THEOREM EvictionNeverStalls == Spec => []NeverStalls
<1>1. Init => NeverStalls
  BY DEF Init, NeverStalls
<1> QED BY <1>1, SpecTyped, MoreIsWaitedFor, PTL DEF Spec

-----------------------------------------------------------------------------
(* FullIsCurrent. *)

LEMMA WritersCounted ==
    ASSUME NEW W \in SUBSET Writers
    PROVE  IsFiniteSet(W) /\ Cardinality(W) \in Nat /\ (Cardinality(W) > 0 <=> W # {})
BY SettingsTyped, FS_Subset, FS_CardinalityType, FS_EmptySet

(* Storage is as full for one memory as for another that holds as much. *)
LEMMA SameLimits ==
    ASSUME NEW m, NEW n, m.held = n.held, NEW files, NEW use
    PROVE  OverLimits(m, files, use, 1) = OverLimits(n, files, use, 1)
BY DEF OverLimits

(* What happens to what the inbox holds of some type of message. *)
LEMMA Appended ==
    ASSUME NEW box \in Seq(Messages), NEW message, NEW i \in DOMAIN box
    PROVE  i \in DOMAIN Append(box, message) /\ Append(box, message)[i] = box[i]
OBVIOUS

LEMMA AppendedLast ==
    ASSUME NEW box \in Seq(Messages), NEW message
    PROVE  \E i \in DOMAIN Append(box, message) : Append(box, message)[i] = message
<1>1. Len(box) + 1 \in DOMAIN Append(box, message) /\ Append(box, message)[Len(box) + 1] = message
  OBVIOUS
<1> QED BY <1>1

LEMMA Tailed ==
    ASSUME NEW box \in Seq(Messages), box # <<>>, NEW i \in DOMAIN box
    PROVE  box[i] = Head(box) \/ (i - 1 \in DOMAIN Tail(box) /\ Tail(box)[i - 1] = box[i])
OBVIOUS

StorageNews == {"data.stored", "resolved.reclaimed"}
NewsIn(box) == \E i \in DOMAIN box : box[i].type \in StorageNews

LEMMA NewsStays ==
    ASSUME NEW box \in Seq(Messages), NEW message, NewsIn(box)
    PROVE  NewsIn(Append(box, message))
<1>1. PICK i \in DOMAIN box : box[i].type \in StorageNews
  BY DEF NewsIn
<1> QED BY <1>1, Appended DEF NewsIn

LEMMA NewsComes ==
    ASSUME NEW box \in Seq(Messages), NEW message, message.type \in StorageNews
    PROVE  NewsIn(Append(box, message))
BY AppendedLast DEF NewsIn

LEMMA NewsWaits ==
    ASSUME NEW box \in Seq(Messages), box # <<>>, Head(box).type \notin StorageNews, NewsIn(box)
    PROVE  NewsIn(Tail(box))
<1>1. PICK i \in DOMAIN box : box[i].type \in StorageNews
  BY DEF NewsIn
<1> QED BY <1>1, Tailed DEF NewsIn

LEMMA NewsOfBoth == NewsOfStorage <=> NewsIn(inbox) \/ \E w \in Writers : writing[w].phase = "stored"
<1>1. PICK W : W = {w \in Writers : writing[w].phase = "stored"}
  OBVIOUS
<1>2. Cardinality(W) > 0 <=> W # {}
  BY <1>1, WritersCounted
<1>3. ToAnnounce = Cardinality(W)
  BY <1>1 DEF ToAnnounce
<1> QED BY <1>1, <1>2, <1>3 DEF NewsOfStorage, NewsIn, StorageNews

LEMMA NoNewsLater ==
    ASSUME ~NewsOfStorage'
    PROVE  ~NewsIn(inbox') /\ \A w \in Writers : writing'[w].phase # "stored"
<1>1. PICK W : W = {w \in Writers : writing'[w].phase = "stored"}
  OBVIOUS
<1>2. Cardinality(W) > 0 <=> W # {}
  BY <1>1, WritersCounted
<1>3. ToAnnounce' = Cardinality(W)
  BY <1>1 DEF ToAnnounce
<1> QED BY <1>1, <1>2, <1>3 DEF NewsOfStorage, NewsIn, StorageNews

LEMMA FullStaysCurrent ==
    ASSUME TypeOK, SafeInv, FullIsCurrent, [Next]_vars
    PROVE  FullIsCurrent'
<1> SUFFICES ASSUME up', ~NewsOfStorage', lost' + spent'["losses"] + spent'["space"] = 0
             PROVE  mem'.full = OverLimits(mem', store', used', 1)
  BY DEF FullIsCurrent
<1>1. ~NewsIn(inbox') /\ \A w \in Writers : writing'[w].phase # "stored"
  BY NoNewsLater
<1>2. lost' = 0 /\ spent'["losses"] = 0 /\ spent'["space"] = 0
  <2>1. lost' \in Nat /\ spent' \in [Kinds -> Nat]
    BY NextTyped DEF TypeOK
  <2>2. spent'["losses"] \in Nat /\ spent'["space"] \in Nat
    BY <2>1 DEF Kinds
  <2> QED BY <2>1, <2>2
<1>3. inbox \in Seq(Messages) /\ lost \in Nat /\ spent["losses"] \in Nat /\ spent["space"] \in Nat
  BY DEF TypeOK, Kinds
<1>4. ASSUME SpentMore, UNCHANGED <<up, lost>>, ~NewsIn(inbox),
             \A w \in Writers : writing[w].phase # "stored"
      PROVE  mem.full = OverLimits(mem, store, used, 1)
  <2>1. lost + spent["losses"] + spent["space"] = 0
    BY <1>2, <1>3, <1>4 DEF SpentMore, Kinds
  <2> QED BY <1>4, <2>1, NewsOfBoth DEF FullIsCurrent
<1>5. CASE Handles
  <2>1. /\ UNCHANGED <<used, writing, lost, spent>>
    BY <1>5 DEF Handles, history
  <2>2. PICK m \in Memory, dropped \in SUBSET Content : Handled(m, dropped) /\ Came(m, dropped)
    BY <1>5 DEF Handles
  <2>3. mem'.held = m.held /\ store' = store \ dropped
    BY <2>2 DEF Handled
  <2>4. CASE mem'.full = OverLimits(m, store', used, 1)
    <3> HIDE DEF OverLimits
    <3> QED BY <2>1, <2>3, <2>4, SameLimits
  <2>5. CASE mem'.full = mem.full /\ m.held = mem.held /\ dropped = {} /\ up
             /\ ~(mem'.full = OverLimits(m, store', used, 1))
    <3>1. ~NewsIn(inbox)
      <4>1. CASE UNCHANGED inbox
        BY <1>1, <4>1
      <4>2. CASE inbox # <<>> /\ inbox' = Tail(inbox) /\ Took(m, dropped, Head(inbox))
        <5>1. mem \in Memory
          BY DEF TypeOK
        <5>2. mem.held \in Nat
          BY <5>1 DEF Memory
        <5>3. m.held # mem.held + 1
          BY <2>5, <5>2
        <5>4. Head(inbox).type \notin StorageNews
          <6> HIDE DEF OverLimits
          <6> QED BY <2>5, <4>2, <5>3 DEF Took, StorageNews
        <5> QED BY <1>1, <1>3, <4>2, <5>4, NewsWaits
      <4> QED BY <2>2, <2>5, <4>1, <4>2 DEF Came
    <3>2. mem.full = OverLimits(mem, store, used, 1)
      <4>1. SpentMore
        BY <2>1, SpendsNoMore
      <4> HIDE DEF OverLimits
      <4> QED BY <1>1, <1>4, <2>1, <2>5, <3>1, <4>1
    <3>3. store' = store
      BY <2>3, <2>5
    <3> HIDE DEF OverLimits
    <3> QED BY <2>1, <2>3, <2>5, <3>2, <3>3, SameLimits
  <2> HIDE DEF OverLimits
  <2> QED BY <2>2, <2>4, <2>5 DEF Handled
<1> HIDE DEF OverLimits
<1>6. CASE Stays
  <2>1. UNCHANGED <<store, up, mem, writing, lost, inbox, used>> /\ SpentMore
    <3>1. UNCHANGED <<store, up, mem, writing, lost, inbox>> /\ SpentMore
          /\ (used' = used \/ spent'["space"] > 0)
      BY <1>6, Zenon DEF Stays
    <3>2. ~(spent'["space"] > 0)
      BY <1>2
    <3> QED BY <3>1, <3>2
  <2>2. mem.full = OverLimits(mem, store, used, 1)
    BY <1>1, <1>4, <2>1
  <2> QED BY <2>1, <2>2
<1>7. ASSUME NEW message, Tells(message)
      PROVE  mem'.full = OverLimits(mem', store', used', 1)
  <2>1. inbox' = Append(inbox, message) /\ UNCHANGED <<store, up, mem, writing, lost>> /\ SpentMore
    BY <1>7 DEF Tells, Deliver
  <2>2. ~NewsIn(inbox) /\ message.type # "resolved.reclaimed"
    BY <1>1, <1>3, <2>1, NewsStays, NewsComes DEF StorageNews
  <2>3. used' = used
    BY <1>7, <2>2 DEF Tells
  <2> QED BY <1>1, <1>4, <2>1, <2>2, <2>3
<1>8. ASSUME NEW w \in Writers, Writes(w)
      PROVE  mem'.full = OverLimits(mem', store', used', 1)
  <2>1. UNCHANGED <<up, mem, used>> /\ SpentMore
    BY <1>8 DEF Writes
  <2>2. writing \in [Writers -> [phase : {"resting", "missing", "stored"}, content : Content]]
    BY DEF TypeOK
  <2>3. ~Stores(w)
    BY <1>1, <2>2 DEF Stores
  <2>4. ~Announces(w)
    <3>1. [type |-> "data.stored", content |-> writing[w].content].type \in StorageNews
      BY DEF StorageNews
    <3>2. PICK message : message = [type |-> "data.stored", content |-> writing[w].content]
      OBVIOUS
    <3>3. NewsIn(Append(inbox, message))
      BY <1>3, <3>1, <3>2, NewsComes
    <3>4. Announces(w) => inbox' = Append(inbox, message)
      BY <3>2 DEF Announces, Deliver
    <3> QED BY <1>1, <3>3, <3>4
  <2>5. CASE WriterCrashes(w)
    <3>1. writing[w].phase # "stored" /\ UNCHANGED <<store, inbox, lost>>
      BY <1>2, <1>3, <2>5 DEF WriterCrashes, bus
    <3>2. \A v \in Writers : writing[v].phase # "stored"
      BY <1>1, <2>2, <2>5, <3>1 DEF WriterCrashes
    <3> QED BY <1>1, <1>4, <2>1, <3>1, <3>2
  <2>6. ASSUME NEW c \in Content, LooksFor(w, c)
        PROVE  mem'.full = OverLimits(mem', store', used', 1)
    <3>1. writing[w].phase # "stored" /\ UNCHANGED <<store, inbox, lost>>
      BY <2>6 DEF LooksFor, bus, Resting
    <3>2. \A v \in Writers : writing[v].phase # "stored"
      BY <1>1, <2>2, <2>6, <3>1 DEF LooksFor
    <3> QED BY <1>1, <1>4, <2>1, <3>1, <3>2
  <2> QED BY <1>8, <2>3, <2>4, <2>5, <2>6 DEF Writes
<1>9. ~EvictionCrashes
  BY Zenon DEF EvictionCrashes
<1>10. ~MessageLost
  <2>1. MessageLost => spent'["losses"] > 0
    BY SpendsMore DEF MessageLost, Kinds
  <2> QED BY <1>2, <2>1
<1>11. CASE Tick
  <2>1. UNCHANGED <<store, used, up, inbox, writing, lost, spent>>
    BY <1>11 DEF Tick, bus
  <2>2. mem'.full = mem.full /\ mem'.held = mem.held
    BY <1>11 DEF Tick, TypeOK, Memory
  <2>3. SpentMore
    BY <2>1, SpendsNoMore
  <2>4. mem.full = OverLimits(mem, store, used, 1)
    BY <1>1, <1>4, <2>1, <2>3
  <2>5. OverLimits(mem', store, used, 1) = OverLimits(mem, store, used, 1)
    BY <2>2, SameLimits
  <2> QED BY <2>1, <2>2, <2>4, <2>5
<1> HIDE DEF Handles, Stays, Tells, Writes, EvictionCrashes, MessageLost, Tick
<1> QED BY <1>5, <1>6, <1>7, <1>8, <1>9, <1>10, <1>11, Steps

(* What was last said of storage being full, which a backup waits on, is so. *)
THEOREM EvictionFullIsCurrent == Spec => []FullIsCurrent
<1>1. Init => FullIsCurrent
  BY DEF Init, FullIsCurrent
<1> QED BY <1>1, SpecTyped, FullStaysCurrent, PTL DEF Spec

-----------------------------------------------------------------------------
(* StoredLatelyStays. *)

HasStored(box, c) == \E i \in DOMAIN box : box[i] = [type |-> "data.stored", content |-> c]

LEMMA OtherStoredStays ==
    ASSUME NEW box \in Seq(Messages), NEW message, NEW c, HasStored(box, c)
    PROVE  HasStored(Append(box, message), c)
<1>1. PICK i \in DOMAIN box : box[i] = [type |-> "data.stored", content |-> c]
  BY DEF HasStored
<1> QED BY <1>1, Appended DEF HasStored

LEMMA OtherStoredWaits ==
    ASSUME NEW box \in Seq(Messages), NEW c, box # <<>>, HasStored(box, c),
           Head(box).type # "data.stored" \/ Head(box).content # c
    PROVE  HasStored(Tail(box), c)
<1>1. PICK i \in DOMAIN box : box[i] = [type |-> "data.stored", content |-> c]
  BY DEF HasStored
<1>2. box[i] # Head(box)
  BY <1>1
<1> QED BY <1>1, <1>2, Tailed DEF HasStored

(* What the module was told of and handled is given its grace, and what it  *)
(* was told of before it started is still to be handled.                    *)
Unfailing == spent["crashes"] = 0 /\ spent["losses"] = 0
GraceOf(c) ==
    Unfailing /\ ~HasStored(inbox, c) /\ c \notin shunned =>
        IF up THEN fresh[c] <= mem.grace[c] ELSE fresh[c] = 0
GraceKept == \A c \in Content : GraceOf(c)

LEMMA UnfailingBefore ==
    ASSUME TypeOK, SpentMore, Unfailing'
    PROVE  Unfailing
<1>1. spent["crashes"] \in Nat /\ spent["losses"] \in Nat
  BY DEF TypeOK, Kinds
<1> QED BY <1>1 DEF SpentMore, Unfailing, Kinds

LEMMA HeadHonest ==
    ASSUME SafeInv, inbox # <<>>
    PROVE  Head(inbox) \in Messages /\ Honest(Head(inbox), elsewhere, shunned)
<1> 1 \in DOMAIN inbox /\ Head(inbox) = inbox[1]
  BY DEF SafeInv
<1> QED BY DEF SafeInv, AllHonest

LEMMA HeadNames ==
    ASSUME SafeInv, inbox # <<>>,
           Head(inbox).type \in {"data.stored", "data.shunned", "eviction.acknowledged"}
    PROVE  Head(inbox).content \in Content
<1>1. Head(inbox) \in Messages
  BY HeadHonest
<1> QED BY <1>1 DEF Messages

LEMMA GraceStaysKept ==
    ASSUME TypeOK, SafeInv, GraceKept, [Next]_vars
    PROVE  GraceKept'
<1> SUFFICES ASSUME NEW c \in Content, Unfailing', ~HasStored(inbox', c), c \notin shunned'
             PROVE  IF up' THEN fresh'[c] <= mem'.grace[c] ELSE fresh'[c] = 0
  BY DEF GraceKept, GraceOf
<1>1. inbox \in Seq(Messages) /\ mem \in Memory /\ fresh \in [Content -> 0..Grace]
  BY DEF TypeOK
<1>2. mem.grace \in [Content -> 0..Grace]
  BY <1>1 DEF Memory
<1>3. ASSUME SpentMore, ~HasStored(inbox, c), c \notin shunned
      PROVE  IF up THEN fresh[c] <= mem.grace[c] ELSE fresh[c] = 0
  BY <1>3, UnfailingBefore DEF GraceKept, GraceOf
<1>4. CASE Handles
  <2>1. up' = TRUE /\ UNCHANGED <<fresh, shunned, spent>>
    BY <1>4 DEF Handles, history
  <2>2. PICK m \in Memory, dropped \in SUBSET Content : Handled(m, dropped) /\ Came(m, dropped)
    BY <1>4 DEF Handles
  <2>3. mem'.grace = m.grace
    BY <2>2 DEF Handled
  <2>4. SpentMore
    BY <2>1, SpendsNoMore
  <2>5. fresh[c] <= m.grace[c]
    <3>1. CASE ~up /\ m = Started(store) /\ UNCHANGED inbox
      <4>1. fresh[c] = 0
        BY <1>3, <2>1, <2>4, <3>1
      <4>2. m.grace[c] = 0
        BY <3>1 DEF Started
      <4> QED BY <4>1, <4>2
    <3>2. CASE up /\ Same(m) /\ UNCHANGED inbox
      BY <1>3, <2>1, <2>4, <3>2 DEF Same
    <3>3. CASE up /\ inbox # <<>> /\ inbox' = Tail(inbox) /\ Took(m, dropped, Head(inbox))
      <4>1. CASE Head(inbox).type = "data.stored" /\ Head(inbox).content = c
        <5>1. m.grace = [mem.grace EXCEPT ![c] = Grace]
          BY <3>3, <4>1 DEF Took
        <5> QED BY <1>1, <1>2, <5>1, SettingsTyped
      <4>2. CASE ~(Head(inbox).type = "data.stored" /\ Head(inbox).content = c)
        <5>1. fresh[c] <= mem.grace[c]
          BY <1>1, <1>3, <2>1, <2>4, <3>3, <4>2, OtherStoredWaits
        <5>2. ~(Head(inbox).type = "data.shunned" /\ Head(inbox).content = c)
          BY <2>1, <3>3, HeadHonest DEF Honest
        <5>3. m.grace[c] = mem.grace[c]
          BY <1>2, <3>3, <4>2, <5>2 DEF Took, Same
        <5> QED BY <5>1, <5>3
      <4> QED BY <4>1, <4>2
    <3> QED BY <2>2, <3>1, <3>2, <3>3 DEF Came
  <2> QED BY <2>1, <2>3, <2>5
<1>5. CASE Stays
  BY <1>3, <1>5 DEF Stays
<1>6. ASSUME NEW message, Tells(message)
      PROVE  IF up' THEN fresh'[c] <= mem'.grace[c] ELSE fresh'[c] = 0
  <2>1. ~HasStored(inbox, c) /\ c \notin shunned
    BY <1>1, <1>6, OtherStoredStays DEF Tells, Deliver
  <2> QED BY <1>3, <1>6, <2>1 DEF Tells
<1>7. ASSUME NEW w \in Writers, Writes(w)
      PROVE  IF up' THEN fresh'[c] <= mem'.grace[c] ELSE fresh'[c] = 0
  <2>1. UNCHANGED <<up, mem, shunned>> /\ SpentMore
    BY <1>7 DEF Writes
  <2>2. CASE Announces(w)
    <3>1. PICK message : message = [type |-> "data.stored", content |-> writing[w].content]
      OBVIOUS
    <3>2. inbox' = Append(inbox, message) /\ fresh' = [fresh EXCEPT ![writing[w].content] = Grace]
      BY <2>2, <3>1 DEF Announces, Deliver
    <3>3. ~HasStored(inbox, c)
      BY <1>1, <3>2, OtherStoredStays
    <3>4. writing[w].content # c
      BY <1>1, <3>1, <3>2, AppendedLast DEF HasStored
    <3> QED BY <1>1, <1>3, <2>1, <3>2, <3>3, <3>4
  <2>3. CASE UNCHANGED <<inbox, fresh>>
    BY <1>3, <2>1, <2>3
  <2>4. Stores(w) \/ WriterCrashes(w) \/ (\E o \in Content : LooksFor(w, o)) => UNCHANGED <<inbox, fresh>>
    BY DEF Stores, WriterCrashes, LooksFor, bus, history
  <2> QED BY <1>7, <2>2, <2>3, <2>4 DEF Writes
<1>8. ~EvictionCrashes /\ ~MessageLost
  <2>1. EvictionCrashes => spent'["crashes"] > 0
    BY SpendsMore DEF EvictionCrashes, Kinds
  <2>2. MessageLost => spent'["losses"] > 0
    BY SpendsMore DEF MessageLost, Kinds
  <2> QED BY <2>1, <2>2 DEF Unfailing
<1>9. CASE Tick
  <2>1. UNCHANGED <<up, inbox, shunned, spent>> /\ up
    BY <1>9 DEF Tick, bus
  <2>2. SpentMore
    BY <2>1, SpendsNoMore
  <2>3. fresh[c] <= mem.grace[c]
    BY <1>3, <2>1, <2>2
  <2>4. PICK grace : grace = [o \in Content |-> Ticked(mem.grace[o])]
    OBVIOUS
  <2>5. mem'.grace = grace
    BY <1>1, <1>9, <2>4 DEF Tick, Memory
  <2>6. fresh'[c] = Ticked(fresh[c]) /\ grace[c] = Ticked(mem.grace[c])
    BY <1>9, <2>4 DEF Tick
  <2>7. \A s, t \in 0..Grace : s <= t => Ticked(s) <= Ticked(t)
    BY SettingsTyped DEF Ticked
  <2>8. Ticked(fresh[c]) <= Ticked(mem.grace[c])
    BY <1>1, <1>2, <2>3, <2>7
  <2> QED BY <2>1, <2>5, <2>6, <2>8
<1> HIDE DEF Handles, Stays, Tells, Writes, EvictionCrashes, MessageLost, Tick
<1> QED BY <1>4, <1>5, <1>6, <1>7, <1>8, <1>9, Steps

LEMMA FreshStays ==
    ASSUME TypeOK, SafeInv, GraceKept, [Next]_vars, NEW c \in Content,
           fresh[c] > 0, ~StoredNews(c), c \notin shunned, Unfailing
    PROVE  c \notin store \ store' /\ notices'[c] <= notices[c]
<1>1. mem \in Memory /\ fresh \in [Content -> 0..Grace] /\ notices \in [Content -> Nat]
  BY DEF TypeOK
<1>2. mem.grace \in [Content -> 0..Grace]
  BY <1>1 DEF Memory
<1>3. up /\ fresh[c] <= mem.grace[c]
  <2>1. ~HasStored(inbox, c)
    BY DEF StoredNews, HasStored
  <2> QED BY <1>1, <2>1 DEF GraceKept, GraceOf
<1>4. mem.grace[c] > 0 /\ Grace > 0
  BY <1>1, <1>2, <1>3, SettingsTyped
<1>5. CASE Handles
  <2>2. PICK m \in Memory, dropped \in SUBSET Content : Handled(m, dropped) /\ Came(m, dropped)
    BY <1>5 DEF Handles
  <2>3. store' = store \ dropped /\ Sent(m)
    BY <2>2 DEF Handled
  <2>4. c \notin dropped /\ m.grace[c] > 0
    <3>1. CASE Same(m) /\ dropped = {}
      BY <1>4, <3>1 DEF Same
    <3>2. CASE inbox # <<>> /\ Took(m, dropped, Head(inbox))
      <4>1. ~(Head(inbox).type = "data.shunned" /\ Head(inbox).content = c)
        BY <3>2, HeadHonest DEF Honest
      <4>2. CASE Head(inbox).type = "data.stored"
        BY <1>2, <1>4, <3>2, <4>2 DEF Took
      <4>3. CASE Head(inbox).type = "eviction.acknowledged"
        BY <1>4, <3>2, <4>3 DEF Took, Drops
      <4>4. CASE Head(inbox).type = "data.shunned"
        BY <1>2, <1>4, <3>2, <4>1, <4>4 DEF Took, Drops
      <4>5. CASE Head(inbox).type \notin {"data.stored", "eviction.acknowledged", "data.shunned"}
        BY <1>4, <3>2, <4>5 DEF Took, Same
      <4> QED BY <4>2, <4>3, <4>4, <4>5
    <3> QED BY <1>3, <2>2, <3>1, <3>2 DEF Came
  <2>5. notices'[c] <= notices[c]
    <3>1. ~MayHandOff(m, c)
      BY <2>4 DEF MayHandOff
    <3>2. CASE notices' = notices
      BY <1>1, <3>2
    <3>3. ASSUME NEW taken \in SUBSET Content, \A o \in taken : MayHandOff(m, o),
                 notices' = [o \in Content |-> IF o \in taken THEN notices[o] + 1 ELSE notices[o]]
          PROVE  notices'[c] <= notices[c]
      BY <1>1, <3>1, <3>3
    <3> QED BY <2>3, <3>2, <3>3 DEF Sent
  <2> QED BY <2>3, <2>4, <2>5
<1>6. CASE Stays
  BY <1>6 DEF Stays
<1>7. ASSUME NEW message, Tells(message)
      PROVE  store' = store /\ notices'[c] <= notices[c]
  BY <1>7 DEF Tells
<1>8. ASSUME NEW w \in Writers, Writes(w)
      PROVE  store \subseteq store' /\ notices'[c] <= notices[c]
  <2>1. notices' = notices
    BY <1>8 DEF Writes
  <2>2. store \subseteq store'
    BY <1>8 DEF Writes, Stores, Announces, WriterCrashes, LooksFor
  <2> QED BY <1>1, <2>1, <2>2
<1>9. CASE EvictionCrashes \/ Tick
  <2>1. UNCHANGED <<store, notices>>
    BY <1>9 DEF EvictionCrashes, Tick, bus
  <2> QED BY <1>1, <2>1
<1>10. CASE MessageLost
  <2>1. store' = store
    BY <1>10 DEF MessageLost
  <2>2. notices'[c] <= notices[c]
    BY <1>1, <1>10 DEF MessageLost
  <2> QED BY <2>1, <2>2
<1> HIDE DEF Handles, Stays, Tells, Writes, EvictionCrashes, MessageLost, Tick
<1> QED BY <1>5, <1>6, <1>7, <1>8, <1>9, <1>10, Steps

(* What was stored lately is neither handed off nor deleted until its grace *)
(* is over, unless shunned, while nothing has failed.                       *)
THEOREM EvictionStoredStays == Spec => StoredLatelyStays
<1>1. Init => GraceKept
  BY DEF Init, GraceKept, GraceOf
<1>2. Spec => []GraceKept
  BY <1>1, SpecTyped, GraceStaysKept, PTL DEF Spec
<1>3. TypeOK /\ SafeInv /\ GraceKept /\ [Next]_vars =>
          [\A c \in Content : fresh[c] > 0 /\ ~StoredNews(c) /\ c \notin shunned
                                  /\ spent.crashes = 0 /\ spent.losses = 0 =>
               c \notin store \ store' /\ notices'[c] <= notices[c]]_vars
  BY FreshStays DEF Unfailing
<1> QED BY <1>2, <1>3, SpecTyped, PTL DEF Spec, StoredLatelyStays

-----------------------------------------------------------------------------
(* ConnectedKeysKept. *)

Names(message, d) == message.type = "peers.connected" /\ message.direction = d
NamesNone(box, d) == \A i \in DOMAIN box : ~Names(box[i], d)
LastNews(box, d, i) ==
    i \in DOMAIN box /\ Names(box[i], d) /\ \A j \in DOMAIN box : j > i => ~Names(box[j], d)

LEMMA LastAppended ==
    ASSUME NEW box \in Seq(Messages), NEW message, NEW d, NEW i, LastNews(Append(box, message), d, i)
    PROVE  /\ Names(message, d) => Append(box, message)[i] = message
           /\ ~Names(message, d) => LastNews(box, d, i) /\ Append(box, message)[i] = box[i]
<1> HIDE DEF Names
<1>1. i \in DOMAIN Append(box, message) /\ Names(Append(box, message)[i], d)
      /\ \A j \in DOMAIN Append(box, message) : j > i => ~Names(Append(box, message)[j], d)
  BY DEF LastNews
<1>2. i \in 1..(Len(box) + 1) /\ Append(box, message)[Len(box) + 1] = message
      /\ Len(box) + 1 \in DOMAIN Append(box, message)
  BY <1>1
<1>3. CASE Names(message, d)
  BY <1>1, <1>2, <1>3
<1>4. CASE ~Names(message, d)
  <2>1. i \in DOMAIN box
    BY <1>1, <1>2, <1>4
  <2>2. \A j \in DOMAIN box : Append(box, message)[j] = box[j] /\ j \in DOMAIN Append(box, message)
    BY Appended
  <2> QED BY <1>1, <1>4, <2>1, <2>2 DEF LastNews
<1> QED BY <1>3, <1>4

LEMMA NoneAppended ==
    ASSUME NEW box \in Seq(Messages), NEW message, NEW d, NamesNone(Append(box, message), d)
    PROVE  NamesNone(box, d) /\ ~Names(message, d)
<1>1. NamesNone(box, d)
  BY Appended DEF NamesNone
<1>2. ~Names(message, d)
  BY AppendedLast DEF NamesNone
<1> QED BY <1>1, <1>2

LEMMA LastTailed ==
    ASSUME NEW box \in Seq(Messages), box # <<>>, NEW d, NEW i, LastNews(Tail(box), d, i)
    PROVE  LastNews(box, d, i + 1) /\ Tail(box)[i] = box[i + 1]
<1> HIDE DEF Names
<1>1. i \in DOMAIN Tail(box) /\ Names(Tail(box)[i], d)
      /\ \A j \in DOMAIN Tail(box) : j > i => ~Names(Tail(box)[j], d)
  BY DEF LastNews
<1>2. /\ \A j \in DOMAIN Tail(box) : j + 1 \in DOMAIN box /\ Tail(box)[j] = box[j + 1]
      /\ \A j \in DOMAIN box : j > 1 => j - 1 \in DOMAIN Tail(box) /\ Tail(box)[j - 1] = box[j]
  OBVIOUS
<1>3. i \in Nat \ {0} /\ DOMAIN box \subseteq Nat
  BY <1>1
<1>4. ASSUME NEW j \in DOMAIN box, j > i + 1 PROVE ~Names(box[j], d)
  <2>1. j - 1 \in DOMAIN Tail(box) /\ Tail(box)[j - 1] = box[j] /\ j - 1 > i
    BY <1>2, <1>3, <1>4
  <2> QED BY <1>1, <2>1
<1> QED BY <1>1, <1>2, <1>4 DEF LastNews

LEMMA NoneTailed ==
    ASSUME NEW box \in Seq(Messages), box # <<>>, NEW d, NamesNone(Tail(box), d)
    PROVE  /\ ~Names(Head(box), d) => NamesNone(box, d)
           /\ Names(Head(box), d) => LastNews(box, d, 1) /\ box[1] = Head(box)
<1> HIDE DEF Names
<1>1. /\ \A j \in DOMAIN box : j > 1 => j - 1 \in DOMAIN Tail(box) /\ Tail(box)[j - 1] = box[j]
      /\ 1 \in DOMAIN box /\ box[1] = Head(box)
      /\ \A j \in DOMAIN box : j = 1 \/ j > 1
  OBVIOUS
<1>2. \A j \in DOMAIN box : j > 1 => ~Names(box[j], d)
  BY <1>1 DEF NamesNone
<1> QED BY <1>1, <1>2 DEF NamesNone, LastNews

(* The last message that names the peers connected some way names them      *)
(* truly, and so does the memory once none is on its way.                   *)
LinkKnown(d) ==
    spent["losses"] = 0 =>
        /\ \A i \in DOMAIN inbox : LastNews(inbox, d, i) => inbox[i].nodes = linked[d]
        /\ up /\ d \notin asked /\ NamesNone(inbox, d) => mem.connected[d] = linked[d]
LinksKnown == \A d \in Directions : LinkKnown(d)

LEMMA LinksStayKnown ==
    ASSUME TypeOK, SafeInv, LinksKnown, [Next]_vars
    PROVE  LinksKnown'
<1> SUFFICES ASSUME NEW d \in Directions, spent'["losses"] = 0
             PROVE  /\ \A i \in DOMAIN inbox' : LastNews(inbox', d, i) => inbox'[i].nodes = linked'[d]
                    /\ up' /\ d \notin asked' /\ NamesNone(inbox', d) => mem'.connected[d] = linked'[d]
  BY DEF LinksKnown, LinkKnown
<1> DEFINE Goal == /\ \A i \in DOMAIN inbox' : LastNews(inbox', d, i) => inbox'[i].nodes = linked'[d]
                   /\ up' /\ d \notin asked' /\ NamesNone(inbox', d) => mem'.connected[d] = linked'[d]
<1>1. inbox \in Seq(Messages) /\ mem \in Memory /\ spent["losses"] \in Nat
      /\ linked \in [Directions -> SUBSET Nodes]
  BY DEF TypeOK, Kinds
<1>2. mem.connected \in [Directions -> SUBSET Nodes]
  BY <1>1 DEF Memory
<1>3. ASSUME SpentMore
      PROVE  /\ \A i \in DOMAIN inbox : LastNews(inbox, d, i) => inbox[i].nodes = linked[d]
             /\ up /\ d \notin asked /\ NamesNone(inbox, d) => mem.connected[d] = linked[d]
  <2>1. spent["losses"] = 0
    BY <1>1, <1>3 DEF SpentMore, Kinds
  <2> QED BY <2>1 DEF LinksKnown, LinkKnown
<1>4. CASE Handles
  <2>1. up' = TRUE /\ UNCHANGED <<linked, spent>>
    BY <1>4 DEF Handles, peers, history
  <2>2. PICK m \in Memory, dropped \in SUBSET Content : Handled(m, dropped) /\ Came(m, dropped)
    BY <1>4 DEF Handles
  <2>3. mem'.connected = m.connected
    BY <2>2 DEF Handled
  <2>4. SpentMore
    BY <2>1, SpendsNoMore
  <2>5. CASE asked' = Directions /\ UNCHANGED inbox
    BY <1>3, <2>1, <2>4, <2>5
  <2>6. CASE up /\ Same(m) /\ UNCHANGED <<asked, inbox>>
    BY <1>3, <2>1, <2>3, <2>4, <2>6 DEF Same
  <2>7. CASE up /\ inbox # <<>> /\ inbox' = Tail(inbox) /\ UNCHANGED asked /\ Took(m, dropped, Head(inbox))
    <3>1. ASSUME NEW i \in DOMAIN inbox', LastNews(inbox', d, i) PROVE inbox'[i].nodes = linked'[d]
      <4>1. LastNews(inbox, d, i + 1) /\ inbox'[i] = inbox[i + 1]
        BY <1>1, <2>7, <3>1, LastTailed
      <4>2. i + 1 \in DOMAIN inbox
        BY <4>1 DEF LastNews
      <4> QED BY <1>3, <2>1, <2>4, <4>1, <4>2
    <3>2. ASSUME d \notin asked, NamesNone(inbox', d) PROVE m.connected[d] = linked[d]
      <4>1. CASE Names(Head(inbox), d)
        <5>1. LastNews(inbox, d, 1) /\ inbox[1] = Head(inbox)
          BY <1>1, <2>7, <3>2, <4>1, NoneTailed
        <5>2. Head(inbox).nodes = linked[d]
          BY <1>3, <2>4, <5>1 DEF LastNews
        <5>3. m.connected = [mem.connected EXCEPT ![d] = Head(inbox).nodes]
          BY <2>7, <4>1 DEF Names, Took, NamedIn
        <5> QED BY <1>2, <5>2, <5>3
      <4>2. CASE ~Names(Head(inbox), d)
        <5>1. mem.connected[d] = linked[d]
          BY <1>1, <1>3, <2>4, <2>7, <3>2, <4>2, NoneTailed
        <5>2. m.connected[d] = mem.connected[d]
          <6>1. CASE Head(inbox).type = "peers.connected"
            BY <1>2, <2>7, <4>2, <6>1 DEF Took, NamedIn, Names
          <6>2. CASE Head(inbox).type # "peers.connected"
            BY <2>7, <6>2 DEF Took, Same
          <6> QED BY <6>1, <6>2
        <5> QED BY <5>1, <5>2
      <4> QED BY <4>1, <4>2
    <3> QED BY <2>1, <2>3, <2>7, <3>1, <3>2
  <2> QED BY <2>2, <2>5, <2>6, <2>7 DEF Came
<1>5. CASE Stays
  BY <1>3, <1>5 DEF Stays
<1>6. ASSUME NEW message, Tells(message)
      PROVE  Goal
  <2>1. inbox' = Append(inbox, message) /\ UNCHANGED <<up, mem>> /\ SpentMore
    BY <1>6 DEF Tells, Deliver
  <2>2. CASE Names(message, d)
    <3>1. linked'[d] = message.nodes
      BY <1>1, <1>6, <2>2 DEF Tells, Names
    <3>2. ~NamesNone(inbox', d)
      BY <1>1, <2>1, <2>2, NoneAppended
    <3>3. \A i \in DOMAIN inbox' : LastNews(inbox', d, i) => inbox'[i] = message
      BY <1>1, <2>1, <2>2, LastAppended
    <3> QED BY <3>1, <3>2, <3>3
  <2>3. CASE ~Names(message, d)
    <3>1. linked'[d] = linked[d] /\ (d \in asked => d \in asked')
      BY <1>1, <1>6, <2>3 DEF Tells, Names
    <3>2. NamesNone(inbox', d) => NamesNone(inbox, d)
      BY <1>1, <2>1, NoneAppended
    <3>3. \A i \in DOMAIN inbox' : LastNews(inbox', d, i) => inbox'[i] = inbox[i] /\ LastNews(inbox, d, i)
      BY <1>1, <2>1, <2>3, LastAppended
    <3>4. \A i : LastNews(inbox, d, i) => i \in DOMAIN inbox
      BY DEF LastNews
    <3> QED BY <1>3, <2>1, <3>1, <3>2, <3>3, <3>4
  <2> QED BY <2>2, <2>3
<1>7. ASSUME NEW w \in Writers, Writes(w)
      PROVE  Goal
  <2>1. UNCHANGED <<up, mem, linked, asked>> /\ SpentMore
    BY <1>7 DEF Writes
  <2>2. CASE Announces(w)
    <3>1. PICK message : message = [type |-> "data.stored", content |-> writing[w].content]
      OBVIOUS
    <3>2. inbox' = Append(inbox, message)
      BY <2>2, <3>1 DEF Announces, Deliver
    <3>3. ~Names(message, d)
      BY <3>1 DEF Names
    <3>4. NamesNone(inbox', d) => NamesNone(inbox, d)
      BY <1>1, <3>2, NoneAppended
    <3>5. \A i \in DOMAIN inbox' : LastNews(inbox', d, i) => inbox'[i] = inbox[i] /\ LastNews(inbox, d, i)
      BY <1>1, <3>2, <3>3, LastAppended
    <3>6. \A i : LastNews(inbox, d, i) => i \in DOMAIN inbox
      BY DEF LastNews
    <3> QED BY <1>3, <2>1, <3>4, <3>5, <3>6
  <2>3. CASE UNCHANGED inbox
    BY <1>3, <2>1, <2>3
  <2>4. Stores(w) \/ WriterCrashes(w) \/ (\E o \in Content : LooksFor(w, o)) => UNCHANGED inbox
    BY DEF Stores, WriterCrashes, LooksFor, bus
  <2> QED BY <1>7, <2>2, <2>3, <2>4 DEF Writes
<1>8. CASE EvictionCrashes
  <2>1. UNCHANGED <<inbox, linked>> /\ ~up' /\ SpentMore
    BY <1>8, SpendsMore DEF EvictionCrashes, bus, peers, Kinds
  <2> QED BY <1>3, <2>1
<1>9. ~MessageLost
  <2>1. MessageLost => spent'["losses"] > 0
    BY SpendsMore DEF MessageLost, Kinds
  <2> QED BY <2>1
<1>10. CASE Tick
  <2>1. UNCHANGED <<up, inbox, linked, asked, spent>>
    BY <1>10 DEF Tick, bus, peers
  <2>2. mem'.connected = mem.connected
    BY <1>1, <1>10 DEF Tick, Memory
  <2>3. SpentMore
    BY <2>1, SpendsNoMore
  <2> QED BY <1>3, <2>1, <2>2, <2>3
<1> HIDE DEF Handles, Stays, Tells, Writes, EvictionCrashes, MessageLost, Tick
<1> QED BY <1>4, <1>5, <1>6, <1>7, <1>8, <1>9, <1>10, Steps

LEMMA ConnectedStay ==
    ASSUME TypeOK, SafeInv, LinksKnown, [Next]_vars,
           NEW d \in Directions, NEW p \in linked[d] \cap (store \ store')
    PROVE  NewsOfLinks(d) \/ spent["losses"] > 0
<1> SUFFICES ASSUME d \notin asked, NamesNone(inbox, d), ~(spent["losses"] > 0)
             PROVE  FALSE
  BY DEF NewsOfLinks, NamesNone, Names
<1>1. spent["losses"] = 0
  BY DEF TypeOK, Kinds
<1>2. up => p \in mem.connected[d]
  BY <1>1 DEF LinksKnown, LinkKnown
<1>3. CASE Handles
  <2>1. PICK m \in Memory, dropped \in SUBSET Content : Handled(m, dropped) /\ Came(m, dropped)
    BY <1>3 DEF Handles
  <2>2. p \in dropped
    BY <2>1 DEF Handled
  <2>3. up /\ Took(m, dropped, Head(inbox))
    BY <2>1, <2>2 DEF Came
  <2>4. ~Kept(mem, p)
    <3> HIDE DEF Kept
    <3> QED BY <2>2, <2>3 DEF Took, Drops
  <2> QED BY <1>2, <2>3, <2>4 DEF Kept, PeerKeys
<1>4. ASSUME NEW w \in Writers, Writes(w) PROVE store \subseteq store'
  BY <1>4 DEF Writes, Stores, Announces, WriterCrashes, LooksFor
<1>5. Stays \/ (\E message : Tells(message)) \/ EvictionCrashes \/ MessageLost \/ Tick => store' = store
  BY DEF Stays, Tells, EvictionCrashes, MessageLost, Tick
<1> HIDE DEF Handles, Stays, Tells, Writes, EvictionCrashes, MessageLost, Tick
<1> QED BY <1>3, <1>4, <1>5, Steps

(* The key of a connected peer is deleted only while news of its connecting *)
(* is still on its way, or was lost. *)
THEOREM EvictionKeepsConnected == Spec => ConnectedKeysKept
<1>1. Init => LinksKnown
  BY DEF Init, LinksKnown, LinkKnown, LastNews
<1>2. Spec => []LinksKnown
  BY <1>1, SpecTyped, LinksStayKnown, PTL DEF Spec
<1>3. TypeOK /\ SafeInv /\ LinksKnown /\ [Next]_vars =>
          [\A d \in Directions : \A p \in linked[d] \cap (store \ store') :
               NewsOfLinks(d) \/ spent.losses > 0]_vars
  BY ConnectedStay
<1> QED BY <1>2, <1>3, SpecTyped, PTL DEF Spec, ConnectedKeysKept

-----------------------------------------------------------------------------
(* NeverUndercounts. *)

StoredAt(box) == {i \in DOMAIN box : box[i].type = "data.stored"}

LEMMA StoredCounted ==
    ASSUME NEW box \in Seq(Messages)
    PROVE  IsFiniteSet(StoredAt(box)) /\ Cardinality(StoredAt(box)) \in Nat
<1>1. DOMAIN box = 1..Len(box) /\ Len(box) \in Nat
  OBVIOUS
<1>2. IsFiniteSet(1..Len(box))
  BY <1>1, FS_Interval
<1>3. StoredAt(box) \in SUBSET (1..Len(box))
  BY <1>1 DEF StoredAt
<1> QED BY <1>2, <1>3, FS_Subset, FS_CardinalityType

(* Sets map one to one into others at least as large. *)
LEMMA NoSmaller ==
    ASSUME NEW S, NEW T, IsFiniteSet(T), NEW f \in [S -> T],
           \A x, y \in S : f[x] = f[y] => x = y
    PROVE  Cardinality(S) <= Cardinality(T)
<1>1. f \in Injection(S, T)
  BY DEF Injection, IsInjective
<1> QED BY <1>1, FS_Injection

LEMMA OneMore ==
    ASSUME NEW S, IsFiniteSet(S), NEW x
    PROVE  Cardinality(S \cup {x}) <= Cardinality(S) + 1
<1>1. Cardinality(S) \in Nat
  BY FS_CardinalityType
<1>2. CASE x \in S
  <2>1. S \cup {x} = S
    BY <1>2
  <2> QED BY <1>1, <2>1
<1>3. CASE x \notin S
  <2>1. Cardinality(S \cup {x}) = Cardinality(S) + 1
    BY <1>3, FS_AddElement
  <2> QED BY <1>1, <2>1
<1> QED BY <1>2, <1>3

LEMMA AppendCounts ==
    ASSUME NEW box \in Seq(Messages), NEW message \in Messages
    PROVE  Cardinality(StoredAt(Append(box, message)))
             = Cardinality(StoredAt(box)) + (IF message.type = "data.stored" THEN 1 ELSE 0)
<1>a. PICK longer : longer = Append(box, message)
  OBVIOUS
<1>1. longer \in Seq(Messages) /\ longer = Append(box, message)
  BY <1>a
<1>2. /\ DOMAIN longer = 1..(Len(box) + 1) /\ DOMAIN box = 1..Len(box) /\ Len(box) \in Nat
      /\ \A i \in 1..Len(box) : longer[i] = box[i]
      /\ longer[Len(box) + 1] = message
  BY <1>1
<1>3. CASE message.type = "data.stored"
  <2>1. StoredAt(longer) = StoredAt(box) \cup {Len(box) + 1} /\ Len(box) + 1 \notin StoredAt(box)
    BY <1>2, <1>3 DEF StoredAt
  <2>2. Cardinality(StoredAt(longer)) = Cardinality(StoredAt(box)) + 1
    BY <2>1, StoredCounted, FS_AddElement
  <2> QED BY <1>1, <1>3, <2>2
<1>4. CASE message.type # "data.stored"
  <2>1. StoredAt(longer) = StoredAt(box)
    BY <1>2, <1>4 DEF StoredAt
  <2> QED BY <1>1, <1>4, <2>1, StoredCounted
<1> QED BY <1>3, <1>4

LEMMA TailCounts ==
    ASSUME NEW box \in Seq(Messages), box # <<>>
    PROVE  Cardinality(StoredAt(box))
             <= Cardinality(StoredAt(Tail(box))) + (IF Head(box).type = "data.stored" THEN 1 ELSE 0)
<1>a. PICK rest : rest = Tail(box)
  OBVIOUS
<1>1. rest \in Seq(Messages) /\ rest = Tail(box)
  BY <1>a
<1>2. /\ 1 \in DOMAIN box /\ box[1] = Head(box) /\ DOMAIN box \subseteq Nat
      /\ \A i \in DOMAIN box \ {1} : i - 1 \in DOMAIN rest /\ rest[i - 1] = box[i]
  BY <1>1
<1>3. PICK f : f = [i \in StoredAt(box) \ {1} |-> i - 1]
  OBVIOUS
<1>4. f \in [StoredAt(box) \ {1} -> StoredAt(rest)]
  <2>1. \A i \in StoredAt(box) \ {1} : i - 1 \in StoredAt(rest)
    BY <1>2 DEF StoredAt
  <2> QED BY <1>3, <2>1
<1>5. \A x, y \in StoredAt(box) \ {1} : f[x] = f[y] => x = y
  <2>1. StoredAt(box) \subseteq Nat
    BY <1>2 DEF StoredAt
  <2> QED BY <1>3, <2>1
<1>6. Cardinality(StoredAt(box) \ {1}) <= Cardinality(StoredAt(rest))
  BY <1>1, <1>4, <1>5, StoredCounted, NoSmaller
<1>7. Cardinality(StoredAt(box) \ {1})
        = IF 1 \in StoredAt(box) THEN Cardinality(StoredAt(box)) - 1 ELSE Cardinality(StoredAt(box))
  BY StoredCounted, FS_RemoveElement
<1>8. 1 \in StoredAt(box) <=> Head(box).type = "data.stored"
  BY <1>2 DEF StoredAt
<1>9. Cardinality(StoredAt(box)) \in Nat /\ Cardinality(StoredAt(rest)) \in Nat
  BY <1>1, StoredCounted
<1> QED BY <1>1, <1>6, <1>7, <1>8, <1>9

LEMMA RemoveCounts ==
    ASSUME NEW box \in Seq(Messages), NEW i \in DOMAIN box
    PROVE  /\ RemoveAt(box, i) \in Seq(Messages)
           /\ Cardinality(StoredAt(box))
                <= Cardinality(StoredAt(RemoveAt(box, i))) + (IF box[i].type = "data.stored" THEN 1 ELSE 0)
<1>1. PICK rest : rest = RemoveAt(box, i)
  OBVIOUS
<1>2. rest \in Seq(Messages)
  BY <1>1, RemoveAtElements
<1>3. /\ DOMAIN box = 1..Len(box) /\ Len(box) \in Nat /\ i \in 1..Len(box)
  OBVIOUS
<1>4. /\ DOMAIN rest = 1..(Len(box) - 1)
      /\ \A j \in 1..Len(box) : j < i => rest[j] = box[j]
      /\ \A j \in 1..Len(box) : j > i => rest[j - 1] = box[j]
  <2>1. PICK before, after : before = SubSeq(box, 1, i - 1) /\ after = SubSeq(box, i + 1, Len(box))
    OBVIOUS
  <2>2. /\ before \in Seq(Messages) /\ Len(before) = i - 1
        /\ \A j \in 1..(i - 1) : before[j] = box[j]
    BY <2>1
  <2>3. /\ after \in Seq(Messages) /\ Len(after) = Len(box) - i
        /\ \A j \in 1..(Len(box) - i) : after[j] = box[i + j]
    <3>1. i + 1 \in Int /\ Len(box) \in Int /\ \A j \in (i + 1)..Len(box) : box[j] \in Messages
      OBVIOUS
    <3>2. /\ after \in Seq(Messages)
          /\ Len(after) = IF i + 1 <= Len(box) THEN Len(box) - (i + 1) + 1 ELSE 0
          /\ \A j \in 1..(Len(box) - (i + 1) + 1) : after[j] = box[(i + 1) + j - 1]
      BY <2>1, <3>1, SubSeqProperties
    <3>3. Len(box) - (i + 1) + 1 = Len(box) - i /\ (i + 1 <= Len(box) \/ Len(box) - i = 0)
          /\ \A j \in 1..(Len(box) - i) : (i + 1) + j - 1 = i + j
      BY <1>3
    <3> QED BY <3>2, <3>3
  <2>4. rest = before \o after
    BY <1>1, <2>1 DEF RemoveAt
  <2>5. /\ Len(rest) = Len(before) + Len(after)
        /\ \A j \in 1..(Len(before) + Len(after)) :
               rest[j] = IF j <= Len(before) THEN before[j] ELSE after[j - Len(before)]
    BY <2>2, <2>3, <2>4, ConcatProperties
  <2>6. DOMAIN rest = 1..(Len(box) - 1)
    BY <1>2, <1>3, <2>2, <2>3, <2>5
  <2>7. ASSUME NEW j \in 1..Len(box), j < i PROVE rest[j] = box[j]
    BY <1>3, <2>2, <2>3, <2>5, <2>7
  <2>8. ASSUME NEW j \in 1..Len(box), j > i PROVE rest[j - 1] = box[j]
    <3>1. j - 1 \in 1..(Len(before) + Len(after)) /\ ~(j - 1 <= Len(before)) /\ j - 1 - Len(before) = j - i
      BY <1>3, <2>2, <2>3, <2>8
    <3>2. rest[j - 1] = after[j - i]
      BY <2>5, <3>1
    <3>3. j - i \in 1..(Len(box) - i) /\ i + (j - i) = j
      BY <1>3, <2>8
    <3> QED BY <2>3, <3>2, <3>3
  <2> QED BY <2>6, <2>7, <2>8
<1>5. PICK f : f = [j \in StoredAt(box) \ {i} |-> IF j < i THEN j ELSE j - 1]
  OBVIOUS
<1>6. f \in [StoredAt(box) \ {i} -> StoredAt(rest)]
  <2>1. ASSUME NEW j \in StoredAt(box) \ {i}
        PROVE  (IF j < i THEN j ELSE j - 1) \in StoredAt(rest)
    <3>1. j \in 1..Len(box) /\ box[j].type = "data.stored" /\ (j < i \/ j > i)
      BY <1>3 DEF StoredAt
    <3>2. CASE j < i
      BY <1>3, <1>4, <3>1, <3>2 DEF StoredAt
    <3>3. CASE j > i
      BY <1>3, <1>4, <3>1, <3>3 DEF StoredAt
    <3> QED BY <3>1, <3>2, <3>3
  <2> QED BY <1>5, <2>1
<1>7. \A x, y \in StoredAt(box) \ {i} : f[x] = f[y] => x = y
  <2>1. \A x \in StoredAt(box) \ {i} : x \in Nat /\ x # i
    BY <1>3 DEF StoredAt
  <2> QED BY <1>3, <1>5, <2>1
<1>8. Cardinality(StoredAt(box) \ {i}) <= Cardinality(StoredAt(rest))
  BY <1>2, <1>6, <1>7, StoredCounted, NoSmaller
<1>9. Cardinality(StoredAt(box) \ {i})
        = IF i \in StoredAt(box) THEN Cardinality(StoredAt(box)) - 1 ELSE Cardinality(StoredAt(box))
  BY StoredCounted, FS_RemoveElement
<1>10. i \in StoredAt(box) <=> box[i].type = "data.stored"
  BY DEF StoredAt
<1>11. Cardinality(StoredAt(box)) \in Nat /\ Cardinality(StoredAt(rest)) \in Nat
  BY <1>2, StoredCounted
<1> QED BY <1>1, <1>2, <1>8, <1>9, <1>10, <1>11

StoredBy(doing) == {w \in Writers : doing[w].phase = "stored"}

LEMMA StoredByCounted ==
    ASSUME NEW doing
    PROVE  IsFiniteSet(StoredBy(doing)) /\ Cardinality(StoredBy(doing)) \in Nat
<1>1. StoredBy(doing) \in SUBSET Writers
  BY DEF StoredBy
<1> QED BY <1>1, WritersCounted

LEMMA SameCount == NeverUndercounts <=>
    (up /\ MaxHeld # NoLimit =>
        Cardinality(store) <= mem.held + Cardinality(StoredAt(inbox)) + Cardinality(StoredBy(writing)) + lost)
BY DEF NeverUndercounts, StoredMessages, ToAnnounce, StoredAt, StoredBy

LEMMA SameCountNext == NeverUndercounts' <=>
    (up' /\ MaxHeld # NoLimit =>
        Cardinality(store') <= mem'.held + Cardinality(StoredAt(inbox')) + Cardinality(StoredBy(writing')) + lost')
BY DEF NeverUndercounts, StoredMessages, ToAnnounce, StoredAt, StoredBy

LEMMA NoneUncounted ==
    ASSUME TypeOK, SafeInv, NeverUndercounts, [Next]_vars
    PROVE  NeverUndercounts'
<1> DEFINE Goal == Cardinality(store') <= mem'.held + Cardinality(StoredAt(inbox'))
                                           + Cardinality(StoredBy(writing')) + lost'
<1> SUFFICES ASSUME up', MaxHeld # NoLimit
             PROVE  Goal
  BY SameCountNext
<1>0. up => Cardinality(store) <= mem.held + Cardinality(StoredAt(inbox)) + Cardinality(StoredBy(writing)) + lost
  BY SameCount
<1>1. /\ inbox \in Seq(Messages) /\ mem \in Memory /\ lost \in Nat /\ store \in SUBSET Content
      /\ writing \in [Writers -> [phase : {"resting", "missing", "stored"}, content : Content]]
  BY DEF TypeOK
<1>2. mem.held \in Nat
  BY <1>1 DEF Memory
<1>3. /\ IsFiniteSet(store) /\ Cardinality(store) \in Nat /\ Cardinality(StoredAt(inbox)) \in Nat
      /\ IsFiniteSet(StoredBy(writing)) /\ Cardinality(StoredBy(writing)) \in Nat
  BY <1>1, SubsetsCounted, StoredCounted, StoredByCounted
<1>4. inbox' \in Seq(Messages)
  BY NextTyped DEF TypeOK
<1>5. Cardinality(StoredAt(inbox')) \in Nat /\ Cardinality(StoredBy(writing')) \in Nat
  BY <1>4, StoredCounted, StoredByCounted
<1>6. CASE Handles
  <2>1. UNCHANGED <<writing, lost>>
    BY <1>6 DEF Handles, history
  <2>2. PICK m \in Memory, dropped \in SUBSET Content : Handled(m, dropped) /\ Came(m, dropped)
    BY <1>6 DEF Handles
  <2>3. mem'.held = m.held /\ store' = store \ dropped
    BY <2>2 DEF Handled
  <2>4. CASE m = Started(store) /\ dropped = {}
    <3>1. m.held = Cardinality(store)
      BY <2>4 DEF Started
    <3>2. store' = store
      BY <2>3, <2>4
    <3>3. Cardinality(store') = Cardinality(store)
      BY <3>2
    <3> QED BY <1>1, <1>3, <1>5, <2>1, <2>3, <3>1, <3>3
  <2>5. CASE up /\ Same(m) /\ dropped = {} /\ UNCHANGED inbox
    <3>1. store' = store
      BY <2>3, <2>5
    <3> QED BY <1>0, <2>1, <2>3, <2>5, <3>1 DEF Same
  <2>6. CASE up /\ inbox # <<>> /\ inbox' = Tail(inbox) /\ Took(m, dropped, Head(inbox))
    <3>1. Cardinality(StoredAt(inbox)) <= Cardinality(StoredAt(inbox'))
              + (IF Head(inbox).type = "data.stored" THEN 1 ELSE 0)
      BY <1>1, <2>6, TailCounts
    <3>5. /\ Cardinality(store) <= mem.held + Cardinality(StoredAt(inbox)) + Cardinality(StoredBy(writing)) + lost
          /\ Cardinality(StoredBy(writing')) = Cardinality(StoredBy(writing)) /\ lost' = lost
          /\ mem'.held = m.held
      BY <1>0, <2>1, <2>3, <2>6
    <3>2. CASE Head(inbox).type = "data.stored"
      <4>1. store' = store /\ m.held = mem.held + 1
        BY <2>3, <2>6, <3>2 DEF Took
      <4>2. Cardinality(store') = Cardinality(store)
        BY <4>1
      <4>3. Cardinality(StoredAt(inbox)) <= Cardinality(StoredAt(inbox')) + 1
        BY <3>1, <3>2
      <4> QED BY <1>1, <1>2, <1>3, <1>5, <3>5, <4>1, <4>2, <4>3
    <3>3. CASE Head(inbox).type # "data.stored" /\ dropped = {} /\ m.held = mem.held
      <4>1. store' = store
        BY <2>3, <3>3
      <4>2. Cardinality(store') = Cardinality(store)
        BY <4>1
      <4> QED BY <1>0, <1>1, <1>2, <1>3, <1>5, <2>1, <2>3, <2>6, <3>1, <3>3, <4>2
    <3>4. ASSUME NEW c, Head(inbox).type # "data.stored", dropped = {c}, c \in store,
                 m.held = Larger(0, mem.held - 1)
          PROVE  Goal
      <4>1. PICK files : files = store \ {c}
        OBVIOUS
      <4>2. Cardinality(files) = Cardinality(store) - 1
        BY <1>3, <3>4, <4>1, FS_RemoveElement
      <4>3. Cardinality(store') = Cardinality(store) - 1
        BY <2>3, <3>4, <4>1, <4>2
      <4>4. m.held >= mem.held - 1
        BY <1>2, <3>4 DEF Larger
      <4>5. m.held \in Nat
        BY <2>2 DEF Memory
      <4>6. Cardinality(StoredAt(inbox)) <= Cardinality(StoredAt(inbox'))
        BY <1>3, <1>5, <3>1, <3>4
      <4>7. PICK files1, files2, news1, news2, ends, held, gone :
                /\ files1 = Cardinality(store) /\ files2 = Cardinality(store')
                /\ news1 = Cardinality(StoredAt(inbox)) /\ news2 = Cardinality(StoredAt(inbox'))
                /\ ends = Cardinality(StoredBy(writing)) /\ held = mem.held /\ gone = lost
        OBVIOUS
      <4>8. {files1, news1, news2, ends, held, gone} \subseteq Nat
        BY <1>1, <1>2, <1>3, <1>5, <4>7
      <4>9. files1 <= held + news1 + ends + gone /\ files2 = files1 - 1 /\ news1 <= news2
            /\ m.held >= held - 1
        BY <3>5, <4>3, <4>4, <4>6, <4>7
      <4>10. files2 <= m.held + news2 + ends + gone
        BY <4>5, <4>8, <4>9
      <4> QED BY <3>5, <4>7, <4>10
    <3> HIDE DEF Goal
    <3> QED BY <2>6, <3>2, <3>3, <3>4 DEF Took, Drops, Same
  <2> HIDE DEF Goal
  <2> QED BY <2>2, <2>4, <2>5, <2>6 DEF Came
<1>7. CASE Stays
  BY <1>0, <1>7 DEF Stays
<1>8. ASSUME NEW message, Tells(message)
      PROVE  Goal
  <2>1. inbox' = Append(inbox, message) /\ UNCHANGED <<up, mem, store, writing, lost>>
        /\ message.type # "data.stored"
    BY <1>8 DEF Tells, Deliver
  <2>2. Len(inbox) + 1 \in DOMAIN inbox' /\ inbox'[Len(inbox) + 1] = message
    BY <1>1, <2>1
  <2>3. message \in Messages
    BY <1>4, <2>2
  <2>4. Cardinality(StoredAt(inbox')) = Cardinality(StoredAt(inbox)) + 0
    BY <1>1, <2>1, <2>3, AppendCounts
  <2> QED BY <1>0, <1>3, <2>1, <2>4
<1>9. ASSUME NEW w \in Writers, Writes(w)
      PROVE  Goal
  <2>1. UNCHANGED <<up, mem>>
    BY <1>9 DEF Writes
  <2>2. Cardinality(store) <= mem.held + Cardinality(StoredAt(inbox)) + Cardinality(StoredBy(writing)) + lost
    BY <1>0, <2>1
  <2>3. CASE Stores(w)
    <3>1. UNCHANGED <<inbox, lost>> /\ store' = store \cup {writing[w].content}
          /\ writing[w].phase = "missing" /\ writing' = [writing EXCEPT ![w].phase = "stored"]
      BY <2>3 DEF Stores, bus, history
    <3>2. StoredBy(writing') = StoredBy(writing) \cup {w} /\ w \notin StoredBy(writing)
      BY <1>1, <3>1 DEF StoredBy
    <3>3. Cardinality(StoredBy(writing')) = Cardinality(StoredBy(writing)) + 1
      BY <1>3, <3>2, FS_AddElement
    <3>4. Cardinality(store') <= Cardinality(store) + 1
      <4>1. PICK x : x = writing[w].content
        OBVIOUS
      <4>2. Cardinality(store \cup {x}) <= Cardinality(store) + 1
        BY <1>3, OneMore
      <4> QED BY <3>1, <4>1, <4>2
    <3>5. Cardinality(store') \in Nat
      <4>1. store' \in SUBSET Content
        BY NextTyped DEF TypeOK
      <4> QED BY <4>1, SubsetsCounted
    <3> QED BY <1>1, <1>2, <1>3, <2>1, <2>2, <3>1, <3>3, <3>4, <3>5
  <2>4. CASE Announces(w)
    <3>1. PICK message : message = [type |-> "data.stored", content |-> writing[w].content]
      OBVIOUS
    <3>2. inbox' = Append(inbox, message) /\ UNCHANGED <<store, lost>>
          /\ writing[w].phase = "stored" /\ writing' = [writing EXCEPT ![w] = Resting]
      BY <2>4, <3>1 DEF Announces, Deliver
    <3>3. message \in Messages /\ message.type = "data.stored"
      BY <1>1, <3>1 DEF Messages
    <3>4. Cardinality(StoredAt(inbox')) = Cardinality(StoredAt(inbox)) + 1
      BY <1>1, <3>2, <3>3, AppendCounts
    <3>5. StoredBy(writing') = StoredBy(writing) \ {w} /\ w \in StoredBy(writing)
      BY <1>1, <3>2 DEF StoredBy, Resting
    <3>6. Cardinality(StoredBy(writing')) = Cardinality(StoredBy(writing)) - 1
      BY <1>3, <3>5, FS_RemoveElement
    <3> QED BY <1>1, <1>2, <1>3, <2>1, <2>2, <3>2, <3>4, <3>6
  <2>5. CASE WriterCrashes(w)
    <3>1. UNCHANGED <<inbox, store>> /\ writing' = [writing EXCEPT ![w] = Resting]
          /\ lost' = IF writing[w].phase = "stored" THEN lost + 1 ELSE lost
      BY <2>5 DEF WriterCrashes, bus
    <3>2. StoredBy(writing') = StoredBy(writing) \ {w}
          /\ (w \in StoredBy(writing) <=> writing[w].phase = "stored")
      BY <1>1, <3>1 DEF StoredBy, Resting
    <3>3. Cardinality(StoredBy(writing'))
            = IF w \in StoredBy(writing) THEN Cardinality(StoredBy(writing)) - 1
              ELSE Cardinality(StoredBy(writing))
      BY <1>3, <3>2, FS_RemoveElement
    <3> QED BY <1>1, <1>2, <1>3, <2>1, <2>2, <3>1, <3>2, <3>3
  <2>6. ASSUME NEW c \in Content, LooksFor(w, c) PROVE Goal
    <3>1. UNCHANGED <<inbox, store, lost>> /\ writing[w] = Resting
          /\ writing' = [writing EXCEPT ![w] = [phase |-> "missing", content |-> c]]
      BY <2>6 DEF LooksFor, bus
    <3>2. StoredBy(writing') = StoredBy(writing)
      BY <1>1, <3>1 DEF StoredBy, Resting
    <3> QED BY <2>1, <2>2, <3>1, <3>2
  <2> HIDE DEF Goal
  <2> QED BY <1>9, <2>3, <2>4, <2>5, <2>6 DEF Writes
<1>10. ~EvictionCrashes
  BY Zenon DEF EvictionCrashes
<1>11. CASE MessageLost
  <2>1. UNCHANGED <<up, mem, store, writing>>
    BY <1>11 DEF MessageLost, eviction
  <2>2. CASE UNCHANGED <<inbox, lost>>
    BY <1>0, <2>1, <2>2
  <2>3. ASSUME NEW i \in DOMAIN inbox, inbox' = RemoveAt(inbox, i),
               lost' = IF inbox[i].type = "data.stored" THEN lost + 1 ELSE lost
        PROVE  Goal
    <3>1. Cardinality(StoredAt(inbox)) <= Cardinality(StoredAt(inbox'))
              + (IF inbox[i].type = "data.stored" THEN 1 ELSE 0)
      BY <1>1, <2>3, RemoveCounts
    <3>2. Cardinality(store) <= mem.held + Cardinality(StoredAt(inbox)) + Cardinality(StoredBy(writing)) + lost
      BY <1>0, <2>1
    <3>3. Cardinality(StoredAt(inbox)) + lost <= Cardinality(StoredAt(inbox')) + lost'
      <4>1. CASE inbox[i].type = "data.stored"
        BY <1>1, <1>3, <1>5, <2>3, <3>1, <4>1
      <4>2. CASE inbox[i].type # "data.stored"
        BY <1>1, <1>3, <1>5, <2>3, <3>1, <4>2
      <4> QED BY <4>1, <4>2
    <3>4. lost' \in Nat
      BY <1>1, <2>3
    <3>5. /\ Cardinality(store') = Cardinality(store) /\ mem'.held = mem.held
          /\ Cardinality(StoredBy(writing')) = Cardinality(StoredBy(writing))
      BY <2>1
    <3>6. PICK files, news1, news2, ends, held, gone1, gone2 :
              /\ files = Cardinality(store) /\ ends = Cardinality(StoredBy(writing))
              /\ news1 = Cardinality(StoredAt(inbox)) /\ news2 = Cardinality(StoredAt(inbox'))
              /\ held = mem.held /\ gone1 = lost /\ gone2 = lost'
      OBVIOUS
    <3>7. {files, news1, news2, ends, held, gone1, gone2} \subseteq Nat
      BY <1>1, <1>2, <1>3, <1>5, <3>4, <3>6
    <3>8. files <= held + news1 + ends + gone1 /\ news1 + gone1 <= news2 + gone2
      BY <3>2, <3>3, <3>6
    <3>9. files <= held + news2 + ends + gone2
      BY <3>7, <3>8
    <3> QED BY <3>5, <3>6, <3>9
  <2> HIDE DEF Goal
  <2> QED BY <1>11, <2>2, <2>3 DEF MessageLost
<1>12. CASE Tick
  <2>1. UNCHANGED <<up, store, inbox, writing, lost>>
    BY <1>12 DEF Tick, bus
  <2>2. mem'.held = mem.held
    BY <1>1, <1>12 DEF Tick, Memory
  <2> QED BY <1>0, <2>1, <2>2
<1> HIDE DEF Handles, Stays, Tells, Writes, EvictionCrashes, MessageLost, Tick, Goal
<1> QED BY <1>6, <1>7, <1>8, <1>9, <1>10, <1>11, <1>12, Steps

(* Content held is never undercounted, but for files whose writer crashed   *)
(* before announcing them, or whose announcement was lost. *)
THEOREM EvictionNeverUndercounts == Spec => []NeverUndercounts
<1>1. Init => NeverUndercounts
  BY DEF Init, NeverUndercounts
<1> QED BY <1>1, SpecTyped, NoneUncounted, PTL DEF Spec
=============================================================================
