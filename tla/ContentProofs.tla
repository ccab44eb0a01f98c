---------------------------- MODULE ContentProofs ----------------------------
(***************************************************************************)
(* Proofs about Content.tla, for every set of content, nodes, paths and    *)
(* requests: its four safety properties, from one inductive invariant.     *)
(* The lemmas go by what a step does to the messages on their way: what it *)
(* publishes reaches those who subscribe, what it handles is the first of  *)
(* one link, and all others stay on their way or are lost.                 *)
(***************************************************************************)
EXTENDS Content, FiniteSetTheorems, SequenceTheorems, TLAPS

-----------------------------------------------------------------------------
(* Links. *)

LEMMA SetToSeqIs ==
  ASSUME NEW S, IsFiniteSet(S)
  PROVE  SetToSeq(S) \in Seq(S) /\ ToSet(SetToSeq(S)) = S
<1>1. PICK n \in Nat : n = Cardinality(S) /\ ExistsBijection(1..n, S)
  BY FS_CardinalityType
<1>2. PICK b \in [1..n -> S] : IsInjective(b)
  BY <1>1 DEF ExistsBijection, Bijection, Injection, IsInjective
<1>3. PICK f \in [1..n -> S] : f = SetToSeq(S) /\ IsInjective(f)
  BY <1>1, <1>2 DEF SetToSeq
<1>4. f \in Injection(1..n, S)
  BY <1>3 DEF Injection, IsInjective
<1>5. IsFiniteSet(1..n) /\ Cardinality(1..n) = n
  BY FS_Interval
<1>6. f \in Surjection(1..n, S)
  BY <1>1, <1>4, <1>5, FS_Injection
<1>7. f \in Seq(S)
  BY <1>3
<1>8. \A x \in S : \E i \in 1..n : f[i] = x
  BY <1>6 DEF Surjection
<1> QED  BY <1>3, <1>7, <1>8 DEF ToSet

LEMMA AppendedHolds ==
  ASSUME NEW T, NEW s \in Seq(T), NEW t \in Seq(T)
  PROVE  s \o t \in Seq(T) /\ ToSet(s \o t) = ToSet(s) \cup ToSet(t)
<1>1. PICK n \in Nat : n = Len(s) /\ DOMAIN s = 1..n
  BY LenProperties
<1>2. PICK k \in Nat : k = Len(t) /\ DOMAIN t = 1..k
  BY LenProperties
<1>3. PICK u \in Seq(T) : /\ u = s \o t /\ Len(u) = n + k
                          /\ \A i \in 1..n : u[i] = s[i]
                          /\ \A i \in 1..k : u[n + i] = t[i]
  <2>1. s \o t \in Seq(T)
    BY ConcatProperties
  <2>2. Len(s \o t) = n + k
    BY <1>1, <1>2, ConcatProperties
  <2>3. \A i \in 1..n + k : (s \o t)[i] = IF i <= n THEN s[i] ELSE t[i - n]
    BY <1>1, <1>2, ConcatProperties
  <2>4. ASSUME NEW i \in 1..n
        PROVE  (s \o t)[i] = s[i]
    <3>1. i \in 1..n + k /\ i <= n
      OBVIOUS
    <3> QED  BY <2>3, <3>1
  <2>5. ASSUME NEW i \in 1..k
        PROVE  (s \o t)[n + i] = t[i]
    <3>1. n + i \in 1..n + k /\ ~(n + i <= n) /\ (n + i) - n = i
      OBVIOUS
    <3> QED  BY <2>3, <3>1
  <2> QED  BY <2>1, <2>2, <2>4, <2>5
<1>4. DOMAIN u = 1..n + k
  BY <1>3, LenProperties
<1>5. ToSet(u) = {u[i] : i \in 1..n + k} /\ ToSet(s) = {s[i] : i \in 1..n}
      /\ ToSet(t) = {t[i] : i \in 1..k}
  BY <1>1, <1>2, <1>4 DEF ToSet
<1>6. ASSUME NEW i \in 1..n + k
      PROVE  u[i] \in ToSet(s) \cup ToSet(t)
  <2>1. CASE i <= n
    <3>1. i \in 1..n
      BY <2>1
    <3> QED  BY <1>3, <1>5, <3>1
  <2>2. CASE ~(i <= n)
    <3>1. i - n \in 1..k /\ n + (i - n) = i
      BY <2>2
    <3>2. u[i] = t[i - n]
      BY <1>3, <3>1
    <3> QED  BY <1>5, <3>1, <3>2
  <2> QED  BY <2>1, <2>2
<1>7. ASSUME NEW i \in 1..n
      PROVE  s[i] \in ToSet(u)
  <2>1. i \in 1..n + k
    OBVIOUS
  <2> QED  BY <1>3, <1>5, <2>1
<1>8. ASSUME NEW i \in 1..k
      PROVE  t[i] \in ToSet(u)
  <2>1. n + i \in 1..n + k
    OBVIOUS
  <2> QED  BY <1>3, <1>5, <2>1
<1>9. ToSet(u) \subseteq ToSet(s) \cup ToSet(t)
  BY <1>5, <1>6
<1>10. ToSet(s) \subseteq ToSet(u)
  BY <1>5, <1>7
<1>11. ToSet(t) \subseteq ToSet(u)
  BY <1>5, <1>8
<1>12. ToSet(u) = ToSet(s) \cup ToSet(t)
  BY <1>9, <1>10, <1>11
<1> QED  BY <1>3, <1>12

LEMMA HeadAndTail ==
  ASSUME NEW T, NEW s \in Seq(T), s # <<>>
  PROVE  /\ Tail(s) \in Seq(T) /\ Head(s) \in T
         /\ ToSet(s) = {Head(s)} \cup ToSet(Tail(s))
<1>1. PICK n \in Nat : n = Len(s) /\ DOMAIN s = 1..n
  BY LenProperties
<1>2. n > 0
  BY <1>1, EmptySeq
<1>3. PICK t \in Seq(T) : t = Tail(s) /\ Len(t) = n - 1 /\ \A i \in 1..n - 1 : t[i] = s[i + 1]
  <2>1. Tail(s) \in Seq(T)
    BY HeadTailProperties
  <2>2. Len(Tail(s)) = n - 1
    BY <1>1, HeadTailProperties
  <2>3. \A i \in 1..n - 1 : Tail(s)[i] = s[i + 1]
    BY <1>1, <2>2, HeadTailProperties
  <2> QED  BY <2>1, <2>2, <2>3
<1>4. DOMAIN t = 1..n - 1
  BY <1>3, LenProperties
<1>5. Head(s) = s[1] /\ Head(s) \in T
  BY HeadTailProperties
<1>6. ToSet(s) = {s[i] : i \in 1..n} /\ ToSet(t) = {t[i] : i \in 1..n - 1}
  BY <1>1, <1>4 DEF ToSet
<1>7. ASSUME NEW i \in 1..n
      PROVE  s[i] \in {Head(s)} \cup ToSet(t)
  <2>1. CASE i = 1
    BY <1>5, <2>1
  <2>2. CASE i # 1
    <3>1. i - 1 \in 1..n - 1 /\ (i - 1) + 1 = i
      BY <2>2
    <3>2. t[i - 1] = s[i]
      BY <1>3, <3>1
    <3> QED  BY <1>6, <3>1, <3>2
  <2> QED  BY <2>1, <2>2
<1>8. ASSUME NEW i \in 1..n - 1
      PROVE  t[i] \in ToSet(s)
  <2>1. i + 1 \in 1..n
    BY <1>2
  <2> QED  BY <1>3, <1>6, <2>1
<1>9. s[1] \in ToSet(s)
  BY <1>2, <1>6
<1> QED  BY <1>3, <1>5, <1>6, <1>7, <1>8, <1>9

LEMMA WithoutOne ==
  ASSUME NEW T, NEW s \in Seq(T), NEW i \in DOMAIN s
  PROVE  RemoveAt(s, i) \in Seq(T) /\ ToSet(s) \subseteq {s[i]} \cup ToSet(RemoveAt(s, i))
<1>1. PICK n \in Nat : n = Len(s) /\ DOMAIN s = 1..n
  BY LenProperties
<1>2. i \in 1..n /\ \A j \in 1..n : s[j] \in T
  BY <1>1, ElementOfSeq
<1>3. PICK a \in Seq(T) : /\ a = SubSeq(s, 1, i - 1) /\ Len(a) = i - 1
                          /\ \A j \in 1..i - 1 : a[j] = s[j]
  <2>1. \A j \in 1..i - 1 : s[j] \in T
    BY <1>2
  <2>2. Len(SubSeq(s, 1, i - 1)) = IF 1 <= i - 1 THEN (i - 1) - 1 + 1 ELSE 0
    BY <1>2, <2>1, SubSeqProperties
  <2>3. \A j \in 1..(i - 1) - 1 + 1 : SubSeq(s, 1, i - 1)[j] = s[1 + j - 1]
    BY <1>2, <2>1, SubSeqProperties
  <2>4. SubSeq(s, 1, i - 1) \in Seq(T)
    BY <1>2, <2>1, SubSeqProperties
  <2>5. Len(SubSeq(s, 1, i - 1)) = i - 1
    BY <1>2, <2>2
  <2>6. \A j \in 1..i - 1 : SubSeq(s, 1, i - 1)[j] = s[j]
    <3>1. (i - 1) - 1 + 1 = i - 1 /\ \A j \in 1..i - 1 : 1 + j - 1 = j
      BY <1>2
    <3> QED  BY <2>3, <3>1
  <2> QED  BY <2>4, <2>5, <2>6
<1>4. PICK b \in Seq(T) : /\ b = SubSeq(s, i + 1, n) /\ Len(b) = n - i
                          /\ \A j \in 1..n - i : b[j] = s[i + j]
  <2>1. \A j \in i + 1..n : s[j] \in T
    BY <1>2
  <2>2. Len(SubSeq(s, i + 1, n)) = IF i + 1 <= n THEN n - (i + 1) + 1 ELSE 0
    BY <1>2, <2>1, SubSeqProperties
  <2>3. \A j \in 1..n - (i + 1) + 1 : SubSeq(s, i + 1, n)[j] = s[(i + 1) + j - 1]
    BY <1>2, <2>1, SubSeqProperties
  <2>4. SubSeq(s, i + 1, n) \in Seq(T)
    BY <1>2, <2>1, SubSeqProperties
  <2>5. Len(SubSeq(s, i + 1, n)) = n - i
    BY <1>2, <2>2
  <2>6. \A j \in 1..n - i : SubSeq(s, i + 1, n)[j] = s[i + j]
    <3>1. n - (i + 1) + 1 = n - i /\ \A j \in 1..n - i : (i + 1) + j - 1 = i + j
      BY <1>2
    <3> QED  BY <2>3, <3>1
  <2> QED  BY <2>4, <2>5, <2>6
<1>5. RemoveAt(s, i) \in Seq(T) /\ ToSet(RemoveAt(s, i)) = ToSet(a) \cup ToSet(b)
  <2>1. RemoveAt(s, i) = a \o b
    BY <1>1, <1>3, <1>4 DEF RemoveAt
  <2>2. a \o b \in Seq(T) /\ ToSet(a \o b) = ToSet(a) \cup ToSet(b)
    BY AppendedHolds
  <2> QED  BY <2>1, <2>2
<1>6. DOMAIN a = 1..i - 1 /\ DOMAIN b = 1..n - i
  BY <1>3, <1>4, LenProperties
<1>7. ASSUME NEW j \in 1..n, j # i
      PROVE  s[j] \in ToSet(a) \cup ToSet(b)
  <2>1. CASE j < i
    <3>1. j \in 1..i - 1
      BY <1>2, <2>1
    <3> QED  BY <1>3, <1>6, <3>1 DEF ToSet
  <2>2. CASE ~(j < i)
    <3>1. j - i \in 1..n - i /\ i + (j - i) = j
      BY <1>2, <1>7, <2>2
    <3>2. b[j - i] = s[j]
      BY <1>4, <3>1
    <3> QED  BY <1>6, <3>1, <3>2 DEF ToSet
  <2> QED  BY <2>1, <2>2
<1>8. ToSet(s) = {s[j] : j \in 1..n}
  BY <1>1 DEF ToSet
<1> QED  BY <1>5, <1>7, <1>8

LEMMA LinksAre ==
  /\ <<"web", "validator">> \in Links /\ <<"connections", "validator">> \in Links
  /\ <<"web", "stats">> \in Links /\ <<"validator", "stats">> \in Links
  /\ <<"web", "unbundler">> \in Links /\ <<"validator", "unbundler">> \in Links
  /\ <<"unbundler", "web">> \in Links
BY DEF Links

(* Who is told of what these proofs are about. *)
LEMMA Subscribing ==
  /\ Subscribers["put.completed"] = {"validator"}
  /\ Subscribers["data.stored"] = {"stats", "unbundler"}
  /\ Subscribers["app.path_resolved"] = {"web"}
BY DEF Subscribers

(* Messages sent are added to what is on its way to those told of them. *)
SentRight(before, from, messages, after) ==
    /\ after \in [Links -> Seq(Messages)]
    /\ \A link \in Links :
          /\ ToSet(before[link]) \subseteq ToSet(after[link])
          /\ link[1] = from =>
                \A m \in messages : link[2] \in Subscribers[m.type] => m \in ToSet(after[link])

LEMMA SentIs ==
  ASSUME NEW before \in [Links -> Seq(Messages)], NEW from,
         NEW messages \in SUBSET Messages, IsFiniteSet(messages)
  PROVE  SentRight(before, from, messages, Sent(before, from, messages))
<1> DEFINE To(link) == {m \in messages : link[2] \in Subscribers[m.type]}
<1>1. ASSUME NEW link \in Links
      PROVE  /\ SetToSeq(To(link)) \in Seq(Messages)
             /\ ToSet(SetToSeq(To(link))) = To(link)
  <2>1. To(link) \in SUBSET messages /\ To(link) \in SUBSET Messages
    OBVIOUS
  <2>2. IsFiniteSet(To(link))
    BY <2>1, FS_Subset
  <2> HIDE DEF To
  <2>3. SetToSeq(To(link)) \in Seq(To(link)) /\ ToSet(SetToSeq(To(link))) = To(link)
    BY <2>2, SetToSeqIs
  <2> QED  BY <2>1, <2>3
<1>2. PICK after : after = Sent(before, from, messages)
  OBVIOUS
<1>3. after = [link \in Links |-> IF link[1] # from THEN before[link]
                                  ELSE before[link] \o SetToSeq(To(link))]
  BY <1>2 DEF Sent
<1>4. \A link \in Links : \A m \in messages : link[2] \in Subscribers[m.type] => m \in To(link)
  OBVIOUS
<1> HIDE DEF To
<1>5. ASSUME NEW link \in Links
      PROVE  /\ after[link] \in Seq(Messages) /\ ToSet(before[link]) \subseteq ToSet(after[link])
             /\ link[1] = from => To(link) \subseteq ToSet(after[link])
  <2>1. before[link] \in Seq(Messages)
    OBVIOUS
  <2>2. CASE link[1] # from
    BY <1>3, <2>1, <2>2
  <2>3. CASE link[1] = from
    <3>1. after[link] = before[link] \o SetToSeq(To(link))
      BY <1>3, <2>3
    <3> QED  BY <1>1, <2>1, <3>1, AppendedHolds
  <2> QED  BY <2>2, <2>3
<1>6. after \in [Links -> Seq(Messages)]
  BY <1>3, <1>5
<1> QED  BY <1>2, <1>4, <1>5, <1>6 DEF SentRight
-----------------------------------------------------------------------------
(* What holds between any two steps. *)

Doing(phases) ==
    {Resting} \cup [phase : phases, node : Nodes, content : Content, data : Data]

ContentTypeOK ==
    /\ store \in [Content -> Data \cup {Absent}]
    /\ incoming \in [Nodes -> [Content -> Data \cup {Absent}]]
    /\ links \in [Links -> Seq(Messages)]
    /\ upload \in Doing({"accepted", "written"})
    /\ check \in Doing({"read", "verified", "stored", "settled"})
    /\ rows \in [held : SUBSET Content, sought : SUBSET Content, shunned : SUBSET Content]
    /\ lists \in [seek : SUBSET Content, shunned : SUBSET Content]
    /\ waiting \in [Paths -> SUBSET Content]
    /\ request \in [Requests -> {"resting", "looking", "asked", "waiting"}]

(* What the validator has found to be the content is what it will store.   *)
VerifiedInv ==
    /\ check.phase = "verified" => check.data = "right"
    /\ OnlyVerified

(* NoUploadStuck, but for an upload of a node's own key, which never comes *)
(* into the incoming store and of which the validator hears nothing.       *)
StuckInv ==
    \A n \in Nodes, c \in Content : incoming[n][c] # Absent =>
        \/ Dealing({"written"}, upload, n, c) /\ ~IsPublicKey(n, c, upload.data)
        \/ Dealing({"read", "verified", "stored", "settled"}, check, n, c)
        \/ OnWay("validator", PutCompleted(n, c))
        \/ PutCompleted(n, c) \in lost

(* NewsOf, but for an upload the validator has still to look at, which     *)
(* stores nothing.                                                         *)
News(c, module) ==
    \/ check.phase = "stored" /\ check.content = c
    \/ upload.phase = "written" /\ upload.content = c /\ IsPublicKey(upload.node, c, upload.data)
    \/ OnWay(module, Of("data.stored", c))
    \/ Of("data.stored", c) \in lost

(* What is listed as sought is sought still, or shunned since.             *)
SoughtInv ==
    /\ rows.sought \cap rows.shunned = {}
    /\ lists.seek \subseteq rows.sought \cup rows.shunned
    /\ \A c \in rows.sought : Present(c) => News(c, "stats")

WaitInv == \A p \in Paths : \A c \in waiting[p] : Present(c) => News(c, "unbundler")

ContentInv ==
    ContentTypeOK /\ VerifiedInv /\ StuckInv /\ SoughtInv /\ WaitInv /\ RequestsWoken

-----------------------------------------------------------------------------
(* What a step does to the messages on their way. *)

(* A message on its way to a module stays so, unless it is lost. *)
Stays(to, m) == OnWay(to, m) => OnWay(to, m)' \/ m \in lost'

(* What a module publishes is on its way to those who subscribe to it. *)
Told(from, messages) ==
    \A link \in Links : \A m \in messages :
        link[1] = from /\ link[2] \in Subscribers[m.type] => OnWay(link[2], m)'

LEMMA NothingSent ==
  ASSUME UNCHANGED links, NEW to, NEW m
  PROVE  Stays(to, m)
BY DEF Stays, OnWay

LEMMA Publishing ==
  ASSUME ContentTypeOK, NEW from, NEW messages \in SUBSET Messages, IsFiniteSet(messages),
         Publish(from, messages)
  PROVE  /\ links' \in [Links -> Seq(Messages)]
         /\ \A to : \A m : Stays(to, m)
         /\ Told(from, messages)
<1>1. links \in [Links -> Seq(Messages)]
  BY DEF ContentTypeOK
<1>2. PICK after : after = Sent(links, from, messages)
  OBVIOUS
<1>3. SentRight(links, from, messages, after)
  BY <1>1, <1>2, SentIs
<1>4. links' = after
  BY <1>2 DEF Publish
<1>5. \A link \in Links : ToSet(links[link]) \subseteq ToSet(after[link])
  BY <1>3 DEF SentRight
<1>6. \A to : \A m : Stays(to, m)
  BY <1>4, <1>5 DEF Stays, OnWay, LinksTo
<1>7. ASSUME NEW link \in Links, NEW m \in messages,
             link[1] = from, link[2] \in Subscribers[m.type]
      PROVE  OnWay(link[2], m)'
  <2>1. m \in ToSet(after[link])
    BY <1>3, <1>7 DEF SentRight
  <2> QED  BY <1>4, <2>1 DEF OnWay, LinksTo
<1>8. Told(from, messages)
  BY <1>7 DEF Told
<1> QED  BY <1>3, <1>4, <1>6, <1>8 DEF SentRight

(* A handler takes the first message of a link, and no other.              *)
LEMMA Handling ==
  ASSUME ContentTypeOK, NEW link \in Links, links[link] # <<>>,
         NEW messages \in SUBSET Messages, IsFiniteSet(messages), Handled(link, messages)
  PROVE  /\ links' \in [Links -> Seq(Messages)]
         /\ \A to : \A m : to # link[2] \/ m # Head(links[link]) => Stays(to, m)
         /\ Told(link[2], messages)
         /\ Head(links[link]) \in Messages
<1>1. links \in [Links -> Seq(Messages)]
  BY DEF ContentTypeOK
<1>2. PICK s \in Seq(Messages) : s = links[link]
  BY <1>1
<1>3. Tail(s) \in Seq(Messages) /\ Head(s) \in Messages /\ ToSet(s) = {Head(s)} \cup ToSet(Tail(s))
  BY <1>2, HeadAndTail
<1>4. PICK before \in [Links -> Seq(Messages)] : before = [links EXCEPT ![link] = Tail(@)]
  BY <1>1, <1>2, <1>3
<1>5. PICK after : after = Sent(before, link[2], messages)
  OBVIOUS
<1>6. SentRight(before, link[2], messages, after)
  BY <1>5, SentIs
<1>7. links' = after
  BY <1>4, <1>5 DEF Handled
<1>8. \A other \in Links : ToSet(before[other]) \subseteq ToSet(after[other])
  BY <1>6 DEF SentRight
<1>9. before[link] = Tail(s) /\ \A other \in Links : other # link => before[other] = links[other]
  BY <1>1, <1>2, <1>4
<1>10. ASSUME NEW to, NEW m, to # link[2] \/ m # Head(links[link]), OnWay(to, m)
       PROVE  OnWay(to, m)'
  <2>1. PICK other \in Links : other[2] = to /\ m \in ToSet(links[other])
    BY <1>10 DEF OnWay, LinksTo
  <2>2. m \in ToSet(before[other])
    <3>1. CASE other # link
      BY <1>9, <2>1, <3>1
    <3>2. CASE other = link
      <4>1. m # Head(s) /\ m \in ToSet(s)
        BY <1>2, <1>10, <2>1, <3>2
      <4> QED  BY <1>3, <1>9, <3>2, <4>1
    <3> QED  BY <3>1, <3>2
  <2>3. m \in ToSet(after[other])
    BY <1>8, <2>2
  <2> QED  BY <1>7, <2>1, <2>3 DEF OnWay, LinksTo
<1>11. \A to : \A m : to # link[2] \/ m # Head(links[link]) => Stays(to, m)
  BY <1>10 DEF Stays
<1>12. ASSUME NEW other \in Links, NEW m \in messages,
              other[1] = link[2], other[2] \in Subscribers[m.type]
       PROVE  OnWay(other[2], m)'
  <2>1. m \in ToSet(after[other])
    BY <1>6, <1>12 DEF SentRight
  <2> QED  BY <1>7, <2>1 DEF OnWay, LinksTo
<1>13. Told(link[2], messages)
  BY <1>12 DEF Told
<1> QED  BY <1>2, <1>3, <1>6, <1>7, <1>11, <1>13 DEF SentRight

LEMMA Losses ==
  ASSUME ContentTypeOK, MessageLost
  PROVE  /\ links' \in [Links -> Seq(Messages)]
         /\ \A to : \A m : Stays(to, m)
         /\ lost \subseteq lost'
<1>1. links \in [Links -> Seq(Messages)]
  BY DEF ContentTypeOK
<1>2. PICK link \in Links : \E i \in DOMAIN links[link] :
          /\ links' = [links EXCEPT ![link] = RemoveAt(@, i)]
          /\ Losing({links[link][i]})
  BY DEF MessageLost
<1>3. PICK i \in DOMAIN links[link] : /\ links' = [links EXCEPT ![link] = RemoveAt(@, i)]
                                      /\ lost' = lost \cup {links[link][i]}
  BY <1>2 DEF Losing
<1>4. PICK s \in Seq(Messages) : s = links[link]
  BY <1>1
<1>5. RemoveAt(s, i) \in Seq(Messages) /\ ToSet(s) \subseteq {s[i]} \cup ToSet(RemoveAt(s, i))
  BY <1>3, <1>4, WithoutOne
<1>6. links'[link] = RemoveAt(s, i) /\ \A other \in Links : other # link => links'[other] = links[other]
  BY <1>1, <1>3, <1>4
<1>7. links' \in [Links -> Seq(Messages)]
  BY <1>1, <1>3, <1>4, <1>5
<1>8. ASSUME NEW to, NEW m, OnWay(to, m)
      PROVE  OnWay(to, m)' \/ m \in lost'
  <2>1. PICK other \in Links : other[2] = to /\ m \in ToSet(links[other])
    BY <1>8 DEF OnWay, LinksTo
  <2>2. m \in ToSet(links'[other]) \/ m \in lost'
    <3>1. CASE other # link
      BY <1>6, <2>1, <3>1
    <3>2. CASE other = link
      <4>1. m = s[i] \/ m \in ToSet(RemoveAt(s, i))
        BY <1>4, <1>5, <2>1, <3>2
      <4> QED  BY <1>3, <1>4, <1>6, <3>2, <4>1
    <3> QED  BY <3>1, <3>2
  <2> QED  BY <2>1, <2>2 DEF OnWay, LinksTo
<1> QED  BY <1>3, <1>7, <1>8 DEF Stays

-----------------------------------------------------------------------------
(* What a step that leaves its parts alone keeps of the invariant. *)

(* Content held that a module may not know of is news to it still. *)
NewsKept(module) ==
    \A c \in Content : (Present(c) => News(c, module)) => (Present(c) => News(c, module))'

(* Nothing is stored by the step. *)
OnlyLoses == \A c \in Content : Present(c)' => Present(c)

LEMMA StuckKept ==
  ASSUME StuckInv, UNCHANGED <<incoming, upload, check>>, lost \subseteq lost',
         \A m : Stays("validator", m)
  PROVE  StuckInv'
BY DEF StuckInv, Stays, Dealing, IsPublicKey

LEMMA NewsIsKept ==
  ASSUME NEW module, UNCHANGED <<upload, check>>, lost \subseteq lost', OnlyLoses,
         \A c \in Content : Stays(module, Of("data.stored", c))
  PROVE  NewsKept(module)
<1> SUFFICES ASSUME NEW c \in Content, Present(c) => News(c, module), Present(c)'
             PROVE  News(c, module)'
  BY DEF NewsKept
<1>1. News(c, module)
  BY DEF OnlyLoses
<1> QED  BY <1>1 DEF News, Stays, IsPublicKey

LEMMA SoughtKept ==
  ASSUME ContentTypeOK, SoughtInv, UNCHANGED <<rows, lists>>, NewsKept("stats")
  PROVE  SoughtInv'
<1>1. rows.sought \subseteq Content
  BY DEF ContentTypeOK
<1>2. \A c \in rows.sought : (Present(c) => News(c, "stats"))'
  BY <1>1 DEF NewsKept, SoughtInv
<1> QED  BY <1>2 DEF SoughtInv

LEMMA WaitKept ==
  ASSUME ContentTypeOK, WaitInv, UNCHANGED waiting, NewsKept("unbundler")
  PROVE  WaitInv'
<1>1. \A p \in Paths : waiting[p] \subseteq Content
  BY DEF ContentTypeOK
<1>2. \A p \in Paths : \A c \in waiting[p] : (Present(c) => News(c, "unbundler"))'
  BY <1>1 DEF NewsKept, WaitInv
<1> QED  BY <1>2 DEF WaitInv

LEMMA WokenKept ==
  ASSUME RequestsWoken, UNCHANGED <<resolved, outcomes>>, lost \subseteq lost',
         \A r \in Requests : request'[r] = "waiting" => request[r] = "waiting",
         \A m : Stays("web", m)
  PROVE  RequestsWoken'
<1> SUFFICES ASSUME NEW r \in Requests, request'[r] = "waiting", Answered(PathOf[r])'
             PROVE  \E stored \in BOOLEAN :
                       \/ OnWay("web", PathResolved(PathOf[r], stored))'
                       \/ PathResolved(PathOf[r], stored) \in lost'
  BY DEF RequestsWoken
<1>1. request[r] = "waiting" /\ Answered(PathOf[r])
  BY DEF Answered
<1>2. PICK stored \in BOOLEAN : \/ OnWay("web", PathResolved(PathOf[r], stored))
                                \/ PathResolved(PathOf[r], stored) \in lost
  BY <1>1 DEF RequestsWoken
<1>3. OnWay("web", PathResolved(PathOf[r], stored))' \/ PathResolved(PathOf[r], stored) \in lost'
  BY <1>2 DEF Stays
<1> QED  BY <1>3

LEMMA MessagesAre ==
  /\ \A c \in Content : /\ Of("data.stored", c) \in Messages /\ Of("data.not_found", c) \in Messages
                        /\ Of("data.deleted", c) \in Messages /\ Of("data.shunned", c) \in Messages
  /\ \A n \in Nodes, c \in Content : PutCompleted(n, c) \in Messages
  /\ \A p \in Paths : /\ OfPath("app.path_not_found", p) \in Messages
                      /\ \A stored \in BOOLEAN : PathResolved(p, stored) \in Messages
BY DEF Messages

LEMMA TypesAre ==
  /\ \A c : /\ Of("data.stored", c).type = "data.stored" /\ Of("data.stored", c).content = c
  /\ \A n, c : /\ PutCompleted(n, c).type = "put.completed"
               /\ PutCompleted(n, c).node = n /\ PutCompleted(n, c).content = c
  /\ \A p, stored : /\ PathResolved(p, stored).type = "app.path_resolved"
                    /\ PathResolved(p, stored).path = p /\ PathResolved(p, stored).stored = stored
BY DEF Of, PutCompleted, PathResolved

LEMMA PublishingOne ==
  ASSUME ContentTypeOK, NEW from, NEW m \in Messages, Publish(from, {m})
  PROVE  /\ links' \in [Links -> Seq(Messages)]
         /\ \A to : \A other : Stays(to, other)
         /\ \A link \in Links : link[1] = from /\ link[2] \in Subscribers[m.type] => OnWay(link[2], m)'
<1>1. PICK messages \in SUBSET Messages : messages = {m} /\ IsFiniteSet(messages)
  BY FS_Singleton
<1>2. Publish(from, messages)
  BY <1>1
<1>3. Told(from, messages)
  BY <1>1, <1>2, Publishing
<1> QED  BY <1>1, <1>2, <1>3, Publishing DEF Told

LEMMA HandlingAlone ==
  ASSUME ContentTypeOK, NEW link \in Links, links[link] # <<>>, Handled(link, {})
  PROVE  /\ links' \in [Links -> Seq(Messages)]
         /\ \A to : \A m : to # link[2] \/ m # Head(links[link]) => Stays(to, m)
         /\ Head(links[link]) \in Messages
<1>1. PICK messages \in SUBSET Messages : messages = {} /\ IsFiniteSet(messages)
  BY FS_EmptySet
<1>2. Handled(link, messages)
  BY <1>1
<1> QED  BY <1>1, <1>2, Handling

LEMMA ElementIsMessage ==
  ASSUME ContentTypeOK, NEW link \in Links, links[link] # <<>>
  PROVE  Head(links[link]) \in Messages
<1>1. links[link] \in Seq(Messages)
  BY DEF ContentTypeOK
<1> QED  BY <1>1, HeadAndTail

LEMMA Undisturbed ==
  ASSUME ContentInv, ContentTypeOK', OnlyLoses, OnlyVerified',
         UNCHANGED <<incoming, upload, check, rows, lists, waiting, resolved, outcomes>>,
         lost \subseteq lost',
         \A r \in Requests : request'[r] = "waiting" => request[r] = "waiting",
         \A to \in {"validator", "stats", "unbundler", "web"} : \A m : Stays(to, m)
  PROVE  ContentInv'
<1> USE DEF ContentInv
<1>1. VerifiedInv'
  BY DEF VerifiedInv
<1>2. StuckInv'
  BY StuckKept
<1>3. NewsKept("stats") /\ NewsKept("unbundler")
  BY NewsIsKept
<1>4. SoughtInv'
  BY <1>3, SoughtKept
<1>5. WaitInv'
  BY <1>3, WaitKept
<1>6. RequestsWoken'
  BY WokenKept
<1> QED  BY <1>1, <1>2, <1>4, <1>5, <1>6

LEMMA Unstored ==
  ASSUME ContentInv, UNCHANGED store
  PROVE  OnlyLoses /\ OnlyVerified'
BY DEF ContentInv, VerifiedInv, OnlyVerified, OnlyLoses, Present

LEMMA ByDeleting ==
  ASSUME ContentInv, NEW c \in Content, EvictionDeletes(c)
  PROVE  /\ OnlyLoses /\ OnlyVerified'
         /\ store' \in [Content -> Data \cup {Absent}]
<1>1. store \in [Content -> Data \cup {Absent}]
  BY DEF ContentInv, ContentTypeOK
<1> QED
  BY <1>1 DEF EvictionDeletes, ContentInv, VerifiedInv, OnlyVerified, OnlyLoses, Present, Absent

-----------------------------------------------------------------------------
(* The steps that leave uploads, checks and what is waited for alone. *)

LEMMA GetMissesKeeps ==
  ASSUME ContentInv, NEW c \in Content, GetMisses(c)
  PROVE  ContentInv'
<1>1. Publish("web", {Of("data.not_found", c)})
      /\ UNCHANGED <<store, incoming, upload, request, outcomes, check, rows, lists, resolved, saved,
                     unusable, waiting, lost>>
  BY Zenon DEF GetMisses, web, stats, unbundler
<1>2. ContentTypeOK /\ Of("data.not_found", c) \in Messages
  BY MessagesAre DEF ContentInv
<1>3. links' \in [Links -> Seq(Messages)] /\ \A to : \A m : Stays(to, m)
  BY <1>1, <1>2, PublishingOne
<1>4. ContentTypeOK'
  BY <1>1, <1>2, <1>3 DEF ContentTypeOK
<1> QED  BY <1>1, <1>3, <1>4, Unstored, Undisturbed

LEMMA ShunsKeeps ==
  ASSUME ContentInv, NEW c \in Content, Shuns(c)
  PROVE  ContentInv'
<1>1. Publish("web", {Of("data.shunned", c)})
      /\ UNCHANGED <<store, incoming, upload, request, outcomes, check, rows, lists, resolved, saved,
                     unusable, waiting, lost>>
  BY Zenon DEF Shuns, web, stats, unbundler
<1>2. ContentTypeOK /\ Of("data.shunned", c) \in Messages
  BY MessagesAre DEF ContentInv
<1>3. links' \in [Links -> Seq(Messages)] /\ \A to : \A m : Stays(to, m)
  BY <1>1, <1>2, PublishingOne
<1>4. ContentTypeOK'
  BY <1>1, <1>2, <1>3 DEF ContentTypeOK
<1> QED  BY <1>1, <1>3, <1>4, Unstored, Undisturbed

LEMMA LetsGoKeeps ==
  ASSUME ContentInv, NEW c \in Content, LetsGo(c)
  PROVE  ContentInv'
<1>1. EvictionDeletes(c) /\ Publish("eviction", {Of("data.deleted", c)})
      /\ UNCHANGED <<incoming, upload, request, outcomes, check, rows, lists, resolved, saved,
                     unusable, waiting, lost>>
  BY Zenon DEF LetsGo, web, stats, unbundler
<1>2. ContentTypeOK /\ Of("data.deleted", c) \in Messages
  BY MessagesAre DEF ContentInv
<1>3. links' \in [Links -> Seq(Messages)] /\ \A to : \A m : Stays(to, m)
  BY <1>1, <1>2, PublishingOne
<1>4. OnlyLoses /\ OnlyVerified' /\ store' \in [Content -> Data \cup {Absent}]
  BY <1>1, ByDeleting
<1>5. ContentTypeOK'
  BY <1>1, <1>2, <1>3, <1>4 DEF ContentTypeOK
<1> QED  BY <1>1, <1>3, <1>4, <1>5, Undisturbed

LEMMA EvictionHearsKeeps ==
  ASSUME ContentInv, NEW link \in LinksTo("eviction"), EvictionOnDataShunned(link)
  PROVE  ContentInv'
<1>1. link \in Links /\ link[2] = "eviction"
  BY DEF LinksTo
<1>2. links[link] # <<>> /\ Head(links[link]).type = "data.shunned"
      /\ UNCHANGED <<incoming, upload, request, outcomes, check, rows, lists, resolved, saved,
                     unusable, waiting, lost>>
  BY Zenon DEF EvictionOnDataShunned, Arrives, web, stats, unbundler, history
<1>3. PICK c : c = Head(links[link]).content
  OBVIOUS
<1>4. \/ Handled(link, {}) /\ UNCHANGED store
      \/ EvictionDeletes(c) /\ Handled(link, {Of("data.deleted", c)})
  BY <1>3, Zenon DEF EvictionOnDataShunned
<1>5. ContentTypeOK
  BY DEF ContentInv
<1>6. CASE Handled(link, {}) /\ UNCHANGED store
  <2>0. links' \in [Links -> Seq(Messages)]
        /\ \A to : \A m : to # link[2] \/ m # Head(links[link]) => Stays(to, m)
    BY <1>1, <1>2, <1>5, <1>6, HandlingAlone
  <2>1. links' \in [Links -> Seq(Messages)]
        /\ \A to \in {"validator", "stats", "unbundler", "web"} : \A m : Stays(to, m)
    <3>1. ASSUME NEW to \in {"validator", "stats", "unbundler", "web"}, NEW m
          PROVE  Stays(to, m)
      <4>1. to # link[2]
        BY <1>1
      <4> QED  BY <2>0, <4>1
    <3> QED  BY <2>0, <3>1
  <2>2. ContentTypeOK'
    BY <1>2, <1>5, <1>6, <2>1 DEF ContentTypeOK
  <2> QED  BY <1>2, <1>6, <2>1, <2>2, Unstored, Undisturbed
<1>7. CASE EvictionDeletes(c) /\ Handled(link, {Of("data.deleted", c)})
  <2>1. c \in Content
    <3>1. store \in [Content -> Data \cup {Absent}]
      BY <1>5 DEF ContentTypeOK
    <3>2. PICK m \in Messages : m = Head(links[link])
      BY <1>1, <1>2, <1>5, ElementIsMessage
    <3>3. m.type = "data.shunned" /\ c = m.content
      BY <1>2, <1>3, <3>2
    <3> QED  BY <3>3 DEF Messages, Of, PutCompleted, OfPath, PathResolved
  <2>2. PICK messages \in SUBSET Messages : messages = {Of("data.deleted", c)} /\ IsFiniteSet(messages)
    <3>1. PICK m \in Messages : m = Of("data.deleted", c)
      BY <2>1, MessagesAre
    <3>2. {m} \in SUBSET Messages /\ IsFiniteSet({m})
      BY FS_Singleton
    <3> QED  BY <3>1, <3>2
  <2>3. Handled(link, messages)
    BY <1>7, <2>2
  <2>4. links' \in [Links -> Seq(Messages)]
        /\ \A to \in {"validator", "stats", "unbundler", "web"} : \A m : Stays(to, m)
    BY <1>1, <1>2, <1>5, <2>2, <2>3, Handling
  <2>5. OnlyLoses /\ OnlyVerified' /\ store' \in [Content -> Data \cup {Absent}]
    BY <1>7, <2>1, ByDeleting
  <2>6. ContentTypeOK'
    BY <1>2, <1>5, <2>4, <2>5 DEF ContentTypeOK
  <2> QED  BY <1>2, <2>4, <2>5, <2>6, Undisturbed
<1> QED  BY <1>4, <1>6, <1>7

LEMMA LossKeeps ==
  ASSUME ContentInv, MessageLost
  PROVE  ContentInv'
<1>1. UNCHANGED <<store, incoming, upload, request, outcomes, check, rows, lists, resolved, saved,
                  unusable, waiting>>
  BY Zenon DEF MessageLost, web, stats, unbundler
<1>2. ContentTypeOK
  BY DEF ContentInv
<1>3. links' \in [Links -> Seq(Messages)] /\ (\A to : \A m : Stays(to, m)) /\ lost \subseteq lost'
  BY <1>2, Losses
<1>4. ContentTypeOK'
  BY <1>1, <1>2, <1>3 DEF ContentTypeOK
<1> QED  BY <1>1, <1>3, <1>4, Unstored, Undisturbed

LEMMA RequestAsksKeeps ==
  ASSUME ContentInv, NEW r \in Requests, RequestAsks(r)
  PROVE  ContentInv'
<1>1. Publish("web", {OfPath("app.path_not_found", PathOf[r])})
      /\ request' = [request EXCEPT ![r] = "asked"]
      /\ UNCHANGED <<store, incoming, upload, outcomes, check, rows, lists, resolved, saved,
                     unusable, waiting, lost>>
  BY Zenon DEF RequestAsks, stats, unbundler, history
<1>2. ContentTypeOK /\ OfPath("app.path_not_found", PathOf[r]) \in Messages
  BY MessagesAre, ContentAssumption DEF ContentInv
<1>3. links' \in [Links -> Seq(Messages)] /\ \A to : \A m : Stays(to, m)
  BY <1>1, <1>2, PublishingOne
<1>4. ContentTypeOK' /\ \A other \in Requests : request'[other] = "waiting" => request[other] = "waiting"
  BY <1>1, <1>2, <1>3 DEF ContentTypeOK
<1> QED  BY <1>1, <1>3, <1>4, Unstored, Undisturbed

LEMMA RequestStartsOrEndsKeeps ==
  ASSUME ContentInv, NEW r \in Requests, RequestStarts(r) \/ RequestEnds(r)
  PROVE  ContentInv'
<1>1. request' = [request EXCEPT ![r] = "looking"] \/ request' = [request EXCEPT ![r] = "resting"]
  BY Zenon DEF RequestStarts, RequestEnds
<1>2. UNCHANGED <<store, incoming, links, upload, outcomes, check, rows, lists, resolved, saved,
                  unusable, waiting, lost>>
  BY Zenon DEF RequestStarts, RequestEnds, stats, unbundler, history
<1>3. ContentTypeOK' /\ \A other \in Requests : request'[other] = "waiting" => request[other] = "waiting"
  BY <1>1, <1>2 DEF ContentInv, ContentTypeOK
<1>4. \A to : \A m : Stays(to, m)
  BY <1>2, NothingSent
<1> QED  BY <1>2, <1>3, <1>4, Unstored, Undisturbed

LEMMA UploadStartsKeeps ==
  ASSUME ContentInv, NEW n \in Nodes, NEW c \in Content, NEW data \in Data, UploadStarts(n, c, data)
  PROVE  ContentInv'
<1>1. /\ upload = Resting
      /\ upload' = [phase |-> "accepted", node |-> n, content |-> c, data |-> data]
      /\ UNCHANGED <<store, incoming, links, request, outcomes, check, rows, lists, resolved, saved,
                     unusable, waiting, lost>>
  BY Zenon DEF UploadStarts, stats, unbundler
<1>2. upload.phase # "written" /\ upload'.phase # "written"
  BY <1>1 DEF Resting
<1>3. \A to : \A m : Stays(to, m)
  BY <1>1, NothingSent
<1> USE DEF ContentInv
<1>4. ContentTypeOK'
  BY <1>1 DEF ContentTypeOK, Doing
<1>5. VerifiedInv'
  BY <1>1 DEF VerifiedInv, OnlyVerified
<1>6. StuckInv'
  BY <1>1, <1>2, <1>3 DEF StuckInv, Stays, Dealing, OnWay
<1>7. NewsKept("stats") /\ NewsKept("unbundler")
  BY <1>1, <1>2 DEF NewsKept, News, Present, OnWay
<1>8. SoughtInv' /\ WaitInv'
  BY <1>1, <1>7, SoughtKept, WaitKept
<1>9. RequestsWoken'
  BY <1>1, <1>3, WokenKept
<1> QED  BY <1>4, <1>5, <1>6, <1>8, <1>9

-----------------------------------------------------------------------------
(* Uploads. *)

LEMMA UploadWritesKeeps ==
  ASSUME ContentInv, UploadWrites
  PROVE  ContentInv'
<1>1. /\ upload.phase = "accepted" /\ upload' = [upload EXCEPT !.phase = "written"]
      /\ UNCHANGED <<links, request, outcomes, check, rows, lists, resolved, saved, unusable, waiting,
                     lost>>
  BY Zenon DEF UploadWrites, stats, unbundler, history
<1>2. PICK n, c : n = upload.node /\ c = upload.content
  OBVIOUS
<1>3. \/ /\ IsPublicKey(n, c, upload.data) /\ store' = [store EXCEPT ![c] = upload.data]
         /\ UNCHANGED incoming
      \/ /\ ~IsPublicKey(n, c, upload.data) /\ incoming' = [incoming EXCEPT ![n][c] = upload.data]
         /\ UNCHANGED store
  BY <1>2 DEF UploadWrites
<1> USE DEF ContentInv
<1>4. n \in Nodes /\ c \in Content /\ upload.data \in Data
      /\ upload' = [phase |-> "written", node |-> n, content |-> c, data |-> upload.data]
  BY <1>1, <1>2 DEF ContentTypeOK, Doing, Resting
<1>5. /\ upload'.phase = "written" /\ upload'.node = n /\ upload'.content = c
      /\ upload'.data = upload.data
  BY <1>4
<1>6. store \in [Content -> Data \cup {Absent}]
      /\ incoming \in [Nodes -> [Content -> Data \cup {Absent}]]
  BY DEF ContentTypeOK
<1>7. ContentTypeOK'
  <2>1. upload' \in Doing({"accepted", "written"})
    BY <1>4 DEF Doing
  <2>2. store' \in [Content -> Data \cup {Absent}]
    BY <1>3, <1>4, <1>6
  <2>3. incoming' \in [Nodes -> [Content -> Data \cup {Absent}]]
    BY <1>3, <1>4, <1>6
  <2> QED  BY <1>1, <2>1, <2>2, <2>3 DEF ContentTypeOK
<1>8. VerifiedInv'
  BY <1>1, <1>3, <1>4, <1>6 DEF VerifiedInv, OnlyVerified, IsPublicKey
<1>9. \A to : \A m : Stays(to, m)
  BY <1>1, NothingSent
<1>10. StuckInv'
  <2> SUFFICES ASSUME NEW k \in Nodes, NEW x \in Content, incoming'[k][x] # Absent
               PROVE  \/ Dealing({"written"}, upload, k, x)' /\ ~IsPublicKey(k, x, upload'.data)
                      \/ Dealing({"read", "verified", "stored", "settled"}, check, k, x)'
                      \/ OnWay("validator", PutCompleted(k, x))'
                      \/ PutCompleted(k, x) \in lost'
    BY DEF StuckInv, Dealing, IsPublicKey
  <2>1. CASE k = n /\ x = c /\ ~IsPublicKey(n, c, upload.data)
    BY <1>5, <2>1 DEF Dealing
  <2>2. CASE ~(k = n /\ x = c /\ ~IsPublicKey(n, c, upload.data))
    <3>1. incoming[k][x] # Absent
      BY <1>3, <1>4, <1>6, <2>2
    <3>2. ~Dealing({"written"}, upload, k, x)
      BY <1>1 DEF Dealing
    <3> QED  BY <1>1, <1>9, <3>1, <3>2 DEF StuckInv, Dealing, Stays
  <2> QED  BY <2>1, <2>2
<1>11. ASSUME NEW module
       PROVE  NewsKept(module)
  <2> SUFFICES ASSUME NEW x \in Content, Present(x) => News(x, module), Present(x)'
               PROVE  News(x, module)'
    BY DEF NewsKept
  <2>1. CASE x = c /\ IsPublicKey(n, c, upload.data)
    BY <1>5, <2>1 DEF News
  <2>2. CASE ~(x = c /\ IsPublicKey(n, c, upload.data))
    <3>1. Present(x)
      BY <1>3, <1>4, <1>6, <2>2 DEF Present
    <3>2. News(x, module) /\ upload.phase # "written"
      BY <1>1, <3>1
    <3> QED  BY <1>1, <1>9, <3>2 DEF News, Stays
  <2> QED  BY <2>1, <2>2
<1>12. SoughtInv' /\ WaitInv'
  BY <1>1, <1>11, SoughtKept, WaitKept
<1>13. RequestsWoken'
  BY <1>1, <1>9, WokenKept
<1> QED  BY <1>7, <1>8, <1>10, <1>12, <1>13

LEMMA UploadReportsKeeps ==
  ASSUME ContentInv, UploadReports
  PROVE  ContentInv'
<1>1. /\ upload.phase = "written" /\ upload' = Resting
      /\ UNCHANGED <<store, incoming, request, outcomes, check, rows, lists, resolved, saved, unusable,
                     waiting, lost>>
  BY Zenon DEF UploadReports, stats, unbundler, history
<1>2. PICK n, c : n = upload.node /\ c = upload.content
  OBVIOUS
<1>3. Publish("web", IF IsPublicKey(n, c, upload.data) THEN {Of("data.stored", c)}
                     ELSE {PutCompleted(n, c)})
  BY <1>2 DEF UploadReports
<1> USE DEF ContentInv
<1>4. n \in Nodes /\ c \in Content
  BY <1>1, <1>2 DEF ContentTypeOK, Doing, Resting
<1>5. PICK m : m = IF IsPublicKey(n, c, upload.data) THEN Of("data.stored", c) ELSE PutCompleted(n, c)
  OBVIOUS
<1>6. m \in Messages /\ Publish("web", {m})
  BY <1>3, <1>4, <1>5, MessagesAre
<1>7. /\ links' \in [Links -> Seq(Messages)]
      /\ \A to : \A other : Stays(to, other)
      /\ \A link \in Links : link[1] = "web" /\ link[2] \in Subscribers[m.type] => OnWay(link[2], m)'
  BY <1>6, PublishingOne
<1>8. IsPublicKey(n, c, upload.data) =>
          OnWay("stats", Of("data.stored", c))' /\ OnWay("unbundler", Of("data.stored", c))'
  <2> SUFFICES ASSUME IsPublicKey(n, c, upload.data)
               PROVE  OnWay("stats", Of("data.stored", c))' /\ OnWay("unbundler", Of("data.stored", c))'
    OBVIOUS
  <2>1. m = Of("data.stored", c) /\ Subscribers[m.type] = {"stats", "unbundler"}
    BY <1>5, TypesAre, Subscribing
  <2>2. \A link \in Links : link[1] = "web" /\ link[2] \in {"stats", "unbundler"} =>
            OnWay(link[2], Of("data.stored", c))'
    BY <1>7, <2>1
  <2> QED  BY <2>2, LinksAre
<1>9. ~IsPublicKey(n, c, upload.data) => OnWay("validator", PutCompleted(n, c))'
  <2> SUFFICES ASSUME ~IsPublicKey(n, c, upload.data)
               PROVE  OnWay("validator", PutCompleted(n, c))'
    OBVIOUS
  <2>1. m = PutCompleted(n, c) /\ Subscribers[m.type] = {"validator"}
    BY <1>5, TypesAre, Subscribing
  <2>2. \A link \in Links : link[1] = "web" /\ link[2] = "validator" =>
            OnWay(link[2], PutCompleted(n, c))'
    BY <1>7, <2>1
  <2> QED  BY <2>2, LinksAre
<1>10. ContentTypeOK'
  BY <1>1, <1>7 DEF ContentTypeOK, Doing
<1>11. VerifiedInv'
  BY <1>1 DEF VerifiedInv, OnlyVerified
<1>12. StuckInv'
  BY <1>1, <1>2, <1>7, <1>9 DEF StuckInv, Stays, Dealing
<1>13. ASSUME NEW module \in {"stats", "unbundler"}
       PROVE  NewsKept(module)
  <2> SUFFICES ASSUME NEW x \in Content, Present(x) => News(x, module), Present(x)'
               PROVE  News(x, module)'
    BY DEF NewsKept
  <2>1. News(x, module)
    BY <1>1 DEF Present
  <2>2. CASE check.phase = "stored" /\ check.content = x
    BY <1>1, <2>2 DEF News
  <2>3. CASE upload.content = x /\ IsPublicKey(upload.node, x, upload.data)
    BY <1>2, <1>8, <2>3 DEF News
  <2>4. CASE OnWay(module, Of("data.stored", x)) \/ Of("data.stored", x) \in lost
    BY <1>1, <1>7, <2>4 DEF News, Stays
  <2> QED  BY <2>1, <2>2, <2>3, <2>4 DEF News
<1>14. SoughtInv' /\ WaitInv'
  BY <1>1, <1>13, SoughtKept, WaitKept
<1>15. RequestsWoken'
  BY <1>1, <1>7, WokenKept
<1> QED  BY <1>10, <1>11, <1>12, <1>14, <1>15

LEMMA PeerSendsKeeps ==
  ASSUME ContentInv, NEW n \in Nodes, NEW c \in Content, PeerSends(n, c)
  PROVE  ContentInv'
<1>1. /\ incoming' = [incoming EXCEPT ![n][c] = "right"]
      /\ Publish("connections", {PutCompleted(n, c)})
      /\ UNCHANGED <<store, upload, request, outcomes, check, rows, lists, resolved, saved, unusable,
                     waiting, lost>>
  BY Zenon DEF PeerSends, web, stats, unbundler
<1> USE DEF ContentInv
<1>2. PICK m \in Messages : m = PutCompleted(n, c)
  BY MessagesAre
<1>3. /\ links' \in [Links -> Seq(Messages)]
      /\ \A to : \A other : Stays(to, other)
      /\ \A link \in Links :
            link[1] = "connections" /\ link[2] \in Subscribers[m.type] => OnWay(link[2], m)'
  BY <1>1, <1>2, PublishingOne
<1>4. OnWay("validator", PutCompleted(n, c))'
  <2>1. Subscribers[m.type] = {"validator"}
    BY <1>2, TypesAre, Subscribing
  <2>2. \A link \in Links : link[1] = "connections" /\ link[2] = "validator" =>
            OnWay(link[2], PutCompleted(n, c))'
    BY <1>2, <1>3, <2>1
  <2> QED  BY <2>2, LinksAre
<1>5. incoming \in [Nodes -> [Content -> Data \cup {Absent}]]
  BY DEF ContentTypeOK
<1>6. incoming' \in [Nodes -> [Content -> Data \cup {Absent}]]
  BY <1>1, <1>5 DEF Data
<1>7. ContentTypeOK'
  BY <1>1, <1>3, <1>6 DEF ContentTypeOK
<1>8. VerifiedInv'
  BY <1>1 DEF VerifiedInv, OnlyVerified
<1>9. StuckInv'
  <2>1. \A k \in Nodes, x \in Content : k # n \/ x # c => incoming'[k][x] = incoming[k][x]
    BY <1>1, <1>5
  <2> QED  BY <1>1, <1>3, <1>4, <2>1 DEF StuckInv, Stays, Dealing, IsPublicKey
<1>10. NewsKept("stats") /\ NewsKept("unbundler")
  BY <1>1, <1>3, Unstored, NewsIsKept
<1>11. SoughtInv' /\ WaitInv'
  BY <1>1, <1>10, SoughtKept, WaitKept
<1>12. RequestsWoken'
  BY <1>1, <1>3, WokenKept
<1> QED  BY <1>7, <1>8, <1>9, <1>11, <1>12

-----------------------------------------------------------------------------
(* The validator. *)

LEMMA CheckReadsKeeps ==
  ASSUME ContentInv, NEW link \in LinksTo("validator"), CheckReads(link)
  PROVE  ContentInv'
<1>1. link \in Links /\ link[2] = "validator"
  BY DEF LinksTo
<1>2. /\ check = Resting /\ links[link] # <<>> /\ Head(links[link]).type = "put.completed"
      /\ Handled(link, {})
      /\ UNCHANGED <<store, incoming, upload, request, outcomes, rows, lists, resolved, saved, unusable,
                     waiting, lost>>
  BY Zenon DEF CheckReads, Arrives, web, stats, unbundler, history
<1> USE DEF ContentInv
<1>3. PICK m \in Messages : m = Head(links[link])
  BY <1>1, <1>2, ElementIsMessage
<1>4. PICK n \in Nodes, c \in Content : m = PutCompleted(n, c)
  BY <1>2, <1>3 DEF Messages, Of, PutCompleted, OfPath, PathResolved
<1>5. m.node = n /\ m.content = c
  BY <1>4, TypesAre
<1>6. check' = IF incoming[n][c] = Absent THEN Resting
               ELSE [phase |-> "read", node |-> n, content |-> c, data |-> incoming[n][c]]
  BY <1>3, <1>5 DEF CheckReads
<1>7. links' \in [Links -> Seq(Messages)]
      /\ \A to : \A other : to # link[2] \/ other # m => Stays(to, other)
  BY <1>1, <1>2, <1>3, HandlingAlone
<1>8. \A to \in {"stats", "unbundler", "web"} : \A other : Stays(to, other)
  <2>1. ASSUME NEW to \in {"stats", "unbundler", "web"}, NEW other
        PROVE  Stays(to, other)
    <3>1. to # link[2]
      BY <1>1
    <3> QED  BY <1>7, <3>1
  <2> QED  BY <2>1
<1>9. \A other : other # m => Stays("validator", other)
  BY <1>7
<1>10. incoming[n][c] \in Data \cup {Absent}
  BY DEF ContentTypeOK
<1>11. ContentTypeOK'
  <2>1. check' \in Doing({"read", "verified", "stored", "settled"})
    BY <1>6, <1>10 DEF Doing
  <2> QED  BY <1>2, <1>7, <2>1 DEF ContentTypeOK
<1>12. check.phase # "stored" /\ check'.phase \notin {"verified", "stored"}
       /\ check.phase \notin {"read", "verified", "stored", "settled"}
  BY <1>2, <1>6 DEF Resting
<1>13. VerifiedInv'
  BY <1>2, <1>12 DEF VerifiedInv, OnlyVerified
<1>14. StuckInv'
  <2> SUFFICES ASSUME NEW k \in Nodes, NEW x \in Content, incoming'[k][x] # Absent
               PROVE  \/ Dealing({"written"}, upload, k, x)' /\ ~IsPublicKey(k, x, upload'.data)
                      \/ Dealing({"read", "verified", "stored", "settled"}, check, k, x)'
                      \/ OnWay("validator", PutCompleted(k, x))'
                      \/ PutCompleted(k, x) \in lost'
    BY DEF StuckInv, Dealing, IsPublicKey
  <2>1. CASE k = n /\ x = c
    <3>1. check'.phase = "read" /\ check'.node = n /\ check'.content = c
      BY <1>2, <1>6, <2>1
    <3> QED  BY <2>1, <3>1 DEF Dealing
  <2>2. CASE ~(k = n /\ x = c)
    <3>1. PutCompleted(k, x) # m
      BY <1>5, <2>2, TypesAre
    <3>2. ~Dealing({"read", "verified", "stored", "settled"}, check, k, x)
      BY <1>12 DEF Dealing
    <3>3. Stays("validator", PutCompleted(k, x))
      BY <1>9, <3>1
    <3> QED  BY <1>2, <3>2, <3>3 DEF StuckInv, Stays, Dealing
  <2> QED  BY <2>1, <2>2
<1>15. ASSUME NEW module \in {"stats", "unbundler"}
       PROVE  NewsKept(module)
  BY <1>2, <1>8, <1>12 DEF NewsKept, News, Stays, Present
<1>16. SoughtInv' /\ WaitInv'
  BY <1>2, <1>15, SoughtKept, WaitKept
<1>17. RequestsWoken'
  BY <1>2, <1>8, WokenKept
<1> QED  BY <1>11, <1>13, <1>14, <1>16, <1>17

(* A check in progress goes on with the same upload. *)
LEMMA CheckGoesOn ==
  ASSUME ContentInv, UNCHANGED <<incoming, upload>>, lost \subseteq lost',
         \A m : Stays("validator", m),
         check.phase \in {"read", "verified", "stored", "settled"} =>
            /\ check'.phase \in {"read", "verified", "stored", "settled"}
            /\ check'.node = check.node /\ check'.content = check.content
  PROVE  StuckInv'
BY DEF ContentInv, StuckInv, Dealing, Stays, IsPublicKey

LEMMA CheckingIs ==
  ASSUME ContentTypeOK, check.phase \in {"read", "verified", "stored", "settled"}
  PROVE  /\ check \in [phase : {"read", "verified", "stored", "settled"}, node : Nodes,
                       content : Content, data : Data]
BY DEF ContentTypeOK, Doing, Resting

LEMMA CheckDecidesKeeps ==
  ASSUME ContentInv, CheckDecides
  PROVE  ContentInv'
<1>1. /\ check.phase = "read"
      /\ UNCHANGED <<store, incoming, links, upload, request, outcomes, rows, lists, resolved, saved,
                     unusable, waiting, lost>>
  BY Zenon DEF CheckDecides, web, stats, unbundler, history
<1> USE DEF ContentInv
<1>2. check \in [phase : {"read", "verified", "stored", "settled"}, node : Nodes,
                 content : Content, data : Data]
  BY <1>1, CheckingIs
<1>3. PICK phase \in {"verified", "settled"} :
          /\ check' = [check EXCEPT !.phase = phase]
          /\ phase = "verified" => Matches(check.data)
  <2>1. PICK passes \in BOOLEAN :
            passes = (check.content \notin lists.shunned /\ ~Present(check.content) /\ Matches(check.data))
    OBVIOUS
  <2>2. check' = [check EXCEPT !.phase = IF passes THEN "verified" ELSE "settled"]
    BY <2>1 DEF CheckDecides
  <2>3. CASE passes
    BY <2>1, <2>2, <2>3
  <2>4. CASE ~passes
    BY <2>1, <2>2, <2>4
  <2> QED  BY <2>3, <2>4
<1>4. /\ check'.phase = phase /\ check'.node = check.node /\ check'.content = check.content
      /\ check'.data = check.data
      /\ check' \in [phase : {"verified", "settled"}, node : Nodes, content : Content, data : Data]
  BY <1>2, <1>3
<1>5. \A to : \A m : Stays(to, m)
  BY <1>1, NothingSent
<1>6. ContentTypeOK'
  <2>1. check' \in Doing({"read", "verified", "stored", "settled"})
    BY <1>4 DEF Doing
  <2> QED  BY <1>1, <2>1 DEF ContentTypeOK
<1>7. VerifiedInv'
  BY <1>1, <1>3, <1>4 DEF VerifiedInv, OnlyVerified, Matches
<1>8. StuckInv'
  BY <1>1, <1>4, <1>5, CheckGoesOn
<1>9. ASSUME NEW module
      PROVE  NewsKept(module)
  BY <1>1, <1>4, <1>5 DEF NewsKept, News, Stays, Present
<1>10. SoughtInv' /\ WaitInv'
  BY <1>1, <1>9, SoughtKept, WaitKept
<1>11. RequestsWoken'
  BY <1>1, <1>5, WokenKept
<1> QED  BY <1>6, <1>7, <1>8, <1>10, <1>11

LEMMA CheckStoresKeeps ==
  ASSUME ContentInv, CheckStores
  PROVE  ContentInv'
<1>1. /\ check.phase = "verified" /\ check' = [check EXCEPT !.phase = "stored"]
      /\ store' = [store EXCEPT ![check.content] = check.data]
      /\ UNCHANGED <<incoming, links, upload, request, outcomes, rows, lists, resolved, saved,
                     unusable, waiting, lost>>
  BY Zenon DEF CheckStores, Verified, web, stats, unbundler, history
<1> USE DEF ContentInv
<1>2. check \in [phase : {"read", "verified", "stored", "settled"}, node : Nodes,
                 content : Content, data : Data]
  BY <1>1, CheckingIs
<1>3. PICK c \in Content : c = check.content
  BY <1>2
<1>4. /\ check'.phase = "stored" /\ check'.node = check.node /\ check'.content = c
      /\ check' \in [phase : {"stored"}, node : Nodes, content : Content, data : Data]
  BY <1>1, <1>2, <1>3
<1>5. store \in [Content -> Data \cup {Absent}]
  BY DEF ContentTypeOK
<1>6. store' = [store EXCEPT ![c] = "right"]
  BY <1>1, <1>3 DEF VerifiedInv
<1>7. \A to : \A m : Stays(to, m)
  BY <1>1, NothingSent
<1>8. ContentTypeOK'
  <2>1. check' \in Doing({"read", "verified", "stored", "settled"})
    BY <1>4 DEF Doing
  <2>2. store' \in [Content -> Data \cup {Absent}]
    BY <1>5, <1>6 DEF Data
  <2> QED  BY <1>1, <2>1, <2>2 DEF ContentTypeOK
<1>9. VerifiedInv'
  BY <1>4, <1>5, <1>6 DEF VerifiedInv, OnlyVerified
<1>10. StuckInv'
  BY <1>1, <1>3, <1>4, <1>7, CheckGoesOn
<1>11. ASSUME NEW module
       PROVE  NewsKept(module)
  <2> SUFFICES ASSUME NEW x \in Content, Present(x) => News(x, module), Present(x)'
               PROVE  News(x, module)'
    BY DEF NewsKept
  <2>1. CASE x = c
    BY <1>4, <2>1 DEF News
  <2>2. CASE x # c
    <3>1. Present(x)
      BY <1>5, <1>6, <2>2 DEF Present
    <3> QED  BY <1>1, <1>7, <3>1 DEF News, Stays
  <2> QED  BY <2>1, <2>2
<1>12. SoughtInv' /\ WaitInv'
  BY <1>1, <1>11, SoughtKept, WaitKept
<1>13. RequestsWoken'
  BY <1>1, <1>7, WokenKept
<1> QED  BY <1>8, <1>9, <1>10, <1>12, <1>13

LEMMA CheckAnnouncesKeeps ==
  ASSUME ContentInv, CheckAnnounces
  PROVE  ContentInv'
<1>1. /\ check.phase = "stored" /\ check' = [check EXCEPT !.phase = "settled"]
      /\ Publish("validator", {Of("data.stored", check.content)})
      /\ UNCHANGED <<store, incoming, upload, request, outcomes, rows, lists, resolved, saved,
                     unusable, waiting, lost>>
  BY Zenon DEF CheckAnnounces, web, stats, unbundler, history
<1> USE DEF ContentInv
<1>2. check \in [phase : {"read", "verified", "stored", "settled"}, node : Nodes,
                 content : Content, data : Data]
  BY <1>1, CheckingIs
<1>3. PICK c \in Content : c = check.content
  BY <1>2
<1>4. /\ check'.phase = "settled" /\ check'.node = check.node /\ check'.content = c
      /\ check' \in [phase : {"settled"}, node : Nodes, content : Content, data : Data]
  BY <1>1, <1>2, <1>3
<1>5. PICK m \in Messages : m = Of("data.stored", c)
  BY MessagesAre
<1>6. /\ links' \in [Links -> Seq(Messages)]
      /\ \A to : \A other : Stays(to, other)
      /\ \A link \in Links :
            link[1] = "validator" /\ link[2] \in Subscribers[m.type] => OnWay(link[2], m)'
  BY <1>1, <1>3, <1>5, PublishingOne
<1>7. OnWay("stats", Of("data.stored", c))' /\ OnWay("unbundler", Of("data.stored", c))'
  <2>1. Subscribers[m.type] = {"stats", "unbundler"}
    BY <1>5, TypesAre, Subscribing
  <2>2. \A link \in Links : link[1] = "validator" /\ link[2] \in {"stats", "unbundler"} =>
            OnWay(link[2], Of("data.stored", c))'
    BY <1>5, <1>6, <2>1
  <2> QED  BY <2>2, LinksAre
<1>8. ContentTypeOK'
  <2>1. check' \in Doing({"read", "verified", "stored", "settled"})
    BY <1>4 DEF Doing
  <2> QED  BY <1>1, <1>6, <2>1 DEF ContentTypeOK
<1>9. VerifiedInv'
  BY <1>1, <1>4 DEF VerifiedInv, OnlyVerified
<1>10. StuckInv'
  BY <1>1, <1>3, <1>4, <1>6, CheckGoesOn
<1>11. ASSUME NEW module \in {"stats", "unbundler"}
       PROVE  NewsKept(module)
  <2> SUFFICES ASSUME NEW x \in Content, Present(x) => News(x, module), Present(x)'
               PROVE  News(x, module)'
    BY DEF NewsKept
  <2>1. CASE x = c
    BY <1>7, <2>1 DEF News
  <2>2. CASE x # c
    <3>1. News(x, module)
      BY <1>1 DEF Present
    <3> QED  BY <1>1, <1>3, <1>6, <2>2, <3>1 DEF News, Stays
  <2> QED  BY <2>1, <2>2
<1>12. SoughtInv' /\ WaitInv'
  BY <1>1, <1>11, SoughtKept, WaitKept
<1>13. RequestsWoken'
  BY <1>1, <1>6, WokenKept
<1> QED  BY <1>8, <1>9, <1>10, <1>12, <1>13

LEMMA CheckEndsKeeps ==
  ASSUME ContentInv, CheckEnds
  PROVE  ContentInv'
<1>1. /\ check.phase = "settled" /\ check' = Resting
      /\ incoming' = [incoming EXCEPT ![check.node][check.content] = Absent]
      /\ UNCHANGED <<store, links, upload, request, outcomes, rows, lists, resolved, saved,
                     unusable, waiting, lost>>
  BY Zenon DEF CheckEnds, web, stats, unbundler, history
<1> USE DEF ContentInv
<1>2. PICK n \in Nodes, c \in Content : n = check.node /\ c = check.content
  BY <1>1, CheckingIs
<1>3. incoming \in [Nodes -> [Content -> Data \cup {Absent}]]
  BY DEF ContentTypeOK
<1>4. incoming' \in [Nodes -> [Content -> Data \cup {Absent}]]
  BY <1>1, <1>2, <1>3
<1>5. /\ incoming'[n][c] = Absent
      /\ \A k \in Nodes, x \in Content : k # n \/ x # c => incoming'[k][x] = incoming[k][x]
  BY <1>1, <1>2, <1>3
<1>6. \A to : \A m : Stays(to, m)
  BY <1>1, NothingSent
<1>7. ContentTypeOK'
  BY <1>1, <1>4 DEF ContentTypeOK, Doing
<1>8. check'.phase = "resting"
  BY <1>1 DEF Resting
<1>9. VerifiedInv'
  BY <1>1, <1>8 DEF VerifiedInv, OnlyVerified
<1>10. StuckInv'
  BY <1>1, <1>2, <1>5, <1>6 DEF StuckInv, Dealing, Stays, IsPublicKey
<1>11. ASSUME NEW module
       PROVE  NewsKept(module)
  BY <1>1, <1>6 DEF NewsKept, News, Stays, Present
<1>12. SoughtInv' /\ WaitInv'
  BY <1>1, <1>11, SoughtKept, WaitKept
<1>13. RequestsWoken'
  BY <1>1, <1>6, WokenKept
<1> QED  BY <1>7, <1>9, <1>10, <1>12, <1>13

-----------------------------------------------------------------------------
(* The stats module. *)

(* What is news to it, a message it hears keeps, unless it was that news. *)
StatsHearsRight(head) ==
    /\ links' \in [Links -> Seq(Messages)]
    /\ head \in Messages
    /\ VerifiedInv' /\ StuckInv' /\ WaitInv' /\ RequestsWoken'
    /\ \A c \in Content : Of("data.stored", c) # head =>
          ((Present(c) => News(c, "stats")) => (Present(c) => News(c, "stats"))')
    /\ UNCHANGED <<store, incoming, upload, request, check, waiting>>

LEMMA StatsHears ==
  ASSUME ContentInv, NEW link \in LinksTo("stats"), NEW type, StatsHandles(link, type),
         NEW head, head = Head(links[link])
  PROVE  StatsHearsRight(head) /\ head.type = type
<1>1. link \in Links /\ link[2] = "stats"
  BY DEF LinksTo
<1>2. /\ links[link] # <<>> /\ Head(links[link]).type = type /\ Handled(link, {})
      /\ UNCHANGED <<store, incoming, upload, request, outcomes, check, resolved, saved, unusable,
                     waiting, lost>>
  BY Zenon DEF StatsHandles, Arrives, web, unbundler, history
<1> USE DEF ContentInv
<1>3. /\ links' \in [Links -> Seq(Messages)]
      /\ \A to : \A m : to # link[2] \/ m # head => Stays(to, m)
      /\ head \in Messages
  BY <1>1, <1>2, HandlingAlone
<1>4. \A to \in {"validator", "unbundler", "web"} : \A m : Stays(to, m)
  <2>1. ASSUME NEW to \in {"validator", "unbundler", "web"}, NEW m
        PROVE  Stays(to, m)
    <3>1. to # link[2]
      BY <1>1
    <3> QED  BY <1>3, <3>1
  <2> QED  BY <2>1
<1>5. \A m : m # head => Stays("stats", m)
  BY <1>3
<1>6. VerifiedInv'
  BY <1>2 DEF VerifiedInv, OnlyVerified
<1>7. StuckInv'
  BY <1>2, <1>4, StuckKept
<1>8. NewsKept("unbundler")
  BY <1>2, <1>4, Unstored, NewsIsKept
<1>9. WaitInv'
  BY <1>2, <1>8, WaitKept
<1>10. RequestsWoken'
  BY <1>2, <1>4, WokenKept
<1>11. \A c \in Content : Of("data.stored", c) # head =>
          ((Present(c) => News(c, "stats")) => (Present(c) => News(c, "stats"))')
  BY <1>2, <1>5 DEF News, Stays, Present
<1> QED  BY <1>2, <1>3, <1>6, <1>7, <1>9, <1>10, <1>11 DEF StatsHearsRight

(* What is sought is news to stats if present, whatever it does to its rows. *)
LEMMA StatsKeeps ==
  ASSUME ContentInv, NEW head, StatsHearsRight(head),
         rows' \in [held : SUBSET Content, sought : SUBSET Content, shunned : SUBSET Content],
         lists' \in [seek : SUBSET Content, shunned : SUBSET Content],
         rows'.sought \cap rows'.shunned = {},
         lists'.seek \subseteq rows'.sought \cup rows'.shunned,
         \A c \in rows'.sought : Of("data.stored", c) # head /\ (c \in rows.sought \/ ~Present(c))
  PROVE  ContentInv'
<1> USE DEF ContentInv
<1>1. ContentTypeOK'
  BY DEF ContentTypeOK, StatsHearsRight
<1>2. \A c \in rows'.sought : Present(c)' => News(c, "stats")'
  <2> SUFFICES ASSUME NEW c \in rows'.sought
               PROVE  Present(c)' => News(c, "stats")'
    OBVIOUS
  <2>1. c \in Content
    OBVIOUS
  <2>2. Present(c) => News(c, "stats")
    BY DEF SoughtInv
  <2> QED  BY <2>1, <2>2 DEF StatsHearsRight
<1>3. SoughtInv'
  BY <1>2 DEF SoughtInv
<1> QED  BY <1>1, <1>3 DEF StatsHearsRight

LEMMA StatsHandlersKeep ==
  ASSUME ContentInv, NEW link \in LinksTo("stats"),
         \/ StatsOnDataNotFound(link) \/ StatsOnDataStored(link)
         \/ StatsOnDataDeleted(link) \/ StatsOnDataShunned(link)
  PROVE  ContentInv'
<1> USE DEF ContentInv
<1>1. /\ rows \in [held : SUBSET Content, sought : SUBSET Content, shunned : SUBSET Content]
      /\ lists \in [seek : SUBSET Content, shunned : SUBSET Content]
  BY DEF ContentTypeOK
<1>2. PICK head : head = Head(links[link])
  OBVIOUS
<1>3. PICK c : c = head.content
  OBVIOUS
<1>4. rows.sought \cap rows.shunned = {} /\ lists.seek \subseteq rows.sought \cup rows.shunned
  BY DEF SoughtInv
<1>5. \A x : Of("data.stored", x).type = "data.stored" /\ Of("data.stored", x).content = x
  BY TypesAre
<1>6. head \in Messages /\ head.type \in {"data.not_found", "data.stored", "data.deleted", "data.shunned"}
          => c \in Content
  BY <1>3 DEF Messages, Of, PutCompleted, OfPath, PathResolved
<1>7. CASE StatsOnDataNotFound(link)
  <2>1. /\ StatsHandles(link, "data.not_found")
        /\ rows' = IF Seekable(c) THEN [rows EXCEPT !.sought = @ \cup {c}] ELSE rows
        /\ UNCHANGED lists
    BY <1>2, <1>3, <1>7 DEF StatsOnDataNotFound
  <2>2. StatsHearsRight(head) /\ head.type = "data.not_found"
    BY <1>2, <2>1, StatsHears
  <2>3. c \in Content
    BY <1>6, <2>2 DEF StatsHearsRight
  <2>4. /\ rows' \in [held : SUBSET Content, sought : SUBSET Content, shunned : SUBSET Content]
        /\ rows'.shunned = rows.shunned
        /\ rows'.sought = IF Seekable(c) THEN rows.sought \cup {c} ELSE rows.sought
    BY <1>1, <2>1, <2>3
  <2>5. /\ rows'.sought \cap rows'.shunned = {}
        /\ lists'.seek \subseteq rows'.sought \cup rows'.shunned
        /\ lists' \in [seek : SUBSET Content, shunned : SUBSET Content]
    BY <1>1, <1>4, <2>1, <2>4 DEF Seekable
  <2>6. \A x \in rows'.sought : Of("data.stored", x) # head /\ (x \in rows.sought \/ ~Present(x))
    BY <1>5, <2>2, <2>4 DEF Seekable
  <2> QED  BY <2>2, <2>4, <2>5, <2>6, StatsKeeps
<1>8. CASE StatsOnDataStored(link)
  <2>1. /\ StatsHandles(link, "data.stored")
        /\ rows' = [rows EXCEPT !.held = @ \cup {c}, !.sought = @ \ {c}]
        /\ lists' = IF c \in rows.sought THEN [lists EXCEPT !.seek = rows'.sought] ELSE lists
    BY <1>2, <1>3, <1>8 DEF StatsOnDataStored
  <2>2. StatsHearsRight(head) /\ head.type = "data.stored"
    BY <1>2, <2>1, StatsHears
  <2>3. c \in Content
    BY <1>6, <2>2 DEF StatsHearsRight
  <2>4. /\ rows' \in [held : SUBSET Content, sought : SUBSET Content, shunned : SUBSET Content]
        /\ rows'.shunned = rows.shunned
        /\ rows'.sought = rows.sought \ {c}
    BY <1>1, <2>1, <2>3
  <2>5. /\ rows'.sought \cap rows'.shunned = {}
        /\ lists'.seek \subseteq rows'.sought \cup rows'.shunned
        /\ lists' \in [seek : SUBSET Content, shunned : SUBSET Content]
    <3>1. CASE c \in rows.sought
      <4>1. lists' = [lists EXCEPT !.seek = rows'.sought]
        BY <2>1, <3>1
      <4>2. lists'.seek = rows'.sought /\ lists' \in [seek : SUBSET Content, shunned : SUBSET Content]
        BY <1>1, <2>4, <4>1
      <4> QED  BY <1>4, <2>4, <4>2
    <3>2. CASE c \notin rows.sought
      BY <1>1, <1>4, <2>1, <2>4, <3>2
    <3> QED  BY <3>1, <3>2
  <2>6. \A x \in rows'.sought : Of("data.stored", x) # head /\ (x \in rows.sought \/ ~Present(x))
    BY <1>3, <1>5, <2>4
  <2> QED  BY <2>2, <2>4, <2>5, <2>6, StatsKeeps
<1>9. CASE StatsOnDataDeleted(link)
  <2>1. /\ StatsHandles(link, "data.deleted")
        /\ rows' = [rows EXCEPT !.held = @ \ {c}]
        /\ UNCHANGED lists
    BY <1>2, <1>3, <1>9 DEF StatsOnDataDeleted
  <2>2. StatsHearsRight(head) /\ head.type = "data.deleted"
    BY <1>2, <2>1, StatsHears
  <2>3. /\ rows' \in [held : SUBSET Content, sought : SUBSET Content, shunned : SUBSET Content]
        /\ rows'.shunned = rows.shunned /\ rows'.sought = rows.sought
    BY <1>1, <2>1
  <2>4. \A x \in rows'.sought : Of("data.stored", x) # head /\ (x \in rows.sought \/ ~Present(x))
    BY <1>5, <2>2, <2>3
  <2> QED  BY <1>1, <1>4, <2>1, <2>2, <2>3, <2>4, StatsKeeps
<1>10. CASE StatsOnDataShunned(link)
  <2>1. /\ StatsHandles(link, "data.shunned")
        /\ \/ UNCHANGED <<rows, lists>>
           \/ /\ rows' = [rows EXCEPT !.shunned = @ \cup {c}, !.sought = @ \ {c}]
              /\ lists' = [lists EXCEPT !.shunned = rows'.shunned]
    <3>1. StatsHandles(link, "data.shunned")
          /\ IF c \in rows.shunned THEN UNCHANGED stats
             ELSE /\ rows' = [rows EXCEPT !.shunned = @ \cup {c}, !.sought = @ \ {c}]
                  /\ lists' = [lists EXCEPT !.shunned = rows'.shunned]
      BY <1>2, <1>3, <1>10, Zenon DEF StatsOnDataShunned
    <3> QED  BY <3>1 DEF stats
  <2>2. StatsHearsRight(head) /\ head.type = "data.shunned"
    BY <1>2, <2>1, StatsHears
  <2>3. c \in Content
    BY <1>6, <2>2 DEF StatsHearsRight
  <2>4. /\ rows' \in [held : SUBSET Content, sought : SUBSET Content, shunned : SUBSET Content]
        /\ lists' \in [seek : SUBSET Content, shunned : SUBSET Content]
        /\ rows'.sought \subseteq rows.sought
        /\ rows'.sought \cap rows'.shunned = {}
        /\ lists'.seek \subseteq rows'.sought \cup rows'.shunned
    <3>1. CASE UNCHANGED <<rows, lists>>
      BY <1>1, <1>4, <3>1
    <3>2. CASE /\ rows' = [rows EXCEPT !.shunned = @ \cup {c}, !.sought = @ \ {c}]
               /\ lists' = [lists EXCEPT !.shunned = rows'.shunned]
      <4>1. /\ rows' \in [held : SUBSET Content, sought : SUBSET Content, shunned : SUBSET Content]
            /\ rows'.shunned = rows.shunned \cup {c} /\ rows'.sought = rows.sought \ {c}
        BY <1>1, <2>3, <3>2
      <4>2. lists' \in [seek : SUBSET Content, shunned : SUBSET Content] /\ lists'.seek = lists.seek
        BY <1>1, <3>2, <4>1
      <4> QED  BY <1>4, <4>1, <4>2
    <3> QED  BY <2>1, <3>1, <3>2
  <2>5. \A x \in rows'.sought : Of("data.stored", x) # head /\ (x \in rows.sought \/ ~Present(x))
    BY <1>5, <2>2, <2>4
  <2> QED  BY <2>2, <2>4, <2>5, StatsKeeps
<1> QED  BY <1>7, <1>8, <1>9, <1>10

(* What stats does of itself. *)
LEMMA StatsWorksKeeps ==
  ASSUME ContentInv, StatsRanks \/ StatsDerives
  PROVE  ContentInv'
<1> USE DEF ContentInv
<1>1. UNCHANGED <<store, incoming, links, upload, request, outcomes, check, resolved, saved, unusable,
                  waiting, lost>>
  BY Zenon DEF StatsRanks, StatsDerives, web, unbundler, history
<1>2. /\ rows \in [held : SUBSET Content, sought : SUBSET Content, shunned : SUBSET Content]
      /\ lists \in [seek : SUBSET Content, shunned : SUBSET Content]
  BY DEF ContentTypeOK
<1>3. rows.sought \cap rows.shunned = {} /\ lists.seek \subseteq rows.sought \cup rows.shunned
  BY DEF SoughtInv
<1>4. /\ rows' \in [held : SUBSET Content, sought : SUBSET Content, shunned : SUBSET Content]
      /\ lists' \in [seek : SUBSET Content, shunned : SUBSET Content]
      /\ rows'.sought \subseteq rows.sought /\ rows'.shunned = rows.shunned
      /\ lists'.seek \subseteq rows'.sought \cup rows'.shunned
  <2>1. CASE StatsRanks
    <3>1. rows' = [rows EXCEPT !.held = @ \cap Held] /\ UNCHANGED lists
      BY <2>1, Zenon DEF StatsRanks
    <3> QED  BY <1>2, <1>3, <3>1
  <2>2. CASE StatsDerives
    <3>1. /\ \E old \in SUBSET rows.sought : rows' = [rows EXCEPT !.sought = @ \ old]
          /\ lists' = [seek |-> rows'.sought, shunned |-> rows.shunned]
      BY <2>2, Zenon DEF StatsDerives
    <3>2. PICK old \in SUBSET rows.sought : rows' = [rows EXCEPT !.sought = @ \ old]
      BY <3>1
    <3>3. /\ rows' \in [held : SUBSET Content, sought : SUBSET Content, shunned : SUBSET Content]
          /\ rows'.sought = rows.sought \ old /\ rows'.shunned = rows.shunned
      BY <1>2, <3>2
    <3>4. lists'.seek = rows'.sought /\ lists' \in [seek : SUBSET Content, shunned : SUBSET Content]
      BY <1>2, <3>1, <3>3
    <3> QED  BY <3>3, <3>4
  <2> QED  BY <2>1, <2>2
<1>5. \A to : \A m : Stays(to, m)
  BY <1>1, NothingSent
<1>6. ContentTypeOK'
  BY <1>1, <1>4 DEF ContentTypeOK
<1>7. VerifiedInv'
  BY <1>1 DEF VerifiedInv, OnlyVerified
<1>8. StuckInv'
  BY <1>1, <1>5, StuckKept
<1>9. NewsKept("stats") /\ NewsKept("unbundler")
  BY <1>1, <1>5, Unstored, NewsIsKept
<1>10. SoughtInv'
  <2>1. \A c \in rows.sought : (Present(c) => News(c, "stats"))'
    BY <1>2, <1>9 DEF NewsKept, SoughtInv
  <2> QED  BY <1>3, <1>4, <2>1 DEF SoughtInv
<1>11. WaitInv'
  BY <1>1, <1>9, WaitKept
<1>12. RequestsWoken'
  BY <1>1, <1>5, WokenKept
<1> QED  BY <1>6, <1>7, <1>8, <1>10, <1>11, <1>12

-----------------------------------------------------------------------------
(* The unbundler. *)

LEMMA LacksMissing ==
  ASSUME NEW p \in Paths
  PROVE  Lacks(p) \subseteq Content /\ \A c \in Lacks(p) : ~Present(c)
<1>1. PICK b \in Content : b = BundleOf[p]
  BY ContentAssumption
<1>2. ExtensionsOf[b] \subseteq Content
  BY ContentAssumption
<1>3. Missing(b) \subseteq Content /\ \A c \in Missing(b) : ~Present(c)
  <2>1. CASE Present(b)
    <3>1. Missing(b) = ExtensionsOf[b] \ Held
      BY <2>1 DEF Missing
    <3> QED  BY <1>2, <3>1 DEF Held
  <2>2. CASE ~Present(b)
    <3>1. Missing(b) = {b}
      BY <2>2 DEF Missing
    <3> QED  BY <2>2, <3>1
  <2> QED  BY <2>1, <2>2
<1>4. Lacks(p) = {} \/ Lacks(p) = Missing(b)
  BY <1>1 DEF Lacks
<1> QED  BY <1>3, <1>4

LEMMA OneOrOther ==
  ASSUME NEW p
  PROVE  PathResolved(p, p \in resolved') \in {PathResolved(p, TRUE), PathResolved(p, FALSE)}
<1>1. CASE p \in resolved'
  <2>1. (p \in resolved') = TRUE
    BY <1>1, SMT
  <2>2. PathResolved(p, p \in resolved') = PathResolved(p, TRUE)
    BY <2>1, Zenon
  <2> QED  BY <2>2, Zenon
<1>2. CASE p \notin resolved'
  <2>1. (p \in resolved') = FALSE
    BY <1>2, SMT
  <2>2. PathResolved(p, p \in resolved') = PathResolved(p, FALSE)
    BY <2>1, Zenon
  <2> QED  BY <2>2, Zenon
<1> QED  BY <1>1, <1>2

LEMMA ReportsAreFinite ==
  ASSUME NEW P \in SUBSET Paths
  PROVE  Reports(P) \subseteq Messages /\ IsFiniteSet(Reports(P))
<1>1. PICK asks : asks = {Of("data.not_found", c) : c \in Content}
  OBVIOUS
<1>2. PICK saved_ : saved_ = {PathResolved(p, TRUE) : p \in Paths}
  OBVIOUS
<1>3. PICK unsaved : unsaved = {PathResolved(p, FALSE) : p \in Paths}
  OBVIOUS
<1>4. IsFiniteSet(asks)
  <2>1. PICK f \in [Content -> asks] : f = [c \in Content |-> Of("data.not_found", c)]
    BY <1>1
  <2>2. f \in Surjection(Content, asks)
    BY <1>1, <2>1 DEF Surjection
  <2> QED  BY <2>2, FS_Surjection, ContentAssumption
<1>5. IsFiniteSet(saved_)
  <2>1. PICK f \in [Paths -> saved_] : f = [p \in Paths |-> PathResolved(p, TRUE)]
    BY <1>2
  <2>2. f \in Surjection(Paths, saved_)
    BY <1>2, <2>1 DEF Surjection
  <2> QED  BY <2>2, FS_Surjection, ContentAssumption
<1>6. IsFiniteSet(unsaved)
  <2>1. PICK f \in [Paths -> unsaved] : f = [p \in Paths |-> PathResolved(p, FALSE)]
    BY <1>3
  <2>2. f \in Surjection(Paths, unsaved)
    BY <1>3, <2>1 DEF Surjection
  <2> QED  BY <2>2, FS_Surjection, ContentAssumption
<1>7. IsFiniteSet(saved_ \cup unsaved)
  BY <1>5, <1>6, FS_Union
<1>8. IsFiniteSet(asks \cup (saved_ \cup unsaved))
  BY <1>4, <1>7, FS_Union
<1>9. Reports(P) \subseteq asks \cup (saved_ \cup unsaved)
  <2> SUFFICES ASSUME NEW m \in Reports(P)
               PROVE  m \in asks \cup (saved_ \cup unsaved)
    OBVIOUS
  <2>1. \/ \E p \in P \ resolved : m \in {Of("data.not_found", c) : c \in Lacks(p)}
        \/ \E p \in P \ resolved : m = PathResolved(p, p \in resolved')
    <3>1. \/ m \in UNION {{Of("data.not_found", c) : c \in Lacks(p)} : p \in P \ resolved}
          \/ m \in {PathResolved(p, p \in resolved') : p \in {q \in P \ resolved : Lacks(q) = {}}}
      BY Zenon DEF Reports
    <3>2. CASE m \in UNION {{Of("data.not_found", c) : c \in Lacks(p)} : p \in P \ resolved}
      BY <3>2
    <3>3. CASE m \in {PathResolved(p, p \in resolved') : p \in {q \in P \ resolved : Lacks(q) = {}}}
      BY <3>3, Zenon
    <3> QED  BY <3>1, <3>2, <3>3
  <2>2. CASE \E p \in P \ resolved : m \in {Of("data.not_found", c) : c \in Lacks(p)}
    <3>1. PICK p \in P \ resolved : m \in {Of("data.not_found", c) : c \in Lacks(p)}
      BY <2>2
    <3>2. Lacks(p) \subseteq Content
      BY <3>1, LacksMissing
    <3> QED  BY <1>1, <3>1, <3>2
  <2>3. CASE \E p \in P \ resolved : m = PathResolved(p, p \in resolved')
    <3>1. PICK p \in P \ resolved : m = PathResolved(p, p \in resolved')
      BY <2>3
    <3>2. PathResolved(p, p \in resolved') \in {PathResolved(p, TRUE), PathResolved(p, FALSE)}
      BY OneOrOther
    <3> QED  BY <1>2, <1>3, <3>1, <3>2
  <2> QED  BY <2>1, <2>2, <2>3
<1>10. asks \cup (saved_ \cup unsaved) \subseteq Messages
  BY <1>1, <1>2, <1>3, MessagesAre
<1>11. IsFiniteSet(Reports(P))
  BY <1>8, <1>9, FS_Subset
<1> QED  BY <1>9, <1>10, <1>11

(* A path waits on nothing held when it begins to, and each path resolved  *)
(* is reported.                                                            *)
LEMMA Resolving ==
  ASSUME NEW P \in SUBSET Paths, NEW left \in [Paths -> SUBSET Content], Resolves(P, left)
  PROVE  /\ waiting' \in [Paths -> SUBSET Content]
         /\ \A p \in Paths : \A c \in waiting'[p] : c \in left[p] \/ ~Present(c)
         /\ \A p \in resolved' : p \in resolved \/
               \E stored \in BOOLEAN : PathResolved(p, stored) \in Reports(P)
<1>1. waiting' = [p \in Paths |-> IF p \in P \ resolved /\ Lacks(p) # {} THEN Lacks(p) ELSE left[p]]
  BY Zenon DEF Resolves
<1>2. resolved' = resolved \cup {p \in (P \ resolved) \cap Found :
                                    Lacks(p) = {} /\ BundleOf[p] \notin unusable'}
  BY Zenon DEF Resolves
<1>3. \A p \in Paths : Lacks(p) \subseteq Content /\ \A c \in Lacks(p) : ~Present(c)
  BY LacksMissing
<1>4. waiting' \in [Paths -> SUBSET Content]
  BY <1>1, <1>3
<1>5. \A p \in Paths : waiting'[p] = left[p] \/ waiting'[p] = Lacks(p)
  BY <1>1
<1>6. \A p \in Paths : \A c \in waiting'[p] : c \in left[p] \/ ~Present(c)
  BY <1>3, <1>5
<1>7. ASSUME NEW p \in resolved', p \notin resolved
      PROVE  \E stored \in BOOLEAN : PathResolved(p, stored) \in Reports(P)
  <2>1. p \in P \ resolved /\ Lacks(p) = {}
    BY <1>2, <1>7
  <2>2. PathResolved(p, p \in resolved') \in Reports(P)
    BY <2>1, Zenon DEF Reports
  <2>3. PathResolved(p, p \in resolved') \in {PathResolved(p, TRUE), PathResolved(p, FALSE)}
    BY OneOrOther
  <2> QED  BY <2>2, <2>3
<1> QED  BY <1>4, <1>6, <1>7

LEMMA UnbundlerHears ==
  ASSUME ContentInv, NEW link \in LinksTo("unbundler"), links[link] # <<>>,
         NEW P \in SUBSET Paths, NEW left \in [Paths -> SUBSET Content],
         Resolves(P, left), Handled(link, Reports(P)),
         UNCHANGED <<store, incoming, upload, request, outcomes, check, rows, lists, lost>>,
         \A p \in Paths : \A c \in left[p] :
            c \in waiting[p] /\ Of("data.stored", c) # Head(links[link])
  PROVE  ContentInv'
<1> USE DEF ContentInv
<1>1. link \in Links /\ link[2] = "unbundler"
  BY DEF LinksTo
<1>2. PICK messages \in SUBSET Messages : messages = Reports(P) /\ IsFiniteSet(messages)
  BY ReportsAreFinite
<1>3. Handled(link, messages)
  BY <1>2
<1>4. /\ links' \in [Links -> Seq(Messages)]
      /\ \A to : \A m : to # link[2] \/ m # Head(links[link]) => Stays(to, m)
      /\ Told(link[2], messages)
  BY <1>1, <1>2, <1>3, Handling
<1>5. \A to \in {"validator", "stats", "web"} : \A m : Stays(to, m)
  <2>1. ASSUME NEW to \in {"validator", "stats", "web"}, NEW m
        PROVE  Stays(to, m)
    <3>1. to # link[2]
      BY <1>1
    <3> QED  BY <1>4, <3>1
  <2> QED  BY <2>1
<1>6. \A m : m # Head(links[link]) => Stays("unbundler", m)
  BY <1>4
<1>7. /\ waiting' \in [Paths -> SUBSET Content]
      /\ \A p \in Paths : \A c \in waiting'[p] : c \in left[p] \/ ~Present(c)
      /\ \A p \in resolved' : p \in resolved \/
            \E stored \in BOOLEAN : PathResolved(p, stored) \in messages
  BY <1>2, Resolving
<1>8. ContentTypeOK'
  BY <1>4, <1>7 DEF ContentTypeOK
<1>9. VerifiedInv'
  BY DEF VerifiedInv, OnlyVerified
<1>10. StuckInv'
  BY <1>5, StuckKept
<1>11. NewsKept("stats")
  BY <1>5, Unstored, NewsIsKept
<1>12. SoughtInv'
  BY <1>11, SoughtKept
<1>13. WaitInv'
  <2> SUFFICES ASSUME NEW p \in Paths, NEW c \in waiting'[p], Present(c)'
               PROVE  News(c, "unbundler")'
    BY DEF WaitInv
  <2>1. Present(c)
    BY DEF Present
  <2>2. c \in left[p]
    BY <1>7, <2>1
  <2>3. News(c, "unbundler") /\ Stays("unbundler", Of("data.stored", c))
    BY <1>6, <2>1, <2>2 DEF WaitInv
  <2> QED  BY <2>3 DEF News, Stays
<1>14. RequestsWoken'
  <2> SUFFICES ASSUME NEW r \in Requests, request'[r] = "waiting", Answered(PathOf[r])'
               PROVE  \E stored \in BOOLEAN :
                         \/ OnWay("web", PathResolved(PathOf[r], stored))'
                         \/ PathResolved(PathOf[r], stored) \in lost'
    BY DEF RequestsWoken
  <2>1. PICK p \in Paths : p = PathOf[r]
    BY ContentAssumption
  <2>2. CASE p \in resolved \/ p \in outcomes
    <3>1. request[r] = "waiting" /\ Answered(PathOf[r])
      BY <2>1, <2>2 DEF Answered
    <3>2. PICK stored \in BOOLEAN : \/ OnWay("web", PathResolved(PathOf[r], stored))
                                    \/ PathResolved(PathOf[r], stored) \in lost
      BY <3>1 DEF RequestsWoken
    <3> QED  BY <1>5, <3>2 DEF Stays
  <2>3. CASE ~(p \in resolved \/ p \in outcomes)
    <3>1. p \in resolved'
      BY <2>1, <2>3 DEF Answered
    <3>2. PICK stored \in BOOLEAN : PathResolved(p, stored) \in messages
      BY <1>7, <2>3, <3>1
    <3>3. Subscribers[PathResolved(p, stored).type] = {"web"}
      BY TypesAre, Subscribing
    <3>4. \A other \in Links : other[1] = "unbundler" /\ other[2] = "web" =>
             OnWay(other[2], PathResolved(p, stored))'
      BY <1>1, <1>4, <3>2, <3>3 DEF Told
    <3>5. OnWay("web", PathResolved(p, stored))'
      BY <3>4, LinksAre
    <3> QED  BY <2>1, <3>5
  <2> QED  BY <2>2, <2>3
<1> QED  BY <1>8, <1>9, <1>10, <1>12, <1>13, <1>14

LEMMA PathNotFoundKeeps ==
  ASSUME ContentInv, NEW link \in LinksTo("unbundler"), UnbundlerOnPathNotFound(link)
  PROVE  ContentInv'
<1> USE DEF ContentInv
<1>1. link \in Links
  BY DEF LinksTo
<1>2. /\ links[link] # <<>> /\ Head(links[link]).type = "app.path_not_found"
      /\ UNCHANGED <<store, incoming, upload, request, outcomes, check, rows, lists, lost>>
  BY Zenon DEF UnbundlerOnPathNotFound, Arrives, web, stats, history
<1>3. PICK P : P = {Head(links[link]).path}
  OBVIOUS
<1>4. Resolves(P, waiting) /\ Handled(link, Reports(P))
  BY <1>3, Zenon DEF UnbundlerOnPathNotFound
<1>5. PICK m \in Messages : m = Head(links[link])
  BY <1>1, <1>2, ElementIsMessage
<1>6. m.path \in Paths
  BY <1>2, <1>5 DEF Messages, Of, PutCompleted, OfPath, PathResolved
<1>7. P \subseteq Paths
  BY <1>3, <1>5, <1>6
<1>8. PICK left \in [Paths -> SUBSET Content] : left = waiting
  BY DEF ContentTypeOK
<1>9. \A c : Of("data.stored", c) # Head(links[link])
  BY <1>2, TypesAre
<1> QED  BY <1>2, <1>4, <1>7, <1>8, <1>9, UnbundlerHears

LEMMA DataStoredKeeps ==
  ASSUME ContentInv, NEW link \in LinksTo("unbundler"), UnbundlerOnDataStored(link)
  PROVE  ContentInv'
<1> USE DEF ContentInv
<1>1. link \in Links
  BY DEF LinksTo
<1>2. /\ links[link] # <<>> /\ Head(links[link]).type = "data.stored"
      /\ UNCHANGED <<store, incoming, upload, request, outcomes, check, rows, lists, lost>>
  BY Zenon DEF UnbundlerOnDataStored, Arrives, web, stats, history
<1>3. PICK x : x = Head(links[link]).content
  OBVIOUS
<1>4. PICK P \in SUBSET Paths : P = {p \in Paths : x \in waiting[p]}
  OBVIOUS
<1>5. PICK left : left = [p \in Paths |-> IF p \in P THEN {} ELSE waiting[p]]
  OBVIOUS
<1>6. Resolves(P, left) /\ Handled(link, Reports(P))
  BY <1>3, <1>4, <1>5, Zenon DEF UnbundlerOnDataStored
<1>7. left \in [Paths -> SUBSET Content]
  BY <1>5 DEF ContentTypeOK
<1>8. \A p \in Paths : \A c \in left[p] : c \in waiting[p] /\ Of("data.stored", c) # Head(links[link])
  <2> SUFFICES ASSUME NEW p \in Paths, NEW c \in left[p]
               PROVE  c \in waiting[p] /\ Of("data.stored", c) # Head(links[link])
    OBVIOUS
  <2>1. p \notin P /\ c \in waiting[p]
    BY <1>5
  <2>2. c # x
    BY <1>4, <2>1
  <2> QED  BY <1>3, <2>1, <2>2, TypesAre
<1> QED  BY <1>2, <1>6, <1>7, <1>8, UnbundlerHears

(* A path stops waiting, or what was resolved is deleted. *)
LEMMA UnbundlerForgetsKeeps ==
  ASSUME ContentInv, (\E p \in Paths : StopsWaiting(p)) \/ (\E b \in Content : UnbundlerReclaims(b))
  PROVE  ContentInv'
<1> USE DEF ContentInv
<1>1. UNCHANGED <<store, incoming, links, upload, request, outcomes, check, rows, lists, lost>>
  BY Zenon DEF StopsWaiting, UnbundlerReclaims, web, stats, history
<1>2. waiting' \in [Paths -> SUBSET Content] /\ \A p \in Paths : waiting'[p] \subseteq waiting[p]
  BY DEF StopsWaiting, UnbundlerReclaims, ContentTypeOK
<1>3. resolved' \subseteq resolved
  BY DEF StopsWaiting, UnbundlerReclaims
<1>4. \A to : \A m : Stays(to, m)
  BY <1>1, NothingSent
<1>5. ContentTypeOK'
  BY <1>1, <1>2 DEF ContentTypeOK
<1>6. VerifiedInv'
  BY <1>1 DEF VerifiedInv, OnlyVerified
<1>7. StuckInv'
  BY <1>1, <1>4, StuckKept
<1>8. NewsKept("stats") /\ NewsKept("unbundler")
  BY <1>1, <1>4, Unstored, NewsIsKept
<1>9. SoughtInv'
  BY <1>1, <1>8, SoughtKept
<1>10. WaitInv'
  <2>1. \A p \in Paths : \A c \in waiting'[p] : c \in Content /\ c \in waiting[p]
    BY <1>2
  <2>2. \A p \in Paths : \A c \in waiting'[p] : (Present(c) => News(c, "unbundler"))'
    BY <1>8, <2>1 DEF NewsKept, WaitInv
  <2> QED  BY <2>2 DEF WaitInv
<1>11. RequestsWoken'
  <2> SUFFICES ASSUME NEW r \in Requests, request'[r] = "waiting", Answered(PathOf[r])'
               PROVE  \E stored \in BOOLEAN :
                         \/ OnWay("web", PathResolved(PathOf[r], stored))'
                         \/ PathResolved(PathOf[r], stored) \in lost'
    BY DEF RequestsWoken
  <2>1. request[r] = "waiting" /\ Answered(PathOf[r])
    BY <1>1, <1>3 DEF Answered
  <2>2. PICK stored \in BOOLEAN : \/ OnWay("web", PathResolved(PathOf[r], stored))
                                  \/ PathResolved(PathOf[r], stored) \in lost
    BY <2>1 DEF RequestsWoken
  <2> QED  BY <1>1, <1>4, <2>2 DEF Stays
<1> QED  BY <1>5, <1>6, <1>7, <1>9, <1>10, <1>11

-----------------------------------------------------------------------------
(* The web server's requests, and crashes. *)

LEMMA RequestWaitsKeeps ==
  ASSUME ContentInv, NEW r \in Requests, RequestWaits(r)
  PROVE  ContentInv'
<1> USE DEF ContentInv
<1>1. /\ request' = [request EXCEPT ![r] = IF Answered(PathOf[r]) THEN "looking" ELSE "waiting"]
      /\ UNCHANGED <<store, incoming, links, upload, outcomes, check, rows, lists, resolved, saved,
                     unusable, waiting, lost>>
  BY Zenon DEF RequestWaits, stats, unbundler, history
<1>2. request \in [Requests -> {"resting", "looking", "asked", "waiting"}]
  BY DEF ContentTypeOK
<1>3. request' \in [Requests -> {"resting", "looking", "asked", "waiting"}]
      /\ \A q \in Requests : request'[q] = "waiting" => request[q] = "waiting" \/ ~Answered(PathOf[q])
  BY <1>1, <1>2
<1>4. \A to : \A m : Stays(to, m)
  BY <1>1, NothingSent
<1>5. ContentTypeOK'
  BY <1>1, <1>3 DEF ContentTypeOK
<1>6. VerifiedInv' /\ StuckInv'
  BY <1>1, <1>4, StuckKept DEF VerifiedInv, OnlyVerified
<1>7. NewsKept("stats") /\ NewsKept("unbundler")
  BY <1>1, <1>4, Unstored, NewsIsKept
<1>8. SoughtInv' /\ WaitInv'
  BY <1>1, <1>7, SoughtKept, WaitKept
<1>9. RequestsWoken'
  <2> SUFFICES ASSUME NEW q \in Requests, request'[q] = "waiting", Answered(PathOf[q])'
               PROVE  \E stored \in BOOLEAN :
                         \/ OnWay("web", PathResolved(PathOf[q], stored))'
                         \/ PathResolved(PathOf[q], stored) \in lost'
    BY DEF RequestsWoken
  <2>1. request[q] = "waiting" /\ Answered(PathOf[q])
    BY <1>1, <1>3 DEF Answered
  <2>2. PICK stored \in BOOLEAN : \/ OnWay("web", PathResolved(PathOf[q], stored))
                                  \/ PathResolved(PathOf[q], stored) \in lost
    BY <2>1 DEF RequestsWoken
  <2> QED  BY <1>1, <1>4, <2>2 DEF Stays
<1> QED  BY <1>5, <1>6, <1>8, <1>9

LEMMA PathResolvedKeeps ==
  ASSUME ContentInv, NEW link \in LinksTo("web"), WebOnPathResolved(link)
  PROVE  ContentInv'
<1> USE DEF ContentInv
<1>1. link \in Links /\ link[2] = "web"
  BY DEF LinksTo
<1>2. /\ links[link] # <<>> /\ Handled(link, {})
      /\ request' = [r \in Requests |-> IF request[r] = "waiting" THEN "asked" ELSE request[r]]
      /\ UNCHANGED <<store, incoming, upload, check, rows, lists, resolved, saved, unusable, waiting,
                     lost>>
  BY Zenon DEF WebOnPathResolved, Arrives, stats, unbundler, history
<1>3. request' \in [Requests -> {"resting", "looking", "asked", "waiting"}]
      /\ \A r \in Requests : request'[r] # "waiting"
  BY <1>2 DEF ContentTypeOK
<1>4. /\ links' \in [Links -> Seq(Messages)]
      /\ \A to : \A m : to # link[2] \/ m # Head(links[link]) => Stays(to, m)
  BY <1>1, <1>2, HandlingAlone
<1>5. \A to \in {"validator", "stats", "unbundler"} : \A m : Stays(to, m)
  <2>1. ASSUME NEW to \in {"validator", "stats", "unbundler"}, NEW m
        PROVE  Stays(to, m)
    <3>1. to # link[2]
      BY <1>1
    <3> QED  BY <1>4, <3>1
  <2> QED  BY <2>1
<1>6. ContentTypeOK'
  BY <1>2, <1>3, <1>4 DEF ContentTypeOK
<1>7. VerifiedInv' /\ StuckInv'
  BY <1>2, <1>5, StuckKept DEF VerifiedInv, OnlyVerified
<1>8. NewsKept("stats") /\ NewsKept("unbundler")
  BY <1>2, <1>5, Unstored, NewsIsKept
<1>9. SoughtInv' /\ WaitInv'
  BY <1>2, <1>8, SoughtKept, WaitKept
<1>10. RequestsWoken'
  BY <1>3 DEF RequestsWoken
<1> QED  BY <1>6, <1>7, <1>9, <1>10

LEMMA CheckCrashesKeeps ==
  ASSUME ContentInv, CheckCrashes
  PROVE  ContentInv'
<1> USE DEF ContentInv
<1>1. /\ check # Resting /\ check' = Resting
      /\ lost' = lost \cup ({PutCompleted(check.node, check.content)}
              \cup IF check.phase = "stored" THEN {Of("data.stored", check.content)} ELSE {})
      /\ UNCHANGED <<store, incoming, links, upload, request, outcomes, rows, lists, resolved, saved,
                     unusable, waiting>>
  BY Zenon DEF CheckCrashes, Losing, web, stats, unbundler
<1>2. /\ PutCompleted(check.node, check.content) \in lost'
      /\ check.phase = "stored" => Of("data.stored", check.content) \in lost'
      /\ lost \subseteq lost'
  BY <1>1
<1>3. \A to : \A m : Stays(to, m)
  BY <1>1, NothingSent
<1>4. check'.phase = "resting"
  BY <1>1 DEF Resting
<1>5. ContentTypeOK'
  BY <1>1 DEF ContentTypeOK, Doing
<1>6. VerifiedInv'
  BY <1>1, <1>4 DEF VerifiedInv, OnlyVerified
<1>7. StuckInv'
  BY <1>1, <1>2, <1>3 DEF StuckInv, Dealing, Stays, IsPublicKey
<1>8. ASSUME NEW module
      PROVE  NewsKept(module)
  BY <1>1, <1>2, <1>3 DEF NewsKept, News, Stays, Present
<1>9. SoughtInv' /\ WaitInv'
  BY <1>1, <1>8, SoughtKept, WaitKept
<1>10. RequestsWoken'
  BY <1>1, <1>2, <1>3, WokenKept
<1> QED  BY <1>5, <1>6, <1>7, <1>9, <1>10

LEMMA WebCrashesKeeps ==
  ASSUME ContentInv, WebCrashes
  PROVE  ContentInv'
<1> USE DEF ContentInv
<1>1. /\ upload' = Resting /\ request' = [r \in Requests |-> "resting"]
      /\ lost' = lost \cup (IF upload.phase # "written" THEN {}
              ELSE {Of("data.stored", upload.content), PutCompleted(upload.node, upload.content)})
      /\ UNCHANGED <<store, incoming, links, check, rows, lists, resolved, saved, unusable, waiting>>
  BY Zenon DEF WebCrashes, Losing, stats, unbundler
<1>2. /\ upload.phase = "written" =>
            /\ PutCompleted(upload.node, upload.content) \in lost'
            /\ Of("data.stored", upload.content) \in lost'
      /\ lost \subseteq lost'
  BY <1>1
<1>3. \A to : \A m : Stays(to, m)
  BY <1>1, NothingSent
<1>4. ContentTypeOK'
  BY <1>1 DEF ContentTypeOK, Doing
<1>5. VerifiedInv'
  BY <1>1 DEF VerifiedInv, OnlyVerified
<1>6. StuckInv'
  BY <1>1, <1>2, <1>3 DEF StuckInv, Dealing, Stays
<1>7. ASSUME NEW module
      PROVE  NewsKept(module)
  BY <1>1, <1>2, <1>3 DEF NewsKept, News, Stays, Present
<1>8. SoughtInv' /\ WaitInv'
  BY <1>1, <1>7, SoughtKept, WaitKept
<1>9. RequestsWoken'
  BY <1>1 DEF RequestsWoken
<1> QED  BY <1>4, <1>5, <1>6, <1>8, <1>9

LEMMA UnbundlerCrashesKeeps ==
  ASSUME ContentInv, UnbundlerCrashes
  PROVE  ContentInv'
<1> USE DEF ContentInv
<1>1. /\ waiting' = [p \in Paths |-> {}]
      /\ UNCHANGED <<store, incoming, links, upload, request, outcomes, check, rows, lists, resolved,
                     lost>>
  BY Zenon DEF UnbundlerCrashes, web, stats
<1>2. \A to : \A m : Stays(to, m)
  BY <1>1, NothingSent
<1>3. ContentTypeOK'
  BY <1>1 DEF ContentTypeOK
<1>4. VerifiedInv' /\ StuckInv'
  BY <1>1, <1>2, StuckKept DEF VerifiedInv, OnlyVerified
<1>5. NewsKept("stats")
  BY <1>1, <1>2, Unstored, NewsIsKept
<1>6. SoughtInv'
  BY <1>1, <1>5, SoughtKept
<1>7. WaitInv'
  BY <1>1 DEF WaitInv
<1>8. RequestsWoken'
  BY <1>1, <1>2, WokenKept
<1> QED  BY <1>3, <1>4, <1>6, <1>7, <1>8

-----------------------------------------------------------------------------
(* The invariant holds at first, and every step keeps it. *)

LEMMA ContentInitially ==
  ASSUME Init
  PROVE  ContentInv
<1>1. /\ store \in [Content -> {Absent, "right"}]
      /\ incoming = [n \in Nodes |-> [c \in Content |-> Absent]]
      /\ links = [link \in Links |-> <<>>]
      /\ upload = Resting /\ check = Resting
      /\ rows = [held |-> Held, sought |-> {}, shunned |-> {}]
      /\ lists = [seek |-> {}, shunned |-> {}]
      /\ waiting = [p \in Paths |-> {}]
      /\ request = [r \in Requests |-> "resting"]
  BY Zenon DEF Init
<1>2. ContentTypeOK
  <2>1. links \in [Links -> Seq(Messages)]
    BY <1>1
  <2>2. store \in [Content -> Data \cup {Absent}]
    BY <1>1 DEF Data
  <2>3. Held \subseteq Content
    BY DEF Held
  <2>4. rows \in [held : SUBSET Content, sought : SUBSET Content, shunned : SUBSET Content]
    BY <1>1, <2>3
  <2>5. incoming \in [Nodes -> [Content -> Data \cup {Absent}]]
    BY <1>1
  <2> QED  BY <1>1, <2>1, <2>2, <2>4, <2>5 DEF ContentTypeOK, Doing
<1>3. VerifiedInv
  BY <1>1 DEF VerifiedInv, OnlyVerified, Resting, Absent
<1>4. StuckInv
  BY <1>1 DEF StuckInv
<1>5. SoughtInv
  BY <1>1 DEF SoughtInv
<1>6. WaitInv
  BY <1>1 DEF WaitInv
<1>7. RequestsWoken
  BY <1>1 DEF RequestsWoken
<1> QED  BY <1>2, <1>3, <1>4, <1>5, <1>6, <1>7 DEF ContentInv

LEMMA ContentStep ==
  ASSUME ContentInv, [Next]_vars
  PROVE  ContentInv'
<1>1. CASE Web
  BY <1>1, GetMissesKeeps, ShunsKeeps, UploadStartsKeeps, UploadWritesKeeps, UploadReportsKeeps,
     RequestStartsOrEndsKeeps, RequestAsksKeeps, RequestWaitsKeeps, PathResolvedKeeps DEF Web
<1>2. CASE Peers
  BY <1>2, PeerSendsKeeps DEF Peers
<1>3. CASE Validator
  BY <1>3, CheckReadsKeeps, CheckDecidesKeeps, CheckStoresKeeps, CheckAnnouncesKeeps,
     CheckEndsKeeps DEF Validator
<1>4. CASE Stats
  BY <1>4, StatsHandlersKeep, StatsWorksKeeps DEF Stats
<1>5. CASE Eviction
  BY <1>5, LetsGoKeeps, EvictionHearsKeeps DEF Eviction
<1>6. CASE Unbundler
  BY <1>6, PathNotFoundKeeps, DataStoredKeeps, UnbundlerForgetsKeeps DEF Unbundler
<1>7. CASE Failures
  BY <1>7, CheckCrashesKeeps, WebCrashesKeeps, UnbundlerCrashesKeeps, LossKeeps DEF Failures
<1>8. CASE UNCHANGED vars
  <2>1. UNCHANGED <<store, incoming, links, upload, request, outcomes, check, rows, lists, resolved,
                    waiting, lost>>
    BY <1>8 DEF vars, web, stats, unbundler, history
  <2>2. \A to : \A m : Stays(to, m)
    BY <2>1, NothingSent
  <2>3. ContentTypeOK'
    BY <2>1 DEF ContentInv, ContentTypeOK
  <2> QED  BY <2>1, <2>2, <2>3, Unstored, Undisturbed
<1> QED  BY <1>1, <1>2, <1>3, <1>4, <1>5, <1>6, <1>7, <1>8 DEF Next

(* The invariant the four theorems follow from.                            *)
THEOREM ContentHolds == Spec => []ContentInv
<1>1. Init => ContentInv
  BY ContentInitially
<1>2. ContentInv /\ [Next]_vars => ContentInv'
  BY ContentStep
<1> QED  BY <1>1, <1>2, PTL DEF Spec

(* Nothing is under a content id in the source of truth but that content,  *)
(* though the upload the validator read may be replaced as it verifies it  *)
(* (_on_put_completed stores the bytes it verified).                       *)
THEOREM ContentOnlyVerified == Spec => []OnlyVerified
<1>1. ContentInv => OnlyVerified
  BY DEF ContentInv, VerifiedInv
<1> QED  BY <1>1, ContentHolds, PTL

(* No upload stays in the incoming store for good, unless the message that *)
(* announces it is lost or the validator crashes with it: any other is     *)
(* being written, being dealt with, or announced and not heard of yet.     *)
THEOREM ContentNoUploadStuck == Spec => []NoUploadStuck
<1>1. ContentInv => NoUploadStuck
  BY DEF ContentInv, StuckInv, NoUploadStuck, Dealing
<1> QED  BY <1>1, ContentHolds, PTL

(* The stats module seeks nothing shunned, and nothing held but what it    *)
(* has still to hear is stored; nor does the seek list its peers read.     *)
THEOREM ContentSoughtIsMissing == Spec => []SoughtIsMissing
<1>1. ASSUME ContentInv
      PROVE  SoughtIsMissing
  <2>1. \A c \in (rows.sought \cup lists.seek) \ rows.shunned : c \in rows.sought
    BY <1>1 DEF ContentInv, SoughtInv
  <2>2. \A c \in Content : News(c, "stats") => NewsOf(c, "stats")
    BY DEF News, NewsOf
  <2>3. rows.sought \subseteq Content
    BY <1>1 DEF ContentInv, ContentTypeOK
  <2> QED  BY <1>1, <2>1, <2>2, <2>3 DEF ContentInv, SoughtInv, SoughtIsMissing
<1> QED  BY <1>1, ContentHolds, PTL

(* Neither a path waiting on content nor a request waiting on its path     *)
(* sleeps on past what it waits for: the unbundler has the news before it, *)
(* or the web server the answer, unless it was lost.                       *)
THEOREM ContentNoneSleepsOn == Spec => []NoneSleepsOn
<1>1. ASSUME ContentInv
      PROVE  NoneSleepsOn
  <2>1. \A c : News(c, "unbundler") => NewsOf(c, "unbundler")
    BY DEF News, NewsOf
  <2>2. WaitersWoken
    BY <1>1, <2>1 DEF ContentInv, WaitInv, WaitersWoken
  <2>3. RequestsWoken
    BY <1>1 DEF ContentInv
  <2> QED  BY <2>2, <2>3 DEF NoneSleepsOn
<1> QED  BY <1>1, ContentHolds, PTL

==============================================================================
