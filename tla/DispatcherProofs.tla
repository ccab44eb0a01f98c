--------------------------- MODULE DispatcherProofs ---------------------------
(* The dispatcher is a bus, for any modules, events and subscriptions, and   *)
(* the bus delivers in order; and the backup process, which takes what it is *)
(* delivered out of its order, handles it in order, keeps its archives as    *)
(* it lists them, and records only bundles that bring back what they are     *)
(* recorded with.                                                            *)
EXTENDS Dispatcher, Backup, FiniteSetTheorems, WellFoundedInduction, SequenceTheorems, TLAPS

-----------------------------------------------------------------------------
(* Of the numbers up to n, some have a least. *)

LEMMA LeastExists ==
  ASSUME NEW n \in Nat, NEW S \in SUBSET (0..n), S # {}
  PROVE  \E least \in S : \A m \in S : least <= m
<1> DEFINE Below(m) == {k \in S : k <= m}
           Sets == {Below(m) : m \in S}
           R == StrictSubsetOrdering(S)
<1>1. IsFiniteSet(S) /\ S \subseteq Nat
  <2>1. IsFiniteSet(0..n)  BY FS_Interval
  <2>2. S \in SUBSET (0..n)  OBVIOUS
  <2>3. IsFiniteSet(S)  BY <2>1, <2>2, FS_Subset
  <2>4. S \subseteq Nat  OBVIOUS
  <2> QED  BY <2>3, <2>4
<1>2. PICK T \in Sets : \A U \in Sets : <<U, T>> \notin R
  <2>1. IsWellFoundedOn(R, FiniteSubsetsOf(S))  BY <1>1, FS_StrictSubsetOrderingWellFounded
  <2>2. Sets \subseteq FiniteSubsetsOf(S)  BY <1>1, FS_FiniteSubsetsOfFinite
  <2>3. Sets # {}  OBVIOUS
  <2> HIDE DEF Sets, R
  <2> QED  BY <2>1, <2>2, <2>3, WFMin
<1>3. PICK least \in S : T = Below(least)  OBVIOUS
<1>4. ASSUME NEW m \in S, m < least PROVE FALSE
  <2>1. m \in Nat /\ least \in Nat  BY <1>1
  <2>2. \A k \in S : k \in Nat /\ (k <= m => k <= least)  BY <1>1, <1>4, <2>1
  <2>3. Below(m) \subseteq T /\ least \in T /\ least \notin Below(m)
    <3>1. Below(m) \subseteq Below(least)  BY <2>2
    <3>2. least <= least /\ ~(least <= m)  BY <1>4, <2>1
    <3> QED  BY <3>1, <3>2, <1>3
  <2>4. <<Below(m), T>> \in R  BY <2>3, <1>3 DEF StrictSubsetOrdering
  <2> QED  BY <2>4, <1>2
<1> QED
  <2>1. \A m \in S : m \in Nat /\ least \in Nat /\ ~(m < least)  BY <1>1, <1>4
  <2> QED  BY <2>1

-----------------------------------------------------------------------------
(* What Only keeps. *)

Step(messages, wanted, f, i) ==
    IF i = 0 THEN <<>>
    ELSE IF messages[i] \in wanted THEN Append(f[i - 1], messages[i]) ELSE f[i - 1]

Keeps(messages, wanted, f, n) == f = [i \in 0..n |-> Step(messages, wanted, f, i)]

LEMMA KeptExists ==
  ASSUME NEW messages, NEW wanted, NEW n \in Nat
  PROVE  \E f : Keeps(messages, wanted, f, n)
<1> DEFINE Lacking == {k \in 0..n : ~ \E f : Keeps(messages, wanted, f, k)}
<1>1. SUFFICES ASSUME Lacking # {} PROVE FALSE
  OBVIOUS
<1>2. PICK k \in Lacking : \A j \in Lacking : k <= j
  <2>1. Lacking \in SUBSET (0..n)  OBVIOUS
  <2> HIDE DEF Lacking
  <2> QED  BY <1>1, <2>1, LeastExists
<1>3. CASE k = 0
  <2>1. Keeps(messages, wanted, [i \in 0..0 |-> <<>>], 0)  BY DEF Keeps, Step
  <2> QED  BY <1>3, <2>1
<1>4. CASE k # 0
  <2>1. k - 1 \in 0..n /\ k - 1 \notin Lacking  BY <1>2, <1>4
  <2>2. PICK f : Keeps(messages, wanted, f, k - 1)  BY <2>1
  <2> DEFINE g == [i \in 0..k |-> IF i = k THEN Step(messages, wanted, f, i) ELSE f[i]]
  <2>3. ASSUME NEW i \in 0..k PROVE g[i] = Step(messages, wanted, g, i)
    <3>1. i # 0 => g[i - 1] = f[i - 1]  BY <1>4
    <3>2. i # k => f[i] = Step(messages, wanted, f, i)  BY <2>2, <1>4 DEF Keeps
    <3>3. Step(messages, wanted, g, i) = Step(messages, wanted, f, i)  BY <3>1 DEF Step
    <3> QED  BY <3>2, <3>3
  <2>4. Keeps(messages, wanted, g, k)
    <3>1. g = [i \in 0..k |-> g[i]]  OBVIOUS
    <3> HIDE DEF g
    <3> QED  BY <2>3, <3>1 DEF Keeps
  <2> QED  BY <2>4, <1>2
<1> QED  BY <1>3, <1>4

LEMMA OnlyIsKept ==
  ASSUME NEW T, NEW messages \in Seq(T), NEW wanted
  PROVE  \E f : /\ Keeps(messages, wanted, f, Len(messages))
                /\ Only(messages, wanted) = f[Len(messages)]
<1> DEFINE f == CHOOSE f : Keeps(messages, wanted, f, Len(messages))
<1>1. Only(messages, wanted) = f[Len(messages)]
  BY DEF Only, Keeps, Step
<1>2. Keeps(messages, wanted, f, Len(messages))
  <2>1. Len(messages) \in Nat  OBVIOUS
  <2> QED  BY <2>1, KeptExists
<1> QED  BY <1>1, <1>2

(* A property of what is kept of the first n holds for all if it holds for  *)
(* none, and stays with each. *)
LEMMA KeptUnique ==
  ASSUME NEW messages, NEW more, NEW wanted, NEW n \in Nat, NEW f, NEW g, NEW k \in Nat,
         Keeps(messages, wanted, f, n), Keeps(more, wanted, g, k), n <= k,
         \A i \in 1..n : messages[i] = more[i]
  PROVE  f[n] = g[n]
<1> DEFINE Differ == {i \in 0..n : f[i] # g[i]}
<1>1. SUFFICES ASSUME Differ # {} PROVE FALSE
  BY DEF Keeps
<1>2. PICK i \in Differ : \A j \in Differ : i <= j
  <2>1. Differ \in SUBSET (0..n)  OBVIOUS
  <2> HIDE DEF Differ
  <2> QED  BY <1>1, <2>1, LeastExists
<1>3. f[i] = Step(messages, wanted, f, i) /\ g[i] = Step(more, wanted, g, i)
  <2>1. i \in 0..n /\ i \in 0..k  OBVIOUS
  <2>2. \A j \in 0..n : f[j] = Step(messages, wanted, f, j)  BY DEF Keeps
  <2>3. \A j \in 0..k : g[j] = Step(more, wanted, g, j)  BY DEF Keeps
  <2> QED  BY <2>1, <2>2, <2>3
<1>4. i # 0 => f[i - 1] = g[i - 1] /\ messages[i] = more[i]
  BY <1>2
<1> QED  BY <1>2, <1>3, <1>4 DEF Step

LEMMA OnlyEmpty ==
  ASSUME NEW wanted
  PROVE  Only(<<>>, wanted) = <<>>
<1>1. PICK f : Keeps(<<>>, wanted, f, 0) /\ Only(<<>>, wanted) = f[0]
  <2>1. <<>> \in Seq({}) /\ Len(<<>>) = 0  OBVIOUS
  <2> QED  BY <2>1, OnlyIsKept
<1> QED  BY <1>1 DEF Keeps, Step

LEMMA OnlyAppend ==
  ASSUME NEW T, NEW messages \in Seq(T), NEW message \in T, NEW wanted
  PROVE  Only(Append(messages, message), wanted) =
           IF message \in wanted THEN Append(Only(messages, wanted), message)
           ELSE Only(messages, wanted)
<1>1. PICK n \in Nat : n = Len(messages)
  OBVIOUS
<1>2. PICK more \in Seq(T) : /\ more = Append(messages, message)
                             /\ Len(more) = n + 1
                             /\ more[n + 1] = message
                             /\ \A i \in 1..n : more[i] = messages[i]
  <2>1. Append(messages, message) \in Seq(T)  OBVIOUS
  <2>2. Len(Append(messages, message)) = n + 1  BY <1>1
  <2>3. Append(messages, message)[n + 1] = message  BY <1>1
  <2>4. \A i \in 1..n : Append(messages, message)[i] = messages[i]  BY <1>1
  <2> QED  BY <2>1, <2>2, <2>3, <2>4
<1>3. PICK f : Keeps(messages, wanted, f, n) /\ Only(messages, wanted) = f[n]
  BY <1>1, OnlyIsKept
<1>4. PICK g : Keeps(more, wanted, g, n + 1) /\ Only(more, wanted) = g[n + 1]
  BY <1>2, OnlyIsKept
<1>5. f[n] = g[n]
  <2>1. n + 1 \in Nat /\ n <= n + 1  OBVIOUS
  <2>2. \A i \in 1..n : messages[i] = more[i]  BY <1>2
  <2> QED  BY <1>3, <1>4, <2>1, <2>2, KeptUnique
<1>6. g[n + 1] = Step(more, wanted, g, n + 1)
  <2>1. n + 1 \in 0..(n + 1)  OBVIOUS
  <2> QED  BY <1>4, <2>1 DEF Keeps
<1>7. n + 1 # 0 /\ (n + 1) - 1 = n
  OBVIOUS
<1> QED  BY <1>2, <1>3, <1>4, <1>5, <1>6, <1>7 DEF Step

LEMMA OnlyTyped ==
  ASSUME NEW T, NEW messages \in Seq(T), NEW wanted
  PROVE  Only(messages, wanted) \in Seq(T \cap wanted)
<1>1. PICK n \in Nat : n = Len(messages)
  OBVIOUS
<1>2. PICK f : Keeps(messages, wanted, f, n) /\ Only(messages, wanted) = f[n]
  BY <1>1, OnlyIsKept
<1> DEFINE Lacking == {k \in 0..n : f[k] \notin Seq(T \cap wanted)}
<1>3. SUFFICES ASSUME Lacking # {} PROVE FALSE
  BY <1>2
<1>4. PICK k \in Lacking : \A j \in Lacking : k <= j
  <2>1. Lacking \in SUBSET (0..n)  OBVIOUS
  <2> HIDE DEF Lacking
  <2> QED  BY <1>3, <2>1, LeastExists
<1>5. f[k] = Step(messages, wanted, f, k)
  BY <1>2 DEF Keeps
<1>6. k # 0 => messages[k] \in T /\ f[k - 1] \in Seq(T \cap wanted)
  <2>1. k # 0 => k \in 1..n /\ k - 1 \in 0..n /\ ~(k <= k - 1)  OBVIOUS
  <2> QED  BY <1>1, <1>4, <2>1
<1>7. \A s \in Seq(T \cap wanted), e \in T \cap wanted : Append(s, e) \in Seq(T \cap wanted)
  OBVIOUS
<1> HIDE DEF Lacking
<1>8. f[k] \notin Seq(T \cap wanted)
  BY DEF Lacking
<1> QED  BY <1>5, <1>6, <1>7, <1>8, EmptySeq DEF Step

LEMMA OnlyConcat ==
  ASSUME NEW T, NEW first \in Seq(T), NEW second \in Seq(T), NEW wanted
  PROVE  Only(first \o second, wanted) = Only(first, wanted) \o Only(second, wanted)
<1>1. PICK n \in Nat, k \in Nat : n = Len(first) /\ k = Len(second)
  OBVIOUS
<1>2. PICK both \in Seq(T) : /\ both = first \o second
                             /\ Len(both) = n + k
                             /\ \A i \in 1..n : both[i] = first[i]
                             /\ \A i \in 1..k : both[n + i] = second[i]
  <2>1. first \o second \in Seq(T)  OBVIOUS
  <2>2. Len(first \o second) = n + k  BY <1>1
  <2>3. \A i \in 1..n : (first \o second)[i] = first[i]  BY <1>1
  <2>4. \A i \in 1..k : (first \o second)[n + i] = second[i]  BY <1>1
  <2> QED  BY <2>1, <2>2, <2>3, <2>4
<1>3. PICK f : Keeps(first, wanted, f, n) /\ Only(first, wanted) = f[n]
  BY <1>1, OnlyIsKept
<1>4. PICK g : Keeps(second, wanted, g, k) /\ Only(second, wanted) = g[k]
  BY <1>1, OnlyIsKept
<1>5. PICK h : Keeps(both, wanted, h, n + k) /\ Only(both, wanted) = h[n + k]
  BY <1>2, OnlyIsKept
<1>6. f[n] = h[n]
  <2>1. n + k \in Nat /\ n <= n + k  OBVIOUS
  <2>2. \A i \in 1..n : first[i] = both[i]  BY <1>2
  <2> QED  BY <1>3, <1>5, <2>1, <2>2, KeptUnique
<1>7. f[n] \in Seq(T)
  <2>1. f[n] \in Seq(T \cap wanted)  BY <1>3, OnlyTyped
  <2> QED  BY <2>1
<1> DEFINE Lacking == {i \in 0..k : ~(g[i] \in Seq(T) /\ h[n + i] = f[n] \o g[i])}
<1>8. SUFFICES ASSUME Lacking # {} PROVE FALSE
  <2>1. k \in 0..k  OBVIOUS
  <2>2. Lacking = {} => h[n + k] = f[n] \o g[k]  BY <2>1
  <2> HIDE DEF Lacking
  <2> QED  BY <1>2, <1>3, <1>4, <1>5, <2>2
<1>9. PICK i \in Lacking : \A j \in Lacking : i <= j
  <2>1. Lacking \in SUBSET (0..k)  OBVIOUS
  <2> HIDE DEF Lacking
  <2> QED  BY <1>8, <2>1, LeastExists
<1>10. g[i] = Step(second, wanted, g, i)
  BY <1>4 DEF Keeps
<1>11. h[n + i] = Step(both, wanted, h, n + i)
  <2>1. n + i \in 0..(n + k)  OBVIOUS
  <2> QED  BY <1>5, <2>1 DEF Keeps
<1>12. CASE i = 0
  <2>1. g[i] = <<>>  BY <1>10, <1>12 DEF Step
  <2>2. h[n + i] = f[n]  BY <1>6, <1>12
  <2>3. f[n] = f[n] \o <<>> /\ <<>> \in Seq(T)  BY <1>7
  <2> QED  BY <2>1, <2>2, <2>3
<1>13. CASE i # 0
  <2>1. /\ i \in 1..k /\ i - 1 \in 0..k /\ i - 1 \notin Lacking
    <3>1. i \in 1..k /\ i - 1 \in 0..k /\ ~(i <= i - 1)  BY <1>13
    <3> QED  BY <1>9, <3>1
  <2>2. both[n + i] = second[i] /\ second[i] \in T /\ n + i # 0 /\ n + i - 1 = n + (i - 1)
    BY <1>1, <1>2, <2>1
  <2>3. g[i - 1] \in Seq(T) /\ h[n + (i - 1)] = f[n] \o g[i - 1]
    BY <2>1
  <2>4. \A s \in Seq(T), e \in T : Append(s, e) \in Seq(T) /\ Append(f[n] \o s, e) = f[n] \o Append(s, e)
    <3>1. PICK start \in Seq(T) : start = f[n]  BY <1>7
    <3>2. ASSUME NEW s \in Seq(T), NEW e \in T
          PROVE  Append(s, e) \in Seq(T) /\ Append(start \o s, e) = start \o Append(s, e)
      <4>1. start \o s \in Seq(T) /\ <<e>> \in Seq(T)  BY ConcatProperties
      <4>2. Append(start \o s, e) = (start \o s) \o <<e>>  BY <4>1, AppendIsConcat
      <4>3. Append(s, e) = s \o <<e>> /\ Append(s, e) \in Seq(T)  BY AppendIsConcat, AppendProperties
      <4>4. (start \o s) \o <<e>> = start \o (s \o <<e>>)  BY <4>1, ConcatAssociative
      <4> QED  BY <4>2, <4>3, <4>4, Zenon
    <3> QED  BY <3>1, <3>2
  <2>5. CASE second[i] \in wanted
    <3>1. g[i] = Append(g[i - 1], second[i])
      BY <1>10, <1>13, <2>5 DEF Step
    <3>2. h[n + i] = Append(h[n + (i - 1)], second[i])
      <4>1. n + i # 0 /\ both[n + i] \in wanted  BY <2>2, <2>5
      <4>2. h[n + i] = Append(h[n + i - 1], both[n + i])  BY <1>11, <4>1 DEF Step
      <4> QED  BY <2>2, <4>2
    <3> QED  BY <1>9, <2>2, <2>3, <2>4, <3>1, <3>2
  <2>6. CASE second[i] \notin wanted
    <3>1. g[i] = g[i - 1] /\ h[n + i] = h[n + (i - 1)]
      BY <1>10, <1>11, <1>13, <2>2, <2>6 DEF Step
    <3> QED  BY <1>9, <2>3, <3>1
  <2> QED  BY <2>5, <2>6
<1> QED  BY <1>12, <1>13

LEMMA OnlyOne ==
  ASSUME NEW T, NEW message \in T, NEW wanted
  PROVE  Only(<<message>>, wanted) = IF message \in wanted THEN <<message>> ELSE <<>>
<1>1. /\ <<>> \in Seq(T) /\ Append(<<>>, message) = <<message>>
  OBVIOUS
<1>2. Only(Append(<<>>, message), wanted) =
        IF message \in wanted THEN Append(Only(<<>>, wanted), message) ELSE Only(<<>>, wanted)
  BY <1>1, OnlyAppend
<1> QED  BY <1>1, <1>2, OnlyEmpty

-----------------------------------------------------------------------------
(* The messages on their way to a module are in five places, one behind the *)
(* other: what happens to the whole as they go from each to the next.       *)

Whole(a, b, c, d, e) == a \o b \o c \o d \o e

LEMMA JoinTyped ==
  ASSUME NEW T, NEW a \in Seq(T), NEW b \in Seq(T)
  PROVE  a \o b \in Seq(T)
BY ConcatProperties

LEMMA WholeTyped ==
  ASSUME NEW T, NEW a \in Seq(T), NEW b \in Seq(T), NEW c \in Seq(T), NEW d \in Seq(T), NEW e \in Seq(T)
  PROVE  Whole(a, b, c, d, e) \in Seq(T)
BY JoinTyped DEF Whole

LEMMA HeadFirst ==
  ASSUME NEW T, NEW a \in Seq(T), a # <<>>
  PROVE  a = <<Head(a)>> \o Tail(a) /\ Head(a) \in T /\ Tail(a) \in Seq(T)
OBVIOUS

LEMMA OneTyped ==
  ASSUME NEW T, NEW x \in T
  PROVE  <<x>> \in Seq(T)
OBVIOUS

(* What is at the head of one sequence goes to the end of the one before.  *)
LEMMA HeadMoves ==
  ASSUME NEW T, NEW a \in Seq(T), NEW b \in Seq(T), b # <<>>
  PROVE  Append(a, Head(b)) \o Tail(b) = a \o b
<1>1. PICK h \in T, t \in Seq(T) : h = Head(b) /\ t = Tail(b) /\ b = <<h>> \o t
  BY HeadFirst
<1>2. Append(a, h) = a \o <<h>>
  BY AppendIsConcat
<1>3. (a \o <<h>>) \o t = a \o (<<h>> \o t)
  BY OneTyped, ConcatAssociative
<1> QED  BY <1>1, <1>2, <1>3, Zenon

LEMMA AddedLast ==
  ASSUME NEW T, NEW a \in Seq(T), NEW b \in Seq(T), NEW x \in T
  PROVE  a \o Append(b, x) = Append(a \o b, x)
<1>1. Append(b, x) = b \o <<x>>
  BY AppendIsConcat
<1>2. Append(a \o b, x) = (a \o b) \o <<x>>
  BY JoinTyped, AppendIsConcat
<1>3. (a \o b) \o <<x>> = a \o (b \o <<x>>)
  BY OneTyped, ConcatAssociative
<1> QED  BY <1>1, <1>2, <1>3, Zenon

LEMMA Regroup ==
  ASSUME NEW T, NEW h \in Seq(T), NEW t \in Seq(T), NEW b \in Seq(T)
  PROVE  (h \o t) \o b = h \o (t \o b) /\ t \o b \in Seq(T)
BY ConcatAssociative, ConcatProperties

LEMMA TakenFirst ==
  ASSUME NEW T, NEW a, NEW b, NEW c, NEW d, NEW e,
         a \in Seq(T), b \in Seq(T), c \in Seq(T), d \in Seq(T), e \in Seq(T), a # <<>>
  PROVE  Whole(a, b, c, d, e) = <<Head(a)>> \o Whole(Tail(a), b, c, d, e)
<1>1. PICK h, t : h = <<Head(a)>> /\ t = Tail(a)
  OBVIOUS
<1>2. h \in Seq(T) /\ t \in Seq(T)
  BY ONLY <1>1, a \in Seq(T), a # <<>>, HeadFirst, OneTyped
<1>3. a = h \o t
  BY ONLY <1>1, a \in Seq(T), a # <<>>, HeadFirst
<1>4. PICK tb, tc, td : tb = t \o b /\ tc = tb \o c /\ td = tc \o d
  OBVIOUS
<1>5. tb \in Seq(T)
  BY ONLY <1>2, <1>4, b \in Seq(T), JoinTyped
<1>6. tc \in Seq(T)
  BY ONLY <1>5, <1>4, c \in Seq(T), JoinTyped
<1>7. td \in Seq(T)
  BY ONLY <1>6, <1>4, d \in Seq(T), JoinTyped
<1>8. (h \o t) \o b = h \o (t \o b)
  BY ONLY <1>2, b \in Seq(T), ConcatAssociative
<1>9. (h \o tb) \o c = h \o (tb \o c)
  BY ONLY <1>2, <1>5, c \in Seq(T), ConcatAssociative
<1>10. (h \o tc) \o d = h \o (tc \o d)
  BY ONLY <1>2, <1>6, d \in Seq(T), ConcatAssociative
<1>11. (h \o td) \o e = h \o (td \o e)
  BY ONLY <1>2, <1>7, e \in Seq(T), ConcatAssociative
<1> QED  BY ONLY <1>1, <1>3, <1>4, <1>8, <1>9, <1>10, <1>11, Zenon DEF Whole

(* What is not wanted makes no difference, wherever it is. *)
LEMMA UnwantedLeft ==
  ASSUME NEW T, NEW a \in Seq(T), NEW b \in Seq(T), NEW x \in T, NEW wanted, x \notin wanted
  PROVE  Only(Append(a, x) \o b, wanted) = Only(a \o b, wanted)
<1>1. Append(a, x) \in Seq(T)
  BY AppendProperties
<1>2. Only(Append(a, x) \o b, wanted) = Only(Append(a, x), wanted) \o Only(b, wanted)
  <2>1. PICK longer \in Seq(T) : longer = Append(a, x)  BY <1>1
  <2>2. Only(longer \o b, wanted) = Only(longer, wanted) \o Only(b, wanted)  BY OnlyConcat
  <2> QED  BY <2>1, <2>2, Zenon
<1>3. Only(a \o b, wanted) = Only(a, wanted) \o Only(b, wanted)
  BY OnlyConcat
<1>4. Only(Append(a, x), wanted) = Only(a, wanted)
  BY OnlyAppend
<1> QED  BY <1>2, <1>3, <1>4, Zenon

(* What a process that ends takes with it is the end of the sequence. *)
LEMMA WithoutIsStart ==
  ASSUME NEW T, NEW a, NEW n, a \in Seq(T), n \in Nat
  PROVE  /\ Without(a, n) \in Seq(T)
         /\ \E b \in Seq(T) : a = Without(a, n) \o b
<1>1. PICK k \in Nat : k = Len(a)
  OBVIOUS
<1>2. CASE n <= k
  <2>1. PICK m \in 0..k : m = k - n
    BY <1>2
  <2>2. Without(a, n) = SubSeq(a, 1, m)
    BY <1>1, <2>1 DEF Without
  <2>3. SubSeq(a, 1, m) \in Seq(T) /\ SubSeq(a, m + 1, k) \in Seq(T)
    BY <1>1
  <2>4. a = SubSeq(a, 1, m) \o SubSeq(a, m + 1, k)
    <3>1. m \in (1 - 1)..k /\ k \in m..Len(a) /\ 1 \in 1..(Len(a) + 1)
      BY <1>1
    <3>2. SubSeq(a, 1, m) \o SubSeq(a, m + 1, k) = SubSeq(a, 1, k)
      BY <1>1, <3>1, ConcatAdjacentSubSeq
    <3>3. SubSeq(a, 1, k) = a
      BY <1>1, SubSeqFull
    <3> QED  BY <3>2, <3>3, Zenon
  <2> QED  BY <2>2, <2>3, <2>4
<1>3. CASE n > k
  <2>1. Len(a) - n \in Int /\ Len(a) - n < 1
    BY <1>1, <1>3
  <2>2. Without(a, n) = <<>>
    BY <2>1 DEF Without
  <2>3. <<>> \in Seq(T) /\ a = <<>> \o a
    OBVIOUS
  <2> QED  BY <2>2, <2>3
<1> QED  BY <1>2, <1>3

(* What is left when the middle of a sequence is lost. *)
LEMMA MiddleLost ==
  ASSUME NEW T, NEW a \in Seq(T), NEW b \in Seq(T), NEW c \in Seq(T)
  PROVE  a \o c \in TheBus!Remains(a \o b \o c)
<1>1. PICK k \in Nat, l \in Nat, m \in Nat : k = Len(a) /\ l = Len(b) /\ m = Len(c)
  OBVIOUS
<1>2. PICK all : all = a \o b \o c
  OBVIOUS
<1>3. PICK rest : rest = a \o c
  OBVIOUS
<1>4. /\ Len(all) = k + l + m
      /\ \A i \in 1..k : all[i] = a[i]
      /\ \A i \in 1..m : all[k + l + i] = c[i]
  BY <1>1, <1>2
<1>5. /\ rest \in Seq(T) /\ Len(rest) = k + m
      /\ \A i \in 1..k : rest[i] = a[i]
      /\ \A i \in 1..m : rest[k + i] = c[i]
  BY <1>1, <1>3
<1> DEFINE pick == [i \in 1..(k + m) |-> IF i <= k THEN i ELSE i + l]
<1>6. pick \in TheBus!Rising(k + m, k + l + m)
  BY DEF TheBus!Rising
<1>7. rest = [i \in 1..(k + m) |-> all[pick[i]]]
  <2>1. ASSUME NEW i \in 1..(k + m) PROVE rest[i] = all[pick[i]]
    <3>1. CASE i <= k
      BY <3>1, <1>4, <1>5
    <3>2. CASE i > k
      <4>1. PICK j \in 1..m : i = k + j
        <5>1. i - k \in 1..m /\ i = k + (i - k)  BY <3>2
        <5> QED  BY <5>1
      <4>2. pick[i] = k + l + j  BY <3>2, <4>1
      <4> QED  BY <4>1, <4>2, <1>4, <1>5
    <3> QED  BY <3>1, <3>2
  <2>2. rest = [i \in 1..(k + m) |-> rest[i]]
    BY <1>5
  <2> QED  BY <2>1, <2>2
<1>8. k + m \in 0..Len(all)
  BY <1>4
<1> HIDE DEF pick
<1>9. rest \in TheBus!Remains(all)
  BY <1>4, <1>6, <1>7, <1>8 DEF TheBus!Remains
<1> QED  BY <1>2, <1>3, <1>9, Zenon

LEMMA EndLost ==
  ASSUME NEW T, NEW a \in Seq(T)
  PROVE  \A b \in Seq(T) : a \in TheBus!Remains(a \o b)
<1>1. \A b \in Seq(T) : a \o <<>> = a /\ (a \o b) \o <<>> = a \o b /\ <<>> \in Seq(T)
  BY ConcatEmptySeq, JoinTyped
<1>2. \A b \in Seq(T) : a \o <<>> \in TheBus!Remains(a \o b \o <<>>)
  BY <1>1, MiddleLost
<1> QED  BY <1>1, <1>2, Zenon

(* A message published comes last. *)
LEMMA WholeGrows ==
  ASSUME NEW T, NEW a, NEW b, NEW c, NEW d, NEW e,
         a \in Seq(T), b \in Seq(T), c \in Seq(T), d \in Seq(T), e \in Seq(T),
         NEW x, x \in T, NEW wanted
  PROVE  Only(Whole(a, b, c, d, Append(e, x)), wanted) =
           IF x \in wanted THEN Append(Only(Whole(a, b, c, d, e), wanted), x)
           ELSE Only(Whole(a, b, c, d, e), wanted)
<1>1. PICK ab, abc, before : ab = a \o b /\ abc = ab \o c /\ before = abc \o d
  OBVIOUS
<1>2. ab \in Seq(T)
  BY ONLY <1>1, a \in Seq(T), b \in Seq(T), JoinTyped
<1>3. abc \in Seq(T)
  BY ONLY <1>1, <1>2, c \in Seq(T), JoinTyped
<1>4. before \in Seq(T)
  BY ONLY <1>1, <1>3, d \in Seq(T), JoinTyped
<1>5. before \o Append(e, x) = Append(before \o e, x)
  BY ONLY <1>4, e \in Seq(T), x \in T, AddedLast
<1>6. PICK all : all = before \o e
  OBVIOUS
<1>7. all \in Seq(T)
  BY ONLY <1>4, <1>6, e \in Seq(T), JoinTyped
<1>8. Only(Append(all, x), wanted) =
        IF x \in wanted THEN Append(Only(all, wanted), x) ELSE Only(all, wanted)
  BY ONLY <1>7, x \in T, OnlyAppend
<1>9. Whole(a, b, c, d, e) = all /\ Whole(a, b, c, d, Append(e, x)) = Append(all, x)
  BY ONLY <1>1, <1>5, <1>6, Zenon DEF Whole
<1> QED  BY ONLY <1>8, <1>9, Zenon

(* The one taken is the first. *)
LEMMA WholeTaken ==
  ASSUME NEW T, NEW a, NEW b, NEW c, NEW d, NEW e,
         a \in Seq(T), b \in Seq(T), c \in Seq(T), d \in Seq(T), e \in Seq(T), a # <<>>, NEW wanted
  PROVE  /\ Head(a) \notin wanted => Only(Whole(a, b, c, d, e), wanted) = Only(Whole(Tail(a), b, c, d, e), wanted)
         /\ Head(a) \in wanted =>
              /\ Only(Whole(a, b, c, d, e), wanted) # <<>>
              /\ Head(Only(Whole(a, b, c, d, e), wanted)) = Head(a)
              /\ Tail(Only(Whole(a, b, c, d, e), wanted)) = Only(Whole(Tail(a), b, c, d, e), wanted)
<1>1. PICK x, t : x = Head(a) /\ t = Tail(a)
  OBVIOUS
<1>2. x \in T /\ t \in Seq(T)
  BY ONLY <1>1, a \in Seq(T), a # <<>>, HeadFirst
<1>3. PICK all, rest : all = Whole(a, b, c, d, e) /\ rest = Whole(t, b, c, d, e)
  OBVIOUS
<1>4. all = <<x>> \o rest
  BY ONLY <1>1, <1>3, a \in Seq(T), b \in Seq(T), c \in Seq(T), d \in Seq(T), e \in Seq(T), a # <<>>, TakenFirst
<1>5. rest \in Seq(T)
  BY ONLY <1>2, <1>3, b \in Seq(T), c \in Seq(T), d \in Seq(T), e \in Seq(T), WholeTyped
<1>6. PICK first : first = <<x>>
  OBVIOUS
<1>7. first \in Seq(T)
  BY ONLY <1>2, <1>6, OneTyped
<1>8. Only(first \o rest, wanted) = Only(first, wanted) \o Only(rest, wanted)
  BY ONLY <1>5, <1>7, OnlyConcat
<1>9. Only(<<x>>, wanted) = IF x \in wanted THEN <<x>> ELSE <<>>
  BY ONLY <1>2, OnlyOne
<1>10. PICK others : others = Only(rest, wanted)
  OBVIOUS
<1>11. others \in Seq(T \cap wanted)
  BY ONLY <1>5, <1>10, OnlyTyped
<1>12. CASE x \notin wanted
  <2>1. <<>> \o others = others
    BY ONLY <1>11, ConcatEmptySeq
  <2>2. Only(all, wanted) = others
    BY ONLY <1>4, <1>6, <1>8, <1>9, <1>10, <1>12, <2>1, Zenon
  <2> QED  BY ONLY <1>1, <1>3, <1>10, <1>12, <2>2, Zenon
<1>13. CASE x \in wanted
  <2>1. x \in T \cap wanted
    BY <1>2, <1>13
  <2>2. <<x>> \o others # <<>> /\ Head(<<x>> \o others) = x /\ Tail(<<x>> \o others) = others
    BY ONLY <1>11, <2>1
  <2>3. Only(all, wanted) = <<x>> \o others
    BY ONLY <1>4, <1>6, <1>8, <1>9, <1>10, <1>13, Zenon
  <2> QED  BY ONLY <1>1, <1>3, <1>10, <1>13, <2>2, <2>3, Zenon
<1> QED  BY <1>12, <1>13

LEMMA WholeForwarded ==
  ASSUME NEW T, NEW a, NEW b, NEW c, NEW d, NEW e,
         a \in Seq(T), b \in Seq(T), c \in Seq(T), d \in Seq(T), e \in Seq(T), e # <<>>
  PROVE  Whole(a, b, c, Append(d, Head(e)), Tail(e)) = Whole(a, b, c, d, e)
<1>1. PICK ab, abc : ab = a \o b /\ abc = ab \o c
  OBVIOUS
<1>2. ab \in Seq(T)
  BY ONLY <1>1, a \in Seq(T), b \in Seq(T), JoinTyped
<1>3. abc \in Seq(T)
  BY ONLY <1>1, <1>2, c \in Seq(T), JoinTyped
<1>4. PICK x, t, dx : x = Head(e) /\ t = Tail(e) /\ dx = Append(d, x)
  OBVIOUS
<1>5. x \in T /\ t \in Seq(T)
  BY ONLY <1>4, e \in Seq(T), e # <<>>, HeadFirst
<1>6. dx \in Seq(T)
  BY ONLY <1>4, <1>5, d \in Seq(T), AppendProperties
<1>7. Append(d, Head(e)) \o Tail(e) = d \o e
  BY ONLY d \in Seq(T), e \in Seq(T), e # <<>>, HeadMoves
<1>8. (abc \o dx) \o t = abc \o (dx \o t)
  BY ONLY <1>3, <1>5, <1>6, ConcatAssociative
<1>9. (abc \o d) \o e = abc \o (d \o e)
  BY ONLY <1>3, d \in Seq(T), e \in Seq(T), ConcatAssociative
<1> QED  BY ONLY <1>1, <1>4, <1>7, <1>8, <1>9, Zenon DEF Whole

LEMMA WholeForwardedOther ==
  ASSUME NEW T, NEW a, NEW b, NEW c, NEW d, NEW e,
         a \in Seq(T), b \in Seq(T), c \in Seq(T), d \in Seq(T), e \in Seq(T),
         NEW x, x \in T, NEW wanted, x \notin wanted
  PROVE  Only(Whole(a, b, c, Append(d, x), e), wanted) = Only(Whole(a, b, c, d, e), wanted)
<1>1. PICK ab, abc, before : ab = a \o b /\ abc = ab \o c /\ before = abc \o d
  OBVIOUS
<1>2. ab \in Seq(T)
  BY ONLY <1>1, a \in Seq(T), b \in Seq(T), JoinTyped
<1>3. abc \in Seq(T)
  BY ONLY <1>1, <1>2, c \in Seq(T), JoinTyped
<1>4. before \in Seq(T)
  BY ONLY <1>1, <1>3, d \in Seq(T), JoinTyped
<1>5. abc \o Append(d, x) = Append(abc \o d, x)
  BY ONLY <1>3, d \in Seq(T), x \in T, AddedLast
<1>6. Only(Append(before, x) \o e, wanted) = Only(before \o e, wanted)
  BY ONLY <1>4, e \in Seq(T), x \in T, x \notin wanted, UnwantedLeft
<1> QED  BY ONLY <1>1, <1>5, <1>6, Zenon DEF Whole

LEMMA WholeFlushed ==
  ASSUME NEW T, NEW a, NEW b, NEW c, NEW d, NEW e,
         a \in Seq(T), b \in Seq(T), b # <<>>
  PROVE  Whole(Append(a, Head(b)), Tail(b), c, d, e) = Whole(a, b, c, d, e)
<1>1. Append(a, Head(b)) \o Tail(b) = a \o b
  BY ONLY a \in Seq(T), b \in Seq(T), b # <<>>, HeadMoves
<1> QED  BY ONLY <1>1, Zenon DEF Whole

LEMMA WholeInHand ==
  ASSUME NEW T, NEW a, NEW b, NEW d, NEW e,
         a \in Seq(T), b \in Seq(T), d \in Seq(T), d # <<>>
  PROVE  Whole(a, b, <<Head(d)>>, Tail(d), e) = Whole(a, b, <<>>, d, e)
<1>1. PICK ab : ab = a \o b
  OBVIOUS
<1>2. ab \in Seq(T)
  BY ONLY <1>1, a \in Seq(T), b \in Seq(T), JoinTyped
<1>3. PICK x, t : x = <<Head(d)>> /\ t = Tail(d)
  OBVIOUS
<1>4. x \in Seq(T) /\ t \in Seq(T)
  BY ONLY <1>3, d \in Seq(T), d # <<>>, HeadFirst, OneTyped
<1>5. d = x \o t
  BY ONLY <1>3, d \in Seq(T), d # <<>>, HeadFirst
<1>6. (ab \o x) \o t = ab \o (x \o t)
  BY ONLY <1>2, <1>4, ConcatAssociative
<1>7. ab \o <<>> = ab
  BY ONLY <1>2, ConcatEmptySeq
<1> QED  BY ONLY <1>1, <1>3, <1>5, <1>6, <1>7, Zenon DEF Whole

LEMMA WholeHeld ==
  ASSUME NEW T, NEW a, NEW b, NEW d, NEW e, NEW x,
         a \in Seq(T), b \in Seq(T), x \in T
  PROVE  Whole(a, Append(b, x), <<>>, d, e) = Whole(a, b, <<x>>, d, e)
<1>1. PICK ab, bx, one : ab = a \o b /\ bx = Append(b, x) /\ one = <<x>>
  OBVIOUS
<1>2. ab \in Seq(T)
  BY ONLY <1>1, a \in Seq(T), b \in Seq(T), JoinTyped
<1>3. bx \in Seq(T)
  BY ONLY <1>1, b \in Seq(T), x \in T, AppendProperties
<1>4. Append(b, x) = b \o <<x>>
  BY ONLY b \in Seq(T), x \in T, AppendIsConcat
<1>5. one \in Seq(T)
  BY ONLY <1>1, x \in T, OneTyped
<1>6. (a \o b) \o one = a \o (b \o one)
  BY ONLY <1>5, a \in Seq(T), b \in Seq(T), ConcatAssociative
<1>7. a \o bx \in Seq(T)
  BY ONLY <1>3, a \in Seq(T), JoinTyped
<1>8. PICK abx : abx = a \o bx
  OBVIOUS
<1>9. abx \o <<>> = abx
  BY ONLY <1>7, <1>8, ConcatEmptySeq
<1> QED  BY ONLY <1>1, <1>4, <1>6, <1>8, <1>9, Zenon DEF Whole

LEMMA WholeDelivered ==
  ASSUME NEW T, NEW a, NEW d, NEW e, NEW x,
         a \in Seq(T), x \in T
  PROVE  Whole(Append(a, x), <<>>, <<>>, d, e) = Whole(a, <<>>, <<x>>, d, e)
<1>1. Append(a, x) \in Seq(T)
  BY ONLY a \in Seq(T), x \in T, AppendProperties
<1>2. PICK ax : ax = Append(a, x)
  OBVIOUS
<1>3. ax \o <<>> = ax
  BY ONLY <1>1, <1>2, ConcatEmptySeq
<1>4. a \o <<>> = a
  BY ONLY a \in Seq(T), ConcatEmptySeq
<1>5. Append(a, x) = a \o <<x>>
  BY ONLY a \in Seq(T), x \in T, AppendIsConcat
<1> QED  BY ONLY <1>2, <1>3, <1>4, <1>5, Zenon DEF Whole

LEMMA WholeNotFor ==
  ASSUME NEW T, NEW a, NEW b, NEW d, NEW e, NEW x,
         a \in Seq(T), b \in Seq(T), d \in Seq(T), e \in Seq(T), x \in T, NEW wanted, x \notin wanted
  PROVE  Only(Whole(a, b, <<x>>, d, e), wanted) = Only(Whole(a, b, <<>>, d, e), wanted)
<1>1. PICK ab, de : ab = a \o b /\ de = d \o e
  OBVIOUS
<1>2. ab \in Seq(T)
  BY ONLY <1>1, a \in Seq(T), b \in Seq(T), JoinTyped
<1>3. de \in Seq(T)
  BY ONLY <1>1, d \in Seq(T), e \in Seq(T), JoinTyped
<1>4. PICK abx : abx = Append(ab, x)
  OBVIOUS
<1>5. abx \in Seq(T)
  BY ONLY <1>2, <1>4, x \in T, AppendProperties
<1>6. Append(ab, x) = ab \o <<x>>
  BY ONLY <1>2, x \in T, AppendIsConcat
<1>7. ab \o <<>> = ab
  BY ONLY <1>2, ConcatEmptySeq
<1>8. (abx \o d) \o e = abx \o (d \o e)
  BY ONLY <1>5, d \in Seq(T), e \in Seq(T), ConcatAssociative
<1>9. (ab \o d) \o e = ab \o (d \o e)
  BY ONLY <1>2, d \in Seq(T), e \in Seq(T), ConcatAssociative
<1>10. Only(Append(ab, x) \o de, wanted) = Only(ab \o de, wanted)
  BY ONLY <1>2, <1>3, x \in T, x \notin wanted, UnwantedLeft
<1> QED  BY ONLY <1>1, <1>4, <1>6, <1>7, <1>8, <1>9, <1>10, Zenon DEF Whole

(* A publisher that crashes. *)
LEMMA WholeCutLast ==
  ASSUME NEW T, NEW a, NEW b, NEW c, NEW d, NEW e,
         a \in Seq(T), b \in Seq(T), c \in Seq(T), d \in Seq(T), e \in Seq(T),
         NEW n, n \in Nat, NEW wanted
  PROVE  Only(Whole(a, b, c, d, Without(e, n)), wanted) \in TheBus!Remains(Only(Whole(a, b, c, d, e), wanted))
<1>1. PICK ab, abc, before : ab = a \o b /\ abc = ab \o c /\ before = abc \o d
  OBVIOUS
<1>2. ab \in Seq(T)
  BY ONLY <1>1, a \in Seq(T), b \in Seq(T), JoinTyped
<1>3. abc \in Seq(T)
  BY ONLY <1>1, <1>2, c \in Seq(T), JoinTyped
<1>4. before \in Seq(T)
  BY ONLY <1>1, <1>3, d \in Seq(T), JoinTyped
<1>5. PICK rest : rest = Without(e, n)
  OBVIOUS
<1>6. rest \in Seq(T) /\ \E gone \in Seq(T) : e = rest \o gone
  <2>1. Without(e, n) \in Seq(T) /\ \E gone \in Seq(T) : e = Without(e, n) \o gone
    BY ONLY e \in Seq(T), n \in Nat, WithoutIsStart
  <2> QED  BY ONLY <1>5, <2>1, Zenon
<1>7. PICK gone : gone \in Seq(T) /\ e = rest \o gone
  BY ONLY <1>6, Zenon
<1>8. PICK kept : kept = before \o rest
  OBVIOUS
<1>9. kept \in Seq(T)
  BY ONLY <1>4, <1>6, <1>8, JoinTyped
<1>10. before \o (rest \o gone) = (before \o rest) \o gone
  <2>1. rest \in Seq(T) /\ gone \in Seq(T)
    BY ONLY <1>6, <1>7, Zenon
  <2> QED  BY ONLY <1>4, <2>1, ConcatAssociative
<1>11. Only(kept \o gone, wanted) = Only(kept, wanted) \o Only(gone, wanted)
  BY ONLY <1>7, <1>9, OnlyConcat
<1>12. Only(kept, wanted) \in Seq(T \cap wanted) /\ Only(gone, wanted) \in Seq(T \cap wanted)
  BY ONLY <1>7, <1>9, OnlyTyped
<1>13. Only(kept, wanted) \in TheBus!Remains(Only(kept, wanted) \o Only(gone, wanted))
  BY ONLY <1>12, EndLost
<1>14. /\ Whole(a, b, c, d, Without(e, n)) = kept
       /\ Whole(a, b, c, d, e) = kept \o gone
  BY ONLY <1>1, <1>5, <1>7, <1>8, <1>10, Zenon DEF Whole
<1> QED  BY ONLY <1>11, <1>13, <1>14, Zenon

(* A dispatcher that ends. *)
LEMMA WholeCutMiddle ==
  ASSUME NEW T, NEW a, NEW b, NEW c, NEW d, NEW e,
         a \in Seq(T), b \in Seq(T), c \in Seq(T), d \in Seq(T), e \in Seq(T),
         NEW n, n \in Nat, NEW wanted
  PROVE  Only(Whole(Without(a, n), <<>>, <<>>, <<>>, e), wanted)
           \in TheBus!Remains(Only(Whole(a, b, c, d, e), wanted))
<1>1. PICK rest : rest = Without(a, n)
  OBVIOUS
<1>2. rest \in Seq(T) /\ \E gone \in Seq(T) : a = rest \o gone
  <2>1. Without(a, n) \in Seq(T) /\ \E gone \in Seq(T) : a = Without(a, n) \o gone
    BY ONLY a \in Seq(T), n \in Nat, WithoutIsStart
  <2> QED  BY ONLY <1>1, <2>1, Zenon
<1>3. PICK gone : gone \in Seq(T) /\ a = rest \o gone
  BY ONLY <1>2, Zenon
<1>4. PICK gb, gbc, all : gb = gone \o b /\ gbc = gb \o c /\ all = gbc \o d
  OBVIOUS
<1>5. gb \in Seq(T)
  BY ONLY <1>3, <1>4, b \in Seq(T), JoinTyped
<1>6. gbc \in Seq(T)
  BY ONLY <1>4, <1>5, c \in Seq(T), JoinTyped
<1>7. all \in Seq(T)
  BY ONLY <1>4, <1>6, d \in Seq(T), JoinTyped
<1>8. (rest \o gone) \o b = rest \o (gone \o b)
  BY ONLY <1>2, <1>3, b \in Seq(T), ConcatAssociative
<1>9. (rest \o gb) \o c = rest \o (gb \o c)
  BY ONLY <1>2, <1>5, c \in Seq(T), ConcatAssociative
<1>10. (rest \o gbc) \o d = rest \o (gbc \o d)
  BY ONLY <1>2, <1>6, d \in Seq(T), ConcatAssociative
<1>11. Whole(a, b, c, d, e) = (rest \o all) \o e
  BY ONLY <1>3, <1>4, <1>8, <1>9, <1>10, Zenon DEF Whole
<1>12. rest \o <<>> = rest
  BY ONLY <1>2, ConcatEmptySeq
<1>13. Whole(rest, <<>>, <<>>, <<>>, e) = rest \o e
  BY ONLY <1>12, Zenon DEF Whole
<1>14. PICK la : la = rest \o all
  OBVIOUS
<1>15. la \in Seq(T)
  BY ONLY <1>2, <1>7, <1>14, JoinTyped
<1>16. Only(la \o e, wanted) = Only(la, wanted) \o Only(e, wanted)
  BY ONLY <1>15, e \in Seq(T), OnlyConcat
<1>17. Only(rest \o all, wanted) = Only(rest, wanted) \o Only(all, wanted)
  BY ONLY <1>2, <1>7, OnlyConcat
<1>18. Only(rest \o e, wanted) = Only(rest, wanted) \o Only(e, wanted)
  BY ONLY <1>2, e \in Seq(T), OnlyConcat
<1>19. PICK x, y, z : x = Only(rest, wanted) /\ y = Only(all, wanted) /\ z = Only(e, wanted)
  OBVIOUS
<1>20. x \in Seq(T \cap wanted) /\ y \in Seq(T \cap wanted) /\ z \in Seq(T \cap wanted)
  BY ONLY <1>2, <1>7, <1>19, e \in Seq(T), OnlyTyped
<1>21. x \o z \in TheBus!Remains(x \o y \o z)
  BY ONLY <1>20, MiddleLost
<1> QED  BY ONLY <1>1, <1>11, <1>13, <1>14, <1>16, <1>17, <1>18, <1>19, <1>21, Zenon

-----------------------------------------------------------------------------
(* Where the dispatcher is, and what its queues hold. *)

Sendable == [source : Modules, event : Events, number : Nat]
SentBy(m) == [source : {m}, event : Events, number : Nat]

(* What is in the outbox of a module is its own.                           *)
QueuesTyped ==
  /\ DOMAIN outbox = Modules /\ \A m \in Modules : outbox[m] \in Seq(SentBy(m))
  /\ inbox \in [Modules -> Seq(Sendable)]
  /\ held \in [Modules -> Seq(Sendable)]
  /\ pending \in Seq(Sendable)

(* It begins with the first module whenever it takes a message.            *)
LoopTyped ==
  /\ turn \in 1..Len(Endpoints)
  /\ pc \in {"down", "flush", "wait", "dispatch"}
  /\ pc \in {"down", "wait"} => turn = 1
  /\ pc = "dispatch" => hand \in Sendable
  /\ pc = "down" => held = [m \in Modules |-> <<>>] /\ pending = <<>>

Unsents == [outbox : [Modules -> Nat], inbox : [Modules -> Nat]]

CountsTyped ==
  /\ unsent \in Unsents
  /\ published \in [Modules -> Nat]
  /\ ends \in Nat /\ crashes \in Nat

Typed == QueuesTyped /\ LoopTyped /\ CountsTyped

LEMMA EndpointsAre ==
  /\ Len(Endpoints) \in Nat \ {0}
  /\ \A i \in 1..Len(Endpoints) : Endpoints[i] \in Modules
  /\ \A s \in Modules : /\ Place(s) \in 1..Len(Endpoints)
                        /\ \A i \in 1..Len(Endpoints) : Endpoints[i] = s <=> i = Place(s)
<1>1. Endpoints \in Seq(Modules) /\ Modules = {Endpoints[i] : i \in DOMAIN Endpoints} /\ Modules # {}
  BY DispatcherAssumption DEF ToSet
<1>2. \A i, j \in DOMAIN Endpoints : Endpoints[i] = Endpoints[j] => i = j
  BY DispatcherAssumption DEF IsInjective
<1>3. DOMAIN Endpoints = 1..Len(Endpoints) /\ Len(Endpoints) \in Nat
  BY <1>1
<1>4. ASSUME NEW s \in Modules
      PROVE  Place(s) \in 1..Len(Endpoints) /\ Endpoints[Place(s)] = s
  <2>1. \E i \in 1..Len(Endpoints) : Endpoints[i] = s
    BY <1>1, <1>3
  <2> QED  BY <2>1 DEF Place
<1>5. \A i \in 1..Len(Endpoints) : Endpoints[i] \in Modules
  BY <1>1, <1>3
<1>6. Len(Endpoints) # 0
  BY <1>1, <1>3
<1> QED  BY <1>2, <1>3, <1>4, <1>5, <1>6

LEMMA OutboxTyped ==
  ASSUME NEW m \in Modules, NEW box, box \in Seq(SentBy(m))
  PROVE  box \in Seq(Sendable)
<1>1. SentBy(m) \subseteq Sendable
  BY DEF SentBy, Sendable
<1> QED  BY <1>1, SeqMonotonic

LEMMA InHandTyped ==
  ASSUME LoopTyped, NEW s \in Modules
  PROVE  InHand(s) \in Seq(Sendable)
BY DEF LoopTyped, InHand

LEMMA InitTyped == Init => Typed
<1> SUFFICES ASSUME Init PROVE Typed
  OBVIOUS
<1>1. QueuesTyped
  BY DEF Init, QueuesTyped
<1>2. LoopTyped
  BY EndpointsAre DEF Init, LoopTyped
<1>3. CountsTyped
  BY DEF Init, CountsTyped, Unsents
<1> QED  BY <1>1, <1>2, <1>3 DEF Typed

LEMMA UnsentTyped ==
  ASSUME NEW u, u \in Unsents, NEW m, m \in Modules, NEW n, n \in Nat
  PROVE  /\ u.inbox[m] \in Nat /\ u.outbox[m] \in Nat
         /\ [u EXCEPT !.inbox[m] = n] \in Unsents
         /\ [u EXCEPT !.outbox[m] = n] \in Unsents
<1>1. PICK o \in [Modules -> Nat], i \in [Modules -> Nat] : u = [outbox |-> o, inbox |-> i]
  BY DEF Unsents
<1>2. /\ [u EXCEPT !.inbox[m] = n] = [outbox |-> o, inbox |-> [i EXCEPT ![m] = n]]
      /\ [u EXCEPT !.outbox[m] = n] = [outbox |-> [o EXCEPT ![m] = n], inbox |-> i]
  BY <1>1
<1>3. [i EXCEPT ![m] = n] \in [Modules -> Nat] /\ [o EXCEPT ![m] = n] \in [Modules -> Nat]
  OBVIOUS
<1> QED  BY <1>1, <1>2, <1>3 DEF Unsents

(* Putting a message into an inbox, or holding it. *)
LEMMA PutTyped ==
  ASSUME Typed, NEW m \in Modules, NEW x, x \in Sendable
  PROVE  /\ PutInto(m, x) => /\ inbox' \in [Modules -> Seq(Sendable)]
                             /\ unsent' \in Unsents
         /\ Hold(m, x) => held' \in [Modules -> Seq(Sendable)]
<1>1. ASSUME PutInto(m, x)
      PROVE  inbox' \in [Modules -> Seq(Sendable)]
  BY <1>1 DEF Typed, QueuesTyped, PutInto
<1>2. ASSUME PutInto(m, x)
      PROVE  unsent' \in Unsents
  <2>1. unsent \in Unsents /\ unsent' = [unsent EXCEPT !.inbox[m] = unsent.inbox[m] + 1]
    BY <1>2 DEF PutInto, Typed, CountsTyped
  <2>2. unsent.inbox[m] + 1 \in Nat
    <3>1. unsent.inbox[m] \in Nat
      BY <2>1, UnsentTyped
    <3> QED  BY <3>1
  <2> QED  BY <2>1, <2>2, UnsentTyped
<1>3. ASSUME Hold(m, x)
      PROVE  held' \in [Modules -> Seq(Sendable)]
  BY <1>3 DEF Typed, QueuesTyped, Hold
<1> QED  BY <1>1, <1>2, <1>3

LEMMA LessTakenTyped ==
  ASSUME NEW T, NEW box, box \in Seq(T), box # <<>>, NEW n, n \in Nat
  PROVE  LessTaken(n, box) \in Nat
<1>1. Len(box) \in Nat /\ Len(box) # 0
  OBVIOUS
<1>2. n = Len(box) => n - 1 \in Nat
  BY <1>1
<1> QED  BY <1>2 DEF LessTaken

LEMMA StepTyped ==
  ASSUME Typed, [Next]_vars
  PROVE  Typed'
<1> USE DEF Typed
<1>1. CASE UNCHANGED vars
  BY <1>1 DEF vars, QueuesTyped, LoopTyped, CountsTyped, Unsents
<1>2. ASSUME NEW m \in Modules, NEW e \in Events, Publish(m, e)
      PROVE  Typed'
  <2>1. PICK x : x = [source |-> m, event |-> e, number |-> published[m] + 1]
    OBVIOUS
  <2>2. /\ outbox' = [outbox EXCEPT ![m] = Append(@, x)]
        /\ unsent' = [unsent EXCEPT !.outbox[m] = unsent.outbox[m] + 1]
        /\ published' = [published EXCEPT ![m] = @ + 1]
        /\ UNCHANGED <<inbox, up, memory, received, ends, crashes>>
    BY <1>2, <2>1 DEF Publish
  <2>3. x \in SentBy(m)
    BY <2>1 DEF SentBy, CountsTyped, Unsents
  <2>4. QueuesTyped'
    BY <2>2, <2>3 DEF QueuesTyped, memory
  <2>5. LoopTyped'
    BY <2>2 DEF LoopTyped, memory
  <2>6. unsent' \in Unsents
    <3>1. unsent \in Unsents
      BY DEF CountsTyped
    <3>2. unsent.outbox[m] + 1 \in Nat
      <4>1. unsent.outbox[m] \in Nat
        BY <3>1, UnsentTyped
      <4> QED  BY <4>1
    <3> QED  BY <2>2, <3>1, <3>2, UnsentTyped
  <2>7. CountsTyped'
    BY <2>2, <2>6 DEF CountsTyped
  <2> QED  BY <2>4, <2>5, <2>7
<1>3. ASSUME NEW m \in Modules, Receive(m)
      PROVE  Typed'
  <2>1. /\ inbox[m] # <<>> /\ inbox' = [inbox EXCEPT ![m] = Tail(@)]
        /\ unsent' = [unsent EXCEPT !.inbox[m] = LessTaken(@, inbox[m])]
        /\ UNCHANGED <<outbox, up, memory, published, ends, crashes>>
    BY <1>3 DEF Receive
  <2>2. QueuesTyped'
    BY <2>1 DEF QueuesTyped, memory
  <2>3. LoopTyped'
    BY <2>1 DEF LoopTyped, memory
  <2>4. LessTaken(unsent.inbox[m], inbox[m]) \in Nat
    BY <2>1, LessTakenTyped DEF QueuesTyped, CountsTyped, Unsents
  <2>5. CountsTyped'
    BY <2>1, <2>4 DEF CountsTyped, Unsents
  <2> QED  BY <2>2, <2>3, <2>5
<1>4. ASSUME NEW m \in Modules, Crash(m)
      PROVE  Typed'
  <2>1. PICK n \in 0..unsent.outbox[m] : outbox' = [outbox EXCEPT ![m] = Without(@, n)]
    BY <1>4 DEF Crash
  <2>2. /\ unsent' = [unsent EXCEPT !.outbox[m] = 0] /\ crashes' = crashes + 1
        /\ UNCHANGED <<inbox, memory, published, received, ends>>
    BY <1>4 DEF Crash
  <2>3. n \in Nat
    BY <2>1 DEF CountsTyped, Unsents
  <2>4. Without(outbox[m], n) \in Seq(SentBy(m))
    BY <2>3, WithoutIsStart DEF QueuesTyped
  <2>5. QueuesTyped'
    BY <2>1, <2>2, <2>4 DEF QueuesTyped, memory
  <2>6. LoopTyped'
    BY <2>2 DEF LoopTyped, memory
  <2>7. CountsTyped'
    BY <2>2 DEF CountsTyped, Unsents
  <2> QED  BY <2>5, <2>6, <2>7
<1>5. ASSUME NEW m \in Modules, Restart(m)
      PROVE  Typed'
  BY <1>5 DEF Restart, queues, memory, history, QueuesTyped, LoopTyped, CountsTyped, Unsents
<1>6. ASSUME NEW m \in Modules, Forward(m)
      PROVE  Typed'
  <2>1. /\ pc # "down" /\ outbox[m] # <<>> /\ pending' = Append(pending, Head(outbox[m]))
        /\ unsent' = [unsent EXCEPT !.outbox[m] = LessTaken(@, outbox[m])]
        /\ outbox' = [outbox EXCEPT ![m] = Tail(@)]
        /\ UNCHANGED <<inbox, up, pc, turn, hand, held, history>>
    BY <1>6 DEF Forward
  <2>2. /\ outbox[m] \in Seq(Sendable) /\ Head(outbox[m]) \in Sendable
        /\ Tail(outbox[m]) \in Seq(SentBy(m))
    BY <2>1, OutboxTyped DEF QueuesTyped
  <2>3. QueuesTyped'
    BY <2>1, <2>2 DEF QueuesTyped
  <2>4. LoopTyped'
    BY <2>1 DEF LoopTyped
  <2>5. LessTaken(unsent.outbox[m], outbox[m]) \in Nat
    BY <2>1, <2>2, LessTakenTyped DEF CountsTyped, Unsents
  <2>6. CountsTyped'
    BY <2>1, <2>5 DEF CountsTyped, Unsents, history
  <2> QED  BY <2>3, <2>4, <2>6
<1>7. CASE Flush
  <2>1. PICK m \in Modules : m = Endpoints[turn]
    BY EndpointsAre DEF LoopTyped
  <2>2. pc = "flush" /\ UNCHANGED <<outbox, up, hand, pending, history>>
    BY <1>7 DEF Flush
  <2>3. \/ /\ held[m] # <<>> /\ PutInto(m, Head(held[m])) /\ held' = [held EXCEPT ![m] = Tail(@)]
           /\ UNCHANGED <<pc, turn>>
        \/ Advance("wait") /\ UNCHANGED <<inbox, unsent, held>>
    BY <1>7, <2>1, Zenon DEF Flush
  <2>4. CASE /\ held[m] # <<>> /\ PutInto(m, Head(held[m])) /\ held' = [held EXCEPT ![m] = Tail(@)]
             /\ UNCHANGED <<pc, turn>>
    <3>1. Head(held[m]) \in Sendable /\ Tail(held[m]) \in Seq(Sendable)
      BY <2>4 DEF QueuesTyped
    <3>2. /\ inbox' \in [Modules -> Seq(Sendable)]
          /\ unsent' \in Unsents
      BY <2>4, <3>1, PutTyped
    <3>3. QueuesTyped'
      BY <2>2, <2>4, <3>1, <3>2 DEF QueuesTyped
    <3>4. LoopTyped'
      BY <2>2, <2>4 DEF LoopTyped
    <3>5. CountsTyped'
      BY <2>2, <3>2 DEF CountsTyped, Unsents, history
    <3> QED  BY <3>3, <3>4, <3>5
  <2>5. CASE Advance("wait") /\ UNCHANGED <<inbox, unsent, held>>
    <3>1. \/ turn < Len(Endpoints) /\ turn' = turn + 1 /\ pc' = pc
          \/ turn' = 1 /\ pc' = "wait"
      BY <2>5 DEF Advance
    <3>2. QueuesTyped'
      BY <2>2, <2>5 DEF QueuesTyped
    <3>3. LoopTyped'
      BY <2>2, <2>5, <3>1, EndpointsAre DEF LoopTyped
    <3>4. CountsTyped'
      BY <2>2, <2>5 DEF CountsTyped, Unsents, history
    <3> QED  BY <3>2, <3>3, <3>4
  <2> QED  BY <2>3, <2>4, <2>5
<1>8. CASE Take
  <2>1. /\ pc = "wait" /\ pending # <<>> /\ hand' = Head(pending) /\ pending' = Tail(pending)
        /\ pc' = "dispatch" /\ UNCHANGED <<queues, up, turn, held, history>>
    BY <1>8 DEF Take
  <2>2. Head(pending) \in Sendable /\ Tail(pending) \in Seq(Sendable)
    BY <2>1 DEF QueuesTyped
  <2>3. QueuesTyped'
    BY <2>1, <2>2 DEF QueuesTyped, queues
  <2>4. LoopTyped'
    BY <2>1, <2>2 DEF LoopTyped
  <2>5. CountsTyped'
    BY <2>1 DEF CountsTyped, Unsents, queues, history
  <2> QED  BY <2>3, <2>4, <2>5
<1>9. CASE NothingCame
  BY <1>9 DEF NothingCame, queues, history, QueuesTyped, LoopTyped, CountsTyped, Unsents
<1>10. CASE Dispatch
  <2>1. PICK m \in Modules : m = Endpoints[turn]
    BY EndpointsAre DEF LoopTyped
  <2>2. pc = "dispatch" /\ hand \in Sendable
    BY <1>10 DEF Dispatch, LoopTyped
  <2>3. /\ Advance("flush") /\ UNCHANGED <<outbox, up, pending, history>>
        /\ hand' = IF turn = Len(Endpoints) THEN NoMessage ELSE hand
    BY <1>10 DEF Dispatch
  <2>4. \/ PutInto(m, hand) /\ UNCHANGED held
        \/ Hold(m, hand) /\ UNCHANGED <<inbox, unsent>>
        \/ UNCHANGED <<inbox, unsent, held>>
    BY <1>10, <2>1, Zenon DEF Dispatch, Put
  <2>5. /\ inbox' \in [Modules -> Seq(Sendable)] /\ held' \in [Modules -> Seq(Sendable)]
        /\ unsent' \in Unsents
    <3>1. CASE PutInto(m, hand) /\ UNCHANGED held
      BY <2>2, <3>1, PutTyped DEF QueuesTyped
    <3>2. CASE Hold(m, hand) /\ UNCHANGED <<inbox, unsent>>
      BY <2>2, <3>2, PutTyped DEF QueuesTyped, CountsTyped, Unsents
    <3>3. CASE UNCHANGED <<inbox, unsent, held>>
      BY <3>3 DEF QueuesTyped, CountsTyped, Unsents
    <3> QED  BY <2>4, <3>1, <3>2, <3>3
  <2>6. \/ turn < Len(Endpoints) /\ turn' = turn + 1 /\ pc' = pc /\ hand' = hand
        \/ turn' = 1 /\ pc' = "flush"
    BY <2>3, EndpointsAre DEF Advance, LoopTyped
  <2>7. QueuesTyped'
    BY <2>3, <2>5 DEF QueuesTyped
  <2>8. LoopTyped'
    BY <2>2, <2>6, EndpointsAre DEF LoopTyped
  <2>9. CountsTyped'
    BY <2>3, <2>5 DEF CountsTyped, Unsents, history
  <2> QED  BY <2>7, <2>8, <2>9
<1>11. CASE End
  <2>1. PICK lost \in [Modules -> 0..Capacity] :
          inbox' = [m \in Modules |-> Without(inbox[m], lost[m])]
    BY <1>11 DEF End
  <2>2. /\ unsent' = [unsent EXCEPT !.inbox = [m \in Modules |-> 0]]
        /\ pc' = "down" /\ turn' = 1 /\ pending' = <<>> /\ held' = [m \in Modules |-> <<>>]
        /\ ends' = ends + 1 /\ UNCHANGED <<outbox, up, published, received, crashes>>
    BY <1>11 DEF End
  <2>3. ASSUME NEW m \in Modules PROVE Without(inbox[m], lost[m]) \in Seq(Sendable)
    <3>1. inbox[m] \in Seq(Sendable) /\ lost[m] \in Nat
      BY DispatcherAssumption DEF QueuesTyped
    <3> QED  BY <3>1, WithoutIsStart
  <2>4. QueuesTyped'
    BY <2>1, <2>2, <2>3 DEF QueuesTyped
  <2>5. LoopTyped'
    BY <2>2, EndpointsAre DEF LoopTyped
  <2>6. CountsTyped'
    <3>1. [m \in Modules |-> 0] \in [Modules -> Nat]
      OBVIOUS
    <3>2. unsent' \in Unsents
      BY <2>2, <3>1 DEF CountsTyped, Unsents
    <3> QED  BY <2>2, <3>2 DEF CountsTyped
  <2> QED  BY <2>4, <2>5, <2>6
<1>12. CASE Begin
  BY <1>12 DEF Begin, queues, history, QueuesTyped, LoopTyped, CountsTyped, Unsents
<1> QED
  BY <1>1, <1>2, <1>3, <1>4, <1>5, <1>6, <1>7, <1>8, <1>9, <1>10, <1>11, <1>12 DEF Next, Loop

LEMMA AlwaysTyped == Spec => []Typed
BY InitTyped, StepTyped, PTL DEF Spec

-----------------------------------------------------------------------------
(* What each step does to the messages on their way from p to s. *)

LEMMA WayIs ==
  ASSUME NEW p, NEW s
  PROVE  /\ OnItsWay(p, s) = Only(Whole(inbox[s], held[s], InHand(s), pending, outbox[p]), For(p, s))
         /\ OnItsWay(p, s)' = Only(Whole(inbox'[s], held'[s], InHand(s)', pending', outbox'[p]), For(p, s))
BY DEF OnItsWay, Whole

LEMMA PartsTyped ==
  ASSUME Typed, NEW p \in Modules, NEW s \in Modules
  PROVE  /\ inbox[s] \in Seq(Sendable) /\ held[s] \in Seq(Sendable) /\ InHand(s) \in Seq(Sendable)
         /\ pending \in Seq(Sendable) /\ outbox[p] \in Seq(Sendable)
BY InHandTyped, OutboxTyped DEF Typed, QueuesTyped

Still == \A p, s \in Modules : p # s => OnItsWay(p, s)' = OnItsWay(p, s)
Thins == \A p, s \in Modules : p # s => OnItsWay(p, s)' \in TheBus!Remains(OnItsWay(p, s))

(* A message is for the link from its publisher to each that wants it.    *)
LEMMA ForIs ==
  ASSUME NEW x, x \in Sendable, NEW p \in Modules, NEW s \in Modules, p # s
  PROVE  x \in For(p, s) <=> x.source = p /\ Wants(s, x)
BY DEF Sendable, For, Wants

LEMMA PublishWay ==
  ASSUME Typed, NEW m \in Modules, NEW e \in Events, Publish(m, e),
         NEW p \in Modules, NEW s \in Modules, p # s,
         NEW x, x = [source |-> m, event |-> e, number |-> published[m] + 1]
  PROVE  OnItsWay(p, s)' = IF p = m /\ Wants(s, x) THEN Append(OnItsWay(p, s), x) ELSE OnItsWay(p, s)
<1>1. /\ outbox' = [outbox EXCEPT ![m] = Append(@, x)]
      /\ UNCHANGED <<inbox, memory>>
  BY DEF Publish
<1>2. DOMAIN outbox = Modules
  BY DEF Typed, QueuesTyped
<1>3. InHand(s)' = InHand(s)
  BY <1>1 DEF InHand, memory
<1>4. PICK a, b, c, d, o : a = inbox[s] /\ b = held[s] /\ c = InHand(s) /\ d = pending /\ o = outbox[p]
  OBVIOUS
<1>5. a \in Seq(Sendable) /\ b \in Seq(Sendable) /\ c \in Seq(Sendable) /\ d \in Seq(Sendable) /\ o \in Seq(Sendable)
  BY <1>4, PartsTyped
<1>6. OnItsWay(p, s) = Only(Whole(a, b, c, d, o), For(p, s))
  BY <1>4, WayIs
<1>7. CASE p = m
  <2>1. outbox'[p] = Append(o, x)
    BY <1>1, <1>2, <1>4, <1>7
  <2>2. OnItsWay(p, s)' = Only(Whole(a, b, c, d, Append(o, x)), For(p, s))
    BY <1>1, <1>3, <1>4, <2>1, WayIs DEF memory
  <2>3. x \in Sendable
    BY DEF Sendable, Typed, CountsTyped
  <2>4. x \in For(p, s) <=> Wants(s, x)
    BY <1>7, <2>3, ForIs
  <2>5. Only(Whole(a, b, c, d, Append(o, x)), For(p, s)) =
          IF x \in For(p, s) THEN Append(Only(Whole(a, b, c, d, o), For(p, s)), x)
          ELSE Only(Whole(a, b, c, d, o), For(p, s))
    BY ONLY <1>5, <2>3, WholeGrows
  <2> QED  BY ONLY <1>6, <1>7, <2>2, <2>4, <2>5, Zenon
<1>8. CASE p # m
  <2>1. outbox'[p] = o
    BY <1>1, <1>2, <1>4, <1>8
  <2>2. OnItsWay(p, s)' = OnItsWay(p, s)
    BY <1>1, <1>3, <1>4, <1>6, <2>1, WayIs DEF memory
  <2> QED  BY <1>8, <2>2
<1> QED  BY <1>7, <1>8

LEMMA ReceiveWay ==
  ASSUME Typed, NEW m \in Modules, Receive(m),
         NEW p \in Modules, NEW s \in Modules, p # s,
         NEW x, x = Head(inbox[m])
  PROVE  IF s = m /\ x.source = p /\ Wants(m, x)
         THEN /\ OnItsWay(p, s) # <<>> /\ Head(OnItsWay(p, s)) = x
              /\ OnItsWay(p, s)' = Tail(OnItsWay(p, s))
         ELSE OnItsWay(p, s)' = OnItsWay(p, s)
<1>1. /\ inbox[m] # <<>> /\ inbox' = [inbox EXCEPT ![m] = Tail(@)]
      /\ UNCHANGED <<outbox, memory>>
  BY DEF Receive
<1>2. InHand(s)' = InHand(s)
  BY <1>1 DEF InHand, memory
<1>3. PICK a, b, c, d, o : a = inbox[s] /\ b = held[s] /\ c = InHand(s) /\ d = pending /\ o = outbox[p]
  OBVIOUS
<1>4. a \in Seq(Sendable) /\ b \in Seq(Sendable) /\ c \in Seq(Sendable) /\ d \in Seq(Sendable) /\ o \in Seq(Sendable)
  BY <1>3, PartsTyped
<1>5. OnItsWay(p, s) = Only(Whole(a, b, c, d, o), For(p, s))
  BY <1>3, WayIs
<1>6. DOMAIN inbox = Modules
  BY DEF Typed, QueuesTyped
<1>7. CASE s = m
  <2>1. inbox'[s] = Tail(a) /\ x = Head(a) /\ a # <<>>
    BY <1>1, <1>3, <1>6, <1>7
  <2>2. OnItsWay(p, s)' = Only(Whole(Tail(a), b, c, d, o), For(p, s))
    BY <1>1, <1>2, <1>3, <2>1, WayIs DEF memory
  <2>3. x \in Sendable
    BY <1>4, <2>1
  <2>4. x \in For(p, s) <=> x.source = p /\ Wants(m, x)
    BY <1>7, <2>3, ForIs
  <2>5. /\ Head(a) \notin For(p, s) =>
             Only(Whole(a, b, c, d, o), For(p, s)) = Only(Whole(Tail(a), b, c, d, o), For(p, s))
        /\ Head(a) \in For(p, s) =>
             /\ Only(Whole(a, b, c, d, o), For(p, s)) # <<>>
             /\ Head(Only(Whole(a, b, c, d, o), For(p, s))) = Head(a)
             /\ Tail(Only(Whole(a, b, c, d, o), For(p, s))) = Only(Whole(Tail(a), b, c, d, o), For(p, s))
    BY ONLY <1>4, <2>1, WholeTaken
  <2> QED  BY ONLY <1>5, <1>7, <2>1, <2>2, <2>4, <2>5, Zenon
<1>8. CASE s # m
  <2>1. inbox'[s] = a
    BY <1>1, <1>3, <1>6, <1>8
  <2>2. OnItsWay(p, s)' = OnItsWay(p, s)
    BY <1>1, <1>2, <1>3, <1>5, <2>1, WayIs DEF memory
  <2> QED  BY <1>8, <2>2
<1> QED  BY <1>7, <1>8

(* What is left of a sequence may be all of it. *)
LEMMA AllRemains ==
  ASSUME NEW T, NEW a \in Seq(T)
  PROVE  a \in TheBus!Remains(a)
<1>1. <<>> \in Seq(T) /\ a \o <<>> = a
  BY ConcatEmptySeq
<1>2. a \in TheBus!Remains(a \o <<>>)
  BY <1>1, EndLost
<1> QED  BY <1>1, <1>2, Zenon

LEMMA WayTyped ==
  ASSUME Typed, NEW p \in Modules, NEW s \in Modules
  PROVE  OnItsWay(p, s) \in Seq(Sendable \cap For(p, s))
<1>1. Whole(inbox[s], held[s], InHand(s), pending, outbox[p]) \in Seq(Sendable)
  BY PartsTyped, WholeTyped
<1>2. PICK all : all = Whole(inbox[s], held[s], InHand(s), pending, outbox[p])
  OBVIOUS
<1>3. Only(all, For(p, s)) \in Seq(Sendable \cap For(p, s))
  BY ONLY <1>1, <1>2, OnlyTyped
<1> QED  BY <1>2, <1>3, WayIs, Zenon

LEMMA CrashThins ==
  ASSUME Typed, NEW m \in Modules, Crash(m)
  PROVE  Thins
<1>1. PICK n \in 0..unsent.outbox[m] : outbox' = [outbox EXCEPT ![m] = Without(@, n)]
  BY DEF Crash
<1>2. UNCHANGED <<inbox, memory>>
  BY DEF Crash
<1>3. n \in Nat
  BY <1>1, UnsentTyped DEF Typed, CountsTyped
<1>4. DOMAIN outbox = Modules
  BY DEF Typed, QueuesTyped
<1>5. ASSUME NEW p \in Modules, NEW s \in Modules
      PROVE  OnItsWay(p, s)' \in TheBus!Remains(OnItsWay(p, s))
  <2>1. InHand(s)' = InHand(s)
    BY <1>2 DEF InHand, memory
  <2>2. PICK a, b, c, d, o : a = inbox[s] /\ b = held[s] /\ c = InHand(s) /\ d = pending /\ o = outbox[p]
    OBVIOUS
  <2>3. a \in Seq(Sendable) /\ b \in Seq(Sendable) /\ c \in Seq(Sendable) /\ d \in Seq(Sendable) /\ o \in Seq(Sendable)
    BY <2>2, PartsTyped
  <2>4. OnItsWay(p, s) = Only(Whole(a, b, c, d, o), For(p, s))
    BY <2>2, WayIs
  <2>5. CASE p = m
    <3>1. outbox'[p] = Without(o, n)
      BY <1>1, <1>4, <2>2, <2>5
    <3>2. OnItsWay(p, s)' = Only(Whole(a, b, c, d, Without(o, n)), For(p, s))
      BY <1>2, <2>1, <2>2, <3>1, WayIs DEF memory
    <3>3. Only(Whole(a, b, c, d, Without(o, n)), For(p, s))
            \in TheBus!Remains(Only(Whole(a, b, c, d, o), For(p, s)))
      BY ONLY <1>3, <2>3, WholeCutLast
    <3> QED  BY ONLY <2>4, <3>2, <3>3, Zenon
  <2>6. CASE p # m
    <3>1. outbox'[p] = o
      BY <1>1, <1>4, <2>2, <2>6
    <3>2. OnItsWay(p, s)' = OnItsWay(p, s)
      BY <1>2, <2>1, <2>2, <2>4, <3>1, WayIs DEF memory
    <3> QED  BY <3>2, WayTyped, AllRemains
  <2> QED  BY <2>5, <2>6
<1> QED  BY <1>5 DEF Thins

LEMMA ForwardStill ==
  ASSUME Typed, NEW m \in Modules, Forward(m)
  PROVE  Still
<1>1. /\ outbox[m] # <<>> /\ pending' = Append(pending, Head(outbox[m]))
      /\ outbox' = [outbox EXCEPT ![m] = Tail(@)]
      /\ UNCHANGED <<inbox, up, pc, turn, hand, held>>
  BY DEF Forward
<1>2. DOMAIN outbox = Modules
  BY DEF Typed, QueuesTyped
<1>3. PICK x : x = Head(outbox[m])
  OBVIOUS
<1>4. x \in Sendable /\ x.source = m
  <2>1. outbox[m] \in Seq(SentBy(m))
    BY DEF Typed, QueuesTyped
  <2>2. x \in SentBy(m)
    BY <1>1, <1>3, <2>1
  <2> QED  BY <2>2 DEF SentBy, Sendable
<1>5. ASSUME NEW p \in Modules, NEW s \in Modules, p # s
      PROVE  OnItsWay(p, s)' = OnItsWay(p, s)
  <2>1. InHand(s)' = InHand(s)
    BY <1>1 DEF InHand
  <2>2. PICK a, b, c, d, o : a = inbox[s] /\ b = held[s] /\ c = InHand(s) /\ d = pending /\ o = outbox[p]
    OBVIOUS
  <2>3. a \in Seq(Sendable) /\ b \in Seq(Sendable) /\ c \in Seq(Sendable) /\ d \in Seq(Sendable) /\ o \in Seq(Sendable)
    BY <2>2, PartsTyped
  <2>4. OnItsWay(p, s) = Only(Whole(a, b, c, d, o), For(p, s))
    BY <2>2, WayIs
  <2>5. CASE p = m
    <3>1. outbox'[p] = Tail(o) /\ pending' = Append(d, Head(o)) /\ o # <<>>
      BY <1>1, <1>2, <2>2, <2>5
    <3>2. OnItsWay(p, s)' = Only(Whole(a, b, c, Append(d, Head(o)), Tail(o)), For(p, s))
      BY <1>1, <2>1, <2>2, <3>1, WayIs
    <3>3. Whole(a, b, c, Append(d, Head(o)), Tail(o)) = Whole(a, b, c, d, o)
      BY ONLY <2>3, <3>1, WholeForwarded
    <3> QED  BY ONLY <2>4, <3>2, <3>3, Zenon
  <2>6. CASE p # m
    <3>1. outbox'[p] = o /\ pending' = Append(d, x)
      BY <1>1, <1>2, <1>3, <2>2, <2>6
    <3>2. OnItsWay(p, s)' = Only(Whole(a, b, c, Append(d, x), o), For(p, s))
      BY <1>1, <2>1, <2>2, <3>1, WayIs
    <3>3. x \notin For(p, s)
      BY <1>4, <1>5, <2>6, ForIs
    <3>4. Only(Whole(a, b, c, Append(d, x), o), For(p, s)) = Only(Whole(a, b, c, d, o), For(p, s))
      BY ONLY <1>4, <2>3, <3>3, WholeForwardedOther
    <3> QED  BY ONLY <2>4, <3>2, <3>4, Zenon
  <2> QED  BY <2>5, <2>6
<1> QED  BY <1>5 DEF Still

LEMMA FlushStill ==
  ASSUME Typed, Flush
  PROVE  Still
<1>1. PICK m \in Modules : m = Endpoints[turn]
  BY EndpointsAre DEF Typed, LoopTyped
<1>2. pc = "flush" /\ UNCHANGED <<outbox, pending>>
  BY DEF Flush
<1>3. \/ /\ held[m] # <<>> /\ PutInto(m, Head(held[m])) /\ held' = [held EXCEPT ![m] = Tail(@)]
         /\ UNCHANGED <<pc, turn>>
      \/ Advance("wait") /\ UNCHANGED <<inbox, unsent, held>>
  BY <1>1, Zenon DEF Flush
<1>4. pc' # "dispatch"
  BY <1>2, <1>3 DEF Advance
<1>5. DOMAIN inbox = Modules /\ DOMAIN held = Modules
  BY DEF Typed, QueuesTyped
<1>6. ASSUME NEW p \in Modules, NEW s \in Modules
      PROVE  OnItsWay(p, s)' = OnItsWay(p, s)
  <2>1. InHand(s)' = <<>> /\ InHand(s) = <<>>
    BY <1>2, <1>4 DEF InHand
  <2>2. PICK a, b, d, o : a = inbox[s] /\ b = held[s] /\ d = pending /\ o = outbox[p]
    OBVIOUS
  <2>3. a \in Seq(Sendable) /\ b \in Seq(Sendable)
    BY <2>2, PartsTyped
  <2>4. OnItsWay(p, s) = Only(Whole(a, b, <<>>, d, o), For(p, s))
    BY <2>1, <2>2, WayIs
  <2>5. CASE s = m /\ held[m] # <<>> /\ PutInto(m, Head(held[m])) /\ held' = [held EXCEPT ![m] = Tail(@)]
    <3>1. inbox'[s] = Append(a, Head(b)) /\ held'[s] = Tail(b) /\ b # <<>>
      BY <1>5, <2>2, <2>5 DEF PutInto
    <3>2. OnItsWay(p, s)' = Only(Whole(Append(a, Head(b)), Tail(b), <<>>, d, o), For(p, s))
      BY <1>2, <2>1, <2>2, <3>1, WayIs
    <3>3. Whole(Append(a, Head(b)), Tail(b), <<>>, d, o) = Whole(a, b, <<>>, d, o)
      BY ONLY <2>3, <3>1, WholeFlushed
    <3> QED  BY ONLY <2>4, <3>2, <3>3, Zenon
  <2>6. CASE s # m \/ UNCHANGED <<inbox, held>>
    <3>1. inbox'[s] = a /\ held'[s] = b
      BY <1>3, <1>5, <2>2, <2>6 DEF PutInto
    <3> QED  BY <1>2, <2>1, <2>2, <2>4, <3>1, WayIs
  <2> QED  BY <1>3, <2>5, <2>6
<1> QED  BY <1>6 DEF Still

LEMMA TakeStill ==
  ASSUME Typed, Take
  PROVE  Still
<1>1. /\ pc = "wait" /\ pending # <<>> /\ hand' = Head(pending) /\ pending' = Tail(pending)
      /\ pc' = "dispatch" /\ UNCHANGED <<outbox, inbox, turn, held>>
  BY DEF Take, queues
<1>2. turn = 1
  BY <1>1 DEF Typed, LoopTyped
<1>3. ASSUME NEW p \in Modules, NEW s \in Modules
      PROVE  OnItsWay(p, s)' = OnItsWay(p, s)
  <2>1. PICK a, b, d, o : a = inbox[s] /\ b = held[s] /\ d = pending /\ o = outbox[p]
    OBVIOUS
  <2>2. a \in Seq(Sendable) /\ b \in Seq(Sendable) /\ d \in Seq(Sendable) /\ d # <<>>
    BY <1>1, <2>1, PartsTyped
  <2>3. InHand(s) = <<>> /\ InHand(s)' = <<Head(d)>>
    <3>1. Place(s) \in Nat /\ 1 <= Place(s)
      BY EndpointsAre
    <3> QED  BY <1>1, <1>2, <2>1, <3>1 DEF InHand
  <2>4. OnItsWay(p, s) = Only(Whole(a, b, <<>>, d, o), For(p, s))
    BY <2>1, <2>3, WayIs
  <2>5. OnItsWay(p, s)' = Only(Whole(a, b, <<Head(d)>>, Tail(d), o), For(p, s))
    BY <1>1, <2>1, <2>3, WayIs
  <2>6. Whole(a, b, <<Head(d)>>, Tail(d), o) = Whole(a, b, <<>>, d, o)
    BY ONLY <2>2, WholeInHand
  <2> QED  BY ONLY <2>4, <2>5, <2>6, Zenon
<1> QED  BY <1>3 DEF Still

(* The message goes to the module whose turn it is, if it wants it, and is  *)
(* still to go to those after.                                              *)
LEMMA DispatchStill ==
  ASSUME Typed, Dispatch
  PROVE  Still
<1>1. PICK m \in Modules : m = Endpoints[turn]
  BY EndpointsAre DEF Typed, LoopTyped
<1>2. PICK x \in Sendable : x = hand
  BY DEF Dispatch, Typed, LoopTyped
<1>3. pc = "dispatch" /\ UNCHANGED <<outbox, pending>>
  BY DEF Dispatch
<1>4. \/ turn < Len(Endpoints) /\ turn' = turn + 1 /\ pc' = "dispatch" /\ hand' = x
      \/ turn = Len(Endpoints) /\ pc' = "flush"
  BY <1>2, <1>3, EndpointsAre DEF Dispatch, Advance, Typed, LoopTyped
<1>5. \/ Wants(m, x) /\ held[m] = <<>> /\ PutInto(m, x) /\ UNCHANGED held
      \/ Wants(m, x) /\ Hold(m, x) /\ UNCHANGED inbox
      \/ ~Wants(m, x) /\ UNCHANGED <<inbox, held>>
  BY <1>1, <1>2, Zenon DEF Dispatch, Put
<1>6. DOMAIN inbox = Modules /\ DOMAIN held = Modules
  BY DEF Typed, QueuesTyped
<1>7. turn \in 1..Len(Endpoints) /\ Len(Endpoints) \in Nat /\ m = Endpoints[turn]
  BY <1>1, EndpointsAre DEF Typed, LoopTyped
<1>8. ASSUME NEW p \in Modules, NEW s \in Modules, p # s
      PROVE  OnItsWay(p, s)' = OnItsWay(p, s)
  <2>1. PICK a, b, d, o : a = inbox[s] /\ b = held[s] /\ d = pending /\ o = outbox[p]
    OBVIOUS
  <2>2. a \in Seq(Sendable) /\ b \in Seq(Sendable) /\ d \in Seq(Sendable) /\ o \in Seq(Sendable)
    BY <2>1, PartsTyped
  <2>3. PICK place \in 1..Len(Endpoints) : place = Place(s) /\ (m = s <=> turn = place)
    BY <1>7, EndpointsAre
  <2>4. CASE s = m
    <3>1. InHand(s) = <<x>> /\ InHand(s)' = <<>>
      BY <1>2, <1>3, <1>4, <1>7, <2>3, <2>4 DEF InHand
    <3>2. OnItsWay(p, s) = Only(Whole(a, b, <<x>>, d, o), For(p, s))
      BY <2>1, <3>1, WayIs
    <3>3. OnItsWay(p, s)' = Only(Whole(inbox'[s], held'[s], <<>>, d, o), For(p, s))
      BY <1>3, <2>1, <3>1, WayIs
    <3>4. CASE held[m] = <<>> /\ PutInto(m, x) /\ UNCHANGED held
      <4>1. inbox'[s] = Append(a, x) /\ held'[s] = <<>> /\ b = <<>>
        BY <1>6, <2>1, <2>4, <3>4 DEF PutInto
      <4>2. Whole(Append(a, x), <<>>, <<>>, d, o) = Whole(a, <<>>, <<x>>, d, o)
        BY ONLY <2>2, x \in Sendable, WholeDelivered
      <4> QED  BY ONLY <3>2, <3>3, <4>1, <4>2, Zenon
    <3>5. CASE Hold(m, x) /\ UNCHANGED inbox
      <4>1. inbox'[s] = a /\ held'[s] = Append(b, x)
        BY <1>6, <2>1, <2>4, <3>5 DEF Hold
      <4>2. Whole(a, Append(b, x), <<>>, d, o) = Whole(a, b, <<x>>, d, o)
        BY ONLY <2>2, x \in Sendable, WholeHeld
      <4> QED  BY ONLY <3>2, <3>3, <4>1, <4>2, Zenon
    <3>6. CASE ~Wants(m, x) /\ UNCHANGED <<inbox, held>>
      <4>1. inbox'[s] = a /\ held'[s] = b
        BY <2>1, <3>6
      <4>2. x \notin For(p, s)
        BY <1>8, <2>4, <3>6, ForIs
      <4>3. Only(Whole(a, b, <<x>>, d, o), For(p, s)) = Only(Whole(a, b, <<>>, d, o), For(p, s))
        BY ONLY <2>2, <4>2, x \in Sendable, WholeNotFor
      <4> QED  BY ONLY <3>2, <3>3, <4>1, <4>3, Zenon
    <3> QED  BY <1>5, <3>4, <3>5, <3>6
  <2>5. CASE s # m
    <3>1. inbox'[s] = a /\ held'[s] = b
      BY <1>5, <1>6, <2>1, <2>5 DEF PutInto, Hold
    <3>2. InHand(s)' = InHand(s)
      BY <1>2, <1>3, <1>4, <1>7, <2>3, <2>5 DEF InHand
    <3> QED  BY <1>3, <2>1, <3>1, <3>2, WayIs
  <2> QED  BY <2>4, <2>5
<1> QED  BY <1>8 DEF Still

LEMMA EndThins ==
  ASSUME Typed, End
  PROVE  Thins
<1>1. PICK lost \in [Modules -> 0..Capacity] :
        inbox' = [m \in Modules |-> Without(inbox[m], lost[m])]
  BY DEF End
<1>2. /\ pc' = "down" /\ pending' = <<>> /\ held' = [m \in Modules |-> <<>>] /\ outbox' = outbox
  BY DEF End
<1>3. ASSUME NEW p \in Modules, NEW s \in Modules
      PROVE  OnItsWay(p, s)' \in TheBus!Remains(OnItsWay(p, s))
  <2>1. PICK n : n = lost[s]
    OBVIOUS
  <2>2. n \in Nat
    BY <2>1, DispatcherAssumption
  <2>3. PICK a, b, c, d, o : a = inbox[s] /\ b = held[s] /\ c = InHand(s) /\ d = pending /\ o = outbox[p]
    OBVIOUS
  <2>4. a \in Seq(Sendable) /\ b \in Seq(Sendable) /\ c \in Seq(Sendable) /\ d \in Seq(Sendable) /\ o \in Seq(Sendable)
    BY <2>3, PartsTyped
  <2>5. OnItsWay(p, s) = Only(Whole(a, b, c, d, o), For(p, s))
    BY <2>3, WayIs
  <2>6. InHand(s)' = <<>>
    BY <1>2 DEF InHand
  <2>7. inbox'[s] = Without(a, n) /\ held'[s] = <<>>
    BY <1>1, <1>2, <2>1, <2>3
  <2>8. OnItsWay(p, s)' = Only(Whole(Without(a, n), <<>>, <<>>, <<>>, o), For(p, s))
    BY <1>2, <2>3, <2>6, <2>7, WayIs
  <2>9. Only(Whole(Without(a, n), <<>>, <<>>, <<>>, o), For(p, s))
          \in TheBus!Remains(Only(Whole(a, b, c, d, o), For(p, s)))
    BY ONLY <2>2, <2>4, WholeCutMiddle
  <2> QED  BY ONLY <2>5, <2>8, <2>9, Zenon
<1> QED  BY <1>3 DEF Thins

(* A step that leaves the queues, and has nothing in hand before or after. *)
LEMMA QuietStill ==
  ASSUME UNCHANGED <<outbox, inbox, pending, held>>,
         \/ UNCHANGED <<pc, turn, hand>>
         \/ pc # "dispatch" /\ pc' # "dispatch"
  PROVE  Still
<1>1. ASSUME NEW p \in Modules, NEW s \in Modules
      PROVE  OnItsWay(p, s)' = OnItsWay(p, s)
  <2>1. InHand(s)' = InHand(s)
    BY DEF InHand
  <2> QED  BY <2>1, WayIs
<1> QED  BY <1>1 DEF Still

-----------------------------------------------------------------------------
(* Each step is a step of the bus. *)

LEMMA LinksAre ==
  /\ TheBus!Links = {l \in Modules \X Modules : l[1] # l[2]}
  /\ \A link \in TheBus!Links : link[1] \in Modules /\ link[2] \in Modules /\ link[1] # link[2]
  /\ \A p, s \in Modules : p # s => <<p, s>> \in TheBus!Links
BY DEF TheBus!Links

LEMMA TransitIs ==
  /\ InTransit = [link \in TheBus!Links |-> OnItsWay(link[1], link[2])]
  /\ InTransit' = [link \in TheBus!Links |-> OnItsWay(link[1], link[2])']
BY LinksAre, Zenon DEF InTransit

LEMMA StillIsStutter ==
  ASSUME Still
  PROVE  InTransit' = InTransit
<1>1. ASSUME NEW link \in TheBus!Links
      PROVE  OnItsWay(link[1], link[2])' = OnItsWay(link[1], link[2])
  BY LinksAre DEF Still
<1> QED  BY <1>1, TransitIs, Zenon

LEMMA ThinsIsLoss ==
  ASSUME Thins, UNCHANGED <<published, received>>, (ends + crashes)' = ends + crashes + 1
  PROVE  TheBus!BusLose
<1>1. InTransit' = [link \in TheBus!Links |-> InTransit'[link]]
  BY TransitIs, Zenon
<1>2. ASSUME NEW link \in TheBus!Links
      PROVE  InTransit'[link] \in TheBus!Remains(InTransit[link])
  <2>1. PICK p \in Modules, s \in Modules : p = link[1] /\ s = link[2] /\ p # s
    BY LinksAre
  <2>2. OnItsWay(p, s)' \in TheBus!Remains(OnItsWay(p, s))
    BY <2>1 DEF Thins
  <2>3. InTransit[link] = OnItsWay(p, s) /\ InTransit'[link] = OnItsWay(p, s)'
    BY <2>1, TransitIs, Zenon
  <2> QED  BY <2>2, <2>3, Zenon
<1> QED  BY <1>1, <1>2, Zenon DEF TheBus!BusLose

LEMMA PublishIsPublish ==
  ASSUME Typed, NEW m \in Modules, NEW e \in Events, Publish(m, e)
  PROVE  TheBus!BusPublish(m, e)
<1>1. PICK x : x = [source |-> m, event |-> e, number |-> published[m] + 1]
  OBVIOUS
<1>2. published' = [published EXCEPT ![m] = @ + 1] /\ UNCHANGED <<received, ends, crashes>>
  BY DEF Publish
<1>3. ASSUME NEW link \in TheBus!Links
      PROVE  OnItsWay(link[1], link[2])' = IF link[1] = m /\ TheBus!Wants(link[2], x)
                                           THEN Append(InTransit[link], x) ELSE InTransit[link]
  <2>1. PICK p \in Modules, s \in Modules : p = link[1] /\ s = link[2] /\ p # s
    BY LinksAre
  <2>2. OnItsWay(p, s)' = IF p = m /\ Wants(s, x) THEN Append(OnItsWay(p, s), x) ELSE OnItsWay(p, s)
    <3>1. p # s
      BY <2>1
    <3> QED  BY <1>1, <3>1, PublishWay, SMTT(30)
  <2>3. InTransit[link] = OnItsWay(p, s)
    BY <2>1, TransitIs, Zenon
  <2>4. TheBus!Wants(s, x) <=> Wants(s, x)
    BY DEF Wants, TheBus!Wants
  <2> QED  BY <2>1, <2>2, <2>3, <2>4, Zenon
<1>4. InTransit' = [link \in TheBus!Links |->
                      IF link[1] = m /\ TheBus!Wants(link[2], x)
                      THEN Append(InTransit[link], x) ELSE InTransit[link]]
  BY <1>3, TransitIs, Zenon
<1> QED  BY <1>1, <1>2, <1>4, Zenon DEF TheBus!BusPublish

LEMMA ReceiveIsReceive ==
  ASSUME Typed, NEW m \in Modules, Receive(m)
  PROVE  (\E link \in TheBus!Links : TheBus!BusReceive(link)) \/ UNCHANGED TheBus!busVars
<1>1. PICK x : x = Head(inbox[m])
  OBVIOUS
<1>2. /\ received' = IF Wants(m, x) THEN [received EXCEPT ![m] = Append(@, x)] ELSE received
      /\ UNCHANGED <<published, ends, crashes>> /\ inbox[m] # <<>>
  BY <1>1, Zenon DEF Receive
<1>3. x \in Sendable
  <2>1. inbox[m] \in Seq(Sendable)
    BY DEF Typed, QueuesTyped
  <2> QED  BY <1>1, <1>2, <2>1
<1>4. CASE Wants(m, x)
  <2>1. PICK at : at = <<x.source, m>>
    OBVIOUS
  <2>2. at \in TheBus!Links /\ at[1] = x.source /\ at[2] = m
    BY <1>3, <1>4, <2>1, LinksAre DEF Wants, Sendable
  <2>3. /\ InTransit[at] # <<>> /\ Head(InTransit[at]) = x
        /\ OnItsWay(at[1], at[2])' = Tail(InTransit[at])
    <3>1. PICK p \in Modules : p = x.source /\ p # m
      BY <1>4, <2>2, LinksAre
    <3>2. /\ OnItsWay(p, m) # <<>> /\ Head(OnItsWay(p, m)) = x
          /\ OnItsWay(p, m)' = Tail(OnItsWay(p, m))
      BY <1>1, <1>4, <3>1, ReceiveWay
    <3>3. InTransit[at] = OnItsWay(p, m)
      BY <2>2, <3>1, TransitIs, Zenon
    <3> QED  BY <2>2, <3>1, <3>2, <3>3, Zenon
  <2>4. ASSUME NEW link \in TheBus!Links, link # at
        PROVE  OnItsWay(link[1], link[2])' = InTransit[link]
    <3>1. PICK p \in Modules, s \in Modules : p = link[1] /\ s = link[2] /\ p # s /\ link = <<p, s>>
      BY LinksAre
    <3>2. ~(s = m /\ x.source = p)
      BY <2>1, <2>4, <3>1
    <3>3. OnItsWay(p, s)' = OnItsWay(p, s)
      BY <1>1, <3>1, <3>2, ReceiveWay
    <3>4. InTransit[link] = OnItsWay(p, s)
      BY <3>1, TransitIs, Zenon
    <3> QED  BY <3>1, <3>3, <3>4, Zenon
  <2>5. InTransit' = [InTransit EXCEPT ![at] = Tail(@)]
    BY <2>2, <2>3, <2>4, TransitIs, Zenon
  <2>6. received' = [received EXCEPT ![at[2]] = Append(@, Head(InTransit[at]))]
    BY <1>2, <1>4, <2>2, <2>3, Zenon
  <2>7. TheBus!BusReceive(at)
    BY <1>2, <2>3, <2>5, <2>6, Zenon DEF TheBus!BusReceive
  <2> QED  BY <2>2, <2>7
<1>5. CASE ~Wants(m, x)
  <2>1. Still
    <3>1. ASSUME NEW p \in Modules, NEW s \in Modules, p # s
          PROVE  OnItsWay(p, s)' = OnItsWay(p, s)
      BY <1>1, <1>5, <3>1, ReceiveWay
    <3> QED  BY <3>1 DEF Still
  <2> QED  BY <1>2, <1>5, <2>1, StillIsStutter DEF TheBus!busVars
<1> QED  BY <1>4, <1>5

LEMMA InitIsInit == Init => TheBus!BusInit
<1> SUFFICES ASSUME Init PROVE TheBus!BusInit
  OBVIOUS
<1>1. ASSUME NEW link \in TheBus!Links
      PROVE  OnItsWay(link[1], link[2]) = <<>>
  <2>1. PICK p \in Modules, s \in Modules : p = link[1] /\ s = link[2]
    BY LinksAre
  <2>2. /\ inbox[s] = <<>> /\ held[s] = <<>> /\ InHand(s) = <<>> /\ pending = <<>> /\ outbox[p] = <<>>
    BY DEF Init, InHand
  <2>3. OnItsWay(p, s) = Only(Whole(<<>>, <<>>, <<>>, <<>>, <<>>), For(p, s))
    BY <2>2, WayIs
  <2>4. Whole(<<>>, <<>>, <<>>, <<>>, <<>>) = <<>>
    BY ConcatEmptySeq, EmptySeq DEF Whole
  <2> QED  BY <2>1, <2>3, <2>4, OnlyEmpty
<1>2. InTransit = [link \in TheBus!Links |-> <<>>]
  BY <1>1, TransitIs, Zenon
<1>3. ends + crashes = 0
  BY DEF Init
<1> QED  BY <1>2, <1>3 DEF Init, TheBus!BusInit

LEMMA StepIsStep ==
  ASSUME Typed, [Next]_vars
  PROVE  [TheBus!BusNext]_TheBus!busVars
<1>1. ASSUME Still, UNCHANGED <<published, received, ends, crashes>>
      PROVE  UNCHANGED TheBus!busVars
  BY <1>1, StillIsStutter DEF TheBus!busVars
<1>2. CASE UNCHANGED vars
  <2>1. Still
    BY <1>2, QuietStill DEF vars
  <2> QED  BY <1>1, <1>2, <2>1 DEF vars
<1>3. ASSUME NEW m \in Modules, NEW e \in Events, Publish(m, e)
      PROVE  TheBus!BusNext
  BY <1>3, PublishIsPublish DEF TheBus!BusNext
<1>4. ASSUME NEW m \in Modules, Receive(m)
      PROVE  TheBus!BusNext \/ UNCHANGED TheBus!busVars
  BY <1>4, ReceiveIsReceive DEF TheBus!BusNext
<1>5. ASSUME NEW m \in Modules, Crash(m)
      PROVE  TheBus!BusNext
  <2>1. UNCHANGED <<published, received, ends>> /\ crashes' = crashes + 1
    BY <1>5 DEF Crash
  <2>2. (ends + crashes)' = ends + crashes + 1
    BY <2>1 DEF Typed, CountsTyped
  <2> QED  BY <1>5, <2>1, <2>2, CrashThins, ThinsIsLoss DEF TheBus!BusNext
<1>6. ASSUME NEW m \in Modules, Restart(m)
      PROVE  UNCHANGED TheBus!busVars
  <2>1. UNCHANGED <<queues, memory, history>>
    BY <1>6 DEF Restart
  <2>2. Still
    BY <2>1, QuietStill DEF queues, memory
  <2> QED  BY <1>1, <2>1, <2>2 DEF history
<1>7. ASSUME NEW m \in Modules, Forward(m)
      PROVE  UNCHANGED TheBus!busVars
  BY <1>1, <1>7, ForwardStill DEF Forward, history
<1>8. CASE Flush
  BY <1>1, <1>8, FlushStill DEF Flush, history
<1>9. CASE Take
  BY <1>1, <1>9, TakeStill DEF Take, history
<1>10. CASE NothingCame
  <2>1. UNCHANGED <<queues, pending, held, history>> /\ pc = "wait" /\ pc' = "flush"
    BY <1>10 DEF NothingCame
  <2>2. Still
    BY <2>1, QuietStill DEF queues
  <2> QED  BY <1>1, <2>1, <2>2 DEF history
<1>11. CASE Dispatch
  BY <1>1, <1>11, DispatchStill DEF Dispatch, history
<1>12. CASE End
  <2>1. UNCHANGED <<published, received, crashes>> /\ ends' = ends + 1
    BY <1>12 DEF End
  <2>2. (ends + crashes)' = ends + crashes + 1
    BY <2>1 DEF Typed, CountsTyped
  <2> QED  BY <1>12, <2>1, <2>2, EndThins, ThinsIsLoss DEF TheBus!BusNext
<1>13. CASE Begin
  <2>1. UNCHANGED <<queues, pending, held, history>> /\ pc = "down" /\ pc' = "flush"
    BY <1>13 DEF Begin
  <2>2. Still
    BY <2>1, QuietStill DEF queues
  <2> QED  BY <1>1, <2>1, <2>2 DEF history
<1> QED
  BY <1>2, <1>3, <1>4, <1>5, <1>6, <1>7, <1>8, <1>9, <1>10, <1>11, <1>12, <1>13 DEF Next, Loop

(* The dispatcher, its threads, the queues and the processes that end and   *)
(* are restarted implement the bus (dispatcher.py:1-21), for any modules,   *)
(* subscriptions, order of service and capacity of an inbox.                *)
THEOREM DispatcherIsBus == Spec => ActsAsBus
<1>1. Typed /\ [Next]_vars => [TheBus!BusNext]_TheBus!busVars
  BY StepIsStep
<1> QED  BY InitIsInit, <1>1, AlwaysTyped, PTL DEF Spec, ActsAsBus, TheBus!BusSpec

-----------------------------------------------------------------------------
(* The bus delivers in order. *)

LinesTyped ==
    /\ published \in [Modules -> Nat]
    /\ InTransit \in [TheBus!Links -> Seq(TheBus!Messages)]
    /\ received \in [Modules -> Seq(TheBus!Messages)]

(* What is on its way over a link is its publisher's, and was published.   *)
LinesArePublished ==
    \A link \in TheBus!Links : \A i \in 1..Len(InTransit[link]) :
        /\ InTransit[link][i].source = link[1]
        /\ InTransit[link][i].number <= published[link[1]]

(* It is on its way in the order it was published. *)
LinesRise ==
    \A link \in TheBus!Links : \A i, j \in 1..Len(InTransit[link]) :
        i < j => InTransit[link][i].number < InTransit[link][j].number

(* What was received was published. *)
PastIsPublished ==
    \A m \in Modules : \A i \in 1..Len(received[m]) :
        received[m][i].number <= published[received[m][i].source]

(* What was received came before all that is still on its way to the same  *)
(* module from the same publisher.                                         *)
PastIsAhead ==
    \A link \in TheBus!Links :
        \A i \in 1..Len(received[link[2]]), j \in 1..Len(InTransit[link]) :
            received[link[2]][i].source = link[1]
                => received[link[2]][i].number < InTransit[link][j].number

LinesOrdered ==
    /\ LinesTyped /\ LinesArePublished /\ LinesRise
    /\ PastIsPublished /\ PastIsAhead /\ TheBus!InOrder

(* Nothing is on its way or received at first.                             *)
LEMMA InitOrdered == TheBus!BusInit => LinesOrdered
  BY DEF TheBus!BusInit, LinesOrdered, LinesTyped, LinesArePublished, LinesRise, PastIsPublished,
         PastIsAhead, TheBus!InOrder, TheBus!Messages

(* Publishing adds one message at the end of the links to its subscribers, *)
(* numbered higher than any its publisher published before.                *)
LEMMA PublishOrdered ==
  ASSUME NEW module \in Modules, NEW event \in Events, LinesOrdered,
         TheBus!BusPublish(module, event)
  PROVE  LinesOrdered'
<1> DEFINE message == [source |-> module, event |-> event, number |-> published[module] + 1]
<1>1. message \in TheBus!Messages /\ message.source = module
      /\ message.number = published[module] + 1
  BY DEF TheBus!Messages, LinesOrdered, LinesTyped
<1>2. /\ published' = [published EXCEPT ![module] = @ + 1]
      /\ received' = received
      /\ InTransit' = [link \in TheBus!Links |->
                       IF link[1] = module /\ TheBus!Wants(link[2], message)
                       THEN Append(InTransit[link], message) ELSE InTransit[link]]
  BY DEF TheBus!BusPublish
<1> HIDE DEF message
<1>3. LinesTyped'
  BY <1>1, <1>2 DEF LinesOrdered, LinesTyped
<1>4. \A m \in Modules : /\ published[m] \in Nat /\ published'[m] \in Nat
                         /\ published[m] <= published'[m]
  BY <1>2 DEF LinesOrdered, LinesTyped
<1>5. ASSUME NEW link \in TheBus!Links
      PROVE  \/ InTransit'[link] = InTransit[link]
             \/ /\ link[1] = module
                /\ InTransit'[link] = Append(InTransit[link], message)
  BY <1>2
<1>6. ASSUME NEW link \in TheBus!Links
      PROVE  /\ link[1] \in Modules /\ link[2] \in Modules
             /\ InTransit[link] \in Seq(TheBus!Messages)
             /\ received[link[2]] \in Seq(TheBus!Messages)
             /\ published[link[1]] \in Nat
  BY DEF TheBus!Links, LinesOrdered, LinesTyped
<1>7. LinesArePublished'
  <2> SUFFICES ASSUME NEW link \in TheBus!Links, NEW i \in 1..Len(InTransit'[link])
               PROVE  /\ InTransit'[link][i].source = link[1]
                      /\ InTransit'[link][i].number <= published'[link[1]]
    BY DEF LinesArePublished
  <2>0. \A k \in 1..Len(InTransit[link]) :
            /\ InTransit[link][k] \in TheBus!Messages
            /\ InTransit[link][k].number \in Nat
            /\ InTransit[link][k].source = link[1]
            /\ InTransit[link][k].number <= published'[link[1]]
    <3>1. \A k \in 1..Len(InTransit[link]) : InTransit[link][k] \in TheBus!Messages
      BY <1>6
    <3>2. \A k \in 1..Len(InTransit[link]) : InTransit[link][k].number \in Nat
      BY <3>1 DEF TheBus!Messages
    <3>3. \A k \in 1..Len(InTransit[link]) :
              /\ InTransit[link][k].source = link[1]
              /\ InTransit[link][k].number <= published[link[1]]
      BY DEF LinesOrdered, LinesArePublished
    <3> QED BY <3>1, <3>2, <3>3, <1>4, <1>6
  <2>1. CASE InTransit'[link] = InTransit[link]
    BY <2>0, <2>1
  <2>2. CASE link[1] = module /\ InTransit'[link] = Append(InTransit[link], message)
    <3>1. published'[module] = published[module] + 1
      BY <1>2 DEF LinesOrdered, LinesTyped
    <3>2. CASE i = Len(InTransit[link]) + 1
      BY <2>2, <3>1, <3>2, <1>1, <1>6
    <3>3. CASE i \in 1..Len(InTransit[link])
      <4>1. InTransit'[link][i] = InTransit[link][i]
        BY <2>2, <3>3, <1>1, <1>6
      <4> QED BY <4>1, <3>3, <2>0
    <3> QED BY <2>2, <3>2, <3>3, <1>1, <1>6
  <2> QED BY <2>1, <2>2, <1>5
<1>8. LinesRise'
  <2> SUFFICES ASSUME NEW link \in TheBus!Links,
                      NEW i \in 1..Len(InTransit'[link]), NEW j \in 1..Len(InTransit'[link]),
                      i < j
               PROVE  InTransit'[link][i].number < InTransit'[link][j].number
    BY DEF LinesRise
  <2>1. CASE InTransit'[link] = InTransit[link]
    BY <2>1 DEF LinesOrdered, LinesRise
  <2>2. CASE link[1] = module /\ InTransit'[link] = Append(InTransit[link], message)
    <3>1. i \in 1..Len(InTransit[link]) /\ InTransit'[link][i] = InTransit[link][i]
      BY <2>2, <1>1, <1>6
    <3>2. InTransit[link][i] \in TheBus!Messages /\ InTransit[link][i].number <= published[module]
      BY <2>2, <3>1, <1>6 DEF LinesOrdered, LinesArePublished
    <3>3. CASE j = Len(InTransit[link]) + 1
      BY <2>2, <3>1, <3>2, <3>3, <1>1, <1>6 DEF TheBus!Messages
    <3>4. CASE j \in 1..Len(InTransit[link])
      BY <2>2, <3>1, <3>4, <1>1, <1>6 DEF LinesOrdered, LinesRise
    <3> QED BY <2>2, <3>3, <3>4, <1>1, <1>6
  <2> QED BY <2>1, <2>2, <1>5
<1>9. PastIsPublished'
  <2> SUFFICES ASSUME NEW m \in Modules, NEW i \in 1..Len(received[m])
               PROVE  received[m][i].number <= published'[received[m][i].source]
    BY <1>2 DEF PastIsPublished
  <2>1. received[m][i] \in TheBus!Messages
    BY DEF LinesOrdered, LinesTyped
  <2>2. received[m][i].number \in Nat /\ received[m][i].source \in Modules
    BY <2>1 DEF TheBus!Messages
  <2>3. received[m][i].number <= published[received[m][i].source]
    BY DEF LinesOrdered, PastIsPublished
  <2> QED BY <2>2, <2>3, <1>4
<1>10. PastIsAhead'
  <2> SUFFICES ASSUME NEW link \in TheBus!Links,
                      NEW i \in 1..Len(received[link[2]]), NEW j \in 1..Len(InTransit'[link]),
                      received[link[2]][i].source = link[1]
               PROVE  received[link[2]][i].number < InTransit'[link][j].number
    BY <1>2 DEF PastIsAhead
  <2>1. received[link[2]][i] \in TheBus!Messages
        /\ received[link[2]][i].number <= published[link[1]]
    BY <1>6 DEF LinesOrdered, PastIsPublished
  <2>2. CASE InTransit'[link] = InTransit[link]
    BY <2>2 DEF LinesOrdered, PastIsAhead
  <2>3. CASE link[1] = module /\ InTransit'[link] = Append(InTransit[link], message)
    <3>1. CASE j = Len(InTransit[link]) + 1
      <4>1. InTransit'[link][j] = message
        BY <2>3, <3>1, <1>1, <1>6
      <4>2. received[link[2]][i].number \in Nat
        BY <2>1 DEF TheBus!Messages
      <4> QED BY <4>1, <4>2, <2>1, <2>3, <1>1, <1>4
    <3>2. CASE j \in 1..Len(InTransit[link])
      <4>1. InTransit'[link][j] = InTransit[link][j]
        BY <2>3, <3>2, <1>1, <1>6
      <4>2. received[link[2]][i].number < InTransit[link][j].number
        BY <3>2 DEF LinesOrdered, PastIsAhead
      <4> QED BY <4>1, <4>2
    <3> QED BY <2>3, <3>1, <3>2, <1>1, <1>6
  <2> QED BY <2>2, <2>3, <1>5
<1>11. TheBus!InOrder'
  BY <1>2 DEF LinesOrdered, TheBus!InOrder
<1> QED BY <1>3, <1>7, <1>8, <1>9, <1>10, <1>11 DEF LinesOrdered

(* Receiving moves the first message on its way over a link to the end of  *)
(* what its subscriber has received; all others on that link follow it.    *)
LEMMA ReceiveOrdered ==
  ASSUME NEW at \in TheBus!Links, LinesOrdered, TheBus!BusReceive(at)
  PROVE  LinesOrdered'
<1> DEFINE first == InTransit[at][1]
           to == at[2]
<1>1. /\ at[1] \in Modules /\ to \in Modules
      /\ InTransit[at] \in Seq(TheBus!Messages) /\ InTransit[at] # <<>>
      /\ received[to] \in Seq(TheBus!Messages)
      /\ first \in TheBus!Messages /\ first = Head(InTransit[at])
      /\ 1 \in 1..Len(InTransit[at])
  BY DEF TheBus!BusReceive, TheBus!Links, LinesOrdered, LinesTyped
<1>2. first.source = at[1] /\ first.number <= published[at[1]]
  BY <1>1 DEF LinesOrdered, LinesArePublished
<1>3. /\ published' = published
      /\ InTransit' = [InTransit EXCEPT ![at] = Tail(@)]
      /\ received' = [received EXCEPT ![to] = Append(@, first)]
  BY <1>1 DEF TheBus!BusReceive
<1> HIDE DEF first, to
<1>4. LinesTyped'
  BY <1>1, <1>3 DEF LinesOrdered, LinesTyped
<1>5. ASSUME NEW link \in TheBus!Links
      PROVE  /\ link[1] \in Modules /\ link[2] \in Modules
             /\ InTransit[link] \in Seq(TheBus!Messages)
             /\ received[link[2]] \in Seq(TheBus!Messages)
  BY DEF TheBus!Links, LinesOrdered, LinesTyped
<1>6. /\ \A link \in TheBus!Links \ {at} : InTransit'[link] = InTransit[link]
      /\ Len(InTransit'[at]) = Len(InTransit[at]) - 1
      /\ \A i \in 1..Len(InTransit'[at]) : /\ i + 1 \in 1..Len(InTransit[at])
                                         /\ InTransit'[at][i] = InTransit[at][i + 1]
  BY <1>1, <1>3 DEF LinesOrdered, LinesTyped
<1>7. /\ \A m \in Modules \ {to} : received'[m] = received[m]
      /\ Len(received'[to]) = Len(received[to]) + 1
      /\ \A i \in 1..Len(received[to]) : received'[to][i] = received[to][i]
      /\ received'[to][Len(received[to]) + 1] = first
      /\ Len(received[to]) \in Nat
  BY <1>1, <1>3 DEF LinesOrdered, LinesTyped
<1>8. LinesArePublished'
  BY <1>3, <1>6 DEF LinesOrdered, LinesArePublished
<1>9. LinesRise'
  <2> SUFFICES ASSUME NEW link \in TheBus!Links,
                      NEW i \in 1..Len(InTransit'[link]), NEW j \in 1..Len(InTransit'[link]),
                      i < j
               PROVE  InTransit'[link][i].number < InTransit'[link][j].number
    BY DEF LinesRise
  <2>1. CASE link # at
    BY <2>1, <1>6 DEF LinesOrdered, LinesRise
  <2>2. CASE link = at
    BY <2>2, <1>6 DEF LinesOrdered, LinesRise
  <2> QED BY <2>1, <2>2
<1>10. PastIsPublished'
  <2> SUFFICES ASSUME NEW m \in Modules, NEW i \in 1..Len(received'[m])
               PROVE  received'[m][i].number <= published[received'[m][i].source]
    BY <1>3 DEF PastIsPublished
  <2>1. CASE m = to /\ i = Len(received[to]) + 1
    BY <2>1, <1>2, <1>7
  <2>2. CASE m \in Modules \ {to} \/ i \in 1..Len(received[to])
    BY <2>2, <1>7 DEF LinesOrdered, PastIsPublished
  <2> QED BY <2>1, <2>2, <1>7
<1>11. PastIsAhead'
  <2> SUFFICES ASSUME NEW link \in TheBus!Links,
                      NEW i \in 1..Len(received'[link[2]]), NEW j \in 1..Len(InTransit'[link]),
                      received'[link[2]][i].source = link[1]
               PROVE  received'[link[2]][i].number < InTransit'[link][j].number
    BY DEF PastIsAhead
  <2>1. PICK k \in 1..Len(InTransit[link]) :
          /\ InTransit'[link][j] = InTransit[link][k]
          /\ link = at => k = j + 1
    BY <1>6
  <2>2. CASE link[2] = to /\ i = Len(received[to]) + 1
    <3>1. link = at
      BY <2>2, <1>2, <1>7 DEF TheBus!Links, to
    <3>2. k > 1
      BY <2>1, <3>1
    <3> QED BY <2>1, <2>2, <3>1, <3>2, <1>1, <1>7 DEF LinesOrdered, LinesRise, first
  <2>3. CASE link[2] # to \/ i \in 1..Len(received[to])
    <3>1. i \in 1..Len(received[link[2]]) /\ received'[link[2]][i] = received[link[2]][i]
      BY <2>3, <1>5, <1>7
    <3> QED BY <2>1, <3>1 DEF LinesOrdered, PastIsAhead
  <2> QED BY <2>2, <2>3, <1>7
<1>12. TheBus!InOrder'
  <2> SUFFICES ASSUME NEW m \in Modules,
                      NEW i \in 1..Len(received'[m]), NEW j \in 1..Len(received'[m]),
                      i < j, received'[m][i].source = received'[m][j].source
               PROVE  received'[m][i].number < received'[m][j].number
    BY DEF TheBus!InOrder
  <2>1. CASE m = to /\ j = Len(received[to]) + 1
    <3>1. i \in 1..Len(received[to]) /\ received'[to][i] = received[to][i]
      BY <2>1, <1>7
    <3>2. received[to][i].source = at[1]
      BY <2>1, <3>1, <1>2, <1>7
    <3> QED BY <2>1, <3>1, <3>2, <1>1, <1>7 DEF LinesOrdered, PastIsAhead, first, to
  <2>2. CASE m # to \/ j \in 1..Len(received[to])
    <3>1. /\ i \in 1..Len(received[m]) /\ j \in 1..Len(received[m])
          /\ received'[m][i] = received[m][i] /\ received'[m][j] = received[m][j]
      BY <2>2, <1>7
    <3> QED BY <3>1 DEF LinesOrdered, TheBus!InOrder
  <2> QED BY <2>1, <2>2, <1>7
<1> QED BY <1>4, <1>8, <1>9, <1>10, <1>11, <1>12 DEF LinesOrdered

(* Losing some of what is on its way leaves the rest in order.             *)
LEMMA LoseOrdered ==
  ASSUME LinesOrdered, TheBus!BusLose
  PROVE  LinesOrdered'
<1>1. published' = published /\ received' = received
  BY DEF TheBus!BusLose
<1>2. ASSUME NEW link \in TheBus!Links
      PROVE  \E n \in 0..Len(InTransit[link]) :
                \E pick \in TheBus!Rising(n, Len(InTransit[link])) :
                   InTransit'[link] = [i \in 1..n |-> InTransit[link][pick[i]]]
  BY DEF TheBus!BusLose, TheBus!Remains
<1>3. ASSUME NEW link \in TheBus!Links
      PROVE  /\ InTransit'[link] \in Seq(TheBus!Messages)
             /\ \A i \in 1..Len(InTransit'[link]) :
                   \E k \in 1..Len(InTransit[link]) : InTransit'[link][i] = InTransit[link][k]
             /\ \A i, j \in 1..Len(InTransit'[link]) : i < j =>
                   \E k, l \in 1..Len(InTransit[link]) :
                      /\ k < l
                      /\ InTransit'[link][i] = InTransit[link][k]
                      /\ InTransit'[link][j] = InTransit[link][l]
  <2>0. PICK n \in 0..Len(InTransit[link]) :
          \E pick \in TheBus!Rising(n, Len(InTransit[link])) :
             InTransit'[link] = [i \in 1..n |-> InTransit[link][pick[i]]]
    BY <1>2
  <2>1. PICK pick \in TheBus!Rising(n, Len(InTransit[link])) :
          InTransit'[link] = [i \in 1..n |-> InTransit[link][pick[i]]]
    BY <2>0
  <2>2. InTransit[link] \in Seq(TheBus!Messages) /\ n \in Nat
    BY DEF LinesOrdered, LinesTyped
  <2>3. /\ pick \in [1..n -> 1..Len(InTransit[link])]
        /\ \A i, j \in 1..n : i < j => pick[i] < pick[j]
    BY DEF TheBus!Rising
  <2>4. \A i \in 1..n : InTransit[link][pick[i]] \in TheBus!Messages
    BY <2>2, <2>3
  <2>5. InTransit'[link] \in Seq(TheBus!Messages) /\ Len(InTransit'[link]) = n
    BY <2>1, <2>2, <2>4
  <2>6. \A i \in 1..n : pick[i] \in 1..Len(InTransit[link])
                         /\ InTransit'[link][i] = InTransit[link][pick[i]]
    BY <2>1, <2>3
  <2> QED BY <2>3, <2>5, <2>6
<1>4. LinesTyped'
  <2>1. InTransit' = [link \in TheBus!Links |-> InTransit'[link]]
    BY DEF TheBus!BusLose
  <2> HIDE DEF TheBus!Links
  <2> QED BY <1>1, <1>3, <2>1 DEF LinesOrdered, LinesTyped
<1>5. LinesArePublished'
  BY <1>1, <1>3 DEF LinesOrdered, LinesArePublished
<1>6. LinesRise'
  <2> SUFFICES ASSUME NEW link \in TheBus!Links,
                      NEW i \in 1..Len(InTransit'[link]), NEW j \in 1..Len(InTransit'[link]),
                      i < j
               PROVE  InTransit'[link][i].number < InTransit'[link][j].number
    BY DEF LinesRise
  <2>1. PICK k, l \in 1..Len(InTransit[link]) :
          /\ k < l
          /\ InTransit'[link][i] = InTransit[link][k]
          /\ InTransit'[link][j] = InTransit[link][l]
    BY <1>3
  <2> QED BY <2>1 DEF LinesOrdered, LinesRise
<1>7. PastIsPublished' /\ TheBus!InOrder'
  BY <1>1 DEF LinesOrdered, PastIsPublished, TheBus!InOrder
<1>8. PastIsAhead'
  BY <1>1, <1>3 DEF LinesOrdered, PastIsAhead
<1> QED BY <1>4, <1>5, <1>6, <1>7, <1>8 DEF LinesOrdered

LEMMA StutterOrdered ==
  ASSUME LinesOrdered, UNCHANGED TheBus!busVars
  PROVE  LinesOrdered'
  BY DEF TheBus!busVars, LinesOrdered, LinesTyped, LinesArePublished, LinesRise, PastIsPublished,
         PastIsAhead, TheBus!InOrder

(* What any module receives from another is in the order it was published, *)
(* each message once (dispatcher.py:8-10), for any number of modules and   *)
(* messages, and whatever is lost.                                         *)
THEOREM BusInOrder == TheBus!BusSpec => []TheBus!InOrder
<1>1. LinesOrdered /\ [TheBus!BusNext]_TheBus!busVars => LinesOrdered'
  BY PublishOrdered, ReceiveOrdered, LoseOrdered, StutterOrdered DEF TheBus!BusNext
<1>2. LinesOrdered => TheBus!InOrder
  BY DEF LinesOrdered
<1> QED BY InitOrdered, <1>1, <1>2, PTL DEF TheBus!BusSpec

(* So what a module has received from another is in the order it was        *)
(* published, each message once (dispatcher.py:8-10), whatever the queues   *)
(* held when a process ended.                                               *)
THEOREM ReceivedInOrder == Spec => []TheBus!InOrder
BY DispatcherIsBus, BusInOrder, PTL DEF ActsAsBus

-----------------------------------------------------------------------------
(* And what a module does with what it is sent: the backup process, which  *)
(* takes messages out of their order while it stores, handles what it is   *)
(* asked in the order it was asked, whatever a crash loses.                 *)

Sequential(s) == \E T : s \in Seq(T)

(* What comes after the request numbered `last`, of those up to `latest`.  *)
InLine(s, last, latest) ==
    /\ \A i \in 1..Len(s) : s[i].n \in 0..latest /\ (s[i].n > 0 => last < s[i].n)
    /\ \A i, j \in 1..Len(s) : i < j /\ s[i].n > 0 /\ s[j].n > 0 => s[i].n < s[j].n

Coming == mem.aside \o mail

MailOrdered ==
    /\ "aside" \in DOMAIN mem
    /\ Sequential(mem.aside) /\ Sequential(mail)
    /\ told \in Nat /\ heeded \in 0..told
    /\ InLine(Coming, heeded, told)

(* Some of a sequence, in its order. *)
Among(r, s, f) ==
    /\ f \in [1..Len(r) -> 1..Len(s)]
    /\ \A i \in 1..Len(r) : r[i] = s[f[i]]
    /\ \A i, j \in 1..Len(r) : i < j => f[i] < f[j]

LEMMA AmongInLine ==
  ASSUME NEW R, NEW S, NEW r \in Seq(R), NEW s \in Seq(S), NEW f, Among(r, s, f),
         NEW last \in Nat, NEW latest \in Nat, InLine(s, last, latest)
  PROVE  InLine(r, last, latest)
<1>1. Len(r) \in Nat /\ Len(s) \in Nat  OBVIOUS
<1>2. \A i \in 1..Len(r) : f[i] \in 1..Len(s) /\ r[i] = s[f[i]]  BY DEF Among
<1>3. \A i \in 1..Len(r) : r[i].n \in 0..latest /\ (r[i].n > 0 => last < r[i].n)
  BY <1>2 DEF InLine
<1>4. ASSUME NEW i \in 1..Len(r), NEW j \in 1..Len(r), i < j, r[i].n > 0, r[j].n > 0
      PROVE  r[i].n < r[j].n
  <2>1. f[i] < f[j]  BY <1>4 DEF Among
  <2> QED  BY <2>1, <1>2, <1>4 DEF InLine
<1> QED  BY <1>3, <1>4 DEF InLine

LEMMA HeadInLine ==
  ASSUME NEW S, NEW s \in Seq(S), s # <<>>, NEW latest \in Nat, NEW last \in 0..latest, InLine(s, last, latest),
         NEW next, next = IF Head(s).n > 0 THEN Head(s).n ELSE last
  PROVE  next \in 0..latest /\ InLine(Tail(s), next, latest)
<1>1. /\ Len(s) \in Nat /\ 1 \in 1..Len(s) /\ Head(s) = s[1]
      /\ Len(Tail(s)) = Len(s) - 1 /\ \A i \in 1..Len(Tail(s)) : Tail(s)[i] = s[i + 1] /\ i + 1 \in 1..Len(s) /\ 1 < i + 1
  OBVIOUS
<1>2. next \in 0..latest  BY <1>1 DEF InLine
<1>3. \A i \in 1..Len(s) : s[i].n \in Nat  BY DEF InLine
<1>4. ASSUME NEW i \in 1..Len(Tail(s)) PROVE Tail(s)[i].n \in 0..latest /\ (Tail(s)[i].n > 0 => next < Tail(s)[i].n)
  BY <1>1, <1>3 DEF InLine
<1>5. ASSUME NEW i \in 1..Len(Tail(s)), NEW j \in 1..Len(Tail(s)), i < j, Tail(s)[i].n > 0, Tail(s)[j].n > 0
      PROVE  Tail(s)[i].n < Tail(s)[j].n
  <2>1. i + 1 < j + 1  BY <1>1, <1>5
  <2> QED  BY <2>1, <1>1, <1>5 DEF InLine
<1> QED  BY <1>2, <1>4, <1>5 DEF InLine

LEMMA AddedInLine ==
  ASSUME NEW S, NEW s \in Seq(S), NEW m, NEW latest \in Nat, NEW more \in Nat, NEW last \in 0..latest,
         InLine(s, last, latest), (m.n = 0 /\ more = latest) \/ (m.n = more /\ more = latest + 1)
  PROVE  last \in 0..more /\ InLine(Append(s, m), last, more)
<1> DEFINE a == Append(s, m)
<1>1. /\ Len(s) \in Nat /\ Len(a) = Len(s) + 1 /\ a[Len(s) + 1] = m
      /\ \A i \in 1..Len(s) : a[i] = s[i]
  OBVIOUS
<1>2. last \in 0..more /\ latest <= more  OBVIOUS
<1>3. ASSUME NEW i \in 1..Len(a) PROVE a[i].n \in 0..more /\ (a[i].n > 0 => last < a[i].n)
  <2>1. CASE i \in 1..Len(s)  BY <2>1, <1>1, <1>2 DEF InLine
  <2>2. CASE i = Len(s) + 1  BY <2>2, <1>1
  <2> HIDE DEF a
  <2> QED  BY <2>1, <2>2, <1>1
<1>4. ASSUME NEW i \in 1..Len(a), NEW j \in 1..Len(a), i < j, a[i].n > 0, a[j].n > 0 PROVE a[i].n < a[j].n
  <2> HIDE DEF a
  <2>1. i \in 1..Len(s)  BY <1>1, <1>4
  <2>2. s[i].n \in 0..latest /\ a[i] = s[i]  BY <1>1, <2>1 DEF InLine
  <2>3. CASE j \in 1..Len(s)  BY <2>1, <2>3, <1>1, <1>4 DEF InLine
  <2>4. CASE j = Len(s) + 1  BY <2>2, <2>4, <1>1, <1>4
  <2> QED  BY <2>3, <2>4, <1>1
<1> HIDE DEF a
<1>5. InLine(a, last, more)  BY <1>3, <1>4 DEF InLine
<1> QED  BY <1>2, <1>5 DEF a

(* What NotOfStorage leaves. *)

RestStep(messages, f, i) ==
    IF i = 0 THEN <<>>
    ELSE IF OfStorage(messages[i]) THEN f[i - 1] ELSE Append(f[i - 1], messages[i])

RestOf(messages, f, n) == f = [i \in 0..n |-> RestStep(messages, f, i)]

LEMMA RestExists ==
  ASSUME NEW messages, NEW n \in Nat
  PROVE  \E f : RestOf(messages, f, n)
<1> DEFINE Lacking == {k \in 0..n : ~ \E f : RestOf(messages, f, k)}
<1>1. SUFFICES ASSUME Lacking # {} PROVE FALSE
  OBVIOUS
<1>2. PICK k \in Lacking : \A j \in Lacking : k <= j
  <2>1. Lacking \in SUBSET (0..n)  OBVIOUS
  <2> HIDE DEF Lacking
  <2> QED  BY <1>1, <2>1, LeastExists
<1>3. CASE k = 0
  <2>1. RestOf(messages, [i \in 0..0 |-> <<>>], 0)  BY DEF RestOf, RestStep
  <2> QED  BY <1>3, <2>1
<1>4. CASE k # 0
  <2>1. k - 1 \in 0..n /\ k - 1 \notin Lacking  BY <1>2, <1>4
  <2>2. PICK f : RestOf(messages, f, k - 1)  BY <2>1
  <2> DEFINE g == [i \in 0..k |-> IF i = k THEN RestStep(messages, f, i) ELSE f[i]]
  <2>3. ASSUME NEW i \in 0..k PROVE g[i] = RestStep(messages, g, i)
    <3>1. i # 0 => g[i - 1] = f[i - 1]  BY <1>4
    <3>2. i # k => f[i] = RestStep(messages, f, i)  BY <2>2, <1>4 DEF RestOf
    <3>3. RestStep(messages, g, i) = RestStep(messages, f, i)  BY <3>1 DEF RestStep
    <3> QED  BY <3>2, <3>3
  <2>4. RestOf(messages, g, k)
    <3>1. g = [i \in 0..k |-> g[i]]  OBVIOUS
    <3> HIDE DEF g
    <3> QED  BY <2>3, <3>1 DEF RestOf
  <2> QED  BY <2>4, <1>2
<1> QED  BY <1>3, <1>4

LEMMA RestAmong ==
  ASSUME NEW T, NEW messages \in Seq(T)
  PROVE  /\ NotOfStorage(messages) \in Seq(T)
         /\ \E g : Among(NotOfStorage(messages), messages, g)
<1> DEFINE f == CHOOSE f : RestOf(messages, f, Len(messages))
           Rises(r, n, g) == /\ g \in [1..Len(r) -> 1..n]
                             /\ \A k \in 1..Len(r) : r[k] = messages[g[k]]
                             /\ \A k, l \in 1..Len(r) : k < l => g[k] < g[l]
           Fine(n) == f[n] \in Seq(T) /\ \E g : Rises(f[n], n, g)
           Not == {n \in 0..Len(messages) : ~Fine(n)}
<1>1. NotOfStorage(messages) = f[Len(messages)]
  BY DEF NotOfStorage, RestOf, RestStep
<1>2. Len(messages) \in Nat  OBVIOUS
<1>3. RestOf(messages, f, Len(messages))  BY <1>2, RestExists
<1> HIDE DEF f
<1>4. \A i \in 0..Len(messages) : f[i] = RestStep(messages, f, i)  BY <1>3 DEF RestOf
<1>5. ASSUME Not # {} PROVE FALSE
  <2>1. PICK n \in Not : \A m \in Not : n <= m
    <3>1. Not \in SUBSET (0..Len(messages))  OBVIOUS
    <3> HIDE DEF Not
    <3> QED  BY <1>2, <1>5, <3>1, LeastExists
  <2>2. f[n] = RestStep(messages, f, n)  BY <1>4
  <2>3. CASE n = 0
    <3>1. f[n] = <<>>  BY <2>2, <2>3 DEF RestStep
    <3>2. Rises(<<>>, n, <<>>)  OBVIOUS
    <3>3. <<>> \in Seq(T)  OBVIOUS
    <3>4. Rises(f[n], n, <<>>)  BY <3>1, <3>2
    <3>5. Fine(n)  BY <3>1, <3>3, <3>4
    <3> QED  BY <3>5, <2>1
  <2>4. CASE n # 0
    <3>11. n \in 1..Len(messages) /\ messages[n] \in T  BY <2>1, <2>4, <1>2
    <3>12. n - 1 \in 0..Len(messages) /\ n - 1 \in Nat /\ ~(n <= n - 1)  BY <3>11, <1>2
    <3>13. n - 1 \notin Not  BY <3>12, <2>1
    <3>14. Fine(n - 1)  BY <3>12, <3>13
    <3>1. n - 1 \in 0..Len(messages) /\ n - 1 \in Nat /\ Fine(n - 1) /\ n \in 1..Len(messages) /\ messages[n] \in T
      BY <3>11, <3>12, <3>14
    <3>2. PICK g : Rises(f[n - 1], n - 1, g)  BY <3>1
    <3>3. CASE OfStorage(messages[n])
      <4>1. f[n] = f[n - 1]  BY <2>2, <2>4, <3>3 DEF RestStep
      <4>2. Rises(f[n], n, g)  BY <4>1, <3>1, <3>2
      <4> QED  BY <4>1, <4>2, <3>1, <2>1
    <3>4. CASE ~OfStorage(messages[n])
      <4> DEFINE r == f[n - 1]
                 a == Append(r, messages[n])
                 h == [k \in 1..Len(a) |-> IF k = Len(a) THEN n ELSE g[k]]
      <4>1. f[n] = a  BY <2>2, <2>4, <3>4 DEF RestStep
      <4>2. r \in Seq(T)  BY <3>1
      <4> HIDE DEF r
      <4>3. /\ a \in Seq(T) /\ Len(r) \in Nat /\ Len(a) = Len(r) + 1 /\ a[Len(a)] = messages[n]
            /\ \A k \in 1..Len(r) : a[k] = r[k]
        BY <3>1, <4>2
      <4>4. Rises(r, n - 1, g)  BY <3>2 DEF r
      <4> HIDE DEF a
      <4>5. \A k \in 1..Len(a) : k # Len(a) => k \in 1..Len(r) /\ h[k] = g[k] /\ g[k] \in 1..(n - 1)
        BY <4>3, <4>4
      <4>6. h[Len(a)] = n  BY <4>3
      <4>7. h \in [1..Len(a) -> 1..n]  BY <4>3, <4>5, <4>6, <3>1
      <4>8. \A k \in 1..Len(a) : a[k] = messages[h[k]]  BY <4>3, <4>4, <4>5, <4>6
      <4>9. \A k, l \in 1..Len(a) : k < l => h[k] < h[l]
        <5> SUFFICES ASSUME NEW k \in 1..Len(a), NEW l \in 1..Len(a), k < l PROVE h[k] < h[l]
          OBVIOUS
        <5>1. k # Len(a)  BY <4>3
        <5>2. h[k] = g[k] /\ g[k] \in 1..(n - 1) /\ k \in 1..Len(r)  BY <4>5, <5>1
        <5>3. CASE l = Len(a)  BY <5>2, <5>3, <4>6, <3>1
        <5>4. CASE l # Len(a)  BY <5>2, <5>4, <4>5, <4>4
        <5> HIDE DEF h
        <5> QED  BY <5>3, <5>4
      <4> HIDE DEF h
      <4>10. Rises(a, n, h)  BY <4>7, <4>8, <4>9
      <4> QED  BY <4>1, <4>3, <4>10, <2>1
    <3> QED  BY <3>3, <3>4
  <2> QED  BY <2>3, <2>4
<1>6. Fine(Len(messages))  BY <1>5, <1>2
<1>7. ASSUME NEW g, Rises(f[Len(messages)], Len(messages), g) PROVE Among(f[Len(messages)], messages, g)
  BY <1>7 DEF Among
<1> QED  BY <1>1, <1>6, <1>7

LEMMA Widened ==
  ASSUME NEW S, NEW s \in Seq(S), NEW T, S \subseteq T
  PROVE  s \in Seq(T)
  OBVIOUS

(* What follows the same thing. *)
LEMMA AfterSame ==
  ASSUME NEW T, NEW a \in Seq(T), NEW r \in Seq(T), NEW s \in Seq(T), NEW g, Among(r, s, g)
  PROVE  \E h : Among(a \o r, a \o s, h)
<1> DEFINE ar == a \o r
           as == a \o s
           h == [k \in 1..Len(ar) |-> IF k <= Len(a) THEN k ELSE Len(a) + g[k - Len(a)]]
<1>1. /\ Len(a) \in Nat /\ Len(r) \in Nat /\ Len(s) \in Nat /\ Len(ar) = Len(a) + Len(r) /\ Len(as) = Len(a) + Len(s)
      /\ \A k \in 1..Len(ar) : ar[k] = IF k <= Len(a) THEN a[k] ELSE r[k - Len(a)]
      /\ \A k \in 1..Len(as) : as[k] = IF k <= Len(a) THEN a[k] ELSE s[k - Len(a)]
  OBVIOUS
<1> HIDE DEF ar, as
<1>2. \A k \in 1..Len(ar) : k > Len(a) => k - Len(a) \in 1..Len(r)  BY <1>1
<1>3. \A k \in 1..Len(r) : g[k] \in 1..Len(s) /\ r[k] = s[g[k]]  BY DEF Among
<1>10. \A k \in 1..Len(ar) : h[k] = IF k <= Len(a) THEN k ELSE Len(a) + g[k - Len(a)]  OBVIOUS
<1>11. h = [k \in 1..Len(ar) |-> h[k]]  OBVIOUS
<1> HIDE DEF h
<1>4. ASSUME NEW k \in 1..Len(ar) PROVE h[k] \in 1..Len(as)
  <2>1. CASE k <= Len(a)  BY <2>1, <1>1, <1>10
  <2>2. CASE ~(k <= Len(a))
    <3>1. k - Len(a) \in 1..Len(r)  BY <2>2, <1>1, <1>2
    <3>2. g[k - Len(a)] \in 1..Len(s)  BY <3>1, <1>3
    <3> QED  BY <3>2, <2>2, <1>1, <1>10
  <2> QED  BY <2>1, <2>2
<1>5. \A k \in 1..Len(ar) : ar[k] = as[h[k]]
  <2> SUFFICES ASSUME NEW k \in 1..Len(ar) PROVE ar[k] = as[h[k]]
    OBVIOUS
  <2>1. CASE k <= Len(a)
    <3>1. h[k] = k /\ k \in 1..Len(as)  BY <2>1, <1>1, <1>10
    <3> QED  BY <2>1, <3>1, <1>1
  <2>2. CASE ~(k <= Len(a))
    <3>1. k - Len(a) \in 1..Len(r)  BY <2>2, <1>1, <1>2
    <3>2. h[k] = Len(a) + g[k - Len(a)] /\ g[k - Len(a)] \in 1..Len(s)  BY <2>2, <3>1, <1>3, <1>10
    <3>3. h[k] \in 1..Len(as) /\ ~(h[k] <= Len(a)) /\ h[k] - Len(a) = g[k - Len(a)]  BY <3>2, <1>1
    <3>4. as[h[k]] = s[g[k - Len(a)]]  BY <3>3, <1>1
    <3> QED  BY <3>4, <3>1, <1>3, <1>1, <2>2
  <2> QED  BY <2>1, <2>2
<1>6. ASSUME NEW k \in 1..Len(ar), NEW l \in 1..Len(ar), k < l PROVE h[k] < h[l]
  <2>1. CASE l <= Len(a)  BY <2>1, <1>6, <1>1, <1>10
  <2>2. CASE ~(l <= Len(a)) /\ k <= Len(a)
    <3>1. l - Len(a) \in 1..Len(r)  BY <2>2, <1>1, <1>2
    <3>2. g[l - Len(a)] \in 1..Len(s)  BY <3>1, <1>3
    <3> QED  BY <3>2, <2>2, <1>1, <1>10
  <2>3. CASE ~(l <= Len(a)) /\ ~(k <= Len(a))
    <3>1. k - Len(a) \in 1..Len(r) /\ l - Len(a) \in 1..Len(r) /\ k - Len(a) < l - Len(a)  BY <2>3, <1>6, <1>1, <1>2
    <3>2. g[k - Len(a)] < g[l - Len(a)]  BY <3>1 DEF Among
    <3>3. g[k - Len(a)] \in Nat /\ g[l - Len(a)] \in Nat  BY <3>1, <1>3, <1>1
    <3> QED  BY <2>3, <3>2, <3>3, <1>1, <1>10
  <2> QED  BY <2>1, <2>2, <2>3
<1>7. h \in [1..Len(ar) -> 1..Len(as)]  BY <1>4, <1>11
<1>8. Among(ar, as, h)  BY <1>5, <1>6, <1>7 DEF Among
<1> QED  BY <1>8 DEF ar, as

(* How a step leaves what comes. *)

MailStill == mail' = mail /\ mem'.aside = mem.aside /\ "aside" \in DOMAIN mem' /\ told' = told /\ heeded' = heeded

LEMMA StillOrdered ==
  ASSUME MailOrdered, MailStill
  PROVE  MailOrdered'
BY DEF MailOrdered, MailStill, Coming

Both(T) == mem.aside \in Seq(T) /\ mail \in Seq(T)

LEMMA OneType ==
  ASSUME Sequential(mem.aside), Sequential(mail)
  PROVE  \E T : Both(T) /\ Coming \in Seq(T)
<1>1. PICK S : mem.aside \in Seq(S)  BY DEF Sequential
<1>2. PICK T : mail \in Seq(T)  BY DEF Sequential
<1>3. mem.aside \in Seq(S \cup T) /\ mail \in Seq(S \cup T)
  BY <1>1, <1>2, Widened
<1>4. Coming \in Seq(S \cup T)  BY <1>3 DEF Coming
<1> QED  BY <1>3, <1>4 DEF Both

(* What comes, less some of it. *)
LEMMA LessOrdered ==
  ASSUME MailOrdered, "aside" \in DOMAIN mem', told' = told, heeded' = heeded,
         NEW T, mem'.aside \in Seq(T), mail' \in Seq(T), Coming \in Seq(T), NEW f, Among(Coming', Coming, f)
  PROVE  MailOrdered'
<1>1. Coming' \in Seq(T)  BY DEF Coming
<1>2. heeded \in Nat /\ told \in Nat  BY DEF MailOrdered
<1>3. InLine(Coming', heeded, told)  BY <1>1, <1>2, AmongInLine DEF MailOrdered
<1> QED  BY <1>2, <1>3 DEF MailOrdered, Sequential, InLine

(* The next is taken, and handled. *)
LEMMA HandledOrdered ==
  ASSUME MailOrdered, "aside" \in DOMAIN mem', told' = told,
         mem.aside # <<>> \/ mail # <<>>,
         mail' = IF mem.aside # <<>> THEN mail ELSE Tail(mail),
         mem'.aside = IF mem.aside # <<>> THEN Tail(mem.aside) ELSE mem.aside,
         heeded' = IF NextMessage.n > 0 THEN NextMessage.n ELSE heeded
  PROVE  MailOrdered'
<1>1. PICK T : Both(T) /\ Coming \in Seq(T)  BY OneType DEF MailOrdered
<1>2. /\ Coming # <<>> /\ Head(Coming) = NextMessage
      /\ Coming' = Tail(Coming) /\ mem'.aside \in Seq(T) /\ mail' \in Seq(T)
  <2>1. CASE mem.aside # <<>>
    <3>1. /\ mem'.aside = Tail(mem.aside) /\ mail' = mail /\ NextMessage = Head(mem.aside)
      BY <2>1 DEF NextMessage
    <3>2. /\ mem.aside \o mail # <<>> /\ Head(mem.aside \o mail) = Head(mem.aside)
          /\ Tail(mem.aside) \o mail = Tail(mem.aside \o mail) /\ Tail(mem.aside) \in Seq(T)
      BY <1>1, <2>1 DEF Both
    <3> QED  BY <3>1, <3>2, <1>1 DEF Coming, Both
  <2>2. CASE mem.aside = <<>>
    <3>1. mem'.aside = <<>> /\ mail' = Tail(mail) /\ mail # <<>> /\ NextMessage = Head(mail)
      BY <2>2 DEF NextMessage
    <3>2. <<>> \o mail = mail /\ <<>> \o Tail(mail) = Tail(mail) /\ Tail(mail) \in Seq(T) /\ <<>> \in Seq(T)
      BY <1>1, <3>1 DEF Both
    <3> QED  BY <3>1, <3>2, <2>2 DEF Coming
  <2> QED  BY <2>1, <2>2
<1>3. told \in Nat /\ heeded \in 0..told /\ InLine(Coming, heeded, told)  BY DEF MailOrdered
<1>4. heeded' \in 0..told /\ InLine(Tail(Coming), heeded', told)  BY <1>1, <1>2, <1>3, HeadInLine
<1> QED  BY <1>2, <1>3, <1>4 DEF MailOrdered, Sequential, InLine

(* One comes, last. *)
LEMMA AddedOrdered ==
  ASSUME MailOrdered, "aside" \in DOMAIN mem', mem'.aside = mem.aside, heeded' = heeded,
         NEW m, mail' = Append(mail, m), (m.n = 0 /\ told' = told) \/ (m.n = told' /\ told' = told + 1)
  PROVE  MailOrdered'
<1>1. PICK T : Both(T) /\ Coming \in Seq(T)  BY OneType DEF MailOrdered
<1>2. Coming' = Append(Coming, m)
  <2> DEFINE U == T \cup {m}
  <2>1. mem.aside \in Seq(U) /\ mail \in Seq(U) /\ m \in U  BY <1>1, Widened DEF Both
  <2> HIDE DEF U
  <2>2. PICK a \in Seq(U), b \in Seq(U) : a = mem.aside /\ b = mail  BY <2>1
  <2>3. a \o Append(b, m) = Append(a \o b, m)  BY <2>1, AddedLast
  <2> QED  BY <2>2, <2>3 DEF Coming
<1>3. told \in Nat /\ told' \in Nat /\ heeded \in 0..told /\ InLine(Coming, heeded, told)  BY DEF MailOrdered
<1>4. heeded \in 0..told' /\ InLine(Append(Coming, m), heeded, told')  BY <1>1, <1>3, AddedInLine
<1>5. mail' \in Seq(T \cup {m}) /\ mem'.aside \in Seq(T)
  <2>1. mail \in Seq(T \cup {m})  BY <1>1, Widened DEF Both
  <2> QED  BY <1>1, <2>1 DEF Both
<1> QED  BY <1>2, <1>3, <1>4, <1>5 DEF MailOrdered, Sequential, InLine

(* What is in the inbox is set aside, but for what eviction says. *)
LEMMA HeardOrdered ==
  ASSUME MailOrdered, Heard, told' = told, heeded' = heeded
  PROVE  MailOrdered'
<1>1. PICK T : Both(T) /\ Coming \in Seq(T)  BY OneType DEF MailOrdered
<1> DEFINE rest == NotOfStorage(mail)
<1>2. rest \in Seq(T) /\ \E g : Among(rest, mail, g)  BY <1>1, RestAmong DEF Both
<1>3. "aside" \in DOMAIN mem' /\ mem'.aside = mem.aside \o rest /\ mail' = <<>>
  BY DEF MailOrdered, Heard, SetAside
<1> HIDE DEF rest
<1>4. \E h : Among(mem.aside \o rest, mem.aside \o mail, h)
  <2>1. mem.aside \in Seq(T) /\ mail \in Seq(T)  BY <1>1 DEF Both
  <2> QED  BY <1>2, <2>1, AfterSame
<1>5. (mem.aside \o rest) \o <<>> = mem.aside \o rest /\ mem.aside \o rest \in Seq(T) /\ <<>> \in Seq(T)
  BY <1>1, <1>2 DEF Both
<1>6. PICK h : Among(Coming', Coming, h)  BY <1>3, <1>4, <1>5 DEF Coming
<1> QED  BY <1>1, <1>3, <1>5, <1>6, LessOrdered

(* What was set aside is forgotten. *)
LEMMA AmongLast ==
  ASSUME NEW T, NEW a \in Seq(T), NEW s \in Seq(T)
  PROVE  \E f : Among(s, a \o s, f)
<1> DEFINE as == a \o s
           f == [i \in 1..Len(s) |-> Len(a) + i]
<1>1. /\ Len(a) \in Nat /\ Len(s) \in Nat /\ Len(as) = Len(a) + Len(s)
      /\ \A i \in 1..Len(as) : as[i] = IF i <= Len(a) THEN a[i] ELSE s[i - Len(a)]
  OBVIOUS
<1> HIDE DEF as
<1>2. \A i \in 1..Len(s) : f[i] = Len(a) + i /\ i \in Nat  OBVIOUS
<1>3. f \in [1..Len(s) -> 1..Len(as)]  BY <1>1
<1> HIDE DEF f
<1>4. ASSUME NEW i \in 1..Len(s) PROVE s[i] = as[f[i]]
  <2>1. f[i] \in 1..Len(as) /\ ~(f[i] <= Len(a)) /\ f[i] - Len(a) = i  BY <1>1, <1>2
  <2> QED  BY <2>1, <1>1
<1>5. \A i, j \in 1..Len(s) : i < j => f[i] < f[j]  BY <1>1, <1>2
<1>6. Among(s, as, f)  BY <1>3, <1>4, <1>5 DEF Among
<1> QED  BY <1>6 DEF as

LEMMA LostInLine ==
  ASSUME MailOrdered
  PROVE  InLine(mail, heeded, told)
<1>1. PICK T : Both(T) /\ Coming \in Seq(T)  BY OneType DEF MailOrdered
<1>2. mem.aside \in Seq(T) /\ mail \in Seq(T) /\ Coming = mem.aside \o mail  BY <1>1 DEF Both, Coming
<1>4. \E f : Among(mail, mem.aside \o mail, f)  BY <1>2, AmongLast
<1>5. PICK f : Among(mail, Coming, f)  BY <1>2, <1>4
<1>3. heeded \in Nat /\ told \in Nat /\ InLine(Coming, heeded, told)  BY DEF MailOrdered
<1> QED  BY <1>1, <1>2, <1>5, <1>3, AmongInLine

(* Each step leaves what comes in line. *)

LEMMA InitMail == BackupInit => MailOrdered
<1> SUFFICES ASSUME BackupInit PROVE MailOrdered
  OBVIOUS
<1>1. "aside" \in DOMAIN mem /\ mem.aside = <<>> /\ mail = <<>> /\ told = 0 /\ heeded = 0
  BY DEF BackupInit, Forgotten
<1>2. <<>> \in Seq({}) /\ <<>> \o <<>> = <<>>  OBVIOUS
<1> QED  BY <1>1, <1>2 DEF MailOrdered, Sequential, InLine, Coming

USE DEF backupVars, files, backupHistory

HandledNext ==
    /\ "aside" \in DOMAIN mem' /\ told' = told
    /\ mem.aside # <<>> \/ mail # <<>>
    /\ mail' = IF mem.aside # <<>> THEN mail ELSE Tail(mail)
    /\ mem'.aside = IF mem.aside # <<>> THEN Tail(mem.aside) ELSE mem.aside
    /\ heeded' = IF NextMessage.n > 0 THEN NextMessage.n ELSE heeded

LEMMA TakenMail ==
  ASSUME "aside" \in DOMAIN mem
  PROVE  /\ "aside" \in DOMAIN Taken
         /\ Taken.aside = IF mem.aside # <<>> THEN Tail(mem.aside) ELSE mem.aside
BY DEF Taken

LEMMA HandlersMail ==
  ASSUME MailOrdered,
         \/ OnStorageFull \/ OnJobConfigured \/ OnJobRemoved \/ OnRunRequested
         \/ OnRestoreRequested \/ OnTaskRequested \/ OnArchiveRequested
         \/ OnArchiveRemoved \/ OnDataStored
  PROVE  HandledNext
<1> USE TakenMail DEF MailOrdered, HandledNext, Hears, Handled, Failed
<1> DEFINE taken == Taken
<1>1. CASE OnStorageFull
  BY <1>1 DEF OnStorageFull
<1>2. CASE OnJobConfigured
  BY <1>2 DEF OnJobConfigured, Keep
<1>3. CASE OnJobRemoved
  BY <1>3 DEF OnJobRemoved, Keep
<1>4. CASE OnRunRequested
  BY <1>4 DEF OnRunRequested
<1>5. CASE OnRestoreRequested
  BY <1>5 DEF OnRestoreRequested
<1>6. CASE OnTaskRequested
  BY <1>6 DEF OnTaskRequested
<1>7. CASE OnArchiveRequested
  BY <1>7 DEF OnArchiveRequested
<1>8. CASE OnArchiveRemoved
  BY <1>8 DEF OnArchiveRemoved, Removed
<1>9. CASE OnDataStored
  BY <1>9 DEF OnDataStored
<1> QED  BY <1>1, <1>2, <1>3, <1>4, <1>5, <1>6, <1>7, <1>8, <1>9

LEMMA CarriesMail ==
  ASSUME MailOrdered,
         \/ OnIdle \/ Expire \/ WorkNext \/ StallsOut
         \/ Walk \/ Walked \/ Bundles \/ BundleStored
         \/ KeepsExpanded \/ KeepsLatest \/ RecordsBuild \/ Exports
         \/ RestorePlaces \/ RestoreSettles \/ ArchiveLooks
         \/ ArchiveWrites \/ ArchiveRecorded
         \/ CannotWalk \/ RestoreCannotWrite \/ UserEdits
         \/ Arrives \/ Evicts \/ Tick \/ UNCHANGED backupVars
  PROVE  MailStill
<1> USE DEF MailOrdered, MailStill, Done
<1>1. CASE OnIdle
  BY <1>1 DEF OnIdle, Handled
<1>2. CASE Expire
  BY <1>2 DEF Expire, Removed
<1>3. CASE WorkNext
  BY <1>3 DEF WorkNext
<1>4. CASE StallsOut
  BY <1>4 DEF StallsOut, WorkFailed, LookEnds
<1>5. CASE Walk \/ Walked
  BY <1>5 DEF Walk, Walked
<1>6. CASE Bundles
  <2>1. mem' = mem
    BY <1>6 DEF Bundles, Walking, JobBundles, BuildBundles, MakesBundle
  <2> QED  BY <1>6, <2>1 DEF Bundles
<1>7. CASE BundleStored
  BY <1>7 DEF BundleStored
<1>8. CASE KeepsExpanded
  BY <1>8 DEF KeepsExpanded, WorkFailed, LookEnds
<1>9. CASE KeepsLatest
  BY <1>9 DEF KeepsLatest, WorkFailed, LookEnds
<1>10. CASE RecordsBuild
  BY <1>10 DEF RecordsBuild
<1>11. CASE Exports
  BY <1>11 DEF Exports
<1>12. CASE RestorePlaces
  BY <1>12 DEF RestorePlaces, RestoreFailed
<1>13. CASE RestoreSettles
  BY <1>13 DEF RestoreSettles, RestoreFailed
<1>14. CASE ArchiveLooks
  BY <1>14 DEF ArchiveLooks, ArchiveWaits
<1>15. CASE ArchiveWrites
  BY <1>15 DEF ArchiveWrites, ArchiveWaits, ArchiveFailed
<1>16. CASE ArchiveRecorded
  BY <1>16 DEF ArchiveRecorded, ArchiveFailed
<1>17. CASE CannotWalk
  BY <1>17 DEF CannotWalk, WorkFailed, LookEnds
<1>18. CASE RestoreCannotWrite
  BY <1>18 DEF RestoreCannotWrite, RestoreFailed
<1>19. CASE UserEdits \/ Arrives \/ Evicts \/ UNCHANGED backupVars
  BY <1>19 DEF UserEdits, Arrives, Evicts
<1>20. CASE Tick
  BY <1>20 DEF Tick
<1> QED
  BY <1>1, <1>2, <1>3, <1>4, <1>5, <1>6, <1>7, <1>8, <1>9, <1>10, <1>11, <1>12, <1>13, <1>14, <1>15, <1>16,
     <1>17, <1>18, <1>19, <1>20

LEMMA StoresMail ==
  ASSUME MailOrdered, Stores
  PROVE  MailOrdered'
<1>1. CASE UNCHANGED <<mem, mail>>
  BY <1>1, StillOrdered DEF Stores, MailStill, MailOrdered
<1>2. CASE Heard
  BY <1>2, HeardOrdered DEF Stores
<1> QED  BY <1>1, <1>2 DEF Stores

LEMMA AddsMail ==
  ASSUME MailOrdered,
         UserAsks \/ Fills \/ Empties \/ Announced
  PROVE  MailOrdered'
<1>1. mem' = mem /\ heeded' = heeded /\ "aside" \in DOMAIN mem'
  BY DEF UserAsks, Fills, Empties, Announced, MailOrdered
<1>2. \/ mail' = mail /\ told' = told
      \/ \E m : mail' = Append(mail, m) /\ ((m.n = 0 /\ told' = told) \/ (m.n = told' /\ told' = told + 1))
  <2> USE DEF Message
  <2>1. CASE UserAsks  BY <2>1 DEF UserAsks
  <2>2. CASE Fills  BY <2>2 DEF Fills
  <2>3. CASE Empties  BY <2>3 DEF Empties
  <2>4. CASE Announced  BY <2>4 DEF Announced
  <2> QED  BY <2>1, <2>2, <2>3, <2>4
<1> QED  BY <1>1, <1>2, StillOrdered, AddedOrdered DEF MailStill

(* A process that ends loses what it set aside, and one that starts has set *)
(* nothing aside.                                                            *)
LEMMA RestartsMail ==
  ASSUME MailOrdered, Crashes \/ OnStart
  PROVE  MailOrdered'
<1>1. /\ told \in Nat /\ heeded \in 0..told /\ InLine(mail, heeded, told)
      /\ "aside" \in DOMAIN Forgotten /\ Forgotten.aside = <<>>
  BY LostInLine DEF MailOrdered, Forgotten
<1>2. PICK T : mail \in Seq(T)  BY DEF MailOrdered, Sequential
<1>3. <<>> \o mail = mail /\ <<>> \in Seq(T)  BY <1>2
<1>4. CASE Crashes
  <2>1. mem' = Forgotten /\ mail' = mail /\ told' = told /\ heeded' = heeded
    BY <1>4 DEF Crashes, Done
  <2> QED  BY <2>1, <1>1, <1>2, <1>3 DEF MailOrdered, Sequential, Coming, InLine
<1>5. CASE OnStart
  <2>1. PICK m : mail' = Append(mail, m) /\ m.n = 0
    BY <1>5 DEF OnStart, Message
  <2>2. "aside" \in DOMAIN mem' /\ mem'.aside = <<>> /\ told' = told /\ heeded' = heeded
    BY <1>1, <1>5 DEF OnStart, Forgotten
  <2>3. InLine(Append(mail, m), heeded, told)  BY <1>1, <1>2, <2>1, AddedInLine
  <2>4. Append(mail, m) \in Seq(T \cup {m}) /\ <<>> \in Seq(T \cup {m}) /\ <<>> \o Append(mail, m) = Append(mail, m)
    <3>1. mail \in Seq(T \cup {m})  BY <1>2, Widened
    <3> QED  BY <3>1
  <2>5. mem'.aside \in Seq(T \cup {m}) /\ mail' \in Seq(T \cup {m}) /\ Coming' = Append(mail, m)
    BY <2>1, <2>2, <2>4 DEF Coming
  <2> QED  BY <2>1, <2>2, <2>3, <2>5, <1>1 DEF MailOrdered, Sequential, InLine
<1> QED  BY <1>4, <1>5

LEMMA StepMail ==
  ASSUME MailOrdered, [BackupNext]_backupVars
  PROVE  MailOrdered'
<1>1. CASE Handles
  <2>1. CASE OnIdle  BY <2>1, CarriesMail, StillOrdered
  <2>2. CASE ~OnIdle
    <3>1. HandledNext  BY <1>1, <2>2, HandlersMail DEF Handles
    <3> QED  BY <3>1, HandledOrdered DEF HandledNext
  <2> QED  BY <2>1, <2>2
<1>2. CASE Carries
  <2>1. CASE Stores  BY <2>1, StoresMail
  <2>2. CASE WaitsForRoom  BY <2>2, HeardOrdered DEF WaitsForRoom
  <2>3. CASE OnStart  BY <2>3, RestartsMail
  <2>4. CASE ~Stores /\ ~WaitsForRoom /\ ~OnStart
    <3>1. MailStill  BY <1>2, <2>4, CarriesMail DEF Carries
    <3> QED  BY <3>1, StillOrdered
  <2> QED  BY <2>1, <2>2, <2>3, <2>4
<1>3. CASE Surroundings
  <2>1. CASE Crashes  BY <2>1, RestartsMail
  <2>2. CASE UserAsks \/ Fills  BY <2>2, AddsMail
  <2>3. CASE ~Crashes /\ ~UserAsks /\ ~Fills
    <3>1. MailStill  BY <1>3, <2>3, CarriesMail DEF Surroundings
    <3> QED  BY <3>1, StillOrdered
  <2> QED  BY <2>1, <2>2, <2>3
<1>4. CASE Empties \/ Announced
  BY <1>4, AddsMail
<1>5. CASE Tick \/ UNCHANGED backupVars
  <2>1. MailStill  BY <1>5, CarriesMail
  <2> QED  BY <2>1, StillOrdered
<1> QED  BY <1>1, <1>2, <1>3, <1>4, <1>5 DEF BackupNext

LEMMA OrderedIsInOrder ==
  ASSUME MailOrdered
  PROVE  HandledInOrder
<1>1. PICK T : Coming \in Seq(T)  BY OneType DEF MailOrdered
<1>2. DOMAIN Coming = 1..Len(Coming)  BY <1>1
<1>3. InLine(Coming, heeded, told)  BY DEF MailOrdered
<1> QED  BY <1>2, <1>3 DEF HandledInOrder, InTurn, InLine, Coming

(* The backup process handles what it is asked in the order it was asked   *)
(* (backup/module.py:1117-1132), though it takes messages ahead of their   *)
(* turn while it stores, for any requests, and whatever a crash loses.     *)
THEOREM HandlesInOrder == BackupSpec => []HandledInOrder
<1>1. MailOrdered /\ [BackupNext]_backupVars => MailOrdered'
  BY StepMail
<1> QED  BY InitMail, <1>1, OrderedIsInOrder, PTL DEF BackupSpec

(* An archive listed as kept is kept. *)

KeptTyped ==
    /\ "alive" \in DOMAIN mem /\ "archive" \in DOMAIN mem /\ "kept" \in DOMAIN mem
    /\ "status" \in DOMAIN mem.archive /\ "expires" \in DOMAIN mem.archive
    /\ "kept" \in DOMAIN mem.kept /\ "expires" \in DOMAIN mem.kept
    /\ "kept" \in DOMAIN kept_file /\ "expires" \in DOMAIN kept_file
    /\ "doing" \in DOMAIN work /\ "at" \in DOMAIN work /\ "want" \in DOMAIN work
    /\ archive_file \in BOOLEAN

AtRecord == At("archive", "record")

(* An archive is kept, or being kept, and not both; and only a walk stores. *)
OneOrOther ==
    /\ ~mem.alive => mem.archive.status = "none"
    /\ mem.archive.status # "none" => ~mem.kept.kept
    /\ work.doing = "archive" => mem.archive.status # "none"
    /\ work.want # <<>> => work.doing \in {"job", "build", "import"}

KeptHolds == KeptTyped /\ OneOrOther /\ KeptIsListed

(* A step that leaves archives alone. *)
KeptStill ==
    /\ KeptTyped'
    /\ archive_file' = archive_file /\ kept_file' = kept_file
    /\ mem'.alive = mem.alive /\ mem'.kept = mem.kept
    /\ mem'.archive.status = mem.archive.status
    /\ work'.doing = "archive" => work.doing = "archive" /\ work'.at = work.at
    /\ work.doing = "archive" => work'.doing = "archive"
    /\ work'.want # <<>> => work'.doing \in {"job", "build", "import"}

LEMMA KeptStillHolds ==
  ASSUME KeptHolds, KeptStill
  PROVE  KeptHolds'
BY DEF KeptHolds, KeptStill, OneOrOther, KeptIsListed, At

LEMMA ArchiveNone ==
  /\ DOMAIN NoArchive = {"status", "due", "arrived", "asked", "missing", "expires"}
  /\ NoArchive.status = "none"
BY DEF NoArchive

LEMMA NotKeptIs ==
  /\ DOMAIN NotKept = {"kept", "expires"}
  /\ NotKept.kept = FALSE
BY DEF NotKept

LEMMA RestingIs ==
  /\ "doing" \in DOMAIN Resting /\ "at" \in DOMAIN Resting /\ "want" \in DOMAIN Resting
  /\ Resting.doing = "rest" /\ Resting.at = "rest" /\ Resting.want = <<>>
BY DEF Resting

LEMMA ForgottenIs ==
  /\ \A f \in {"alive", "archive", "kept", "aside", "restore", "tasks", "job"} : f \in DOMAIN Forgotten
  /\ Forgotten.alive = FALSE /\ Forgotten.archive = NoArchive
  /\ Forgotten.kept = NotKept
BY DEF Forgotten

LEMMA InitKept == BackupInit => KeptHolds
<1> SUFFICES ASSUME BackupInit PROVE KeptHolds
  OBVIOUS
<1>1. /\ mem = [Forgotten EXCEPT !.alive = TRUE] /\ work = Resting
      /\ kept_file = NotKept /\ archive_file = FALSE
  BY DEF BackupInit
<1>2. mem.kept = NotKept /\ mem.archive = NoArchive
  BY <1>1, ForgottenIs
<1>3. KeptTyped
  BY <1>1, <1>2, ForgottenIs, NotKeptIs, ArchiveNone, RestingIs DEF KeptTyped
<1> QED
  BY <1>1, <1>2, <1>3, NotKeptIs, ArchiveNone, RestingIs DEF KeptHolds, OneOrOther, KeptIsListed

LEMMA TakenKept ==
  ASSUME KeptTyped
  PROVE  /\ \A f \in {"alive", "archive", "kept"} : f \in DOMAIN Taken
         /\ Taken.alive = mem.alive /\ Taken.archive = mem.archive
         /\ Taken.kept = mem.kept
BY DEF KeptTyped, Taken

LEMMA LandedStatus ==
  ASSUME NEW task, "status" \in DOMAIN task, NEW o
  PROVE  /\ DOMAIN archive_landed(task, o) = DOMAIN task
         /\ archive_landed(task, o).status = task.status
BY DEF archive_landed, landed

LEMMA HandlersKept ==
  ASSUME KeptHolds,
         \/ OnStorageFull \/ OnJobConfigured \/ OnJobRemoved \/ OnRunRequested
         \/ OnRestoreRequested \/ OnTaskRequested \/ OnDataStored \/ OnIdle
  PROVE  KeptStill
<1> DEFINE next == [Resting EXCEPT !.doing = "next", !.at = "expire"]
           Same(m) == /\ \A f \in {"alive", "archive", "kept"} : f \in DOMAIN m
                      /\ m.alive = mem.alive /\ m.kept = mem.kept
                      /\ DOMAIN m.archive = DOMAIN mem.archive /\ m.archive.status = mem.archive.status
<1>1. /\ "doing" \in DOMAIN next /\ "at" \in DOMAIN next /\ "want" \in DOMAIN next
      /\ next.doing = "next" /\ next.want = <<>>
  BY RestingIs
<1>2. Same(mem) /\ Same(Taken)
  BY TakenKept DEF KeptHolds, KeptTyped
<1> HIDE DEF next
<1>3. ASSUME archive_file' = archive_file, kept_file' = kept_file, work.doing = "rest", Same(mem'),
             work' = next \/ work' = work
      PROVE  KeptStill
  BY <1>1, <1>3 DEF KeptHolds, KeptTyped, OneOrOther, KeptStill
<1> USE DEF Hears, At, Handled, Failed
<1>4. work.doing = "rest" /\ archive_file' = archive_file /\ kept_file' = kept_file
  BY DEF OnStorageFull, OnJobConfigured, OnJobRemoved, OnRunRequested,
         OnRestoreRequested, OnTaskRequested, OnDataStored, OnIdle
<1>5. work' = next \/ work' = work
  BY DEF next, OnStorageFull, OnJobConfigured, OnJobRemoved, OnRunRequested,
         OnRestoreRequested, OnTaskRequested, OnDataStored, OnIdle,
         Keep
<1>6. Same(mem')
  <2>1. CASE OnStorageFull  BY <1>2, <2>1 DEF OnStorageFull
  <2>2. CASE OnJobConfigured  BY <1>2, <2>2 DEF OnJobConfigured, Keep
  <2>3. CASE OnJobRemoved  BY <1>2, <2>3 DEF OnJobRemoved, Keep
  <2>4. CASE OnRunRequested  BY <1>2, <2>4 DEF OnRunRequested
  <2>5. CASE OnRestoreRequested  BY <1>2, <2>5 DEF OnRestoreRequested
  <2>6. CASE OnTaskRequested  BY <1>2, <2>6 DEF OnTaskRequested
  <2>7. CASE OnDataStored
    <3>1. "status" \in DOMAIN Taken.archive
      BY <1>2 DEF KeptHolds, KeptTyped
    <3> QED  BY <1>2, <2>7, <3>1, LandedStatus DEF OnDataStored
  <2>8. CASE OnIdle  BY <1>2, <2>8 DEF OnIdle
  <2> QED  BY <2>1, <2>2, <2>3, <2>4, <2>5, <2>6, <2>7, <2>8
<1> QED  BY <1>3, <1>4, <1>5, <1>6

(* Storing, and all the work but that on archives. *)

MemAlike ==
    /\ "alive" \in DOMAIN mem' /\ "archive" \in DOMAIN mem' /\ "kept" \in DOMAIN mem'
    /\ mem'.alive = mem.alive /\ mem'.kept = mem.kept /\ mem'.archive = mem.archive

WorkGoesOn ==
    /\ "doing" \in DOMAIN work' /\ "at" \in DOMAIN work' /\ "want" \in DOMAIN work'
    /\ work'.doing # "archive" /\ (work'.want # <<>> => work'.doing \in {"job", "build", "import"})

LEMMA WorkKept ==
  ASSUME KeptHolds, work.doing # "archive", archive_file' = archive_file, kept_file' = kept_file,
         MemAlike, WorkGoesOn
  PROVE  KeptStill
BY DEF KeptHolds, KeptTyped, KeptStill, MemAlike, WorkGoesOn

LEMMA CarriesKept ==
  ASSUME KeptHolds,
         \/ Stores \/ WaitsForRoom \/ StallsOut
         \/ Walk \/ Walked \/ Bundles \/ BundleStored
         \/ KeepsExpanded \/ KeepsLatest \/ RecordsBuild \/ Exports
         \/ RestorePlaces \/ RestoreSettles
         \/ CannotWalk \/ RestoreCannotWrite
  PROVE  KeptStill
<1> USE RestingIs DEF KeptHolds, KeptTyped, OneOrOther, MemAlike, WorkGoesOn, Done
<1>1. CASE Stores
  <2>1. work.want # <<>> /\ work.doing \in {"job", "build", "import"}
    BY <1>1 DEF Stores, Storing
  <2>2. MemAlike  BY <1>1 DEF Stores, Heard
  <2>3. WorkGoesOn  BY <1>1, <2>1 DEF Stores
  <2> QED  BY <1>1, <2>1, <2>2, <2>3, WorkKept DEF Stores
<1>2. CASE WaitsForRoom
  <2>1. work.want # <<>> /\ work.doing \in {"job", "build", "import"}
    BY <1>2 DEF WaitsForRoom, Storing
  <2>2. MemAlike  BY <1>2 DEF WaitsForRoom, Heard
  <2>3. WorkGoesOn  BY <1>2, <2>1 DEF WaitsForRoom
  <2> QED  BY <1>2, <2>1, <2>2, <2>3, WorkKept DEF WaitsForRoom
<1>3. CASE StallsOut
  <2>1. work.want # <<>> /\ work.doing \in {"job", "build", "import"}
    BY <1>3 DEF StallsOut, Storing
  <2>2. MemAlike  BY <1>3 DEF StallsOut, WorkFailed, LookEnds
  <2>3. WorkGoesOn  BY <1>3, <2>1 DEF StallsOut
  <2> QED  BY <1>3, <2>1, <2>2, <2>3, WorkKept DEF StallsOut
<1>4. CASE Walk \/ Walked
  <2>1. work.doing \in {"job", "build", "import"}
    BY <1>4 DEF Walk, Walked, Walking
  <2>2. MemAlike  BY <1>4 DEF Walk, Walked
  <2>3. WorkGoesOn  BY <1>4, <2>1 DEF Walk, Walked
  <2> QED  BY <1>4, <2>1, <2>2, <2>3, WorkKept DEF Walk, Walked
<1>5. CASE Bundles
  <2>1. work.doing \in {"job", "build", "import"}
    BY <1>5 DEF Bundles, Walking
  <2>2. mem' = mem
    BY <1>5, <2>1 DEF Bundles, JobBundles, BuildBundles, MakesBundle
  <2>3. WorkGoesOn
    BY <1>5, <2>1 DEF Bundles, JobBundles, BuildBundles, MakesBundle
  <2>4. MemAlike  BY <2>2
  <2> QED  BY <1>5, <2>1, <2>4, <2>3, WorkKept DEF Bundles
<1>6. CASE BundleStored
  <2>1. work.doing \in {"job", "build", "import"}
    BY <1>6 DEF BundleStored, Walking
  <2>2. MemAlike  BY <1>6 DEF BundleStored
  <2>3. WorkGoesOn  BY <1>6, <2>1 DEF BundleStored
  <2> QED  BY <1>6, <2>1, <2>2, <2>3, WorkKept DEF BundleStored
<1>7. CASE KeepsExpanded
  <2>1. work.doing = "job"  BY <1>7 DEF KeepsExpanded, At
  <2>2. MemAlike  BY <1>7 DEF KeepsExpanded, WorkFailed, LookEnds
  <2>3. WorkGoesOn  BY <1>7, <2>1 DEF KeepsExpanded
  <2> QED  BY <1>7, <2>1, <2>2, <2>3, WorkKept DEF KeepsExpanded
<1>8. CASE KeepsLatest
  <2>1. work.doing = "job"  BY <1>8 DEF KeepsLatest, At
  <2>2. MemAlike  BY <1>8 DEF KeepsLatest, WorkFailed, LookEnds
  <2>3. WorkGoesOn  BY <1>8, <2>1 DEF KeepsLatest
  <2> QED  BY <1>8, <2>1, <2>2, <2>3, WorkKept DEF KeepsLatest
<1>9. CASE RecordsBuild \/ Exports
  <2>1. work.doing # "archive"
    BY <1>9 DEF RecordsBuild, Exports, At
  <2>2. MemAlike /\ WorkGoesOn  BY <1>9 DEF RecordsBuild, Exports
  <2> QED  BY <1>9, <2>1, <2>2, WorkKept DEF RecordsBuild, Exports
<1>10. CASE RestorePlaces
  <2>1. work.doing = "restore"  BY <1>10 DEF RestorePlaces, At
  <2>2. MemAlike  BY <1>10 DEF RestorePlaces, RestoreFailed
  <2>3. WorkGoesOn  BY <1>10, <2>1 DEF RestorePlaces
  <2> QED  BY <1>10, <2>1, <2>2, <2>3, WorkKept DEF RestorePlaces
<1>11. CASE RestoreSettles
  <2>1. work.doing = "restore"  BY <1>11 DEF RestoreSettles, At
  <2>2. MemAlike  BY <1>11 DEF RestoreSettles, RestoreFailed
  <2>3. WorkGoesOn  BY <1>11, <2>1 DEF RestoreSettles
  <2> QED  BY <1>11, <2>1, <2>2, <2>3, WorkKept DEF RestoreSettles
<1>12. CASE CannotWalk
  <2>1. work.doing \in {"job", "build", "import"}
    BY <1>12 DEF CannotWalk, Walking
  <2>2. MemAlike  BY <1>12 DEF CannotWalk, WorkFailed, LookEnds
  <2>3. WorkGoesOn  BY <1>12 DEF CannotWalk
  <2> QED  BY <1>12, <2>1, <2>2, <2>3, WorkKept DEF CannotWalk
<1>13. CASE RestoreCannotWrite
  <2>1. work.doing = "restore"  BY <1>13 DEF RestoreCannotWrite, At
  <2>2. MemAlike  BY <1>13 DEF RestoreCannotWrite, RestoreFailed
  <2>3. WorkGoesOn  BY <1>13 DEF RestoreCannotWrite
  <2> QED  BY <1>13, <2>1, <2>2, <2>3, WorkKept DEF RestoreCannotWrite
<1> QED
  BY <1>1, <1>2, <1>3, <1>4, <1>5, <1>6, <1>7, <1>8, <1>9, <1>10, <1>11, <1>12, <1>13

LEMMA AroundKept ==
  ASSUME KeptHolds,
         \/ UserAsks \/ UserEdits \/ Fills \/ Arrives
         \/ Evicts \/ Empties \/ Announced \/ UNCHANGED backupVars
  PROVE  KeptStill
<1>1. mem' = mem /\ work' = work /\ archive_file' = archive_file /\ kept_file' = kept_file
  BY DEF UserAsks, UserEdits, Fills, Arrives,
         Evicts, Empties, Announced
<1> QED  BY <1>1 DEF KeptHolds, KeptTyped, OneOrOther, KeptStill

(* The steps archives are kept and removed by. *)

LEMMA WaitOnDomain ==
  ASSUME NEW task, NEW missing
  PROVE  DOMAIN WaitOn(task, missing) = DOMAIN task
BY DEF WaitOn, fail

LEMMA RemoveKept ==
  ASSUME KeptHolds, ~AtRecord, mem.alive, NEW m, NEW unlinked \in BOOLEAN, NEW saved \in BOOLEAN,
         "alive" \in DOMAIN m, "archive" \in DOMAIN m, "kept" \in DOMAIN m, m.alive = mem.alive, m.kept = mem.kept,
         RemoveArchive(unlinked, saved), mem' = Removed(m, unlinked),
         WorkGoesOn
  PROVE  KeptHolds'
<1>1. /\ "alive" \in DOMAIN mem' /\ "archive" \in DOMAIN mem' /\ "kept" \in DOMAIN mem'
      /\ mem'.archive = NoArchive
      /\ mem'.kept = IF unlinked THEN NotKept ELSE mem.kept
  BY DEF Removed
<1>2. kept_file' = IF mem.kept.kept /\ unlinked /\ saved THEN NotKept ELSE kept_file
  BY DEF RemoveArchive
<1>3. KeptTyped'
  BY <1>1, <1>2, ArchiveNone, NotKeptIs DEF KeptHolds, KeptTyped, WorkGoesOn, RemoveArchive
<1>4. OneOrOther'
  BY <1>1, ArchiveNone DEF OneOrOther, WorkGoesOn
<1>5. KeptIsListed'
  BY <1>1, <1>2, NotKeptIs DEF KeptHolds, KeptIsListed, RemoveArchive, AtRecord
<1> QED  BY <1>3, <1>4, <1>5 DEF KeptHolds

LEMMA OnArchiveRemovedKept ==
  ASSUME KeptHolds, OnArchiveRemoved
  PROVE  KeptHolds'
<1>1. mem.alive /\ ~AtRecord
  BY DEF OnArchiveRemoved, Hears, At, AtRecord
<1>2. PICK unlinked \in BOOLEAN, saved \in BOOLEAN :
        /\ RemoveArchive(unlinked, saved)
        /\ mem' = Removed(Taken, unlinked)
        /\ work' = [Resting EXCEPT !.doing = "next", !.at = "expire"]
  BY DEF OnArchiveRemoved, Handled
<1>3. WorkGoesOn  BY <1>2, RestingIs DEF WorkGoesOn
<1>4. /\ \A f \in {"alive", "archive", "kept"} : f \in DOMAIN Taken
      /\ Taken.alive = mem.alive /\ Taken.kept = mem.kept
  BY TakenKept DEF KeptHolds
<1> QED  BY <1>1, <1>2, <1>3, <1>4, RemoveKept

LEMMA ExpireKept ==
  ASSUME KeptHolds, Expire
  PROVE  KeptHolds'
<1>1. mem.alive /\ ~AtRecord /\ work.doing = "next"
  BY DEF Expire, At, AtRecord
<1>2. WorkGoesOn
  BY <1>1 DEF Expire, WorkGoesOn, KeptHolds, KeptTyped, OneOrOther
<1>3. CASE Expired
  <2>1. PICK unlinked \in BOOLEAN, saved \in BOOLEAN :
          RemoveArchive(unlinked, saved) /\ mem' = Removed(mem, unlinked)
    BY <1>3 DEF Expire
  <2> QED  BY <1>1, <1>2, <2>1, RemoveKept DEF KeptHolds, KeptTyped
<1>4. CASE ~Expired
  <2>1. MemAlike /\ archive_file' = archive_file /\ kept_file' = kept_file
    BY <1>4 DEF Expire, MemAlike, KeptHolds, KeptTyped
  <2>2. KeptStill  BY <1>1, <1>2, <2>1, WorkKept
  <2> QED  BY <2>2, KeptStillHolds
<1> QED  BY <1>3, <1>4

LEMMA OnArchiveRequestedKept ==
  ASSUME KeptHolds, OnArchiveRequested
  PROVE  KeptHolds'
<1>1. mem.alive /\ ~AtRecord /\ work.doing = "rest" /\ archive_file' = archive_file
  BY DEF OnArchiveRequested, Hears, At, AtRecord
<1>2. work' = [Resting EXCEPT !.doing = "next", !.at = "expire"] \/ work' = work
  BY DEF OnArchiveRequested, Handled, Failed
<1>3. WorkGoesOn
  BY <1>1, <1>2, RestingIs DEF WorkGoesOn, KeptHolds, KeptTyped, OneOrOther
<1>4. /\ \A f \in {"alive", "archive", "kept"} : f \in DOMAIN Taken
      /\ Taken.alive = mem.alive /\ Taken.kept = mem.kept
      /\ Taken.archive = mem.archive
  BY TakenKept DEF KeptHolds
<1>5. CASE kept_file' = kept_file /\ mem' = Taken
  <2>1. MemAlike  BY <1>4, <1>5 DEF MemAlike
  <2>2. KeptStill  BY <1>1, <1>3, <1>5, <2>1, WorkKept
  <2> QED  BY <2>2, KeptStillHolds
<1>6. CASE mem.kept.kept /\ ~(kept_file' = kept_file /\ mem' = Taken)
  <2>1. PICK kept : /\ kept = [kept |-> TRUE, expires |-> Life] /\ kept_file' = kept
                    /\ mem' = [Taken EXCEPT !.kept = kept]
    BY <1>6 DEF OnArchiveRequested, Handled, Failed
  <2>2. /\ \A f \in {"alive", "archive", "kept"} : f \in DOMAIN mem'
        /\ mem'.archive = mem.archive /\ mem'.kept = kept
    BY <1>4, <2>1
  <2>3. KeptTyped'  BY <1>1, <2>1, <2>2, <1>3 DEF KeptHolds, KeptTyped, WorkGoesOn
  <2>4. mem.archive.status = "none" /\ archive_file
    BY <1>6 DEF KeptHolds, OneOrOther, KeptIsListed
  <2>5. OneOrOther'  BY <2>2, <2>4, <1>3 DEF OneOrOther, WorkGoesOn
  <2>6. KeptIsListed'
    BY <2>1, <2>2, <2>4, <1>1 DEF KeptIsListed
  <2> QED  BY <2>3, <2>5, <2>6 DEF KeptHolds
<1>7. CASE ~mem.kept.kept /\ ~(kept_file' = kept_file /\ mem' = Taken)
  <2>1. PICK archive : /\ mem' = [Taken EXCEPT !.archive = archive]
                       /\ "status" \in DOMAIN archive /\ "expires" \in DOMAIN archive
    <3>1. "status" \in DOMAIN mem.archive /\ "expires" \in DOMAIN mem.archive
      BY DEF KeptHolds, KeptTyped
    <3> QED  BY <1>4, <1>7, <3>1, ArchiveNone DEF OnArchiveRequested, Handled, ask_again
  <2>2. kept_file' = kept_file  BY <1>7 DEF OnArchiveRequested
  <2>3. /\ \A f \in {"alive", "archive", "kept"} : f \in DOMAIN mem'
        /\ mem'.archive = archive /\ mem'.kept = mem.kept /\ mem'.alive = mem.alive
    BY <1>4, <2>1
  <2>4. KeptTyped'  BY <1>1, <2>1, <2>2, <2>3, <1>3 DEF KeptHolds, KeptTyped, WorkGoesOn
  <2>5. OneOrOther'  BY <1>1, <1>7, <2>3, <1>3 DEF OneOrOther, WorkGoesOn
  <2>6. KeptIsListed'
    BY <1>1, <1>7, <2>2, <2>3 DEF KeptHolds, KeptIsListed, AtRecord
  <2> QED  BY <2>4, <2>5, <2>6 DEF KeptHolds
<1> QED  BY <1>5, <1>6, <1>7

LEMMA WorkNextKept ==
  ASSUME KeptHolds, WorkNext
  PROVE  KeptHolds'
<1>1. /\ mem.alive /\ ~AtRecord /\ work.doing = "next" /\ archive_file' = archive_file /\ kept_file' = kept_file
  BY DEF WorkNext, At, AtRecord
<1>2. CASE IsDue(mem.archive) /\ mem' = [mem EXCEPT !.archive.status = "running"]
             /\ work' = Begins("archive", "look")
  <2>1. mem.archive.status = "waiting"  BY <1>2 DEF IsDue
  <2>2. /\ \A f \in {"alive", "archive", "kept"} : f \in DOMAIN mem'
        /\ mem'.alive = mem.alive /\ mem'.kept = mem.kept
        /\ DOMAIN mem'.archive = DOMAIN mem.archive /\ mem'.archive.status = "running"
    BY <1>2 DEF KeptHolds, KeptTyped
  <2>3. /\ "doing" \in DOMAIN work' /\ "at" \in DOMAIN work' /\ "want" \in DOMAIN work'
        /\ work'.doing = "archive" /\ work'.at = "look" /\ work'.want = <<>>
    BY <1>2, RestingIs DEF Begins
  <2>4. KeptTyped'  BY <1>1, <2>2, <2>3 DEF KeptHolds, KeptTyped
  <2>5. OneOrOther'  BY <2>1, <2>2, <2>3 DEF KeptHolds, OneOrOther
  <2>6. KeptIsListed'
    BY <1>1, <2>2 DEF KeptHolds, KeptIsListed, AtRecord
  <2> QED  BY <2>4, <2>5, <2>6 DEF KeptHolds
<1>3. CASE mem' = [mem EXCEPT !.restore.status = "running"] /\ work' = Begins("restore", "place")
  <2>1. MemAlike  BY <1>3 DEF MemAlike, KeptHolds, KeptTyped
  <2>2. WorkGoesOn  BY <1>3, RestingIs DEF WorkGoesOn, Begins
  <2> QED  BY <1>1, <2>1, <2>2, WorkKept, KeptStillHolds
<1>4. CASE mem' = [mem EXCEPT !.tasks = Tail(@)] /\ work' = BeginsTask(Head(mem.tasks))
  <2>1. MemAlike  BY <1>4 DEF MemAlike, KeptHolds, KeptTyped
  <2>2. WorkGoesOn
    BY <1>4, RestingIs DEF WorkGoesOn, BeginsTask, Begins
  <2> QED  BY <1>1, <2>1, <2>2, WorkKept, KeptStillHolds
<1>5. CASE mem' = [mem EXCEPT !.requested = FALSE, !.status = "running"] /\ work' = BeginsLook
  <2>1. MemAlike  BY <1>5 DEF MemAlike, KeptHolds, KeptTyped
  <2>2. WorkGoesOn
    BY <1>5, RestingIs DEF WorkGoesOn, BeginsLook, Begins
  <2> QED  BY <1>1, <2>1, <2>2, WorkKept, KeptStillHolds
<1>6. CASE mem' = mem /\ work' = Resting
  <2>1. MemAlike  BY <1>6 DEF MemAlike, KeptHolds, KeptTyped
  <2>2. WorkGoesOn  BY <1>6, RestingIs DEF WorkGoesOn
  <2> QED  BY <1>1, <2>1, <2>2, WorkKept, KeptStillHolds
<1> QED  BY <1>2, <1>3, <1>4, <1>5, <1>6 DEF WorkNext, Done

(* An archive that is being kept waits on what it lacks, or gives up. *)
LEMMA ArchiveWaitsKept ==
  ASSUME KeptHolds, mem.alive, work.doing = "archive", ~AtRecord, archive_file' = archive_file, kept_file' = kept_file,
         NEW missing, ArchiveWaits(missing)
  PROVE  KeptHolds'
<1>1. mem' = [mem EXCEPT !.archive = WaitOn(@, missing)] /\ work' = Resting
  BY DEF ArchiveWaits, Done
<1>2. /\ \A f \in {"alive", "archive", "kept"} : f \in DOMAIN mem'
      /\ mem'.alive = mem.alive /\ mem'.kept = mem.kept /\ DOMAIN mem'.archive = DOMAIN mem.archive
  BY <1>1, WaitOnDomain DEF KeptHolds, KeptTyped
<1>3. KeptTyped'  BY <1>1, <1>2, RestingIs DEF KeptHolds, KeptTyped
<1>4. OneOrOther'  BY <1>1, <1>2, RestingIs DEF KeptHolds, OneOrOther
<1>5. KeptIsListed'  BY <1>2 DEF KeptHolds, KeptIsListed, AtRecord
<1> QED  BY <1>3, <1>4, <1>5 DEF KeptHolds

LEMMA ArchiveLooksKept ==
  ASSUME KeptHolds, ArchiveLooks
  PROVE  KeptHolds'
<1>1. /\ mem.alive /\ work.doing = "archive" /\ work.at = "look" /\ ~AtRecord
      /\ archive_file' = archive_file /\ kept_file' = kept_file
  BY DEF ArchiveLooks, At, AtRecord
<1>2. CASE work' = [work EXCEPT !.at = "write"] /\ mem' = mem
  <2>1. KeptTyped' /\ work'.doing = "archive" /\ work'.at = "write" /\ work'.want = work.want
    BY <1>1, <1>2 DEF KeptHolds, KeptTyped
  <2>2. OneOrOther'  BY <1>1, <1>2, <2>1 DEF KeptHolds, OneOrOther
  <2>3. KeptIsListed'
    BY <1>1, <1>2, <2>1 DEF KeptHolds, KeptIsListed, AtRecord
  <2> QED  BY <2>1, <2>2, <2>3 DEF KeptHolds
<1>3. CASE \E missing : ArchiveWaits(missing)
  BY <1>1, <1>3, ArchiveWaitsKept
<1> QED  BY <1>2, <1>3 DEF ArchiveLooks

(* The work on an archive fails. *)
LEMMA ArchiveFailedKept ==
  ASSUME KeptHolds, mem.alive, work.doing = "archive", kept_file' = kept_file,
         (archive_file' = archive_file /\ ~AtRecord) \/ archive_file' = FALSE,
         Done(ArchiveFailed)
  PROVE  KeptHolds'
<1>1. mem' = [mem EXCEPT !.archive = fail(@)] /\ work' = Resting
  BY DEF Done, ArchiveFailed
<1>2. /\ \A f \in {"alive", "archive", "kept"} : f \in DOMAIN mem'
      /\ mem'.alive = mem.alive /\ mem'.kept = mem.kept /\ DOMAIN mem'.archive = DOMAIN mem.archive
  BY <1>1 DEF fail, KeptHolds, KeptTyped
<1>3. KeptTyped'  BY <1>1, <1>2, RestingIs DEF KeptHolds, KeptTyped
<1>4. ~mem.kept.kept  BY DEF KeptHolds, OneOrOther
<1>5. OneOrOther'  BY <1>1, <1>2, <1>4, RestingIs DEF OneOrOther
<1>6. KeptIsListed'  BY <1>2, <1>4 DEF KeptHolds, KeptIsListed, AtRecord
<1> QED  BY <1>3, <1>5, <1>6 DEF KeptHolds

LEMMA ArchiveWritesKept ==
  ASSUME KeptHolds, ArchiveWrites
  PROVE  KeptHolds'
<1>1. /\ mem.alive /\ work.doing = "archive" /\ work.at = "write" /\ ~AtRecord /\ kept_file' = kept_file
  BY DEF ArchiveWrites, At, AtRecord
<1>2. CASE archive_file' = TRUE /\ work' = [work EXCEPT !.at = "record"] /\ mem' = mem
  <2>1. KeptTyped' /\ work'.doing = "archive" /\ work'.at = "record" /\ work'.want = work.want
    BY <1>1, <1>2 DEF KeptHolds, KeptTyped
  <2>2. ~mem.kept.kept /\ OneOrOther'  BY <1>1, <1>2, <2>1 DEF KeptHolds, OneOrOther
  <2>3. KeptIsListed'
    BY <1>1, <1>2, <2>1, <2>2 DEF KeptIsListed, At
  <2> QED  BY <2>1, <2>2, <2>3 DEF KeptHolds
<1>3. CASE archive_file' = archive_file /\ Done(ArchiveFailed)
  BY <1>1, <1>3, ArchiveFailedKept
<1>4. CASE archive_file' = archive_file /\ \E missing : ArchiveWaits(missing)
  BY <1>1, <1>4, ArchiveWaitsKept
<1>5. archive_file \in BOOLEAN  BY DEF KeptHolds, KeptTyped
<1>6. CASE Needed(AskedFor) \subseteq Held
  <2>1. PICK ok \in BOOLEAN :
          /\ archive_file' = (archive_file \/ ok)
          /\ IF ok THEN work' = [work EXCEPT !.at = "record"] /\ mem' = mem
             ELSE Done(ArchiveFailed)
    BY <1>6 DEF ArchiveWrites
  <2> QED  BY <1>2, <1>3, <1>5, <2>1
<1>7. CASE ~(Needed(AskedFor) \subseteq Held)
  BY <1>4, <1>7 DEF ArchiveWrites
<1> QED  BY <1>6, <1>7

LEMMA ArchiveRecordedKept ==
  ASSUME KeptHolds, ArchiveRecorded
  PROVE  KeptHolds'
<1>1. mem.alive /\ work.doing = "archive"
  BY DEF ArchiveRecorded, At
<1>2. CASE archive_file' = FALSE /\ kept_file' = kept_file /\ Done(ArchiveFailed)
  BY <1>1, <1>2, ArchiveFailedKept
<1>3. CASE ~(archive_file' = FALSE /\ kept_file' = kept_file /\ Done(ArchiveFailed))
  <2>1. PICK kept : /\ kept = [kept |-> TRUE, expires |-> mem.archive.expires]
                    /\ archive_file' = TRUE /\ kept_file' = kept
                    /\ Done([mem EXCEPT !.archive = NoArchive, !.kept = kept])
    BY <1>3 DEF ArchiveRecorded
  <2>2. /\ \A f \in {"alive", "archive", "kept"} : f \in DOMAIN mem'
        /\ mem'.archive = NoArchive /\ mem'.kept = kept /\ work' = Resting
    BY <2>1 DEF Done, KeptHolds, KeptTyped
  <2>3. KeptTyped'  BY <2>1, <2>2, RestingIs, ArchiveNone DEF KeptTyped
  <2>4. OneOrOther'  BY <2>2, RestingIs, ArchiveNone DEF OneOrOther
  <2>5. KeptIsListed'  BY <2>1, <2>2 DEF KeptIsListed
  <2> QED  BY <2>3, <2>4, <2>5 DEF KeptHolds
<1> QED  BY <1>2, <1>3

LEMMA CrashKept ==
  ASSUME KeptHolds, Crashes
  PROVE  KeptHolds'
<1>1. /\ mem' = Forgotten /\ work' = Resting
      /\ archive_file' = archive_file /\ kept_file' = kept_file
  BY DEF Crashes, Done
<1>2. KeptTyped'  BY <1>1, ForgottenIs, NotKeptIs, ArchiveNone, RestingIs DEF KeptHolds, KeptTyped
<1>3. OneOrOther'  BY <1>1, ForgottenIs, ArchiveNone, RestingIs DEF OneOrOther
<1>4. KeptIsListed'  BY <1>1, ForgottenIs, NotKeptIs DEF KeptIsListed
<1> QED  BY <1>2, <1>3, <1>4 DEF KeptHolds

LEMMA OnStartKept ==
  ASSUME KeptHolds, OnStart
  PROVE  KeptHolds'
<1> DEFINE there == KeptNow
<1>1. /\ mem' = [Forgotten EXCEPT !.alive = TRUE, !.job = jobs_file, !.kept = there]
      /\ work' = work /\ archive_file' = archive_file /\ (kept_file' = there \/ kept_file' = kept_file)
      /\ there = kept_file => kept_file' = there
  BY DEF OnStart
<1>2. there = IF archive_file THEN kept_file ELSE NotKept
  BY DEF KeptNow
<1> HIDE DEF there
<1>3. /\ \A f \in {"alive", "archive", "kept"} : f \in DOMAIN mem'
      /\ mem'.archive = NoArchive /\ mem'.kept = there
  BY <1>1, ForgottenIs
<1>4. KeptTyped'  BY <1>1, <1>2, <1>3, NotKeptIs, ArchiveNone DEF KeptHolds, KeptTyped
<1>5. OneOrOther'
  BY <1>1, <1>3, ArchiveNone DEF KeptHolds, OneOrOther, OnStart
<1>6. KeptIsListed'  BY <1>1, <1>2, <1>3, NotKeptIs DEF KeptIsListed
<1> QED  BY <1>4, <1>5, <1>6 DEF KeptHolds

LEMMA TickKept ==
  ASSUME KeptHolds, Tick
  PROVE  KeptHolds'
<1> DEFINE archive == [Passes(mem.archive) EXCEPT !.expires = Sooner(@)]
           due == IF mem.job.configured THEN Sooner(mem.due) ELSE mem.due
           restore == Passes(mem.restore)
<1>0. mem' = [mem EXCEPT !.due = due, !.restore = restore, !.archive = archive,
                         !.kept.expires = Sooner(@)]
  BY DEF Tick
<1> HIDE DEF archive, due, restore
<1>1. /\ "alive" \in DOMAIN mem' /\ "archive" \in DOMAIN mem' /\ "kept" \in DOMAIN mem'
      /\ mem'.alive = mem.alive
      /\ mem'.kept = [mem.kept EXCEPT !.expires = Sooner(@)]
      /\ mem'.archive = archive
  BY <1>0 DEF KeptHolds, KeptTyped
<1>2. /\ kept_file' = [kept_file EXCEPT !.expires = Sooner(@)]
      /\ work' = [work EXCEPT !.stall = Sooner(@)]
      /\ archive_file' = archive_file
  BY DEF Tick
<1>3. DOMAIN mem'.archive = DOMAIN mem.archive /\ mem'.archive.status = mem.archive.status
  BY <1>1 DEF archive, Passes, KeptHolds, KeptTyped
<1>4. /\ "kept" \in DOMAIN mem'.kept /\ "expires" \in DOMAIN mem'.kept /\ mem'.kept.kept = mem.kept.kept
      /\ "kept" \in DOMAIN kept_file' /\ "expires" \in DOMAIN kept_file' /\ kept_file'.kept = kept_file.kept
      /\ kept_file = mem.kept => kept_file' = mem'.kept
  BY <1>1, <1>2 DEF KeptHolds, KeptTyped
<1>5. /\ "doing" \in DOMAIN work' /\ "at" \in DOMAIN work' /\ "want" \in DOMAIN work'
      /\ work'.doing = work.doing /\ work'.at = work.at /\ work'.want = work.want
  BY <1>2 DEF KeptHolds, KeptTyped
<1>6. KeptTyped'  BY <1>1, <1>2, <1>3, <1>4, <1>5 DEF KeptHolds, KeptTyped
<1>7. OneOrOther'  BY <1>1, <1>3, <1>4, <1>5 DEF KeptHolds, OneOrOther
<1>8. KeptIsListed'
  BY <1>1, <1>2, <1>4, <1>5 DEF KeptHolds, KeptIsListed, At
<1> QED  BY <1>6, <1>7, <1>8 DEF KeptHolds

LEMMA StepKept ==
  ASSUME KeptHolds, [BackupNext]_backupVars
  PROVE  KeptHolds'
<1>1. CASE Handles
  <2>1. CASE OnArchiveRequested  BY <2>1, OnArchiveRequestedKept
  <2>2. CASE OnArchiveRemoved  BY <2>2, OnArchiveRemovedKept
  <2>3. CASE ~OnArchiveRequested /\ ~OnArchiveRemoved
    <3>1. KeptStill  BY <1>1, <2>3, HandlersKept DEF Handles
    <3> QED  BY <3>1, KeptStillHolds
  <2> QED  BY <2>1, <2>2, <2>3
<1>2. CASE Carries
  <2>1. CASE Expire \/ WorkNext \/ OnStart
    BY <2>1, ExpireKept, WorkNextKept, OnStartKept
  <2>2. CASE ArchiveLooks \/ ArchiveWrites \/ ArchiveRecorded
    BY <2>2, ArchiveLooksKept, ArchiveWritesKept, ArchiveRecordedKept
  <2>3. CASE ~(Expire \/ WorkNext \/ OnStart)
             /\ ~(ArchiveLooks \/ ArchiveWrites \/ ArchiveRecorded)
    <3>1. KeptStill  BY <1>2, <2>3, CarriesKept DEF Carries
    <3> QED  BY <3>1, KeptStillHolds
  <2> QED  BY <2>1, <2>2, <2>3
<1>3. CASE Surroundings
  <2>1. CASE Crashes  BY <2>1, CrashKept
  <2>2. CASE ~Crashes
    <3>1. KeptStill  BY <1>3, <2>2, CarriesKept, AroundKept DEF Surroundings
    <3> QED  BY <3>1, KeptStillHolds
  <2> QED  BY <2>1, <2>2
<1>4. CASE Empties \/ Announced \/ UNCHANGED backupVars
  <2>1. KeptStill  BY <1>4, AroundKept
  <2> QED  BY <2>1, KeptStillHolds
<1>5. CASE Tick  BY <1>5, TickKept
<1> QED  BY <1>1, <1>2, <1>3, <1>4, <1>5 DEF BackupNext

(* An archive listed as kept is there, with a record of when it expires    *)
(* that a restart finds (backup/module.py:568-608, 928-956), whatever      *)
(* could not be written or deleted and wherever the process ended.         *)
THEOREM KeptAsListed == BackupSpec => []KeptIsListed
<1>1. KeptHolds /\ [BackupNext]_backupVars => KeptHolds'
  BY StepKept
<1>2. KeptHolds => KeptIsListed
  BY DEF KeptHolds
<1> QED  BY InitKept, <1>1, <1>2, PTL DEF BackupSpec

-----------------------------------------------------------------------------
(* What a bundle says, of bundles that extend only earlier ones: `said` is  *)
(* recursive, and is what its equation says it is.                          *)

(* Its equation, at one bundle. *)
Says(B, f, b) ==
  [p \in Paths |->
     LET top == B[b]
         says == {i \in DOMAIN top.extensions : f[top.extensions[i]][p] # Unsaid}
     IN IF top.entries[p] # Unsaid \/ says = {} THEN top.entries[p]
        ELSE f[top.extensions[First(says)]][p]]

SaysUpTo(B, f, n) == f = [b \in 1..n |-> Says(B, f, b)]

ExtendEarlier(B) ==
  \A b \in DOMAIN B : B[b].extensions \in Seq(1..(b - 1))

(* The first of some numbers is one of them. *)
LEMMA FirstIs ==
  ASSUME NEW n \in Nat, NEW S \in SUBSET (1..n), S # {}
  PROVE  First(S) \in S /\ \A j \in S : First(S) <= j
<1>1. S \in SUBSET (0..n)  OBVIOUS
<1>2. \E i \in S : \A j \in S : i <= j  BY <1>1, LeastExists
<1> QED  BY <1>2 DEF First

LEMMA SaysAlike ==
  ASSUME NEW B, NEW C, NEW f, NEW g, NEW b, C[b] = B[b], NEW n \in Nat, DOMAIN B[b].extensions = 1..n,
         \A i \in 1..n : f[B[b].extensions[i]] = g[B[b].extensions[i]]
  PROVE  Says(B, f, b) = Says(C, g, b)
<1> DEFINE ext == B[b].extensions
           Sayers(h, p) == {i \in DOMAIN ext : h[ext[i]][p] # Unsaid}
           Of(h, p) == IF B[b].entries[p] # Unsaid \/ Sayers(h, p) = {} THEN B[b].entries[p]
                       ELSE h[ext[First(Sayers(h, p))]][p]
<1>1. ASSUME NEW p \in Paths PROVE Of(f, p) = Of(g, p)
  <2>1. Sayers(f, p) = Sayers(g, p)  OBVIOUS
  <2> DEFINE T == Sayers(f, p)
  <2>2. T \in SUBSET (1..n)  OBVIOUS
  <2>3. CASE T = {}  BY <2>1, <2>3
  <2>4. CASE T # {}
    <3> HIDE DEF T
    <3>1. First(T) \in T  BY <2>2, <2>4, FirstIs
    <3>2. f[ext[First(T)]] = g[ext[First(T)]]  BY <3>1, <2>2
    <3> QED  BY <3>2, <2>1 DEF T
  <2> QED  BY <2>3, <2>4
<1>2. Says(B, f, b) = [p \in Paths |-> Of(f, p)]  BY DEF Says
<1>3. Says(C, g, b) = [p \in Paths |-> Of(g, p)]  BY DEF Says
<1> QED  BY <1>1, <1>2, <1>3

LEMMA ListIs ==
  ASSUME NEW T, NEW s \in Seq(T)
  PROVE  \E k \in Nat : DOMAIN s = 1..k /\ \A i \in 1..k : s[i] \in T
OBVIOUS

LEMMA SaysAgree ==
  ASSUME NEW n \in Nat, NEW m \in Nat, n <= m, NEW B, NEW C, 1..n \subseteq DOMAIN B, ExtendEarlier(B),
         \A b \in 1..n : C[b] = B[b],
         NEW f, NEW g, SaysUpTo(B, f, n), SaysUpTo(C, g, m)
  PROVE  \A b \in 1..n : f[b] = g[b]
<1> DEFINE Wrong == {b \in 1..n : f[b] # g[b]}
<1>1. SUFFICES ASSUME Wrong # {} PROVE FALSE
  OBVIOUS
<1>2. PICK b \in Wrong : \A c \in Wrong : b <= c
  <2>1. Wrong \in SUBSET (0..n)  OBVIOUS
  <2> HIDE DEF Wrong
  <2> QED  BY <1>1, <2>1, LeastExists
<1>3. b \in 1..n /\ f[b] # g[b] /\ \A c \in 1..(b - 1) : f[c] = g[c]
  BY <1>2
<1>4. B[b].extensions \in Seq(1..(b - 1))
  BY <1>3 DEF ExtendEarlier
<1>5. PICK k \in Nat : /\ DOMAIN B[b].extensions = 1..k
                       /\ \A i \in 1..k : B[b].extensions[i] \in 1..(b - 1)
  BY <1>4, ListIs
<1>6. Says(B, f, b) = Says(C, g, b)
  BY <1>3, <1>5, SaysAlike
<1>7. f[b] = Says(B, f, b) /\ g[b] = Says(C, g, b)
  <2>1. b \in 1..n /\ b \in 1..m  BY <1>3
  <2> QED  BY <2>1 DEF SaysUpTo
<1> QED  BY <1>3, <1>6, <1>7

LEMMA SaysExists ==
  ASSUME NEW B, NEW n \in Nat, DOMAIN B = 1..n, ExtendEarlier(B)
  PROVE  \E f : SaysUpTo(B, f, n)
<1> DEFINE Lacking == {k \in 0..n : ~ \E f : SaysUpTo(B, f, k)}
<1>1. SUFFICES ASSUME Lacking # {} PROVE FALSE
  OBVIOUS
<1>2. PICK k \in Lacking : \A j \in Lacking : k <= j
  <2>1. Lacking \in SUBSET (0..n)  OBVIOUS
  <2> HIDE DEF Lacking
  <2> QED  BY <1>1, <2>1, LeastExists
<1>3. k \in 0..n /\ ~ \E f : SaysUpTo(B, f, k)
  BY <1>2
<1>4. k # 0
  <2>1. SaysUpTo(B, [b \in 1..0 |-> Says(B, <<>>, b)], 0)  BY DEF SaysUpTo
  <2> QED  BY <2>1, <1>3
<1>5. k - 1 \in 0..n /\ k - 1 \notin Lacking
  BY <1>2, <1>3, <1>4
<1>6. PICK f : SaysUpTo(B, f, k - 1)
  BY <1>5
<1> DEFINE g == [b \in 1..k |-> IF b < k THEN f[b] ELSE Says(B, f, k)]
<1>7. ASSUME NEW b \in 1..k PROVE g[b] = Says(B, g, b)
  <2>1. B[b].extensions \in Seq(1..(b - 1))  BY <1>3 DEF ExtendEarlier
  <2>2. PICK l \in Nat : /\ DOMAIN B[b].extensions = 1..l
                         /\ \A i \in 1..l : B[b].extensions[i] \in 1..(b - 1)
    BY <2>1, ListIs
  <2>3. \A c \in 1..(b - 1) : f[c] = g[c]  BY <1>3
  <2>4. Says(B, f, b) = Says(B, g, b)
    <3> HIDE DEF g
    <3> QED  BY <2>2, <2>3, SaysAlike
  <2>5. g[b] = Says(B, f, b)
    <3>1. CASE b < k  BY <3>1, <1>3, <1>6 DEF SaysUpTo
    <3>2. CASE ~(b < k)
      <4>1. b = k  BY <3>2, <1>3
      <4> QED  BY <4>1
    <3> QED  BY <3>1, <3>2
  <2> QED  BY <2>4, <2>5
<1>8. SaysUpTo(B, g, k)
  <2>1. g = [b \in 1..k |-> g[b]]  OBVIOUS
  <2> HIDE DEF g
  <2> QED  BY <2>1, <1>7 DEF SaysUpTo
<1> QED  BY <1>3, <1>8

(* So `said` is what its equation says. *)
Numbered(B) == /\ \E n \in Nat : DOMAIN B = 1..n
               /\ ExtendEarlier(B)
SaidOf(B, f) == f = [b \in DOMAIN B |-> Says(B, f, b)]

LEMMA SaidIs == Numbered(bundles) => SaidOf(bundles, said)
<1> SUFFICES ASSUME Numbered(bundles) PROVE SaidOf(bundles, said)
  OBVIOUS
<1>1. PICK n \in Nat : DOMAIN bundles = 1..n
  BY DEF Numbered
<1>2. ExtendEarlier(bundles)
  BY DEF Numbered
<1>3. PICK f : SaysUpTo(bundles, f, n)
  BY <1>1, <1>2, SaysExists
<1>4. f = [b \in Made |-> Says(bundles, f, b)]
  BY <1>1, <1>3 DEF SaysUpTo, Made
<1>5. said = CHOOSE h : h = [b \in Made |-> Says(bundles, h, b)]
  BY Zenon DEF said, Says
<1> QED  BY <1>4, <1>5 DEF SaidOf, Made

-----------------------------------------------------------------------------
(* Bundles are only ever added, and what was stored once was stored: what   *)
(* is so of bundles B, of what they say, and of what was stored, stays so.  *)

Grows(B, f, st, C, g, su) ==
  /\ \A b \in DOMAIN B : b \in DOMAIN C /\ C[b] = B[b] /\ g[b] = f[b]
  /\ st \subseteq su

LEMMA SaidGrows ==
  ASSUME NEW B, NEW C, NEW f, NEW g, Numbered(B), Numbered(C), SaidOf(B, f), SaidOf(C, g),
         \A b \in DOMAIN B : b \in DOMAIN C /\ C[b] = B[b]
  PROVE  \A b \in DOMAIN B : g[b] = f[b]
<1>1. PICK n \in Nat, m \in Nat : DOMAIN B = 1..n /\ DOMAIN C = 1..m
  BY DEF Numbered
<1>2. n <= m
  <2>1. CASE n = 0  BY <2>1, <1>1
  <2>2. CASE n # 0
    <3>1. n \in DOMAIN B  BY <2>2, <1>1
    <3>2. n \in DOMAIN C  BY <3>1
    <3> QED  BY <3>2, <1>1
  <2> QED  BY <2>1, <2>2
<1>3. SaysUpTo(B, f, n) /\ SaysUpTo(C, g, m) /\ ExtendEarlier(B)
  BY <1>1 DEF SaysUpTo, SaidOf, Numbered
<1>4. \A b \in 1..n : f[b] = g[b]
  <2>1. 1..n \subseteq DOMAIN B /\ \A b \in 1..n : C[b] = B[b]  BY <1>1
  <2> QED  BY <1>2, <1>3, <2>1, SaysAgree
<1> QED  BY <1>1, <1>4

Resolves(f, b) == [p \in Paths |-> IF f[b][p] = Unsaid THEN Absent ELSE f[b][p]]
Beneath(B, b) == {B[b].extensions[i] : i \in DOMAIN B[b].extensions}
PartsOf(entries) == UNION {Parts(entries[p]) : p \in Paths}
Needs(B, f, b) == ({b} \cup Beneath(B, b)) \cup PartsOf(Resolves(f, b))

(* A bundle that brings these entries back, and can: all it needs has been *)
(* stored.                                                                   *)
Brings(B, f, st, b, entries, protection) ==
  /\ b \in DOMAIN B
  /\ Resolves(f, b) = entries
  /\ Needs(B, f, b) \subseteq st
  /\ B[b].protection = protection

(* One kept expanded, what was held back beside it stored as well.          *)
Faithful(B, f, st, S, protection) ==
  /\ \A field \in {"bundle", "entries", "beneath", "layers", "held_back"} : field \in DOMAIN S
  /\ Brings(B, f, st, S.bundle, S.entries, protection)
  /\ S.beneath \in Seq(Beneath(B, S.bundle))
  /\ S.layers \in Nat \cup {Unknown}
  /\ PartsOf(seen(S)) \subseteq st

FaithfulIfAny(B, f, st, S, protection) == S = NotExpanded \/ Faithful(B, f, st, S, protection)
LatestBrings(B, f, st, latest) ==
  latest = NoLatest \/ /\ latest.layers \in Nat \cup {Unknown}
                       /\ Brings(B, f, st, latest.bundle, latest.entries, "secret")

LEMMA BringsStill ==
  ASSUME NEW B, NEW f, NEW st, NEW C, NEW g, NEW su, Grows(B, f, st, C, g, su),
         NEW b, NEW entries, NEW protection, Brings(B, f, st, b, entries, protection)
  PROVE  Brings(C, g, su, b, entries, protection) /\ Beneath(C, b) = Beneath(B, b)
<1>1. b \in DOMAIN B /\ b \in DOMAIN C /\ C[b] = B[b] /\ g[b] = f[b] /\ st \subseteq su
  BY DEF Grows, Brings
<1>2. Resolves(g, b) = Resolves(f, b) /\ Beneath(C, b) = Beneath(B, b)
  BY <1>1 DEF Resolves, Beneath
<1>3. Needs(C, g, b) = Needs(B, f, b)
  BY <1>2 DEF Needs
<1> QED  BY <1>1, <1>2, <1>3 DEF Brings

LEMMA FaithfulStill ==
  ASSUME NEW B, NEW f, NEW st, NEW C, NEW g, NEW su, Grows(B, f, st, C, g, su),
         NEW S, NEW protection, Faithful(B, f, st, S, protection)
  PROVE  Faithful(C, g, su, S, protection)
<1>1. Brings(C, g, su, S.bundle, S.entries, protection) /\ Beneath(C, S.bundle) = Beneath(B, S.bundle)
  BY BringsStill DEF Faithful
<1>2. st \subseteq su  BY DEF Grows
<1> QED  BY <1>1, <1>2 DEF Faithful

LEMMA LatestStill ==
  ASSUME NEW B, NEW f, NEW st, NEW C, NEW g, NEW su, Grows(B, f, st, C, g, su),
         NEW latest, LatestBrings(B, f, st, latest)
  PROVE  LatestBrings(C, g, su, latest)
BY BringsStill DEF LatestBrings

(* What brings entries back, expanded, with no more beneath it than it has. *)
LEMMA ExpandedFaithful ==
  ASSUME NEW B, NEW f, NEW st, NEW b, NEW entries, NEW protection, Brings(B, f, st, b, entries, protection),
         NEW beneath \in Seq(Beneath(B, b)), NEW layers \in Nat \cup {Unknown}
  PROVE  Faithful(B, f, st, Expanded(b, entries, beneath, layers), protection)
<1> DEFINE S == Expanded(b, entries, beneath, layers)
<1>1. /\ \A field \in {"bundle", "entries", "beneath", "layers", "held_back"} : field \in DOMAIN S
      /\ S.bundle = b /\ S.entries = entries /\ S.beneath = beneath /\ S.layers = layers
      /\ S.held_back = NothingHeldBack
  BY DEF Expanded
<1> HIDE DEF S
<1>2. \A p \in Paths : seen(S)[p] = entries[p]
  BY <1>1 DEF seen, NothingHeldBack
<1>3. PartsOf(seen(S)) = PartsOf(entries)
  BY <1>2 DEF PartsOf
<1>4. PartsOf(entries) \subseteq st
  BY DEF Brings, Needs
<1>5. Faithful(B, f, st, S, protection)
  BY <1>1, <1>3, <1>4 DEF Faithful
<1> QED  BY <1>5 DEF S

LEMMA SuffixIs ==
  ASSUME NEW T, NEW s \in Seq(T), NEW k \in Nat, k <= Len(s)
  PROVE  SubSeq(s, Len(s) - k + 1, Len(s)) \in Seq({s[i] : i \in DOMAIN s})
<1>1. s \in Seq({s[i] : i \in DOMAIN s})
  OBVIOUS
<1> DEFINE R == {s[i] : i \in DOMAIN s}
<1> HIDE DEF R
<1>2. s \in Seq(R)  BY <1>1 DEF R
<1>3. Len(s) \in Nat /\ Len(s) - k + 1 \in 1..(Len(s) + 1)  OBVIOUS
<1>4. SubSeq(s, Len(s) - k + 1, Len(s)) \in Seq(R)  BY <1>2, <1>3
<1> QED  BY <1>4 DEF R

(* A bundle read back is faithful, whatever is recorded of its layers.      *)
LEMMA ReadBackFaithful ==
  ASSUME Numbered(bundles), NEW st, NEW b, NEW protection, NEW layers \in Nat \cup {Unknown},
         NEW entries, Brings(bundles, said, st, b, entries, protection)
  PROVE  Faithful(bundles, said, st, ReadBack(b, layers), protection)
<1> DEFINE ext == bundles[b].extensions
<1>1. ext \in Seq(1..(b - 1))
  BY DEF Brings, Numbered, ExtendEarlier
<1>2. resolve_directory(b) = entries
  BY DEF Brings, resolve_directory, Resolves
<1>3. Beneath(bundles, b) = {ext[i] : i \in DOMAIN ext}
  BY DEF Beneath
<1>4. CASE layers = Unknown \/ layers > Len(ext)
  <2>1. ReadBack(b, layers) = Expanded(b, entries, <<>>, Unknown)
    BY <1>4, <1>2 DEF ReadBack
  <2>2. <<>> \in Seq(Beneath(bundles, b))  OBVIOUS
  <2> QED  BY <2>1, <2>2, ExpandedFaithful
<1>5. CASE ~(layers = Unknown \/ layers > Len(ext))
  <2>1. ReadBack(b, layers) = Expanded(b, entries, SubSeq(ext, Len(ext) - layers + 1, Len(ext)), layers)
    BY <1>5, <1>2 DEF ReadBack
  <2>2. layers \in Nat /\ layers <= Len(ext)  BY <1>1, <1>5
  <2>3. SubSeq(ext, Len(ext) - layers + 1, Len(ext)) \in Seq(Beneath(bundles, b))
    BY <1>1, <1>3, <2>2, SuffixIs
  <2> QED  BY <2>1, <2>3, ExpandedFaithful
<1> QED  BY <1>4, <1>5

(* What is not said of a path by a bundle, nothing beneath it says either. *)
LEMMA UnsaidBeneath ==
  ASSUME NEW B, NEW f, Numbered(B), SaidOf(B, f), NEW b \in DOMAIN B, NEW p \in Paths, f[b][p] = Unsaid
  PROVE  \A c \in Beneath(B, b) : f[c][p] = Unsaid
<1> DEFINE ext == B[b].extensions
           T == {i \in DOMAIN ext : f[ext[i]][p] # Unsaid}
<1>1. ext \in Seq(1..(b - 1))
  BY DEF Numbered, ExtendEarlier
<1>2. PICK k \in Nat : DOMAIN ext = 1..k
  BY <1>1, ListIs
<1>3. T \in SUBSET (1..k)
  BY <1>2
<1>4. f[b][p] = IF B[b].entries[p] # Unsaid \/ T = {} THEN B[b].entries[p] ELSE f[ext[First(T)]][p]
  BY DEF SaidOf, Says
<1>5. T = {}
  <2> SUFFICES ASSUME T # {} PROVE FALSE
    OBVIOUS
  <2>1. f[b][p] = f[ext[First(T)]][p]
    BY <1>4
  <2>2. First(T) \in T
    <3> HIDE DEF T
    <3> QED  BY <1>3, FirstIs
  <2> QED  BY <2>1, <2>2
<1> QED  BY <1>5 DEF Beneath

(* A layer over a bundle brings back the entries it was made for. *)
LEMMA LayerBrings ==
  ASSUME NEW B, NEW f, Numbered(B), SaidOf(B, f), NEW S, NEW entries \in Directories,
         S.bundle \in DOMAIN B, Resolves(f, S.bundle) = S.entries, S.beneath \in Seq(Beneath(B, S.bundle)),
         NEW b \in DOMAIN B, B[b].entries = changes(S, entries), B[b].extensions = <<S.bundle>> \o S.beneath
  PROVE  Resolves(f, b) = entries
<1> DEFINE ext == B[b].extensions
           Sayers(p) == {i \in DOMAIN ext : f[ext[i]][p] # Unsaid}
           At1(p) == IF B[b].entries[p] # Unsaid \/ Sayers(p) = {} THEN B[b].entries[p]
                     ELSE f[ext[First(Sayers(p))]][p]
<1>1. PICK k \in Nat : /\ Len(S.beneath) = k
                       /\ DOMAIN ext = 1..(k + 1) /\ ext[1] = S.bundle
                       /\ \A i \in 2..(k + 1) : ext[i] \in Beneath(B, S.bundle)
  <2>1. Len(S.beneath) \in Nat /\ DOMAIN S.beneath = 1..Len(S.beneath)
    OBVIOUS
  <2>2. /\ DOMAIN (<<S.bundle>> \o S.beneath) = 1..(Len(S.beneath) + 1)
        /\ (<<S.bundle>> \o S.beneath)[1] = S.bundle
        /\ \A i \in 2..(Len(S.beneath) + 1) : (<<S.bundle>> \o S.beneath)[i] = S.beneath[i - 1]
    BY <2>1
  <2>3. \A i \in 2..(Len(S.beneath) + 1) : S.beneath[i - 1] \in Beneath(B, S.bundle)
    <3>1. \A i \in 2..(Len(S.beneath) + 1) : i - 1 \in 1..Len(S.beneath)  BY <2>1
    <3>2. \A j \in 1..Len(S.beneath) : S.beneath[j] \in Beneath(B, S.bundle)  OBVIOUS
    <3> QED  BY <3>1, <3>2
  <2> QED  BY <2>1, <2>2, <2>3
<1>2. \A p \in Paths : f[b][p] = At1(p)
  <2>1. f[b] = Says(B, f, b)  BY DEF SaidOf
  <2>2. Says(B, f, b) = [p \in Paths |-> At1(p)]  BY DEF Says
  <2> QED  BY <2>1, <2>2
<1>3. ASSUME NEW p \in Paths PROVE (IF f[b][p] = Unsaid THEN Absent ELSE f[b][p]) = entries[p]
  <2>1. entries[p] # Unsaid /\ entries[p] \in Entries \cup {Absent}
    BY LayersAssumption DEF LayersAssumption, Directories
  <2>2. S.entries[p] = IF f[S.bundle][p] = Unsaid THEN Absent ELSE f[S.bundle][p]
    <3>1. S.entries[p] = Resolves(f, S.bundle)[p]  OBVIOUS
    <3> QED  BY <3>1 DEF Resolves
  <2>3. CASE S.entries[p] # entries[p]
    <3>1. B[b].entries[p] = entries[p]  BY <2>3 DEF changes
    <3> QED  BY <3>1, <2>1, <1>2
  <2>4. CASE S.entries[p] = entries[p] /\ f[S.bundle][p] # Unsaid
    <3>1. B[b].entries[p] = Unsaid  BY <2>4 DEF changes
    <3> DEFINE T == Sayers(p)
    <3>2. T \in SUBSET (1..(k + 1)) /\ 1 \in T  BY <1>1, <2>4
    <3>3. First(T) = 1
      <4> HIDE DEF T
      <4>1. k + 1 \in Nat  OBVIOUS
      <4>2. First(T) \in T /\ First(T) <= 1  BY <3>2, <4>1, FirstIs
      <4>3. First(T) \in 1..(k + 1)  BY <4>2, <3>2
      <4> QED  BY <4>2, <4>3
    <3>4. f[b][p] = f[S.bundle][p]  BY <1>1, <1>2, <3>1, <3>2, <3>3
    <3> QED  BY <3>4, <2>2, <2>4
  <2>5. CASE S.entries[p] = entries[p] /\ f[S.bundle][p] = Unsaid
    <3>1. B[b].entries[p] = Unsaid  BY <2>5 DEF changes
    <3>2. \A c \in Beneath(B, S.bundle) : f[c][p] = Unsaid
      BY <2>5, UnsaidBeneath
    <3>3. \A i \in 1..(k + 1) : f[ext[i]][p] = Unsaid
      <4>1. \A i \in 1..(k + 1) : i = 1 \/ i \in 2..(k + 1)  OBVIOUS
      <4> QED  BY <4>1, <1>1, <3>2, <2>5
    <3>4. Sayers(p) = {}  BY <1>1, <3>3
    <3> QED  BY <1>2, <3>1, <3>4, <2>2, <2>5
  <2> QED  BY <2>3, <2>4, <2>5
<1>4. \A p \in Paths : entries[p] = Resolves(f, b)[p]
  BY <1>3 DEF Resolves
<1> QED  BY <1>4 DEF Resolves, Directories

(* And so does one stored whole. *)
LEMMA WholeBrings ==
  ASSUME NEW B, NEW f, SaidOf(B, f), NEW entries \in Directories, NEW b \in DOMAIN B,
         B[b].entries = [p \in Paths |-> IF entries[p] = Absent THEN Unsaid ELSE entries[p]],
         B[b].extensions = <<>>
  PROVE  Resolves(f, b) = entries
<1>1. ASSUME NEW p \in Paths PROVE (IF f[b][p] = Unsaid THEN Absent ELSE f[b][p]) = entries[p]
  <2>1. entries[p] # Unsaid
    BY LayersAssumption DEF LayersAssumption, Directories
  <2>2. f[b][p] = B[b].entries[p]
    BY DEF SaidOf, Says
  <2> QED  BY <2>1, <2>2
<1> QED  BY <1>1 DEF Resolves, Directories

(* All bundles, each of which extends earlier ones protected as it is.      *)
AllProtected(B) == \A b \in DOMAIN B : \A c \in Beneath(B, b) : B[c].protection = B[b].protection

LEMMA AddedNumbered ==
  ASSUME NEW B, Sequential(B), Numbered(B), AllProtected(B), NEW bundle, bundle.extensions \in Seq(DOMAIN B),
         \A i \in DOMAIN bundle.extensions : B[bundle.extensions[i]].protection = bundle.protection
  PROVE  LET C == Append(B, bundle)
         IN /\ Sequential(C) /\ Numbered(C) /\ AllProtected(C)
            /\ Len(B) + 1 \in DOMAIN C /\ C[Len(B) + 1] = bundle
            /\ \A b \in DOMAIN B : b \in DOMAIN C /\ C[b] = B[b]
<1> DEFINE C == Append(B, bundle)
<1>1. PICK T : B \in Seq(T)
  BY DEF Sequential
<1>2. PICK n \in Nat : n = Len(B) /\ DOMAIN B = 1..n
  BY <1>1
<1>3. /\ C \in Seq(T \cup {bundle}) /\ DOMAIN C = 1..(n + 1)
      /\ C[n + 1] = bundle /\ \A b \in 1..n : C[b] = B[b]
  <2>1. B \in Seq(T \cup {bundle})  BY <1>1
  <2> QED  BY <2>1, <1>2
<1> HIDE DEF C
<1>4. ASSUME NEW b \in DOMAIN C PROVE C[b].extensions \in Seq(1..(b - 1))
  <2>1. CASE b = n + 1
    <3>1. (n + 1) - 1 = n  OBVIOUS
    <3> QED  BY <2>1, <3>1, <1>2, <1>3
  <2>2. CASE b # n + 1
    <3>1. b \in 1..n  BY <2>2, <1>3
    <3> QED  BY <3>1, <1>2, <1>3 DEF Numbered, ExtendEarlier
  <2> QED  BY <2>1, <2>2
<1>5. Numbered(C)
  BY <1>3, <1>4 DEF Numbered, ExtendEarlier
<1>6. ASSUME NEW b \in DOMAIN C, NEW i \in DOMAIN C[b].extensions
      PROVE  C[C[b].extensions[i]].protection = C[b].protection
  <2>1. CASE b = n + 1
    <3>1. C[b] = bundle  BY <2>1, <1>3
    <3>2. i \in DOMAIN bundle.extensions  BY <3>1
    <3>3. bundle.extensions[i] \in 1..n
      <4>1. PICK k \in Nat : DOMAIN bundle.extensions = 1..k /\ \A j \in 1..k : bundle.extensions[j] \in DOMAIN B
        BY ListIs
      <4> QED  BY <3>2, <4>1, <1>2
    <3>4. C[bundle.extensions[i]] = B[bundle.extensions[i]]  BY <3>3, <1>3
    <3> QED  BY <3>1, <3>2, <3>4
  <2>2. CASE b # n + 1
    <3>1. b \in 1..n /\ C[b] = B[b]  BY <2>2, <1>3
    <3>2. B[b].extensions[i] \in 1..(b - 1)
      <4>1. B[b].extensions \in Seq(1..(b - 1))  BY <3>1, <1>2 DEF Numbered, ExtendEarlier
      <4> QED  BY <3>1, <4>1, ListIs
    <3>3. B[b].extensions[i] \in 1..n  BY <3>1, <3>2
    <3>4. C[B[b].extensions[i]] = B[B[b].extensions[i]]  BY <3>3, <1>3
    <3>5. B[B[b].extensions[i]].protection = B[b].protection
      BY <3>1, <1>2 DEF AllProtected, Beneath
    <3> QED  BY <3>1, <3>4, <3>5
  <2> QED  BY <2>1, <2>2
<1>7. AllProtected(C)
  BY <1>6 DEF AllProtected, Beneath
<1>8. Sequential(C)
  BY <1>3 DEF Sequential
<1> QED  BY <1>2, <1>3, <1>5, <1>7, <1>8 DEF C

(* The new version extends bundles there are, and that need nothing that    *)
(* was not stored.                                                           *)
MayExtend(B, st, bundle, protection) ==
  /\ bundle.extensions \in Seq(DOMAIN B) /\ bundle.protection = protection
  /\ \A i \in DOMAIN bundle.extensions :
       bundle.extensions[i] \in st /\ B[bundle.extensions[i]].protection = protection

LEMMA NewVersionExtends ==
  ASSUME NEW B, NEW f, NEW st, Numbered(B), AllProtected(B), NEW S, NEW protection,
         FaithfulIfAny(B, f, st, S, protection), NEW entries, NEW supersedes,
         NEW bundle, bundle = NewVersion(S, entries, supersedes, protection)
  PROVE  MayExtend(B, st, bundle, protection)
<1>1. CASE ~Layered(S)
  <2>1. bundle.extensions = <<>> /\ bundle.protection = protection
    BY <1>1 DEF NewVersion
  <2> QED  BY <2>1 DEF MayExtend
<1>2. CASE Layered(S)
  <2>1. bundle.extensions = <<S.bundle>> \o S.beneath /\ bundle.protection = protection
    BY <1>2 DEF NewVersion
  <2>2. S # NotExpanded
    BY <1>2 DEF Layered, NotExpanded, Expanded
  <2>3. Faithful(B, f, st, S, protection)
    BY <2>2 DEF FaithfulIfAny
  <2>4. /\ S.bundle \in DOMAIN B /\ S.bundle \in st /\ B[S.bundle].protection = protection
        /\ Beneath(B, S.bundle) \subseteq st /\ S.beneath \in Seq(Beneath(B, S.bundle))
    BY <2>3 DEF Faithful, Brings, Needs
  <2>5. \A c \in Beneath(B, S.bundle) : c \in DOMAIN B /\ B[c].protection = protection
    <3>1. B[S.bundle].extensions \in Seq(1..(S.bundle - 1))
      BY <2>4 DEF Numbered, ExtendEarlier
    <3>2. PICK n \in Nat : DOMAIN B = 1..n  BY DEF Numbered
    <3>3. S.bundle \in 1..n  BY <2>4, <3>2
    <3>4. PICK k \in Nat : DOMAIN B[S.bundle].extensions = 1..k
                           /\ \A i \in 1..k : B[S.bundle].extensions[i] \in 1..(S.bundle - 1)
      BY <3>1, ListIs
    <3>5. 1..(S.bundle - 1) \subseteq DOMAIN B  BY <3>2, <3>3
    <3> QED  BY <2>4, <3>4, <3>5 DEF AllProtected, Beneath
  <2> DEFINE R == {S.bundle} \cup Beneath(B, S.bundle)
  <2>6. <<S.bundle>> \o S.beneath \in Seq(R)
    <3>1. S.beneath \in Seq(R) /\ <<S.bundle>> \in Seq(R)  BY <2>4
    <3> HIDE DEF R
    <3> QED  BY <3>1, ConcatProperties
  <2>7. \A c \in R : c \in DOMAIN B /\ c \in st /\ B[c].protection = protection
    BY <2>4, <2>5
  <2> HIDE DEF R
  <2>8. bundle.extensions \in Seq(R)  BY <2>1, <2>6
  <2>9. PICK k \in Nat : DOMAIN bundle.extensions = 1..k /\ \A i \in 1..k : bundle.extensions[i] \in R
    BY <2>8, ListIs
  <2>10. bundle.extensions \in Seq(DOMAIN B)  BY <2>7, <2>8
  <2> QED  BY <2>1, <2>7, <2>9, <2>10 DEF MayExtend
<1> QED  BY <1>1, <1>2

(* And it brings back the entries it was made for, once it is stored as     *)
(* they are.                                                                 *)
LEMMA NewVersionBrings ==
  ASSUME NEW B, NEW f, NEW st, Numbered(B), AllProtected(B), SaidOf(B, f), NEW S, NEW protection,
         FaithfulIfAny(B, f, st, S, protection), NEW entries \in Directories, PartsOf(entries) \subseteq st,
         NEW supersedes, NEW b \in DOMAIN B, B[b] = NewVersion(S, entries, supersedes, protection)
  PROVE  LET bundle == B[b]
         IN /\ Brings(B, f, st \cup {b}, b, entries, protection)
            /\ Faithful(B, f, st \cup {b}, Expanded(b, entries, bundle.extensions, Len(bundle.extensions)), protection)
<1>1. Resolves(f, b) = entries
  <2>1. CASE ~Layered(S)
    <3>1. /\ B[b].extensions = <<>>
          /\ B[b].entries = [p \in Paths |-> IF entries[p] = Absent THEN Unsaid ELSE entries[p]]
      BY <2>1 DEF NewVersion
    <3> QED  BY <3>1, WholeBrings
  <2>2. CASE Layered(S)
    <3>1. B[b].extensions = <<S.bundle>> \o S.beneath /\ B[b].entries = changes(S, entries)
      BY <2>2 DEF NewVersion
    <3>2. S # NotExpanded
      BY <2>2 DEF Layered, NotExpanded, Expanded
    <3>3. /\ S.bundle \in DOMAIN B /\ Resolves(f, S.bundle) = S.entries
          /\ S.beneath \in Seq(Beneath(B, S.bundle))
      BY <3>2 DEF FaithfulIfAny, Faithful, Brings
    <3> QED  BY <3>1, <3>3, LayerBrings
  <2> QED  BY <2>1, <2>2
<1>2. /\ B[b].extensions \in Seq(DOMAIN B) /\ B[b].protection = protection
      /\ \A i \in DOMAIN B[b].extensions : B[b].extensions[i] \in st
  <2>1. MayExtend(B, st, B[b], protection)
    BY NewVersionExtends
  <2> QED  BY <2>1 DEF MayExtend
<1>3. Beneath(B, b) \subseteq st
  BY <1>2 DEF Beneath
<1>4. Brings(B, f, st \cup {b}, b, entries, protection)
  BY <1>1, <1>2, <1>3 DEF Brings, Needs
<1>5. B[b].extensions \in Seq(Beneath(B, b)) /\ Len(B[b].extensions) \in Nat
  BY <1>2 DEF Beneath
<1> QED  BY <1>4, <1>5, ExpandedFaithful

(* What a job keeps, of the bundle it superseded, will do. *)
LEMMA KeptFaithful ==
  ASSUME NEW B, NEW f, NEW st, NEW S, FaithfulIfAny(B, f, st, S, "secret"),
         NEW latest, latest # NoLatest, LatestBrings(B, f, st, latest),
         NEW entries \in Directories, PartsOf(entries) \subseteq st, NEW publish,
         Kept(S, latest, entries, publish) # NotExpanded
  PROVE  Faithful(B, f, st, Kept(S, latest, entries, publish), "secret")
<1> DEFINE kept == Kept(S, latest, entries, publish)
<1>1. CASE S.bundle = Unknown
  <2>1. kept = Expanded(latest.bundle, latest.entries, <<>>, Unknown)
    BY <1>1 DEF Kept
  <2>2. Brings(B, f, st, latest.bundle, latest.entries, "secret")  BY DEF LatestBrings
  <2>3. <<>> \in Seq(Beneath(B, latest.bundle))  OBVIOUS
  <2> QED  BY <2>1, <2>2, <2>3, ExpandedFaithful
<1>2. CASE S.bundle # Unknown
  <2>1. S # NotExpanded  BY <1>2 DEF NotExpanded, Expanded
  <2>2. Faithful(B, f, st, S, "secret")  BY <2>1 DEF FaithfulIfAny
  <2>3. PICK held_back : kept = S \/ (/\ kept = [S EXCEPT !.held_back = held_back]
                                      /\ PartsOf(seen(kept)) \subseteq st)
    <3>1. CASE entries = S.entries
      <4>1. kept = [S EXCEPT !.held_back = NothingHeldBack]  BY <1>2, <3>1 DEF Kept
      <4>2. kept.held_back = NothingHeldBack /\ kept.entries = entries
        BY <3>1, <4>1, <2>2 DEF Faithful
      <4> HIDE DEF kept
      <4>3. PartsOf(seen(kept)) = PartsOf(entries)
        <5>1. \A p \in Paths : seen(kept)[p] = entries[p]  BY <4>2 DEF seen, NothingHeldBack
        <5> QED  BY <5>1 DEF PartsOf
      <4> QED  BY <4>1, <4>3
    <3>2. CASE entries # S.entries /\ kept = S  BY <3>2
    <3>3. CASE entries # S.entries /\ kept # S
      <4>1. kept = [S EXCEPT !.held_back = changes(S, entries)]  BY <1>2, <3>3 DEF Kept
      <4>2. kept.held_back = changes(S, entries) /\ kept.entries = S.entries
        BY <4>1, <2>2 DEF Faithful
      <4> HIDE DEF kept
      <4>3. PartsOf(seen(kept)) = PartsOf(entries)
        <5>1. \A p \in Paths : entries[p] # Unsaid  BY LayersAssumption DEF LayersAssumption, Directories
        <5>2. \A p \in Paths : seen(kept)[p] = entries[p]  BY <4>2, <5>1 DEF seen, changes
        <5> QED  BY <5>2 DEF PartsOf
      <4> QED  BY <4>1, <4>3
    <3> QED  BY <3>1, <3>2, <3>3
  <2>4. CASE kept = S  BY <2>2, <2>4
  <2>5. CASE kept = [S EXCEPT !.held_back = held_back] /\ PartsOf(seen(kept)) \subseteq st
    <3>1. /\ \A field \in {"bundle", "entries", "beneath", "layers", "held_back"} : field \in DOMAIN kept
          /\ kept.bundle = S.bundle /\ kept.entries = S.entries
          /\ kept.beneath = S.beneath /\ kept.layers = S.layers
      BY <2>2, <2>5 DEF Faithful
    <3> HIDE DEF kept
    <3>2. Faithful(B, f, st, kept, "secret")  BY <2>2, <2>5, <3>1 DEF Faithful
    <3> QED  BY <3>2 DEF kept
  <2> QED  BY <2>3, <2>4, <2>5
<1> QED  BY <1>1, <1>2

-----------------------------------------------------------------------------
(* What is so of all the backup process keeps, so that what is recorded is  *)
(* whole: of bundles B, what they say, and what has been stored.            *)

Kinds == {"job", "build", "import"}
WorkFields ==
  {"doing", "at", "todo", "entries", "entry", "earlier", "loaded", "publish", "protection", "want", "waits",
   "stall", "bundle", "result", "missing"}
Wanting(w) == {w.want[i].object : i \in DOMAIN w.want}

(* What a walk has seen is stored, and what it may be layered over faithful. *)
WalkHolds(B, f, st, w, recorded) ==
  /\ DOMAIN w = WorkFields /\ Sequential(w.want) /\ w.todo \in Seq(Paths)
  /\ w.entries \in Directories /\ PartsOf(w.entries) \subseteq st
  /\ w.doing = "job" => w.protection = "secret" /\ FaithfulIfAny(B, f, st, w.earlier, "secret")
  /\ w.doing = "build" => w.earlier = recorded
  /\ w.doing = "import" => w.earlier = NotExpanded

(* A bundle being made will be whole once what is still wanted is stored.   *)
MakingHolds(B, f, st, w) ==
  /\ w.at \in {"walk", "parts"} => w.bundle = Unknown
  /\ w.at = "parts" =>
       w.todo # <<>> /\ w.entry \in Entries \cup {Absent} /\ Parts(w.entry) \subseteq st \cup Wanting(w)
  /\ w.at = "bundle" =>
       /\ \A i \in DOMAIN w.want : ~w.want[i].attribute
       /\ Brings(B, f, st \cup Wanting(w), w.bundle, w.entries, w.protection)
       /\ Faithful(B, f, st \cup Wanting(w), w.result, w.protection)
  /\ w.at \in {"expanded", "latest", "record"} =>
       /\ w.bundle = Unknown \/ Brings(B, f, st, w.bundle, w.entries, w.protection)
       /\ Faithful(B, f, st, w.result, w.protection)

WorkHolds(B, f, st, w, recorded) ==
  /\ WalkHolds(B, f, st, w, recorded)
  /\ w.doing \in Kinds => MakingHolds(B, f, st, w)
  /\ w.doing = "restore" /\ w.at = "settle" /\ w.missing = {} => Needs(B, f, AskedFor) \subseteq st
  /\ w.doing = "archive" /\ w.at = "record" => Needs(B, f, AskedFor) \subseteq st

(* What a restore has placed was stored. *)
RestoreHolds(st, restore) ==
  /\ "read" \in DOMAIN restore /\ "pending" \in DOMAIN restore
  /\ restore.read => /\ AskedFor \in st
                     /\ \A p \in Paths : p \notin restore.pending => Parts(Source[p]) \subseteq st

MemHolds(B, f, st, m) ==
  /\ "job" \in DOMAIN m /\ "restore" \in DOMAIN m /\ "latest" \in DOMAIN m.job
  /\ LatestBrings(B, f, st, m.job.latest)
  /\ RestoreHolds(st, m.restore)

FilesHold(B, f, st, jobs, kept_expanded, record, archived) ==
  /\ "latest" \in DOMAIN jobs /\ LatestBrings(B, f, st, jobs.latest)
  /\ FaithfulIfAny(B, f, st, kept_expanded, "secret")
  /\ FaithfulIfAny(B, f, st, record.expanded, record.protection)
  /\ archived => Needs(B, f, AskedFor) \subseteq st

BundlesHold(B, f) ==
  /\ Sequential(B) /\ Numbered(B) /\ AllProtected(B)
  /\ AskedFor \in DOMAIN B /\ Beneath(B, AskedFor) = {} /\ Resolves(f, AskedFor) = Source
  /\ B[AskedFor].protection = "plain"

AllHolds ==
  /\ BundlesHold(bundles, said)
  /\ FilesHold(bundles, said, stored, jobs_file, expanded_file, record_file, archive_file)
  /\ MemHolds(bundles, said, stored, mem)
  /\ WorkHolds(bundles, said, stored, work, record_file.expanded)
  /\ directory \in Directories /\ store \subseteq stored

-----------------------------------------------------------------------------
(* What holds of bundles that are not added to, and as they are.           *)

SaidBy(B) == CHOOSE f : f = [b \in DOMAIN B |-> Says(B, f, b)]

LEMMA SaidIsBy == said = SaidBy(bundles)
BY Zenon DEF said, Says, SaidBy, Made

LEMMA SaidSame == bundles' = bundles => said' = said
<1>1. (said = SaidBy(bundles))'
  BY SaidIsBy, PTL
<1>2. said' = SaidBy(bundles')
  BY <1>1
<1> QED  BY <1>2, SaidIsBy

LEMMA SaidIsNext == Numbered(bundles') => SaidOf(bundles', said')
<1>1. (Numbered(bundles) => SaidOf(bundles, said))'
  BY SaidIs, PTL
<1> QED  BY <1>1

(* Of the bundle asked for, and of any, in the operators of the model.      *)
LEMMA NeededIs == \A b : Needed(b) = Needs(bundles, said, b) /\ Reached(b) = {b} \cup Beneath(bundles, b)
                         /\ resolve_directory(b) = Resolves(said, b)
<1> TAKE b
<1>1. Reached(b) = {b} \cup Beneath(bundles, b)  BY DEF Reached, Beneath
<1>2. resolve_directory(b) = Resolves(said, b)  BY DEF resolve_directory, Resolves
<1>3. Needed(b) = Needs(bundles, said, b)  BY <1>1, <1>2 DEF Needed, Needs, PartsOf
<1> QED  BY <1>1, <1>2, <1>3

(* A step that makes no bundle, and stores nothing. *)
StepHolds(st) ==
  /\ FilesHold(bundles, said, st, jobs_file', expanded_file', record_file', archive_file')
  /\ MemHolds(bundles, said, st, mem')
  /\ WorkHolds(bundles, said, st, work', record_file'.expanded)
  /\ directory' \in Directories /\ store' \subseteq st

LEMMA HoldsNext ==
  ASSUME AllHolds, bundles' = bundles, StepHolds(stored')
  PROVE  AllHolds'
BY SaidSame DEF AllHolds, StepHolds

(* What is kept, as more comes to be stored and made. *)
LEMMA FilesStill ==
  ASSUME NEW B, NEW f, NEW st, NEW C, NEW g, NEW su, Grows(B, f, st, C, g, su), AskedFor \in DOMAIN B,
         NEW jobs, NEW kept_expanded, NEW record, NEW archived, FilesHold(B, f, st, jobs, kept_expanded, record, archived)
  PROVE  FilesHold(C, g, su, jobs, kept_expanded, record, archived)
<1>1. LatestBrings(C, g, su, jobs.latest)
  BY LatestStill DEF FilesHold
<1>2. FaithfulIfAny(C, g, su, kept_expanded, "secret")
  BY FaithfulStill DEF FilesHold, FaithfulIfAny
<1>3. FaithfulIfAny(C, g, su, record.expanded, record.protection)
  BY FaithfulStill DEF FilesHold, FaithfulIfAny
<1>4. Needs(B, f, AskedFor) \subseteq st => Needs(C, g, AskedFor) \subseteq su
  BY DEF Grows, Needs, Resolves, Beneath
<1> QED  BY <1>1, <1>2, <1>3, <1>4 DEF FilesHold

LEMMA MemStill ==
  ASSUME NEW B, NEW f, NEW st, NEW C, NEW g, NEW su, Grows(B, f, st, C, g, su), NEW m, MemHolds(B, f, st, m)
  PROVE  MemHolds(C, g, su, m)
<1>1. LatestBrings(C, g, su, m.job.latest)
  BY LatestStill DEF MemHolds
<1>2. RestoreHolds(su, m.restore)
  BY DEF MemHolds, RestoreHolds, Grows
<1> QED  BY <1>1, <1>2 DEF MemHolds

(* A memory as good as another. *)
MemLike(m, n) ==
  /\ "job" \in DOMAIN n /\ "restore" \in DOMAIN n /\ "latest" \in DOMAIN n.job
  /\ "read" \in DOMAIN n.restore /\ "pending" \in DOMAIN n.restore
  /\ n.job.latest = m.job.latest
  /\ n.restore.read = m.restore.read /\ n.restore.pending = m.restore.pending

LEMMA MemLikeHolds ==
  ASSUME NEW B, NEW f, NEW st, NEW m, MemHolds(B, f, st, m), NEW n, MemLike(m, n)
  PROVE  MemHolds(B, f, st, n)
BY DEF MemHolds, MemLike, RestoreHolds

(* Work that makes no bundle, and settles and records nothing. *)
WorkApart(w) ==
  /\ DOMAIN w = WorkFields /\ w.want = <<>> /\ w.todo = <<>> /\ w.entries = Empty /\ w.doing \notin Kinds
  /\ ~(w.doing = "restore" /\ w.at = "settle") /\ ~(w.doing = "archive" /\ w.at = "record")

LEMMA NothingKept ==
  /\ Empty \in Directories /\ PartsOf(Empty) = {}
  /\ PartsOf(seen(NotExpanded)) = {}
<1>1. Empty \in Directories /\ PartsOf(Empty) = {}
  BY DEF Empty, Directories, PartsOf, Parts
<1>2. \A p \in Paths : seen(NotExpanded)[p] = Absent
  BY DEF seen, NotExpanded, Expanded, NothingHeldBack
<1>3. PartsOf(seen(NotExpanded)) = {}
  BY <1>2 DEF PartsOf, Parts
<1> QED  BY <1>1, <1>3

LEMMA ApartHolds ==
  ASSUME NEW B, NEW f, NEW st, NEW recorded, NEW w, WorkApart(w)
  PROVE  WorkHolds(B, f, st, w, recorded)
<1>1. Sequential(w.want)
  <2>1. <<>> \in Seq({})  OBVIOUS
  <2> QED  BY <2>1 DEF WorkApart, Sequential
<1>2. WalkHolds(B, f, st, w, recorded)
  BY <1>1, NothingKept DEF WorkApart, WalkHolds, Kinds
<1> QED  BY <1>2 DEF WorkApart, WorkHolds

LEMMA RestingApart ==
  /\ WorkApart(Resting)
  /\ \A doing, at : /\ doing \notin Kinds
                    /\ ~(doing = "restore" /\ at = "settle") /\ ~(doing = "archive" /\ at = "record")
                    => WorkApart(Begins(doing, at))
<1>1. /\ DOMAIN Resting = WorkFields /\ Resting.want = <<>> /\ Resting.todo = <<>> /\ Resting.entries = Empty
      /\ Resting.doing = "rest"
  BY DEF Resting, WorkFields
<1>2. WorkApart(Resting)
  BY <1>1 DEF WorkApart, Kinds
<1>3. ASSUME NEW doing, NEW at PROVE
        /\ DOMAIN Begins(doing, at) = WorkFields /\ Begins(doing, at).want = <<>>
        /\ Begins(doing, at).todo = <<>> /\ Begins(doing, at).entries = Empty /\ Begins(doing, at).doing = doing /\ Begins(doing, at).at = at
  BY <1>1 DEF Begins, WorkFields
<1> QED  BY <1>2, <1>3 DEF WorkApart

(* Work that is as it was, but for what is wanted still. *)
WorkLike(w, v) ==
  /\ DOMAIN v = WorkFields
  /\ v.doing = w.doing /\ v.at = w.at /\ v.todo = w.todo /\ v.entries = w.entries /\ v.entry = w.entry
  /\ v.earlier = w.earlier /\ v.protection = w.protection /\ v.bundle = w.bundle /\ v.result = w.result
  /\ v.missing = w.missing

LEMMA WorkStill ==
  ASSUME NEW B, NEW f, NEW st, NEW su, AskedFor \in DOMAIN B, NEW recorded, NEW w, NEW v,
         WorkHolds(B, f, st, w, recorded), WorkLike(w, v), Sequential(v.want),
         \A i \in DOMAIN v.want : \E j \in DOMAIN w.want : v.want[i] = w.want[j],
         st \subseteq su, Wanting(w) \subseteq su \cup Wanting(v)
  PROVE  WorkHolds(B, f, su, v, recorded)
<1> DEFINE wants == st \cup Wanting(w)
           wanted == su \cup Wanting(v)
<1>1. wants \subseteq wanted
  OBVIOUS
<1> HIDE DEF wants, wanted
<1>2. Grows(B, f, st, B, f, su) /\ Grows(B, f, wants, B, f, wanted)
  BY <1>1 DEF Grows
<1>3. \A S, protection : FaithfulIfAny(B, f, st, S, protection) => FaithfulIfAny(B, f, su, S, protection)
  BY <1>2, FaithfulStill DEF FaithfulIfAny
<1>4. WalkHolds(B, f, su, v, recorded)
  BY <1>3 DEF WorkHolds, WalkHolds, WorkLike
<1>5. ASSUME v.doing \in Kinds PROVE MakingHolds(B, f, su, v)
  <2>1. MakingHolds(B, f, st, w)
    BY <1>5 DEF WorkHolds, WorkLike
  <2>2. v.at = "parts" =>
          v.todo # <<>> /\ v.entry \in Entries \cup {Absent} /\ Parts(v.entry) \subseteq wanted
    BY <2>1, <1>1 DEF MakingHolds, WorkLike, wants
  <2>3. ASSUME v.at = "bundle"
        PROVE  /\ \A i \in DOMAIN v.want : ~v.want[i].attribute
               /\ Brings(B, f, wanted, v.bundle, v.entries, v.protection)
               /\ Faithful(B, f, wanted, v.result, v.protection)
    <3>1. /\ \A i \in DOMAIN w.want : ~w.want[i].attribute
          /\ Brings(B, f, wants, w.bundle, w.entries, w.protection)
          /\ Faithful(B, f, wants, w.result, w.protection)
      BY <2>1, <2>3 DEF MakingHolds, WorkLike, wants
    <3>2. Brings(B, f, wanted, w.bundle, w.entries, w.protection)
      BY <3>1, <1>2, BringsStill
    <3>3. Faithful(B, f, wanted, w.result, w.protection)
      BY <3>1, <1>2, FaithfulStill
    <3> QED  BY <3>1, <3>2, <3>3 DEF WorkLike
  <2>4. ASSUME v.at \in {"expanded", "latest", "record"}
        PROVE  /\ v.bundle = Unknown \/ Brings(B, f, su, v.bundle, v.entries, v.protection)
               /\ Faithful(B, f, su, v.result, v.protection)
    <3>1. /\ w.bundle = Unknown \/ Brings(B, f, st, w.bundle, w.entries, w.protection)
          /\ Faithful(B, f, st, w.result, w.protection)
      BY <2>1, <2>4 DEF MakingHolds, WorkLike
    <3>2. w.bundle = Unknown \/ Brings(B, f, su, w.bundle, w.entries, w.protection)
      BY <3>1, <1>2, BringsStill
    <3>3. Faithful(B, f, su, w.result, w.protection)
      BY <3>1, <1>2, FaithfulStill
    <3> QED  BY <3>2, <3>3 DEF WorkLike
  <2>5. v.at \in {"walk", "parts"} => v.bundle = Unknown
    BY <2>1 DEF MakingHolds, WorkLike
  <2> QED  BY <2>2, <2>3, <2>4, <2>5 DEF MakingHolds, wanted
<1>6. /\ v.doing = "restore" /\ v.at = "settle" /\ v.missing = {} => Needs(B, f, AskedFor) \subseteq su
      /\ v.doing = "archive" /\ v.at = "record" => Needs(B, f, AskedFor) \subseteq su
  BY DEF WorkHolds, WorkLike
<1> QED  BY <1>4, <1>5, <1>6 DEF WorkHolds

(* A step after which the work rests, or goes on apart, and the memory is   *)
(* as good.                                                                  *)
LEMMA ApartNext ==
  ASSUME AllHolds, UNCHANGED <<bundles, stored>>, WorkApart(work'), MemLike(mem, mem'),
         FilesHold(bundles, said, stored, jobs_file', expanded_file', record_file', archive_file'),
         directory' \in Directories, store' \subseteq stored
  PROVE  AllHolds'
<1>1. MemHolds(bundles, said, stored, mem')
  BY MemLikeHolds DEF AllHolds
<1>2. WorkHolds(bundles, said, stored, work', record_file'.expanded)
  BY ApartHolds
<1> QED  BY <1>1, <1>2, HoldsNext DEF StepHolds

LEMMA SameNext ==
  ASSUME AllHolds, UNCHANGED <<bundles, stored, work, record_file>>, MemLike(mem, mem'),
         FilesHold(bundles, said, stored, jobs_file', expanded_file', record_file', archive_file'),
         directory' \in Directories, store' \subseteq stored
  PROVE  AllHolds'
<1>1. MemHolds(bundles, said, stored, mem')
  BY MemLikeHolds DEF AllHolds
<1>2. WorkHolds(bundles, said, stored, work', record_file'.expanded)
  BY DEF AllHolds
<1> QED  BY <1>1, <1>2, HoldsNext DEF StepHolds

LEMMA MemLikeItself ==
  ASSUME AllHolds
  PROVE  MemLike(mem, mem) /\ MemLike(mem, Taken)
BY DEF AllHolds, MemHolds, RestoreHolds, MemLike, Taken

-----------------------------------------------------------------------------
(* Handling messages. *)

LEMMA NextApart == WorkApart([Resting EXCEPT !.doing = "next", !.at = "expire"])
<1>1. [Resting EXCEPT !.doing = "next", !.at = "expire"] = Begins("next", "expire")
  BY DEF Begins
<1>2. WorkApart(Begins("next", "expire"))
  BY RestingApart, Zenon DEF Kinds
<1> QED  BY <1>1, <1>2

LEMMA LandedSame ==
  ASSUME NEW task, NEW o, NEW resume
  PROVE  /\ DOMAIN landed(task, o, resume) = DOMAIN task
         /\ \A field \in DOMAIN task \ {"missing", "arrived", "due"} : landed(task, o, resume)[field] = task[field]
BY DEF landed

LEMMA NoRestoreIs ==
  /\ NoRestore.read = FALSE /\ NoRestore.pending = {}
  /\ "read" \in DOMAIN NoRestore /\ "pending" \in DOMAIN NoRestore
BY DEF NoRestore

(* The handlers that leave the files alone, and what is restored as it was. *)
LEMMA QuietHandled ==
  ASSUME AllHolds, OnStorageFull \/ OnRunRequested \/ OnTaskRequested \/ OnArchiveRequested \/ OnDataStored \/ OnIdle
  PROVE  AllHolds'
<1> DEFINE Mem(m) == /\ "job" \in DOMAIN m /\ "restore" \in DOMAIN m /\ "latest" \in DOMAIN m.job
                     /\ "read" \in DOMAIN m.restore /\ "pending" \in DOMAIN m.restore
<1>1. /\ Mem(mem) /\ Mem(Taken) /\ Taken.job = mem.job /\ Taken.restore = mem.restore
  BY DEF AllHolds, MemHolds, RestoreHolds, Taken
<1>2. MemLike(mem, mem')
  <2>1. CASE OnStorageFull  BY <1>1, <2>1 DEF OnStorageFull, Handled, MemLike
  <2>2. CASE OnRunRequested  BY <1>1, <2>2 DEF OnRunRequested, Handled, MemLike
  <2>3. CASE OnTaskRequested  BY <1>1, <2>3 DEF OnTaskRequested, Handled, MemLike
  <2>4. CASE OnArchiveRequested  BY <1>1, <2>4 DEF OnArchiveRequested, Handled, Failed, MemLike
  <2>5. CASE OnDataStored
    <3>1. PICK o : mem' = [Taken EXCEPT !.restore = landed(@, o, Resume), !.archive = archive_landed(@, o)]
      BY <2>5 DEF OnDataStored, Handled
    <3>2. "job" \in DOMAIN mem' /\ "restore" \in DOMAIN mem' /\ mem'.job = mem.job
          /\ mem'.restore = landed(mem.restore, o, Resume)
      BY <1>1, <3>1
    <3> QED  BY <1>1, <3>2, LandedSame DEF MemLike
  <2>6. CASE OnIdle  BY <1>1, <2>6 DEF OnIdle, Handled, MemLike
  <2> QED  BY <2>1, <2>2, <2>3, <2>4, <2>5, <2>6
<1>3. UNCHANGED <<bundles, jobs_file, expanded_file, record_file, archive_file, directory, store, stored>>
  BY DEF OnStorageFull, OnRunRequested, OnTaskRequested, OnArchiveRequested, OnDataStored, OnIdle, files,
         backupHistory
<1>4. WorkApart(work') \/ work' = work
  BY NextApart DEF OnStorageFull, OnRunRequested, OnTaskRequested, OnArchiveRequested, OnDataStored, OnIdle,
                   Handled, Failed
<1>5. FilesHold(bundles, said, stored, jobs_file', expanded_file', record_file', archive_file')
  BY <1>3 DEF AllHolds
<1>6. directory' \in Directories /\ store' \subseteq stored
  BY <1>3 DEF AllHolds
<1> QED  BY <1>2, <1>3, <1>4, <1>5, <1>6, ApartNext, SameNext

(* A restore asked for again goes on with what it had to place; one anew    *)
(* has placed nothing.                                                       *)
LEMMA RestoreRequestedHolds ==
  ASSUME AllHolds, OnRestoreRequested
  PROVE  AllHolds'
<1>1. PICK restore :
        /\ mem' = [Taken EXCEPT !.restore = restore]
        /\ "read" \in DOMAIN restore /\ "pending" \in DOMAIN restore
        /\ ~restore.read \/ (restore.read = mem.restore.read /\ restore.pending = mem.restore.pending)
  <2>1. "read" \in DOMAIN mem.restore /\ "pending" \in DOMAIN mem.restore
    BY DEF AllHolds, MemHolds, RestoreHolds
  <2>2. PICK overwrite \in BOOLEAN :
          mem' = [Taken EXCEPT !.restore =
                    IF CanCarryOn(mem.restore)
                    THEN [ask_again(mem.restore) EXCEPT !.status = "waiting", !.gave_up = FALSE, !.overwrite = overwrite]
                    ELSE [NoRestore EXCEPT !.status = "waiting", !.overwrite = overwrite]]
    BY DEF OnRestoreRequested, Handled
  <2> DEFINE going == [ask_again(mem.restore) EXCEPT !.status = "waiting", !.gave_up = FALSE, !.overwrite = overwrite]
             anew == [NoRestore EXCEPT !.status = "waiting", !.overwrite = overwrite]
  <2>3. /\ "read" \in DOMAIN going /\ "pending" \in DOMAIN going
        /\ going.read = mem.restore.read /\ going.pending = mem.restore.pending
    BY <2>1 DEF ask_again
  <2>4. "read" \in DOMAIN anew /\ "pending" \in DOMAIN anew /\ ~anew.read
    BY NoRestoreIs
  <2>5. \E restore \in {going, anew} : mem' = [Taken EXCEPT !.restore = restore]
    BY <2>2
  <2> HIDE DEF going, anew
  <2> QED  BY <2>3, <2>4, <2>5
<1>2. /\ "job" \in DOMAIN mem' /\ "restore" \in DOMAIN mem' /\ mem'.job = mem.job /\ mem'.restore = restore
  BY <1>1 DEF Taken, AllHolds, MemHolds
<1>3. MemHolds(bundles, said, stored, mem')
  BY <1>1, <1>2 DEF AllHolds, MemHolds, RestoreHolds
<1>4. UNCHANGED <<bundles, files, directory, store, stored>> /\ WorkApart(work')
  BY NextApart DEF OnRestoreRequested, Handled
<1>5. WorkHolds(bundles, said, stored, work', record_file'.expanded)
  BY <1>4, ApartHolds
<1>6. FilesHold(bundles, said, stored, jobs_file', expanded_file', record_file', archive_file')
      /\ directory' \in Directories /\ store' \subseteq stored
  BY <1>4 DEF AllHolds, files
<1> QED  BY <1>3, <1>4, <1>5, <1>6, HoldsNext DEF StepHolds

LEMMA NoneRecorded ==
  /\ \A B, f, st : LatestBrings(B, f, st, NoJob.latest) /\ "latest" \in DOMAIN NoJob
  /\ \A B, f, st, protection : FaithfulIfAny(B, f, st, NotExpanded, protection)
BY DEF NoJob, LatestBrings, FaithfulIfAny

(* Jobs are saved, or nothing is done: either way what is on file is whole. *)
LEMMA KeepHolds ==
  ASSUME AllHolds, UNCHANGED <<bundles, stored, record_file, archive_file, directory, store>>,
         expanded_file' \in {NotExpanded, expanded_file},
         NEW job, "latest" \in DOMAIN job, LatestBrings(bundles, said, stored, job.latest),
         NEW ok \in BOOLEAN, NEW m, m.restore = mem.restore, "job" \in DOMAIN m, "restore" \in DOMAIN m, Keep(job, ok, m)
  PROVE  AllHolds'
<1>1. FilesHold(bundles, said, stored, jobs_file', expanded_file', record_file', archive_file')
  BY NoneRecorded DEF AllHolds, FilesHold, Keep
<1>2. directory' \in Directories /\ store' \subseteq stored
  BY DEF AllHolds
<1>3. CASE ok
  <2>1. mem' = [m EXCEPT !.job = job] /\ WorkApart(work')
    BY <1>3, NextApart DEF Keep, Handled
  <2>2. "job" \in DOMAIN mem' /\ "restore" \in DOMAIN mem' /\ mem'.job = job /\ mem'.restore = mem.restore
    BY <2>1
  <2>3. MemHolds(bundles, said, stored, mem')
    BY <2>2 DEF AllHolds, MemHolds
  <2>4. WorkHolds(bundles, said, stored, work', record_file'.expanded)
    BY <2>1, ApartHolds
  <2> QED  BY <1>1, <1>2, <2>3, <2>4, HoldsNext DEF StepHolds
<1>4. CASE ~ok
  <2>1. mem' = Taken /\ work' = work
    BY <1>4 DEF Keep, Failed
  <2> QED  BY <1>1, <1>2, <2>1, MemLikeItself, SameNext
<1> QED  BY <1>3, <1>4

LEMMA JobConfiguredHolds ==
  ASSUME AllHolds, OnJobConfigured
  PROVE  AllHolds'
<1>1. PICK ok \in BOOLEAN : Keep([mem.job EXCEPT !.configured = TRUE], ok, [Taken EXCEPT !.due = 0])
  BY DEF OnJobConfigured
<1> DEFINE job == [mem.job EXCEPT !.configured = TRUE]
           m == [Taken EXCEPT !.due = 0]
<1>2. "latest" \in DOMAIN job /\ job.latest = mem.job.latest
  BY DEF AllHolds, MemHolds
<1>3. m.restore = mem.restore /\ "job" \in DOMAIN m /\ "restore" \in DOMAIN m
  BY DEF AllHolds, MemHolds, Taken
<1>4. UNCHANGED <<bundles, stored, record_file, archive_file, directory, store, expanded_file>>
  BY DEF OnJobConfigured
<1>5. LatestBrings(bundles, said, stored, job.latest)
  BY <1>2 DEF AllHolds, MemHolds
<1> HIDE DEF job, m
<1>6. Keep(job, ok, m)
  BY <1>1 DEF job, m
<1> QED  BY <1>2, <1>3, <1>4, <1>5, <1>6, KeepHolds

LEMMA JobRemovedHolds ==
  ASSUME AllHolds, OnJobRemoved
  PROVE  AllHolds'
<1> DEFINE m == [Taken EXCEPT !.requested = FALSE, !.status = "waiting"]
<1>1. UNCHANGED <<bundles, record_file, archive_file, directory, store, stored>>
  BY DEF OnJobRemoved
<1>2. CASE mem.job.configured
  <2>1. PICK ok \in BOOLEAN : Keep(NoJob, ok, m) /\ expanded_file' \in {NotExpanded, expanded_file}
    BY <1>2 DEF OnJobRemoved
  <2>2. m.restore = mem.restore /\ "job" \in DOMAIN m /\ "restore" \in DOMAIN m
    BY DEF AllHolds, MemHolds, Taken
  <2> HIDE DEF m
  <2> QED  BY <1>1, <2>1, <2>2, NoneRecorded, KeepHolds
<1>3. CASE ~mem.job.configured
  <2>1. Handled(Taken) /\ UNCHANGED <<jobs_file, expanded_file>>
    BY <1>3 DEF OnJobRemoved
  <2>2. MemLike(mem, mem') /\ WorkApart(work')
    BY <2>1, MemLikeItself, NextApart DEF Handled
  <2>3. FilesHold(bundles, said, stored, jobs_file', expanded_file', record_file', archive_file')
        /\ directory' \in Directories /\ store' \subseteq stored
    BY <1>1, <2>1 DEF AllHolds
  <2> QED  BY <1>1, <2>2, <2>3, ApartNext
<1> QED  BY <1>2, <1>3

LEMMA RemovedLike ==
  ASSUME NEW m, MemLike(mem, m), NEW unlinked
  PROVE  MemLike(mem, Removed(m, unlinked))
BY DEF MemLike, Removed

(* An archive is removed: fewer objects are held. *)
LEMMA ArchiveLeft ==
  ASSUME AllHolds, UNCHANGED <<jobs_file, expanded_file, record_file>>, archive_file' => archive_file
  PROVE  FilesHold(bundles, said, stored, jobs_file', expanded_file', record_file', archive_file')
BY DEF AllHolds, FilesHold

LEMMA ArchiveRemovedHolds ==
  ASSUME AllHolds, OnArchiveRemoved
  PROVE  AllHolds'
<1>1. PICK unlinked \in BOOLEAN, saved \in BOOLEAN : RemoveArchive(unlinked, saved) /\ Handled(Removed(Taken, unlinked))
  BY DEF OnArchiveRemoved
<1>2. MemLike(mem, mem') /\ WorkApart(work')
  BY <1>1, MemLikeItself, RemovedLike, NextApart DEF Handled
<1>3. UNCHANGED <<bundles, stored, jobs_file, expanded_file, record_file, directory, store>>
  BY DEF OnArchiveRemoved
<1>4. FilesHold(bundles, said, stored, jobs_file', expanded_file', record_file', archive_file')
  BY <1>1, <1>3, ArchiveLeft DEF RemoveArchive
<1>5. directory' \in Directories /\ store' \subseteq stored
  BY <1>3 DEF AllHolds
<1> QED  BY <1>2, <1>3, <1>4, <1>5, ApartNext

-----------------------------------------------------------------------------
(* Choosing work, storing, waiting. *)

LEMMA ExpireHolds ==
  ASSUME AllHolds, Expire
  PROVE  AllHolds'
<1>1. UNCHANGED <<bundles, jobs_file, expanded_file, record_file, directory, store, stored>>
  BY DEF Expire, backupHistory
<1>2. (archive_file' => archive_file) /\ MemLike(mem, mem')
  <2>1. CASE Expired
    <3>1. PICK unlinked \in BOOLEAN, saved \in BOOLEAN : RemoveArchive(unlinked, saved) /\ mem' = Removed(mem, unlinked)
      BY <2>1 DEF Expire
    <3> QED  BY <3>1, MemLikeItself, RemovedLike DEF RemoveArchive
  <2>2. CASE ~Expired  BY <2>2, MemLikeItself DEF Expire
  <2> QED  BY <2>1, <2>2
<1>3. FilesHold(bundles, said, stored, jobs_file', expanded_file', record_file', archive_file')
  BY <1>1, <1>2, ArchiveLeft
<1>4. work.doing = "next" /\ work' = [work EXCEPT !.at = "choose"] /\ DOMAIN work = WorkFields
  BY DEF Expire, At, AllHolds, WorkHolds, WalkHolds
<1>5. /\ DOMAIN work' = WorkFields /\ work'.doing = "next" /\ work'.want = work.want /\ work'.todo = work.todo
      /\ work'.entries = work.entries
  BY <1>4 DEF WorkFields
<1>6. WalkHolds(bundles, said, stored, work', record_file.expanded)
  BY <1>5, <1>4 DEF AllHolds, WorkHolds, WalkHolds
<1>7. WorkHolds(bundles, said, stored, work', record_file'.expanded)
  BY <1>1, <1>5, <1>6 DEF WorkHolds, Kinds
<1>8. MemHolds(bundles, said, stored, mem') /\ directory' \in Directories /\ store' \subseteq stored
  BY <1>1, <1>2, MemLikeHolds DEF AllHolds
<1> QED  BY <1>1, <1>3, <1>7, <1>8, HoldsNext DEF StepHolds

(* What a look is layered over: the latest backup, if it is held. *)
LEMMA EarlierHolds ==
  ASSUME AllHolds
  PROVE  FaithfulIfAny(bundles, said, stored, EarlierOfJob, "secret")
<1> DEFINE latest == mem.job.latest
<1>1. FaithfulIfAny(bundles, said, stored, Loaded, "secret")
  BY NoneRecorded DEF AllHolds, FilesHold, Loaded
<1>2. CASE latest = NoLatest \/ Loaded # NotExpanded
  BY <1>1, <1>2 DEF EarlierOfJob
<1>3. CASE latest # NoLatest
  <2>1. LatestBrings(bundles, said, stored, latest) /\ Numbered(bundles)
    BY DEF AllHolds, MemHolds, BundlesHold
  <2>2. latest.layers \in Nat \cup {Unknown} /\ Brings(bundles, said, stored, latest.bundle, latest.entries, "secret")
    BY <1>3, <2>1 DEF LatestBrings
  <2>3. Faithful(bundles, said, stored, ReadBack(latest.bundle, latest.layers), "secret")
    BY <2>1, <2>2, ReadBackFaithful
  <2> QED  BY <1>1, <2>3, NoneRecorded DEF EarlierOfJob, FaithfulIfAny
<1> QED  BY <1>2, <1>3

LEMMA RestingFields ==
  /\ DOMAIN Resting = WorkFields /\ Resting.want = <<>> /\ Resting.entries = Empty
  /\ Resting.bundle = Unknown /\ Resting.earlier = NotExpanded
BY DEF Resting, WorkFields

LEMMA OrderIs == Order \in Seq(Paths) /\ <<Order[1]>> \in Seq(Paths)
BY BackupAssumption DEF BackupAssumption

(* A walk begins: nothing of the directory is seen yet. *)
LEMMA BegunHolds ==
  ASSUME AllHolds, NEW w, DOMAIN w = WorkFields, w.want = <<>>, w.todo \in Seq(Paths), w.entries = Empty, w.at = "walk", w.bundle = Unknown,
         w.doing \in Kinds,
         w.doing = "job" => w.protection = "secret" /\ FaithfulIfAny(bundles, said, stored, w.earlier, "secret"),
         w.doing = "build" => w.earlier = record_file.expanded,
         w.doing = "import" => w.earlier = NotExpanded
  PROVE  WorkHolds(bundles, said, stored, w, record_file.expanded)
<1>1. Sequential(w.want)
  <2>1. <<>> \in Seq({})  OBVIOUS
  <2> QED  BY <2>1 DEF Sequential
<1>2. WalkHolds(bundles, said, stored, w, record_file.expanded)
  BY <1>1, NothingKept DEF WalkHolds
<1>3. MakingHolds(bundles, said, stored, w)
  BY DEF MakingHolds
<1> QED  BY <1>2, <1>3 DEF WorkHolds, Kinds

LEMMA TaskBegunHolds ==
  ASSUME AllHolds, NEW task
  PROVE  WorkHolds(bundles, said, stored, BeginsTask(task), record_file.expanded)
<1> DEFINE w == BeginsTask(task)
<1>1. CASE task = "export"
  <2>1. w = Begins("export", "look")  BY <1>1 DEF BeginsTask
  <2>2. WorkApart(w)  BY <2>1, RestingApart, Zenon DEF Kinds
  <2> QED  BY <2>2, ApartHolds
<1>2. CASE task = "import"
  <2>1. w = [Begins("import", "walk") EXCEPT !.todo = <<Order[1]>>]  BY <1>2 DEF BeginsTask
  <2>2. /\ DOMAIN w = WorkFields /\ w.want = <<>> /\ w.entries = Empty /\ w.at = "walk" /\ w.bundle = Unknown
        /\ w.doing = "import" /\ w.earlier = NotExpanded /\ w.todo \in Seq(Paths)
    BY <2>1, RestingFields, OrderIs DEF Begins, WorkFields
  <2> HIDE DEF w
  <2>3. WorkHolds(bundles, said, stored, w, record_file.expanded)
    BY <2>2, BegunHolds DEF Kinds
  <2> QED  BY <2>3 DEF w
<1>3. CASE task # "export" /\ task # "import"
  <2>1. w = [Begins("build", "walk") EXCEPT !.todo = Order, !.earlier = record_file.expanded,
                                            !.protection = IF task = "build" THEN "plain" ELSE "password"]
    BY <1>3 DEF BeginsTask
  <2>2. /\ DOMAIN w = WorkFields /\ w.want = <<>> /\ w.entries = Empty /\ w.at = "walk" /\ w.bundle = Unknown
        /\ w.doing = "build" /\ w.earlier = record_file.expanded /\ w.todo \in Seq(Paths)
    BY <2>1, RestingFields, OrderIs DEF Begins, WorkFields
  <2> HIDE DEF w
  <2>3. WorkHolds(bundles, said, stored, w, record_file.expanded)
    BY <2>2, BegunHolds DEF Kinds
  <2> QED  BY <2>3 DEF w
<1> QED  BY <1>1, <1>2, <1>3

LEMMA LookBegunHolds ==
  ASSUME AllHolds
  PROVE  WorkHolds(bundles, said, stored, BeginsLook, record_file.expanded)
<1> DEFINE w == BeginsLook
<1>1. /\ DOMAIN w = WorkFields /\ w.want = <<>> /\ w.entries = Empty /\ w.at = "walk" /\ w.bundle = Unknown
      /\ w.doing = "job" /\ w.earlier = EarlierOfJob /\ w.protection = "secret"
      /\ w.todo \in Seq(Paths)
  BY RestingFields, OrderIs DEF BeginsLook, Begins, WorkFields
<1> HIDE DEF w
<1>2. WorkHolds(bundles, said, stored, w, record_file.expanded)
  BY <1>1, EarlierHolds, BegunHolds DEF Kinds
<1> QED  BY <1>2 DEF w

LEMMA WorkNextHolds ==
  ASSUME AllHolds, WorkNext
  PROVE  AllHolds'
<1>1. UNCHANGED <<bundles, jobs_file, expanded_file, record_file, archive_file, directory, store, stored>>
  BY DEF WorkNext, files, backupHistory
<1>2. FilesHold(bundles, said, stored, jobs_file', expanded_file', record_file', archive_file')
      /\ directory' \in Directories /\ store' \subseteq stored
  BY <1>1 DEF AllHolds
<1>3. MemLike(mem, mem')
  BY DEF WorkNext, Done, AllHolds, MemHolds, RestoreHolds, MemLike
<1>4. WorkHolds(bundles, said, stored, work', record_file.expanded)
  <2>1. CASE work' = Begins("restore", "place") \/ work' = Begins("archive", "look")
    <3>1. WorkApart(work')
      BY <2>1, RestingApart, Zenon DEF Kinds
    <3> QED  BY <3>1, ApartHolds
  <2>2. CASE work' = BeginsTask(Head(mem.tasks))  BY <2>2, TaskBegunHolds
  <2>3. CASE work' = BeginsLook  BY <2>3, LookBegunHolds
  <2>4. CASE work' = Resting  BY <2>4, RestingApart, ApartHolds
  <2> QED  BY <2>1, <2>2, <2>3, <2>4 DEF WorkNext, Done
<1>5. MemHolds(bundles, said, stored, mem')
  BY <1>3, MemLikeHolds DEF AllHolds
<1> QED  BY <1>1, <1>2, <1>4, <1>5, HoldsNext DEF StepHolds

LEMMA LessWanted ==
  ASSUME NEW s, Sequential(s), s # <<>>
  PROVE  /\ Sequential(Tail(s))
         /\ \A i \in DOMAIN Tail(s) : \E j \in DOMAIN s : Tail(s)[i] = s[j]
         /\ \A j \in DOMAIN s : s[j] = Head(s) \/ \E i \in DOMAIN Tail(s) : Tail(s)[i] = s[j]
<1>1. PICK T : s \in Seq(T)
  BY DEF Sequential
<1>2. Tail(s) \in Seq(T) /\ Len(Tail(s)) = Len(s) - 1 /\ \A i \in 1..(Len(s) - 1) : Tail(s)[i] = s[i + 1]
  BY <1>1
<1>3. Len(s) \in Nat \ {0} /\ DOMAIN s = 1..Len(s) /\ DOMAIN Tail(s) = 1..(Len(s) - 1) /\ Head(s) = s[1]
  BY <1>1, <1>2
<1>4. \A i \in DOMAIN Tail(s) : i + 1 \in DOMAIN s /\ Tail(s)[i] = s[i + 1]
  BY <1>2, <1>3
<1>5. ASSUME NEW j \in DOMAIN s, j # 1 PROVE j - 1 \in DOMAIN Tail(s) /\ Tail(s)[j - 1] = s[j]
  <2>1. j - 1 \in 1..(Len(s) - 1) /\ (j - 1) + 1 = j  BY <1>3, <1>5
  <2> QED  BY <2>1, <1>2, <1>3
<1> QED  BY <1>2, <1>3, <1>4, <1>5 DEF Sequential

(* Storing what is wanted: once stored, it need not be wanted. *)
LEMMA StoresHolds ==
  ASSUME AllHolds, Stores
  PROVE  AllHolds'
<1>1. UNCHANGED <<bundles, jobs_file, expanded_file, record_file, archive_file, directory>>
  BY DEF Stores, files
<1>2. /\ stored \subseteq stored' /\ store' \subseteq stored' /\ Wanted.object \in stored'
      /\ MemLike(mem, mem')
  <2>1. CASE Wanted.object \in store
    BY <2>1, MemLikeItself DEF Stores, AllHolds
  <2>2. CASE Wanted.object \notin store
    <3>1. Heard /\ WriteObject(Wanted.object)  BY <2>2 DEF Stores
    <3>2. MemLike(mem, mem')
      BY <3>1 DEF Heard, AllHolds, MemHolds, RestoreHolds, MemLike
    <3>3. store' = store \cup {Wanted.object} /\ stored' = stored \cup {Wanted.object}
      BY <3>1 DEF WriteObject
    <3> QED  BY <3>2, <3>3 DEF AllHolds
  <2> QED  BY <2>1, <2>2
<1>3. Grows(bundles, said, stored, bundles, said, stored') /\ AskedFor \in DOMAIN bundles
  BY <1>2 DEF Grows, AllHolds, BundlesHold
<1>4. MemHolds(bundles, said, stored', mem')
  <2>1. MemHolds(bundles, said, stored, mem')  BY <1>2, MemLikeHolds DEF AllHolds
  <2> QED  BY <2>1, <1>3, MemStill
<1>5. FilesHold(bundles, said, stored', jobs_file', expanded_file', record_file', archive_file')
  BY <1>1, <1>3, FilesStill DEF AllHolds
<1>6. work.want # <<>> /\ Sequential(work.want) /\ DOMAIN work = WorkFields
  BY DEF Stores, Storing, AllHolds, WorkHolds, WalkHolds
<1>7. work'.want = Tail(work.want) /\ WorkLike(work, work')
  <2>1. work' = [work EXCEPT !.want = Tail(@), !.waits = FALSE]  BY DEF Stores
  <2> QED  BY <2>1, <1>6 DEF WorkLike, WorkFields
<1>8. Wanting(work) \subseteq stored' \cup Wanting(work')
  BY <1>2, <1>6, <1>7, LessWanted DEF Wanting, Wanted
<1>9. WorkHolds(bundles, said, stored', work', record_file'.expanded)
  <2>1. WorkHolds(bundles, said, stored, work, record_file'.expanded)  BY <1>1 DEF AllHolds
  <2>2. /\ Sequential(work'.want)
        /\ \A i \in DOMAIN work'.want : \E j \in DOMAIN work.want : work'.want[i] = work.want[j]
    BY <1>6, <1>7, LessWanted
  <2> QED  BY <1>2, <1>3, <1>7, <1>8, <2>1, <2>2, WorkStill
<1>10. directory' \in Directories
  BY <1>1 DEF AllHolds
<1> QED  BY <1>1, <1>2, <1>4, <1>5, <1>9, <1>10, HoldsNext DEF StepHolds

(* A step after which work goes on as it was. *)
LEMMA LikeNext ==
  ASSUME AllHolds, UNCHANGED <<bundles, stored, record_file>>, MemLike(mem, mem'), WorkLike(work, work'),
         work'.want = work.want,
         FilesHold(bundles, said, stored, jobs_file', expanded_file', record_file', archive_file'),
         directory' \in Directories, store' \subseteq stored
  PROVE  AllHolds'
<1>1. MemHolds(bundles, said, stored, mem')
  BY MemLikeHolds DEF AllHolds
<1>2. WorkHolds(bundles, said, stored, work, record_file'.expanded) /\ AskedFor \in DOMAIN bundles
  BY DEF AllHolds, BundlesHold
<1>3. Sequential(work'.want) /\ Wanting(work') = Wanting(work)
  BY DEF AllHolds, WorkHolds, WalkHolds, Wanting
<1>4. WorkHolds(bundles, said, stored, work', record_file'.expanded)
  BY <1>2, <1>3, WorkStill
<1> QED  BY <1>1, <1>4, HoldsNext DEF StepHolds

LEMMA WaitsForRoomHolds ==
  ASSUME AllHolds, WaitsForRoom
  PROVE  AllHolds'
<1>1. UNCHANGED <<bundles, jobs_file, expanded_file, record_file, archive_file, directory, store, stored>>
  BY DEF WaitsForRoom, files, backupHistory
<1>2. FilesHold(bundles, said, stored, jobs_file', expanded_file', record_file', archive_file')
      /\ directory' \in Directories /\ store' \subseteq stored
  BY <1>1 DEF AllHolds
<1>3. MemLike(mem, mem')
  BY DEF WaitsForRoom, Heard, AllHolds, MemHolds, RestoreHolds, MemLike
<1>4. WorkLike(work, work') /\ work'.want = work.want
  <2>1. work' = [work EXCEPT !.waits = TRUE, !.stall = IF work.waits THEN @ ELSE Stall]  BY DEF WaitsForRoom
  <2>2. DOMAIN work = WorkFields  BY DEF AllHolds, WorkHolds, WalkHolds
  <2> QED  BY <2>1, <2>2 DEF WorkLike, WorkFields
<1> QED  BY <1>1, <1>2, <1>3, <1>4, LikeNext

LEMMA FailedLike ==
  ASSUME AllHolds
  PROVE  MemLike(mem, WorkFailed) /\ WorkApart(Resting)
BY RestingApart DEF AllHolds, MemHolds, RestoreHolds, MemLike, WorkFailed, LookEnds

(* An entry whose attribute cannot be stored is left out; the bundle's own  *)
(* object is no attribute.                                                   *)
LEMMA StallsOutHolds ==
  ASSUME AllHolds, StallsOut
  PROVE  AllHolds'
<1>1. UNCHANGED <<bundles, jobs_file, expanded_file, record_file, archive_file, directory, store, stored>>
  BY DEF StallsOut, files, backupHistory
<1>2. FilesHold(bundles, said, stored, jobs_file', expanded_file', record_file', archive_file')
      /\ directory' \in Directories /\ store' \subseteq stored
  BY <1>1 DEF AllHolds
<1>3. CASE ~Wanted.attribute
  <2>1. mem' = WorkFailed /\ work' = Resting  BY <1>3 DEF StallsOut, Done
  <2> QED  BY <1>1, <1>2, <2>1, FailedLike, ApartNext
<1>4. CASE Wanted.attribute
  <2>1. work' = [work EXCEPT !.want = <<>>, !.waits = FALSE, !.entry = Absent] /\ mem' = mem
    BY <1>4 DEF StallsOut
  <2>2. /\ WorkHolds(bundles, said, stored, work, record_file.expanded) /\ DOMAIN work = WorkFields
        /\ work.want # <<>> /\ Sequential(work.want)
    BY DEF AllHolds, WorkHolds, WalkHolds, StallsOut, Storing
  <2>3. /\ DOMAIN work' = WorkFields /\ work'.want = <<>> /\ work'.entry = Absent
        /\ work'.doing = work.doing /\ work'.at = work.at /\ work'.todo = work.todo /\ work'.entries = work.entries
        /\ work'.earlier = work.earlier /\ work'.protection = work.protection /\ work'.bundle = work.bundle
        /\ work'.result = work.result /\ work'.missing = work.missing
    BY <2>1, <2>2 DEF WorkFields
  <2>4. Sequential(work'.want)
    <3>1. <<>> \in Seq({})  OBVIOUS
    <3> QED  BY <3>1, <2>3 DEF Sequential
  <2>5. WalkHolds(bundles, said, stored, work', record_file.expanded)
    BY <2>2, <2>3, <2>4 DEF WorkHolds, WalkHolds
  <2>6. ASSUME work.doing \in Kinds PROVE MakingHolds(bundles, said, stored, work')
    <3>1. MakingHolds(bundles, said, stored, work)  BY <2>2, <2>6 DEF WorkHolds
    <3>2. work.at # "bundle"
      <4>1. PICK T : work.want \in Seq(T)  BY <2>2 DEF Sequential
      <4>2. 1 \in DOMAIN work.want /\ Wanted = work.want[1]  BY <2>2, <4>1 DEF Wanted
      <4> QED  BY <1>4, <3>1, <4>2 DEF MakingHolds
    <3>3. Parts(work'.entry) = {}  BY <2>3 DEF Parts
    <3> QED  BY <2>3, <3>1, <3>2, <3>3 DEF MakingHolds
  <2>7. WorkHolds(bundles, said, stored, work', record_file'.expanded)
    BY <1>1, <2>2, <2>3, <2>5, <2>6 DEF WorkHolds
  <2>8. MemHolds(bundles, said, stored, mem')  BY <2>1 DEF AllHolds
  <2> QED  BY <1>1, <1>2, <2>7, <2>8, HoldsNext DEF StepHolds
<1> QED  BY <1>3, <1>4

-----------------------------------------------------------------------------
(* Walking the directory. *)

LEMMA SetToSeqIs ==
  ASSUME NEW S, IsFiniteSet(S)
  PROVE  SetToSeq(S) \in Seq(S) /\ \A x \in S : \E i \in DOMAIN SetToSeq(S) : SetToSeq(S)[i] = x
<1>1. PICK n \in Nat : n = Cardinality(S) /\ ExistsBijection(1..n, S)
  BY FS_CardinalityType
<1>2. PICK b \in [1..n -> S] : IsInjective(b)
  BY <1>1 DEF ExistsBijection, Bijection, Injection, IsInjective
<1>3. PICK f \in [1..n -> S] : f = SetToSeq(S) /\ IsInjective(f)
  BY <1>1, <1>2 DEF SetToSeq
<1>4. f \in Injection(1..n, S)
  BY <1>3 DEF Injection, IsInjective
<1>5. IsFiniteSet(1..n) /\ Cardinality(1..n) = n
  BY FS_Interval
<1>6. f \in Surjection(1..n, S)
  BY <1>1, <1>4, <1>5, FS_Injection
<1>7. f \in Seq(S) /\ DOMAIN f = 1..n
  BY <1>3
<1>8. \A x \in S : \E i \in 1..n : f[i] = x
  BY <1>6 DEF Surjection
<1> QED  BY <1>3, <1>7, <1>8

LEMMA StoringFinite ==
  ASSUME NEW S, IsFiniteSet(S), NEW attribute
  PROVE  IsFiniteSet({ToStore(o, attribute) : o \in S})
<1> DEFINE T == {ToStore(o, attribute) : o \in S}
           f == [o \in S |-> ToStore(o, attribute)]
<1>1. f \in Surjection(S, T)
  BY DEF Surjection
<1> HIDE DEF T, f
<1>2. IsFiniteSet(T)
  BY <1>1, FS_Surjection
<1> QED  BY <1>2 DEF T

(* What is to be stored of some objects, in some order. *)
Stowing(S, attribute) == [object : S, attribute : {attribute}]
Stows(s, S, attribute) ==
  /\ s \in Seq(Stowing(S, attribute))
  /\ \A o \in S : \E i \in DOMAIN s : s[i].object = o

LEMMA StoringIs ==
  ASSUME NEW S, IsFiniteSet(S), NEW attribute
  PROVE  Stows(SetToSeq({ToStore(o, attribute) : o \in S}), S, attribute)
<1> DEFINE T == {ToStore(o, attribute) : o \in S}
           s == SetToSeq(T)
<1>1. IsFiniteSet(T)
  BY StoringFinite
<1>2. s \in Seq(T) /\ \A x \in T : \E i \in DOMAIN s : s[i] = x
  <2> HIDE DEF T
  <2> QED  BY <1>1, SetToSeqIs
<1>3. T \subseteq Stowing(S, attribute)
  BY DEF ToStore, Stowing
<1>4. \A o \in S : ToStore(o, attribute) \in T /\ ToStore(o, attribute).object = o
  BY DEF ToStore
<1> HIDE DEF s, T
<1>5. s \in Seq(Stowing(S, attribute))
  BY <1>2, <1>3
<1>6. \A o \in S : \E i \in DOMAIN s : s[i].object = o
  BY <1>2, <1>4
<1> QED  BY <1>5, <1>6 DEF s, T, Stows

(* What a walk wants stored of an entry is what bringing it back takes, but *)
(* for what the bundle before has of it.                                     *)
LEMMA WantedOfIs ==
  ASSUME NEW entry \in Entries \cup {Absent}, NEW earlier, NEW st, Parts(earlier) \subseteq st
  PROVE  LET want == WantedOf(entry, earlier)
         IN Sequential(want) /\ Parts(entry) \subseteq st \cup {want[i].object : i \in DOMAIN want}
<1> DEFINE want == WantedOf(entry, earlier)
           attributes == SetToSeq({ToStore(o, TRUE) : o \in Attributes(entry)})
           contents == SetToSeq({ToStore(o, FALSE) : o \in Contents(entry)})
<1>1. CASE entry = Absent
  <2>1. want = <<>>  BY <1>1 DEF WantedOf
  <2>2. <<>> \in Seq({}) /\ Parts(entry) = {}  BY <1>1 DEF Parts
  <2> QED  BY <2>1, <2>2 DEF Sequential
<1>2. CASE entry # Absent
  <2>1. IsFiniteSet(Contents(entry)) /\ IsFiniteSet(Attributes(entry))
    BY <1>2, LayersAssumption DEF LayersAssumption
  <2>2. Stows(attributes, Attributes(entry), TRUE)
    BY <2>1, StoringIs
  <2>3. Stows(contents, Contents(entry), FALSE)
    BY <2>1, StoringIs
  <2>4. want = attributes \o (IF KeepsParts(entry, earlier) THEN <<>> ELSE contents)
    BY <1>2 DEF WantedOf
  <2>5. KeepsParts(entry, earlier) => Contents(entry) \subseteq st
    BY DEF KeepsParts, Parts
  <2>6. Parts(entry) = Contents(entry) \cup Attributes(entry)
    BY <1>2 DEF Parts
  <2> DEFINE rest == IF KeepsParts(entry, earlier) THEN <<>> ELSE contents
             T == Stowing(Attributes(entry), TRUE) \cup Stowing(Contents(entry), FALSE)
  <2>7. attributes \in Seq(T) /\ rest \in Seq(T)
    <3>1. attributes \in Seq(T) /\ contents \in Seq(T)
      <4>1. Stowing(Attributes(entry), TRUE) \subseteq T /\ Stowing(Contents(entry), FALSE) \subseteq T  OBVIOUS
      <4>2. /\ attributes \in Seq(Stowing(Attributes(entry), TRUE))
            /\ contents \in Seq(Stowing(Contents(entry), FALSE))
        BY <2>2, <2>3 DEF Stows
      <4> HIDE DEF attributes, contents, T
      <4> QED  BY <4>1, <4>2, Widened
    <3>2. <<>> \in Seq(T)  OBVIOUS
    <3> HIDE DEF T, contents, attributes
    <3> QED  BY <3>1, <3>2
  <2>8. Contents(entry) \subseteq st \cup {rest[i].object : i \in DOMAIN rest}
    BY <2>3, <2>5 DEF Stows
  <2>9. want = attributes \o rest
    BY <2>4
  <2> HIDE DEF want, attributes, contents, rest, T
  <2>10. want \in Seq(T)
    BY <2>7, <2>9, ConcatProperties
  <2>11. /\ \A i \in DOMAIN attributes : i \in DOMAIN want /\ want[i] = attributes[i]
         /\ \A i \in DOMAIN rest : Len(attributes) + i \in DOMAIN want /\ want[Len(attributes) + i] = rest[i]
    BY <2>7, <2>9
  <2>12. Attributes(entry) \subseteq {want[i].object : i \in DOMAIN want}
    BY <2>2, <2>11 DEF Stows
  <2>13. {rest[i].object : i \in DOMAIN rest} \subseteq {want[i].object : i \in DOMAIN want}
    BY <2>11
  <2> QED  BY <2>6, <2>8, <2>10, <2>12, <2>13 DEF Sequential, want
<1> QED  BY <1>1, <1>2

LEMMA EarlierSeen ==
  ASSUME AllHolds, work.doing \in Kinds
  PROVE  PartsOf(seen(work.earlier)) \subseteq stored
<1>1. \A S, protection : FaithfulIfAny(bundles, said, stored, S, protection) => PartsOf(seen(S)) \subseteq stored
  BY NothingKept DEF FaithfulIfAny, Faithful
<1> QED  BY <1>1, NothingKept DEF AllHolds, WorkHolds, WalkHolds, FilesHold, Kinds

LEMMA WalkStepHolds ==
  ASSUME AllHolds, Walk
  PROVE  AllHolds'
<1>1. UNCHANGED <<bundles, jobs_file, expanded_file, record_file, archive_file, directory, store, stored, mem>>
  BY DEF Walk, files, backupHistory
<1>2. /\ work.doing \in Kinds /\ work.at = "walk" /\ work.todo # <<>>
      /\ DOMAIN work = WorkFields /\ work.todo \in Seq(Paths) /\ work.bundle = Unknown
  BY DEF Walk, Walking, Kinds, AllHolds, WorkHolds, WalkHolds, MakingHolds
<1> DEFINE path == Head(work.todo)
           want == WantedOf(directory[path], seen(work.earlier)[path])
<1>3. path \in Paths /\ directory[path] \in Entries \cup {Absent}
  <2>1. path \in Paths  BY <1>2
  <2> QED  BY <2>1 DEF AllHolds, Directories
<1>4. Parts(seen(work.earlier)[path]) \subseteq stored
  BY <1>2, <1>3, EarlierSeen DEF PartsOf
<1>5. Sequential(want) /\ Parts(directory[path]) \subseteq stored \cup {want[i].object : i \in DOMAIN want}
  BY <1>3, <1>4, WantedOfIs
<1>6. work' = [work EXCEPT !.at = "parts", !.entry = directory[path], !.want = want]
  BY DEF Walk
<1> HIDE DEF path, want
<1>7. /\ DOMAIN work' = WorkFields /\ work'.at = "parts" /\ work'.entry = directory[path] /\ work'.want = want
      /\ work'.doing = work.doing /\ work'.todo = work.todo /\ work'.entries = work.entries
      /\ work'.earlier = work.earlier /\ work'.protection = work.protection /\ work'.bundle = work.bundle
  BY <1>2, <1>6 DEF WorkFields
<1>8. WalkHolds(bundles, said, stored, work', record_file'.expanded)
  BY <1>1, <1>5, <1>7 DEF AllHolds, WorkHolds, WalkHolds
<1>9. MakingHolds(bundles, said, stored, work')
  BY <1>2, <1>3, <1>5, <1>7 DEF MakingHolds, Wanting
<1>10. WorkHolds(bundles, said, stored, work', record_file'.expanded)
  BY <1>2, <1>7, <1>8, <1>9 DEF WorkHolds, Kinds
<1>11. StepHolds(stored')
  BY <1>1, <1>10 DEF StepHolds, AllHolds
<1> QED  BY <1>1, <1>11, HoldsNext

LEMMA WalkedHolds ==
  ASSUME AllHolds, Walked
  PROVE  AllHolds'
<1>1. UNCHANGED <<bundles, jobs_file, expanded_file, record_file, archive_file, directory, store, stored, mem>>
  BY DEF Walked, files, backupHistory
<1>2. /\ work.doing \in Kinds /\ work.at = "parts" /\ work.want = <<>>
      /\ DOMAIN work = WorkFields /\ work.bundle = Unknown
      /\ work.todo \in Seq(Paths) /\ work.todo # <<>>
      /\ work.entry \in Entries \cup {Absent} /\ Parts(work.entry) \subseteq stored \cup Wanting(work)
      /\ work.entries \in Directories /\ PartsOf(work.entries) \subseteq stored
  BY DEF Walked, Walking, Kinds, AllHolds, WorkHolds, WalkHolds, MakingHolds
<1>3. Parts(work.entry) \subseteq stored
  BY <1>2 DEF Wanting
<1> DEFINE path == Head(work.todo)
           entries == [work.entries EXCEPT ![path] = work.entry]
<1>4. path \in Paths /\ Tail(work.todo) \in Seq(Paths)
  BY <1>2
<1>5. work' = [work EXCEPT !.at = "walk", !.todo = Tail(@), !.entries = entries]
  BY DEF Walked
<1>6. entries \in Directories /\ PartsOf(entries) \subseteq stored
  BY <1>2, <1>3, <1>4 DEF Directories, PartsOf
<1> HIDE DEF path, entries
<1>7. /\ DOMAIN work' = WorkFields /\ work'.at = "walk" /\ work'.todo = Tail(work.todo) /\ work'.entries = entries
      /\ work'.doing = work.doing /\ work'.want = work.want
      /\ work'.earlier = work.earlier /\ work'.protection = work.protection /\ work'.bundle = work.bundle
  BY <1>2, <1>5 DEF WorkFields
<1>8. WalkHolds(bundles, said, stored, work', record_file'.expanded)
  BY <1>1, <1>4, <1>6, <1>7 DEF AllHolds, WorkHolds, WalkHolds
<1>9. MakingHolds(bundles, said, stored, work')
  BY <1>2, <1>7 DEF MakingHolds
<1>10. WorkHolds(bundles, said, stored, work', record_file'.expanded)
  BY <1>2, <1>7, <1>8, <1>9 DEF WorkHolds, Kinds
<1>11. StepHolds(stored')
  BY <1>1, <1>10 DEF StepHolds, AllHolds
<1> QED  BY <1>1, <1>11, HoldsNext

LEMMA CannotWalkHolds ==
  ASSUME AllHolds, CannotWalk
  PROVE  AllHolds'
<1>1. UNCHANGED <<bundles, jobs_file, expanded_file, record_file, archive_file, directory, store, stored>>
  BY DEF CannotWalk, files, backupHistory
<1>2. FilesHold(bundles, said, stored, jobs_file', expanded_file', record_file', archive_file')
      /\ directory' \in Directories /\ store' \subseteq stored
  BY <1>1 DEF AllHolds
<1>3. mem' = WorkFailed /\ work' = Resting
  BY DEF CannotWalk, Done
<1> QED  BY <1>1, <1>2, <1>3, FailedLike, ApartNext

-----------------------------------------------------------------------------
(* Making bundles, and recording them. *)

LEMMA BundlesStill ==
  ASSUME NEW B, NEW f, NEW st, NEW C, NEW g, NEW su, BundlesHold(B, f), Grows(B, f, st, C, g, su),
         Sequential(C), Numbered(C), AllProtected(C)
  PROVE  BundlesHold(C, g)
<1>1. AskedFor \in DOMAIN C /\ C[AskedFor] = B[AskedFor] /\ g[AskedFor] = f[AskedFor]
  BY DEF BundlesHold, Grows
<1>2. Beneath(C, AskedFor) = Beneath(B, AskedFor) /\ Resolves(g, AskedFor) = Resolves(f, AskedFor)
  BY <1>1 DEF Beneath, Resolves
<1> QED  BY <1>1, <1>2 DEF BundlesHold

(* A bundle is named, new or as it was made before. *)
LEMMA NamedIs ==
  ASSUME Sequential(bundles), Numbered(bundles), AllProtected(bundles), NEW bundle, NEW protection,
         MayExtend(bundles, stored, bundle, protection), Naming(bundle)
  PROVE  /\ Sequential(bundles') /\ Numbered(bundles') /\ AllProtected(bundles')
         /\ NameOf(bundle) \in DOMAIN bundles' /\ bundles'[NameOf(bundle)] = bundle
         /\ \A b \in DOMAIN bundles : b \in DOMAIN bundles' /\ bundles'[b] = bundles[b]
<1>1. CASE \E b \in Made : bundles[b] = bundle
  <2>1. bundles' = bundles  BY <1>1 DEF Naming
  <2>2. NameOf(bundle) = CHOOSE b \in Made : bundles[b] = bundle  BY <1>1 DEF NameOf
  <2>3. NameOf(bundle) \in Made /\ bundles[NameOf(bundle)] = bundle
    BY <1>1, <2>2
  <2> QED  BY <2>1, <2>3 DEF Made
<1>2. CASE ~ \E b \in Made : bundles[b] = bundle
  <2>1. bundles' = Append(bundles, bundle) /\ NameOf(bundle) = Len(bundles) + 1
    BY <1>2 DEF Naming, NameOf
  <2>2. bundle.extensions \in Seq(DOMAIN bundles)
        /\ \A i \in DOMAIN bundle.extensions : bundles[bundle.extensions[i]].protection = bundle.protection
    BY DEF MayExtend
  <2> QED  BY <2>1, <2>2, AddedNumbered
<1> QED  BY <1>1, <1>2

LEMMA MadeHolds ==
  ASSUME AllHolds, UNCHANGED <<jobs_file, expanded_file, record_file, archive_file, directory, store, stored>>,
         work.doing \in Kinds,
         NEW superseded, NEW supersedes, FaithfulIfAny(bundles, said, stored, superseded, work.protection),
         MakesBundle(superseded, supersedes)
  PROVE  AllHolds'
<1> DEFINE bundle == NewVersion(superseded, work.entries, supersedes, work.protection)
           name == NameOf(bundle)
           result == Expanded(name, work.entries, bundle.extensions, Len(bundle.extensions))
           want == <<ToStore(name, FALSE)>>
<1>1. Sequential(bundles) /\ Numbered(bundles) /\ AllProtected(bundles) /\ BundlesHold(bundles, said)
  BY DEF AllHolds, BundlesHold
<1>2. MayExtend(bundles, stored, bundle, work.protection)
  BY <1>1, NewVersionExtends
<1>3. /\ Naming(bundle) /\ mem' = mem
      /\ work' = [work EXCEPT !.at = "bundle", !.bundle = name, !.want = want, !.result = result]
  BY DEF MakesBundle
<1>4. work.entries \in Directories /\ PartsOf(work.entries) \subseteq stored /\ DOMAIN work = WorkFields
  BY DEF AllHolds, WorkHolds, WalkHolds
<1>5. DOMAIN want = {1} /\ want[1].object = name /\ want[1].attribute = FALSE /\ Sequential(want)
  <2>1. DOMAIN want = {1} /\ want[1] = ToStore(name, FALSE)  OBVIOUS
  <2>2. ToStore(name, FALSE).object = name /\ ToStore(name, FALSE).attribute = FALSE  BY DEF ToStore
  <2>3. want \in Seq({ToStore(name, FALSE)})  OBVIOUS
  <2> HIDE DEF want
  <2> QED  BY <2>1, <2>2, <2>3 DEF Sequential
<1>6. bundle = NewVersion(superseded, work.entries, supersedes, work.protection)
  OBVIOUS
<1>7. result = Expanded(name, work.entries, bundle.extensions, Len(bundle.extensions)) /\ name = NameOf(bundle)
  OBVIOUS
<1> HIDE DEF bundle, name, result, want
<1>8. /\ Sequential(bundles') /\ Numbered(bundles') /\ AllProtected(bundles')
      /\ name \in DOMAIN bundles' /\ bundles'[name] = bundle
      /\ \A b \in DOMAIN bundles : b \in DOMAIN bundles' /\ bundles'[b] = bundles[b]
  BY <1>1, <1>2, <1>3, <1>7, NamedIs
<1>9. SaidOf(bundles, said) /\ SaidOf(bundles', said')
  BY <1>1, <1>8, SaidIs, SaidIsNext
<1>10. Grows(bundles, said, stored, bundles', said', stored) /\ AskedFor \in DOMAIN bundles
  BY <1>1, <1>8, <1>9, SaidGrows DEF Grows, BundlesHold
<1>11. FaithfulIfAny(bundles', said', stored, superseded, work.protection)
  BY <1>10, FaithfulStill DEF FaithfulIfAny
<1>12. /\ Brings(bundles', said', stored \cup {name}, name, work.entries, work.protection)
       /\ Faithful(bundles', said', stored \cup {name}, result, work.protection)
  BY <1>4, <1>6, <1>7, <1>8, <1>9, <1>11, NewVersionBrings
<1>13. /\ DOMAIN work' = WorkFields /\ work'.at = "bundle" /\ work'.bundle = name /\ work'.want = want
       /\ work'.result = result /\ work'.doing = work.doing /\ work'.todo = work.todo /\ work'.entries = work.entries
       /\ work'.earlier = work.earlier /\ work'.protection = work.protection
  BY <1>3, <1>4 DEF WorkFields
<1>14. WalkHolds(bundles', said', stored', work', record_file'.expanded)
  <2>1. FaithfulIfAny(bundles, said, stored, work.earlier, "secret")
        => FaithfulIfAny(bundles', said', stored, work.earlier, "secret")
    BY <1>10, FaithfulStill DEF FaithfulIfAny
  <2> QED  BY <1>5, <1>13, <2>1 DEF AllHolds, WorkHolds, WalkHolds
<1>15. MakingHolds(bundles', said', stored', work')
  <2>1. Wanting(work') = {name}  BY <1>5, <1>13 DEF Wanting
  <2> QED  BY <1>5, <1>12, <1>13, <2>1 DEF MakingHolds
<1>16. WorkHolds(bundles', said', stored', work', record_file'.expanded)
  BY <1>13, <1>14, <1>15 DEF WorkHolds, Kinds
<1>17. FilesHold(bundles', said', stored', jobs_file', expanded_file', record_file', archive_file')
  BY <1>10, FilesStill DEF AllHolds
<1>18. MemHolds(bundles', said', stored', mem')
  BY <1>3, <1>10, MemStill DEF AllHolds
<1>19. BundlesHold(bundles', said')
  BY <1>1, <1>8, <1>10, BundlesStill
<1> QED  BY <1>16, <1>17, <1>18, <1>19 DEF AllHolds

(* The work moves on, with a result that is whole. *)
LEMMA ResultNext ==
  ASSUME AllHolds, UNCHANGED <<bundles, stored, record_file>>, work.doing \in Kinds,
         MemLike(mem, mem'),
         FilesHold(bundles, said, stored, jobs_file', expanded_file', record_file', archive_file'),
         directory' \in Directories, store' \subseteq stored,
         NEW at \in {"expanded", "latest", "record"}, NEW result, work' = [work EXCEPT !.at = at, !.result = result],
         work.bundle = Unknown \/ Brings(bundles, said, stored, work.bundle, work.entries, work.protection),
         Faithful(bundles, said, stored, result, work.protection)
  PROVE  AllHolds'
<1>1. DOMAIN work = WorkFields
  BY DEF AllHolds, WorkHolds, WalkHolds
<1>2. /\ DOMAIN work' = WorkFields /\ work'.at = at /\ work'.result = result
      /\ work'.doing = work.doing /\ work'.want = work.want /\ work'.todo = work.todo /\ work'.entries = work.entries
      /\ work'.earlier = work.earlier /\ work'.protection = work.protection /\ work'.bundle = work.bundle
  BY <1>1 DEF WorkFields
<1>3. WalkHolds(bundles, said, stored, work', record_file'.expanded)
  BY <1>2 DEF AllHolds, WorkHolds, WalkHolds
<1>4. MakingHolds(bundles, said, stored, work')
  BY <1>2 DEF MakingHolds
<1>5. WorkHolds(bundles, said, stored, work', record_file'.expanded)
  BY <1>2, <1>3, <1>4 DEF WorkHolds, Kinds
<1>6. MemHolds(bundles, said, stored, mem')
  BY MemLikeHolds DEF AllHolds
<1> QED  BY <1>5, <1>6, HoldsNext DEF StepHolds

LEMMA BundlesStepHolds ==
  ASSUME AllHolds, Bundles
  PROVE  AllHolds'
<1>1. UNCHANGED <<jobs_file, expanded_file, record_file, archive_file, directory, store, stored>>
  BY DEF Bundles, files, backupHistory
<1>2. work.doing \in Kinds /\ work.at = "walk" /\ work.bundle = Unknown
  BY DEF Bundles, Walking, Kinds, AllHolds, WorkHolds, MakingHolds
<1>3. WalkHolds(bundles, said, stored, work, record_file.expanded) /\ work.entries \in Directories
      /\ PartsOf(work.entries) \subseteq stored
  BY DEF AllHolds, WorkHolds, WalkHolds
<1>4. FilesHold(bundles, said, stored, jobs_file', expanded_file', record_file', archive_file')
      /\ directory' \in Directories /\ store' \subseteq stored
  BY <1>1 DEF AllHolds
<1>5. CASE work.doing = "job"
  <2> DEFINE latest == mem.job.latest
             kept == IF latest = NoLatest THEN NotExpanded ELSE Kept(work.earlier, latest, work.entries, work.publish)
  <2>1. JobBundles  BY <1>5 DEF Bundles
  <2>2. work.protection = "secret" /\ FaithfulIfAny(bundles, said, stored, work.earlier, "secret")
    BY <1>3, <1>5 DEF WalkHolds
  <2>3. CASE kept = NotExpanded
    <3>1. MakesBundle(work.earlier, latest.bundle)  BY <2>1, <2>3 DEF JobBundles
    <3> QED  BY <1>1, <1>2, <2>2, <3>1, MadeHolds
  <2>4. CASE kept # NotExpanded
    <3>1. work' = [work EXCEPT !.at = "expanded", !.result = kept] /\ UNCHANGED <<bundles, mem>>
      BY <2>1, <2>4 DEF JobBundles
    <3>2. latest # NoLatest /\ LatestBrings(bundles, said, stored, latest)
      BY <2>4 DEF AllHolds, MemHolds
    <3>3. Faithful(bundles, said, stored, kept, "secret")
      <4>1. kept = Kept(work.earlier, latest, work.entries, work.publish)  BY <3>2
      <4>2. Kept(work.earlier, latest, work.entries, work.publish) # NotExpanded  BY <2>4, <4>1
      <4>3. Faithful(bundles, said, stored, Kept(work.earlier, latest, work.entries, work.publish), "secret")
        BY <1>3, <2>2, <3>2, <4>2, KeptFaithful
      <4> QED  BY <4>1, <4>3
    <3> HIDE DEF kept
    <3> QED  BY <1>1, <1>2, <1>4, <2>2, <3>1, <3>3, MemLikeItself, ResultNext
  <2> QED  BY <2>3, <2>4
<1>6. CASE work.doing = "build"
  <2>1. BuildBundles  BY <1>6 DEF Bundles
  <2>2. CASE Alike /\ work.earlier.entries = work.entries
    <3>1. mem' = mem /\ work' = Resting /\ bundles' = bundles  BY <2>1, <2>2 DEF BuildBundles, Done
    <3> QED  BY <1>1, <1>4, <3>1, MemLikeItself, RestingApart, ApartNext
  <2>3. CASE ~(Alike /\ work.earlier.entries = work.entries)
    <3>1. MakesBundle(IF Alike THEN work.earlier ELSE NotExpanded, record_file.expanded.bundle)
      BY <2>1, <2>3 DEF BuildBundles
    <3>2. Alike => FaithfulIfAny(bundles, said, stored, work.earlier, work.protection)
      BY <1>3, <1>6 DEF Alike, WalkHolds, AllHolds, FilesHold
    <3>3. FaithfulIfAny(bundles, said, stored, IF Alike THEN work.earlier ELSE NotExpanded, work.protection)
      BY <3>2, NoneRecorded
    <3> QED  BY <1>1, <1>2, <3>1, <3>3, MadeHolds
  <2> QED  BY <2>2, <2>3
<1>7. CASE work.doing = "import"
  <2>1. MakesBundle(NotExpanded, Unknown)  BY <1>7 DEF Bundles
  <2> QED  BY <1>1, <1>2, <2>1, NoneRecorded, MadeHolds
<1> QED  BY <1>2, <1>5, <1>6, <1>7 DEF Kinds

LEMMA BundleStoredHolds ==
  ASSUME AllHolds, BundleStored
  PROVE  AllHolds'
<1>1. UNCHANGED <<bundles, jobs_file, expanded_file, record_file, archive_file, directory, store, stored>>
  BY DEF BundleStored, files, backupHistory
<1>2. FilesHold(bundles, said, stored, jobs_file', expanded_file', record_file', archive_file')
      /\ directory' \in Directories /\ store' \subseteq stored
  BY <1>1 DEF AllHolds
<1>3. work.doing \in Kinds /\ work.at = "bundle" /\ work.want = <<>>
  BY DEF BundleStored, Walking, Kinds
<1>4. CASE work.doing = "import"
  <2>1. mem' = mem /\ work' = Resting  BY <1>4 DEF BundleStored, Done
  <2> QED  BY <1>1, <1>2, <2>1, MemLikeItself, RestingApart, ApartNext
<1>5. CASE work.doing # "import"
  <2>1. PICK at \in {"expanded", "record"} : work' = [work EXCEPT !.at = at] /\ mem' = mem
    BY <1>5 DEF BundleStored
  <2>2. DOMAIN work = WorkFields /\ MakingHolds(bundles, said, stored, work)
    BY <1>3 DEF AllHolds, WorkHolds, WalkHolds
  <2>3. /\ Brings(bundles, said, stored, work.bundle, work.entries, work.protection)
        /\ Faithful(bundles, said, stored, work.result, work.protection)
    <3>1. stored \cup Wanting(work) = stored  BY <1>3 DEF Wanting
    <3> QED  BY <1>3, <2>2, <3>1 DEF MakingHolds
  <2>4. work' = [work EXCEPT !.at = at, !.result = work.result]
    BY <2>1, <2>2 DEF WorkFields
  <2> QED  BY <1>1, <1>2, <1>3, <2>1, <2>3, <2>4, MemLikeItself, ResultNext
<1> QED  BY <1>4, <1>5

LEMMA ExpandedKept ==
  ASSUME AllHolds, KeepsExpanded
  PROVE  AllHolds'
<1>1. UNCHANGED <<bundles, jobs_file, record_file, archive_file, directory, store, stored>>
  BY DEF KeepsExpanded, backupHistory
<1>2. work.doing \in Kinds /\ work.doing = "job" /\ work.at = "expanded" /\ DOMAIN work = WorkFields
      /\ work.protection = "secret"
  BY DEF KeepsExpanded, At, Kinds, AllHolds, WorkHolds, WalkHolds
<1>3. /\ work.bundle = Unknown \/ Brings(bundles, said, stored, work.bundle, work.entries, work.protection)
      /\ Faithful(bundles, said, stored, work.result, work.protection)
  BY <1>2 DEF AllHolds, WorkHolds, MakingHolds
<1>4. expanded_file' \in {expanded_file, work.result}
  BY DEF KeepsExpanded
<1>5. FilesHold(bundles, said, stored, jobs_file', expanded_file', record_file', archive_file')
  BY <1>1, <1>2, <1>3, <1>4 DEF AllHolds, FilesHold, FaithfulIfAny
<1>6. directory' \in Directories /\ store' \subseteq stored
  BY <1>1 DEF AllHolds
<1>7. CASE mem' = WorkFailed /\ work' = Resting
  BY <1>1, <1>5, <1>6, <1>7, FailedLike, ApartNext
<1>8. CASE mem' = mem /\ work' = [work EXCEPT !.at = "latest"]
  <2>1. work' = [work EXCEPT !.at = "latest", !.result = work.result]
    BY <1>2, <1>8 DEF WorkFields
  <2> QED  BY <1>1, <1>2, <1>3, <1>5, <1>6, <1>8, <2>1, MemLikeItself, ResultNext
<1> QED  BY <1>7, <1>8 DEF KeepsExpanded, Done

LEMMA LatestKept ==
  ASSUME AllHolds, KeepsLatest
  PROVE  AllHolds'
<1>1. UNCHANGED <<bundles, expanded_file, record_file, archive_file, directory, store, stored>>
  BY DEF KeepsLatest, backupHistory
<1>2. work.doing \in Kinds /\ work.doing = "job" /\ work.at = "latest" /\ work.protection = "secret"
  BY DEF KeepsLatest, At, Kinds, AllHolds, WorkHolds, WalkHolds
<1>3. /\ work.bundle = Unknown \/ Brings(bundles, said, stored, work.bundle, work.entries, "secret")
      /\ work.result.layers \in Nat \cup {Unknown}
  BY <1>2 DEF AllHolds, WorkHolds, MakingHolds, Faithful
<1>4. LatestBrings(bundles, said, stored, Latest)
  BY <1>3 DEF Latest, LatestBrings, AllHolds, MemHolds
<1> DEFINE job == [mem.job EXCEPT !.latest = Latest]
<1>5. PICK ok \in BOOLEAN :
        /\ jobs_file' = IF ok THEN job ELSE jobs_file
        /\ mem' = IF ok THEN [LookEnds("waiting") EXCEPT !.job = job] ELSE WorkFailed
        /\ work' = Resting
  BY DEF KeepsLatest, Done
<1>6. "latest" \in DOMAIN job /\ job.latest = Latest
  BY DEF AllHolds, MemHolds
<1> HIDE DEF job
<1>7. FilesHold(bundles, said, stored, jobs_file', expanded_file', record_file', archive_file')
  BY <1>1, <1>4, <1>5, <1>6 DEF AllHolds, FilesHold
<1>8. directory' \in Directories /\ store' \subseteq stored
  BY <1>1 DEF AllHolds
<1>9. MemHolds(bundles, said, stored, mem')
  <2>1. CASE ok
    <3>1. "job" \in DOMAIN mem' /\ "restore" \in DOMAIN mem' /\ mem'.job = job /\ mem'.restore = mem.restore
      BY <1>5, <2>1 DEF LookEnds, AllHolds, MemHolds
    <3> QED  BY <1>4, <1>6, <3>1 DEF AllHolds, MemHolds
  <2>2. CASE ~ok
    <3>1. MemLike(mem, mem')  BY <1>5, <2>2, FailedLike
    <3> QED  BY <3>1, MemLikeHolds DEF AllHolds
  <2> QED  BY <2>1, <2>2
<1>10. WorkHolds(bundles, said, stored, work', record_file'.expanded)
  BY <1>5, RestingApart, ApartHolds
<1> QED  BY <1>1, <1>7, <1>8, <1>9, <1>10, HoldsNext DEF StepHolds

LEMMA BuildRecorded ==
  ASSUME AllHolds, RecordsBuild
  PROVE  AllHolds'
<1>1. UNCHANGED <<bundles, jobs_file, expanded_file, archive_file, directory, store, stored>>
  BY DEF RecordsBuild, backupHistory
<1>2. Faithful(bundles, said, stored, work.result, work.protection)
  BY DEF RecordsBuild, At, Kinds, AllHolds, WorkHolds, MakingHolds
<1>3. mem' = mem /\ work' = Resting
  BY DEF RecordsBuild, Done
<1>4. record_file' \in {record_file, [expanded |-> work.result, protection |-> work.protection]}
  BY DEF RecordsBuild
<1>5. FaithfulIfAny(bundles, said, stored, record_file'.expanded, record_file'.protection)
  BY <1>2, <1>4 DEF AllHolds, FilesHold, FaithfulIfAny
<1>6. FilesHold(bundles, said, stored, jobs_file', expanded_file', record_file', archive_file')
  BY <1>1, <1>5 DEF AllHolds, FilesHold
<1>7. directory' \in Directories /\ store' \subseteq stored
  BY <1>1 DEF AllHolds
<1> QED  BY <1>1, <1>3, <1>6, <1>7, MemLikeItself, RestingApart, ApartNext

-----------------------------------------------------------------------------
(* Restores, exports and archives. *)

LEMMA HeldStored ==
  ASSUME AllHolds
  PROVE  Held \subseteq stored
BY NeededIs DEF Held, AllHolds, FilesHold

LEMMA AskedForIs ==
  ASSUME AllHolds
  PROVE  /\ resolve_directory(AskedFor) = Source /\ Reached(AskedFor) = {AskedFor}
         /\ Needed(AskedFor) = Needs(bundles, said, AskedFor)
         /\ Needs(bundles, said, AskedFor) = {AskedFor} \cup PartsOf(Source)
         /\ Source \in Directories
<1>1. Beneath(bundles, AskedFor) = {} /\ Resolves(said, AskedFor) = Source
  BY DEF AllHolds, BundlesHold
<1>2. Needs(bundles, said, AskedFor) = {AskedFor} \cup PartsOf(Source)
  BY <1>1 DEF Needs
<1> QED  BY <1>1, <1>2, NeededIs, BackupAssumption DEF BackupAssumption

LEMMA ExportsHolds ==
  ASSUME AllHolds, Exports
  PROVE  AllHolds'
<1>1. UNCHANGED <<bundles, jobs_file, expanded_file, record_file, archive_file, directory, store, stored>>
  BY DEF Exports, files, backupHistory
<1>2. FilesHold(bundles, said, stored, jobs_file', expanded_file', record_file', archive_file')
      /\ directory' \in Directories /\ store' \subseteq stored
  BY <1>1 DEF AllHolds
<1>3. mem' = mem /\ work' = Resting
  BY DEF Exports, Done
<1> QED  BY <1>1, <1>2, <1>3, MemLikeItself, RestingApart, ApartNext

LEMMA RestoreFailedLike ==
  ASSUME AllHolds
  PROVE  MemLike(mem, RestoreFailed) /\ MemLike(mem, ArchiveFailed)
<1>1. MemLike(mem, RestoreFailed)
  BY DEF AllHolds, MemHolds, RestoreHolds, MemLike, RestoreFailed, fail
<1>2. MemLike(mem, ArchiveFailed)
  BY DEF AllHolds, MemHolds, RestoreHolds, MemLike, ArchiveFailed
<1> QED  BY <1>1, <1>2

(* What a restore settles. *)
LEMMA SettlesNext ==
  ASSUME AllHolds, UNCHANGED <<bundles, stored, record_file, jobs_file, expanded_file, archive_file>>,
         work.doing = "restore", directory' \in Directories, store' \subseteq stored,
         MemHolds(bundles, said, stored, mem'),
         NEW missing, work' = [work EXCEPT !.at = "settle", !.missing = missing],
         missing = {} => Needs(bundles, said, AskedFor) \subseteq stored
  PROVE  AllHolds'
<1>1. DOMAIN work = WorkFields
  BY DEF AllHolds, WorkHolds, WalkHolds
<1>2. /\ DOMAIN work' = WorkFields /\ work'.at = "settle" /\ work'.missing = missing
      /\ work'.doing = work.doing /\ work'.want = work.want /\ work'.todo = work.todo /\ work'.entries = work.entries
  BY <1>1 DEF WorkFields
<1>3. WalkHolds(bundles, said, stored, work', record_file'.expanded)
  BY <1>2 DEF AllHolds, WorkHolds, WalkHolds
<1>4. WorkHolds(bundles, said, stored, work', record_file'.expanded)
  BY <1>2, <1>3 DEF WorkHolds, Kinds
<1>5. FilesHold(bundles, said, stored, jobs_file', expanded_file', record_file', archive_file')
  BY DEF AllHolds
<1> QED  BY <1>4, <1>5, HoldsNext DEF StepHolds

(* What is placed was held, and so had been stored. *)
LEMMA RestorePlacesHolds ==
  ASSUME AllHolds, RestorePlaces
  PROVE  AllHolds'
<1>1. UNCHANGED <<bundles, jobs_file, expanded_file, record_file, archive_file, store, stored>>
  BY DEF RestorePlaces, files, backupHistory
<1>2. work.doing = "restore"
  BY DEF RestorePlaces, At
<1> DEFINE r == mem.restore
           unplaced == IF r.read THEN r.pending ELSE {p \in Paths : Source[p] # Absent}
           placed == {p \in unplaced : Parts(Source[p]) \subseteq Held}
<1>3. /\ resolve_directory(AskedFor) = Source /\ Reached(AskedFor) = {AskedFor}
      /\ Needs(bundles, said, AskedFor) = {AskedFor} \cup PartsOf(Source)
      /\ Source \in Directories /\ Held \subseteq stored
      /\ store' \subseteq stored /\ directory \in Directories
  BY <1>1, AskedForIs, HeldStored DEF AllHolds
<1>4. CASE Refused
  <2>1. mem' = RestoreFailed /\ work' = Resting /\ directory' = directory
    BY <1>4 DEF RestorePlaces, Done
  <2>2. FilesHold(bundles, said, stored, jobs_file', expanded_file', record_file', archive_file')
    BY <1>1 DEF AllHolds
  <2> QED  BY <1>1, <1>3, <2>1, <2>2, RestoreFailedLike, RestingApart, ApartNext
<1>5. CASE ~Refused /\ ~r.read /\ ~(AskedFor \in Held)
  <2>1. /\ work' = [work EXCEPT !.at = "settle", !.missing = {AskedFor} \ Held]
        /\ mem' = mem /\ directory' = directory
    BY <1>3, <1>5 DEF RestorePlaces
  <2>2. MemHolds(bundles, said, stored, mem')  BY <2>1 DEF AllHolds
  <2>3. {AskedFor} \ Held # {}  BY <1>5
  <2> QED  BY <1>1, <1>2, <1>3, <2>1, <2>2, <2>3, SettlesNext
<1>6. CASE ~Refused /\ (r.read \/ AskedFor \in Held)
  <2> DEFINE missing == (UNION {Parts(Source[p]) : p \in unplaced \ placed}) \ Held
  <2>1. /\ Writes(placed, Source)
        /\ mem' = [mem EXCEPT !.restore.read = TRUE, !.restore.started = TRUE, !.restore.pending = unplaced \ placed]
        /\ work' = [work EXCEPT !.at = "settle", !.missing = missing]
    BY <1>3, <1>6 DEF RestorePlaces
  <2>2. RestoreHolds(stored, mem.restore)
    BY DEF AllHolds, MemHolds
  <2>3. AskedFor \in stored
    BY <1>3, <1>6, <2>2 DEF RestoreHolds
  <2>4. \A p \in Paths : p \notin unplaced \ placed => Parts(Source[p]) \subseteq stored
    <3>1. \A p \in placed : Parts(Source[p]) \subseteq stored  BY <1>3
    <3>2. ASSUME NEW p \in Paths, p \notin unplaced PROVE Parts(Source[p]) \subseteq stored
      <4>1. CASE r.read  BY <3>2, <4>1, <2>2 DEF RestoreHolds
      <4>2. CASE ~r.read  BY <3>2, <4>2 DEF Parts
      <4> QED  BY <4>1, <4>2
    <3> QED  BY <3>1, <3>2
  <2>5. missing = {} => \A p \in unplaced \ placed : Parts(Source[p]) \subseteq stored
    <3> DEFINE rest == unplaced \ placed
               all == UNION {Parts(Source[p]) : p \in rest}
    <3>1. missing = all \ Held  OBVIOUS
    <3>2. \A p \in rest : Parts(Source[p]) \subseteq all  OBVIOUS
    <3> HIDE DEF rest, missing, all
    <3>3. missing = {} => all \subseteq Held  BY <3>1
    <3> QED  BY <1>3, <3>2, <3>3 DEF rest
  <2>6. missing = {} => Needs(bundles, said, AskedFor) \subseteq stored
    BY <1>3, <2>3, <2>4, <2>5 DEF PartsOf
  <2>7. directory' \in Directories
    BY <1>3, <2>1 DEF Writes, Directories
  <2> HIDE DEF unplaced, placed, missing
  <2>8. MemHolds(bundles, said, stored, mem')
    <3>1. /\ "job" \in DOMAIN mem' /\ "restore" \in DOMAIN mem' /\ mem'.job = mem.job
          /\ "read" \in DOMAIN mem'.restore /\ "pending" \in DOMAIN mem'.restore
          /\ mem'.restore.pending = unplaced \ placed
      BY <2>1, <2>2 DEF AllHolds, MemHolds, RestoreHolds
    <3>2. RestoreHolds(stored, mem'.restore)
      BY <2>3, <2>4, <3>1 DEF RestoreHolds
    <3> QED  BY <3>1, <3>2 DEF AllHolds, MemHolds
  <2> QED  BY <1>1, <1>2, <1>3, <2>1, <2>6, <2>7, <2>8, SettlesNext
<1> QED  BY <1>4, <1>5, <1>6

LEMMA RestoreCannotWriteHolds ==
  ASSUME AllHolds, RestoreCannotWrite
  PROVE  AllHolds'
<1>1. UNCHANGED <<bundles, jobs_file, expanded_file, record_file, archive_file, directory, store, stored>>
  BY DEF RestoreCannotWrite, files, backupHistory
<1>2. FilesHold(bundles, said, stored, jobs_file', expanded_file', record_file', archive_file')
      /\ directory' \in Directories /\ store' \subseteq stored
  BY <1>1 DEF AllHolds
<1>3. mem' = RestoreFailed /\ work' = Resting
  BY DEF RestoreCannotWrite, Done
<1> QED  BY <1>1, <1>2, <1>3, RestoreFailedLike, RestingApart, ApartNext

LEMMA WaitOnSame ==
  ASSUME NEW task, NEW missing
  PROVE  /\ DOMAIN WaitOn(task, missing) = DOMAIN task
         /\ \A field \in {"read", "pending"} : field \in DOMAIN task => WaitOn(task, missing)[field] = task[field]
BY DEF WaitOn, fail

LEMMA RestoreSettlesHolds ==
  ASSUME AllHolds, RestoreSettles
  PROVE  AllHolds'
<1>1. UNCHANGED <<bundles, jobs_file, expanded_file, archive_file, directory, store, stored>>
  BY DEF RestoreSettles, backupHistory
<1>2. work.doing = "restore" /\ work.at = "settle" /\ work' = Resting
  BY DEF RestoreSettles, At, Done
<1>3. "restore" \in DOMAIN mem /\ "job" \in DOMAIN mem /\ "latest" \in DOMAIN mem.job
      /\ "read" \in DOMAIN mem.restore /\ "pending" \in DOMAIN mem.restore
  BY DEF AllHolds, MemHolds, RestoreHolds
<1>4. directory' \in Directories /\ store' \subseteq stored
  BY <1>1 DEF AllHolds
<1>5. CASE work.missing = {}
  <2>1. PICK ok \in BOOLEAN :
          /\ record_file' = IF ok THEN [expanded |-> ExpandedFrom(AskedFor), protection |-> "plain"] ELSE record_file
          /\ mem' = IF ok THEN [mem EXCEPT !.restore.status = "done", !.restore.missing = {}] ELSE RestoreFailed
    BY <1>5 DEF RestoreSettles, Done
  <2>2. Needs(bundles, said, AskedFor) \subseteq stored
    BY <1>2, <1>5 DEF AllHolds, WorkHolds
  <2>3. Brings(bundles, said, stored, AskedFor, Source, "plain") /\ Numbered(bundles)
    BY <2>2 DEF Brings, AllHolds, BundlesHold
  <2>4. PICK layers \in Nat : ExpandedFrom(AskedFor) = ReadBack(AskedFor, layers)
    <3>1. bundles[AskedFor].extensions \in Seq(1..(AskedFor - 1))
      BY <2>3 DEF Numbered, ExtendEarlier, Brings
    <3>2. Len(bundles[AskedFor].extensions) \in Nat  BY <3>1
    <3> QED  BY <3>2 DEF ExpandedFrom
  <2>5. Faithful(bundles, said, stored, ExpandedFrom(AskedFor), "plain")
    BY <2>3, <2>4, ReadBackFaithful
  <2>6. FaithfulIfAny(bundles, said, stored, record_file'.expanded, record_file'.protection)
    BY <2>1, <2>5 DEF AllHolds, FilesHold, FaithfulIfAny
  <2>7. FilesHold(bundles, said, stored, jobs_file', expanded_file', record_file', archive_file')
    BY <1>1, <2>6 DEF AllHolds, FilesHold
  <2>8. MemLike(mem, mem')
    BY <1>3, <2>1, RestoreFailedLike DEF MemLike
  <2> QED  BY <1>1, <1>2, <1>4, <2>7, <2>8, RestingApart, ApartNext
<1>6. CASE work.missing # {}
  <2>1. mem' = [mem EXCEPT !.restore = [WaitOn(mem.restore, work.missing) EXCEPT !.gave_up = GivesUp(mem.restore, work.missing)]]
        /\ record_file' = record_file
    BY <1>6 DEF RestoreSettles, Done
  <2>2. FilesHold(bundles, said, stored, jobs_file', expanded_file', record_file', archive_file')
    BY <1>1, <2>1 DEF AllHolds
  <2> DEFINE waiting == WaitOn(mem.restore, work.missing)
  <2>3. /\ "read" \in DOMAIN waiting /\ "pending" \in DOMAIN waiting
        /\ waiting.read = mem.restore.read /\ waiting.pending = mem.restore.pending
    BY <1>3, WaitOnSame
  <2>4. mem' = [mem EXCEPT !.restore = [waiting EXCEPT !.gave_up = GivesUp(mem.restore, work.missing)]]
    BY <2>1
  <2> HIDE DEF waiting
  <2>5. MemLike(mem, mem')
    BY <1>3, <2>3, <2>4 DEF MemLike
  <2> QED  BY <1>1, <1>2, <1>4, <2>1, <2>2, <2>5, RestingApart, ApartNext
<1> QED  BY <1>5, <1>6

(* An archive is written once all it needs is held. *)
LEMMA ArchiveWaitsLike ==
  ASSUME AllHolds, NEW missing, ArchiveWaits(missing)
  PROVE  MemLike(mem, mem') /\ WorkApart(work')
<1>1. mem' = [mem EXCEPT !.archive = WaitOn(mem.archive, missing)] /\ work' = Resting
  BY DEF ArchiveWaits, Done
<1> QED  BY <1>1, RestingApart DEF AllHolds, MemHolds, RestoreHolds, MemLike

LEMMA ArchiveGoesOn ==
  ASSUME AllHolds, UNCHANGED <<bundles, stored, record_file>>, work.doing = "archive", mem' = mem,
         FilesHold(bundles, said, stored, jobs_file', expanded_file', record_file', archive_file'),
         directory' \in Directories, store' \subseteq stored,
         NEW at, work' = [work EXCEPT !.at = at], Needs(bundles, said, AskedFor) \subseteq stored
  PROVE  AllHolds'
<1>1. DOMAIN work = WorkFields
  BY DEF AllHolds, WorkHolds, WalkHolds
<1>2. /\ DOMAIN work' = WorkFields /\ work'.doing = work.doing /\ work'.want = work.want
      /\ work'.todo = work.todo /\ work'.entries = work.entries
  BY <1>1 DEF WorkFields
<1>3. WalkHolds(bundles, said, stored, work', record_file'.expanded)
  BY <1>2 DEF AllHolds, WorkHolds, WalkHolds
<1>4. WorkHolds(bundles, said, stored, work', record_file'.expanded)
  BY <1>2, <1>3 DEF WorkHolds, Kinds
<1>5. MemHolds(bundles, said, stored, mem')
  BY DEF AllHolds
<1> QED  BY <1>4, <1>5, HoldsNext DEF StepHolds

LEMMA ArchiveLooksHolds ==
  ASSUME AllHolds, ArchiveLooks
  PROVE  AllHolds'
<1>1. UNCHANGED <<bundles, jobs_file, expanded_file, record_file, archive_file, directory, store, stored>>
  BY DEF ArchiveLooks, files, backupHistory
<1>2. FilesHold(bundles, said, stored, jobs_file', expanded_file', record_file', archive_file')
      /\ directory' \in Directories /\ store' \subseteq stored
  BY <1>1 DEF AllHolds
<1>3. CASE Needed(AskedFor) \subseteq Held
  <2>1. work' = [work EXCEPT !.at = "write"] /\ mem' = mem /\ work.doing = "archive"
    BY <1>3 DEF ArchiveLooks, At
  <2>2. Needs(bundles, said, AskedFor) \subseteq stored
    BY <1>3, HeldStored, NeededIs
  <2> QED  BY <1>1, <1>2, <2>1, <2>2, ArchiveGoesOn
<1>4. CASE ~(Needed(AskedFor) \subseteq Held)
  <2>1. \E missing : ArchiveWaits(missing)  BY <1>4 DEF ArchiveLooks
  <2> QED  BY <1>1, <1>2, <2>1, ArchiveWaitsLike, ApartNext
<1> QED  BY <1>3, <1>4

LEMMA ArchiveWritesHolds ==
  ASSUME AllHolds, ArchiveWrites
  PROVE  AllHolds'
<1>1. UNCHANGED <<bundles, jobs_file, expanded_file, record_file, directory, store, stored>>
  BY DEF ArchiveWrites, backupHistory
<1>2. directory' \in Directories /\ store' \subseteq stored
  BY <1>1 DEF AllHolds
<1>3. CASE Needed(AskedFor) \subseteq Held
  <2>1. Needs(bundles, said, AskedFor) \subseteq stored
    BY <1>3, HeldStored, NeededIs
  <2>2. FilesHold(bundles, said, stored, jobs_file', expanded_file', record_file', archive_file')
    BY <1>1, <2>1 DEF AllHolds, FilesHold
  <2>3. CASE work' = [work EXCEPT !.at = "record"] /\ mem' = mem
    <3>1. work.doing = "archive"  BY DEF ArchiveWrites, At
    <3> QED  BY <1>1, <1>2, <2>1, <2>2, <2>3, <3>1, ArchiveGoesOn
  <2>4. CASE mem' = ArchiveFailed /\ work' = Resting
    BY <1>1, <1>2, <2>2, <2>4, RestoreFailedLike, RestingApart, ApartNext
  <2> QED  BY <1>3, <2>3, <2>4 DEF ArchiveWrites, Done
<1>4. CASE ~(Needed(AskedFor) \subseteq Held)
  <2>1. archive_file' = archive_file /\ \E missing : ArchiveWaits(missing)
    BY <1>4 DEF ArchiveWrites
  <2>2. FilesHold(bundles, said, stored, jobs_file', expanded_file', record_file', archive_file')
    BY <1>1, <2>1 DEF AllHolds
  <2> QED  BY <1>1, <1>2, <2>1, <2>2, ArchiveWaitsLike, ApartNext
<1> QED  BY <1>3, <1>4

LEMMA ArchiveRecordedHolds ==
  ASSUME AllHolds, ArchiveRecorded
  PROVE  AllHolds'
<1>1. UNCHANGED <<bundles, jobs_file, expanded_file, record_file, directory, store, stored>>
  BY DEF ArchiveRecorded, backupHistory
<1>2. directory' \in Directories /\ store' \subseteq stored
  BY <1>1 DEF AllHolds
<1>3. Needs(bundles, said, AskedFor) \subseteq stored
  BY DEF ArchiveRecorded, At, AllHolds, WorkHolds
<1>4. FilesHold(bundles, said, stored, jobs_file', expanded_file', record_file', archive_file')
  BY <1>1, <1>3 DEF AllHolds, FilesHold
<1>5. PICK ok \in BOOLEAN, kept \in {[kept |-> TRUE, expires |-> mem.archive.expires]} :
        /\ mem' = IF ok THEN [mem EXCEPT !.archive = NoArchive, !.kept = kept] ELSE ArchiveFailed
        /\ work' = Resting
  BY DEF ArchiveRecorded, Done
<1>6. MemLike(mem, mem')
  <2>1. CASE ok  BY <1>5, <2>1 DEF AllHolds, MemHolds, RestoreHolds, MemLike
  <2>2. CASE ~ok  BY <1>5, <2>2, RestoreFailedLike
  <2> QED  BY <2>1, <2>2
<1> QED  BY <1>1, <1>2, <1>4, <1>5, <1>6, RestingApart, ApartNext

-----------------------------------------------------------------------------
(* The process, what is around it, and time. *)

LEMMA ForgottenHolds ==
  /\ "job" \in DOMAIN Forgotten /\ "restore" \in DOMAIN Forgotten /\ "latest" \in DOMAIN Forgotten.job
  /\ Forgotten.job = NoJob /\ Forgotten.restore = NoRestore
BY DEF Forgotten, NoJob

LEMMA CrashesHolds ==
  ASSUME AllHolds, Crashes
  PROVE  AllHolds'
<1>1. UNCHANGED <<bundles, jobs_file, expanded_file, record_file, archive_file, directory, store, stored>>
  BY DEF Crashes, files, backupHistory
<1>2. mem' = Forgotten /\ work' = Resting
  BY DEF Crashes, Done
<1>3. MemHolds(bundles, said, stored, mem')
  BY <1>2, ForgottenHolds, NoneRecorded, NoRestoreIs DEF MemHolds, RestoreHolds
<1>4. WorkHolds(bundles, said, stored, work', record_file'.expanded)
  BY <1>2, RestingApart, ApartHolds
<1>5. FilesHold(bundles, said, stored, jobs_file', expanded_file', record_file', archive_file')
      /\ directory' \in Directories /\ store' \subseteq stored
  BY <1>1 DEF AllHolds
<1> QED  BY <1>1, <1>3, <1>4, <1>5, HoldsNext DEF StepHolds

(* It starts from its files. *)
LEMMA OnStartHolds ==
  ASSUME AllHolds, OnStart
  PROVE  AllHolds'
<1>1. UNCHANGED <<bundles, jobs_file, expanded_file, record_file, archive_file, directory, store, stored, work>>
  BY DEF OnStart, backupHistory
<1>2. mem' = [Forgotten EXCEPT !.alive = TRUE, !.job = jobs_file, !.kept = KeptNow]
  BY DEF OnStart
<1>3. /\ "job" \in DOMAIN mem' /\ "restore" \in DOMAIN mem' /\ mem'.job = jobs_file /\ mem'.restore = NoRestore
  BY <1>2, ForgottenHolds
<1>4. MemHolds(bundles, said, stored, mem')
  BY <1>3, NoRestoreIs DEF MemHolds, RestoreHolds, AllHolds, FilesHold
<1>5. WorkHolds(bundles, said, stored, work', record_file'.expanded)
  BY <1>1 DEF AllHolds
<1>6. FilesHold(bundles, said, stored, jobs_file', expanded_file', record_file', archive_file')
      /\ directory' \in Directories /\ store' \subseteq stored
  BY <1>1 DEF AllHolds
<1> QED  BY <1>1, <1>4, <1>5, <1>6, HoldsNext DEF StepHolds

LEMMA AroundHolds ==
  ASSUME AllHolds, UserAsks \/ UserEdits \/ Fills \/ Empties \/ Announced \/ Evicts \/ UNCHANGED backupVars
  PROVE  AllHolds'
<1>1. UNCHANGED <<bundles, jobs_file, expanded_file, record_file, archive_file, stored, mem, work>>
  BY DEF UserAsks, UserEdits, Fills, Empties, Announced, Evicts, files, backupHistory, backupVars
<1>2. directory' \in Directories
  <2>1. CASE UserEdits
    <3>1. PICK p \in Paths, entry \in Entries \cup {Absent} : directory' = [directory EXCEPT ![p] = entry]
      BY <2>1 DEF UserEdits
    <3> QED  BY <3>1 DEF AllHolds, Directories
  <2>2. CASE ~UserEdits
    <3>1. directory' = directory
      BY <2>2 DEF UserAsks, Fills, Empties, Announced, Evicts, backupVars
    <3> QED  BY <3>1 DEF AllHolds
  <2> QED  BY <2>1, <2>2
<1>3. store' \subseteq store
  BY DEF UserAsks, UserEdits, Fills, Empties, Announced, Evicts, backupVars
<1>4. FilesHold(bundles, said, stored, jobs_file', expanded_file', record_file', archive_file')
      /\ store' \subseteq stored
  BY <1>1, <1>3 DEF AllHolds
<1> QED  BY <1>1, <1>2, <1>4, MemLikeItself, SameNext

LEMMA ArrivesHolds ==
  ASSUME AllHolds, Arrives
  PROVE  AllHolds'
<1>1. UNCHANGED <<bundles, jobs_file, expanded_file, record_file, archive_file, directory, mem, work>>
  BY DEF Arrives, files
<1>2. stored \subseteq stored' /\ store' \subseteq stored' /\ directory' \in Directories
  <2>1. PICK o : WriteObject(o)  BY DEF Arrives
  <2> QED  BY <1>1, <2>1 DEF WriteObject, AllHolds
<1>3. Grows(bundles, said, stored, bundles, said, stored') /\ AskedFor \in DOMAIN bundles
  BY <1>2 DEF Grows, AllHolds, BundlesHold
<1>4. FilesHold(bundles, said, stored', jobs_file', expanded_file', record_file', archive_file')
  BY <1>1, <1>3, FilesStill DEF AllHolds
<1>5. MemHolds(bundles, said, stored', mem')
  BY <1>1, <1>3, MemStill DEF AllHolds
<1>6. WorkLike(work, work) /\ Sequential(work.want) /\ WorkHolds(bundles, said, stored, work, record_file'.expanded)
  BY <1>1 DEF AllHolds, WorkHolds, WalkHolds, WorkLike
<1>7. WorkHolds(bundles, said, stored', work, record_file'.expanded)
  BY <1>2, <1>3, <1>6, WorkStill
<1> QED  BY <1>1, <1>2, <1>4, <1>5, <1>7, HoldsNext DEF StepHolds

LEMMA PassesSame ==
  ASSUME NEW task
  PROVE  /\ DOMAIN Passes(task) = DOMAIN task
         /\ \A field \in {"read", "pending"} : field \in DOMAIN task => Passes(task)[field] = task[field]
BY DEF Passes

LEMMA TickHolds ==
  ASSUME AllHolds, Tick
  PROVE  AllHolds'
<1>1. UNCHANGED <<bundles, jobs_file, expanded_file, record_file, archive_file, directory, store, stored>>
  BY DEF Tick
<1>2. PICK due, archive, kept :
        mem' = [mem EXCEPT !.due = due, !.restore = Passes(mem.restore), !.archive = archive, !.kept = kept]
  <2>1. mem' = [mem EXCEPT !.due = IF mem.job.configured THEN Sooner(mem.due) ELSE mem.due,
                           !.restore = Passes(mem.restore),
                           !.archive = [Passes(mem.archive) EXCEPT !.expires = Sooner(Passes(mem.archive).expires)],
                           !.kept = [mem.kept EXCEPT !.expires = Sooner(mem.kept.expires)]]
    BY DEF Tick
  <2> QED  BY <2>1
<1>3. /\ "job" \in DOMAIN mem' /\ "restore" \in DOMAIN mem' /\ mem'.job = mem.job
      /\ mem'.restore = Passes(mem.restore)
  BY <1>2 DEF AllHolds, MemHolds
<1>4. MemLike(mem, mem')
  BY <1>3, PassesSame DEF MemLike, AllHolds, MemHolds, RestoreHolds
<1>5. WorkLike(work, work') /\ work'.want = work.want
  <2>1. work' = [work EXCEPT !.stall = Sooner(@)]  BY DEF Tick
  <2>2. DOMAIN work = WorkFields  BY DEF AllHolds, WorkHolds, WalkHolds
  <2> QED  BY <2>1, <2>2 DEF WorkLike, WorkFields
<1>6. FilesHold(bundles, said, stored, jobs_file', expanded_file', record_file', archive_file')
      /\ directory' \in Directories /\ store' \subseteq stored
  BY <1>1 DEF AllHolds
<1> QED  BY <1>1, <1>4, <1>5, <1>6, LikeNext

LEMMA StepAllHolds == AllHolds /\ [BackupNext]_backupVars => AllHolds'
<1> SUFFICES ASSUME AllHolds, [BackupNext]_backupVars PROVE AllHolds'
  OBVIOUS
<1>1. CASE Handles
  BY <1>1, QuietHandled, RestoreRequestedHolds, JobConfiguredHolds, JobRemovedHolds, ArchiveRemovedHolds DEF Handles
<1>2. CASE Carries
  <2>1. CASE Expire \/ WorkNext \/ Stores \/ WaitsForRoom \/ StallsOut
    BY <2>1, ExpireHolds, WorkNextHolds, StoresHolds, WaitsForRoomHolds, StallsOutHolds
  <2>2. CASE Walk \/ Walked \/ Bundles \/ BundleStored \/ KeepsExpanded \/ KeepsLatest \/ RecordsBuild
    BY <2>2, WalkStepHolds, WalkedHolds, BundlesStepHolds, BundleStoredHolds, ExpandedKept, LatestKept, BuildRecorded
  <2>3. CASE \/ Exports \/ RestorePlaces \/ RestoreSettles \/ ArchiveLooks \/ ArchiveWrites \/ ArchiveRecorded
             \/ OnStart
    BY <2>3, ExportsHolds, RestorePlacesHolds, RestoreSettlesHolds, ArchiveLooksHolds, ArchiveWritesHolds,
       ArchiveRecordedHolds, OnStartHolds
  <2> QED  BY <1>2, <2>1, <2>2, <2>3 DEF Carries
<1>3. CASE Surroundings \/ Empties \/ Announced \/ UNCHANGED backupVars
  BY <1>3, CannotWalkHolds, RestoreCannotWriteHolds, CrashesHolds, AroundHolds, ArrivesHolds DEF Surroundings
<1>4. CASE Tick  BY <1>4, TickHolds
<1> QED  BY <1>1, <1>2, <1>3, <1>4 DEF BackupNext

LEMMA InitAllHolds == BackupInit => AllHolds
<1> SUFFICES ASSUME BackupInit PROVE AllHolds
  OBVIOUS
<1> DEFINE bundle == [entries |-> [p \in Paths |-> IF Source[p] = Absent THEN Unsaid ELSE Source[p]],
                      extensions |-> <<>>, supersedes |-> Unknown, protection |-> "plain"]
<1>1. PICK start \in Starts :
        /\ bundles = <<bundle>> /\ jobs_file = NoJob /\ expanded_file = NotExpanded /\ record_file = NoRecord
        /\ archive_file = FALSE /\ directory = start.directory /\ store = start.store /\ stored = start.store
        /\ mem = [Forgotten EXCEPT !.alive = TRUE] /\ work = Resting
  BY DEF BackupInit
<1>2. /\ bundle.entries = [p \in Paths |-> IF Source[p] = Absent THEN Unsaid ELSE Source[p]]
      /\ bundle.extensions = <<>> /\ bundle.protection = "plain"
  OBVIOUS
<1> HIDE DEF bundle
<1>3. Sequential(bundles) /\ DOMAIN bundles = {1} /\ bundles[1] = bundle
  <2>1. <<bundle>> \in Seq({bundle})  OBVIOUS
  <2>2. DOMAIN <<bundle>> = {1} /\ <<bundle>>[1] = bundle  OBVIOUS
  <2> QED  BY <1>1, <2>1, <2>2 DEF Sequential
<1>4. Numbered(bundles)
  <2>1. \A b \in DOMAIN bundles : bundles[b].extensions \in Seq(1..(b - 1))
    <3>1. \A b \in DOMAIN bundles : bundles[b].extensions = <<>>  BY <1>2, <1>3
    <3>2. \A T : <<>> \in Seq(T)  OBVIOUS
    <3> QED  BY <3>1, <3>2
  <2>2. DOMAIN bundles = 1..1  BY <1>3
  <2> QED  BY <2>1, <2>2 DEF Numbered, ExtendEarlier
<1>5. \A b \in DOMAIN bundles : Beneath(bundles, b) = {}
  BY <1>2, <1>3 DEF Beneath
<1>6. AllProtected(bundles)
  BY <1>5 DEF AllProtected
<1>7. Resolves(said, AskedFor) = Source
  <2>1. SaidOf(bundles, said)  BY <1>4, SaidIs
  <2>2. Source \in Directories  BY BackupAssumption DEF BackupAssumption
  <2>3. AskedFor \in DOMAIN bundles /\ bundles[AskedFor] = bundle  BY <1>3 DEF AskedFor
  <2> QED  BY <1>2, <2>1, <2>2, <2>3, WholeBrings
<1>8. BundlesHold(bundles, said)
  BY <1>2, <1>3, <1>4, <1>5, <1>6, <1>7 DEF BundlesHold, AskedFor
<1>9. FilesHold(bundles, said, stored, jobs_file, expanded_file, record_file, archive_file)
  BY <1>1, NoneRecorded DEF FilesHold, NoRecord
<1>10. MemHolds(bundles, said, stored, mem)
  <2>1. /\ "job" \in DOMAIN mem /\ "restore" \in DOMAIN mem /\ mem.job = NoJob /\ mem.restore = NoRestore
    BY <1>1, ForgottenHolds
  <2> QED  BY <2>1, NoneRecorded, NoRestoreIs DEF MemHolds, RestoreHolds
<1>11. WorkHolds(bundles, said, stored, work, record_file.expanded)
  BY <1>1, RestingApart, ApartHolds
<1>12. directory \in Directories /\ store \subseteq stored
  BY <1>1, BackupAssumption DEF BackupAssumption
<1> QED  BY <1>8, <1>9, <1>10, <1>11, <1>12 DEF AllHolds

LEMMA AllHoldsWhole == AllHolds => BackupsWhole
<1> SUFFICES ASSUME AllHolds PROVE BackupsWhole
  OBVIOUS
<1>1. ASSUME jobs_file.latest # NoLatest
      PROVE  /\ resolve_directory(jobs_file.latest.bundle) = jobs_file.latest.entries
             /\ Needed(jobs_file.latest.bundle) \subseteq stored
  BY <1>1, NeededIs DEF AllHolds, FilesHold, LatestBrings, Brings
<1>2. ASSUME record_file.expanded # NotExpanded
      PROVE  /\ resolve_directory(record_file.expanded.bundle) = record_file.expanded.entries
             /\ Needed(record_file.expanded.bundle) \subseteq stored
  BY <1>2, NeededIs DEF AllHolds, FilesHold, FaithfulIfAny, Faithful, Brings
<1>3. \A b \in Made : \A beneath \in Reached(b) : bundles[beneath].protection = bundles[b].protection
  BY NeededIs DEF AllHolds, BundlesHold, AllProtected, Made
<1> QED  BY <1>1, <1>2, <1>3 DEF BackupsWhole

(* What the files record of backups is whole, whatever failed between      *)
(* writing them and wherever the process ended (backup/module.py:365-534,  *)
(* 640-772): a job's latest backup, and the bundle recorded beside a        *)
(* directory, bring back just the entries recorded with them, and all that *)
(* takes has been stored.                                                   *)
THEOREM RecordsWhole == BackupSpec => []BackupsWhole
<1>1. AllHolds /\ [BackupNext]_backupVars => AllHolds'
  BY StepAllHolds
<1> QED  BY InitAllHolds, <1>1, AllHoldsWhole, PTL DEF BackupSpec

(* And so is all that is on record, of backups and of archives.             *)
THEOREM RecordsKept == BackupSpec => []RecordsHold
BY KeptAsListed, RecordsWhole, PTL DEF RecordsHold
=============================================================================
