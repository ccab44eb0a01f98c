----------------------------- MODULE TrustProofs -----------------------------
(* Theorems about Trust.                                                    *)
EXTENDS Trust, FiniteSetTheorems, SequenceTheorems, WellFoundedInduction, TLAPS

-----------------------------------------------------------------------------
(* Of finitely many versions, one is newer than all the others. *)

AreVersions(S) ==
  /\ \A v \in S : v.number \in Nat /\ v.id \in Nat
  /\ \A v, w \in S : v.id = w.id => v = w

HasNewest(S) == \E v \in S : \A w \in S \ {v} : Newer(v, w)

LEMMA NewerTransitive ==
  ASSUME NEW u, NEW v, NEW w,
         u.number \in Nat, v.number \in Nat, w.number \in Nat,
         u.id \in Nat, v.id \in Nat, w.id \in Nat,
         Newer(u, v), Newer(v, w)
  PROVE  Newer(u, w)
BY DEF Newer

LEMMA NewerAsymmetric ==
  ASSUME NEW v, NEW w, v.number \in Nat, w.number \in Nat, v.id \in Nat, w.id \in Nat,
         Newer(v, w)
  PROVE  ~Newer(w, v)
BY DEF Newer

LEMMA NewestExists ==
  ASSUME NEW S, IsFiniteSet(S), S # {}, AreVersions(S)
  PROVE  HasNewest(S)
<1> DEFINE Without == {T \in SUBSET S : T # {} /\ ~HasNewest(T)}
           R == StrictSubsetOrdering(S)
<1>1. SUFFICES ASSUME Without # {} PROVE FALSE
  OBVIOUS
<1>2. PICK T \in Without : \A U \in Without : <<U, T>> \notin R
  <2>1. IsWellFoundedOn(R, FiniteSubsetsOf(S))  BY FS_StrictSubsetOrderingWellFounded
  <2>2. Without \subseteq FiniteSubsetsOf(S)  BY FS_FiniteSubsetsOfFinite
  <2> HIDE DEF Without, R
  <2> QED  BY <1>1, <2>1, <2>2, WFMin
<1>3. PICK x : x \in T  OBVIOUS
<1> DEFINE U == T \ {x}
<1>4. <<U, T>> \in R  BY <1>3 DEF StrictSubsetOrdering
<1>5. U = {} \/ HasNewest(U)  BY <1>2, <1>4
<1>6. HasNewest(T)
  <2>1. CASE U = {}  BY <2>1, <1>3 DEF HasNewest
  <2>2. CASE HasNewest(U)
    <3>1. PICK v \in U : \A w \in U \ {v} : Newer(v, w)  BY <2>2 DEF HasNewest
    <3>2. /\ v \in S /\ x \in S /\ v # x
          /\ v.number \in Nat /\ x.number \in Nat /\ v.id \in Nat /\ x.id \in Nat /\ v.id # x.id
      BY <3>1, <1>3 DEF AreVersions
    <3>3. CASE Newer(v, x)  BY <3>1, <3>3 DEF HasNewest
    <3>4. CASE ~Newer(v, x)
      <4>1. Newer(x, v)  BY <3>2, <3>4 DEF Newer
      <4>2. ASSUME NEW w \in T \ {x} PROVE Newer(x, w)
        <5>1. CASE w = v  BY <5>1, <4>1
        <5>2. CASE w # v
          <6>1. Newer(v, w)  BY <3>1, <5>2
          <6>2. w.number \in Nat /\ w.id \in Nat  BY DEF AreVersions
          <6> QED  BY <6>1, <6>2, <4>1, <3>2, NewerTransitive
        <5> QED  BY <5>1, <5>2
      <4> QED  BY <4>2, <1>3 DEF HasNewest
    <3> QED  BY <3>3, <3>4
  <2> QED  BY <1>5, <2>1, <2>2
<1> QED  BY <1>6

LEMMA NewestIsNewest ==
  ASSUME NEW S, IsFiniteSet(S), S # {}, AreVersions(S)
  PROVE  Newest(S) \in S /\ \A w \in S \ {Newest(S)} : Newer(Newest(S), w)
BY NewestExists DEF HasNewest, Newest

-----------------------------------------------------------------------------
(* How a step may change the versions there are. *)

Fields == {"owner", "number", "shunned", "at", "entries"}
Here == {"uploaded", "held"}

DocOK ==
  /\ IsFiniteSet(DOMAIN doc) /\ DOMAIN doc \subseteq Nat
  /\ \A i \in DOMAIN doc :
       DOMAIN doc[i] = Fields /\ doc[i].number \in Nat
         /\ doc[i].shunned \in {"no", "asked", "shunned"}

Standing(i) == doc[i].shunned = "no" => doc[i].at \in Here

(* A version stays what it is.  One that is not shunned was not, and is     *)
(* here if it was.                                                           *)
Stays(i) ==
  /\ i \in DOMAIN doc'
  /\ doc'[i].owner = doc[i].owner /\ doc'[i].number = doc[i].number
  /\ doc'[i].entries = doc[i].entries
  /\ doc'[i].shunned = "no" => doc[i].shunned = "no" /\ (doc[i].at \in Here => doc'[i].at \in Here)
DocStays == \A i \in DOMAIN doc : Stays(i)

LEMMA DocUnchanged == ASSUME DocOK, UNCHANGED doc PROVE DocStays /\ DocOK'
BY DEF DocOK, DocStays, Stays

(* Shunning, asking for, storing and hearing of versions. *)
LEMMA AskedForStays ==
  ASSUME DocOK, NEW ids, doc' = AskedFor(ids)
  PROVE  DocStays /\ DocOK' /\ DOMAIN doc' = DOMAIN doc
         /\ \A i \in DOMAIN doc : doc'[i].shunned = doc[i].shunned
<1>1. DOMAIN doc' = DOMAIN doc  BY DEF AskedFor
<1>2. ASSUME NEW i \in DOMAIN doc
      PROVE  /\ DOMAIN doc'[i] = Fields /\ doc'[i].number = doc[i].number
             /\ doc'[i].owner = doc[i].owner /\ doc'[i].entries = doc[i].entries
             /\ doc'[i].shunned = doc[i].shunned
             /\ doc[i].at \in Here => doc'[i].at \in Here
  BY DEF AskedFor, DocOK, Fields, Here
<1>3. DocOK'  BY <1>1, <1>2 DEF DocOK
<1> QED  BY <1>1, <1>2, <1>3 DEF DocStays, Stays

LEMMA ShunAskedStays ==
  ASSUME DocOK, NEW ids, doc' = ShunAsked(ids)
  PROVE  /\ DocStays /\ DocOK' /\ DOMAIN doc' = DOMAIN doc
         /\ \A i \in DOMAIN doc :
              /\ doc'[i].shunned = IF i \in ids /\ doc[i].shunned = "no" THEN "asked" ELSE doc[i].shunned
              /\ doc'[i].at = doc[i].at
<1>1. DOMAIN doc' = DOMAIN doc  BY DEF ShunAsked
<1>2. ASSUME NEW i \in DOMAIN doc
      PROVE  /\ DOMAIN doc'[i] = Fields /\ doc'[i].number = doc[i].number
             /\ doc'[i].owner = doc[i].owner /\ doc'[i].entries = doc[i].entries
             /\ doc'[i].shunned = IF i \in ids /\ doc[i].shunned = "no" THEN "asked" ELSE doc[i].shunned
             /\ doc'[i].at = doc[i].at
  BY DEF ShunAsked, DocOK, Fields
<1>3. DocOK'  BY <1>1, <1>2 DEF DocOK
<1> QED  BY <1>1, <1>2, <1>3 DEF DocStays, Stays

-----------------------------------------------------------------------------
(* Versions read, placed and remembered are versions there are. *)

Reading(o, v) ==
  /\ v.id \in DOMAIN doc /\ v = VersionOf(v.id) /\ doc[v.id].owner = o
  /\ Standing(v.id)

Outclassed(i) ==
  /\ i \in DOMAIN doc
  /\ \E j \in DOMAIN doc : /\ doc[j].owner = doc[i].owner /\ Standing(j)
                           /\ Newer(VersionOf(j), VersionOf(i))

LEMMA ReadingVersions ==
  ASSUME DocOK, NEW o, NEW S, \A v \in S : Reading(o, v)
  PROVE  IsFiniteSet(S) /\ AreVersions(S)
<1>1. IsFiniteSet({VersionOf(i) : i \in DOMAIN doc})
  <2> DEFINE f == [i \in DOMAIN doc |-> VersionOf(i)]
  <2>1. f \in Surjection(DOMAIN doc, {VersionOf(i) : i \in DOMAIN doc})  BY DEF Surjection
  <2> HIDE DEF f
  <2> QED  BY <2>1, FS_Surjection DEF DocOK
<1>2. S \subseteq {VersionOf(i) : i \in DOMAIN doc}  BY DEF Reading
<1>3. IsFiniteSet(S)  BY <1>1, <1>2, FS_Subset
<1>4. AreVersions(S)
  BY DEF AreVersions, Reading, VersionOf, Version, DocOK
<1> QED  BY <1>3, <1>4

LEMMA ReadingStays ==
  ASSUME DocStays
  PROVE  \A o, v : Reading(o, v) => Reading(o, v)'
<1> SUFFICES ASSUME NEW o, NEW v, Reading(o, v) PROVE Reading(o, v)'
  OBVIOUS
<1>1. v.id \in DOMAIN doc /\ Stays(v.id)  BY DEF Reading, DocStays
<1>2. VersionOf(v.id)' = VersionOf(v.id)  BY <1>1 DEF Stays, VersionOf, Version
<1> QED  BY <1>1, <1>2 DEF Reading, Stays, Standing

LEMMA OutclassedStays ==
  ASSUME DocStays
  PROVE  \A i : Outclassed(i) => Outclassed(i)'
<1> SUFFICES ASSUME NEW i, Outclassed(i) PROVE Outclassed(i)'
  OBVIOUS
<1>1. PICK j \in DOMAIN doc : /\ doc[j].owner = doc[i].owner /\ Standing(j)
                              /\ Newer(VersionOf(j), VersionOf(i))
  BY DEF Outclassed
<1>2. Stays(i) /\ Stays(j)  BY DEF Outclassed, DocStays
<1>3. VersionOf(i)' = VersionOf(i) /\ VersionOf(j)' = VersionOf(j)
  BY <1>2 DEF Stays, VersionOf, Version
<1> QED  BY <1>1, <1>2, <1>3 DEF Outclassed, Stays, Standing

LEMMA ReplacedOutclassed ==
  ASSUME DocOK, NEW o, NEW S, \A v \in S : Reading(o, v), S # {}
  PROVE  /\ Newest(S) \in S
         /\ \A i \in IdsOf(Replaced(S)) :
              /\ i \in DOMAIN doc /\ doc[i].owner = o
              /\ Newer(VersionOf(Newest(S).id), VersionOf(i))
<1>1. IsFiniteSet(S) /\ AreVersions(S)  BY ReadingVersions
<1>2. Newest(S) \in S /\ \A w \in S \ {Newest(S)} : Newer(Newest(S), w)  BY <1>1, NewestIsNewest
<1> HIDE DEF Newest
<1>3. ASSUME NEW w \in S PROVE w.id \in DOMAIN doc /\ doc[w.id].owner = o /\ w = VersionOf(w.id)
  BY DEF Reading
<1>4. IdsOf(Replaced(S)) = {v.id : v \in S \ {Newest(S)}}  BY DEF IdsOf, Replaced
<1> QED  BY <1>2, <1>3, <1>4

-----------------------------------------------------------------------------
(* What may be shunned. *)

LEMMA VersionsTyped ==
  ASSUME DocOK, NEW i \in DOMAIN doc
  PROVE  VersionOf(i).number \in Nat /\ VersionOf(i).id = i /\ i \in Nat
         /\ VersionOf(i).number = doc[i].number
BY DEF DocOK, VersionOf, Version

(* All those older than one that stands may be shunned together. *)
LEMMA ShunOlder ==
  ASSUME DocOK, NewestNotShunned, NEW j \in DOMAIN doc, Standing(j), NEW ids,
         \A i \in ids : /\ i \in DOMAIN doc /\ doc[i].owner = doc[j].owner
                        /\ Newer(VersionOf(j), VersionOf(i)),
         doc' = ShunAsked(ids)
  PROVE  NewestNotShunned'
<1>1. /\ DocStays /\ DocOK' /\ DOMAIN doc' = DOMAIN doc
      /\ \A i \in DOMAIN doc :
           /\ doc'[i].shunned = IF i \in ids /\ doc[i].shunned = "no" THEN "asked" ELSE doc[i].shunned
           /\ doc'[i].at = doc[i].at
  BY ShunAskedStays
<1>2. \A i \in DOMAIN doc : VersionOf(i)' = VersionOf(i) /\ doc'[i].owner = doc[i].owner
  BY <1>1 DEF DocStays, Stays, VersionOf, Version
<1> DEFINE Keeps(k, i) == /\ k \in DOMAIN doc /\ doc[k].at \in Here /\ doc[k].owner = doc[i].owner
                          /\ doc[k].shunned = "no" /\ Newer(VersionOf(k), VersionOf(i))
<1>3. ASSUME NEW i \in DOMAIN doc, doc'[i].shunned # "no"
      PROVE  \E k : Keeps(k, i) /\ k \notin ids
  <2>1. ASSUME NEW k, Keeps(k, j) PROVE k \notin ids
    <3>1. ~Newer(VersionOf(j), VersionOf(k))  BY <2>1, VersionsTyped, NewerAsymmetric
    <3> QED  BY <3>1
  <2>2. ASSUME NEW l \in DOMAIN doc, doc[l].owner = doc[j].owner, Newer(VersionOf(j), VersionOf(l))
        PROVE  \E k : Keeps(k, l) /\ k \notin ids
    <3>1. CASE doc[j].shunned = "no"
      <4>1. Keeps(j, l)  BY <3>1, <2>2 DEF Standing
      <4>2. j \notin ids
        <5>1. ~Newer(VersionOf(j), VersionOf(j))  BY VersionsTyped, NewerAsymmetric
        <5> QED  BY <5>1
      <4> QED  BY <4>1, <4>2
    <3>2. CASE doc[j].shunned # "no"
      <4>1. PICK k : Keeps(k, j)  BY <3>2 DEF NewestNotShunned, At, Here
      <4>2. Newer(VersionOf(k), VersionOf(l))  BY <4>1, <2>2, VersionsTyped, NewerTransitive
      <4>3. Keeps(k, l)  BY <4>1, <4>2, <2>2
      <4> QED  BY <4>1, <4>3, <2>1
    <3> QED  BY <3>1, <3>2
  <2>3. CASE i \in ids  BY <2>3, <2>2
  <2>4. CASE i \notin ids
    <3>1. doc[i].shunned # "no"  BY <1>1, <1>3, <2>4
    <3>2. PICK k : Keeps(k, i)  BY <3>1 DEF NewestNotShunned, At, Here
    <3>3. CASE k \notin ids  BY <3>2, <3>3
    <3>4. CASE k \in ids
      <4>1. Newer(VersionOf(j), VersionOf(i))
        BY <3>2, <3>4, VersionsTyped, NewerTransitive
      <4> QED  BY <4>1, <2>2, <3>2, <3>4
    <3> QED  BY <3>3, <3>4
  <2> QED  BY <2>3, <2>4
<1>4. ASSUME NEW i \in DOMAIN doc', doc'[i].shunned # "no"
      PROVE  \E k \in At({"uploaded", "held"})' :
               /\ doc'[k].owner = doc'[i].owner /\ doc'[k].shunned = "no"
               /\ Newer(VersionOf(k)', VersionOf(i)')
  <2>1. PICK k : Keeps(k, i) /\ k \notin ids  BY <1>1, <1>3, <1>4
  <2>2. k \in At({"uploaded", "held"})' /\ doc'[k].shunned = "no"  BY <2>1, <1>1 DEF At, Here
  <2>3. doc'[k].owner = doc'[i].owner /\ Newer(VersionOf(k)', VersionOf(i)')
    BY <2>1, <1>1, <1>2
  <2> QED  BY <2>2, <2>3
<1> QED  BY <1>4 DEF NewestNotShunned

LEMMA ShunReplaced ==
  ASSUME DocOK, NewestNotShunned, NEW o, NEW S, \A v \in S : Reading(o, v),
         doc' = ShunAsked(IdsOf(Replaced(S)))
  PROVE  NewestNotShunned'
<1>1. CASE S = {}
  <2>1. IdsOf(Replaced(S)) = {}  BY <1>1 DEF IdsOf, Replaced
  <2>2. /\ DocStays /\ DOMAIN doc' = DOMAIN doc
        /\ \A i \in DOMAIN doc : doc'[i].shunned = doc[i].shunned /\ doc'[i].at = doc[i].at
    BY <2>1, ShunAskedStays
  <2>3. \A i \in DOMAIN doc : VersionOf(i)' = VersionOf(i) /\ doc'[i].owner = doc[i].owner
    BY <2>2 DEF DocStays, Stays, VersionOf, Version
  <2> QED  BY <2>2, <2>3 DEF NewestNotShunned, At
<1>2. CASE S # {}
  <2>1. /\ Newest(S) \in S
        /\ \A i \in IdsOf(Replaced(S)) :
             /\ i \in DOMAIN doc /\ doc[i].owner = o
             /\ Newer(VersionOf(Newest(S).id), VersionOf(i))
    BY <1>2, ReplacedOutclassed
  <2>2. Newest(S).id \in DOMAIN doc /\ Standing(Newest(S).id) /\ doc[Newest(S).id].owner = o
    BY <2>1 DEF Reading
  <2> QED  BY <2>1, <2>2, ShunOlder
<1> QED  BY <1>1, <1>2

-----------------------------------------------------------------------------
(* The inductive invariant. *)

BuildFields ==
  {"on", "lists", "scores", "handed", "changes", "reading", "failed", "at", "seen",
   "looking", "still", "waited", "found"}
TurnFields == {"by", "at", "identity", "trusted", "held"}

(* What a build has found are versions of one list. *)
FoundsOK ==
  /\ DOMAIN builds = Owners
  /\ \A o \in Owners :
       /\ DOMAIN builds[o] = BuildFields
       /\ \E p : \A v \in builds[o].found.versions : Reading(p, v)

(* What a change has read, placed and remembers are versions of its list. *)
EditsOK ==
  /\ DOMAIN turn = Owners /\ DOMAIN remembered = Owners /\ DOMAIN placed = Owners
  /\ \A o \in Owners :
       /\ DOMAIN turn[o] = TurnFields
       /\ \A v \in turn[o].held.versions \cup remembered[o] : Reading(o, v)
       /\ placed[o] \in Seq(DOMAIN doc)
       /\ \A k \in DOMAIN placed[o] : Reading(o, VersionOf(placed[o][k]))
       /\ turn[o].at = "tell" => placed[o] # <<>>

LateOK == \A i \in late : Outclassed(i)

SessionsOK == sessions \in [Tokens -> [person : Owners, idle : BOOLEAN]]

ShunsOnlyOlder == DocOK /\ NewestNotShunned /\ FoundsOK /\ EditsOK /\ LateOK /\ SessionsOK

LEMMA FoundOfReading ==
  ASSUME NEW o
  PROVE  \A v \in FoundOf(o).versions : Reading(o, v)
<1>1. FoundOf(o).versions = {VersionOf(i) : i \in {j \in At({"held"}) \cap Unshunned : doc[j].owner = o}}
  BY DEF FoundOf, VersionsOf
<1>2. ASSUME NEW i \in At({"held"}), doc[i].owner = o PROVE Reading(o, VersionOf(i))
  <2>1. VersionOf(i).id = i  BY DEF VersionOf, Version
  <2> QED  BY <1>2, <2>1 DEF Reading, At, Standing, Here
<1> QED  BY <1>1, <1>2

-----------------------------------------------------------------------------
(* Builds go on reading versions there are. *)

LEMMA FoundsStay ==
  ASSUME FoundsOK, DocStays, DOMAIN builds' = Owners,
         \A o \in Owners : /\ DOMAIN builds'[o] = BuildFields
                           /\ \/ builds'[o].found = builds[o].found
                              \/ builds'[o].found = NothingFound
  PROVE  FoundsOK'
<1>1. ASSUME NEW o \in Owners PROVE \E p : \A v \in builds'[o].found.versions : Reading(p, v)'
  <2>1. CASE builds'[o].found = builds[o].found
    BY <2>1, ReadingStays DEF FoundsOK
  <2>2. CASE builds'[o].found = NothingFound
    BY <2>2 DEF NothingFound
  <2> QED  BY <2>1, <2>2
<1> QED  BY <1>1 DEF FoundsOK

LEMMA NewBuilds ==
  /\ DOMAIN NoBuild = BuildFields /\ NoBuild.found = NothingFound
  /\ \A o : DOMAIN NewBuild(o) = BuildFields /\ NewBuild(o).found = NothingFound
BY DEF NoBuild, NewBuild, BuildFields

LEMMA JobsStay ==
  ASSUME FoundsOK, DocStays, NEW o \in Owners,
         \/ Scores(o) \/ Done(o) \/ RoundEnds(o) \/ LooksAgain(o) \/ HasWaited(o) \/ ReadFails(o)
  PROVE  FoundsOK'
<1>1. /\ DOMAIN builds' = Owners
      /\ \A q \in Owners \ {o} : builds'[q] = builds[q]
      /\ DOMAIN builds'[o] = BuildFields /\ builds'[o].found = builds[o].found
  <2> USE DEF FoundsOK, BuildFields
  <2>1. CASE Scores(o)  BY <2>1 DEF Scores
  <2>2. CASE Done(o)  BY <2>2 DEF Done
  <2>3. CASE RoundEnds(o)  BY <2>3 DEF RoundEnds
  <2>4. CASE LooksAgain(o)  BY <2>4 DEF LooksAgain
  <2>5. CASE HasWaited(o)  BY <2>5 DEF HasWaited
  <2>6. CASE ReadFails(o)  BY <2>6 DEF ReadFails
  <2> QED  BY <2>1, <2>2, <2>3, <2>4, <2>5, <2>6
<1> QED  BY <1>1, FoundsStay DEF FoundsOK

LEMMA LooksStays ==
  ASSUME FoundsOK, DocStays, NEW o \in Owners, Looks(o)
  PROVE  FoundsOK'
<1>0. PICK p, found : p = Head(builds[o].looking) /\ found = FoundOf(p)
  OBVIOUS
<1>1. /\ DOMAIN builds' = Owners
      /\ \A q \in Owners \ {o} : builds'[q] = builds[q]
      /\ DOMAIN builds'[o] = BuildFields /\ builds'[o].found = found
  <2>1. builds' = [builds EXCEPT ![o].at = "take", ![o].found = found]
    BY <1>0, ZenonT(30) DEF Looks
  <2> QED  BY <2>1 DEF FoundsOK, BuildFields
<1>2. \A v \in found.versions : Reading(p, v)'
  <2>1. \A v \in found.versions : Reading(p, v)  BY <1>0, FoundOfReading
  <2> QED  BY <2>1, ReadingStays
<1>3. ASSUME NEW q \in Owners PROVE \E r : \A v \in builds'[q].found.versions : Reading(r, v)'
  <2>1. CASE q = o  BY <2>1, <1>1, <1>2
  <2>2. CASE q # o  BY <2>2, <1>1, ReadingStays DEF FoundsOK
  <2> QED  BY <2>1, <2>2
<1>4. ASSUME NEW q \in Owners PROVE DOMAIN builds'[q] = BuildFields
  BY <1>1 DEF FoundsOK
<1> QED  BY <1>1, <1>3, <1>4 DEF FoundsOK

LEMMA TakesStays ==
  ASSUME FoundsOK, DocStays, NEW o \in Owners, Takes(o)
  PROVE  FoundsOK'
<1>1. /\ DOMAIN builds' = Owners
      /\ \A q \in Owners \ {o} : builds'[q] = builds[q]
      /\ DOMAIN builds'[o] = BuildFields /\ builds'[o].found = NothingFound
  <2> DEFINE b == builds[o]
             next == [b EXCEPT !.at = "look", !.looking = Tail(@), !.found = NothingFound]
             owner == Head(b.looking)
  <2>1. DOMAIN next = BuildFields /\ next.found = NothingFound  BY DEF FoundsOK, BuildFields
  <2> HIDE DEF next
  <2>2. CASE Ready(b)
    <3>1. builds' = [builds EXCEPT ![o] = With(o, next, ReadInto(b, owner))]
      BY <2>2 DEF Takes, next
    <3>2. DOMAIN With(o, next, ReadInto(b, owner)) = BuildFields
          /\ With(o, next, ReadInto(b, owner)).found = NothingFound
      BY <2>1 DEF With, BuildFields
    <3> QED  BY <3>1, <3>2 DEF FoundsOK
  <2>3. CASE ~Ready(b)
    <3>1. builds' = [builds EXCEPT ![o] = [next EXCEPT !.still = Append(@, owner)]]
      BY <2>3 DEF Takes, next
    <3> QED  BY <3>1, <2>1 DEF FoundsOK, BuildFields
  <2> QED  BY <2>2, <2>3
<1> QED  BY <1>1, FoundsStay DEF FoundsOK

LEMMA HandedStays ==
  ASSUME FoundsOK, DocStays, NEW o \in Owners, NEW entries, builds' = Handed(o, entries)
  PROVE  FoundsOK'
<1> DEFINE b == [With(o, builds[o], [builds[o].lists EXCEPT ![o] = entries])
                   EXCEPT !.handed = entries, !.changes = @ + 1, !.reading = TRUE]
<1>1. DOMAIN b = BuildFields /\ b.found = builds[o].found  BY DEF With, FoundsOK, BuildFields
<1>2. \/ builds' = builds
      \/ builds' = [builds EXCEPT ![o] = b]
      \/ builds' = [builds EXCEPT ![o] = [b EXCEPT !.at = "score", !.failed = FALSE]]
  BY DEF Handed
<1> HIDE DEF b
<1>3. /\ DOMAIN builds' = Owners
      /\ \A q \in Owners \ {o} : builds'[q] = builds[q]
      /\ DOMAIN builds'[o] = BuildFields /\ builds'[o].found = builds[o].found
  BY <1>1, <1>2 DEF FoundsOK, BuildFields
<1> QED  BY <1>3, FoundsStay DEF FoundsOK

(* Builds end, and others start in their place. *)
LEMMA EndsStay ==
  ASSUME FoundsOK, DocStays, DOMAIN builds' = Owners,
         \A o \in Owners : builds'[o] \in {builds[o], NoBuild, NewBuild(o)}
  PROVE  FoundsOK'
BY FoundsStay, NewBuilds DEF FoundsOK

LEMMA MeIsOwner == Me \in Owners /\ People \subseteq Owners
BY DEF Owners

LEMMA SessionsStay ==
  ASSUME FoundsOK, DocStays,
         \/ \E p \in People : SignsIn(p)
         \/ \E t \in Tokens : Uses(t) \/ SignsOut(t)
         \/ Rebuilds
  PROVE  FoundsOK'
<1>1. CASE \E p \in People : SignsIn(p)
  <2>1. PICK p \in People : builds' = [BuildsWithout(Idle) EXCEPT ![p] = NewBuild(p)]
    BY <1>1 DEF SignsIn, StartsSession
  <2> QED  BY <2>1, EndsStay DEF BuildsWithout
<1>2. CASE \E t \in Tokens : Uses(t) \/ SignsOut(t)
  <2>1. PICK t \in Tokens : builds' = BuildsWithout({t})
    BY <1>2 DEF Uses, SignsOut, Forget
  <2> QED  BY <2>1, EndsStay DEF BuildsWithout
<1>3. CASE Rebuilds
  <2>1. builds' = [builds EXCEPT ![Me] = NewBuild(Me)]  BY <1>3 DEF Rebuilds
  <2> QED  BY <2>1, EndsStay, MeIsOwner DEF FoundsOK
<1> QED  BY <1>1, <1>2, <1>3

LEMMA RestartStays ==
  ASSUME FoundsOK, DocStays, Restarts
  PROVE  FoundsOK'
<1>1. builds' = [o \in Owners |-> IF o = Me THEN NewBuild(Me) ELSE NoBuild]  BY DEF Restarts, FirstBuilds
<1> QED  BY <1>1, EndsStay

(* What a build that ends may yet have shunned is older than another. *)
LEMMA LeavesOutclassed ==
  ASSUME DocOK, FoundsOK, LateOK, NEW owners \in SUBSET Owners
  PROVE  \A i \in AllLeave(owners) : Outclassed(i)
<1>1. ASSUME NEW o \in Owners, NEW i \in Leaves(o) PROVE Outclassed(i)
  <2> DEFINE S == builds[o].found.versions
  <2>1. PICK p : \A v \in S : Reading(p, v)  BY DEF FoundsOK
  <2>2. i \in IdsOf(Replaced(S))  BY DEF Leaves
  <2>3. S # {}  BY <2>2 DEF Replaced, IdsOf
  <2>4. /\ Newest(S) \in S /\ i \in DOMAIN doc /\ doc[i].owner = p
        /\ Newer(VersionOf(Newest(S).id), VersionOf(i))
    <3> HIDE DEF S
    <3> QED  BY <2>1, <2>2, <2>3, ReplacedOutclassed
  <2>5. Reading(p, Newest(S))  BY <2>1, <2>4
  <2> QED  BY <2>4, <2>5 DEF Reading, Outclassed
<1> QED  BY <1>1 DEF AllLeave, LateOK

-----------------------------------------------------------------------------
(* Changes to a list go on reading versions of it. *)

LEMMA EditsStay ==
  ASSUME EditsOK, DocStays, DOMAIN turn' = Owners, DOMAIN placed' = Owners, DOMAIN remembered' = Owners,
         \A o \in Owners :
           /\ DOMAIN turn'[o] = TurnFields
           /\ \A v \in turn'[o].held.versions : v \in turn[o].held.versions \/ Reading(o, v)'
           /\ \A v \in remembered'[o] : v \in remembered[o] \/ Reading(o, v)'
           /\ \/ placed'[o] = placed[o] /\ (turn'[o].at = "tell" => turn[o].at = "tell")
              \/ \E i : placed'[o] = Append(placed[o], i) /\ i \in DOMAIN doc' /\ Reading(o, VersionOf(i))'
  PROVE  EditsOK'
<1>1. ASSUME NEW o \in Owners, NEW v \in turn'[o].held.versions \cup remembered'[o]
      PROVE  Reading(o, v)'
  BY <1>1, ReadingStays DEF EditsOK
<1>2. ASSUME NEW o \in Owners
      PROVE  /\ placed'[o] \in Seq(DOMAIN doc')
             /\ \A k \in DOMAIN placed'[o] : Reading(o, VersionOf(placed[o][k]))'
             /\ turn'[o].at = "tell" => placed'[o] # <<>>
  <2>1. placed[o] \in Seq(DOMAIN doc) /\ DOMAIN doc \subseteq DOMAIN doc'
    BY DEF EditsOK, DocStays, Stays
  <2>2. placed[o] \in Seq(DOMAIN doc')  BY <2>1, SMT
  <2>3. ASSUME NEW k \in DOMAIN placed[o], placed'[o][k] = placed[o][k]
        PROVE  Reading(o, VersionOf(placed[o][k]))'
    <3>1. PICK i : i = placed[o][k]  OBVIOUS
    <3>2. PICK v : v = VersionOf(i)  OBVIOUS
    <3>3. i \in DOMAIN doc /\ Reading(o, v)  BY <3>1, <3>2, <2>1, SMT DEF EditsOK
    <3>4. VersionOf(i)' = v  BY <3>2, <3>3 DEF DocStays, Stays, VersionOf, Version
    <3>5. Reading(o, v)'  BY <3>3, ReadingStays
    <3>6. i = placed'[o][k]  BY <3>1, <2>3
    <3> QED  BY <3>6, <3>4, <3>5
  <2>4. CASE placed'[o] = placed[o] /\ (turn'[o].at = "tell" => turn[o].at = "tell")
    BY <2>2, <2>3, <2>4 DEF EditsOK
  <2>5. CASE \E i : placed'[o] = Append(placed[o], i) /\ i \in DOMAIN doc' /\ Reading(o, VersionOf(i))'
    <3>1. PICK i \in DOMAIN doc' : placed'[o] = Append(placed[o], i) /\ Reading(o, VersionOf(i))'
      BY <2>5
    <3>2. placed'[o] \in Seq(DOMAIN doc') /\ placed'[o] # <<>>  BY <3>1, <2>2, SMT
    <3>3. ASSUME NEW k \in DOMAIN placed'[o]
          PROVE  (k \in DOMAIN placed[o] /\ placed'[o][k] = placed[o][k]) \/ placed'[o][k] = i
      BY <3>1, <2>2, SMT
    <3>4. ASSUME NEW k \in DOMAIN placed'[o] PROVE Reading(o, VersionOf(placed[o][k]))'
      <4>1. CASE placed'[o][k] = i  BY <4>1, <3>1
      <4>2. CASE k \in DOMAIN placed[o] /\ placed'[o][k] = placed[o][k]  BY <4>2, <2>3
      <4> QED  BY <3>3, <4>1, <4>2
    <3> QED  BY <3>2, <3>4
  <2> QED  BY <2>4, <2>5
<1> QED  BY <1>1, <1>2 DEF EditsOK

LEMMA Turns ==
  /\ DOMAIN NoTurn = TurnFields /\ NoTurn.held = NothingFound /\ NoTurn.at = "free"
  /\ \A by, identity, trusted :
       LET t == Turn(by, identity, trusted)
       IN DOMAIN t = TurnFields /\ t.held = NothingFound /\ t.at = "read"
  /\ NothingFound.versions = {}
BY DEF NoTurn, Turn, TurnFields, NothingFound

LEMMA TurnsStay ==
  ASSUME EditsOK, DocStays,
         \/ \E o \in Owners : \/ ReadsFail(o) \/ PlaceFails(o)
                             \/ \E identity, trusted : Asks(o, identity, trusted)
         \/ Distrusts
  PROVE  EditsOK'
<1>1. UNCHANGED <<remembered, placed>>
  BY DEF ReadsFail, PlaceFails, Asks, Distrusts
<1>2. \/ turn' = turn
      \/ \E o \in Owners : turn' = [turn EXCEPT ![o] = NoTurn]
      \/ \E o \in Owners : \E by, identity, trusted :
             turn' = [turn EXCEPT ![o] = Turn(by, identity, trusted)]
  BY MeIsOwner DEF ReadsFail, PlaceFails, Asks, Distrusts, Answers
<1>3. /\ DOMAIN turn' = Owners
      /\ \A o \in Owners :
           \/ turn'[o] = turn[o]
           \/ turn'[o] = NoTurn
           \/ \E by, identity, trusted : turn'[o] = Turn(by, identity, trusted)
  BY <1>2 DEF EditsOK
<1>4. ASSUME NEW o \in Owners
      PROVE  /\ DOMAIN turn'[o] = TurnFields
             /\ \A v \in turn'[o].held.versions : v \in turn[o].held.versions
             /\ turn'[o].at = "tell" => turn[o].at = "tell"
  BY <1>3, Turns DEF EditsOK
<1> QED  BY <1>1, <1>3, <1>4, EditsStay DEF EditsOK

LEMMA ReadsStays ==
  ASSUME EditsOK, DocStays, NEW o \in Owners, Reads(o)
  PROVE  EditsOK'
<1>1. PICK held : held = HeldOf(o)  OBVIOUS
<1>2. \A v \in held.versions : Reading(o, v)
  <2>1. held.versions = FoundOf(o).versions \cup remembered[o]
    BY <1>1 DEF HeldOf, FoundOf
  <2> QED  BY <2>1, FoundOfReading DEF EditsOK
<1>3. UNCHANGED placed /\ DOMAIN remembered' = Owners
      /\ \A q \in Owners : \A v \in remembered'[q] : v \in remembered[q]
  <2>1. /\ UNCHANGED placed
        /\ remembered' =
             [remembered EXCEPT ![o] = IF @ \subseteq FoundOf(o).versions THEN {} ELSE @]
    BY ZenonT(30) DEF Reads
  <2> QED  BY <2>1 DEF EditsOK
<1>4. \/ turn' = [turn EXCEPT ![o] = NoTurn]
      \/ turn' = [turn EXCEPT ![o].at = "place", ![o].held = held]
  <2>1. \/ \E missing : Answers(o, missing)
        \/ turn' = [turn EXCEPT ![o].at = "place", ![o].held = HeldOf(o)]
    BY ZenonT(30) DEF Reads
  <2> QED  BY <2>1, <1>1 DEF Answers
<1>5. /\ DOMAIN turn' = Owners
      /\ \A q \in Owners \ {o} : turn'[q] = turn[q]
      /\ \/ turn'[o] = NoTurn
         \/ DOMAIN turn'[o] = TurnFields /\ turn'[o].held = held /\ turn'[o].at = "place"
  <2>1. CASE turn' = [turn EXCEPT ![o] = NoTurn]  BY <2>1 DEF EditsOK
  <2>2. CASE turn' = [turn EXCEPT ![o].at = "place", ![o].held = held]
    BY <2>2 DEF EditsOK, TurnFields
  <2> QED  BY <1>4, <2>1, <2>2
<1>6. \A v \in held.versions : Reading(o, v)'  BY <1>2, ReadingStays
<1>7. ASSUME NEW q \in Owners
      PROVE  /\ DOMAIN turn'[q] = TurnFields
             /\ \A v \in turn'[q].held.versions : v \in turn[q].held.versions \/ Reading(q, v)'
             /\ turn'[q].at = "tell" => turn[q].at = "tell"
  BY <1>5, <1>6, Turns DEF EditsOK
<1> QED  BY <1>3, <1>5, <1>7, EditsStay DEF EditsOK

(* What is placed is newer than all that was read, and is here. *)
NextId == CHOOSE i \in Ids \ DOMAIN doc : TRUE
Made(o) ==
  [owner |-> o, number |-> next_number(turn[o].held.versions), shunned |-> "no", at |-> "uploaded",
   entries |-> [EntriesOf(turn[o].held.versions) EXCEPT ![turn[o].identity] = turn[o].trusted]]

LEMMA MadeNewest ==
  ASSUME DocOK, EditsOK, NEW o \in Owners
  PROVE  /\ next_number(turn[o].held.versions) \in Nat
         /\ \A v \in turn[o].held.versions : v.number < next_number(turn[o].held.versions)
<1>1. PICK S : S = turn[o].held.versions  OBVIOUS
<1>2. \A v \in S : Reading(o, v)  BY <1>1 DEF EditsOK
<1>3. IsFiniteSet(S) /\ AreVersions(S)  BY <1>2, ReadingVersions
<1>4. CASE S = {}  BY <1>1, <1>4 DEF next_number
<1>5. CASE S # {}
  <2>1. Newest(S) \in S /\ \A w \in S \ {Newest(S)} : Newer(Newest(S), w)
    BY <1>3, <1>5, NewestIsNewest
  <2>2. next_number(S) = Newest(S).number + 1  BY <1>5 DEF next_number
  <2> HIDE DEF Newest
  <2>3. Newest(S).number \in Nat /\ next_number(S) \in Nat  BY <2>1, <2>2, <1>3 DEF AreVersions
  <2>4. ASSUME NEW v \in S PROVE v.number < next_number(S)
    <3>1. v.number \in Nat  BY <1>3 DEF AreVersions
    <3>2. v.number <= Newest(S).number
      <4>1. v = Newest(S) \/ Newer(Newest(S), v)  BY <2>1
      <4> QED  BY <4>1, <3>1, <2>3 DEF Newer
    <3> QED  BY <3>1, <3>2, <2>2, <2>3
  <2> QED  BY <2>3, <2>4, <1>1
<1> QED  BY <1>4, <1>5

LEMMA PlacesDoc ==
  ASSUME DocOK, EditsOK, NewestNotShunned, NEW o \in Owners, Places(o)
  PROVE  /\ DocStays /\ DocOK' /\ NewestNotShunned'
         /\ \E i \in DOMAIN doc' : placed' = [placed EXCEPT ![o] = Append(@, i)] /\ Reading(o, VersionOf(i))'
<1>0. PICK versions, ids, i, made :
        /\ versions = turn[o].held.versions /\ ids = IdsOf(versions \ Replaced(versions))
        /\ i = NextId /\ made = Made(o)
  OBVIOUS
<1>1. /\ doc' = Joining(ShunAsked(ids), i, made)
      /\ placed' = [placed EXCEPT ![o] = Append(@, i)]
      /\ Ids \ DOMAIN doc # {}
  <2>1. /\ doc' = Joining(ShunAsked(IdsOf(turn[o].held.versions \ Replaced(turn[o].held.versions))),
                        NextId, Made(o))
        /\ placed' = [placed EXCEPT ![o] = Append(@, NextId)]
        /\ Ids \ DOMAIN doc # {}
    BY ZenonT(30) DEF Places, NextId, Made
  <2> QED  BY <2>1, <1>0, Zenon
<1>2. i \in Ids /\ i \notin DOMAIN doc /\ i \in Nat  BY <1>0, <1>1, BuildersAssumption DEF NextId
<1>3. /\ DOMAIN made = Fields /\ made.owner = o /\ made.shunned = "no" /\ made.at = "uploaded"
      /\ made.number = next_number(versions)
  BY <1>0 DEF Made, Fields
<1>4. made.number \in Nat /\ \A v \in versions : v.number < made.number  BY <1>0, <1>3, MadeNewest
<1>5. ASSUME NEW k \in ids
      PROVE  k \in DOMAIN doc /\ doc[k].owner = o /\ doc[k].number < made.number
  <2>1. PICK v \in versions : k = v.id  BY <1>0 DEF IdsOf
  <2>2. Reading(o, v)  BY <1>0, <2>1 DEF EditsOK
  <2> QED  BY <2>1, <2>2, <1>4 DEF Reading, VersionOf, Version
<1>6. /\ DOMAIN doc' = DOMAIN doc \cup {i}
      /\ doc'[i] = made
      /\ \A k \in DOMAIN doc : doc'[k] = ShunAsked(ids)[k]
  <2>1. DOMAIN ShunAsked(ids) = DOMAIN doc  BY DEF ShunAsked
  <2> QED  BY <1>1, <1>2, <2>1 DEF Joining
<1>7. ASSUME NEW k \in DOMAIN doc
      PROVE  /\ DOMAIN doc'[k] = Fields /\ doc'[k].number = doc[k].number
             /\ doc'[k].owner = doc[k].owner /\ doc'[k].entries = doc[k].entries
             /\ doc'[k].shunned = IF k \in ids /\ doc[k].shunned = "no" THEN "asked" ELSE doc[k].shunned
             /\ doc'[k].at = doc[k].at
  BY <1>6 DEF ShunAsked, DocOK, Fields
<1>8. DocStays  BY <1>6, <1>7 DEF DocStays, Stays
<1>9. DocOK'
  <2>1. IsFiniteSet(DOMAIN doc')  BY <1>6, FS_AddElement DEF DocOK
  <2> QED  BY <2>1, <1>2, <1>3, <1>4, <1>6, <1>7 DEF DocOK
<1>10. VersionOf(i)'.number = made.number /\ VersionOf(i)'.id = i
  BY <1>6 DEF VersionOf, Version
<1>11. \A k \in DOMAIN doc : VersionOf(k)' = VersionOf(k)
  BY <1>7 DEF VersionOf, Version
<1>12. ASSUME NEW k \in DOMAIN doc, doc[k].owner = o, doc[k].number < made.number
       PROVE  Newer(VersionOf(i)', VersionOf(k)') /\ doc'[i].owner = doc'[k].owner
  <2>1. VersionOf(k)'.number = doc[k].number  BY <1>11, VersionsTyped
  <2>2. doc[k].number \in Nat  BY DEF DocOK
  <2> QED  BY <2>1, <2>2, <1>10, <1>12, <1>4, <1>6, <1>7, <1>3 DEF Newer
<1>13. i \in At({"uploaded", "held"})'  BY <1>3, <1>6 DEF At
<1>14. ASSUME NEW k \in DOMAIN doc', doc'[k].shunned # "no"
       PROVE  \E j \in At({"uploaded", "held"})' :
                /\ doc'[j].owner = doc'[k].owner /\ doc'[j].shunned = "no"
                /\ Newer(VersionOf(j)', VersionOf(k)')
  <2>1. k \in DOMAIN doc  BY <1>6, <1>14, <1>3
  <2>2. CASE k \in ids  BY <2>2, <1>5, <1>12, <1>13, <1>3, <1>6
  <2>3. CASE k \notin ids
    <3>1. doc[k].shunned # "no"  BY <2>1, <2>3, <1>7, <1>14
    <3>2. PICK j \in At({"uploaded", "held"}) :
            doc[j].owner = doc[k].owner /\ doc[j].shunned = "no" /\ Newer(VersionOf(j), VersionOf(k))
      BY <2>1, <3>1 DEF NewestNotShunned
    <3>3. j \in DOMAIN doc  BY DEF At
    <3>4. CASE j \notin ids
      <4>1. j \in At({"uploaded", "held"})'  BY <3>3, <1>6, <1>7 DEF At
      <4> QED  BY <4>1, <3>2, <3>3, <3>4, <2>1, <1>7, <1>11
    <3>5. CASE j \in ids
      <4>1. doc[j].owner = o /\ doc[j].number < made.number  BY <3>5, <1>5
      <4>2. doc[k].number <= doc[j].number  BY <3>2, <3>3, <2>1, VersionsTyped DEF Newer
      <4>3. doc[k].number < made.number
        BY <4>1, <4>2, <2>1, <3>3, <1>4 DEF DocOK
      <4> QED  BY <4>1, <4>3, <3>2, <2>1, <1>12, <1>13, <1>3, <1>6
    <3> QED  BY <3>4, <3>5
  <2> QED  BY <2>2, <2>3
<1>15. NewestNotShunned'  BY <1>14 DEF NewestNotShunned
<1>16. Reading(o, VersionOf(i))'
  <2>1. VersionOf(i)'.id = i  BY <1>10
  <2> QED  BY <2>1, <1>6, <1>3 DEF Reading, Standing, Here
<1> QED  BY <1>1, <1>6, <1>8, <1>9, <1>15, <1>16

LEMMA PlacesStays ==
  ASSUME EditsOK, DocStays, NEW o \in Owners, Places(o),
         \E i \in DOMAIN doc' : placed' = [placed EXCEPT ![o] = Append(@, i)] /\ Reading(o, VersionOf(i))'
  PROVE  EditsOK'
<1>1. UNCHANGED remembered /\ turn' = [turn EXCEPT ![o].at = "tell"]  BY ZenonT(30) DEF Places
<1>2. PICK i \in DOMAIN doc' : placed' = [placed EXCEPT ![o] = Append(@, i)] /\ Reading(o, VersionOf(i))'
  OBVIOUS
<1>3. /\ DOMAIN turn' = Owners /\ DOMAIN placed' = Owners /\ DOMAIN remembered' = Owners
      /\ \A q \in Owners : DOMAIN turn'[q] = TurnFields /\ turn'[q].held = turn[q].held
      /\ \A q \in Owners \ {o} : turn'[q] = turn[q] /\ placed'[q] = placed[q]
      /\ placed'[o] = Append(placed[o], i)
  BY <1>1, <1>2 DEF EditsOK, TurnFields
<1> QED  BY <1>1, <1>2, <1>3, EditsStay

LEMMA TellsStays ==
  ASSUME EditsOK, DocStays, NEW o \in Owners, Tells(o)
  PROVE  EditsOK'
<1>1. PICK i, v : i = Last(placed[o]) /\ v = VersionOf(i)  OBVIOUS
<1>2. Reading(o, v)
  <2>1. placed[o] \in Seq(DOMAIN doc) /\ placed[o] # <<>>  BY DEF EditsOK, Tells
  <2>2. Len(placed[o]) \in DOMAIN placed[o] /\ i = placed[o][Len(placed[o])]  BY <2>1, <1>1, SMT DEF Last
  <2> QED  BY <2>2, <1>1 DEF EditsOK
<1>3. Reading(o, v)'  BY <1>2, ReadingStays
<1>4. /\ UNCHANGED placed /\ turn' = [turn EXCEPT ![o] = NoTurn]
      /\ remembered' = [remembered EXCEPT ![o] = {v}]
  <2>1. /\ UNCHANGED placed /\ turn' = [turn EXCEPT ![o] = NoTurn]
        /\ remembered' = [remembered EXCEPT ![o] = {VersionOf(Last(placed[o]))}]
    BY ZenonT(30) DEF Tells, Answers
  <2> QED  BY <2>1, <1>1
<1>5. /\ DOMAIN turn' = Owners /\ DOMAIN placed' = Owners /\ DOMAIN remembered' = Owners
      /\ \A q \in Owners : turn'[q] = turn[q] \/ turn'[q] = NoTurn
      /\ \A q \in Owners : remembered'[q] = IF q = o THEN {v} ELSE remembered[q]
  <2> HIDE DEF NoTurn
  <2> QED  BY <1>4 DEF EditsOK
<1>6. ASSUME NEW q \in Owners
      PROVE  /\ DOMAIN turn'[q] = TurnFields
             /\ \A w \in turn'[q].held.versions : w \in turn[q].held.versions
             /\ turn'[q].at = "tell" => turn[q].at = "tell"
             /\ \A w \in remembered'[q] : w \in remembered[q] \/ Reading(q, w)'
  BY <1>3, <1>5, Turns DEF EditsOK
<1> QED  BY <1>4, <1>5, <1>6, EditsStay

LEMMA RestartEdits ==
  ASSUME Restarts
  PROVE  EditsOK'
<1>1. /\ turn' = [o \in Owners |-> NoTurn] /\ placed' = [o \in Owners |-> <<>>]
      /\ remembered' = [o \in Owners |-> {}]
  BY DEF Restarts, NoEdits, NonePlaced, NoneRemembered
<1> QED  BY <1>1, Turns DEF EditsOK

-----------------------------------------------------------------------------
(* Every step leaves a list its newest version. *)

LEMMA NewestStays ==
  ASSUME DocStays, NewestNotShunned,
         \A i \in DOMAIN doc' :
           doc'[i].shunned # "no" => i \in DOMAIN doc /\ doc[i].shunned # "no",
         \A i \in DOMAIN doc : doc[i].shunned = "no" => doc'[i].shunned = "no"
  PROVE  NewestNotShunned'
<1> SUFFICES ASSUME NEW i \in DOMAIN doc', doc'[i].shunned # "no"
             PROVE  \E j \in At({"uploaded", "held"})' :
                      /\ doc'[j].owner = doc'[i].owner /\ doc'[j].shunned = "no"
                      /\ Newer(VersionOf(j)', VersionOf(i)')
  BY DEF NewestNotShunned
<1>1. i \in DOMAIN doc /\ doc[i].shunned # "no"  OBVIOUS
<1>2. PICK j \in At({"uploaded", "held"}) :
        doc[j].owner = doc[i].owner /\ doc[j].shunned = "no" /\ Newer(VersionOf(j), VersionOf(i))
  BY <1>1 DEF NewestNotShunned
<1>3. j \in DOMAIN doc /\ doc[j].at \in Here  BY DEF At, Here
<1>4. Stays(i) /\ Stays(j)  BY <1>1, <1>3 DEF DocStays
<1>5. VersionOf(i)' = VersionOf(i) /\ VersionOf(j)' = VersionOf(j)
  BY <1>4 DEF Stays, VersionOf, Version
<1>6. doc'[j].shunned = "no" /\ j \in At({"uploaded", "held"})'
  BY <1>2, <1>3, <1>4 DEF Stays, At, Here
<1> QED  BY <1>2, <1>4, <1>5, <1>6 DEF Stays

LEMMA AnswersDoc ==
  ASSUME DocOK, NewestNotShunned, NEW i \in DOMAIN doc,
         Stores(i) \/ Shuns(i) \/ Hears(i) \/ Arrives(i)
  PROVE  DocStays /\ DocOK' /\ NewestNotShunned'
<1>1. \/ doc' = [doc EXCEPT ![i].at = IF i \in Unshunned THEN "held" ELSE "gone"]
      \/ doc[i].shunned = "asked" /\ doc' = [doc EXCEPT ![i].shunned = "shunned"]
      \/ i \in At({"elsewhere"}) /\ doc' = [doc EXCEPT ![i].at = "known"]
      \/ doc' = [doc EXCEPT ![i].at = "held"]
  BY DEF Stores, Shuns, Hears, Arrives
<1>2. \/ \E at : /\ doc' = [doc EXCEPT ![i] = [@ EXCEPT !.at = at]]
                 /\ doc[i].shunned = "no" /\ doc[i].at \in Here => at \in Here
      \/ doc[i].shunned = "asked" /\ doc' = [doc EXCEPT ![i] = [@ EXCEPT !.shunned = "shunned"]]
  <2>1. ASSUME doc[i].shunned = "no" PROVE i \in Unshunned  BY <2>1 DEF Unshunned
  <2>2. ASSUME i \in At({"elsewhere"}) PROVE doc[i].at \notin Here  BY <2>2 DEF At, Here
  <2> QED  BY <1>1, <2>1, <2>2 DEF Here
<1>3. /\ DOMAIN doc' = DOMAIN doc
      /\ \A k \in DOMAIN doc :
           /\ DOMAIN doc'[k] = Fields /\ doc'[k].number = doc[k].number
           /\ doc'[k].owner = doc[k].owner /\ doc'[k].entries = doc[k].entries
           /\ \/ doc'[k].shunned = doc[k].shunned
              \/ doc[k].shunned = "asked" /\ doc'[k].shunned = "shunned"
           /\ (doc[k].shunned = "no" /\ doc[k].at \in Here) => doc'[k].at \in Here
  <2>1. CASE \E at : /\ doc' = [doc EXCEPT ![i] = [@ EXCEPT !.at = at]]
                     /\ doc[i].shunned = "no" /\ doc[i].at \in Here => at \in Here
    <3>1. PICK at : /\ doc' = [doc EXCEPT ![i] = [@ EXCEPT !.at = at]]
                    /\ doc[i].shunned = "no" /\ doc[i].at \in Here => at \in Here
      BY <2>1
    <3>2. DOMAIN doc' = DOMAIN doc /\ \A k \in DOMAIN doc \ {i} : doc'[k] = doc[k]  BY <3>1
    <3>3. doc'[i] = [doc[i] EXCEPT !.at = at]  BY <3>1
    <3> QED  BY <3>1, <3>2, <3>3 DEF DocOK, Fields
  <2>2. CASE doc[i].shunned = "asked" /\ doc' = [doc EXCEPT ![i] = [@ EXCEPT !.shunned = "shunned"]]
    <3>1. DOMAIN doc' = DOMAIN doc /\ \A k \in DOMAIN doc \ {i} : doc'[k] = doc[k]  BY <2>2
    <3>2. doc'[i] = [doc[i] EXCEPT !.shunned = "shunned"]  BY <2>2
    <3> QED  BY <2>2, <3>1, <3>2 DEF DocOK, Fields
  <2> QED  BY <1>2, <2>1, <2>2
<1>4. DocOK'  BY <1>3 DEF DocOK
<1>5. DocStays  BY <1>3 DEF DocStays, Stays
<1> QED  BY <1>3, <1>4, <1>5, NewestStays

LEMMA ElsewhereDoc ==
  ASSUME DocOK, NewestNotShunned, NEW o \in Identities, PlacesElsewhere(o)
  PROVE  DocStays /\ DocOK' /\ NewestNotShunned'
<1>1. PICK versions : versions = VersionsOf(o, DOMAIN doc)  OBVIOUS
<1>2. next_number(versions) \in Nat
  <2>1. CASE versions = {}  BY <2>1 DEF next_number
  <2>2. CASE versions # {}
    <3>1. IsFiniteSet(versions) /\ AreVersions(versions)
      <4>1. IsFiniteSet({VersionOf(i) : i \in DOMAIN doc})
        <5> DEFINE f == [i \in DOMAIN doc |-> VersionOf(i)]
        <5>1. f \in Surjection(DOMAIN doc, {VersionOf(i) : i \in DOMAIN doc})  BY DEF Surjection
        <5> HIDE DEF f
        <5> QED  BY <5>1, FS_Surjection DEF DocOK
      <4>2. versions \subseteq {VersionOf(i) : i \in DOMAIN doc}  BY <1>1 DEF VersionsOf
      <4>3. AreVersions({VersionOf(i) : i \in DOMAIN doc})
        BY VersionsTyped DEF AreVersions
      <4> QED  BY <4>1, <4>2, <4>3, FS_Subset DEF AreVersions
    <3>2. Newest(versions) \in versions  BY <3>1, <2>2, NewestIsNewest
    <3> QED  BY <3>1, <3>2, <2>2 DEF next_number, AreVersions
  <2> QED  BY <2>1, <2>2
<1>3. PICK i, entries :
        /\ i \in Elsewhere \ DOMAIN doc
        /\ doc' = Joining(doc, i, [owner |-> o, number |-> next_number(versions), shunned |-> "no",
                                   at |-> "elsewhere", entries |-> entries])
  <2>1. \E i \in Elsewhere \ DOMAIN doc, wish \in Wishes :
          doc' = Joining(doc, i, [owner |-> o, number |-> next_number(VersionsOf(o, DOMAIN doc)),
                                  shunned |-> "no", at |-> "elsewhere",
                                  entries |-> [EntriesOf(VersionsOf(o, DOMAIN doc)) EXCEPT ![wish[1]] = wish[2]]])
    BY ZenonT(30) DEF PlacesElsewhere
  <2> QED  BY <2>1, <1>1
<1>4. /\ DOMAIN doc' = DOMAIN doc \cup {i} /\ i \in Nat
      /\ \A k \in DOMAIN doc : doc'[k] = doc[k]
      /\ DOMAIN doc'[i] = Fields /\ doc'[i].number \in Nat /\ doc'[i].shunned = "no"
  BY <1>2, <1>3, BuildersAssumption DEF Joining, Fields
<1>5. DocOK'
  <2>1. IsFiniteSet(DOMAIN doc')  BY <1>4, FS_AddElement DEF DocOK
  <2> QED  BY <2>1, <1>4 DEF DocOK
<1>6. DocStays  BY <1>4 DEF DocStays, Stays
<1> QED  BY <1>4, <1>5, <1>6, NewestStays

LEMMA LateShunsDoc ==
  ASSUME DocOK, NewestNotShunned, LateOK, LateShuns
  PROVE  DocStays /\ DocOK' /\ NewestNotShunned'
<1>1. PICK i \in late : doc' = ShunAsked({i})  BY DEF LateShuns
<1>2. PICK j \in DOMAIN doc : /\ doc[j].owner = doc[i].owner /\ Standing(j)
                              /\ Newer(VersionOf(j), VersionOf(i)) /\ i \in DOMAIN doc
  BY DEF LateOK, Outclassed
<1>3. NewestNotShunned'  BY <1>1, <1>2, ShunOlder
<1> QED  BY <1>1, <1>3, ShunAskedStays

LEMMA ReadingDoc ==
  ASSUME ShunsOnlyOlder, NEW o \in Owners, Looks(o) \/ Takes(o) \/ Reads(o)
  PROVE  DocStays /\ DocOK' /\ NewestNotShunned'
<1> USE DEF ShunsOnlyOlder
<1>1. ASSUME NEW ids, doc' = AskedFor(ids) PROVE DocStays /\ DocOK' /\ NewestNotShunned'
  <2>1. DocStays /\ DocOK' /\ DOMAIN doc' = DOMAIN doc
        /\ \A i \in DOMAIN doc : doc'[i].shunned = doc[i].shunned
    BY <1>1, AskedForStays
  <2> QED  BY <2>1, NewestStays
<1>2. ASSUME UNCHANGED doc PROVE DocStays /\ DocOK' /\ NewestNotShunned'
  <2>1. DocStays /\ DocOK'  BY <1>2, DocUnchanged
  <2> QED  BY <1>2, <2>1, NewestStays
<1>3. ASSUME NEW p, NEW S, \A v \in S : Reading(p, v), doc' = ShunAsked(IdsOf(Replaced(S)))
      PROVE  DocStays /\ DocOK' /\ NewestNotShunned'
  BY <1>3, ShunReplaced, ShunAskedStays
<1>4. CASE Looks(o)
  <2>1. \E ids : doc' = AskedFor(ids)  BY <1>4 DEF Looks
  <2> QED  BY <2>1, <1>1
<1>5. CASE Takes(o)
  <2>1. doc' = ShunAsked(IdsOf(Replaced(builds[o].found.versions))) \/ UNCHANGED doc
    BY <1>5, ZenonT(30) DEF Takes
  <2>2. PICK p : \A v \in builds[o].found.versions : Reading(p, v)  BY DEF FoundsOK
  <2> QED  BY <2>1, <2>2, <1>2, <1>3
<1>6. CASE Reads(o)
  <2>1. \/ \E ids : doc' = AskedFor(ids)
        \/ doc' = ShunAsked(IdsOf(Replaced(HeldOf(o).versions)))
    BY <1>6, ZenonT(30) DEF Reads, Outdated
  <2>2. \A v \in HeldOf(o).versions : Reading(o, v)
    <3>1. HeldOf(o).versions = FoundOf(o).versions \cup remembered[o]
      BY DEF HeldOf, FoundOf
    <3> QED  BY <3>1, FoundOfReading DEF EditsOK
  <2> QED  BY <2>1, <2>2, <1>1, <1>3
<1> QED  BY <1>4, <1>5, <1>6

-----------------------------------------------------------------------------
(* Sessions, and what the builds that end with them leave to be shunned. *)

LEMMA LateStays ==
  ASSUME DocOK, FoundsOK, LateOK, DocStays,
         NEW owners \in SUBSET Owners, late' \subseteq AllLeave(owners)
  PROVE  LateOK'
BY LeavesOutclassed, OutclassedStays DEF LateOK

LEMMA SameLate ==
  ASSUME DocOK, FoundsOK, LateOK, DocStays, late' \subseteq late
  PROVE  LateOK'
BY OutclassedStays DEF LateOK

LEMMA LeftAreOwners ==
  ASSUME SessionsOK, NEW gone \in SUBSET Tokens
  PROVE  LeftWithNone(gone) \subseteq Owners
BY DEF SessionsOK, LeftWithNone, PeopleIn

LEMMA KeptTyped ==
  ASSUME SessionsOK, NEW gone
  PROVE  Kept(gone) \in [Tokens -> [person : Owners, idle : BOOLEAN]]
BY MeIsOwner DEF SessionsOK, Kept, NoSession

LEMMA SessionSteps ==
  ASSUME ShunsOnlyOlder, DocStays,
         \/ \E p \in People : SignsIn(p)
         \/ \E t \in Tokens : Uses(t) \/ SignsOut(t)
         \/ Rebuilds
  PROVE  LateOK' /\ SessionsOK'
<1> USE DEF ShunsOnlyOlder
<1>1. CASE \E p \in People : SignsIn(p)
  <2>1. PICK p \in People : SignsIn(p)  BY <1>1
  <2>2. Idle \subseteq Tokens  BY DEF Idle, Live
  <2>3. {p} \cup LeftWithNone(Idle) \subseteq Owners  BY <2>2, LeftAreOwners, MeIsOwner
  <2>4. late' = AllLeave({p} \cup LeftWithNone(Idle))  BY <2>1 DEF SignsIn, StartsSession
  <2>5. \E t \in Tokens : sessions' = [Kept(Idle) EXCEPT ![t] = [person |-> p, idle |-> FALSE]]
    BY <2>1 DEF SignsIn, StartsSession
  <2>6. SessionsOK'  BY <2>5, KeptTyped, MeIsOwner DEF SessionsOK
  <2> QED  BY <2>3, <2>4, <2>6, LateStays
<1>2. CASE \E t \in Tokens : Uses(t) \/ SignsOut(t)
  <2>1. PICK t \in Tokens : sessions' = Kept({t}) /\ late' = AllLeave(LeftWithNone({t}))
    BY <1>2 DEF Uses, SignsOut, Forget
  <2>2. SessionsOK'  BY <2>1, KeptTyped DEF SessionsOK
  <2>3. LeftWithNone({t}) \subseteq Owners  BY LeftAreOwners
  <2> QED  BY <2>1, <2>2, <2>3, LateStays
<1>3. CASE Rebuilds
  <2>1. late' = AllLeave({Me}) /\ UNCHANGED sessions  BY <1>3 DEF Rebuilds
  <2> QED  BY <2>1, MeIsOwner, LateStays DEF SessionsOK
<1> QED  BY <1>1, <1>2, <1>3

-----------------------------------------------------------------------------
(* The invariant holds at first, and every step keeps it. *)

LEMMA DocSame ==
  ASSUME ShunsOnlyOlder, UNCHANGED doc
  PROVE  DocStays /\ DocOK' /\ NewestNotShunned'
<1>1. DocStays /\ DocOK'  BY DocUnchanged DEF ShunsOnlyOlder
<1> QED  BY <1>1, NewestStays DEF ShunsOnlyOlder

LEMMA SameBuilds ==
  ASSUME FoundsOK, DocStays, UNCHANGED builds
  PROVE  FoundsOK'
BY FoundsStay DEF FoundsOK

LEMMA SameEdits ==
  ASSUME EditsOK, DocStays, UNCHANGED edits
  PROVE  EditsOK'
BY EditsStay DEF EditsOK, edits

LEMMA InitShunsOnlyOlder == Init => ShunsOnlyOlder
<1> SUFFICES ASSUME Init PROVE ShunsOnlyOlder
  OBVIOUS
<1>1. PICK start \in Starts :
        /\ doc = start.doc /\ late = {} /\ sessions = [t \in Tokens |-> NoSession]
        /\ turn = NoEdits /\ placed = NonePlaced /\ remembered = NoneRemembered
        /\ builds = FirstBuilds \/ builds = [FirstBuilds EXCEPT ![Me] = Built]
  BY DEF Init
<1>2. DocOK /\ NewestNotShunned
  BY <1>1, StartsAssumption DEF DocOK, NewestNotShunned, Fields
<1>3. FoundsOK
  <2>1. DOMAIN Built = BuildFields /\ Built.found = NothingFound
    BY NewBuilds DEF Built, BuildFields
  <2>2. ASSUME NEW o \in Owners PROVE builds[o] \in {NoBuild, NewBuild(o), Built}
    BY <1>1 DEF FirstBuilds
  <2>3. DOMAIN builds = Owners  BY <1>1 DEF FirstBuilds
  <2>4. NothingFound.versions = {}  BY Turns
  <2> HIDE DEF NoBuild, NewBuild, Built
  <2> QED  BY <2>1, <2>2, <2>3, <2>4, NewBuilds DEF FoundsOK
<1>4. EditsOK
  BY <1>1, Turns DEF EditsOK, NoEdits, NonePlaced, NoneRemembered
<1>5. LateOK /\ SessionsOK
  BY <1>1, MeIsOwner DEF LateOK, SessionsOK, NoSession
<1> QED  BY <1>2, <1>3, <1>4, <1>5 DEF ShunsOnlyOlder

LEMMA NextShunsOnlyOlder ==
  ASSUME ShunsOnlyOlder, [Next]_vars
  PROVE  ShunsOnlyOlder'
<1> USE DEF ShunsOnlyOlder
<1>1. CASE \E o \in Owners :
             Scores(o) \/ Done(o) \/ RoundEnds(o) \/ LooksAgain(o) \/ HasWaited(o) \/ ReadFails(o)
  <2>1. UNCHANGED <<doc, late, sessions, edits>>
    BY <1>1 DEF Scores, Done, RoundEnds, LooksAgain, HasWaited, ReadFails
  <2>2. DocStays /\ DocOK' /\ NewestNotShunned'  BY <2>1, DocSame
  <2> QED  BY <1>1, <2>1, <2>2, JobsStay, SameEdits, SameLate DEF SessionsOK
<1>2. CASE \E o \in Owners : Looks(o) \/ Takes(o)
  <2>1. UNCHANGED <<late, sessions, edits>>  BY <1>2, ZenonT(30) DEF Looks, Takes
  <2>2. DocStays /\ DocOK' /\ NewestNotShunned'  BY <1>2, ReadingDoc
  <2> QED  BY <1>2, <2>1, <2>2, LooksStays, TakesStays, SameEdits, SameLate DEF SessionsOK
<1>3. CASE \E o \in Owners : Reads(o)
  <2>1. UNCHANGED <<late, sessions, builds>>  BY <1>3, ZenonT(30) DEF Reads
  <2>2. DocStays /\ DocOK' /\ NewestNotShunned'  BY <1>3, ReadingDoc
  <2> QED  BY <1>3, <2>1, <2>2, ReadsStays, SameBuilds, SameLate DEF SessionsOK
<1>4. CASE \E o \in Owners : Places(o)
  <2>1. UNCHANGED <<late, sessions, builds>>  BY <1>4, ZenonT(30) DEF Places
  <2>2. PICK o \in Owners : Places(o)  BY <1>4
  <2>3. /\ DocStays /\ DocOK' /\ NewestNotShunned'
        /\ \E i \in DOMAIN doc' : placed' = [placed EXCEPT ![o] = Append(@, i)] /\ Reading(o, VersionOf(i))'
    BY <2>2, PlacesDoc
  <2> QED  BY <2>1, <2>2, <2>3, PlacesStays, SameBuilds, SameLate DEF SessionsOK
<1>5. CASE \E o \in Owners : Tells(o)
  <2>1. UNCHANGED <<doc, late, sessions>>  BY <1>5, ZenonT(30) DEF Tells
  <2>2. \E o \in Owners : \E entries : builds' = Handed(o, entries)  BY <1>5, ZenonT(30) DEF Tells
  <2>3. DocStays /\ DocOK' /\ NewestNotShunned'  BY <2>1, DocSame
  <2> QED  BY <1>5, <2>1, <2>2, <2>3, TellsStays, HandedStays, SameLate DEF SessionsOK
<1>6. CASE \/ \E o \in Owners : \/ ReadsFail(o) \/ PlaceFails(o)
                               \/ \E identity, trusted : Asks(o, identity, trusted)
           \/ Distrusts
  <2>1. UNCHANGED <<doc, late, sessions, builds>>
    BY <1>6 DEF ReadsFail, PlaceFails, Asks, Distrusts
  <2>2. DocStays /\ DocOK' /\ NewestNotShunned'  BY <2>1, DocSame
  <2> QED  BY <1>6, <2>1, <2>2, TurnsStay, SameBuilds, SameLate DEF SessionsOK
<1>7. CASE \/ \E p \in People : SignsIn(p)
           \/ \E t \in Tokens : Uses(t) \/ SignsOut(t)
           \/ Rebuilds
  <2>1. UNCHANGED <<doc, edits>>
    BY <1>7 DEF SignsIn, Uses, SignsOut, Rebuilds
  <2>2. DocStays /\ DocOK' /\ NewestNotShunned'  BY <2>1, DocSame
  <2> QED  BY <1>7, <2>1, <2>2, SessionsStay, SessionSteps, SameEdits
<1>8. CASE \E t \in Tokens : GoesUnused(t)
  <2>1. UNCHANGED <<doc, late, builds, edits>>  BY <1>8 DEF GoesUnused
  <2>2. DocStays /\ DocOK' /\ NewestNotShunned'  BY <2>1, DocSame
  <2>3. SessionsOK'  BY <1>8 DEF GoesUnused, SessionsOK
  <2> QED  BY <2>1, <2>2, <2>3, SameBuilds, SameEdits, SameLate
<1>9. CASE \/ \E block \in DOMAIN Signed : FalseFound(block)
           \/ Checks \/ TakesKept \/ Connecting \/ FalseCheck \/ Rested
  <2>1. UNCHANGED <<doc, late, sessions, builds, edits>>
    BY <1>9 DEF FalseFound, Checks, TakesKept, Connecting, FalseCheck, Rested
  <2>2. DocStays /\ DocOK' /\ NewestNotShunned'  BY <2>1, DocSame
  <2> QED  BY <2>1, <2>2, SameBuilds, SameEdits, SameLate DEF SessionsOK
<1>10. CASE LateShuns
  <2>1. late' \subseteq late /\ UNCHANGED <<sessions, builds, edits>>  BY <1>10 DEF LateShuns
  <2>2. DocStays /\ DocOK' /\ NewestNotShunned'  BY <1>10, LateShunsDoc
  <2> QED  BY <2>1, <2>2, SameBuilds, SameEdits, SameLate DEF SessionsOK
<1>11. CASE \E i \in DOMAIN doc : Stores(i) \/ Shuns(i) \/ Hears(i) \/ Arrives(i)
  <2>1. UNCHANGED <<late, sessions, builds, edits>>
    BY <1>11 DEF Stores, Shuns, Hears, Arrives
  <2>2. DocStays /\ DocOK' /\ NewestNotShunned'  BY <1>11, AnswersDoc
  <2> QED  BY <2>1, <2>2, SameBuilds, SameEdits, SameLate DEF SessionsOK
<1>12. CASE \E o \in Identities : PlacesElsewhere(o)
  <2>1. UNCHANGED <<late, sessions, builds, edits>>
    BY <1>12, ZenonT(30) DEF PlacesElsewhere
  <2>2. DocStays /\ DocOK' /\ NewestNotShunned'  BY <1>12, ElsewhereDoc
  <2> QED  BY <2>1, <2>2, SameBuilds, SameEdits, SameLate DEF SessionsOK
<1>13. CASE Restarts
  <2>1. UNCHANGED doc /\ late' = {} /\ sessions' = [t \in Tokens |-> NoSession]
    BY <1>13 DEF Restarts
  <2>2. DocStays /\ DocOK' /\ NewestNotShunned'  BY <2>1, DocSame
  <2>3. LateOK' /\ SessionsOK'  BY <2>1, MeIsOwner DEF LateOK, SessionsOK, NoSession
  <2> QED  BY <1>13, <2>2, <2>3, RestartStays, RestartEdits
<1>14. CASE UNCHANGED vars
  <2>1. UNCHANGED <<doc, late, sessions, builds, edits>>  BY <1>14 DEF vars, trustVars
  <2>2. DocStays /\ DocOK' /\ NewestNotShunned'  BY <2>1, DocSame
  <2> QED  BY <2>1, <2>2, SameBuilds, SameEdits, SameLate DEF SessionsOK
<1> QED
  BY <1>1, <1>2, <1>3, <1>4, <1>5, <1>6, <1>7, <1>8, <1>9, <1>10, <1>11, <1>12, <1>13, <1>14, ZenonT(30)
  DEF Next, JobStep, EditStep

(* However builds, changes and other devices come between one another, a    *)
(* list never loses its newest version (webserver/trust.py's shunning of    *)
(* the versions others replace).                                             *)
THEOREM ListsKeepTheirNewest == Spec => []NewestNotShunned
<1>1. ShunsOnlyOlder => NewestNotShunned  BY DEF ShunsOnlyOlder
<1> QED  BY <1>1, InitShunsOnlyOlder, NextShunsOnlyOlder, PTL DEF Spec

-----------------------------------------------------------------------------
(* Of the numbers up to n, some have a least. *)

LEMMA LeastExists ==
  ASSUME NEW n \in Nat, NEW S \in SUBSET (0..n), S # {}
  PROVE  \E least \in S : \A m \in S : least <= m
<1> DEFINE Below(m) == {k \in S : k <= m}
           Sets == {Below(m) : m \in S}
           R == StrictSubsetOrdering(S)
<1>1. IsFiniteSet(S) /\ S \subseteq Nat
  <2>1. IsFiniteSet(0..n)  BY FS_Interval
  <2>2. S \in SUBSET (0..n)  OBVIOUS
  <2>3. IsFiniteSet(S)  BY <2>1, <2>2, FS_Subset
  <2>4. S \subseteq Nat  OBVIOUS
  <2> QED  BY <2>3, <2>4
<1>2. PICK T \in Sets : \A U \in Sets : <<U, T>> \notin R
  <2>1. IsWellFoundedOn(R, FiniteSubsetsOf(S))  BY <1>1, FS_StrictSubsetOrderingWellFounded
  <2>2. Sets \subseteq FiniteSubsetsOf(S)  BY <1>1, FS_FiniteSubsetsOfFinite
  <2>3. Sets # {}  OBVIOUS
  <2> HIDE DEF Sets, R
  <2> QED  BY <2>1, <2>2, <2>3, WFMin
<1>3. PICK least \in S : T = Below(least)  OBVIOUS
<1>4. ASSUME NEW m \in S, m < least PROVE FALSE
  <2>1. m \in Nat /\ least \in Nat  BY <1>1
  <2>2. \A k \in S : k \in Nat /\ (k <= m => k <= least)  BY <1>1, <1>4, <2>1
  <2>3. Below(m) \subseteq T /\ least \in T /\ least \notin Below(m)
    <3>1. Below(m) \subseteq Below(least)  BY <2>2
    <3>2. least <= least /\ ~(least <= m)  BY <1>4, <2>1
    <3> QED  BY <3>1, <3>2, <1>3
  <2>4. <<Below(m), T>> \in R  BY <2>3, <1>3 DEF StrictSubsetOrdering
  <2> QED  BY <2>4, <1>2
<1> QED
  <2>1. \A m \in S : m \in Nat /\ least \in Nat /\ ~(m < least)  BY <1>1, <1>4
  <2> QED  BY <2>1

-----------------------------------------------------------------------------
(* Scores of a list that says nothing are complete. *)

LEMMA NoneSorted == [1 .. Cardinality({}) -> {}] = {<<>>}
<1>1. Cardinality({}) = 0  BY FS_EmptySet
<1>2. 1 .. 0 = {}  OBVIOUS
<1>3. \A s \in [{} -> {}] : s = <<>>  OBVIOUS
<1>4. <<>> \in [{} -> {}]  OBVIOUS
<1> QED  BY <1>1, <1>2, <1>3, <1>4

LEMMA NoneRead == ReadingOrder({}) = <<>>
<1>1. PICK s : s = Sorted({})  OBVIOUS
<1>2. s = <<>>
  <2>1. \A t \in [1 .. Cardinality({}) -> {}] : t = <<>>  BY NoneSorted
  <2>2. <<>> \in [1 .. Cardinality({}) -> {}]  BY NoneSorted
  <2>3. \A k \in 2 .. Cardinality({}) : FALSE  BY FS_EmptySet
  <2> QED  BY <1>1, <2>1, <2>2, <2>3 DEF Sorted
<1>3. {score \in {} : score.net > 0} = {}  OBVIOUS
<1> QED  BY <1>1, <1>2, <1>3 DEF ReadingOrder

LEMMA NoneNeeded ==
  ASSUME NEW lists, NEW owners, \A k \in DOMAIN owners : lists[owners[k]] # Unread
  PROVE  Needed(lists, owners) = <<>>
<1>1. PICK s : s = Ascending({})  OBVIOUS
<1>2. s = <<>>
  <2>1. \A t \in [1 .. Cardinality({}) -> {}] : t = <<>>  BY NoneSorted
  <2>2. <<>> \in [1 .. Cardinality({}) -> {}]  BY NoneSorted
  <2>3. \A k \in 2 .. Cardinality({}) : FALSE  BY FS_EmptySet
  <2> QED  BY <1>1, <2>1, <2>2, <2>3 DEF Ascending
<1>3. {k \in DOMAIN owners : lists[owners[k]] = Unread} = {}  OBVIOUS
<1>4. Ascending({k \in DOMAIN owners : lists[owners[k]] = Unread}) = <<>>  BY <1>1, <1>2, <1>3
<1>5. [k \in DOMAIN <<>> |-> owners[<<>>[k]]] = <<>>  OBVIOUS
<1> QED  BY <1>4, <1>5 DEF Needed

(* The scores before any list is read, and after one that says nothing. *)
Base(person) == [scores |-> {}, owners |-> <<person>>, lists_read |-> 0, needed |-> <<>>]
NothingReached == [scores |-> {}, owners |-> <<>>, lists_read |-> 1, needed |-> <<>>]

(* What a step makes of the scores so far. *)
StepOf(person, lists, so_far) ==
  LET owners == First(so_far.owners, MaxLists - so_far.lists_read)
      reached == {Score(i, Net(lists, owners, i)) : i \in Names(person, lists, owners, so_far.scores)}
  IN [scores |-> so_far.scores \cup reached, owners |-> ReadingOrder(reached),
      lists_read |-> so_far.lists_read + Len(owners),
      needed |-> Needed(lists, owners)]

LEMMA StepsOfNone ==
  ASSUME NEW person \in Identities, NEW lists, lists[person] = NoEntries
  PROVE  /\ StepOf(person, lists, Base(person)) = NothingReached
         /\ StepOf(person, lists, NothingReached) = NothingReached
<1> USE TrustAssumption
<1>0. NoEntries # Unread /\ \A i \in Identities : NoEntries[i] = 0  BY DEF NoEntries
<1>1. First(<<person>>, MaxLists) = <<person>> /\ First(<<>>, MaxLists - 1) = <<>>
  <2>1. SubSeq(<<person>>, 1, 1) = <<person>>
    <3>1. <<person>> \in Seq(Identities) /\ Len(<<person>>) = 1  OBVIOUS
    <3> QED  BY <3>1, SubSeqFull
  <2>2. SubSeq(<<>>, 1, 0) = <<>>  OBVIOUS
  <2>3. \A n \in Int : n < 0 => SubSeq(<<>>, 1, n) = <<>>  OBVIOUS
  <2>4. Len(<<>>) = 0 /\ Len(<<person>>) = 1  OBVIOUS
  <2>5. MaxLists \in Int /\ MaxLists >= 1 /\ MaxLists - 1 \in Int  OBVIOUS
  <2> QED  BY <2>1, <2>2, <2>3, <2>4, <2>5 DEF First
<1>2. \A owners, scores : (\A o \in Range(owners) : o = person) => Names(person, lists, owners, scores) = {}
  BY <1>0 DEF Names, Read
<1>3. Names(person, lists, <<person>>, {}) = {} /\ Names(person, lists, <<>>, {}) = {}
  <2>1. \A o \in Range(<<person>>) : o = person  BY DEF Range
  <2>2. Range(<<>>) = {}  BY DEF Range
  <2> QED  BY <2>1, <2>2, <1>2
<1>4. Needed(lists, <<person>>) = <<>> /\ Needed(lists, <<>>) = <<>>
  <2>1. \A k \in DOMAIN <<person>> : lists[<<person>>[k]] # Unread  BY <1>0
  <2>2. \A k \in DOMAIN <<>> : lists[<<>>[k]] # Unread  OBVIOUS
  <2>3. Needed(lists, <<person>>) = <<>>  BY <2>1, NoneNeeded
  <2>4. Needed(lists, <<>>) = <<>>  BY <2>2, NoneNeeded
  <2> QED  BY <2>3, <2>4
<1>5. StepOf(person, lists, Base(person)) = NothingReached
  <2> DEFINE reached == {Score(i, Net(lists, <<person>>, i)) : i \in Names(person, lists, <<person>>, {})}
  <2>1. reached = {}  BY <1>3
  <2>2. /\ Base(person).owners = <<person>> /\ Base(person).scores = {}
        /\ Base(person).lists_read = 0 /\ MaxLists - 0 = MaxLists
    BY DEF Base
  <2>3. StepOf(person, lists, Base(person))
          = [scores |-> {} \cup reached, owners |-> ReadingOrder(reached),
             lists_read |-> 0 + Len(<<person>>), needed |-> Needed(lists, <<person>>)]
    BY <2>2, <1>1 DEF StepOf
  <2> HIDE DEF reached
  <2>4. 0 + Len(<<person>>) = 1  OBVIOUS
  <2> QED  BY <2>1, <2>3, <2>4, <1>4, NoneRead DEF NothingReached
<1>6. StepOf(person, lists, NothingReached) = NothingReached
  <2> DEFINE reached == {Score(i, Net(lists, <<>>, i)) : i \in Names(person, lists, <<>>, {})}
  <2>1. reached = {}  BY <1>3
  <2>2. /\ NothingReached.owners = <<>> /\ NothingReached.scores = {}
        /\ NothingReached.lists_read = 1
    BY DEF NothingReached
  <2>3. StepOf(person, lists, NothingReached)
          = [scores |-> {} \cup reached, owners |-> ReadingOrder(reached),
             lists_read |-> 1 + Len(<<>>), needed |-> Needed(lists, <<>>)]
    BY <2>2, <1>1 DEF StepOf
  <2> HIDE DEF reached
  <2>4. 1 + Len(<<>>) = 1  OBVIOUS
  <2> QED  BY <2>1, <2>3, <2>4, <1>4, NoneRead DEF NothingReached
<1> QED  BY <1>5, <1>6

(* from_lists's own functions. *)
Steps(person, lists) == [so_far \in SoFar |-> StepOf(person, lists, so_far)]
IsAfter(person, lists, f) ==
  f = [n \in 0 .. MaxSteps |->
         IF n = 0 THEN Base(person)
         ELSE IF f[n - 1].needed # <<>> THEN f[n - 1] ELSE Steps(person, lists)[f[n - 1]]]

LEMMA FromListsIs ==
  ASSUME NEW person, NEW lists
  PROVE  from_lists(person, lists) = (CHOOSE f : IsAfter(person, lists, f))[MaxSteps]
BY DEF from_lists, IsAfter, Steps, Base, StepOf

LEMMA NothingLacking ==
  ASSUME NEW person \in Identities, NEW lists, lists[person] = NoEntries
  PROVE  complete(ScoresOf(person, lists))
<1> USE TrustAssumption
<1>1. /\ Base(person) \in SoFar /\ NothingReached \in SoFar
      /\ Base(person).needed = <<>> /\ NothingReached.needed = <<>>
  BY DEF Base, NothingReached, SoFar
<1>2. /\ Steps(person, lists)[Base(person)] = NothingReached
      /\ Steps(person, lists)[NothingReached] = NothingReached
  BY <1>1, StepsOfNone DEF Steps
<1>3. PICK g : g = [n \in 0 .. MaxSteps |-> IF n = 0 THEN Base(person) ELSE NothingReached]
  OBVIOUS
<1>4. IsAfter(person, lists, g)
  <2>1. ASSUME NEW n \in 0 .. MaxSteps, n # 0
        PROVE  g[n] = IF g[n - 1].needed # <<>> THEN g[n - 1] ELSE Steps(person, lists)[g[n - 1]]
    <3>1. n - 1 \in 0 .. MaxSteps  BY <2>1
    <3>2. g[n - 1] = Base(person) \/ g[n - 1] = NothingReached  BY <3>1, <1>3
    <3>3. g[n] = NothingReached  BY <2>1, <1>3
    <3> QED  BY <3>2, <3>3, <1>1, <1>2
  <2>2. g[0] = Base(person)  BY <1>3
  <2> QED  BY <1>3, <2>1, <2>2 DEF IsAfter
<1>5. PICK f : f = (CHOOSE h : IsAfter(person, lists, h))  OBVIOUS
<1>6. IsAfter(person, lists, f)  BY <1>4, <1>5
<1>7. f[0] = Base(person)  BY <1>6 DEF IsAfter
<1>8. ASSUME NEW n \in 0 .. MaxSteps, n # 0
      PROVE  f[n] = IF f[n - 1].needed # <<>> THEN f[n - 1] ELSE Steps(person, lists)[f[n - 1]]
  BY <1>6, <1>8 DEF IsAfter
<1>9. ASSUME NEW n \in 0 .. MaxSteps PROVE f[n] \in {Base(person), NothingReached}
  <2> DEFINE Bad == {m \in 0 .. MaxSteps : f[m] \notin {Base(person), NothingReached}}
  <2>1. SUFFICES ASSUME Bad # {} PROVE FALSE  BY <1>9
  <2>2. PICK m \in Bad : \A k \in Bad : m <= k
    <3>1. Bad \in SUBSET (0 .. MaxSteps)  OBVIOUS
    <3> HIDE DEF Bad
    <3> QED  BY <2>1, <3>1, LeastExists
  <2>3. m # 0 /\ m - 1 \in 0 .. MaxSteps /\ ~(m <= m - 1)  BY <1>7
  <2>4. f[m - 1] \in {Base(person), NothingReached}  BY <2>2, <2>3
  <2> QED  BY <2>3, <2>4, <1>1, <1>2, <1>8
<1>10. f[MaxSteps].needed = <<>>
  <2>1. MaxSteps \in 0 .. MaxSteps  OBVIOUS
  <2> QED  BY <2>1, <1>9, <1>1
<1>11. from_lists(person, lists).needed = <<>>  BY <1>5, <1>10, FromListsIs
<1> QED  BY <1>11 DEF complete, ScoresOf

-----------------------------------------------------------------------------
(* What is true of a build at each of its steps: its scores, once complete, *)
(* are complete for the lists it has; nothing but its job changes it while  *)
(* it reads; and it is done with what it has seen of its person's changes   *)
(* only if its scores lack nothing.                                          *)
GoodBuild(o, b) ==
  /\ DOMAIN b = BuildFields /\ DOMAIN b.lists = Identities
  /\ b.changes \in Nat /\ b.seen \in Nat /\ b.seen <= b.changes
  /\ b.handed # Unread => b.lists[o] = b.handed
  /\ ~b.reading => b.at = "idle"
  /\ b.on => (complete(b.scores) => complete(ScoresOf(o, b.lists)))
  /\ b.on /\ ~b.reading /\ ~b.failed => complete(ScoresOf(o, b.lists))
  /\ b.at = "done" /\ b.changes = b.seen => complete(b.scores)

BuildsOK == DOMAIN builds = Owners /\ \A o \in Owners : GoodBuild(o, builds[o])

SignedIn ==
  /\ sessions \in [Tokens -> [person : People, idle : BOOLEAN] \cup {NoSession}]
  /\ \A p \in People : builds[p].on <=> p \in PeopleIn(Tokens)

KeepsUp == BuildsOK /\ SignedIn

LEMMA OwnersAre == Owners \subseteq Identities /\ Me \in Owners /\ People \subseteq Owners /\ Me \notin People
BY BuildersAssumption DEF Owners

LEMMA OneBuild ==
  ASSUME BuildsOK, NEW o \in Owners, NEW w, GoodBuild(o, w), builds' = [builds EXCEPT ![o] = w]
  PROVE  BuildsOK'
BY DEF BuildsOK

LEMMA SameSessions ==
  ASSUME KeepsUp, UNCHANGED sessions, DOMAIN builds' = Owners,
         \A p \in People : builds'[p].on = builds[p].on
  PROVE  SignedIn'
BY DEF KeepsUp, SignedIn, PeopleIn, Live

LEMMA NewIsGood ==
  ASSUME NEW o \in Owners
  PROVE  GoodBuild(o, NewBuild(o)) /\ GoodBuild(o, NoBuild) /\ NewBuild(o).on /\ ~NoBuild.on
<1>1. GoodBuild(o, NoBuild) /\ ~NoBuild.on  BY DEF GoodBuild, NoBuild, BuildFields
<1>2. PICK w : w = NewBuild(o)  OBVIOUS
<1>3. /\ DOMAIN w = BuildFields /\ DOMAIN w.lists = Identities /\ w.changes = 0 /\ w.seen = 0
      /\ w.handed = Unread /\ w.reading = TRUE /\ w.at = "score" /\ w.scores.needed = <<o>> /\ w.on = TRUE
  BY <1>2 DEF NewBuild, NoBuild, NoScores, BuildFields
<1>4. ~complete(w.scores)  BY <1>3 DEF complete
<1>5. GoodBuild(o, w)  BY <1>3, <1>4 DEF GoodBuild
<1> QED  BY <1>1, <1>2, <1>3, <1>5

(* A job's own steps. *)
LEMMA JobsKeepUp ==
  ASSUME KeepsUp, NEW o \in Owners,
         \/ Scores(o) \/ Done(o) \/ RoundEnds(o) \/ LooksAgain(o) \/ HasWaited(o) \/ ReadFails(o) \/ Looks(o)
  PROVE  KeepsUp'
<1>1. PICK b : b = builds[o] /\ GoodBuild(o, b)  BY DEF KeepsUp, BuildsOK
<1>2. PICK w : builds' = [builds EXCEPT ![o] = w] /\ GoodBuild(o, w) /\ w.on = b.on
  <2> USE <1>1 DEF GoodBuild, BuildFields, Job, KeepsUp, BuildsOK
  <2>1. CASE Scores(o)
    <3>1. PICK c : c = [b EXCEPT !.seen = b.changes]  OBVIOUS
    <3>2. CASE complete(b.scores)
      <4>1. PICK w : w = [c EXCEPT !.at = "done"]  OBVIOUS
      <4>2. builds' = [builds EXCEPT ![o] = w]  BY <2>1, <3>1, <3>2, <4>1 DEF Scores
      <4>3. GoodBuild(o, w) /\ w.on = b.on  BY <2>1, <3>1, <3>2, <4>1 DEF Scores
      <4> QED  BY <4>2, <4>3
    <3>3. CASE ~complete(b.scores)
      <4>1. PICK w : w = [c EXCEPT !.at = "look", !.looking = b.scores.needed, !.waited = FALSE]  OBVIOUS
      <4>2. builds' = [builds EXCEPT ![o] = w]  BY <2>1, <3>1, <3>3, <4>1 DEF Scores
      <4>3. GoodBuild(o, w) /\ w.on = b.on  BY <2>1, <3>1, <3>3, <4>1 DEF Scores
      <4> QED  BY <4>2, <4>3
    <3> QED  BY <3>2, <3>3
  <2>2. CASE Done(o)
    <3>1. CASE Unchanged(b)
      <4>1. PICK w : w = [b EXCEPT !.reading = FALSE, !.at = "idle"]  OBVIOUS
      <4>2. builds' = [builds EXCEPT ![o] = w]  BY <2>2, <3>1, <4>1 DEF Done
      <4>3. GoodBuild(o, w) /\ w.on = b.on  BY <2>2, <3>1, <4>1 DEF Done, Unchanged
      <4> QED  BY <4>2, <4>3
    <3>2. CASE ~Unchanged(b)
      <4>1. PICK w : w = [b EXCEPT !.at = "score"]  OBVIOUS
      <4>2. builds' = [builds EXCEPT ![o] = w]  BY <2>2, <3>2, <4>1 DEF Done
      <4>3. GoodBuild(o, w) /\ w.on = b.on  BY <2>2, <3>2, <4>1 DEF Done
      <4> QED  BY <4>2, <4>3
    <3> QED  BY <3>1, <3>2
  <2>3. CASE RoundEnds(o)
    <3>1. PICK w : w = IF b.still = <<>> THEN [b EXCEPT !.at = "score", !.waited = FALSE]
                       ELSE [b EXCEPT !.at = "pause"]
      OBVIOUS
    <3>2. builds' = [builds EXCEPT ![o] = w]  BY <2>3, <3>1 DEF RoundEnds
    <3>3. GoodBuild(o, w) /\ w.on = b.on  BY <2>3, <3>1 DEF RoundEnds
    <3> QED  BY <3>2, <3>3
  <2>4. CASE LooksAgain(o)
    <3>1. PICK w : w = [b EXCEPT !.at = "look", !.looking = b.still, !.still = <<>>]  OBVIOUS
    <3>2. builds' = [builds EXCEPT ![o] = w]  BY <2>4, <3>1 DEF LooksAgain
    <3>3. GoodBuild(o, w) /\ w.on = b.on  BY <2>4, <3>1 DEF LooksAgain
    <3> QED  BY <3>2, <3>3
  <2>5. CASE HasWaited(o)
    <3>1. PICK w : w = [b EXCEPT !.waited = TRUE]  OBVIOUS
    <3>2. builds' = [builds EXCEPT ![o] = w]  BY <2>5, <3>1 DEF HasWaited
    <3>3. GoodBuild(o, w) /\ w.on = b.on  BY <2>5, <3>1 DEF HasWaited
    <3> QED  BY <3>2, <3>3
  <2>6. CASE ReadFails(o)
    <3>1. PICK w : w = [b EXCEPT !.at = "idle", !.reading = FALSE, !.failed = TRUE,
                                 !.looking = <<>>, !.still = <<>>, !.waited = FALSE]
      OBVIOUS
    <3>2. builds' = [builds EXCEPT ![o] = w]  BY <2>6, <3>1 DEF ReadFails
    <3>3. GoodBuild(o, w) /\ w.on = b.on  BY <2>6, <3>1 DEF ReadFails
    <3> QED  BY <3>2, <3>3
  <2>7. CASE Looks(o)
    <3>0. PICK found : found = FoundOf(Head(b.looking))  OBVIOUS
    <3>1. PICK w : w = [b EXCEPT !.at = "take", !.found = found]  OBVIOUS
    <3>2. builds' = [builds EXCEPT ![o] = w]
      <4>1. builds' = [builds EXCEPT ![o].at = "take", ![o].found = found]
        BY <2>7, <3>0, ZenonT(30) DEF Looks
      <4> QED  BY <4>1, <3>1
    <3>3. GoodBuild(o, w) /\ w.on = b.on  BY <2>7, <3>1 DEF Looks
    <3> QED  BY <3>2, <3>3
  <2> QED  BY <2>1, <2>2, <2>3, <2>4, <2>5, <2>6, <2>7
<1>3. BuildsOK'  BY <1>2, OneBuild DEF KeepsUp
<1>4. UNCHANGED sessions  BY DEF Scores, Done, RoundEnds, LooksAgain, HasWaited, ReadFails, Looks
<1>5. \A p \in People : builds'[p].on = builds[p].on  BY <1>1, <1>2, OwnersAre DEF KeepsUp, BuildsOK
<1>6. DOMAIN builds' = Owners  BY <1>3 DEF BuildsOK
<1> QED  BY <1>3, <1>4, <1>5, <1>6, SameSessions DEF KeepsUp

LEMMA TakesKeepUp ==
  ASSUME KeepsUp, NEW o \in Owners, Takes(o)
  PROVE  KeepsUp'
<1>1. PICK b : b = builds[o] /\ GoodBuild(o, b)  BY DEF KeepsUp, BuildsOK
<1>2. PICK owner : owner = Head(b.looking)  OBVIOUS
<1>3. PICK next : next = [b EXCEPT !.at = "look", !.looking = Tail(b.looking), !.found = NothingFound]
  OBVIOUS
<1>4. GoodBuild(o, next) /\ next.on = b.on /\ next.reading = TRUE /\ next.handed = b.handed
      /\ next.changes = b.changes /\ next.seen = b.seen /\ next.at = "look" /\ DOMAIN next = BuildFields
  <2>1. b.at = "take"  BY <1>1 DEF Takes, Job
  <2> QED  BY <1>1, <1>3, <2>1 DEF GoodBuild, BuildFields
<1>5. PICK w : builds' = [builds EXCEPT ![o] = w] /\ GoodBuild(o, w) /\ w.on = b.on
  <2>1. CASE Ready(b)
    <3>1. PICK lists : lists = ReadInto(b, owner)  OBVIOUS
    <3>2. DOMAIN lists = Identities /\ (b.handed # Unread => lists[o] = b.handed)
      BY <3>1, <1>1, OwnersAre DEF ReadInto, GoodBuild
    <3>3. PICK w : w = With(o, next, lists)  OBVIOUS
    <3>4. builds' = [builds EXCEPT ![o] = w]
      BY <2>1, <1>1, <1>2, <1>3, <3>1, <3>3 DEF Takes
    <3>5. /\ DOMAIN w = BuildFields /\ w.lists = lists /\ w.scores = ScoresOf(o, lists)
          /\ w.on = b.on /\ w.reading = TRUE /\ w.handed = b.handed
          /\ w.changes = b.changes /\ w.seen = b.seen /\ w.at = "look"
      BY <3>3, <1>4 DEF With, BuildFields
    <3>6. GoodBuild(o, w)  BY <3>2, <3>5, <1>1 DEF GoodBuild
    <3> QED  BY <3>4, <3>5, <3>6
  <2>2. CASE ~Ready(b)
    <3>1. PICK w : w = [next EXCEPT !.still = Append(next.still, owner)]  OBVIOUS
    <3>2. builds' = [builds EXCEPT ![o] = w]
      BY <2>2, <1>1, <1>2, <1>3, <3>1 DEF Takes
    <3>3. GoodBuild(o, w) /\ w.on = b.on  BY <3>1, <1>4 DEF GoodBuild, BuildFields
    <3> QED  BY <3>2, <3>3
  <2> QED  BY <2>1, <2>2
<1>6. BuildsOK'  BY <1>5, OneBuild DEF KeepsUp
<1>7. UNCHANGED sessions  BY ZenonT(30) DEF Takes
<1>8. \A p \in People : builds'[p].on = builds[p].on  BY <1>1, <1>5, OwnersAre DEF KeepsUp, BuildsOK
<1>9. DOMAIN builds' = Owners  BY <1>6 DEF BuildsOK
<1> QED  BY <1>6, <1>7, <1>8, <1>9, SameSessions DEF KeepsUp

(* A change handed to a build leaves it reading what it had not seen. *)
LEMMA HandedKeepsUp ==
  ASSUME KeepsUp, NEW o \in Owners, NEW entries, builds' = Handed(o, entries), UNCHANGED sessions
  PROVE  KeepsUp'
<1>1. PICK b : b = builds[o] /\ GoodBuild(o, b)  BY DEF KeepsUp, BuildsOK
<1>2. PICK lists : lists = [b.lists EXCEPT ![o] = entries]  OBVIOUS
<1>3. DOMAIN lists = Identities /\ lists[o] = entries  BY <1>1, <1>2, OwnersAre DEF GoodBuild
<1>4. PICK c : c = [With(o, b, lists) EXCEPT !.handed = entries, !.changes = b.changes + 1, !.reading = TRUE]
  OBVIOUS
<1>5. /\ DOMAIN c = BuildFields /\ c.lists = lists /\ c.scores = ScoresOf(o, lists) /\ c.handed = entries
      /\ c.changes = b.changes + 1 /\ c.seen = b.seen /\ c.reading = TRUE /\ c.on = b.on /\ c.at = b.at
  BY <1>1, <1>4 DEF With, GoodBuild, BuildFields
<1>6. GoodBuild(o, c)  BY <1>1, <1>3, <1>5 DEF GoodBuild
<1>7. CASE ~b.on
  <2>1. builds' = builds  BY <1>1, <1>7 DEF Handed
  <2> QED  BY <2>1, SameSessions DEF KeepsUp, BuildsOK
<1>8. CASE b.on
  <2>1. PICK w : /\ w = (IF b.reading THEN c ELSE [c EXCEPT !.at = "score", !.failed = FALSE])
    OBVIOUS
  <2>2. builds' = [builds EXCEPT ![o] = w]
    <3>1. With(o, b, lists) = With(o, builds[o], [builds[o].lists EXCEPT ![o] = entries])
      BY <1>1, <1>2
    <3>2. With(o, b, lists).changes = b.changes  BY <1>1 DEF With, GoodBuild, BuildFields
    <3> QED  BY <1>1, <1>4, <1>8, <2>1, <3>1, <3>2 DEF Handed
  <2>3. GoodBuild(o, w) /\ w.on = b.on
    <3>1. CASE b.reading  BY <3>1, <2>1, <1>5, <1>6
    <3>2. CASE ~b.reading
      <4>1. w = [c EXCEPT !.at = "score", !.failed = FALSE]  BY <2>1, <3>2
      <4> QED  BY <4>1, <1>5, <1>6 DEF GoodBuild, BuildFields
    <3> QED  BY <3>1, <3>2
  <2>4. BuildsOK'  BY <2>2, <2>3, OneBuild DEF KeepsUp
  <2>5. \A p \in People : builds'[p].on = builds[p].on  BY <1>1, <2>2, <2>3, OwnersAre DEF KeepsUp, BuildsOK
  <2>6. DOMAIN builds' = Owners  BY <2>4 DEF BuildsOK
  <2> QED  BY <2>4, <2>5, <2>6, SameSessions DEF KeepsUp
<1> QED  BY <1>7, <1>8

-----------------------------------------------------------------------------
(* Sessions begin and end, and builds with them. *)

LEMMA KeptPeople ==
  ASSUME SignedIn, NEW gone \in SUBSET Tokens
  PROVE  /\ Kept(gone) \in [Tokens -> [person : People, idle : BOOLEAN] \cup {NoSession}]
         /\ {Kept(gone)[t].person : t \in {u \in Tokens : Kept(gone)[u] # NoSession}} = PeopleIn(Tokens \ gone)
<1>1. Kept(gone) \in [Tokens -> [person : People, idle : BOOLEAN] \cup {NoSession}]
  BY DEF SignedIn, Kept
<1>2. \A t \in Tokens : Kept(gone)[t] = IF t \in gone THEN NoSession ELSE sessions[t]  BY DEF Kept
<1>3. {u \in Tokens : Kept(gone)[u] # NoSession} = (Tokens \ gone) \cap Live  BY <1>2 DEF Live
<1> QED  BY <1>1, <1>2, <1>3 DEF PeopleIn

LEMMA EndsKeepUp ==
  ASSUME KeepsUp, NEW gone \in SUBSET Tokens
  PROVE  /\ DOMAIN BuildsWithout(gone) = Owners
         /\ \A o \in Owners : GoodBuild(o, BuildsWithout(gone)[o])
         /\ \A p \in People : BuildsWithout(gone)[p].on <=> p \in PeopleIn(Tokens \ gone)
<1>1. DOMAIN BuildsWithout(gone) = Owners
      /\ \A o \in Owners : BuildsWithout(gone)[o] = IF o \in LeftWithNone(gone) THEN NoBuild ELSE builds[o]
  BY DEF BuildsWithout
<1>2. \A o \in Owners : GoodBuild(o, BuildsWithout(gone)[o])
  BY <1>1, NewIsGood DEF KeepsUp, BuildsOK
<1>3. PeopleIn(Tokens) = PeopleIn(gone) \cup PeopleIn(Tokens \ gone)  BY DEF PeopleIn
<1>4. ASSUME NEW p \in People PROVE BuildsWithout(gone)[p].on <=> p \in PeopleIn(Tokens \ gone)
  <2>1. p \in Owners /\ ~NoBuild.on  BY OwnersAre, NewIsGood
  <2>2. builds[p].on <=> p \in PeopleIn(gone) \cup PeopleIn(Tokens \ gone)  BY <1>3 DEF KeepsUp, SignedIn
  <2>3. p \in LeftWithNone(gone) <=> p \in PeopleIn(gone) /\ p \notin PeopleIn(Tokens \ gone)
    BY DEF LeftWithNone
  <2> QED  BY <2>1, <2>2, <2>3, <1>1
<1> QED  BY <1>1, <1>2, <1>4

LEMMA ForgetKeepsUp ==
  ASSUME KeepsUp, NEW gone \in SUBSET Tokens, Forget(gone)
  PROVE  KeepsUp'
<1>1. sessions' = Kept(gone) /\ builds' = BuildsWithout(gone)  BY DEF Forget
<1>2. BuildsOK'  BY <1>1, EndsKeepUp DEF BuildsOK
<1>3. PeopleIn(Tokens)' = PeopleIn(Tokens \ gone)
  <2>1. Tokens \cap Live' = {u \in Tokens : sessions'[u] # NoSession}  BY DEF Live
  <2>2. PeopleIn(Tokens)' = {sessions'[t].person : t \in Tokens \cap Live'}  BY DEF PeopleIn
  <2>3. @ = {Kept(gone)[t].person : t \in {u \in Tokens : Kept(gone)[u] # NoSession}}
    BY <2>1, <1>1
  <2> QED  BY <2>2, <2>3, KeptPeople DEF KeepsUp
<1>4. SignedIn'
  <2>1. sessions' \in [Tokens -> [person : People, idle : BOOLEAN] \cup {NoSession}]
    BY <1>1, KeptPeople DEF KeepsUp
  <2>2. \A p \in People : builds'[p].on <=> p \in PeopleIn(Tokens \ gone)  BY <1>1, EndsKeepUp
  <2> QED  BY <2>1, <2>2, <1>3 DEF SignedIn
<1> QED  BY <1>2, <1>4 DEF KeepsUp

LEMMA SignsInKeepsUp ==
  ASSUME KeepsUp, NEW p \in People, StartsSession(p)
  PROVE  KeepsUp'
<1>1. PICK t \in Tokens \ Live :
        /\ sessions' = [Kept(Idle) EXCEPT ![t] = [person |-> p, idle |-> FALSE]]
        /\ builds' = [BuildsWithout(Idle) EXCEPT ![p] = NewBuild(p)]
  BY DEF StartsSession
<1>2. Idle \subseteq Tokens /\ Idle \subseteq Live /\ t \notin Idle  BY DEF Idle, Live
<1>3. BuildsOK'  BY <1>1, <1>2, EndsKeepUp, NewIsGood, OwnersAre DEF BuildsOK
<1>4. PICK others : others = Kept(Idle)  OBVIOUS
<1>5. /\ others \in [Tokens -> [person : People, idle : BOOLEAN] \cup {NoSession}]
      /\ {others[u].person : u \in {v \in Tokens : others[v] # NoSession}} = PeopleIn(Tokens \ Idle)
      /\ others[t] = NoSession
  <2>1. others[t] = NoSession  BY <1>4, <1>1, <1>2 DEF Kept, Live
  <2> QED  BY <2>1, <1>2, <1>4, KeptPeople DEF KeepsUp
<1>6. sessions' = [others EXCEPT ![t] = [person |-> p, idle |-> FALSE]]  BY <1>1, <1>4
<1>7. [person |-> p, idle |-> FALSE] # NoSession  BY OwnersAre DEF NoSession
<1>8. PeopleIn(Tokens)' = PeopleIn(Tokens \ Idle) \cup {p}
  <2>1. Tokens \cap Live' = {v \in Tokens : others[v] # NoSession} \cup {t}
    BY <1>5, <1>6, <1>7 DEF Live
  <2>2. sessions'[t].person = p /\ \A u \in Tokens \ {t} : sessions'[u] = others[u]
    BY <1>5, <1>6
  <2>3. t \notin {v \in Tokens : others[v] # NoSession}  BY <1>5
  <2>4. PeopleIn(Tokens)' = {sessions'[u].person : u \in Tokens \cap Live'}  BY DEF PeopleIn
  <2>5. @ = {others[u].person : u \in {v \in Tokens : others[v] # NoSession}} \cup {p}
    BY <2>1, <2>2, <2>3
  <2> QED  BY <2>4, <2>5, <1>5
<1>9. SignedIn'
  <2>1. sessions' \in [Tokens -> [person : People, idle : BOOLEAN] \cup {NoSession}]  BY <1>5, <1>6
  <2>2. \A q \in People : builds'[q].on <=> q \in PeopleIn(Tokens \ Idle) \cup {p}
    BY <1>1, <1>2, EndsKeepUp, NewIsGood, OwnersAre
  <2> QED  BY <2>1, <2>2, <1>8 DEF SignedIn
<1> QED  BY <1>3, <1>9 DEF KeepsUp

LEMMA FirstAreGood ==
  /\ DOMAIN FirstBuilds = Owners
  /\ \A o \in Owners : GoodBuild(o, FirstBuilds[o])
  /\ \A p \in People : ~FirstBuilds[p].on
BY NewIsGood, OwnersAre DEF FirstBuilds

LEMMA BuiltIsGood == GoodBuild(Me, Built)
<1>1. PICK w : w = Built  OBVIOUS
<1>2. PICK lists : lists = [[i \in Identities |-> Unread] EXCEPT ![Me] = NoEntries]  OBVIOUS
<1>3. DOMAIN lists = Identities /\ lists[Me] = NoEntries  BY <1>2, OwnersAre
<1>4. /\ DOMAIN w = BuildFields /\ w.lists = lists /\ w.changes = 0 /\ w.seen = 0
      /\ w.handed = Unread /\ w.at = "idle"
  BY <1>1, <1>2 DEF Built, NewBuild, NoBuild, BuildFields
<1>5. complete(ScoresOf(Me, lists))  BY <1>3, OwnersAre, NothingLacking
<1>6. GoodBuild(Me, w)  BY <1>3, <1>4, <1>5 DEF GoodBuild
<1> QED  BY <1>1, <1>6

LEMMA NextKeepsUp ==
  ASSUME KeepsUp, [Next]_vars
  PROVE  KeepsUp'
<1>1. CASE \E o \in Owners : JobStep(o) \/ HasWaited(o) \/ ReadFails(o)
  BY <1>1, JobsKeepUp, TakesKeepUp DEF JobStep
<1>2. CASE \E o \in Owners : Tells(o)
  <2>1. \E o \in Owners : \E entries : builds' = Handed(o, entries)  BY <1>2, ZenonT(30) DEF Tells
  <2>2. UNCHANGED sessions  BY <1>2, ZenonT(30) DEF Tells
  <2> QED  BY <2>1, <2>2, HandedKeepsUp
<1>3. CASE UNCHANGED <<sessions, builds>>
  BY <1>3, SameSessions DEF KeepsUp, BuildsOK
<1>4. CASE \E p \in People : SignsIn(p)
  BY <1>4, SignsInKeepsUp DEF SignsIn
<1>5. CASE \E t \in Tokens : Uses(t) \/ SignsOut(t)
  <2>1. PICK t \in Tokens : Forget({t})  BY <1>5 DEF Uses, SignsOut
  <2> QED  BY <2>1, ForgetKeepsUp
<1>6. CASE \E t \in Tokens : GoesUnused(t)
  <2>1. PICK t \in Live \ Idle : sessions' = [sessions EXCEPT ![t].idle = TRUE] /\ UNCHANGED builds
    BY <1>6 DEF GoesUnused
  <2>2. t \in Tokens /\ sessions[t] \in [person : People, idle : BOOLEAN]
    BY <2>1 DEF Live, KeepsUp, SignedIn
  <2>3. PICK u : u = [sessions[t] EXCEPT !.idle = TRUE]  OBVIOUS
  <2>4. u \in [person : People, idle : BOOLEAN] /\ u.person = sessions[t].person /\ u # NoSession
    BY <2>2, <2>3 DEF NoSession
  <2>5. sessions' = [sessions EXCEPT ![t] = u]  BY <2>1, <2>3
  <2>6. /\ sessions' \in [Tokens -> [person : People, idle : BOOLEAN] \cup {NoSession}]
        /\ Live' = Live /\ \A v \in Tokens : sessions'[v].person = sessions[v].person
    BY <2>1, <2>2, <2>4, <2>5 DEF KeepsUp, SignedIn, Live
  <2>7. PeopleIn(Tokens)' = PeopleIn(Tokens)  BY <2>6 DEF PeopleIn
  <2> QED  BY <2>1, <2>6, <2>7 DEF KeepsUp, BuildsOK, SignedIn
<1>7. CASE Rebuilds
  <2>1. builds' = [builds EXCEPT ![Me] = NewBuild(Me)] /\ UNCHANGED sessions  BY <1>7 DEF Rebuilds
  <2>2. BuildsOK'  BY <2>1, NewIsGood, OwnersAre, OneBuild DEF KeepsUp
  <2>3. \A p \in People : builds'[p].on = builds[p].on  BY <2>1, OwnersAre
  <2>4. DOMAIN builds' = Owners  BY <2>2 DEF BuildsOK
  <2> QED  BY <2>1, <2>2, <2>3, <2>4, SameSessions DEF KeepsUp
<1>8. CASE Restarts
  <2>1. sessions' = [t \in Tokens |-> NoSession] /\ builds' = FirstBuilds  BY <1>8 DEF Restarts
  <2>2. BuildsOK'  BY <2>1, FirstAreGood DEF BuildsOK
  <2>3. PeopleIn(Tokens)' = {}  BY <2>1 DEF PeopleIn, Live
  <2> QED  BY <2>1, <2>2, <2>3, FirstAreGood DEF KeepsUp, SignedIn
<1>9. CASE \/ \E o \in Owners : \/ Reads(o) \/ Places(o) \/ ReadsFail(o) \/ PlaceFails(o)
                               \/ \E identity, trusted : Asks(o, identity, trusted)
           \/ \E block \in DOMAIN Signed : FalseFound(block)
           \/ LateShuns \/ Checks \/ TakesKept \/ Connecting \/ FalseCheck \/ Distrusts \/ Rested
           \/ \E i \in DOMAIN doc : Stores(i) \/ Shuns(i) \/ Hears(i) \/ Arrives(i)
           \/ \E o \in Identities : PlacesElsewhere(o)
  <2>1. UNCHANGED <<sessions, builds>>
    BY <1>9, ZenonT(60) DEF Reads, Places, ReadsFail, PlaceFails, Asks, FalseFound, LateShuns, Checks,
       TakesKept, Connecting, FalseCheck, Distrusts, Rested, Stores, Shuns, Hears, Arrives, PlacesElsewhere
  <2> QED  BY <2>1, <1>3
<1>10. CASE UNCHANGED vars
  BY <1>10, <1>3 DEF vars, trustVars
<1> QED
  BY <1>1, <1>2, <1>4, <1>5, <1>6, <1>7, <1>8, <1>9, <1>10, ZenonT(30) DEF Next, EditStep

(* A person has a build just while they have a session, and a build scores  *)
(* by the last version handed to it, and lacks nothing once done             *)
(* (TrustBuilds, webserver/trust_builds.py).                                 *)
THEOREM BuildsServeSessions == Spec => []BuildsKeepUp
<1>1. Init => KeepsUp
  <2> SUFFICES ASSUME Init PROVE KeepsUp
    OBVIOUS
  <2>1. /\ sessions = [t \in Tokens |-> NoSession]
        /\ builds = FirstBuilds \/ builds = [FirstBuilds EXCEPT ![Me] = Built]
    BY DEF Init
  <2>2. BuildsOK  BY <2>1, FirstAreGood, BuiltIsGood, OwnersAre DEF BuildsOK
  <2>3. \A p \in People : ~builds[p].on  BY <2>1, FirstAreGood, OwnersAre
  <2>4. PeopleIn(Tokens) = {}  BY <2>1 DEF PeopleIn, Live
  <2> QED  BY <2>1, <2>2, <2>3, <2>4 DEF KeepsUp, SignedIn
<1>2. KeepsUp /\ [Next]_vars => KeepsUp'  BY NextKeepsUp
<1>3. KeepsUp => BuildsKeepUp
  BY DEF KeepsUp, SignedIn, BuildsOK, GoodBuild, BuildsKeepUp
<1> QED  BY <1>1, <1>2, <1>3, PTL DEF Spec
=============================================================================
