------------------------------ MODULE KarmaProofs ------------------------------
(* What the Karma module never does, for any chains, peers and payments.    *)
EXTENDS Karma, FiniteSetTheorems, SequenceTheorems, TLAPS

-----------------------------------------------------------------------------
(* Payments. *)

(* The keys of payments grow with when they were made. *)
PaymentsTyped ==
    /\ payments \in [queue : SUBSET Payments, last : Nat, kept : Nat, pays : SUBSET Payments]
    /\ made \subseteq [key : Given \cup Moments, pays : SUBSET Payments]
    /\ taking \in [key : Nat \cup Given, pays : SUBSET Payments, back : {"idle", "clear"}]

(* What is written next is never more of a payment. *)
Backs == {"none", "idle", "follow", "followAgain", "note"}
WritingBack == "back" \in DOMAIN writing /\ writing.back \in Backs

(* The last transaction of the node's own that it made, and one it keeps.  *)
KeptIsLast ==
    /\ payments.kept \in Moments \cup {0} /\ payments.kept <= payments.last
    /\ payments.kept = 0 => payments.pays = {}
    /\ \A one \in made : one.key \in Moments => one.key <= payments.last

(* What is made of the payments kept is made of all of them, under their   *)
(* key, and what people give pays none.                                    *)
MadeOfKept ==
    \A one \in made :
        /\ one.key \in Given => one.pays = {}
        /\ one.key = payments.kept /\ one.key \in Moments => one.pays = payments.pays
        /\ one.pays \cap payments.pays # {} => one.key = payments.kept

(* What is being taken is given, or the one kept, or paid out under a key  *)
(* that no other has.                                                      *)
TakingOne ==
    pc = "take" =>
        \/ taking.key \in Given /\ taking.pays = {} /\ taking.back = "idle"
        \/ /\ taking.key \in Moments /\ taking.key = payments.kept
           /\ taking.pays = payments.pays
        \/ /\ taking.key \in Moments /\ taking.pays = {} /\ taking.back = "idle"
           /\ taking.key <= payments.last /\ taking.key # payments.kept
           /\ \A one \in made : one.key # taking.key

(* The payments kept are forgotten only once they are in a transaction.    *)
ClearsMade ==
    pc = "clear" \/ (pc = "putTaken" /\ taking.back = "clear") =>
        \A p \in payments.pays : \E one \in made : p \in one.pays

PaysInv ==
    PaymentsTyped /\ WritingBack /\ KeptIsLast /\ MadeOfKept /\ TakingOne /\ ClearsMade /\ PaidOnce

LEMMA InitPays == Init => PaysInv
<1> SUFFICES ASSUME Init PROVE PaysInv
  OBVIOUS
<1>1. payments = NoPayments /\ taking = NotTaking /\ asked = {} /\ made = {} /\ pc = "idle"
      /\ writing = NothingWritten
  BY DEF Init
<1>2. PaymentsTyped /\ WritingBack
  BY <1>1 DEF PaymentsTyped, WritingBack, NoPayments, NotTaking, NothingWritten, Backs
<1>3. KeptIsLast /\ MadeOfKept /\ TakingOne /\ ClearsMade /\ PaidOnce
  BY <1>1 DEF KeptIsLast, MadeOfKept, TakingOne, ClearsMade, PaidOnce, NoPayments
<1> QED  BY <1>2, <1>3 DEF PaysInv

(* What the chain's steps do to what is being written, and where they go.  *)
PaySteps == {"take", "putTaken", "clear"}

LEMMA ReplaceBack ==
  ASSUME NEW g, NEW n, NEW c, NEW back \in Backs, Replace(g, n, c, back)
  PROVE  WritingBack' /\ pc' = "files"
<1>1. writing' = [generations |-> g, first |-> n, at |-> 1, dropped |-> Len(history),
                  collected |-> c, back |-> back]
  BY DEF Replace
<1>2. "back" \in DOMAIN writing' /\ writing'.back = back
  BY <1>1
<1> QED  BY <1>2 DEF Replace, WritingBack

LEMMA ClearedBack == writing' = NothingWritten => WritingBack'
BY DEF NothingWritten, WritingBack, Backs

LEMMA WeighBack ==
  ASSUME WritingBack, Weigh
  PROVE  WritingBack' /\ pc' \notin PaySteps
<1> DEFINE Ok == WritingBack' /\ pc' \notin PaySteps
<1>1. pc = "weigh"
  BY DEF Weigh
<1>2. ASSUME NEW w, NEW a, NEW c, NEW g, Waits(w, a, c, g)
      PROVE  Ok
  BY <1>2 DEF Waits, WritingBack, PaySteps
<1>3. NotFollowed => Ok
  BY <1>1 DEF NotFollowed, WritingBack, PaySteps
<1>4. ASSUME NEW p, NEW w, NEW a, FollowClaim(p, w, a)
      PROVE  Ok
  <2>1. Replace(SubSeq(p, a + 1, Len(p)), a, Collected(a), "note")
    BY <1>4 DEF FollowClaim
  <2> QED  BY <2>1, ReplaceBack DEF Backs, PaySteps
<1> HIDE DEF Ok
<1>5. ASSUME NEW p, NEW w, NEW a, Compare(p, w, a)
      PROVE  Ok
  BY <1>2, <1>3, <1>4, <1>5, Zenon DEF Compare
<1>6. ASSUME NEW p, NEW w, NEW a, CheckForward(p, w, a)
      PROVE  Ok
  BY <1>2, <1>3, <1>5, <1>6, Zenon DEF CheckForward
<1>7. Ok
  BY <1>2, <1>3, <1>6, ZenonT(60) DEF Weigh
<1> QED  BY <1>7 DEF Ok

LEMMA ChainStepBack ==
  ASSUME WritingBack, ChainStep
  PROVE  WritingBack' /\ (pc' = pc \/ pc' \notin PaySteps)
<1> USE DEF PaySteps
<1>1. ASSUME UNCHANGED writing
      PROVE  WritingBack'
  BY <1>1 DEF WritingBack
<1>2. ASSUME NEW g \in Generations, Arrives(g) \/ KeysCome(g) \/ Evicted(g) \/ TakeFound(g)
      PROVE  UNCHANGED <<pc, writing>>
  BY <1>2 DEF Arrives, KeysCome, Evicted, TakeFound, NextToWeigh, TakeUp
<1>3. ASSUME NEW g \in Generations, OnRootRequested(g)
      PROVE  WritingBack' /\ pc' = "files"
  <2>1. Replace(<<g>>, 0, {}, "idle")
    BY <1>3 DEF OnRootRequested
  <2> QED  BY <2>1, ReplaceBack DEF Backs
<1>4. ASSUME NEW g \in Generations, NEW p \in Peers, OnHeadTold(p, g)
      PROVE  UNCHANGED <<pc, writing>>
  BY <1>4 DEF OnHeadTold
<1>5. ASSUME NEW p \in Peers, TakeTold(p)
      PROVE  UNCHANGED <<pc, writing>>
  BY <1>5 DEF TakeTold, NextToWeigh, TakeUp
<1>6. GivenUp => UNCHANGED <<pc, writing>>
  BY DEF GivenUp
<1>7. CASE WriteGeneration
  <2>1. \/ writing' = [writing EXCEPT !.at = @ + 1] /\ pc' = pc
        \/ pc' = "genealogy" /\ UNCHANGED writing
    BY <1>7 DEF WriteGeneration
  <2>2. WritingBack'
    BY <2>1 DEF WritingBack
  <2> QED  BY <2>1, <2>2
<1>8. WriteGenealogy => UNCHANGED writing /\ pc' = "head"
  BY DEF WriteGenealogy
<1>9. WriteHead => UNCHANGED writing /\ pc' = "unlink"
  BY DEF WriteHead
<1>10. CASE Unlink
  <2>1. pc' = writing.back /\ (UNCHANGED writing \/ writing' = NothingWritten)
    BY <1>10 DEF Unlink
  <2> QED  BY <2>1, <1>1, ClearedBack DEF WritingBack, Backs
<1>11. WriteFails => writing' = NothingWritten /\ pc' \in {"idle", "pay"}
  BY DEF WriteFails
<1>12. Look => UNCHANGED writing /\ pc' = "follow"
  BY DEF Look
<1>13. CASE Follow
  <2>1. PICK g \in Generations : Replace(<<g>>, Len(history), {}, pc)
    BY <1>13 DEF Follow
  <2>2. pc \in Backs
    BY <1>13 DEF Follow, Backs
  <2> QED  BY <2>1, <2>2, ReplaceBack
<1>14. BeginWeighing => UNCHANGED writing /\ pc' = "weigh"
  BY DEF BeginWeighing
<1>15. NoneToWeigh => UNCHANGED writing /\ pc' = "pay"
  BY DEF NoneToWeigh, NextToWeigh
<1>16. Followed => writing' = NothingWritten /\ pc' = "followAgain"
  BY DEF Followed
<1>17. NoneAfter => UNCHANGED writing /\ pc' = "pay"
  BY DEF NoneAfter
<1>18. Open => UNCHANGED writing /\ pc' = "opened"
  BY DEF Open
<1>19. OpenHead => UNCHANGED writing /\ pc' = "idle"
  BY DEF OpenHead
<1> HIDE DEF WritingBack
<1> QED
  BY <1>1, <1>2, <1>3, <1>4, <1>5, <1>6, <1>7, <1>8, <1>9, <1>10, <1>11, <1>12, <1>13, <1>14,
     <1>15, <1>16, <1>17, <1>18, <1>19, WeighBack, ClearedBack DEF ChainStep

(* A step of neither the payments nor what is taken of them. *)
LEMMA OtherPays ==
  ASSUME PaysInv, WritingBack', UNCHANGED <<payments, asked, made>>,
         taking' \in [key : Nat \cup Given, pays : SUBSET Payments, back : {"idle", "clear"}],
         pc' \notin PaySteps \/ UNCHANGED <<pc, taking>>
  PROVE  PaysInv'
<1>1. PaymentsTyped'
  BY DEF PaysInv, PaymentsTyped
<1>2. KeptIsLast' /\ MadeOfKept' /\ PaidOnce'
  BY DEF PaysInv, KeptIsLast, MadeOfKept, PaidOnce
<1>3. TakingOne' /\ ClearsMade'
  BY DEF PaysInv, TakingOne, ClearsMade, PaySteps
<1> QED  BY <1>1, <1>2, <1>3 DEF PaysInv

LEMMA NotTakingTyped ==
  NotTaking \in [key : Nat \cup Given, pays : SUBSET Payments, back : {"idle", "clear"}]
BY DEF NotTaking

(* The fields of the payments. *)
LEMMA PaymentsAre ==
  ASSUME PaymentsTyped
  PROVE  /\ payments.queue \in SUBSET Payments /\ payments.pays \in SUBSET Payments
         /\ payments.last \in Nat /\ payments.kept \in Nat
         /\ taking.key \in Nat \cup Given /\ taking.pays \in SUBSET Payments
         /\ taking.back \in {"idle", "clear"}
         /\ \A one \in made : one.key \in Given \cup Moments /\ one.pays \in SUBSET Payments
         /\ \A one, other \in made : one.key = other.key /\ one.pays = other.pays => one = other
BY DEF PaymentsTyped

LEMMA MomentsAre ==
  /\ \A c \in Moments : c \in Nat /\ c # 0
  /\ \A key \in Given : key \notin Moments
BY PaymentsAssumption

LEMMA PayPays ==
  ASSUME PaysInv, NEW p \in Payments, Pay(p)
  PROVE  PaysInv'
<1>1. PICK q, l, k, s : q = payments.queue /\ l = payments.last /\ k = payments.kept /\ s = payments.pays
  OBVIOUS
<1>2. /\ payments = [queue |-> q, last |-> l, kept |-> k, pays |-> s]
      /\ q \in SUBSET Payments /\ s \in SUBSET Payments /\ l \in Nat /\ k \in Nat
  BY <1>1 DEF PaysInv, PaymentsTyped
<1>3. /\ pc = "idle" /\ p \notin asked /\ asked' = asked \cup {p}
      /\ payments' = [queue |-> q \cup {p}, last |-> l, kept |-> k, pays |-> s]
      /\ UNCHANGED <<pc, writing, taking, made>>
  <2>1. payments' = [payments EXCEPT !.queue = @ \cup {p}]
    BY DEF Pay
  <2>2. payments' = [queue |-> q \cup {p}, last |-> l, kept |-> k, pays |-> s]
    BY <1>2, <2>1
  <2> QED  BY <2>2 DEF Pay, chain
<1>4. /\ payments'.queue = q \cup {p} /\ payments'.last = l /\ payments'.kept = k /\ payments'.pays = s
  BY <1>3
<1>5. PaymentsTyped'
  BY <1>2, <1>3 DEF PaysInv, PaymentsTyped
<1>6. WritingBack'
  BY <1>3 DEF PaysInv, WritingBack
<1>7. KeptIsLast' /\ MadeOfKept'
  BY <1>1, <1>3, <1>4 DEF PaysInv, KeptIsLast, MadeOfKept
<1>8. TakingOne' /\ ClearsMade'
  BY <1>3 DEF TakingOne, ClearsMade
<1>9. PaidOnce'
  <2>1. p \notin s /\ \A one \in made : p \notin one.pays
    BY <1>1, <1>3 DEF PaysInv, PaidOnce
  <2> QED  BY <1>1, <1>3, <1>4, <2>1 DEF PaysInv, PaidOnce
<1> QED  BY <1>5, <1>6, <1>7, <1>8, <1>9 DEF PaysInv

LEMMA PayOutPays ==
  ASSUME PaysInv, PayOut
  PROVE  PaysInv'
<1>1. PICK q, l, k, s : q = payments.queue /\ l = payments.last /\ k = payments.kept /\ s = payments.pays
  OBVIOUS
<1>2. /\ payments = [queue |-> q, last |-> l, kept |-> k, pays |-> s]
      /\ q \in SUBSET Payments /\ s \in SUBSET Payments /\ l \in Nat /\ k \in Nat
  BY <1>1 DEF PaysInv, PaymentsTyped
<1>3. PICK c \in NextCreated : /\ payments' = [payments EXCEPT !.last = c]
                               /\ taking' = [key |-> c, pays |-> {}, back |-> "idle"]
  BY DEF PayOut
<1>4. c \in Moments /\ c \in Nat /\ c > l /\ c # 0
  BY <1>1, MomentsAre DEF NextCreated
<1>5. payments' = [queue |-> q, last |-> c, kept |-> k, pays |-> s]
  BY <1>2, <1>3
<1>6. /\ payments'.queue = q /\ payments'.last = c /\ payments'.kept = k /\ payments'.pays = s
      /\ taking'.key = c /\ taking'.pays = {} /\ taking'.back = "idle"
  BY <1>3, <1>5
<1>7. pc' = "take" /\ UNCHANGED <<writing, asked, made>>
  BY DEF PayOut, chain
<1>8. PaymentsTyped'
  BY <1>2, <1>3, <1>4, <1>5, <1>7 DEF PaysInv, PaymentsTyped
<1>9. WritingBack'
  BY <1>7 DEF PaysInv, WritingBack
<1>10. ASSUME NEW one \in made, one.key \in Moments
       PROVE  one.key \in Nat /\ one.key <= l /\ one.key # c
  <2>1. one.key \in Nat /\ one.key <= l
    BY <1>1, <1>10, MomentsAre DEF PaysInv, KeptIsLast
  <2> QED  BY <1>2, <1>4, <2>1
<1>11. k \in Moments \cup {0} /\ k <= l /\ k <= c /\ k # c
  BY <1>1, <1>2, <1>4 DEF PaysInv, KeptIsLast
<1>12. KeptIsLast'
  <2>1. \A one \in made : one.key \in Moments => one.key <= c
    BY <1>2, <1>4, <1>10
  <2> QED  BY <1>1, <1>6, <1>7, <1>11, <2>1 DEF PaysInv, KeptIsLast
<1>13. MadeOfKept' /\ PaidOnce'
  BY <1>1, <1>6, <1>7 DEF PaysInv, MadeOfKept, PaidOnce
<1>14. TakingOne'
  <2>1. \A one \in made : one.key # c
    BY <1>4, <1>10
  <2> QED  BY <1>4, <1>6, <1>7, <1>11, <2>1 DEF TakingOne
<1>15. ClearsMade'
  BY <1>7 DEF ClearsMade
<1> QED  BY <1>8, <1>9, <1>12, <1>13, <1>14, <1>15 DEF PaysInv

LEMMA GivenPays ==
  ASSUME PaysInv, NEW key \in Given, OnTransaction(key)
  PROVE  PaysInv'
<1>1. /\ taking' = [key |-> key, pays |-> {}, back |-> "idle"] /\ pc' = "take"
      /\ UNCHANGED <<payments, asked, made, writing>>
  BY DEF OnTransaction, chain
<1>2. taking'.key = key /\ taking'.pays = {} /\ taking'.back = "idle"
  BY <1>1
<1>3. PaymentsTyped' /\ WritingBack'
  BY <1>1 DEF PaysInv, PaymentsTyped, WritingBack
<1>4. KeptIsLast' /\ MadeOfKept' /\ PaidOnce'
  BY <1>1 DEF PaysInv, KeptIsLast, MadeOfKept, PaidOnce
<1>5. TakingOne' /\ ClearsMade'
  BY <1>1, <1>2 DEF TakingOne, ClearsMade
<1> QED  BY <1>3, <1>4, <1>5 DEF PaysInv

LEMMA MakePays ==
  ASSUME PaysInv, MakePayments
  PROVE  PaysInv'
<1>1. PICK q, l, k, s : q = payments.queue /\ l = payments.last /\ k = payments.kept /\ s = payments.pays
  OBVIOUS
<1>2. /\ q \in SUBSET Payments /\ s \in SUBSET Payments /\ l \in Nat /\ k = 0 /\ s = {}
  BY <1>1, PaymentsAre DEF PaysInv, KeptIsLast, MakePayments
<1>3. PICK c \in NextCreated :
        /\ payments' = [queue |-> {}, last |-> c, kept |-> c, pays |-> q]
        /\ taking' = [key |-> c, pays |-> q, back |-> "clear"]
  BY <1>1 DEF MakePayments
<1>4. c \in Moments /\ c \in Nat /\ c > l /\ c # 0
  BY <1>1, MomentsAre DEF NextCreated
<1>5. /\ payments'.queue = {} /\ payments'.last = c /\ payments'.kept = c /\ payments'.pays = q
      /\ taking'.key = c /\ taking'.pays = q /\ taking'.back = "clear"
  BY <1>3
<1>6. pc' = "take" /\ UNCHANGED <<writing, asked, made>>
  BY DEF MakePayments, chain
<1>7. PaymentsTyped' /\ WritingBack'
  BY <1>2, <1>3, <1>4, <1>6 DEF PaysInv, PaymentsTyped, WritingBack
<1>8. \A one \in made : one.key \in Moments => one.key \in Nat /\ one.key <= l /\ one.key # c
  BY <1>1, <1>2, <1>4, MomentsAre DEF PaysInv, KeptIsLast
<1>9. KeptIsLast'
  <2>1. \A one \in made : one.key \in Moments => one.key <= c
    BY <1>2, <1>4, <1>8
  <2> QED  BY <1>4, <1>5, <1>6, <2>1 DEF KeptIsLast
<1>10. MadeOfKept'
  <2>1. \A one \in made : one.pays \cap q = {}
    BY <1>1 DEF PaysInv, PaidOnce
  <2> QED  BY <1>5, <1>6, <1>8, <2>1 DEF PaysInv, MadeOfKept
<1>11. TakingOne' /\ ClearsMade'
  BY <1>4, <1>5, <1>6 DEF TakingOne, ClearsMade
<1>12. PaidOnce'
  BY <1>1, <1>2, <1>5, <1>6 DEF PaysInv, PaidOnce
<1> QED  BY <1>7, <1>9, <1>10, <1>11, <1>12 DEF PaysInv

LEMMA AgainPays ==
  ASSUME PaysInv, MakeAgain
  PROVE  PaysInv'
<1>1. /\ taking' = [key |-> payments.kept, pays |-> payments.pays, back |-> "clear"]
      /\ payments.kept # 0 /\ pc' = "take" /\ UNCHANGED <<payments, asked, made, writing>>
  BY DEF MakeAgain, chain
<1>2. taking'.key = payments.kept /\ taking'.pays = payments.pays /\ taking'.back = "clear"
  BY <1>1
<1>3. PaymentsTyped' /\ WritingBack'
  BY <1>1, PaymentsAre DEF PaysInv, PaymentsTyped, WritingBack
<1>4. KeptIsLast' /\ MadeOfKept' /\ PaidOnce'
  BY <1>1 DEF PaysInv, KeptIsLast, MadeOfKept, PaidOnce
<1>5. TakingOne' /\ ClearsMade'
  BY <1>1, <1>2 DEF PaysInv, KeptIsLast, TakingOne, ClearsMade
<1> QED  BY <1>3, <1>4, <1>5 DEF PaysInv

(* A transaction given twice, or made again, is the same transaction. *)
LEMMA TakePays ==
  ASSUME PaysInv, Take
  PROVE  PaysInv'
<1>1. PICK new : new = [key |-> taking.key, pays |-> taking.pays]
  OBVIOUS
<1>2. /\ pc = "take" /\ made' = made \cup {new} /\ UNCHANGED <<payments, asked, writing>>
      /\ \/ pc' = "putTaken" /\ taking' = taking
         \/ pc' = taking.back /\ taking' \in {taking, NotTaking}
  <2>1. pc = "take" /\ made' = made \cup {new} /\ UNCHANGED <<payments, asked, writing>>
    BY <1>1 DEF Take, chain
  <2>2. pc' = "putTaken" \/ pc' = taking.back
    BY Zenon DEF Take
  <2>3. taking' = IF pc' = "putTaken" THEN taking ELSE NotTaking
    BY Zenon DEF Take
  <2> QED  BY <2>1, <2>2, <2>3
<1>3. new.key = taking.key /\ new.pays = taking.pays
  BY <1>1
<1>4. taking.key \in Given \cup Moments
  BY <1>2 DEF PaysInv, TakingOne
<1>5. new \in [key : Given \cup Moments, pays : SUBSET Payments]
  BY <1>1, <1>4, PaymentsAre DEF PaysInv
<1>6. PaymentsTyped' /\ WritingBack'
  BY <1>2, <1>5, NotTakingTyped DEF PaysInv, PaymentsTyped, WritingBack
<1>7. KeptIsLast'
  <2>1. payments.last \in Nat /\ payments.last <= payments.last
    BY PaymentsAre DEF PaysInv
  <2>2. taking.key \in Moments => taking.key <= payments.last
    BY <1>2, MomentsAre DEF PaysInv, TakingOne, KeptIsLast
  <2> QED  BY <1>2, <1>3, <2>2 DEF PaysInv, KeptIsLast
<1>8. MadeOfKept'
  BY <1>2, <1>3, MomentsAre DEF PaysInv, MadeOfKept, TakingOne
<1>9. ASSUME NEW one \in made, one.key = new.key \/ one.pays \cap new.pays # {}
      PROVE  one = new
  <2>1. one.key = new.key /\ one.pays = new.pays
    BY <1>2, <1>3, <1>9, MomentsAre DEF PaysInv, MadeOfKept, TakingOne
  <2>2. one \in [key : Given \cup Moments, pays : SUBSET Payments]
    BY DEF PaysInv, PaymentsTyped
  <2> QED  BY <1>5, <2>1, <2>2
<1>10. new.pays \subseteq payments.pays
  BY <1>2, <1>3 DEF PaysInv, TakingOne
<1>11. PaidOnce'
  <2>1. \A one, other \in made' :
          one.key = other.key \/ one.pays \cap other.pays # {} => one = other
    BY <1>2, <1>9 DEF PaysInv, PaidOnce
  <2>2. UNION {one.pays : one \in made'} = (UNION {one.pays : one \in made}) \cup new.pays
    <3>1. \A p : (\E one \in made' : p \in one.pays) <=> (\E one \in made : p \in one.pays) \/ p \in new.pays
      BY <1>2
    <3> QED  BY <3>1
  <2> QED  BY <1>2, <1>10, <2>1, <2>2 DEF PaysInv, PaidOnce
<1>12. TakingOne'
  BY <1>2, PaymentsAre DEF PaysInv, TakingOne
<1>13. ClearsMade'
  <2>1. taking.back = "clear" => new.pays = payments.pays
    BY <1>2, <1>3 DEF PaysInv, TakingOne
  <2>2. pc' = "clear" \/ (pc' = "putTaken" /\ taking'.back = "clear") => taking.back = "clear"
    <3>1. taking.back \in {"idle", "clear"}
      BY PaymentsAre DEF PaysInv
    <3> QED  BY <1>2, <3>1
  <2> QED  BY <1>2, <2>1, <2>2 DEF ClearsMade
<1> QED  BY <1>6, <1>7, <1>8, <1>11, <1>12, <1>13 DEF PaysInv

LEMMA PutUpPays ==
  ASSUME PaysInv, PutUp
  PROVE  PaysInv'
<1>1. /\ (pc = "putTaken" /\ pc' = taking.back) \/ (pc = "put" /\ pc' = "idle")
      /\ taking' = NotTaking /\ UNCHANGED <<payments, asked, made, writing>>
  BY DEF PutUp, chain
<1>2. PaymentsTyped' /\ WritingBack'
  BY <1>1, NotTakingTyped DEF PaysInv, PaymentsTyped, WritingBack
<1>3. KeptIsLast' /\ MadeOfKept' /\ PaidOnce'
  BY <1>1 DEF PaysInv, KeptIsLast, MadeOfKept, PaidOnce
<1>4. taking.back \in {"idle", "clear"}
  BY PaymentsAre DEF PaysInv
<1>5. TakingOne' /\ ClearsMade'
  BY <1>1, <1>4 DEF PaysInv, TakingOne, ClearsMade
<1> QED  BY <1>2, <1>3, <1>5 DEF PaysInv

LEMMA ClearPays ==
  ASSUME PaysInv, Clear
  PROVE  PaysInv'
<1>1. pc = "clear" /\ pc' = "put" /\ UNCHANGED <<writing, taking, asked, made>>
  BY DEF Clear, chain
<1>2. CASE UNCHANGED payments
  BY <1>1, <1>2, OtherPays DEF PaysInv, WritingBack, PaySteps, PaymentsTyped
<1>3. CASE payments' = [payments EXCEPT !.kept = 0, !.pays = {}]
  <2>1. PICK q, l, s : q = payments.queue /\ l = payments.last /\ s = payments.pays
    OBVIOUS
  <2>2. q \in SUBSET Payments /\ l \in Nat /\ s \in SUBSET Payments
    BY <2>1, PaymentsAre DEF PaysInv
  <2>3. payments' = [queue |-> q, last |-> l, kept |-> 0, pays |-> {}]
    BY <1>3, <2>1 DEF PaysInv, PaymentsTyped
  <2>4. payments'.queue = q /\ payments'.last = l /\ payments'.kept = 0 /\ payments'.pays = {}
    BY <2>3
  <2>5. PaymentsTyped' /\ WritingBack'
    BY <1>1, <2>2, <2>3 DEF PaysInv, PaymentsTyped, WritingBack
  <2>6. KeptIsLast'
    BY <1>1, <2>1, <2>2, <2>4 DEF PaysInv, KeptIsLast
  <2>7. MadeOfKept'
    BY <1>1, <2>4, MomentsAre DEF PaysInv, MadeOfKept
  <2>8. TakingOne' /\ ClearsMade'
    BY <1>1 DEF TakingOne, ClearsMade
  <2>9. PaidOnce'
    <3>1. \A p \in s : \E one \in made : p \in one.pays
      BY <1>1, <2>1 DEF PaysInv, ClearsMade
    <3> QED  BY <1>1, <2>1, <2>4, <3>1 DEF PaysInv, PaidOnce
  <2> QED  BY <2>5, <2>6, <2>7, <2>8, <2>9 DEF PaysInv
<1> QED  BY <1>2, <1>3 DEF Clear

LEMMA StepPays ==
  ASSUME PaysInv, [Next]_vars
  PROVE  PaysInv'
<1> DEFINE Takings == [key : Nat \cup Given, pays : SUBSET Payments, back : {"idle", "clear"}]
<1>1. taking \in Takings /\ WritingBack
  BY DEF PaysInv, PaymentsTyped
<1>2. CASE UNCHANGED vars
  <2>1. UNCHANGED <<payments, asked, made, taking, pc, writing>>
    BY <1>2 DEF vars, chainVars
  <2> QED  BY <1>1, <2>1, OtherPays DEF WritingBack
<1>3. CASE ChainStep
  <2>1. UNCHANGED <<payments, asked, made, taking>>
    BY <1>3 DEF ChainStep
  <2> QED  BY <1>1, <1>3, <2>1, ChainStepBack, OtherPays
<1>4. CASE Ends
  <2>1. UNCHANGED <<payments, asked, made>> /\ taking' = NotTaking /\ pc' = "down"
        /\ writing' = NothingWritten
    BY <1>4 DEF Ends, Crash, Forget
  <2> QED  BY <2>1, ClearedBack, NotTakingTyped, OtherPays DEF PaySteps
<1>5. CASE NotDue
  <2>1. UNCHANGED <<payments, asked, made, taking, writing>> /\ pc' = "put"
    BY <1>5 DEF NotDue, chain
  <2> QED  BY <1>1, <2>1, OtherPays DEF PaySteps, WritingBack
<1>6. CASE NotTaken
  <2>1. UNCHANGED <<payments, asked, made, writing>> /\ pc' \in {"put", "idle"} /\ taking' = NotTaking
    BY <1>6 DEF NotTaken, chain
  <2> QED  BY <1>1, <2>1, NotTakingTyped, OtherPays DEF PaySteps, WritingBack
<1> QED
  BY <1>2, <1>3, <1>4, <1>5, <1>6, PayPays, PayOutPays, GivenPays, MakePays, AgainPays, TakePays,
     PutUpPays, ClearPays DEF Next

(* A payment is in the queue, or kept, or in one transaction, and only one, *)
(* whatever crashes or cannot be written: the node "never pays twice"       *)
(* (NodePayments), for any payments, batch and times.                       *)
THEOREM KarmaPaysOnce == Spec => []PaidOnce
<1>1. PaysInv => PaidOnce
  BY DEF PaysInv
<1> QED  BY <1>1, InitPays, StepPays, PTL DEF Spec

-----------------------------------------------------------------------------
(* What is defined for a generation from the one before is defined for all. *)

StepsUp(start, Step, f) ==
    \A g \in Generations : /\ Previous[g] = NoGeneration => f[g] = Step[start][g]
                           /\ Previous[g] # NoGeneration => f[g] = Step[f[Previous[g]]][g]

LEMMA DefinedUp ==
  ASSUME NEW T, NEW start \in T, NEW Step \in [T -> [Generations -> T]]
  PROVE  \E f \in [Generations -> T] : StepsUp(start, Step, f)
<1> DEFINE After(f, g) == IF Previous[g] = NoGeneration THEN Step[start][g]
                                                        ELSE Step[f[Previous[g]]][g]
           Try(D, f) == /\ D \in SUBSET Generations /\ f \in [D -> T]
                        /\ \A g \in D : /\ Previous[g] = NoGeneration \/ Previous[g] \in D
                                        /\ f[g] = After(f, g)
<1>1. \A some \in SUBSET Generations : some # {} => \E g \in some : Previous[g] \notin some
  BY KarmaAssumption
<1>2. ASSUME NEW D, NEW f, NEW E, NEW h, Try(D, f), Try(E, h), NEW k \in D \cap E
      PROVE  f[k] = h[k]
  <2> DEFINE Differ == {g \in D \cap E : f[g] # h[g]}
  <2>1. SUFFICES ASSUME Differ # {} PROVE FALSE
    OBVIOUS
  <2>2. Differ \in SUBSET Generations
    BY <1>2
  <2>3. PICK g \in Differ : Previous[g] \notin Differ
    <3> HIDE DEF Differ
    <3> QED  BY <1>1, <2>1, <2>2
  <2>4. f[g] = After(f, g) /\ h[g] = After(h, g) /\ f[g] # h[g]
    BY <1>2
  <2>5. Previous[g] # NoGeneration => Previous[g] \in D \cap E /\ f[Previous[g]] = h[Previous[g]]
    BY <1>2, <2>3
  <2> QED  BY <2>4, <2>5, Zenon
<1>3. ASSUME NEW k \in Generations
      PROVE  \E D, f : Try(D, f) /\ k \in D
  <2> DEFINE Failed == {g \in Generations : ~ \E D, f : Try(D, f) /\ g \in D}
  <2>1. SUFFICES ASSUME Failed # {} PROVE FALSE
    OBVIOUS
  <2>2. PICK g \in Failed : Previous[g] \notin Failed
    <3>1. Failed \in SUBSET Generations
      OBVIOUS
    <3> HIDE DEF Failed
    <3> QED  BY <1>1, <2>1, <3>1
  <2>3. CASE Previous[g] = NoGeneration
    <3> DEFINE f == [x \in {g} |-> Step[start][g]]
    <3>1. Step[start][g] \in T
      OBVIOUS
    <3>2. f \in [{g} -> T] /\ f[g] = Step[start][g]
      BY <3>1
    <3>3. After(f, g) = Step[start][g]
      BY <2>3
    <3> HIDE DEF f, After
    <3>4. Try({g}, f)
      BY <2>3, <3>2, <3>3
    <3> QED  BY <3>4
  <2>4. CASE Previous[g] # NoGeneration
    <3>1. Previous[g] \in Generations
      BY <2>4, KarmaAssumption
    <3>2. PICK D, h : Try(D, h) /\ Previous[g] \in D
      BY <2>2, <3>1
    <3>3. g \notin D
      BY <3>2
    <3>4. h[Previous[g]] \in T
      BY <3>2
    <3> DEFINE new == Step[h[Previous[g]]][g]
               f == [x \in D \cup {g} |-> IF x = g THEN new ELSE h[x]]
    <3>5. new \in T
      BY <3>4
    <3> HIDE DEF new
    <3>6. f \in [D \cup {g} -> T] /\ f[g] = new /\ \A x \in D : f[x] = h[x]
      BY <3>2, <3>3, <3>5
    <3> HIDE DEF f
    <3>7. \A x \in D : After(f, x) = After(h, x)
      BY <3>2, <3>6
    <3>8. After(f, g) = new
      BY <2>4, <3>2, <3>6 DEF new
    <3> HIDE DEF After
    <3>9. Try(D \cup {g}, f)
      BY <3>2, <3>6, <3>7, <3>8
    <3> HIDE DEF Try
    <3>10. \E E, one : Try(E, one) /\ g \in E
      BY <3>9
    <3> QED  BY <3>10
  <2> QED  BY <2>3, <2>4
<1> DEFINE value(g) == CHOOSE v : \E D, f : Try(D, f) /\ g \in D /\ v = f[g]
           F == [g \in Generations |-> value(g)]
<1>4. ASSUME NEW D, NEW f, Try(D, f), NEW g \in D
      PROVE  F[g] = f[g]
  <2>1. PICK E, h : Try(E, h) /\ g \in E /\ value(g) = h[g]
    <3>1. \E v : \E E, h : Try(E, h) /\ g \in E /\ v = h[g]
      BY <1>4
    <3> QED  BY <3>1
  <2>2. f[g] = h[g]
    <3> HIDE DEF Try
    <3> QED  BY <1>2, <1>4, <2>1
  <2>3. g \in Generations
    BY <1>4
  <2> QED  BY <2>1, <2>2, <2>3
<1>5. ASSUME NEW g \in Generations
      PROVE  F[g] \in T /\ F[g] = After(F, g)
  <2> HIDE DEF F
  <2>1. PICK D, f : Try(D, f) /\ g \in D
    <3> HIDE DEF Try
    <3> QED  BY <1>3
  <2>2. F[g] = f[g] /\ f[g] \in T /\ f[g] = After(f, g)
    <3>1. f[g] \in T /\ f[g] = After(f, g)
      <4> HIDE DEF After
      <4> QED  BY <2>1
    <3>2. F[g] = f[g]
      <4> HIDE DEF Try
      <4> QED  BY <1>4, <2>1
    <3> QED  BY <3>1, <3>2
  <2>3. Previous[g] # NoGeneration => F[Previous[g]] = f[Previous[g]]
    <3>1. Previous[g] # NoGeneration => Previous[g] \in D
      BY <2>1
    <3> HIDE DEF Try
    <3> QED  BY <1>4, <2>1, <3>1
  <2> QED  BY <2>2, <2>3
<1> HIDE DEF value
<1>6. F \in [Generations -> T]
  BY <1>5
<1> HIDE DEF F
<1>7. ASSUME NEW g \in Generations
      PROVE  /\ Previous[g] = NoGeneration => F[g] = Step[start][g]
             /\ Previous[g] # NoGeneration => F[g] = Step[F[Previous[g]]][g]
  BY <1>5
<1> QED  BY <1>6, <1>7 DEF StepsUp

LEMMA PathIs ==
  /\ Path \in [Generations -> Seq(Generations)]
  /\ \A g \in Generations :
        Path[g] = IF Previous[g] = NoGeneration THEN <<g>> ELSE Append(Path[Previous[g]], g)
<1> DEFINE Is(f) == f = [g \in Generations |->
                           IF Previous[g] = NoGeneration THEN <<g>> ELSE Append(f[Previous[g]], g)]
           Step == [s \in Seq(Generations) |-> [g \in Generations |-> Append(s, g)]]
<1>1. PICK f \in [Generations -> Seq(Generations)] : StepsUp(<<>>, Step, f)
  <2>1. <<>> \in Seq(Generations)
    OBVIOUS
  <2>2. Step \in [Seq(Generations) -> [Generations -> Seq(Generations)]]
    OBVIOUS
  <2> HIDE DEF Step
  <2>3. PICK T, start, St : T = Seq(Generations) /\ start = <<>> /\ St = Step
    OBVIOUS
  <2>4. \E f \in [Generations -> T] : StepsUp(start, St, f)
    BY <2>1, <2>2, <2>3, DefinedUp
  <2> QED  BY <2>3, <2>4
<1>2. ASSUME NEW g \in Generations
      PROVE  f[g] = IF Previous[g] = NoGeneration THEN <<g>> ELSE Append(f[Previous[g]], g)
  <2>1. CASE Previous[g] = NoGeneration
    <3>1. f[g] = Step[<<>>][g]
      BY <1>1, <2>1 DEF StepsUp
    <3>2. Step[<<>>][g] = Append(<<>>, g) /\ Append(<<>>, g) = <<g>>
      <4>0. PICK e : e = <<>>
        OBVIOUS
      <4>1. e \in Seq(Generations)
        BY <4>0
      <4>3. Step[e][g] = Append(e, g)
        BY <4>1
      <4>2. Append(<<>>, g) = <<g>>
        OBVIOUS
      <4> HIDE DEF Step
      <4> QED  BY <4>0, <4>2, <4>3
    <3> QED  BY <2>1, <3>1, <3>2, Zenon
  <2>2. CASE Previous[g] # NoGeneration
    <3>1. PICK s \in Seq(Generations) : s = f[Previous[g]]
      BY <2>2, KarmaAssumption
    <3>2. f[g] = Step[s][g]
      BY <1>1, <2>2, <3>1 DEF StepsUp
    <3>3. Step[s][g] = Append(s, g)
      OBVIOUS
    <3> QED  BY <2>2, <3>1, <3>2, <3>3, Zenon
  <2> QED  BY <2>1, <2>2
<1>3. Is(f)
  BY <1>2
<1>4. Is(Path)
  <2>1. Path = CHOOSE h : Is(h)
    BY Zenon DEF Path
  <2> HIDE DEF Is
  <2> QED  BY <1>3, <2>1
<1>5. Path = f
  <2>1. ASSUME Path # f PROVE FALSE
    <3> DEFINE Differ == {g \in Generations : Path[g] # f[g]}
    <3>1. Differ \in SUBSET Generations /\ Differ # {}
      BY <1>3, <1>4, <2>1
    <3>2. PICK g \in Differ : Previous[g] \notin Differ
      <4> HIDE DEF Differ
      <4> QED  BY <3>1, KarmaAssumption
    <3>3. Previous[g] # NoGeneration => Path[Previous[g]] = f[Previous[g]]
      BY <3>2, KarmaAssumption
    <3> QED  BY <1>3, <1>4, <3>2, <3>3
  <2> QED  BY <2>1
<1> QED  BY <1>2, <1>5

LEMMA WeightIs ==
  /\ Weight \in [Generations -> Nat]
  /\ \A g \in Generations :
        Weight[g] = Work[g] + (IF Previous[g] = NoGeneration THEN 0 ELSE Weight[Previous[g]])
<1> DEFINE Is(f) == f = [g \in Generations |->
                           Work[g] + (IF Previous[g] = NoGeneration THEN 0 ELSE f[Previous[g]])]
           Step == [n \in Nat |-> [g \in Generations |-> Work[g] + n]]
<1>1. PICK f \in [Generations -> Nat] : StepsUp(0, Step, f)
  <2>1. 0 \in Nat
    OBVIOUS
  <2>2. Step \in [Nat -> [Generations -> Nat]]
    BY KarmaAssumption
  <2> HIDE DEF Step
  <2>3. PICK T, start, St : T = Nat /\ start = 0 /\ St = Step
    OBVIOUS
  <2>4. \E f \in [Generations -> T] : StepsUp(start, St, f)
    BY <2>1, <2>2, <2>3, DefinedUp
  <2> QED  BY <2>3, <2>4
<1>2. ASSUME NEW g \in Generations
      PROVE  f[g] = Work[g] + (IF Previous[g] = NoGeneration THEN 0 ELSE f[Previous[g]])
  <2>1. PICK n \in Nat : n = IF Previous[g] = NoGeneration THEN 0 ELSE f[Previous[g]]
    BY KarmaAssumption
  <2>2. f[g] = Step[n][g]
    BY <1>1, <2>1 DEF StepsUp
  <2>3. Step[n][g] = Work[g] + n
    OBVIOUS
  <2> QED  BY <2>1, <2>2, <2>3, Zenon
<1>3. Is(f)
  BY <1>2
<1>4. Is(Weight)
  <2>1. Weight = CHOOSE h : Is(h)
    BY Zenon DEF Weight
  <2> HIDE DEF Is
  <2> QED  BY <1>3, <2>1
<1>5. Weight = f
  <2>1. ASSUME Weight # f PROVE FALSE
    <3> DEFINE Differ == {g \in Generations : Weight[g] # f[g]}
    <3>1. Differ \in SUBSET Generations /\ Differ # {}
      BY <1>3, <1>4, <2>1
    <3>2. PICK g \in Differ : Previous[g] \notin Differ
      <4> HIDE DEF Differ
      <4> QED  BY <3>1, KarmaAssumption
    <3>3. Previous[g] # NoGeneration => Weight[Previous[g]] = f[Previous[g]]
      BY <3>2, KarmaAssumption
    <3> QED  BY <1>3, <1>4, <3>2, <3>3
  <2> QED  BY <2>1
<1> QED  BY <1>2, <1>5

-----------------------------------------------------------------------------
(* Least and greatest of numbers. *)

LEMMA LeastExists ==
  ASSUME NEW S \in SUBSET Nat, S # {}
  PROVE  \E least \in S : \A m \in S : least <= m
<1>1. PICK T \in S : \A k \in S : <<k, T>> \notin OpToRel(<, Nat)
  BY NatLessThanWellFounded, WFMin
<1>2. \A k \in S : ~(k < T)
  BY <1>1 DEF OpToRel
<1> QED  BY <1>2

LEMMA MinIs ==
  ASSUME NEW S \in SUBSET Nat, S # {}
  PROVE  Min(S) \in S /\ \A m \in S : Min(S) <= m
BY LeastExists DEF Min

LEMMA MaxIs ==
  ASSUME NEW S \in SUBSET Nat, S # {}, NEW bound \in Nat, \A m \in S : m <= bound
  PROVE  Max(S) \in S /\ \A m \in S : m <= Max(S)
<1> DEFINE Below == {k \in 0..bound : bound - k \in S}
<1>1. Below \in SUBSET Nat /\ Below # {}
  <2>1. PICK m \in S : TRUE
    OBVIOUS
  <2>2. m \in Nat /\ m <= bound /\ bound - (bound - m) = m
    OBVIOUS
  <2>3. bound - m \in Below
    BY <2>2
  <2>4. Below \in SUBSET Nat
    OBVIOUS
  <2> HIDE DEF Below
  <2> QED  BY <2>3, <2>4
<1>2. PICK least \in Below : \A k \in Below : least <= k
  <2> HIDE DEF Below
  <2> QED  BY <1>1, LeastExists
<1>3. ASSUME NEW m \in S PROVE m <= bound - least
  <2>1. bound - m \in Below
    OBVIOUS
  <2>2. least <= bound - m
    BY <1>2, <2>1
  <2> QED  BY <2>2
<1>4. \E x \in S : \A y \in S : x >= y
  BY <1>2, <1>3
<1> QED  BY <1>4 DEF Max

LEMMA FiniteIsBounded ==
  ASSUME NEW S \in SUBSET Nat, IsFiniteSet(S)
  PROVE  \E bound \in Nat : \A m \in S : m <= bound
<1> DEFINE Bounded(T) == \E bound \in Nat : \A m \in T : m <= bound
           Sizes == {n \in Nat : \E T \in SUBSET S : Cardinality(T) = n /\ ~Bounded(T)}
<1>1. SUFFICES ASSUME ~Bounded(S) PROVE FALSE
  OBVIOUS
<1>2. Cardinality(S) \in Sizes
  BY <1>1, FS_CardinalityType
<1>3. PICK least \in Sizes : \A m \in Sizes : least <= m
  <2>1. Sizes \in SUBSET Nat
    OBVIOUS
  <2> HIDE DEF Sizes
  <2> QED  BY <1>2, <2>1, LeastExists
<1>4. PICK T \in SUBSET S : Cardinality(T) = least /\ ~Bounded(T)
  BY <1>3
<1>5. IsFiniteSet(T) /\ T \in SUBSET Nat
  BY FS_Subset
<1>6. PICK x \in T : TRUE
  <2>1. Bounded({})
    <3>1. \A m \in {} : m <= 0
      OBVIOUS
    <3> QED  BY <3>1
  <2> HIDE DEF Bounded
  <2>2. T # {}
    BY <1>4, <2>1
  <2> QED  BY <2>2
<1>7. IsFiniteSet(T \ {x}) /\ Cardinality(T \ {x}) = least - 1 /\ least \in Nat
  BY <1>4, <1>5, <1>6, FS_RemoveElement, FS_CardinalityType
<1>8. Cardinality(T \ {x}) \in Nat
  BY <1>7, FS_CardinalityType
<1>9. Bounded(T \ {x})
  <2> HIDE DEF Bounded
  <2>1. T \ {x} \in SUBSET S
    OBVIOUS
  <2>2. ~Bounded(T \ {x}) => Cardinality(T \ {x}) \in Sizes
    BY <1>8, <2>1
  <2> HIDE DEF Sizes
  <2> QED  BY <1>3, <1>7, <1>8, <2>2
<1>10. PICK bound \in Nat : \A m \in T \ {x} : m <= bound
  BY <1>9
<1>11. x \in Nat /\ bound + x \in Nat /\ \A m \in T : m <= bound + x
  BY <1>5, <1>6, <1>10
<1> QED  BY <1>4, <1>11

-----------------------------------------------------------------------------
(* Chains. *)

LEMMA PathShape ==
  ASSUME NEW g \in Generations
  PROVE  /\ Path[g] \in Seq(Generations) /\ Len(Path[g]) \in Nat /\ Len(Path[g]) > 0
         /\ Path[g][Len(Path[g])] = g
<1>1. Path[g] \in Seq(Generations)
  BY PathIs
<1>2. CASE Previous[g] = NoGeneration
  <2>1. Path[g] = <<g>>
    BY <1>2, PathIs
  <2> QED  BY <1>1, <2>1
<1>3. CASE Previous[g] # NoGeneration
  <2>1. PICK s \in Seq(Generations) : s = Path[Previous[g]]
    BY <1>3, PathIs, KarmaAssumption
  <2>2. Path[g] = Append(s, g)
    BY <1>3, <2>1, PathIs
  <2>3. Len(Append(s, g)) = Len(s) + 1 /\ Append(s, g)[Len(s) + 1] = g
    OBVIOUS
  <2>4. Len(s) \in Nat
    OBVIOUS
  <2> QED  BY <1>1, <2>2, <2>3, <2>4
<1> QED  BY <1>2, <1>3

(* A part of a chain from its root on is the chain of its last generation. *)
LEMMA PathParts ==
  ASSUME NEW g \in Generations, NEW i \in 1..Len(Path[g])
  PROVE  Path[g][i] \in Generations /\ Path[Path[g][i]] = SubSeq(Path[g], 1, i)
<1> DEFINE Whole(k) == \A j \in 1..Len(Path[k]) : Path[Path[k][j]] = SubSeq(Path[k], 1, j)
           Broken == {k \in Generations : ~Whole(k)}
<1>1. SUFFICES Broken = {}
  <2>1. Whole(g)
    BY <1>1
  <2>2. Path[g][i] \in Generations
    BY PathShape
  <2> QED  BY <2>1, <2>2
<1>2. SUFFICES ASSUME Broken # {} PROVE FALSE
  OBVIOUS
<1>3. PICK k \in Broken : Previous[k] \notin Broken
  <2>1. Broken \in SUBSET Generations
    OBVIOUS
  <2> HIDE DEF Broken
  <2> QED  BY <1>2, <2>1, KarmaAssumption
<1>4. PICK j \in 1..Len(Path[k]) : Path[Path[k][j]] # SubSeq(Path[k], 1, j)
  BY <1>3
<1>5. k \in Generations
  OBVIOUS
<1> HIDE DEF Broken
<1>6. CASE j = Len(Path[k])
  <2>1. PICK s \in Seq(Generations) : s = Path[k]
    BY <1>5, PathShape
  <2>2. SubSeq(s, 1, Len(s)) = s
    BY SubSeqFull
  <2> QED  BY <1>4, <1>5, <1>6, <2>1, <2>2, PathShape
<1>7. CASE j # Len(Path[k])
  <2>1. Previous[k] # NoGeneration
    <3>1. Previous[k] = NoGeneration => Path[k] = <<k>>
      BY <1>5, PathIs
    <3>2. Len(<<k>>) = 1
      OBVIOUS
    <3>3. Len(Path[k]) # 1
      BY <1>4, <1>5, <1>7, PathShape
    <3> QED  BY <3>1, <3>2, <3>3
  <2>2. Previous[k] \in Generations /\ Whole(Previous[k])
    <3>1. Previous[k] \in Generations
      BY <1>5, <2>1, KarmaAssumption
    <3> HIDE DEF Whole
    <3> QED  BY <1>3, <3>1 DEF Broken
  <2>3. PICK s \in Seq(Generations) : s = Path[Previous[k]]
    BY <2>2, PathShape
  <2>4. Path[k] = Append(s, k)
    BY <1>5, <2>1, <2>3, PathIs
  <2>5. j \in 1..Len(s)
    BY <1>4, <1>7, <2>4
  <2>6. Append(s, k)[j] = s[j] /\ SubSeq(Append(s, k), 1, j) = SubSeq(s, 1, j)
    BY <1>5, <2>5
  <2>7. Path[s[j]] = SubSeq(s, 1, j)
    BY <2>2, <2>3, <2>5
  <2> QED  BY <1>4, <2>4, <2>6, <2>7
<1> QED  BY <1>6, <1>7

LEMMA ChainIs ==
  ASSUME NEW c \in Chains
  PROVE  /\ c \in Seq(Generations) /\ Len(c) \in Nat
         /\ \/ c = <<>> /\ Len(c) = 0
            \/ /\ Len(c) > 0 /\ c # <<>>
               /\ c[Len(c)] \in Generations /\ c = Path[c[Len(c)]]
<1>1. CASE c = <<>>
  BY <1>1
<1>2. ASSUME NEW g \in Generations, c = Path[g]
      PROVE  /\ c \in Seq(Generations) /\ Len(c) \in Nat /\ Len(c) > 0 /\ c[Len(c)] = g
  BY <1>2, PathShape
<1>3. ASSUME c \in Seq(Generations), Len(c) > 0 PROVE c # <<>>
  BY <1>3
<1> QED  BY <1>1, <1>2, <1>3 DEF Chains

LEMMA ChainPart ==
  ASSUME NEW c \in Chains, NEW n \in 0..Len(c)
  PROVE  /\ SubSeq(c, 1, n) \in Chains /\ Len(SubSeq(c, 1, n)) = n
         /\ n = 0 => SubSeq(c, 1, n) = <<>>
         /\ n > 0 => c[n] \in Generations /\ SubSeq(c, 1, n) = Path[c[n]]
<1>1. c \in Seq(Generations) /\ n \in Nat /\ Len(c) \in Nat
  BY ChainIs
<1>2. Len(SubSeq(c, 1, n)) = n
  BY <1>1
<1>3. CASE n = 0
  <2>1. SubSeq(c, 1, n) = <<>>
    BY <1>1, <1>3
  <2> QED  BY <1>2, <1>3, <2>1 DEF Chains
<1>4. CASE n > 0
  <2>1. PICK g \in Generations : c = Path[g]
    BY <1>1, <1>4, ChainIs
  <2>2. n \in 1..Len(Path[g])
    BY <1>1, <1>4, <2>1
  <2>3. c[n] \in Generations /\ Path[c[n]] = SubSeq(c, 1, n)
    BY <2>1, <2>2, PathParts
  <2> QED  BY <1>2, <1>4, <2>3 DEF Chains
<1> QED  BY <1>1, <1>3, <1>4

LEMMA ChainWhole ==
  ASSUME NEW c \in Chains
  PROVE  SubSeq(c, 1, Len(c)) = c
BY ChainIs, SubSeqFull

(* Of two chains that agree at a generation, the parts up to it are one.   *)
LEMMA ChainsAgree ==
  ASSUME NEW c \in Chains, NEW d \in Chains, NEW n \in 1..Len(c), n <= Len(d), c[n] = d[n]
  PROVE  SubSeq(c, 1, n) = SubSeq(d, 1, n)
<1>1. Len(c) \in Nat /\ Len(d) \in Nat
  BY ChainIs
<1>2. n \in 0..Len(c) /\ n \in 0..Len(d) /\ n > 0
  BY <1>1
<1> QED  BY <1>2, ChainPart

(* A chain followed on by one more. *)
LEMMA ChainExtends ==
  ASSUME NEW c \in Chains, NEW g \in Generations, Previous[g] = HeadOf(c)
  PROVE  Path[g] = Append(c, g) /\ Len(Path[g]) = Len(c) + 1
<1>1. CASE c = <<>>
  <2>1. Path[g] = <<g>>
    BY <1>1, PathIs DEF HeadOf
  <2> QED  BY <1>1, <2>1
<1>2. CASE c # <<>>
  <2>1. PICK h \in Generations : h = c[Len(c)] /\ c = Path[h]
    BY <1>2, ChainIs
  <2>2. Previous[g] = h /\ h # NoGeneration
    BY <1>2, <2>1, KarmaAssumption DEF HeadOf, Last
  <2>3. Path[g] = Append(c, g)
    BY <2>1, <2>2, PathIs
  <2>4. Len(Append(c, g)) = Len(c) + 1
    BY ChainIs
  <2> QED  BY <2>3, <2>4
<1> QED  BY <1>1, <1>2

(* A part of a chain weighs no more than the chain. *)
LEMMA PathGrows ==
  ASSUME NEW g \in Generations, NEW i \in 1..Len(Path[g])
  PROVE  Weight[Path[g][i]] <= Weight[g]
<1> DEFINE Grows(k) == \A j \in 1..Len(Path[k]) : Weight[Path[k][j]] <= Weight[k]
           Broken == {k \in Generations : ~Grows(k)}
<1>1. SUFFICES Broken = {}
  <2>1. Grows(g)
    BY <1>1
  <2> QED  BY <2>1
<1>2. SUFFICES ASSUME Broken # {} PROVE FALSE
  OBVIOUS
<1>3. PICK k \in Broken : Previous[k] \notin Broken
  <2>1. Broken \in SUBSET Generations
    OBVIOUS
  <2> HIDE DEF Broken
  <2> QED  BY <1>2, <2>1, KarmaAssumption
<1>4. PICK j \in 1..Len(Path[k]) : ~(Weight[Path[k][j]] <= Weight[k])
  BY <1>3
<1>5. k \in Generations
  OBVIOUS
<1> HIDE DEF Broken
<1>6. Weight[k] \in Nat
  BY <1>5, WeightIs
<1>7. j # Len(Path[k])
  BY <1>4, <1>5, <1>6, PathShape
<1>8. Previous[k] # NoGeneration
  <2>1. Previous[k] = NoGeneration => Path[k] = <<k>>
    BY <1>5, PathIs
  <2>2. Len(<<k>>) = 1
    OBVIOUS
  <2>3. Len(Path[k]) # 1
    BY <1>4, <1>5, <1>7, PathShape
  <2> QED  BY <2>1, <2>2, <2>3
<1>9. Previous[k] \in Generations /\ Grows(Previous[k])
  <2>1. Previous[k] \in Generations
    BY <1>5, <1>8, KarmaAssumption
  <2> HIDE DEF Grows
  <2> QED  BY <1>3, <2>1 DEF Broken
<1>10. PICK s \in Seq(Generations) : s = Path[Previous[k]]
  BY <1>9, PathShape
<1>11. Path[k] = Append(s, k)
  BY <1>5, <1>8, <1>10, PathIs
<1>12. j \in 1..Len(s) /\ Append(s, k)[j] = s[j]
  BY <1>4, <1>5, <1>7, <1>11
<1>13. Weight[s[j]] <= Weight[Previous[k]]
  BY <1>9, <1>10, <1>12
<1>14. /\ Weight[k] = Work[k] + Weight[Previous[k]] /\ Work[k] \in Nat
       /\ Weight[Previous[k]] \in Nat /\ Weight[s[j]] \in Nat
  <2>1. s[j] \in Generations
    BY <1>12
  <2> QED  BY <1>5, <1>8, <1>9, <2>1, WeightIs, KarmaAssumption
<1> QED  BY <1>4, <1>11, <1>12, <1>13, <1>14

LEMMA WeighsIs ==
  ASSUME NEW c \in Chains
  PROVE  /\ Weighs(c) \in Nat
         /\ c # <<>> => Weighs(c) = Weight[c[Len(c)]]
BY ChainIs, WeightIs DEF Weighs, Last

LEMMA PartWeighsLess ==
  ASSUME NEW c \in Chains, NEW n \in 0..Len(c)
  PROVE  Weighs(SubSeq(c, 1, n)) <= Weighs(c)
<1>1. SubSeq(c, 1, n) \in Chains /\ Weighs(c) \in Nat /\ n \in Nat /\ Len(c) \in Nat
  BY ChainPart, ChainIs, WeighsIs
<1>2. CASE n = 0
  BY <1>1, <1>2, ChainPart DEF Weighs
<1>3. CASE n > 0
  <2>1. PICK g \in Generations : c = Path[g] /\ g = c[Len(c)] /\ c # <<>>
    BY <1>1, <1>3, ChainIs
  <2>2. PICK h \in Generations : h = c[n] /\ SubSeq(c, 1, n) = Path[h]
    BY <1>3, ChainPart
  <2>3. Path[h] # <<>> /\ Path[h][Len(Path[h])] = h /\ Path[h] \in Chains
    BY PathShape DEF Chains
  <2>4. Weighs(SubSeq(c, 1, n)) = Weight[h] /\ Weighs(c) = Weight[g]
    BY <2>1, <2>2, <2>3, WeighsIs
  <2>5. n \in 1..Len(Path[g])
    BY <1>1, <1>3, <2>1
  <2> QED  BY <2>1, <2>2, <2>4, <2>5, PathGrows
<1> QED  BY <1>1, <1>2, <1>3

LEMMA ExtendedWeighsMore ==
  ASSUME NEW c \in Chains, NEW g \in Generations, Previous[g] = HeadOf(c)
  PROVE  Weighs(c) < Weighs(Path[g])
<1>1. Path[g] # <<>> /\ Path[g][Len(Path[g])] = g /\ Path[g] \in Chains
  BY PathShape DEF Chains
<1>2. Weighs(Path[g]) = Weight[g] /\ Weight[g] \in Nat /\ Work[g] \in Nat /\ Work[g] > 0
  BY <1>1, WeighsIs, WeightIs, KarmaAssumption
<1>3. CASE c = <<>>
  <2>1. Weight[g] = Work[g] + 0 /\ Weighs(c) = 0
    BY <1>3, WeightIs DEF HeadOf, Weighs
  <2> QED  BY <1>2, <2>1
<1>4. CASE c # <<>>
  <2>1. PICK h \in Generations : h = c[Len(c)]
    BY <1>4, ChainIs
  <2>2. Previous[g] = h /\ h # NoGeneration
    BY <1>4, <2>1, KarmaAssumption DEF HeadOf, Last
  <2>3. Weight[g] = Work[g] + Weight[h] /\ Weight[h] \in Nat /\ Weighs(c) = Weight[h]
    BY <1>4, <2>1, <2>2, WeightIs, WeighsIs
  <2> QED  BY <1>2, <2>3
<1> QED  BY <1>3, <1>4

(* Each generation of a chain is built on the one before. *)
LEMMA ChainBuilt ==
  ASSUME NEW c \in Chains, NEW n \in 0..Len(c), n < Len(c)
  PROVE  c[n + 1] \in Generations /\ Previous[c[n + 1]] = HeadOf(SubSeq(c, 1, n))
<1>1. n \in Nat /\ Len(c) \in Nat /\ n + 1 \in 0..Len(c) /\ n + 1 > 0 /\ c \in Seq(Generations)
  BY ChainIs
<1>2. PICK g \in Generations : g = c[n + 1] /\ Path[g] = SubSeq(c, 1, n + 1)
  BY <1>1, ChainPart
<1>3. PICK s \in Seq(Generations) : s = SubSeq(c, 1, n) /\ Len(s) = n /\ \A i \in 1..n : s[i] = c[i]
  <2>1. /\ SubSeq(c, 1, n) \in Seq(Generations) /\ Len(SubSeq(c, 1, n)) = n
        /\ \A i \in 1..n : SubSeq(c, 1, n)[i] = c[i]
    BY <1>1
  <2> QED  BY <2>1
<1>4. Len(Path[g]) = n + 1 /\ \A i \in 1..n + 1 : Path[g][i] = c[i]
  BY <1>1, <1>2
<1>5. CASE Previous[g] = NoGeneration
  <2>1. Path[g] = <<g>> /\ Len(<<g>>) = 1
    BY <1>5, PathIs
  <2>2. s = <<>>
    BY <1>1, <1>3, <1>4, <2>1
  <2> QED  BY <1>2, <1>3, <1>5, <2>2 DEF HeadOf
<1>6. CASE Previous[g] # NoGeneration
  <2>1. PICK p \in Generations : p = Previous[g]
    BY <1>6, KarmaAssumption
  <2>2. PICK t \in Seq(Generations) : t = Path[p] /\ Len(t) > 0 /\ t[Len(t)] = p /\ Len(t) \in Nat
    BY PathShape
  <2>3. Path[g] = Append(t, g)
    BY <1>6, <2>1, <2>2, PathIs
  <2>4. Len(t) + 1 = n + 1 /\ \A i \in 1..Len(t) : Path[g][i] = t[i]
    BY <1>4, <2>2, <2>3
  <2>5. Len(t) = n /\ n \in 1..Len(t) /\ n \in 1..n + 1 /\ n > 0
    BY <1>1, <2>2, <2>4
  <2>6. s[n] = c[n] /\ Path[g][n] = c[n] /\ Path[g][n] = t[n]
    BY <1>3, <1>4, <2>4, <2>5
  <2>7. s # <<>> /\ s[Len(s)] = p
    BY <1>3, <2>2, <2>5, <2>6
  <2> QED  BY <1>2, <1>3, <2>1, <2>7 DEF HeadOf, Last
<1> QED  BY <1>5, <1>6

LEMMA PartWeighsLesser ==
  ASSUME NEW c \in Chains, NEW n \in 0..Len(c), n < Len(c)
  PROVE  Weighs(SubSeq(c, 1, n)) < Weighs(c)
<1>1. n + 1 \in 0..Len(c) /\ n + 1 > 0 /\ SubSeq(c, 1, n) \in Chains
  BY ChainPart, ChainIs
<1>2. c[n + 1] \in Generations /\ Weighs(SubSeq(c, 1, n)) < Weighs(Path[c[n + 1]])
  BY <1>1, ChainBuilt, ExtendedWeighsMore
<1>3. Path[c[n + 1]] = SubSeq(c, 1, n + 1) /\ SubSeq(c, 1, n + 1) \in Chains
  BY <1>1, ChainPart
<1>4. Weighs(SubSeq(c, 1, n + 1)) <= Weighs(c)
  BY <1>1, PartWeighsLess
<1>5. Weighs(c) \in Nat /\ Weighs(SubSeq(c, 1, n)) \in Nat /\ Weighs(SubSeq(c, 1, n + 1)) \in Nat
  BY <1>1, <1>3, WeighsIs
<1> QED  BY <1>2, <1>3, <1>4, <1>5

(* A chain parted at what it shares with another, and put together with    *)
(* the rest of the other, is the other.                                    *)
LEMMA Spliced ==
  ASSUME NEW c \in Chains, NEW d \in Chains, NEW a \in 0..Len(c), a < Len(d),
         SubSeq(c, 1, a) = SubSeq(d, 1, a)
  PROVE  /\ SubSeq(d, a + 1, Len(d)) \in Seq(Generations)
         /\ Len(SubSeq(d, a + 1, Len(d))) = Len(d) - a
         /\ SubSeq(c, 1, a) \o SubSeq(d, a + 1, Len(d)) = d
<1>1. d \in Seq(Generations) /\ Len(c) \in Nat /\ Len(d) \in Nat /\ a \in Nat
  BY ChainIs
<1>2. /\ SubSeq(d, a + 1, Len(d)) \in Seq(Generations)
      /\ Len(SubSeq(d, a + 1, Len(d))) = Len(d) - a
  BY <1>1
<1>3. SubSeq(d, 1, a) \o SubSeq(d, a + 1, Len(d)) = SubSeq(d, 1, Len(d))
  <2>1. 1 \in 1..Len(d) + 1 /\ a \in 1 - 1..Len(d) /\ Len(d) \in a..Len(d)
    BY <1>1
  <2> QED  BY <1>1, <2>1, ConcatAdjacentSubSeq
<1>4. SubSeq(d, 1, Len(d)) = d
  BY ChainWhole
<1> QED  BY <1>2, <1>3, <1>4

(* What is put after the first part of a chain keeps that part.            *)
LEMMA PartKept ==
  ASSUME NEW c \in Seq(Generations), NEW n \in 0..Len(c), NEW more \in Seq(Generations),
         NEW d, d = SubSeq(c, 1, n) \o more
  PROVE  /\ d \in Seq(Generations) /\ Len(d) = n + Len(more)
         /\ \A i \in 1..n : d[i] = c[i]
         /\ \A i \in 1..Len(more) : d[n + i] = more[i]
         /\ SubSeq(d, 1, n) = SubSeq(c, 1, n)
<1>1. Len(c) \in Nat /\ n \in Nat /\ Len(more) \in Nat
  OBVIOUS
<1>2. PICK s \in Seq(Generations) : s = SubSeq(c, 1, n) /\ Len(s) = n /\ \A i \in 1..n : s[i] = c[i]
  <2>1. /\ SubSeq(c, 1, n) \in Seq(Generations) /\ Len(SubSeq(c, 1, n)) = n
        /\ \A i \in 1..n : SubSeq(c, 1, n)[i] = c[i]
    BY <1>1
  <2> QED  BY <2>1
<1>3. d = s \o more
  BY <1>2
<1>4. /\ d \in Seq(Generations) /\ Len(d) = n + Len(more)
      /\ \A i \in 1..n : d[i] = s[i]
      /\ \A i \in 1..Len(more) : d[n + i] = more[i]
  BY <1>1, <1>2, <1>3
<1>5. SubSeq(d, 1, n) = s
  <2>1. SubSeq(d, 1, n) \in Seq(Generations) /\ Len(SubSeq(d, 1, n)) = n
        /\ \A i \in 1..n : SubSeq(d, 1, n)[i] = d[i]
    BY <1>1, <1>4
  <2> QED  BY <1>2, <1>4, <2>1, SeqEqual
<1> QED  BY <1>2, <1>4, <1>5

LEMMA LongestIs ==
  ASSUME NEW g \in Generations
  PROVE  Longest \in Nat /\ Len(Path[g]) <= Longest
<1> DEFINE Lens == {Len(Path[h]) : h \in Generations}
<1>1. Lens \in SUBSET Nat /\ Lens # {}
  BY PathShape
<1>2. IsFiniteSet(Lens)
  <2> DEFINE f == [h \in Generations |-> Len(Path[h])]
  <2>1. f \in Surjection(Generations, Lens)
    <3>1. f \in [Generations -> Lens] /\ \A m \in Lens : \E h \in Generations : f[h] = m
      OBVIOUS
    <3> QED  BY <3>1 DEF Surjection
  <2> QED  BY <2>1, FS_Surjection, KarmaAssumption
<1>3. PICK bound \in Nat : \A m \in Lens : m <= bound
  BY <1>1, <1>2, FiniteIsBounded
<1>4. Longest \in Lens /\ \A m \in Lens : m <= Longest
  <2> HIDE DEF Lens
  <2>1. Longest = Max(Lens)
    BY DEF Longest, Lens
  <2> QED  BY <1>1, <1>3, <2>1, MaxIs
<1> QED  BY <1>1, <1>4

-----------------------------------------------------------------------------
(* The chain followed, what is written of another, and the head weighed. *)

Carriables == [key : Transactions, putUp : BOOLEAN, witnessed : Nat]
Writings ==
    [generations : Seq(Generations), first : Nat, at : Nat, dropped : Nat,
     collected : SUBSET Carriables, back : {"idle", "follow", "followAgain", "note"}]
ClaimsRead ==
    [head : Generations, walked : Nat, ancestor : Nat \cup {-1}, checked : Nat,
     lacking : SUBSET ({"keys", "block"} \X Generations)]

(* The history is a chain, and the genealogy is the history.               *)
FollowsChain ==
    /\ history \in Chains /\ genealogy \in Chains
    /\ pc # "down" => genealogy = history
    /\ pc = "down" => weighed = {} /\ claim = NoClaim

(* What is written makes a chain no lighter, of one more generation or the *)
(* chain of the head weighed, and is followed once the genealogy is.       *)
NewChain == SubSeq(history, 1, writing.first) \o writing.generations
Unfollowed == {"files", "genealogy"}

WritesChain ==
    pc \in Writing \cup {"note"} =>
        /\ writing \in Writings
        /\ writing.first \in 0..Len(history)
        /\ writing.at \in 1..Len(writing.generations)
        /\ pc = "genealogy" => writing.at = Len(writing.generations)
        /\ NewChain \in Chains
        /\ IF pc \in Unfollowed
           THEN /\ Weighs(history) <= Weighs(NewChain)
                /\ writing.back # "note" => writing.first = Len(history)
           ELSE NewChain = history
        /\ IF writing.back = "note"
           THEN claim # NoClaim /\ NewChain = Path[claim.head] /\ claim.head # noted
           ELSE pc # "note" /\ writing.collected = {}

(* The chain of the head weighed is the chain followed up to its ancestor. *)
Shares(ancestor, path) ==
    /\ ancestor \in 0..Len(history) /\ ancestor < Len(path)
    /\ SubSeq(history, 1, ancestor) = SubSeq(path, 1, ancestor)

ReadsClaim ==
    claim # NoClaim =>
        /\ claim \in ClaimsRead
        /\ claim.walked \in 1..Len(Path[claim.head]) + 1
        /\ IF claim.ancestor = -1 THEN claim.checked = 0
           ELSE /\ Shares(claim.ancestor, Path[claim.head])
                /\ claim.ancestor + claim.checked <= Len(Path[claim.head])

KnowsHeads ==
    /\ queue \subseteq Generations
    /\ told \in [Peers -> Generations \cup {NoGeneration}]
    /\ pc = "weigh" => noted = HeadOf(history)

ChainInv == FollowsChain /\ WritesChain /\ ReadsClaim /\ KnowsHeads

(* The files hold the chain followed, and what is written of another.      *)
FilesInv ==
    /\ DOMAIN file = 1..Longest
    /\ ~torn /\ pc # "down" =>
          /\ \A i \in 1..IF pc \in Unfollowed THEN writing.first ELSE Len(history) :
                file[i] = history[i]
          /\ pc = "files" =>
                \A k \in 1..writing.at - 1 : file[writing.first + k] = writing.generations[k]
          /\ pc = "genealogy" =>
                \A k \in 1..writing.at : file[writing.first + k] = writing.generations[k]
          /\ pc \notin {"files", "genealogy", "head", "opened"} => headFile = HeadOf(history)

(* What is carried was witnessed no earlier than a chain could, and what   *)
(* is owed is safe, or collected to be carried.                            *)
WitnessedLate(some) ==
    \A each \in some : each.witnessed # 0 => Earliest(each.key) <= each.witnessed

OwedInv ==
    /\ carried \subseteq Carriables /\ WitnessedLate(carried)
    /\ pc \in Writing \cup {"note"} =>
          /\ WitnessedLate(writing.collected)
          /\ \A each \in writing.collected : each.witnessed # 0
    /\ \A key \in owed :
          \/ SafeIn(IF pc = "down" THEN Recovered ELSE history, key)
          \/ /\ pc \in {"head", "unlink", "note"} /\ writing.back = "note"
             /\ \E each \in writing.collected : each.key = key

-----------------------------------------------------------------------------
(* The walk back from a head, and the checking forward. *)

LEMMA WalkedToIs ==
  ASSUME NEW p, claim.walked \in Nat, claim.walked > 0
  PROVE  WalkedTo(p) \in 1..claim.walked
<1> DEFINE S == {i \in 1..claim.walked :
                   /\ \A j \in i..claim.walked - 1 : p[j] \in held
                   /\ \A j \in (i + 1..claim.walked) \cap DOMAIN p : ~Meets(p, j)}
<1>1. claim.walked \in S
  OBVIOUS
<1>2. S \in SUBSET Nat
  OBVIOUS
<1>3. S \in SUBSET (1..claim.walked)
  OBVIOUS
<1>4. WalkedTo(p) = Min(S)
  BY DEF WalkedTo
<1> HIDE DEF S
<1> QED  BY <1>1, <1>2, <1>3, <1>4, MinIs

LEMMA CheckedToIs ==
  ASSUME NEW p \in Seq(Generations), NEW a \in Nat, claim.checked \in Nat,
         a + claim.checked <= Len(p)
  PROVE  /\ CheckedTo(p, a) \in Nat /\ a + CheckedTo(p, a) <= Len(p)
         /\ a + CheckedTo(p, a) < Len(p) =>
               /\ p[a + CheckedTo(p, a) + 1] \in Generations
               /\ ~(/\ Readable(p[a + CheckedTo(p, a) + 1])
                    /\ p[a + CheckedTo(p, a) + 1] \in Correct)
<1> DEFINE Good(i) == Readable(p[a + i]) /\ p[a + i] \in Correct
           S == {n \in claim.checked..Len(p) - a : \A i \in claim.checked + 1..n : Good(i)}
<1>1. Len(p) \in Nat
  OBVIOUS
<1>2. claim.checked \in S
  BY <1>1
<1>3. S \in SUBSET Nat /\ \A n \in S : n <= Len(p) - a
  BY <1>1
<1>4. CheckedTo(p, a) = Max(S)
  BY DEF CheckedTo
<1>5. PICK m \in S : m = CheckedTo(p, a) /\ \A n \in S : n <= m
  <2>1. Len(p) - a \in Nat
    BY <1>1
  <2> HIDE DEF S
  <2> QED  BY <1>2, <1>3, <1>4, <2>1, MaxIs
<1>6. m \in Nat /\ a + m <= Len(p)
  BY <1>1, <1>3
<1>7. ASSUME a + m < Len(p), Good(m + 1)
      PROVE  FALSE
  <2> HIDE DEF Good
  <2>1. m + 1 \in claim.checked..Len(p) - a
    BY <1>1, <1>6, <1>7
  <2>2. ASSUME NEW i \in claim.checked + 1..m + 1 PROVE Good(i)
    <3>1. i \in claim.checked + 1..m \/ i = m + 1
      BY <1>6
    <3> QED  BY <1>7, <3>1
  <2>3. m + 1 \in S
    BY <2>1, <2>2
  <2> QED  BY <1>5, <1>6, <2>3
<1>8. a + m < Len(p) => p[a + m + 1] \in Generations
  BY <1>1, <1>6
<1>9. a + (m + 1) = a + m + 1
  BY <1>6
<1> HIDE DEF S
<1> QED  BY <1>5, <1>6, <1>7, <1>8, <1>9

LEMMA ClaimIs ==
  ASSUME ReadsClaim, claim # NoClaim
  PROVE  /\ claim \in ClaimsRead /\ claim.head \in Generations
         /\ claim.walked \in Nat /\ claim.walked > 0
         /\ claim.walked <= Len(Path[claim.head]) + 1
         /\ claim.ancestor \in Nat \cup {-1} /\ claim.checked \in Nat
         /\ claim.ancestor = -1 => claim.checked = 0
         /\ claim.ancestor # -1 =>
               /\ Shares(claim.ancestor, Path[claim.head])
               /\ claim.ancestor + claim.checked <= Len(Path[claim.head])
<1>1. claim \in ClaimsRead
  BY DEF ReadsClaim
<1>2. claim.head \in Generations /\ claim.walked \in Nat
      /\ claim.ancestor \in Nat \cup {-1} /\ claim.checked \in Nat
  BY <1>1 DEF ClaimsRead
<1>3. claim.walked > 0 /\ claim.walked <= Len(Path[claim.head]) + 1
  <2>1. Len(Path[claim.head]) \in Nat
    BY <1>2, PathShape
  <2> QED  BY <1>2, <2>1 DEF ReadsClaim
<1> QED  BY <1>1, <1>2, <1>3 DEF ReadsClaim

LEMMA LackingTyped ==
  ASSUME NEW g \in Generations
  PROVE  Lacking(g) \in SUBSET ({"keys", "block"} \X Generations)
BY DEF Lacking

(* A claim read further. *)
LEMMA ClaimMoves ==
  ASSUME claim \in ClaimsRead, UNCHANGED history, NEW w, NEW a, NEW n, NEW l,
         claim' = [claim EXCEPT !.walked = w, !.ancestor = a, !.checked = n, !.lacking = l],
         w \in 1..Len(Path[claim.head]) + 1, a \in Nat \cup {-1}, n \in Nat,
         l \in SUBSET ({"keys", "block"} \X Generations),
         a = -1 => n = 0,
         a # -1 => Shares(a, Path[claim.head]) /\ a + n <= Len(Path[claim.head])
  PROVE  ReadsClaim' /\ claim' # NoClaim /\ claim'.head = claim.head
<1>1. PICK h : h = claim.head
  OBVIOUS
<1>2. h \in Generations
  BY <1>1 DEF ClaimsRead
<1>3. claim' = [head |-> h, walked |-> w, ancestor |-> a, checked |-> n, lacking |-> l]
  BY <1>1 DEF ClaimsRead
<1>4. Len(Path[h]) \in Nat
  BY <1>2, PathShape
<1>5. w \in Nat
  BY <1>1, <1>4
<1>6. claim' \in ClaimsRead
  BY <1>2, <1>3, <1>5 DEF ClaimsRead
<1>7. claim'.head = h /\ claim'.walked = w /\ claim'.ancestor = a /\ claim'.checked = n
  <2> DEFINE new == [head |-> h, walked |-> w, ancestor |-> a, checked |-> n, lacking |-> l]
  <2>1. new.head = h /\ new.walked = w /\ new.ancestor = a /\ new.checked = n
    BY ONLY TRUE
  <2> HIDE DEF new
  <2> QED  BY <1>3, <2>1 DEF new
<1>8. claim' # NoClaim
  <2>1. h # NoGeneration
    BY <1>2, KarmaAssumption
  <2>2. NoClaim.head = NoGeneration
    BY DEF NoClaim
  <2> QED  BY <1>7, <2>1, <2>2
<1>9. a # -1 => /\ a \in 0..Len(history') /\ a < Len(Path[h])
                /\ SubSeq(history', 1, a) = SubSeq(Path[h], 1, a)
                /\ a + n <= Len(Path[h])
  BY <1>1 DEF Shares
<1>10. w \in 1..Len(Path[h]) + 1
  BY <1>1
<1>11. ReadsClaim'
  <2>1. claim' \in ClaimsRead
    BY <1>6
  <2>2. claim'.walked \in 1..Len(Path[claim'.head]) + 1
    BY <1>7, <1>10, Zenon
  <2>3. IF claim'.ancestor = -1 THEN claim'.checked = 0
           ELSE /\ claim'.ancestor \in 0..Len(history') /\ claim'.ancestor < Len(Path[claim'.head])
                /\ SubSeq(history', 1, claim'.ancestor) = SubSeq(Path[claim'.head], 1, claim'.ancestor)
                /\ claim'.ancestor + claim'.checked <= Len(Path[claim'.head])
    <3>1. CASE a = -1
      BY <1>7, <3>1
    <3>2. CASE a # -1
      <4> QED BY <1>7, <1>9, <3>2, Zenon
    <3> QED  BY <3>1, <3>2
  <2> QED  BY <2>1, <2>2, <2>3 DEF ReadsClaim, Shares, ClaimsRead
<1> QED  BY <1>1, <1>7, <1>8, <1>11

(* How a weighing ends: it waits, or the head is left, being no heavier if *)
(* it is correct, or its chain is written to be followed, being no lighter *)
(* and another than the chain followed.                                    *)
WeighWaits == ReadsClaim' /\ pc' = "pay" /\ UNCHANGED <<writing, weighed>>
WeighLeaves ==
    /\ NotFollowed
    /\ ToSet(Path[claim.head]) \subseteq Correct => Weight[claim.head] <= Weighs(history)
WeighFollows(a) ==
    LET path == Path[claim.head]
    IN  /\ Shares(a, path)
        /\ ReadsClaim' /\ claim' # NoClaim /\ claim'.head = claim.head
        /\ claim.head # HeadOf(history) /\ Weighs(history) <= Weighs(path)
        /\ Replace(SubSeq(path, a + 1, Len(path)), a, Collected(a), "note")
        /\ UNCHANGED weighed
WeighEnds == WeighWaits \/ WeighLeaves \/ \E a : WeighFollows(a)

LEMMA WaitsRight ==
  ASSUME claim \in ClaimsRead, UNCHANGED history, NEW w, NEW a, NEW n, NEW g \in Generations,
         Waits(w, a, n, g),
         w \in 1..Len(Path[claim.head]) + 1, a \in Nat \cup {-1}, n \in Nat,
         a = -1 => n = 0,
         a # -1 => Shares(a, Path[claim.head]) /\ a + n <= Len(Path[claim.head])
  PROVE  WeighWaits
<1>1. /\ claim' = [claim EXCEPT !.walked = w, !.ancestor = a, !.checked = n, !.lacking = Lacking(g)]
      /\ pc' = "pay" /\ UNCHANGED <<writing, weighed>>
  BY DEF Waits
<1>2. Lacking(g) \in SUBSET ({"keys", "block"} \X Generations)
  BY LackingTyped
<1>3. ReadsClaim'
  <2>1. PICK l : l = Lacking(g)
    OBVIOUS
  <2> QED  BY <1>1, <1>2, <2>1, ClaimMoves
<1> QED  BY <1>1, <1>3 DEF WeighWaits

LEMMA FollowsRight ==
  ASSUME claim \in ClaimsRead, UNCHANGED history, NEW w, NEW a,
         FollowClaim(Path[claim.head], w, a),
         w \in 1..Len(Path[claim.head]) + 1, Shares(a, Path[claim.head]), history \in Chains,
         claim.head # HeadOf(history), Weighs(history) <= Weighs(Path[claim.head])
  PROVE  WeighFollows(a)
<1>1. PICK p : p = Path[claim.head]
  OBVIOUS
<1>2. p \in Chains /\ Len(p) \in Nat
  BY <1>1, PathShape DEF ClaimsRead, Chains
<1>3. /\ Replace(SubSeq(p, a + 1, Len(p)), a, Collected(a), "note")
      /\ claim' = [claim EXCEPT !.walked = w, !.ancestor = a, !.checked = Len(p) - a]
      /\ UNCHANGED weighed
  BY <1>1 DEF FollowClaim
<1>4. a \in Nat /\ a < Len(p) /\ a # -1
  <2>1. Len(history) \in Nat
    BY ChainIs
  <2> QED  BY <1>1, <2>1 DEF Shares
<1>5. PICK l : l = claim.lacking
  OBVIOUS
<1>6. l \in SUBSET ({"keys", "block"} \X Generations)
  BY <1>5 DEF ClaimsRead
<1>7. PICK n : n = Len(p) - a
  OBVIOUS
<1>8. n \in Nat /\ a + n <= Len(p)
  BY <1>2, <1>4, <1>7
<1>9. claim' = [claim EXCEPT !.walked = w, !.ancestor = a, !.checked = n, !.lacking = l]
  BY <1>3, <1>5, <1>7 DEF ClaimsRead
<1>10. ReadsClaim' /\ claim' # NoClaim /\ claim'.head = claim.head
  BY <1>1, <1>4, <1>6, <1>8, <1>9, ClaimMoves
<1> QED  BY <1>1, <1>3, <1>10 DEF WeighFollows

(* A chain as heavy as the one followed, and better, is another.           *)
LEMMA CompareEnds ==
  ASSUME claim \in ClaimsRead, history \in Chains, UNCHANGED history, NEW w, NEW a,
         Compare(Path[claim.head], w, a),
         w \in 1..Len(Path[claim.head]) + 1, Shares(a, Path[claim.head])
  PROVE  WeighEnds
<1>1. PICK p, g : p = Path[claim.head] /\ g = claim.head
  OBVIOUS
<1>2. /\ g \in Generations /\ p \in Chains /\ Len(p) \in Nat /\ p # <<>>
      /\ p[Len(p)] = g
  BY <1>1, PathShape DEF ClaimsRead, Chains
<1>3. Weighs(p) = Weight[g] /\ Weighs(p) \in Nat /\ Weighs(history) \in Nat
  BY <1>2, WeighsIs
<1>4. a \in 0..Len(history) /\ a < Len(p) /\ SubSeq(history, 1, a) = SubSeq(p, 1, a)
      /\ Len(history) \in Nat
  BY <1>1, ChainIs DEF Shares
<1>5. CASE Weighs(p) > Weighs(history) /\ FollowClaim(p, w, a)
  <2>1. g # HeadOf(history)
    <3>1. history # <<>> => Weighs(history) = Weight[Last(history)]
      BY DEF Weighs
    <3>2. g = HeadOf(history) => history # <<>> /\ g = Last(history)
      BY <1>2, KarmaAssumption DEF HeadOf
    <3> QED  BY <1>3, <1>5, <3>1, <3>2
  <2>2. WeighFollows(a)
    BY <1>1, <1>3, <1>5, <2>1, FollowsRight
  <2> QED  BY <2>2 DEF WeighEnds
<1>6. CASE /\ Weighs(p) = Weighs(history) /\ a > 0
           /\ Waits(w, a, Len(p) - a, history[a + 1])
  <2>1. a # Len(history)
    <3>1. SUFFICES ASSUME a = Len(history) PROVE FALSE
      OBVIOUS
    <3>2. SubSeq(p, 1, a) = history
      BY <1>4, <3>1, ChainWhole
    <3>3. Weighs(SubSeq(p, 1, a)) < Weighs(p)
      BY <1>2, <1>4, PartWeighsLesser
    <3>4. Weighs(history) < Weighs(p)
      BY <3>2, <3>3, Zenon
    <3> QED  BY <1>3, <1>6, <3>4
  <2>2. history[a + 1] \in Generations
    BY <1>4, <2>1, ChainBuilt
  <2>3. PICK n, o : n = Len(p) - a /\ o = history[a + 1]
    OBVIOUS
  <2>4. n \in Nat /\ a + n <= Len(p) /\ a # -1 /\ a \in Nat
    BY <1>2, <1>4, <2>3
  <2>5. Waits(w, a, n, o)
    BY <1>6, <2>3
  <2>6. WeighWaits
    BY <1>1, <2>2, <2>3, <2>4, <2>5, WaitsRight
  <2> QED  BY <2>6 DEF WeighEnds
<1>7. CASE /\ Weighs(p) = Weighs(history) /\ Better(p, a) /\ FollowClaim(p, w, a)
  <2>1. g # HeadOf(history)
    <3>1. SUFFICES ASSUME g = HeadOf(history) PROVE FALSE
      OBVIOUS
    <3>2. history # <<>> /\ g = history[Len(history)]
      BY <1>2, <3>1, KarmaAssumption DEF HeadOf, Last
    <3>3. history = p
      BY <1>1, <3>2, ChainIs
    <3>4. p[a + 1] \in Generations /\ Rank[p[a + 1]] \in Nat
      BY <1>2, <1>4, ChainBuilt, KarmaAssumption
    <3> QED  BY <1>7, <3>3, <3>4 DEF Better
  <2>2. WeighFollows(a)
    BY <1>1, <1>3, <1>7, <2>1, FollowsRight
  <2> QED  BY <2>2 DEF WeighEnds
<1>8. CASE NotFollowed /\ ~(Weighs(p) > Weighs(history))
  <2>1. Weight[g] <= Weighs(history)
    BY <1>3, <1>8
  <2> QED  BY <1>1, <1>8, <2>1 DEF WeighEnds, WeighLeaves
<1>9. \/ Weighs(p) > Weighs(history) /\ FollowClaim(p, w, a)
      \/ /\ Weighs(p) = Weighs(history) /\ a > 0
         /\ Waits(w, a, Len(p) - a, history[a + 1])
      \/ /\ Weighs(p) = Weighs(history) /\ Better(p, a) /\ FollowClaim(p, w, a)
      \/ NotFollowed /\ ~(Weighs(p) > Weighs(history))
  BY <1>1, ZenonT(30) DEF Compare
<1> QED  BY <1>5, <1>6, <1>7, <1>8, <1>9

LEMMA CheckForwardEnds ==
  ASSUME claim \in ClaimsRead, history \in Chains, UNCHANGED history, NEW w, NEW a,
         CheckForward(Path[claim.head], w, a),
         w \in 1..Len(Path[claim.head]) + 1, Shares(a, Path[claim.head]),
         claim.checked \in Nat, a + claim.checked <= Len(Path[claim.head])
  PROVE  WeighEnds
<1>1. PICK p, g, n, x : /\ p = Path[claim.head] /\ g = claim.head
                        /\ n = CheckedTo(p, a) /\ x = p[a + n + 1]
  OBVIOUS
<1>2. g \in Generations /\ p \in Seq(Generations) /\ Len(p) \in Nat
  BY <1>1, PathShape DEF ClaimsRead
<1>3. a \in Nat /\ a < Len(p) /\ a # -1
  <2>1. Len(history) \in Nat
    BY ChainIs
  <2> QED  BY <1>1, <2>1 DEF Shares
<1>4. /\ n \in Nat /\ a + n <= Len(p)
      /\ a + n < Len(p) => x \in Generations /\ ~(Readable(x) /\ x \in Correct)
  BY <1>1, <1>2, <1>3, CheckedToIs
<1>5. CASE Compare(p, w, a)
  BY <1>1, <1>5, CompareEnds
<1>6. CASE a + n # Len(p) /\ Readable(x) /\ NotFollowed
  <2>1. a + n < Len(p) /\ a + n + 1 \in 1..Len(p)
    BY <1>2, <1>3, <1>4, <1>6
  <2>2. x \notin Correct
    BY <1>4, <1>6, <2>1
  <2>3. x \in ToSet(p)
    <3>1. DOMAIN p = 1..Len(p)
      BY <1>2
    <3> QED  BY <1>1, <2>1, <3>1 DEF ToSet
  <2> QED  BY <1>1, <1>6, <2>2, <2>3 DEF WeighEnds, WeighLeaves
<1>7. CASE a + n # Len(p) /\ Waits(w, a, n, x)
  <2>1. x \in Generations
    BY <1>2, <1>3, <1>4, <1>7
  <2>2. WeighWaits
    BY <1>1, <1>3, <1>4, <1>7, <2>1, WaitsRight
  <2> QED  BY <2>2 DEF WeighEnds
<1>8. \/ Compare(p, w, a)
      \/ a + n # Len(p) /\ Readable(x) /\ NotFollowed
      \/ a + n # Len(p) /\ Waits(w, a, n, x)
  BY <1>1, ZenonT(30) DEF CheckForward
<1> QED  BY <1>5, <1>6, <1>7, <1>8

LEMMA WeighEndsSo ==
  ASSUME ChainInv, Weigh
  PROVE  WeighEnds
<1>1. /\ history \in Chains /\ ReadsClaim /\ claim # NoClaim /\ UNCHANGED history
  BY DEF ChainInv, FollowsChain, Weigh
<1>2. PICK p, g, w : /\ p = Path[claim.head] /\ g = claim.head
                     /\ w = IF claim.ancestor >= 0 THEN claim.walked ELSE WalkedTo(p)
  OBVIOUS
<1>3. /\ claim \in ClaimsRead /\ g \in Generations
      /\ claim.walked \in Nat /\ claim.walked > 0 /\ claim.walked <= Len(p) + 1
      /\ claim.ancestor \in Nat \cup {-1} /\ claim.checked \in Nat
      /\ claim.ancestor = -1 => claim.checked = 0
      /\ claim.ancestor # -1 => Shares(claim.ancestor, p) /\ claim.ancestor + claim.checked <= Len(p)
  BY <1>1, <1>2, ClaimIs
<1>4. /\ p \in Chains /\ p \in Seq(Generations) /\ Len(p) \in Nat /\ Len(p) > 0
      /\ Last(p) \in Generations /\ p # <<>> /\ p[Len(p)] = g
  BY <1>2, <1>3, PathShape DEF Last, Chains
<1>5. w \in 1..Len(p) + 1
  <2>1. WalkedTo(p) \in 1..claim.walked
    BY <1>3, WalkedToIs
  <2> QED  BY <1>2, <1>3, <1>4, <2>1
<1>6. ASSUME NEW x \in Generations, Waits(w, -1, 0, x)
      PROVE  WeighEnds
  <2>1. WeighWaits
    BY <1>1, <1>2, <1>3, <1>5, <1>6, WaitsRight
  <2> QED  BY <2>1 DEF WeighEnds
<1>7. CASE Waits(w, -1, 0, Last(p))
  BY <1>4, <1>6, <1>7
<1>8. CASE Claims[g] < Weighs(history) /\ NotFollowed
  <2>1. Claims[g] \in Nat /\ Weight[g] \in Nat /\ Weighs(history) \in Nat
        /\ (ToSet(p) \subseteq Correct => Claims[g] >= Weight[g])
    BY <1>1, <1>2, <1>3, WeightIs, WeighsIs, KarmaAssumption
  <2>2. ToSet(p) \subseteq Correct => Weight[g] <= Weighs(history)
    BY <1>8, <2>1
  <2> QED  BY <1>2, <1>8, <2>2 DEF WeighEnds, WeighLeaves
<1>9. CASE claim.ancestor >= 0 /\ CheckForward(p, w, claim.ancestor)
  <2>1. claim.ancestor # -1
    BY <1>9
  <2> QED  BY <1>1, <1>2, <1>3, <1>5, <1>9, <2>1, CheckForwardEnds
<1>10. ASSUME NEW i \in w..Len(p), p[i] \notin Correct,
              NotFollowed \/ Waits(w, -1, 0, p[i])
       PROVE  WeighEnds
  <2>1. i \in 1..Len(p)
    BY <1>4, <1>5
  <2>2. p[i] \in Generations /\ p[i] \in ToSet(p)
    BY <1>4, <2>1 DEF ToSet
  <2>3. CASE NotFollowed
    BY <1>2, <1>10, <2>2, <2>3 DEF WeighEnds, WeighLeaves
  <2> QED  BY <1>6, <1>10, <2>2, <2>3
<1>11. ASSUME claim.ancestor < 0, w <= Len(p), Meets(p, w), CheckForward(p, w, w - 1)
       PROVE  WeighEnds
  <2>1. w - 1 \in Nat /\ w - 1 < Len(p)
    BY <1>4, <1>5, <1>11
  <2>2. Len(history) \in Nat
    BY <1>1, ChainIs
  <2>3. w - 1 \in 0..Len(history) /\ SubSeq(history, 1, w - 1) = SubSeq(p, 1, w - 1)
    <3>1. CASE w = 1
      <4>1. SubSeq(history, 1, 0) = <<>> /\ SubSeq(p, 1, 0) = <<>>
        BY <1>1, <1>4, <2>2, ChainPart
      <4> QED  BY <2>2, <3>1, <4>1
    <3>2. CASE w # 1
      <4>1. w - 1 <= Len(history) /\ history[w - 1] = p[w - 1]
        BY <1>11, <3>2 DEF Meets
      <4>2. w - 1 \in 1..Len(history) /\ w - 1 <= Len(p)
        BY <1>5, <2>1, <2>2, <3>2, <4>1
      <4>3. PICK m : m = w - 1
        OBVIOUS
      <4>4. SubSeq(history, 1, m) = SubSeq(p, 1, m)
        BY <1>1, <1>4, <4>1, <4>2, <4>3, ChainsAgree
      <4> QED  BY <4>2, <4>3, <4>4
    <3> QED  BY <3>1, <3>2
  <2>4. Shares(w - 1, p)
    BY <2>1, <2>3 DEF Shares
  <2>5. claim.ancestor = -1
    BY <1>3, <1>11
  <2>6. claim.checked \in Nat /\ w - 1 + claim.checked <= Len(p)
    BY <1>3, <1>4, <2>1, <2>5
  <2>7. PICK a : a = w - 1
    OBVIOUS
  <2> QED  BY <1>1, <1>2, <1>3, <1>5, <1>11, <2>4, <2>6, <2>7, CheckForwardEnds
<1>12. ASSUME w <= Len(p), ~Meets(p, w), Waits(w, -1, 0, p[w - 1])
       PROVE  WeighEnds
  <2>1. w - 1 \in 1..Len(p)
    BY <1>4, <1>5, <1>12 DEF Meets
  <2>2. p[w - 1] \in Generations
    BY <1>4, <2>1
  <2> QED  BY <1>6, <1>12, <2>2
<1>13. \/ Waits(w, -1, 0, Last(p))
       \/ Claims[g] < Weighs(history) /\ NotFollowed
       \/ claim.ancestor >= 0 /\ CheckForward(p, w, claim.ancestor)
       \/ \E i \in w..Len(p) : p[i] \notin Correct /\ (NotFollowed \/ Waits(w, -1, 0, p[i]))
       \/ ~(claim.ancestor >= 0) /\ ~(w > Len(p)) /\ Meets(p, w) /\ CheckForward(p, w, w - 1)
       \/ ~(w > Len(p)) /\ ~Meets(p, w) /\ Waits(w, -1, 0, p[w - 1])
  BY <1>2, ZenonT(60) DEF Weigh
<1>14. (~(w > Len(p)) => w <= Len(p)) /\ (~(claim.ancestor >= 0) => claim.ancestor < 0)
  BY <1>3, <1>4, <1>5
<1> QED
  BY <1>7, <1>8, <1>9, <1>10, <1>11, <1>12, <1>13, <1>14

-----------------------------------------------------------------------------
(* When transactions are witnessed. *)

LEMMA EarliestIs ==
  ASSUME NEW g \in Generations, NEW key, key \in Keys[g] \cup Witnesses[g]
  PROVE  Earliest(key) \in Nat /\ Earliest(key) <= Len(Path[g])
<1> DEFINE S == {Longest} \cup
                {Len(Path[h]) : h \in {k \in Generations : key \in Keys[k] \cup Witnesses[k]}}
<1>1. Longest \in Nat
  BY LongestIs
<1>2. S \in SUBSET Nat
  BY <1>1, PathShape
<1>3. Len(Path[g]) \in S
  OBVIOUS
<1>4. Earliest(key) = Min(S)
  BY DEF Earliest
<1> HIDE DEF S
<1>5. Min(S) \in S /\ \A m \in S : Min(S) <= m
  BY <1>2, <1>3, MinIs
<1>6. Min(S) \in Nat /\ Min(S) <= Len(Path[g])
  BY <1>2, <1>3, <1>5
<1> QED  BY <1>4, <1>6

LEMMA WitnessedByIs ==
  ASSUME NEW c \in Chains, NEW key
  PROVE  /\ WitnessedBy(c, key) \in Nat
         /\ WitnessedBy(c, key) # 0 => Earliest(key) <= WitnessedBy(c, key)
<1> DEFINE listing == {i \in DOMAIN c : key \in Witnesses[c[i]]}
<1>1. CASE listing = {}
  <2>1. WitnessedBy(c, key) = 0
    BY <1>1 DEF WitnessedBy
  <2> QED  BY <2>1
<1>2. CASE listing # {}
  <2>1. DOMAIN c = 1..Len(c) /\ Len(c) \in Nat
    BY ChainIs
  <2>2. listing \in SUBSET Nat
    BY <2>1
  <2>3. WitnessedBy(c, key) = Min(listing)
    BY <1>2 DEF WitnessedBy
  <2>4. PICK i \in listing : i = WitnessedBy(c, key)
    <3> HIDE DEF listing
    <3> QED  BY <1>2, <2>2, <2>3, MinIs
  <2>5. i \in 0..Len(c) /\ i > 0 /\ key \in Witnesses[c[i]]
    BY <2>1
  <2>6. c[i] \in Generations /\ Len(Path[c[i]]) = i
    BY <2>5, ChainPart
  <2>7. Earliest(key) <= i
    BY <2>5, <2>6, EarliestIs
  <2> QED  BY <2>1, <2>4, <2>7
<1> QED  BY <1>1, <1>2

LEMMA CollectedIs ==
  ASSUME history \in Chains, NEW a \in Nat
  PROVE  /\ Collected(a) \in SUBSET Carriables /\ WitnessedLate(Collected(a))
         /\ \A each \in Collected(a) : each.witnessed # 0
<1> DEFINE Found(i, key) ==
              [key |-> key, putUp |-> FALSE,
               witnessed |-> IF WitnessedBy(history, key) # 0 /\ WitnessedBy(history, key) < i
                             THEN WitnessedBy(history, key) ELSE i]
           Late(each) == each \in Carriables /\ each.witnessed # 0 /\ Earliest(each.key) <= each.witnessed
<1>1. ASSUME NEW each \in Collected(a)
      PROVE  Late(each)
  <2>1. PICK i \in {j \in a + 1..Len(history) : history[j] \in held} :
          \E key \in Keys[history[i]] : each = Found(i, key)
    BY Zenon DEF Collected
  <2>2. PICK key \in Keys[history[i]] : each = Found(i, key)
    BY <2>1
  <2>3. i \in Nat /\ i \in 0..Len(history) /\ i > 0
    BY ChainIs
  <2>4. history[i] \in Generations /\ Len(Path[history[i]]) = i
    BY <2>3, ChainPart
  <2>5. key \in Transactions
    BY <2>4, KarmaAssumption
  <2>6. Earliest(key) <= i
    BY <2>4, EarliestIs
  <2>7. PICK l \in Nat : l = WitnessedBy(history, key) /\ (l # 0 => Earliest(key) <= l)
    BY WitnessedByIs
  <2>8. PICK w \in Nat : w = (IF l # 0 /\ l < i THEN l ELSE i) /\ w # 0 /\ Earliest(key) <= w
    BY <2>3, <2>6, <2>7
  <2>9. each = [key |-> key, putUp |-> FALSE, witnessed |-> w]
    BY <2>2, <2>7, <2>8
  <2> HIDE DEF Found
  <2>10. each \in Carriables /\ each.key = key /\ each.witnessed = w
    BY <2>5, <2>9 DEF Carriables
  <2> QED  BY <2>8, <2>10
<1> QED  BY <1>1 DEF WitnessedLate

-----------------------------------------------------------------------------
(* The chain followed, step by step. *)

LEMMA ReadsStays ==
  ASSUME ReadsClaim, UNCHANGED <<history, claim>>
  PROVE  ReadsClaim'
BY DEF ReadsClaim, Shares, ClaimsRead

LEMMA ReadsNone == claim' = NoClaim => ReadsClaim'
BY DEF ReadsClaim

Elsewhere == {"idle", "follow", "followAgain", "pay", "put", "take", "putTaken", "clear"}

LEMMA ChainStays ==
  ASSUME ChainInv, UNCHANGED <<history, genealogy, noted>>, ReadsClaim',
         queue' \subseteq Generations, told' \in [Peers -> Generations \cup {NoGeneration}],
         \/ UNCHANGED <<pc, writing, claim, weighed>>
         \/ pc \notin Writing \cup {"note", "down"} /\ UNCHANGED pc
         \/ pc # "down" /\ pc' \in Elsewhere
  PROVE  ChainInv'
<1>1. FollowsChain'
  BY DEF ChainInv, FollowsChain, Elsewhere
<1>2. WritesChain'
  BY DEF ChainInv, WritesChain, Writing, Elsewhere, NewChain, Unfollowed, Writings, Carriables
<1>3. KnowsHeads'
  BY DEF ChainInv, KnowsHeads, Elsewhere
<1> QED  BY <1>1, <1>2, <1>3 DEF ChainInv

LEMMA ChainReplaced ==
  ASSUME ChainInv, UNCHANGED <<history, genealogy, noted, queue, told>>, ReadsClaim',
         pc # "down",
         NEW more \in Seq(Generations), NEW first \in 0..Len(history),
         NEW collected \in SUBSET Carriables,
         NEW back \in {"idle", "follow", "followAgain", "note"},
         Replace(more, first, collected, back), Len(more) > 0,
         NEW new \in Chains, new = SubSeq(history, 1, first) \o more,
         Weighs(history) <= Weighs(new),
         IF back = "note" THEN claim' # NoClaim /\ new = Path[claim'.head] /\ claim'.head # noted
                          ELSE collected = {} /\ first = Len(history)
  PROVE  ChainInv'
<1>1. Len(history) \in Nat /\ Len(more) \in Nat
  BY ChainIs DEF ChainInv, FollowsChain
<1>2. PICK n \in Nat : n = Len(history)
  BY <1>1
<1>3. writing' = [generations |-> more, first |-> first, at |-> 1, dropped |-> n,
                  collected |-> collected, back |-> back] /\ pc' = "files"
  BY <1>2 DEF Replace
<1>4. /\ writing' \in Writings /\ writing'.generations = more /\ writing'.first = first
      /\ writing'.at = 1 /\ writing'.collected = collected /\ writing'.back = back
  <2> DEFINE w == [generations |-> more, first |-> first, at |-> 1, dropped |-> n,
                   collected |-> collected, back |-> back]
  <2>1. /\ w.generations = more /\ w.first = first /\ w.at = 1 /\ w.collected = collected
        /\ w.back = back
    BY ONLY TRUE
  <2>2. w \in Writings
    BY <1>1 DEF Writings
  <2> HIDE DEF w
  <2>3. writing' = w
    BY <1>3 DEF w
  <2> QED  BY <2>1, <2>2, <2>3
<1>5. NewChain' = new
  BY <1>4 DEF NewChain
<1>6. FollowsChain'
  BY <1>3 DEF ChainInv, FollowsChain
<1>7. KnowsHeads'
  BY <1>3 DEF ChainInv, KnowsHeads
<1>8. WritesChain'
  <2>1. PICK h : h = history
    OBVIOUS
  <2>2. Weighs(history)' <= Weighs(new)
    <3>1. Weighs(history)' = Weighs(h)
      BY <2>1
    <3> QED  BY <2>1, <3>1
  <2>3. first \in 0..Len(history') /\ 1 \in 1..Len(more)
    BY <1>1
  <2>4. Weighs(history)' <= Weighs(NewChain)'
    BY <1>5, <2>2
  <2> QED  BY <1>3, <1>4, <1>5, <2>3, <2>4 DEF WritesChain, Unfollowed
<1> QED  BY <1>6, <1>7, <1>8 DEF ChainInv

LEMMA InitChain == Init => ChainInv
<1> SUFFICES ASSUME Init PROVE ChainInv
  OBVIOUS
<1>1. /\ history \in Chains /\ genealogy = history /\ pc = "idle" /\ claim = NoClaim
      /\ told = [p \in Peers |-> NoGeneration] /\ queue = {}
  BY PaymentsAssumption DEF Init
<1>2. FollowsChain /\ ReadsClaim
  BY <1>1 DEF FollowsChain, ReadsClaim
<1>3. WritesChain
  BY <1>1 DEF WritesChain, Writing
<1>4. KnowsHeads
  BY <1>1 DEF KnowsHeads
<1> QED  BY <1>2, <1>3, <1>4 DEF ChainInv

LEMMA KnownHeads ==
  ASSUME KnowsHeads, UNCHANGED <<queue, told>>
  PROVE  queue' \subseteq Generations /\ told' \in [Peers -> Generations \cup {NoGeneration}]
BY DEF KnowsHeads

LEMMA OnlyOne ==
  ASSUME NEW g \in Generations
  PROVE  \E more \in Seq(Generations) : more = <<g>> /\ Len(more) > 0
<1>1. <<g>> \in Seq(Generations)
  OBVIOUS
<1>2. Len(<<g>>) = 1
  OBVIOUS
<1>3. Len(<<g>>) > 0
  BY <1>2
<1> QED  BY <1>1, <1>3, Zenon

LEMMA FollowChain ==
  ASSUME ChainInv, Follow
  PROVE  ChainInv'
<1>1. PICK g \in Generations : AtTarget(g) /\ Replace(<<g>>, Len(history), {}, pc)
  BY DEF Follow
<1>2. /\ UNCHANGED <<history, genealogy, noted, queue, told, claim>>
      /\ pc \in {"follow", "followAgain"}
  BY DEF Follow, files, heads
<1>3. history \in Chains /\ Previous[g] = HeadOf(history)
  BY <1>1 DEF AtTarget, ChainInv, FollowsChain
<1>4. Path[g] = Append(history, g) /\ Path[g] \in Chains /\ Weighs(history) < Weighs(Path[g])
  BY <1>3, ChainExtends, ExtendedWeighsMore DEF Chains
<1>5. PICK c \in Seq(Generations) : c = history /\ Len(c) \in Nat
  BY <1>3, ChainIs
<1>6. /\ SubSeq(c, 1, Len(c)) \o <<g>> = Append(c, g)
      /\ <<g>> \in Seq(Generations) /\ Len(<<g>>) = 1 /\ Len(c) \in 0..Len(c)
  <2>1. SubSeq(c, 1, Len(c)) = c
    BY SubSeqFull
  <2>2. Append(c, g) = c \o <<g>>
    BY AppendIsConcat
  <2>3. <<g>> \in Seq(Generations)
    OBVIOUS
  <2>4. Len(<<g>>) = 1
    OBVIOUS
  <2>5. Len(c) \in 0..Len(c)
    BY <1>5
  <2> QED  BY <2>1, <2>2, <2>3, <2>4, <2>5
<1>7. PICK new \in Chains : new = Path[g] /\ Weighs(history) <= Weighs(new)
        /\ new = SubSeq(history, 1, Len(history)) \o <<g>>
  <2>1. Weighs(history) <= Weighs(Path[g])
    BY <1>3, <1>4, WeighsIs
  <2> QED  BY <1>4, <1>5, <1>6, <2>1
<1>8. PICK more \in Seq(Generations) : more = <<g>> /\ Len(more) > 0
  BY OnlyOne
<1>9. PICK none \in SUBSET Carriables : none = {}
  OBVIOUS
<1>10. ReadsClaim'
  BY <1>2, ReadsStays DEF ChainInv
<1>11. PICK back \in {"idle", "follow", "followAgain", "note"} : back = pc /\ back # "note"
  BY <1>2
<1>12. Replace(more, Len(history), none, back)
  BY <1>1, <1>8, <1>9, <1>11
<1>13. Len(history) \in 0..Len(history) /\ new = SubSeq(history, 1, Len(history)) \o more
  BY <1>5, <1>6, <1>7, <1>8
<1> QED
  BY <1>2, <1>7, <1>8, <1>9, <1>10, <1>11, <1>12, <1>13, ChainReplaced

LEMMA RootChain ==
  ASSUME ChainInv, NEW g \in Generations, OnRootRequested(g)
  PROVE  ChainInv'
<1>1. /\ UNCHANGED <<history, genealogy, noted, queue, told, claim>> /\ pc = "idle"
      /\ history = <<>> /\ Previous[g] = NoGeneration /\ Replace(<<g>>, 0, {}, "idle")
  BY DEF OnRootRequested, files, heads
<1>2. history \in Chains /\ HeadOf(history) = NoGeneration /\ Len(history) = 0
  BY <1>1 DEF ChainInv, FollowsChain, HeadOf
<1>3. PICK new \in Chains : new = Path[g] /\ Weighs(history) <= Weighs(new) /\ new = <<g>>
  <2>1. Path[g] \in Chains /\ Weighs(history) < Weighs(Path[g])
    BY <1>1, <1>2, ExtendedWeighsMore DEF Chains
  <2>2. Weighs(history) <= Weighs(Path[g])
    BY <1>2, <2>1, WeighsIs
  <2>3. Path[g] = <<g>>
    BY <1>1, PathIs
  <2> QED  BY <2>1, <2>2, <2>3
<1>4. PICK more \in Seq(Generations) : more = <<g>> /\ Len(more) > 0
  BY OnlyOne
<1>5. SubSeq(history, 1, 0) \o more = more
  <2>1. SubSeq(history, 1, 0) = <<>>
    BY <1>2, ChainPart
  <2> QED  BY <2>1, ConcatEmptySeq
<1>6. PICK none \in SUBSET Carriables : none = {}
  OBVIOUS
<1>7. ReadsClaim'
  BY <1>1, ReadsStays DEF ChainInv
<1>8. Replace(more, 0, none, "idle") /\ 0 \in 0..Len(history) /\ new = SubSeq(history, 1, 0) \o more
  BY <1>1, <1>2, <1>3, <1>4, <1>5, <1>6
<1> QED  BY <1>1, <1>2, <1>3, <1>4, <1>6, <1>7, <1>8, ChainReplaced

LEMMA WeighChain ==
  ASSUME ChainInv, Weigh
  PROVE  ChainInv'
<1>1. /\ UNCHANGED <<history, genealogy, noted, queue, told>> /\ pc = "weigh" /\ claim # NoClaim
      /\ history \in Chains
  BY DEF Weigh, files, ChainInv, FollowsChain
<1>2. queue' \subseteq Generations /\ told' \in [Peers -> Generations \cup {NoGeneration}]
  BY <1>1, KnownHeads DEF ChainInv
<1>3. CASE WeighWaits
  BY <1>1, <1>2, <1>3, ChainStays DEF WeighWaits, Elsewhere
<1>4. CASE WeighLeaves
  <2>1. claim' = NoClaim /\ UNCHANGED <<pc, writing>>
    BY <1>4 DEF WeighLeaves, NotFollowed
  <2>2. pc \notin Writing \cup {"note", "down"}
    BY <1>1 DEF Writing
  <2> QED  BY <1>1, <1>2, <2>1, <2>2, ReadsNone, ChainStays
<1>5. ASSUME NEW a, WeighFollows(a)
      PROVE  ChainInv'
  <2>1. PICK p, g : p = Path[claim.head] /\ g = claim.head
    OBVIOUS
  <2>2. g \in Generations /\ p \in Chains /\ Len(p) \in Nat
    BY <1>1, <2>1, ClaimIs, PathShape DEF ChainInv, Chains
  <2>3. /\ Shares(a, p) /\ ReadsClaim' /\ claim' # NoClaim /\ claim'.head = g
        /\ g # HeadOf(history) /\ Weighs(history) <= Weighs(p)
        /\ Replace(SubSeq(p, a + 1, Len(p)), a, Collected(a), "note")
    BY <1>5, <2>1 DEF WeighFollows
  <2>4. a \in 0..Len(history) /\ a \in Nat /\ a < Len(p) /\ SubSeq(history, 1, a) = SubSeq(p, 1, a)
    BY <1>1, <2>3, ChainIs DEF Shares
  <2>5. PICK more \in Seq(Generations) : more = SubSeq(p, a + 1, Len(p)) /\ Len(more) > 0
                                         /\ p = SubSeq(history, 1, a) \o more
    <3>1. /\ SubSeq(p, a + 1, Len(p)) \in Seq(Generations)
          /\ Len(SubSeq(p, a + 1, Len(p))) = Len(p) - a
          /\ SubSeq(history, 1, a) \o SubSeq(p, a + 1, Len(p)) = p
      BY <1>1, <2>2, <2>4, Spliced
    <3>2. Len(p) - a > 0
      BY <2>2, <2>4
    <3> QED  BY <3>1, <3>2
  <2>6. PICK collected \in SUBSET Carriables : collected = Collected(a)
    BY <1>1, <2>4, CollectedIs
  <2>7. g # noted
    BY <1>1, <2>3 DEF ChainInv, KnowsHeads
  <2>8. Replace(more, a, collected, "note")
    BY <2>3, <2>5, <2>6
  <2> QED  BY <1>1, <2>1, <2>2, <2>3, <2>4, <2>5, <2>7, <2>8, ChainReplaced
<1> QED  BY <1>3, <1>4, <1>5, WeighEndsSo DEF WeighEnds

LEMMA WritingIs ==
  ASSUME ChainInv, pc \in Writing \cup {"note"}
  PROVE  /\ writing \in Writings /\ writing.generations \in Seq(Generations)
         /\ Len(writing.generations) \in Nat /\ Len(history) \in Nat
         /\ writing.first \in 0..Len(history) /\ writing.at \in 1..Len(writing.generations)
         /\ writing.first \in Nat /\ writing.at \in Nat
         /\ writing.collected \in SUBSET Carriables
         /\ writing.back \in {"idle", "follow", "followAgain", "note"}
         /\ NewChain \in Chains /\ history \in Chains
<1>1. history \in Chains /\ Len(history) \in Nat
  BY ChainIs DEF ChainInv, FollowsChain
<1>2. writing \in Writings /\ NewChain \in Chains
      /\ writing.first \in 0..Len(history) /\ writing.at \in 1..Len(writing.generations)
  BY DEF ChainInv, WritesChain
<1>3. /\ writing.generations \in Seq(Generations) /\ writing.first \in Nat /\ writing.at \in Nat
      /\ writing.collected \in SUBSET Carriables
      /\ writing.back \in {"idle", "follow", "followAgain", "note"}
  BY <1>2 DEF Writings
<1> QED  BY <1>1, <1>2, <1>3

(* While the same is written of the same history, the rest stays. *)
LEMMA WritesOn ==
  ASSUME ChainInv, UNCHANGED <<history, genealogy, noted, queue, told, claim>>,
         pc \in Writing, pc' \in Writing, UNCHANGED writing,
         pc' = pc \/ (pc = "files" /\ pc' = "genealogy" /\ writing.at = Len(writing.generations))
         \/ (pc = "head" /\ pc' = "unlink")
  PROVE  ChainInv'
<1>1. FollowsChain'
  BY DEF ChainInv, FollowsChain, Writing
<1>2. ReadsClaim'
  BY ReadsStays DEF ChainInv
<1>3. KnowsHeads'
  BY DEF ChainInv, KnowsHeads, Writing
<1>4. WritesChain'
  <2>1. PICK new, h : new = NewChain /\ h = history
    OBVIOUS
  <2>2. NewChain' = new /\ history' = h
    BY <2>1 DEF NewChain
  <2>3. /\ writing \in Writings /\ writing.first \in 0..Len(h)
        /\ writing.at \in 1..Len(writing.generations) /\ new \in Chains
        /\ IF pc \in Unfollowed
           THEN /\ Weighs(h) <= Weighs(new)
                /\ writing.back # "note" => writing.first = Len(h)
           ELSE new = h
        /\ IF writing.back = "note"
           THEN claim # NoClaim /\ new = Path[claim.head] /\ claim.head # noted
           ELSE pc # "note" /\ writing.collected = {}
        /\ pc = "genealogy" => writing.at = Len(writing.generations)
    BY <2>1 DEF ChainInv, WritesChain
  <2>4. writing' \in Writings
    BY <2>3 DEF Writings, Carriables
  <2>5. (pc' \in Unfollowed <=> pc \in Unfollowed) /\ pc' # "note" /\ pc # "note"
    BY DEF Unfollowed, Writing
  <2> QED  BY <2>2, <2>3, <2>4, <2>5 DEF WritesChain, Weighs
<1> QED  BY <1>1, <1>2, <1>3, <1>4 DEF ChainInv

LEMMA WriteGenerationChain ==
  ASSUME ChainInv, WriteGeneration
  PROVE  ChainInv'
<1>1. /\ pc = "files" /\ UNCHANGED <<history, genealogy, noted, queue, told, claim, weighed>>
      /\ \/ /\ writing.at < Len(writing.generations)
            /\ writing' = [writing EXCEPT !.at = @ + 1] /\ UNCHANGED pc
         \/ /\ ~(writing.at < Len(writing.generations))
            /\ pc' = "genealogy" /\ UNCHANGED writing
  BY DEF WriteGeneration, heads
<1>2. /\ writing \in Writings /\ writing.generations \in Seq(Generations)
      /\ Len(writing.generations) \in Nat /\ writing.at \in 1..Len(writing.generations)
      /\ writing.first \in Nat
      /\ writing.first \in 0..Len(history) /\ NewChain \in Chains
  BY <1>1, WritingIs DEF Writing
<1>3. CASE ~(writing.at < Len(writing.generations)) /\ pc' = "genealogy" /\ UNCHANGED writing
  BY <1>1, <1>2, <1>3, WritesOn DEF Writing
<1>4. CASE /\ writing.at < Len(writing.generations)
           /\ writing' = [writing EXCEPT !.at = @ + 1] /\ UNCHANGED pc
  <2>1. PICK gs, f, n, d, c, b : /\ gs = writing.generations /\ f = writing.first
                                 /\ n = writing.at /\ d = writing.dropped
                                 /\ c = writing.collected /\ b = writing.back
    OBVIOUS
  <2> DEFINE w == [generations |-> gs, first |-> f, at |-> n + 1, dropped |-> d,
                   collected |-> c, back |-> b]
  <2>2. w.generations = gs /\ w.first = f /\ w.at = n + 1 /\ w.collected = c /\ w.back = b
    BY ONLY TRUE
  <2>3. writing' = w
    BY <1>2, <1>4, <2>1 DEF Writings
  <2>4. n + 1 \in Nat /\ n + 1 \in 1..Len(gs)
    BY <1>2, <1>4, <2>1
  <2>5. w \in Writings
    BY <1>2, <2>1, <2>4 DEF Writings
  <2> HIDE DEF w
  <2>6. PICK new, h : new = NewChain /\ h = history
    OBVIOUS
  <2>7. NewChain' = new /\ history' = h
    BY <1>1, <2>1, <2>2, <2>3, <2>6 DEF NewChain
  <2>8. FollowsChain' /\ KnowsHeads'
    BY <1>1, <1>4 DEF ChainInv, FollowsChain, KnowsHeads
  <2>9. ReadsClaim'
    BY <1>1, ReadsStays DEF ChainInv
  <2>10. /\ f \in 0..Len(h) /\ new \in Chains
         /\ Weighs(h) <= Weighs(new) /\ (b # "note" => f = Len(h))
         /\ IF b = "note" THEN claim # NoClaim /\ new = Path[claim.head] /\ claim.head # noted
                          ELSE c = {}
    BY <1>1, <2>1, <2>6 DEF ChainInv, WritesChain, Unfollowed, Writing
  <2>11. WritesChain'
    BY <1>1, <1>4, <2>2, <2>3, <2>4, <2>5, <2>7, <2>10 DEF WritesChain, Weighs, Unfollowed
  <2> QED  BY <2>8, <2>9, <2>11 DEF ChainInv
<1> QED  BY <1>1, <1>3, <1>4

LEMMA WriteHeadChain ==
  ASSUME ChainInv, WriteHead
  PROVE  ChainInv'
BY WritesOn DEF WriteHead, heads, Writing

(* Once the genealogy is written, the chain written is the one followed.   *)
LEMMA WriteGenealogyChain ==
  ASSUME ChainInv, WriteGenealogy
  PROVE  ChainInv'
<1>1. PICK new, h, f, gs : /\ new = NewChain /\ h = history
                           /\ f = writing.first /\ gs = writing.generations
  OBVIOUS
<1>2. /\ pc = "genealogy" /\ genealogy' = new /\ history' = new /\ pc' = "head"
      /\ UNCHANGED <<writing, noted, queue, told, claim, weighed>>
  BY <1>1 DEF WriteGenealogy, heads, NewChain
<1>3. /\ writing \in Writings /\ gs \in Seq(Generations) /\ Len(gs) \in Nat /\ Len(h) \in Nat
      /\ f \in 0..Len(h) /\ f \in Nat /\ writing.at \in 1..Len(gs)
      /\ new \in Chains /\ h \in Chains
      /\ writing.back \in {"idle", "follow", "followAgain", "note"}
  BY <1>1, <1>2, WritingIs DEF Writing
<1>4. /\ writing.back # "note" => f = Len(h)
      /\ IF writing.back = "note"
         THEN claim # NoClaim /\ new = Path[claim.head] /\ claim.head # noted
         ELSE writing.collected = {}
  BY <1>1, <1>2 DEF ChainInv, WritesChain, Unfollowed, Writing
<1>5. /\ Len(new) = f + Len(gs) /\ SubSeq(new, 1, f) = SubSeq(h, 1, f)
      /\ new = SubSeq(h, 1, f) \o gs
  <2>1. new = SubSeq(h, 1, f) \o gs
    BY <1>1 DEF NewChain
  <2>2. h \in Seq(Generations)
    BY <1>3, ChainIs
  <2> QED  BY <1>3, <2>1, <2>2, PartKept
<1>6. FollowsChain' /\ KnowsHeads'
  BY <1>2, <1>3 DEF ChainInv, FollowsChain, KnowsHeads
<1>7. ReadsClaim'
  <2>1. SUFFICES ASSUME claim # NoClaim, claim.ancestor # -1
                 PROVE  Shares(claim.ancestor, Path[claim.head])'
    BY <1>2 DEF ReadsClaim, ChainInv, ClaimsRead, Shares
  <2>2. PICK a, p : a = claim.ancestor /\ p = Path[claim.head]
    OBVIOUS
  <2>3. /\ a \in 0..Len(h) /\ a < Len(p) /\ SubSeq(h, 1, a) = SubSeq(p, 1, a)
    BY <1>1, <2>1, <2>2, ClaimIs DEF ChainInv, Shares
  <2>4. a \in 0..Len(new) /\ SubSeq(new, 1, a) = SubSeq(p, 1, a)
    <3>1. CASE writing.back = "note"
      <4>1. new = p /\ Len(p) \in Nat
        BY <1>3, <1>4, <2>2, <3>1, ChainIs
      <4> QED  BY <1>3, <2>3, <4>1
    <3>2. CASE writing.back # "note"
      <4>1. f = Len(h) /\ SubSeq(new, 1, Len(h)) = h
        BY <1>3, <1>4, <1>5, <3>2, ChainWhole
      <4>2. a \in 0..Len(new) /\ Len(h) \in 0..Len(new)
        BY <1>3, <1>5, <2>3, <4>1
      <4>3. CASE a = 0
        <5>1. SubSeq(new, 1, 0) = <<>> /\ SubSeq(h, 1, 0) = <<>>
          BY <1>3, <4>2, ChainPart
        <5> QED  BY <2>3, <4>2, <4>3, <5>1
      <4>4. CASE a # 0
        <5>1. a \in 1..Len(h) /\ a <= Len(new) /\ a \in 1..Len(new)
          BY <1>3, <2>3, <4>2, <4>4
        <5>2. h[a] = new[a]
          <6>1. h \in Seq(Generations)
            BY <1>3, ChainIs
          <6>2. \A i \in 1..f : new[i] = h[i]
            BY <1>3, <1>5, <6>1, PartKept
          <6> QED  BY <4>1, <5>1, <6>2
        <5>3. SubSeq(h, 1, a) = SubSeq(new, 1, a)
          BY <1>3, <5>1, <5>2, ChainsAgree
        <5> QED  BY <2>3, <4>2, <5>3
      <4> QED  BY <4>3, <4>4
    <3> QED  BY <3>1, <3>2
  <2>5. claim'.ancestor = a /\ Path[claim'.head] = p
    BY <1>2, <2>2
  <2> QED  BY <1>2, <2>3, <2>4, <2>5 DEF Shares
<1>8. WritesChain'
  <2>1. NewChain' = new
    BY <1>1, <1>2, <1>5 DEF NewChain
  <2>2. writing' \in Writings /\ f \in 0..Len(new)
    BY <1>2, <1>3, <1>5 DEF Writings, Carriables
  <2> QED  BY <1>1, <1>2, <1>3, <1>4, <2>1, <2>2 DEF WritesChain, Unfollowed
<1> QED  BY <1>6, <1>7, <1>8 DEF ChainInv

LEMMA UnlinkChain ==
  ASSUME ChainInv, Unlink
  PROVE  ChainInv'
<1>1. /\ pc = "unlink" /\ pc' = writing.back
      /\ UNCHANGED <<history, genealogy, noted, queue, told, claim, weighed>>
      /\ writing.back = "note" => UNCHANGED writing
  BY DEF Unlink, heads
<1>2. writing.back \in {"idle", "follow", "followAgain", "note"}
  BY <1>1, WritingIs DEF Writing
<1>3. ReadsClaim'
  BY <1>1, ReadsStays DEF ChainInv
<1>4. queue' \subseteq Generations /\ told' \in [Peers -> Generations \cup {NoGeneration}]
  BY <1>1, KnownHeads DEF ChainInv
<1>5. CASE writing.back # "note"
  BY <1>1, <1>2, <1>3, <1>4, <1>5, ChainStays DEF Elsewhere
<1>6. CASE writing.back = "note"
  <2>1. FollowsChain' /\ KnowsHeads'
    BY <1>1, <1>6 DEF ChainInv, FollowsChain, KnowsHeads
  <2>2. NewChain' = NewChain
    BY <1>1, <1>6 DEF NewChain
  <2>3. WritesChain'
    BY <1>1, <1>6, <2>2 DEF ChainInv, WritesChain, Unfollowed, Writing, Writings, Carriables
  <2> QED  BY <1>3, <2>1, <2>3 DEF ChainInv
<1> QED  BY <1>5, <1>6

LEMMA WriteFailsChain ==
  ASSUME ChainInv, WriteFails
  PROVE  ChainInv'
<1>1. /\ pc \in Writing /\ pc' \in {"idle", "pay"}
      /\ UNCHANGED <<history, genealogy, noted, queue, told, claim, weighed>>
  BY DEF WriteFails, heads, files
<1>2. ReadsClaim'
  BY <1>1, ReadsStays DEF ChainInv
<1>3. queue' \subseteq Generations /\ told' \in [Peers -> Generations \cup {NoGeneration}]
  BY <1>1, KnownHeads DEF ChainInv
<1> QED  BY <1>1, <1>2, <1>3, ChainStays DEF Elsewhere, Writing

LEMMA NoteNotes ==
  ASSUME NEW collected, NEW done, NoteHead(collected, done)
  PROVE  noted' = HeadOf(history)
BY Zenon DEF NoteHead

LEMMA NoteChain ==
  ASSUME ChainInv, UNCHANGED <<history, genealogy, told>>, queue' \subseteq Generations,
         ReadsClaim', pc # "down", pc' \in {"weigh", "followAgain"}, noted' = HeadOf(history)
  PROVE  ChainInv'
<1>1. FollowsChain'
  BY DEF ChainInv, FollowsChain
<1>2. WritesChain'
  BY DEF WritesChain, Writing
<1>3. KnowsHeads'
  BY DEF ChainInv, KnowsHeads, HeadOf, Last
<1> QED  BY <1>1, <1>2, <1>3 DEF ChainInv

LEMMA BeginWeighingChain ==
  ASSUME ChainInv, BeginWeighing
  PROVE  ChainInv'
<1>1. /\ UNCHANGED <<history, genealogy, told, claim>> /\ queue' = queue \cup (Siblings \cap held)
      /\ pc = "follow" /\ pc' = "weigh" /\ NoteHead({}, {})
  BY DEF BeginWeighing, files
<1>2. queue' \subseteq Generations
  BY <1>1 DEF ChainInv, KnowsHeads, Siblings
<1>3. ReadsClaim'
  BY <1>1, ReadsStays DEF ChainInv
<1>4. noted' = HeadOf(history)
  BY <1>1, NoteNotes
<1> QED  BY <1>1, <1>2, <1>3, <1>4, NoteChain

LEMMA FollowedChain ==
  ASSUME ChainInv, Followed
  PROVE  ChainInv'
<1>1. /\ UNCHANGED <<history, genealogy, told, queue>> /\ claim' = NoClaim
      /\ pc = "note" /\ pc' = "followAgain" /\ NoteHead(writing.collected, {claim.head})
  BY DEF Followed, files
<1>2. queue' \subseteq Generations
  BY <1>1 DEF ChainInv, KnowsHeads
<1>3. noted' = HeadOf(history)
  BY <1>1, NoteNotes
<1> QED  BY <1>1, <1>2, <1>3, ReadsNone, NoteChain

(* What a restart finds is the part of the genealogy its files agree with. *)
LEMMA RecoveredIs ==
  ASSUME genealogy \in Chains
  PROVE  \E n \in 0..Len(genealogy) :
            /\ Recovered = SubSeq(genealogy, 1, n)
            /\ \A i \in 1..n : file[i] = genealogy[i]
            /\ \A m \in 0..Len(genealogy) : (\A i \in 1..m : file[i] = genealogy[i]) => m <= n
<1> DEFINE S == {n \in 0..Len(genealogy) : \A i \in 1..n : file[i] = genealogy[i]}
<1>1. Len(genealogy) \in Nat
  BY ChainIs
<1>2. 0 \in S /\ S \in SUBSET Nat /\ \A n \in S : n <= Len(genealogy)
  BY <1>1
<1>3. Recovered = SubSeq(genealogy, 1, Max(S))
  BY DEF Recovered
<1>4. PICK n \in S : n = Max(S) /\ \A m \in S : m <= n
  <2> HIDE DEF S
  <2> QED  BY <1>1, <1>2, MaxIs
<1> QED  BY <1>3, <1>4

LEMMA RecoveredIsChain ==
  ASSUME genealogy \in Chains
  PROVE  Recovered \in Chains
BY RecoveredIs, ChainPart

LEMMA CrashChain ==
  ASSUME ChainInv, Crash
  PROVE  ChainInv'
<1>1. /\ pc' = "down" /\ history' = <<>> /\ UNCHANGED genealogy /\ claim' = NoClaim
      /\ queue' = {} /\ told' = [p \in Peers |-> NoGeneration] /\ weighed' = {}
  BY DEF Crash, Forget, files
<1>2. FollowsChain'
  BY <1>1 DEF ChainInv, FollowsChain, Chains
<1>3. WritesChain' /\ KnowsHeads'
  BY <1>1 DEF WritesChain, KnowsHeads, Writing
<1> QED  BY <1>1, <1>2, <1>3, ReadsNone DEF ChainInv

LEMMA OpenChain ==
  ASSUME ChainInv, Open
  PROVE  ChainInv'
<1>1. PICK r : r = Recovered
  OBVIOUS
<1>2. /\ pc = "down" /\ pc' = "opened" /\ history' = r /\ genealogy' = r
      /\ UNCHANGED <<claim, queue, told>>
  BY <1>1 DEF Open
<1>3. r \in Chains
  BY <1>1, RecoveredIsChain DEF ChainInv, FollowsChain
<1>4. FollowsChain'
  BY <1>2, <1>3 DEF FollowsChain
<1>5. WritesChain' /\ KnowsHeads'
  BY <1>2 DEF WritesChain, ChainInv, KnowsHeads, Writing
<1>6. claim' = NoClaim
  BY <1>2 DEF ChainInv, FollowsChain
<1> QED  BY <1>4, <1>5, <1>6, ReadsNone DEF ChainInv

LEMMA TakeUpReads ==
  ASSUME NEW g \in Generations, TakeUp(g)
  PROVE  ReadsClaim'
<1>1. CASE claim' = NoClaim
  BY <1>1, ReadsNone
<1>2. CASE claim' = [head |-> g, walked |-> Len(Path[g]) + 1, ancestor |-> -1,
                     checked |-> 0, lacking |-> {}]
  <2>1. PICK n \in Nat : n = Len(Path[g]) + 1 /\ n \in 1..Len(Path[g]) + 1
    BY PathShape
  <2> DEFINE new == [head |-> g, walked |-> n, ancestor |-> -1, checked |-> 0, lacking |-> {}]
  <2>2. new.head = g /\ new.walked = n /\ new.ancestor = -1 /\ new.checked = 0
    BY ONLY TRUE
  <2>3. new \in ClaimsRead
    BY DEF ClaimsRead
  <2> HIDE DEF new
  <2>4. claim' = new
    BY <1>2, <2>1 DEF new
  <2>5. claim' \in ClaimsRead /\ claim'.head = g /\ claim'.walked = n
        /\ claim'.ancestor = -1 /\ claim'.checked = 0
    BY <2>2, <2>3, <2>4
  <2> QED  BY <2>1, <2>5 DEF ReadsClaim, ClaimsRead
<1> QED  BY <1>1, <1>2 DEF TakeUp

LEMMA QuietChain ==
  ASSUME ChainInv, UNCHANGED <<history, genealogy, noted, queue, told, claim, weighed>>,
         UNCHANGED <<pc, writing>> \/ (pc # "down" /\ pc' \in Elsewhere)
  PROVE  ChainInv'
<1>1. ReadsClaim'
  BY ReadsStays DEF ChainInv
<1>2. queue' \subseteq Generations /\ told' \in [Peers -> Generations \cup {NoGeneration}]
  BY KnownHeads DEF ChainInv
<1> QED  BY <1>1, <1>2, ChainStays

LEMMA WorldChain ==
  ASSUME ChainInv, NEW g \in Generations, Arrives(g) \/ KeysCome(g) \/ Evicted(g)
  PROVE  ChainInv'
<1>1. UNCHANGED <<history, genealogy, noted, queue, told, claim, weighed, pc, writing>>
  BY DEF Arrives, KeysCome, Evicted, files, heads
<1> QED  BY <1>1, QuietChain

LEMMA ToldChain ==
  ASSUME ChainInv, NEW g \in Generations, NEW p \in Peers, OnHeadTold(p, g)
  PROVE  ChainInv'
<1>1. /\ UNCHANGED <<history, genealogy, noted, queue, claim, weighed, pc, writing>>
      /\ told' \in {told, [told EXCEPT ![p] = g]}
  BY DEF OnHeadTold, files
<1>2. told' \in [Peers -> Generations \cup {NoGeneration}]
  BY <1>1 DEF ChainInv, KnowsHeads
<1>3. ReadsClaim'
  BY <1>1, ReadsStays DEF ChainInv
<1>4. queue' \subseteq Generations
  BY <1>1 DEF ChainInv, KnowsHeads
<1> QED  BY <1>1, <1>2, <1>3, <1>4, ChainStays

LEMMA GivenUpChain ==
  ASSUME ChainInv, GivenUp
  PROVE  ChainInv'
<1>1. /\ UNCHANGED <<history, genealogy, noted, queue, told, pc, writing>> /\ claim' = NoClaim
      /\ pc = "idle"
  BY DEF GivenUp, files
<1>2. queue' \subseteq Generations /\ told' \in [Peers -> Generations \cup {NoGeneration}]
  BY <1>1, KnownHeads DEF ChainInv
<1> QED  BY <1>1, <1>2, ReadsNone, ChainStays DEF Writing

LEMMA TakeUpChain ==
  ASSUME ChainInv, NEW g \in Generations, NextToWeigh, TakeUp(g),
         queue' \subseteq Generations, told' \in [Peers -> Generations \cup {NoGeneration}]
  PROVE  ChainInv'
<1>1. /\ UNCHANGED <<history, genealogy, noted, pc, writing>> /\ pc = "weigh"
  BY DEF NextToWeigh, TakeUp, files
<1> QED  BY <1>1, TakeUpReads, ChainStays DEF Writing

LEMMA TakeFoundChain ==
  ASSUME ChainInv, NEW g \in Generations, TakeFound(g)
  PROVE  ChainInv'
<1>1. /\ NextToWeigh /\ TakeUp(g) /\ queue' = queue \ {g} /\ UNCHANGED told
  BY DEF TakeFound
<1>2. queue' \subseteq Generations /\ told' \in [Peers -> Generations \cup {NoGeneration}]
  BY <1>1 DEF ChainInv, KnowsHeads
<1> QED  BY <1>1, <1>2, TakeUpChain

LEMMA TakeToldChain ==
  ASSUME ChainInv, NEW p \in Peers, TakeTold(p)
  PROVE  ChainInv'
<1>1. PICK g : g = told[p]
  OBVIOUS
<1>2. /\ NextToWeigh /\ TakeUp(g) /\ told' = [told EXCEPT ![p] = NoGeneration] /\ UNCHANGED queue
      /\ g # NoGeneration
  BY <1>1 DEF TakeTold
<1>3. g \in Generations /\ queue' \subseteq Generations
      /\ told' \in [Peers -> Generations \cup {NoGeneration}]
  BY <1>1, <1>2 DEF ChainInv, KnowsHeads
<1> QED  BY <1>2, <1>3, TakeUpChain

LEMMA StepChain ==
  ASSUME ChainInv, PaysInv, [Next]_vars
  PROVE  ChainInv'
<1> DEFINE Same == UNCHANGED <<history, genealogy, noted, queue, told, claim, weighed>>
           On == UNCHANGED <<pc, writing>> \/ (pc # "down" /\ pc' \in Elsewhere)
<1>1. Same /\ On => ChainInv'
  BY QuietChain
<1>2. UNCHANGED chain => Same
  BY DEF chain, files, heads
<1>3. CASE UNCHANGED vars
  <2>1. Same /\ On
    BY <1>3 DEF vars, chainVars, files, heads
  <2> QED  BY <1>1, <2>1
<1>4. CASE ChainStep
  <2>1. Look \/ NoneAfter => Same /\ On
    BY DEF Look, NoneAfter, files, heads, Elsewhere
  <2>2. NoneToWeigh => Same /\ On
    BY DEF NoneToWeigh, NextToWeigh, files, heads, Elsewhere
  <2>3. OpenHead => Same /\ On
    BY DEF OpenHead, files, heads, Elsewhere
  <2> HIDE DEF Same, On
  <2> QED
    BY <1>1, <1>4, <2>1, <2>2, <2>3, WorldChain, ToldChain, GivenUpChain, TakeFoundChain,
       TakeToldChain, FollowChain, RootChain, WeighChain, WriteGenerationChain, WriteHeadChain,
       WriteGenealogyChain, UnlinkChain, WriteFailsChain, BeginWeighingChain, FollowedChain,
       OpenChain DEF ChainStep
<1>5. CASE Ends
  BY <1>5, CrashChain DEF Ends
<1>6. ASSUME NEW p \in Payments, Pay(p)
      PROVE  Same /\ On
  BY <1>2, <1>6 DEF Pay, chain
<1>7. PayOut => Same /\ On
  BY <1>2 DEF PayOut, Elsewhere
<1>8. ASSUME NEW key \in Given, OnTransaction(key)
      PROVE  Same /\ On
  BY <1>2, <1>8 DEF OnTransaction, Elsewhere
<1>9. MakePayments \/ MakeAgain \/ NotDue \/ NotTaken \/ Clear => Same /\ On
  BY <1>2 DEF MakePayments, MakeAgain, NotDue, NotTaken, Clear, Elsewhere
<1>10. taking.back \in {"idle", "clear"}
  BY PaymentsAre DEF PaysInv
<1>11. Take => Same /\ On
  <2>1. ASSUME Take PROVE UNCHANGED chain /\ pc = "take" /\ pc' \in {"putTaken", taking.back}
    <3>1. pc' = "putTaken" \/ pc' = taking.back
      BY <2>1, Zenon DEF Take
    <3> QED  BY <2>1, <3>1 DEF Take
  <2> QED  BY <1>2, <1>10, <2>1 DEF Elsewhere
<1>12. PutUp => Same /\ On
  BY <1>2, <1>10 DEF PutUp, Elsewhere
<1> HIDE DEF Same, On
<1> QED
  BY <1>1, <1>3, <1>4, <1>5, <1>6, <1>7, <1>8, <1>9, <1>11, <1>12 DEF Next

-----------------------------------------------------------------------------
(* The files, step by step. *)

LEMMA ChainFits ==
  ASSUME NEW c \in Chains, NEW i \in 1..Len(c)
  PROVE  i \in 1..Longest
<1>1. Len(c) \in Nat /\ c # <<>> /\ i \in Nat
  BY ChainIs
<1>2. PICK g \in Generations : c = Path[g]
  BY <1>1, ChainIs
<1>3. Longest \in Nat /\ Len(c) <= Longest
  BY <1>2, LongestIs
<1> QED  BY <1>1, <1>3

LEMMA InitFiles == Init => FilesInv
<1> SUFFICES ASSUME Init PROVE FilesInv
  OBVIOUS
<1>1. PICK c \in Chains : /\ history = c /\ headFile = HeadOf(c) /\ pc = "idle"
                          /\ file = [i \in 1..Longest |-> IF i \in DOMAIN c THEN c[i] ELSE NoGeneration]
  BY PaymentsAssumption DEF Init
<1>2. DOMAIN file = 1..Longest
  BY <1>1
<1>3. \A i \in 1..Len(c) : i \in 1..Longest /\ i \in DOMAIN c
  BY ChainFits, ChainIs
<1>4. \A i \in 1..Len(c) : file[i] = c[i]
  BY <1>1, <1>3
<1> QED  BY <1>1, <1>2, <1>4 DEF FilesInv, Unfollowed

LEMMA FilesStay ==
  ASSUME FilesInv, UNCHANGED <<file, history, headFile, torn>>,
         \/ UNCHANGED <<pc, writing>>
         \/ pc \notin Writing \cup {"down", "opened"} /\ pc' \notin Writing \cup {"opened"}
  PROVE  FilesInv'
<1>1. CASE UNCHANGED <<pc, writing>>
  BY <1>1 DEF FilesInv, Unfollowed, HeadOf, Last
<1>2. CASE pc \notin Writing \cup {"down", "opened"} /\ pc' \notin Writing \cup {"opened"}
  BY <1>2 DEF FilesInv, Unfollowed, HeadOf, Last, Writing
<1> QED  BY <1>1, <1>2

LEMMA ReplaceFiles ==
  ASSUME FilesInv, UNCHANGED <<file, history, headFile, torn>>, history \in Chains,
         NEW more, NEW first \in 0..Len(history), NEW collected, NEW back,
         Replace(more, first, collected, back), pc \notin Writing \cup {"down", "opened"}
  PROVE  FilesInv'
<1>1. PICK n, d : n = Len(history) /\ d = Len(history)
  OBVIOUS
<1>2. n \in Nat /\ first \in 0..n
  BY <1>1, ChainIs
<1>3. pc' = "files" /\ writing'.first = first /\ writing'.at = 1
  <2> DEFINE w == [generations |-> more, first |-> first, at |-> 1, dropped |-> d,
                   collected |-> collected, back |-> back]
  <2>1. w.first = first /\ w.at = 1
    BY ONLY TRUE
  <2>2. writing' = w
    BY <1>1 DEF Replace
  <2> HIDE DEF w
  <2> QED  BY <2>1, <2>2 DEF Replace
<1>4. ~torn => \A i \in 1..n : file[i] = history[i]
  BY <1>1 DEF FilesInv, Writing, Unfollowed
<1>5. \A i \in 1..first : i \in 1..n
  BY <1>2
<1>6. \A k \in 1..1 - 1 : FALSE
  OBVIOUS
<1>7. DOMAIN file' = 1..Longest
  BY DEF FilesInv
<1>8. ~torn' => \A i \in 1..first : file'[i] = history'[i]
  BY <1>4, <1>5
<1> QED  BY <1>3, <1>6, <1>7, <1>8 DEF FilesInv, Unfollowed

LEMMA WriteGenerationFiles ==
  ASSUME ChainInv, FilesInv, WriteGeneration
  PROVE  FilesInv'
<1>1. PICK f, n, gs, x : f = writing.first /\ n = writing.at /\ gs = writing.generations
                         /\ x = gs[n]
  OBVIOUS
<1>2. /\ pc = "files" /\ UNCHANGED <<history, headFile, torn>>
      /\ file' = [file EXCEPT ![f + n] = x]
      /\ \/ writing' = [writing EXCEPT !.at = @ + 1] /\ UNCHANGED pc
         \/ ~(n < Len(gs)) /\ pc' = "genealogy" /\ UNCHANGED writing
  BY <1>1 DEF WriteGeneration, ghosts
<1>3. /\ writing \in Writings /\ gs \in Seq(Generations) /\ Len(gs) \in Nat /\ Len(history) \in Nat
      /\ f \in 0..Len(history) /\ n \in 1..Len(gs) /\ f \in Nat /\ n \in Nat /\ NewChain \in Chains
      /\ history \in Chains
  BY <1>1, <1>2, WritingIs DEF Writing
<1>4. PICK L \in Nat : L = Longest /\ f + n <= L
  <2>1. PICK d, h : d = NewChain /\ h = history
    OBVIOUS
  <2>2. h \in Seq(Generations) /\ d = SubSeq(h, 1, f) \o gs /\ f \in 0..Len(h) /\ d \in Chains
    BY <1>1, <1>3, <2>1, ChainIs DEF NewChain
  <2>3. Len(d) = f + Len(gs)
    BY <1>3, <2>2, PartKept
  <2>4. f + n \in 1..Len(d)
    BY <1>3, <2>3
  <2>5. Len(d) \in Nat /\ d # <<>>
    BY <1>3, <2>3, <2>4
  <2>6. PICK g \in Generations : d = Path[g]
    BY <2>2, <2>5, ChainIs
  <2>7. Longest \in Nat /\ Len(d) <= Longest
    BY <2>6, LongestIs
  <2> QED  BY <2>4, <2>5, <2>7
<1>5. /\ DOMAIN file = 1..L
      /\ ~torn => /\ \A i \in 1..f : file[i] = history[i]
                  /\ \A k \in 1..n - 1 : file[f + k] = gs[k]
  BY <1>1, <1>2, <1>4 DEF FilesInv, Unfollowed
<1>6. /\ DOMAIN file' = 1..L /\ DOMAIN file' = 1..Longest /\ file'[f + n] = x
      /\ \A i \in 1..L : i # f + n => file'[i] = file[i]
  <2>1. f + n \in 1..L
    BY <1>3, <1>4
  <2> QED  BY <1>2, <1>4, <1>5, <2>1
<1>7. ASSUME ~torn, NEW i \in 1..f PROVE file'[i] = history[i]
  <2>1. i # f + n /\ i \in 1..L
    BY <1>3, <1>4
  <2> QED  BY <1>5, <1>6, <1>7, <2>1
<1>8. ASSUME ~torn, NEW k \in 1..n PROVE file'[f + k] = gs[k]
  <2>1. CASE k = n
    BY <1>1, <1>6, <2>1
  <2>2. CASE k # n
    <3>1. k \in 1..n - 1 /\ f + k # f + n /\ f + k \in 1..L
      BY <1>3, <1>4, <2>2
    <3> QED  BY <1>5, <1>6, <1>8, <3>1
  <2> QED  BY <2>1, <2>2
<1>9. CASE writing' = [writing EXCEPT !.at = @ + 1] /\ UNCHANGED pc
  <2>1. writing'.first = f /\ writing'.at = n + 1 /\ writing'.generations = gs
    BY <1>1, <1>3, <1>9 DEF Writings
  <2>2. writing'.at - 1 = n
    BY <1>3, <2>1
  <2>3. ~torn' => /\ \A i \in 1..writing'.first : file'[i] = history'[i]
                  /\ \A k \in 1..writing'.at - 1 : file'[writing'.first + k] = writing'.generations[k]
    BY <1>2, <1>7, <1>8, <2>1, <2>2, Zenon
  <2>4. pc' = "files"
    BY <1>2, <1>9
  <2> QED  BY <1>6, <2>3, <2>4 DEF FilesInv, Unfollowed
<1>10. CASE ~(n < Len(gs)) /\ pc' = "genealogy" /\ UNCHANGED writing
  <2>1. ~torn' => /\ \A i \in 1..writing'.first : file'[i] = history'[i]
                  /\ \A k \in 1..writing'.at : file'[writing'.first + k] = writing'.generations[k]
    BY <1>1, <1>2, <1>7, <1>8, <1>10, Zenon
  <2> QED  BY <1>6, <1>10, <2>1 DEF FilesInv, Unfollowed
<1> QED  BY <1>2, <1>9, <1>10

LEMMA WriteGenealogyFiles ==
  ASSUME ChainInv, FilesInv, WriteGenealogy
  PROVE  FilesInv'
<1>1. PICK f, gs, h, d : /\ f = writing.first /\ gs = writing.generations /\ h = history
                         /\ d = NewChain
  OBVIOUS
<1>2. pc = "genealogy" /\ pc' = "head" /\ UNCHANGED <<file, torn>> /\ history' = d
  BY <1>1 DEF WriteGenealogy, NewChain
<1>3. /\ gs \in Seq(Generations) /\ Len(gs) \in Nat /\ Len(h) \in Nat
      /\ f \in 0..Len(h) /\ f \in Nat /\ d \in Chains /\ h \in Chains
  BY <1>1, <1>2, WritingIs DEF Writing
<1>4. writing.at = Len(gs)
  BY <1>1, <1>2 DEF ChainInv, WritesChain, Writing
<1>5. /\ DOMAIN file = 1..Longest
      /\ ~torn => /\ \A i \in 1..f : file[i] = h[i]
                  /\ \A k \in 1..Len(gs) : file[f + k] = gs[k]
  BY <1>1, <1>2, <1>4 DEF FilesInv, Unfollowed
<1>6. Len(d) = f + Len(gs) /\ (\A i \in 1..f : d[i] = h[i]) /\ \A k \in 1..Len(gs) : d[f + k] = gs[k]
  <2>1. h \in Seq(Generations) /\ d = SubSeq(h, 1, f) \o gs
    BY <1>1, <1>3, ChainIs DEF NewChain
  <2> QED  BY <1>3, <2>1, PartKept
<1>7. ASSUME ~torn, NEW i \in 1..Len(d) PROVE file[i] = d[i]
  <2>1. CASE i <= f
    <3>1. i \in 1..f
      BY <1>3, <1>6, <2>1
    <3> QED  BY <1>5, <1>6, <1>7, <3>1
  <2>2. CASE ~(i <= f)
    <3>1. PICK k : k = i - f
      OBVIOUS
    <3>2. k \in 1..Len(gs) /\ f + k = i
      BY <1>3, <1>6, <2>2, <3>1
    <3>3. file[f + k] = gs[k] /\ d[f + k] = gs[k]
      BY <1>5, <1>6, <1>7, <3>2
    <3> QED  BY <3>2, <3>3
  <2> QED  BY <2>1, <2>2
<1> QED  BY <1>2, <1>5, <1>7 DEF FilesInv, Unfollowed

LEMMA UnlinkFiles ==
  ASSUME ChainInv, FilesInv, Unlink
  PROVE  FilesInv'
<1>1. PICK n, d : n = Len(history) /\ d = writing.dropped
  OBVIOUS
<1>2. /\ pc = "unlink" /\ pc' = writing.back /\ UNCHANGED <<history, headFile, torn>>
      /\ file' = [i \in DOMAIN file |-> IF i \in n + 1..d THEN NoGeneration ELSE file[i]]
  BY <1>1 DEF Unlink, ghosts
<1>3. writing.back \in {"idle", "follow", "followAgain", "note"} /\ history \in Chains /\ n \in Nat
  BY <1>1, <1>2, WritingIs DEF Writing
<1>4. DOMAIN file = 1..Longest /\ DOMAIN file' = 1..Longest
  BY <1>2 DEF FilesInv
<1>5. ~torn => \A i \in 1..n : file[i] = history[i]
  BY <1>1, <1>2 DEF FilesInv, Unfollowed
<1>6. ASSUME ~torn, NEW i \in 1..n PROVE file'[i] = history[i]
  <2>1. i \in DOMAIN file /\ i \notin n + 1..d
    BY <1>1, <1>3, <1>4, ChainFits
  <2> QED  BY <1>2, <1>5, <1>6, <2>1
<1>7. ~torn => headFile = HeadOf(history)
  BY <1>2 DEF FilesInv, Unfollowed
<1> QED  BY <1>1, <1>2, <1>3, <1>4, <1>6, <1>7 DEF FilesInv, Unfollowed, HeadOf, Last

LEMMA OpenFiles ==
  ASSUME ChainInv, FilesInv, Open
  PROVE  FilesInv'
<1>1. PICK r, c : r = Recovered /\ c = genealogy
  OBVIOUS
<1>2. pc' = "opened" /\ history' = r /\ UNCHANGED file
  BY <1>1 DEF Open
<1>3. c \in Chains
  BY <1>1 DEF ChainInv, FollowsChain
<1>4. PICK n \in 0..Len(c) : r = SubSeq(c, 1, n) /\ \A i \in 1..n : file[i] = c[i]
  BY <1>1, <1>3, RecoveredIs
<1>5. Len(r) = n /\ \A i \in 1..n : r[i] = c[i]
  <2>1. c \in Seq(Generations) /\ n \in Nat /\ Len(c) \in Nat
    BY <1>3, ChainIs
  <2> QED  BY <1>4, <2>1
<1>6. \A i \in 1..Len(r) : file[i] = r[i]
  BY <1>4, <1>5
<1>7. DOMAIN file = 1..Longest
  BY DEF FilesInv
<1> QED  BY <1>2, <1>6, <1>7 DEF FilesInv, Unfollowed

LEMMA WriteHeadFiles ==
  ASSUME FilesInv, WriteHead
  PROVE  FilesInv'
<1>1. /\ pc = "head" /\ pc' = "unlink" /\ headFile' = HeadOf(history)
      /\ UNCHANGED <<file, history, torn>>
  BY DEF WriteHead, ghosts
<1> QED  BY <1>1 DEF FilesInv, Unfollowed, HeadOf, Last

LEMMA OpenHeadFiles ==
  ASSUME FilesInv, OpenHead
  PROVE  FilesInv'
<1>1. /\ pc = "opened" /\ pc' = "idle" /\ headFile' = HeadOf(history)
      /\ UNCHANGED <<file, history, torn>>
  BY DEF OpenHead, ghosts
<1> QED  BY <1>1 DEF FilesInv, Unfollowed, HeadOf, Last

LEMMA WriteFailsFiles ==
  ASSUME FilesInv, WriteFails
  PROVE  FilesInv'
<1>1. torn' = TRUE /\ UNCHANGED file
  BY DEF WriteFails, files
<1> QED  BY <1>1 DEF FilesInv

LEMMA CrashFiles ==
  ASSUME FilesInv, Crash
  PROVE  FilesInv'
<1>1. pc' = "down" /\ UNCHANGED file
  BY DEF Crash, files
<1> QED  BY <1>1 DEF FilesInv

LEMMA FollowFiles ==
  ASSUME ChainInv, FilesInv, Follow
  PROVE  FilesInv'
<1>1. history \in Chains
  BY DEF ChainInv, FollowsChain
<1>2. Len(history) \in 0..Len(history)
  BY <1>1, ChainIs
<1>3. /\ UNCHANGED <<file, history, headFile, torn>> /\ pc \notin Writing \cup {"down", "opened"}
      /\ \E g \in Generations : Replace(<<g>>, Len(history), {}, pc)
  BY DEF Follow, files, ghosts, Writing
<1> QED  BY <1>1, <1>2, <1>3, ReplaceFiles

LEMMA RootFiles ==
  ASSUME ChainInv, FilesInv, NEW g \in Generations, OnRootRequested(g)
  PROVE  FilesInv'
<1>1. history \in Chains
  BY DEF ChainInv, FollowsChain
<1>2. 0 \in 0..Len(history)
  BY <1>1, ChainIs
<1>3. /\ UNCHANGED <<file, history, headFile, torn>> /\ pc \notin Writing \cup {"down", "opened"}
      /\ Replace(<<g>>, 0, {}, "idle")
  BY DEF OnRootRequested, files, ghosts, Writing
<1> QED  BY <1>1, <1>2, <1>3, ReplaceFiles

LEMMA WeighFiles ==
  ASSUME ChainInv, FilesInv, Weigh
  PROVE  FilesInv'
<1>1. WeighEnds /\ history \in Chains
  BY WeighEndsSo DEF ChainInv, FollowsChain
<1>2. UNCHANGED <<file, history, headFile, torn>> /\ pc = "weigh"
  BY Zenon DEF Weigh, files, ghosts
<1>3. CASE WeighWaits
  BY <1>2, <1>3, FilesStay DEF WeighWaits, Writing
<1>4. CASE WeighLeaves
  BY <1>2, <1>4, FilesStay DEF WeighLeaves, NotFollowed
<1>5. ASSUME NEW a, WeighFollows(a)
      PROVE  FilesInv'
  <2>1. PICK p : p = Path[claim.head]
    OBVIOUS
  <2>2. a \in 0..Len(history) /\ Replace(SubSeq(p, a + 1, Len(p)), a, Collected(a), "note")
    BY <1>5, <2>1 DEF WeighFollows, Shares
  <2> QED  BY <1>1, <1>2, <2>2, ReplaceFiles DEF Writing
<1> QED  BY <1>1, <1>3, <1>4, <1>5 DEF WeighEnds

LEMMA StepFiles ==
  ASSUME ChainInv, PaysInv, FilesInv, [Next]_vars
  PROVE  FilesInv'
<1> DEFINE Same == UNCHANGED <<file, history, headFile, torn>>
           On == \/ UNCHANGED <<pc, writing>>
                 \/ pc \notin Writing \cup {"down", "opened"} /\ pc' \notin Writing \cup {"opened"}
<1>1. Same /\ On => FilesInv'
  BY FilesStay
<1>2. UNCHANGED <<chain, torn>> => Same
  BY DEF chain, files
<1>3. CASE UNCHANGED vars
  <2>1. Same /\ On
    BY <1>3 DEF vars, chainVars, files, ghosts
  <2> QED  BY <1>1, <2>1
<1>4. CASE ChainStep
  <2>1. Look \/ NoneAfter \/ Followed => Same /\ On
    BY DEF Look, NoneAfter, Followed, files, ghosts, Writing
  <2>2. NoneToWeigh => Same /\ On
    BY DEF NoneToWeigh, NextToWeigh, files, ghosts, Writing
  <2>3. BeginWeighing => Same /\ On
    BY DEF BeginWeighing, files, Writing
  <2>4. ASSUME NEW g \in Generations, Arrives(g) \/ KeysCome(g) \/ Evicted(g)
        PROVE  Same /\ On
    BY <2>4 DEF Arrives, KeysCome, Evicted, files, ghosts
  <2>5. ASSUME NEW g \in Generations, NEW p \in Peers, OnHeadTold(p, g)
        PROVE  Same /\ On
    BY <2>5 DEF OnHeadTold, files, ghosts
  <2>6. GivenUp => Same /\ On
    BY DEF GivenUp, files, ghosts
  <2>7. ASSUME NEW g \in Generations, TakeFound(g)
        PROVE  Same /\ On
    BY <2>7 DEF TakeFound, TakeUp, NextToWeigh, files, ghosts
  <2>8. ASSUME NEW p \in Peers, TakeTold(p)
        PROVE  Same /\ On
    BY <2>8 DEF TakeTold, TakeUp, NextToWeigh, files, ghosts
  <2> HIDE DEF Same, On
  <2> QED
    BY <1>1, <1>4, <2>1, <2>2, <2>3, <2>4, <2>5, <2>6, <2>7, <2>8, FollowFiles, RootFiles,
       WeighFiles, WriteGenerationFiles, WriteHeadFiles, WriteGenealogyFiles, UnlinkFiles,
       WriteFailsFiles, OpenFiles, OpenHeadFiles DEF ChainStep
<1>5. CASE Ends
  BY <1>5, CrashFiles DEF Ends
<1>6. ASSUME NEW p \in Payments, Pay(p)
      PROVE  Same /\ On
  BY <1>2, <1>6 DEF Pay, ghosts, chain, files
<1>7. PayOut => Same /\ On
  BY <1>2 DEF PayOut, ghosts, Writing
<1>8. ASSUME NEW key \in Given, OnTransaction(key)
      PROVE  Same /\ On
  BY <1>2, <1>8 DEF OnTransaction, ghosts, Writing
<1>9. MakePayments \/ MakeAgain \/ NotDue \/ NotTaken \/ Clear => Same /\ On
  BY <1>2 DEF MakePayments, MakeAgain, NotDue, NotTaken, Clear, ghosts, Writing
<1>10. taking.back \in {"idle", "clear"}
  BY PaymentsAre DEF PaysInv
<1>11. Take => Same /\ On
  <2>1. ASSUME Take
        PROVE  UNCHANGED <<chain, torn>> /\ pc = "take" /\ pc' \in {"putTaken", taking.back}
    <3>1. pc' = "putTaken" \/ pc' = taking.back
      BY <2>1, Zenon DEF Take
    <3> QED  BY <2>1, <3>1 DEF Take
  <2> QED  BY <1>2, <1>10, <2>1 DEF Writing
<1>12. PutUp => Same /\ On
  BY <1>2, <1>10 DEF PutUp, Writing, ghosts
<1> HIDE DEF Same, On
<1> QED
  BY <1>1, <1>3, <1>4, <1>5, <1>6, <1>7, <1>8, <1>9, <1>11, <1>12 DEF Next

LEMMA PrefixParts ==
  ASSUME NEW c \in Chains, NEW n \in 0..Len(c), NEW m \in 0..Len(c), m <= n
  PROVE  IsPrefix(SubSeq(c, 1, m), SubSeq(c, 1, n))
<1>1. c \in Seq(Generations) /\ Len(c) \in Nat
  BY ChainIs
<1> DEFINE s == SubSeq(c, 1, m)
           t == SubSeq(c, 1, n)
<1>2. s \in Seq(Generations) /\ t \in Seq(Generations) /\ Len(s) = m /\ Len(t) = n
  BY <1>1
<1>3. \A i \in 1..m : s[i] = c[i] /\ t[i] = c[i]
  BY <1>1
<1> HIDE DEF s, t
<1>4. SubSeq(s, 1, Len(s)) = SubSeq(t, 1, Len(s))
  BY <1>1, <1>2, <1>3
<1> QED  BY <1>1, <1>2, <1>4 DEF IsPrefix, s, t

LEMMA FilesRecover ==
  ASSUME ChainInv, FilesInv
  PROVE  Recovers
<1> SUFFICES ASSUME ~torn, pc # "down" PROVE Recovers
  BY Zenon DEF Recovers
<1>1. history \in Chains /\ genealogy = history
  BY DEF ChainInv, FollowsChain
<1>2. PICK n \in 0..Len(history) :
         /\ Recovered = SubSeq(history, 1, n)
         /\ \A m \in 0..Len(history) : (\A i \in 1..m : file[i] = history[i]) => m <= n
  BY <1>1, RecoveredIs
<1>3. Len(history) \in Nat /\ SubSeq(history, 1, Len(history)) = history
  BY <1>1, ChainIs, ChainWhole
<1>4. pc \in Unfollowed => writing.first \in 0..Len(history)
  BY DEF ChainInv, WritesChain, Writing, Unfollowed
<1>5. PICK m \in 0..Len(history) : /\ pc \in Unfollowed => m = writing.first
                                   /\ pc \notin Unfollowed => m = Len(history)
  <2>1. Len(history) \in 0..Len(history)
    BY <1>3
  <2> QED  BY <1>4, <2>1, Zenon
<1>6. m <= n
  BY <1>2, <1>5 DEF FilesInv
<1>7. IsPrefix(SubSeq(history, 1, m), Recovered) /\ IsPrefix(Recovered, history)
  <2>1. n <= Len(history) /\ Len(history) \in 0..Len(history)
    BY <1>3
  <2>2. IsPrefix(SubSeq(history, 1, m), SubSeq(history, 1, n))
    BY <1>1, <1>6, PrefixParts
  <2>3. IsPrefix(SubSeq(history, 1, n), SubSeq(history, 1, Len(history)))
    BY <1>1, <2>1, PrefixParts
  <2> QED  BY <1>2, <1>3, <2>2, <2>3
<1>8. pc \notin Writing \cup {"opened"} => headFile = HeadOf(history)
  BY DEF FilesInv, Writing
<1>9. CASE pc \in Unfollowed
  <2>1. pc \in {"files", "genealogy"} /\ m = writing.first
    BY <1>5, <1>9 DEF Unfollowed
  <2> QED  BY <1>7, <1>8, <2>1 DEF Recovers
<1>10. CASE pc \notin Unfollowed
  <2>1. pc \notin {"files", "genealogy"} /\ m = Len(history)
    BY <1>5, <1>10 DEF Unfollowed
  <2> QED  BY <1>3, <1>7, <1>8, <2>1 DEF Recovers
<1> QED  BY <1>9, <1>10

(* A restart at any moment, a write cut short included, finds the chain    *)
(* followed, or as far as the one being written shares it; and head.json   *)
(* names its head but while the history is written (history.py).           *)
THEOREM KarmaRecovers == Spec => []Recovers
<1>1. Init => PaysInv /\ ChainInv /\ FilesInv
  BY InitPays, InitChain, InitFiles
<1>2. PaysInv /\ ChainInv /\ FilesInv /\ [Next]_vars => (PaysInv /\ ChainInv /\ FilesInv)'
  BY StepPays, StepChain, StepFiles
<1>3. PaysInv /\ ChainInv /\ FilesInv => Recovers
  BY FilesRecover
<1> QED  BY <1>1, <1>2, <1>3, PTL DEF Spec

-----------------------------------------------------------------------------
(* A head found lighter. *)

LighterInv == weighed \subseteq Generations /\ FoundLighterStays

LEMMA LighterStays ==
  ASSUME LighterInv, UNCHANGED <<history, weighed, gaveUp>>
  PROVE  LighterInv'
BY DEF LighterInv, FoundLighterStays, Weighs, Last

LEMMA GrownHeavier ==
  ASSUME LighterInv, UNCHANGED <<weighed, gaveUp>>,
         Weighs(history) <= Weighs(history'), history \in Chains, history' \in Chains
  PROVE  LighterInv'
<1>1. PICK a, b : a = Weighs(history) /\ b = Weighs(history')
  OBVIOUS
<1>2. a \in Nat /\ b \in Nat /\ a <= b /\ b = Weighs(history)'
  BY <1>1, WeighsIs DEF Weighs, Last
<1>3. ASSUME NEW g \in weighed \ gaveUp, ToSet(Path[g]) \subseteq Correct
      PROVE  Weight[g] <= b
  <2>1. Weight[g] <= a
    BY <1>1, <1>3 DEF LighterInv, FoundLighterStays
  <2>2. Weight[g] \in Nat
    BY <1>3, WeightIs DEF LighterInv
  <2> QED  BY <1>2, <2>1, <2>2
<1> QED  BY <1>2, <1>3 DEF LighterInv, FoundLighterStays

LEMMA WeightOfChain ==
  ASSUME NEW g \in Generations
  PROVE  Path[g] \in Chains /\ Weighs(Path[g]) = Weight[g]
<1>1. Path[g] \in Chains
  BY DEF Chains
<1>2. Path[g] # <<>> /\ Path[g][Len(Path[g])] = g
  BY PathShape
<1> QED  BY <1>1, <1>2, WeighsIs

LEMMA InitLighter == Init => LighterInv
BY DEF Init, LighterInv, FoundLighterStays

(* What was weighed before, and a head that is no heavier, was found so. *)
LEMMA OneFoundLighter ==
  ASSUME LighterInv, UNCHANGED history, NEW done, done \subseteq Generations,
         \A g \in done : ToSet(Path[g]) \subseteq Correct => Weight[g] <= Weighs(history),
         weighed' \subseteq Generations, weighed' \ gaveUp' \subseteq (weighed \ gaveUp) \cup done
  PROVE  LighterInv'
<1>1. PICK a : a = Weighs(history)
  OBVIOUS
<1>2. a = Weighs(history)'
  BY <1>1 DEF Weighs, Last
<1>3. ASSUME NEW g \in weighed' \ gaveUp', ToSet(Path[g]) \subseteq Correct
      PROVE  Weight[g] <= a
  BY <1>1, <1>3 DEF LighterInv, FoundLighterStays
<1> QED  BY <1>2, <1>3 DEF LighterInv, FoundLighterStays

LEMMA NoteLighter ==
  ASSUME LighterInv, UNCHANGED history, NEW collected, NEW done, done \subseteq Generations,
         \A g \in done : ToSet(Path[g]) \subseteq Correct => Weight[g] <= Weighs(history),
         NoteHead(collected, done)
  PROVE  LighterInv'
<1>1. CASE weighed' = weighed \cup done /\ UNCHANGED gaveUp
  BY <1>1, OneFoundLighter DEF LighterInv
<1>2. CASE /\ weighed' = done \cup (weighed \ gaveUp) \/ weighed' = done \cup {}
           /\ gaveUp' = {}
  BY <1>2, OneFoundLighter DEF LighterInv
<1>3. \/ weighed' = weighed \cup done /\ UNCHANGED gaveUp
      \/ /\ weighed' = done \cup (weighed \ gaveUp) \/ weighed' = done \cup {}
         /\ gaveUp' = {}
  BY Zenon DEF NoteHead
<1> QED  BY <1>1, <1>2, <1>3

LEMMA BeginWeighingLighter ==
  ASSUME LighterInv, BeginWeighing
  PROVE  LighterInv'
<1>1. UNCHANGED history /\ NoteHead({}, {})
  BY DEF BeginWeighing
<1> QED  BY <1>1, NoteLighter

LEMMA FollowedLighter ==
  ASSUME ChainInv, WritingBack, LighterInv, Followed
  PROVE  LighterInv'
<1>1. PICK h : h = claim.head
  OBVIOUS
<1>2. pc = "note" /\ UNCHANGED history /\ NoteHead(writing.collected, {h})
  BY <1>1 DEF Followed
<1>3. writing.back = "note" /\ history = Path[h] /\ claim # NoClaim
  BY <1>1, <1>2 DEF ChainInv, WritesChain, Unfollowed
<1>4. h \in Generations
  BY <1>1, <1>3, ClaimIs DEF ChainInv
<1>5. Weight[h] <= Weighs(history)
  BY <1>3, <1>4, WeightOfChain, WeightIs
<1> QED  BY <1>2, <1>4, <1>5, NoteLighter

LEMMA GivenUpLighter ==
  ASSUME ChainInv, LighterInv, GivenUp
  PROVE  LighterInv'
<1>1. PICK h : h = claim.head
  OBVIOUS
<1>2. /\ claim # NoClaim /\ UNCHANGED history
      /\ weighed' = weighed \cup {h} /\ gaveUp' = gaveUp \cup {h}
  BY <1>1 DEF GivenUp
<1>3. h \in Generations
  BY <1>1, <1>2, ClaimIs DEF ChainInv
<1>4. weighed' \subseteq Generations /\ weighed' \ gaveUp' \subseteq weighed \ gaveUp
  BY <1>2, <1>3 DEF LighterInv
<1>5. PICK none \in SUBSET Generations : none = {}
  OBVIOUS
<1>6. \A g \in none : ToSet(Path[g]) \subseteq Correct => Weight[g] <= Weighs(history)
  BY <1>5
<1> QED  BY <1>2, <1>4, <1>5, <1>6, OneFoundLighter

LEMMA WeighLighter ==
  ASSUME ChainInv, LighterInv, Weigh
  PROVE  LighterInv'
<1>1. WeighEnds
  BY WeighEndsSo
<1>2. UNCHANGED <<history, gaveUp>> /\ claim # NoClaim
  BY Zenon DEF Weigh
<1>3. CASE UNCHANGED weighed
  BY <1>2, <1>3, LighterStays
<1>4. CASE WeighLeaves
  <2>1. PICK h : h = claim.head
    OBVIOUS
  <2>2. h \in Generations
    BY <1>2, <2>1, ClaimIs DEF ChainInv
  <2>3. /\ weighed' = weighed \cup {h}
        /\ ToSet(Path[h]) \subseteq Correct => Weight[h] <= Weighs(history)
    BY <1>4, <2>1 DEF WeighLeaves, NotFollowed
  <2>4. weighed' \subseteq Generations /\ weighed' \ gaveUp' \subseteq (weighed \ gaveUp) \cup {h}
    BY <1>2, <2>2, <2>3 DEF LighterInv
  <2> QED  BY <1>2, <2>2, <2>3, <2>4, OneFoundLighter
<1>5. WeighEnds => WeighLeaves \/ UNCHANGED weighed
  BY DEF WeighEnds, WeighWaits, WeighFollows
<1> QED  BY <1>1, <1>3, <1>4, <1>5

LEMMA WriteGenealogyLighter ==
  ASSUME ChainInv, LighterInv, WriteGenealogy
  PROVE  LighterInv'
<1>1. PICK c : c = NewChain
  OBVIOUS
<1>2. pc = "genealogy" /\ history' = c /\ UNCHANGED <<weighed, gaveUp>>
  BY <1>1 DEF WriteGenealogy, NewChain, heads
<1>3. history \in Chains /\ c \in Chains /\ Weighs(history) <= Weighs(c)
  BY <1>1, <1>2 DEF ChainInv, FollowsChain, WritesChain, Writing, Unfollowed
<1>4. Weighs(history) <= Weighs(history')
  BY <1>2, <1>3
<1> QED  BY <1>2, <1>3, <1>4, GrownHeavier

LEMMA DownLighter ==
  ASSUME ChainInv, LighterInv, Crash \/ Open
  PROVE  LighterInv'
<1>1. weighed' = {}
  BY DEF Crash, Forget, Open, ChainInv, FollowsChain
<1> QED  BY <1>1 DEF LighterInv, FoundLighterStays

LEMMA StepLighter ==
  ASSUME ChainInv, PaysInv, LighterInv, [Next]_vars
  PROVE  LighterInv'
<1> DEFINE Same == UNCHANGED <<history, weighed, gaveUp>>
<1>1. Same => LighterInv'
  BY LighterStays
<1>2. UNCHANGED chain => Same
  BY DEF chain, heads
<1>3. CASE UNCHANGED vars
  <2>1. Same
    BY <1>3 DEF vars, chainVars, heads
  <2> QED  BY <1>1, <2>1
<1>4. CASE ChainStep
  <2>1. Look \/ NoneAfter \/ Follow \/ WriteGeneration \/ WriteHead \/ Unlink \/ OpenHead => Same
    BY Zenon DEF Look, NoneAfter, Follow, WriteGeneration, WriteHead, Unlink, OpenHead, heads
  <2>2. NoneToWeigh \/ WriteFails => Same
    BY Zenon DEF NoneToWeigh, NextToWeigh, WriteFails, heads
  <2>3. ASSUME NEW g \in Generations, Arrives(g) \/ KeysCome(g) \/ Evicted(g) \/ OnRootRequested(g)
        PROVE  Same
    BY <2>3 DEF Arrives, KeysCome, Evicted, OnRootRequested, heads
  <2>4. ASSUME NEW g \in Generations, NEW p \in Peers, OnHeadTold(p, g)
        PROVE  Same
    BY <2>4 DEF OnHeadTold
  <2>5. ASSUME NEW g \in Generations, TakeFound(g)
        PROVE  Same
    BY <2>5 DEF TakeFound, TakeUp, NextToWeigh
  <2>6. ASSUME NEW p \in Peers, TakeTold(p)
        PROVE  Same
    BY <2>6 DEF TakeTold, TakeUp, NextToWeigh
  <2>7. WritingBack
    BY DEF PaysInv
  <2> HIDE DEF Same
  <2> QED
    BY <1>1, <1>4, <2>1, <2>2, <2>3, <2>4, <2>5, <2>6, <2>7, BeginWeighingLighter,
       FollowedLighter, GivenUpLighter, WeighLighter, WriteGenealogyLighter, DownLighter
       DEF ChainStep
<1>5. CASE Ends
  BY <1>5, DownLighter DEF Ends
<1>6. ASSUME NEW p \in Payments, Pay(p)
      PROVE  Same
  BY <1>2, <1>6 DEF Pay
<1>7. ASSUME NEW key \in Given, OnTransaction(key)
      PROVE  Same
  BY <1>2, <1>7 DEF OnTransaction
<1>8. PayOut \/ MakePayments \/ MakeAgain \/ NotDue \/ NotTaken \/ Clear \/ PutUp => Same
  BY <1>2 DEF PayOut, MakePayments, MakeAgain, NotDue, NotTaken, Clear, PutUp
<1>9. Take => Same
  BY <1>2 DEF Take
<1> HIDE DEF Same
<1> QED
  BY <1>1, <1>3, <1>4, <1>5, <1>6, <1>7, <1>8, <1>9 DEF Next

(* A head weighed and not followed, whose chain is correct, is no heavier  *)
(* than the chain followed, as long as it is remembered ("a head found     *)
(* lighter ... is so still", HeadChanges).                                 *)
THEOREM KarmaFoundLighterStays == Spec => []FoundLighterStays
<1>1. Init => PaysInv /\ ChainInv /\ LighterInv
  BY InitPays, InitChain, InitLighter
<1>2. PaysInv /\ ChainInv /\ LighterInv /\ [Next]_vars => (PaysInv /\ ChainInv /\ LighterInv)'
  BY StepPays, StepChain, StepLighter
<1>3. LighterInv => FoundLighterStays
  BY DEF LighterInv
<1> QED  BY <1>1, <1>2, <1>3, PTL DEF Spec

-----------------------------------------------------------------------------
(* What is owed. *)

LEMMA EarliestNat ==
  ASSUME NEW g \in Generations, NEW key
  PROVE  Earliest(key) \in Nat
<1> DEFINE S == {Longest} \cup
                {Len(Path[h]) : h \in {k \in Generations : key \in Keys[k] \cup Witnesses[k]}}
<1>1. S \in SUBSET Nat /\ S # {}
  BY LongestIs, PathShape
<1>2. Earliest(key) = Min(S)
  BY DEF Earliest
<1> HIDE DEF S
<1> QED  BY <1>1, <1>2, MinIs

(* What was witnessed so late is not too old, as long as the chain is no   *)
(* longer than the earliest there may be lets it be carried.               *)
LEMMA NotTooOld ==
  ASSUME NEW c \in Chains, NEW key, NEW w \in Nat, w # 0, Earliest(key) <= w,
         Len(c) + 1 <= Earliest(key) + CarryGenerations
  PROVE  Len(c) + 1 <= w + CarryGenerations
<1>1. CarryGenerations \in Nat
  BY KarmaAssumption
<1>2. CASE c = <<>>
  <2>1. Len(c) = 0
    BY <1>2
  <2> QED  BY <1>1, <2>1
<1>3. CASE c # <<>>
  <2>1. Len(c) \in Nat /\ c[Len(c)] \in Generations
    BY <1>3, ChainIs
  <2>2. Earliest(key) \in Nat
    BY <2>1, EarliestNat
  <2> QED  BY <1>1, <2>1, <2>2
<1> QED  BY <1>2, <1>3

(* One of them as it is carried, once the chain is that one. *)
AsCarried(each, c) ==
    [each EXCEPT !.witnessed = IF @ # 0 THEN @ ELSE WitnessedBy(c, each.key)]

LEMMA CarriedOne ==
  ASSUME NEW c \in Chains, NEW each \in Carriables,
         each.witnessed # 0 => Earliest(each.key) <= each.witnessed
  PROVE  /\ AsCarried(each, c) \in Carriables /\ AsCarried(each, c).key = each.key
         /\ AsCarried(each, c).witnessed # 0
               => Earliest(AsCarried(each, c).key) <= AsCarried(each, c).witnessed
         /\ each.key \notin KeysOf(c) /\ Len(c) + 1 <= Earliest(each.key) + CarryGenerations
               => Carriable(each, c)
<1>1. PICK k \in Transactions, u \in BOOLEAN, w \in Nat :
         each = [key |-> k, putUp |-> u, witnessed |-> w]
  BY DEF Carriables
<1>2. each.key = k /\ each.witnessed = w
  BY <1>1
<1>3. PICK v \in Nat : v = WitnessedBy(c, k) /\ (v # 0 => Earliest(k) <= v)
  BY WitnessedByIs
<1>4. PICK x \in Nat : x = (IF w # 0 THEN w ELSE v) /\ (x # 0 => Earliest(k) <= x)
  <2>1. w # 0 => Earliest(k) <= w
    BY <1>2
  <2> QED  BY <1>3, <2>1
<1> DEFINE new == [key |-> k, putUp |-> u, witnessed |-> x]
<1>5. AsCarried(each, c) = new
  BY <1>1, <1>2, <1>3, <1>4 DEF AsCarried
<1>6. new \in Carriables /\ new.key = k /\ new.witnessed = x
  BY DEF Carriables
<1>7. ASSUME k \notin KeysOf(c), Len(c) + 1 <= Earliest(k) + CarryGenerations
      PROVE  Carriable(each, c)
  <2>1. x # 0 => Len(c) + 1 <= x + CarryGenerations
    BY <1>4, <1>7, NotTooOld
  <2> QED  BY <1>2, <1>3, <1>4, <1>7, <2>1 DEF Carriable
<1> HIDE DEF new
<1> QED  BY <1>2, <1>4, <1>5, <1>6, <1>7

LEMMA CarriedAtIs ==
  ASSUME NEW c \in Chains, NEW some \in SUBSET Carriables, WitnessedLate(some)
  PROVE  /\ CarriedAt(some, c) \in SUBSET Carriables /\ WitnessedLate(CarriedAt(some, c))
         /\ \A each \in some :
               each.key \notin KeysOf(c) /\ Len(c) + 1 <= Earliest(each.key) + CarryGenerations
                  => \E new \in CarriedAt(some, c) : new.key = each.key
<1>1. ASSUME NEW each \in some
      PROVE  /\ AsCarried(each, c) \in Carriables /\ AsCarried(each, c).key = each.key
             /\ AsCarried(each, c).witnessed # 0
                   => Earliest(AsCarried(each, c).key) <= AsCarried(each, c).witnessed
             /\ each.key \notin KeysOf(c) /\ Len(c) + 1 <= Earliest(each.key) + CarryGenerations
                   => Carriable(each, c)
  <2>1. each \in Carriables /\ (each.witnessed # 0 => Earliest(each.key) <= each.witnessed)
    BY DEF WitnessedLate
  <2> QED  BY <2>1, CarriedOne, Zenon
<1>2. CarriedAt(some, c) = {AsCarried(each, c) : each \in {one \in some : Carriable(one, c)}}
  BY DEF CarriedAt, AsCarried
<1> QED  BY <1>1, <1>2 DEF WitnessedLate

LEMMA CarryWithIs ==
  ASSUME history \in Chains, NEW collected \in SUBSET Carriables, WitnessedLate(collected),
         carried \in SUBSET Carriables, WitnessedLate(carried)
  PROVE  /\ CarryWith(collected) \in SUBSET Carriables /\ WitnessedLate(CarryWith(collected))
         /\ \A each \in carried \cup collected :
               each.key \notin KeysOf(history)
               /\ Len(history) + 1 <= Earliest(each.key) + CarryGenerations
                  => \E new \in CarryWith(collected) : new.key = each.key
<1>1. PICK kept, more : kept = CarriedAt(carried, history) /\ more = CarriedAt(collected, history)
  OBVIOUS
<1>2. CarryWith(collected) = kept \cup {new \in more : \A old \in kept : old.key # new.key}
  BY <1>1 DEF CarryWith
<1>3. /\ kept \in SUBSET Carriables /\ WitnessedLate(kept)
      /\ more \in SUBSET Carriables /\ WitnessedLate(more)
  BY <1>1, CarriedAtIs
<1>4. \A each \in carried :
         each.key \notin KeysOf(history) /\ Len(history) + 1 <= Earliest(each.key) + CarryGenerations
            => \E new \in kept : new.key = each.key
  BY <1>1, CarriedAtIs
<1>5. \A each \in collected :
         each.key \notin KeysOf(history) /\ Len(history) + 1 <= Earliest(each.key) + CarryGenerations
            => \E new \in more : new.key = each.key
  BY <1>1, CarriedAtIs
<1>6. \A new \in more : \E one \in CarryWith(collected) : one.key = new.key
  BY <1>2
<1>7. CarryWith(collected) \subseteq kept \cup more /\ kept \subseteq CarryWith(collected)
  BY <1>2
<1>8. CarryWith(collected) \in SUBSET Carriables /\ WitnessedLate(CarryWith(collected))
  BY <1>3, <1>7, Zenon DEF WitnessedLate
<1>9. ASSUME NEW each \in carried \cup collected, each.key \notin KeysOf(history),
             Len(history) + 1 <= Earliest(each.key) + CarryGenerations
      PROVE  \E new \in CarryWith(collected) : new.key = each.key
  <2>1. CASE each \in carried
    BY <1>4, <1>7, <1>9, <2>1, Zenon
  <2>2. CASE each \in collected
    <3>1. PICK new \in more : new.key = each.key
      BY <1>5, <1>9, <2>2, Zenon
    <3> QED  BY <1>6, <3>1
  <2> QED  BY <2>1, <2>2
<1> QED  BY <1>8, <1>9

LEMMA InitOwed == Init => OwedInv
BY DEF Init, OwedInv, WitnessedLate, Writing

LEMMA OwedStays ==
  ASSUME OwedInv, UNCHANGED <<carried, owed, history, file, genealogy>>,
         \/ UNCHANGED <<pc, writing>>
         \/ pc \notin Writing \cup {"note", "down"} /\ pc' \notin Writing \cup {"note", "down"}
  PROVE  OwedInv'
<1>1. carried' \subseteq Carriables /\ WitnessedLate(carried)'
  BY DEF OwedInv, WitnessedLate
<1>2. CASE UNCHANGED <<pc, writing>>
  <2>1. PICK r, h, c : r = Recovered /\ h = history /\ c = writing.collected
    OBVIOUS
  <2>2. r = Recovered' /\ h = history' /\ c = writing'.collected
    BY <1>2, <2>1 DEF Recovered
  <2>3. \A other, key : SafeIn(other, key)' = SafeIn(other, key)
    BY DEF SafeIn
  <2>4. /\ pc \in Writing \cup {"note"} =>
              WitnessedLate(c) /\ \A each \in c : each.witnessed # 0
        /\ \A key \in owed :
              \/ SafeIn(IF pc = "down" THEN r ELSE h, key)
              \/ /\ pc \in {"head", "unlink", "note"} /\ writing.back = "note"
                 /\ \E each \in c : each.key = key
    BY <2>1 DEF OwedInv
  <2>5. /\ pc' \in Writing \cup {"note"} =>
              WitnessedLate(c)' /\ \A each \in c : each.witnessed # 0
        /\ \A key \in owed' :
              \/ SafeIn(IF pc = "down" THEN r ELSE h, key)'
              \/ /\ pc' \in {"head", "unlink", "note"} /\ writing'.back = "note"
                 /\ \E each \in c : each.key = key
    BY <1>2, <2>3, <2>4 DEF WitnessedLate
  <2> QED  BY <1>1, <1>2, <2>2, <2>5 DEF OwedInv, WitnessedLate, SafeIn
<1>3. CASE pc \notin Writing \cup {"note", "down"} /\ pc' \notin Writing \cup {"note", "down"}
  BY <1>1, <1>3 DEF OwedInv, SafeIn, Writing, KeysOf
<1> QED  BY <1>2, <1>3

LEMMA OwedSafe ==
  ASSUME carried' \subseteq Carriables, WitnessedLate(carried)', pc' \notin Writing \cup {"note", "down"},
         \A key \in owed' : SafeIn(history, key)'
  PROVE  OwedInv'
BY Zenon DEF OwedInv

LEMMA OwedReplaced ==
  ASSUME OwedInv, UNCHANGED <<carried, owed, history>>, pc \notin Writing \cup {"note", "down"},
         NEW more, NEW first, NEW collected, NEW back, Replace(more, first, collected, back),
         WitnessedLate(collected), \A each \in collected : each.witnessed # 0
  PROVE  OwedInv'
<1>1. carried' \subseteq Carriables /\ WitnessedLate(carried)'
  BY DEF OwedInv, WitnessedLate
<1>2. PICK n : n = Len(history)
  OBVIOUS
<1>3. pc' = "files" /\ writing'.collected = collected
  <2> DEFINE w == [generations |-> more, first |-> first, at |-> 1, dropped |-> n,
                   collected |-> collected, back |-> back]
  <2>1. w.collected = collected
    BY ONLY TRUE
  <2>2. writing' = w
    BY <1>2 DEF Replace
  <2> HIDE DEF w
  <2> QED  BY <2>1, <2>2 DEF Replace
<1>4. \A key \in owed : SafeIn(history, key)
  BY DEF OwedInv, Writing
<1>5. \A key \in owed' : SafeIn(history, key)'
  BY <1>4 DEF SafeIn, KeysOf
<1>6. WitnessedLate(writing'.collected) /\ \A each \in writing'.collected : each.witnessed # 0
  BY <1>3
<1> QED  BY <1>1, <1>3, <1>5, <1>6 DEF OwedInv, WitnessedLate

LEMMA OwedWrites ==
  ASSUME OwedInv, UNCHANGED <<carried, owed, history>>, pc \in Writing, pc' \in Writing,
         writing'.collected = writing.collected, writing'.back = writing.back,
         pc \in {"head", "unlink"} => pc' \in {"head", "unlink"}
  PROVE  OwedInv'
<1>1. carried' \subseteq Carriables /\ WitnessedLate(carried)'
  BY DEF OwedInv, WitnessedLate
<1>2. PICK c : c = writing.collected
  OBVIOUS
<1>3. WitnessedLate(c) /\ \A each \in c : each.witnessed # 0
  BY <1>2 DEF OwedInv
<1>4. \A key \in owed : \/ SafeIn(history, key)
                        \/ /\ pc \in {"head", "unlink", "note"} /\ writing.back = "note"
                           /\ \E each \in c : each.key = key
  BY <1>2 DEF OwedInv, Writing
<1>5. \A key \in owed' : \/ SafeIn(history, key)'
                         \/ /\ pc' \in {"head", "unlink", "note"} /\ writing'.back = "note"
                            /\ \E each \in c : each.key = key
  <2>1. \A key : SafeIn(history, key) => SafeIn(history, key)'
    BY DEF SafeIn, KeysOf
  <2> QED  BY <1>4, <2>1 DEF Writing
<1>6. writing'.collected = c /\ pc' # "down"
  BY <1>2 DEF Writing
<1> QED  BY <1>1, <1>3, <1>5, <1>6 DEF OwedInv, WitnessedLate

(* What is owed is carried on, but for what may be too old for it, or kept. *)
LEMMA CarryOwed ==
  ASSUME carried \in SUBSET Carriables, WitnessedLate(carried), history \in Chains,
         UNCHANGED history, NEW collected \in SUBSET Carriables, WitnessedLate(collected),
         \A key \in owed : SafeIn(history, key) \/ \E each \in collected : each.key = key,
         Carry(collected)
  PROVE  /\ carried' \subseteq Carriables /\ WitnessedLate(carried)'
         /\ \A key \in owed' : SafeIn(history, key)'
<1>1. CASE /\ carried' = CarryWith(collected)
           /\ owed' = {key \in owed : Len(history) + 1 <= Earliest(key) + CarryGenerations}
  <2>1. PICK s : s = CarryWith(collected)
    OBVIOUS
  <2>2. /\ s \in SUBSET Carriables /\ WitnessedLate(s)
        /\ \A each \in carried \cup collected :
              each.key \notin KeysOf(history)
              /\ Len(history) + 1 <= Earliest(each.key) + CarryGenerations
                 => \E new \in s : new.key = each.key
    BY <2>1, CarryWithIs
  <2>3. ASSUME NEW key \in owed, Len(history) + 1 <= Earliest(key) + CarryGenerations,
               key \notin KeysOf(history)
        PROVE  \E new \in s : new.key = key
    <3>1. PICK each \in carried \cup collected : each.key = key
      BY <2>3 DEF SafeIn
    <3> QED  BY <2>2, <2>3, <3>1
  <2>4. \A key \in owed' : key \in KeysOf(history) \/ \E new \in s : new.key = key
    BY <1>1, <2>3
  <2>5. WitnessedLate(carried)'
    BY <1>1, <2>1, <2>2 DEF WitnessedLate
  <2> QED  BY <1>1, <2>1, <2>2, <2>4, <2>5 DEF SafeIn, KeysOf
<1>2. CASE owed' = {key \in owed : SafeIn(history, key)} /\ UNCHANGED carried
  <2>1. \A key : SafeIn(history, key) => SafeIn(history, key)'
    BY <1>2 DEF SafeIn, KeysOf
  <2> QED  BY <1>2, <2>1 DEF WitnessedLate
<1> QED  BY <1>1, <1>2 DEF Carry

LEMMA FollowOwed ==
  ASSUME OwedInv, Follow
  PROVE  OwedInv'
<1>1. /\ UNCHANGED <<carried, owed, history>> /\ pc \notin Writing \cup {"note", "down"}
      /\ \E g \in Generations : Replace(<<g>>, Len(history), {}, pc)
  BY DEF Follow, ghosts, Writing
<1>2. WitnessedLate({}) /\ \A each \in {} : each.witnessed # 0
  BY DEF WitnessedLate
<1> QED  BY <1>1, <1>2, OwedReplaced

LEMMA RootOwed ==
  ASSUME OwedInv, NEW g \in Generations, OnRootRequested(g)
  PROVE  OwedInv'
<1>1. /\ UNCHANGED <<carried, owed, history>> /\ pc \notin Writing \cup {"note", "down"}
      /\ Replace(<<g>>, 0, {}, "idle")
  BY DEF OnRootRequested, ghosts, Writing
<1>2. WitnessedLate({}) /\ \A each \in {} : each.witnessed # 0
  BY DEF WitnessedLate
<1> QED  BY <1>1, <1>2, OwedReplaced

LEMMA WeighOwed ==
  ASSUME ChainInv, OwedInv, Weigh
  PROVE  OwedInv'
<1>1. WeighEnds /\ history \in Chains
  BY WeighEndsSo DEF ChainInv, FollowsChain
<1>2. UNCHANGED <<carried, owed, history, file, genealogy>> /\ pc = "weigh"
  BY Zenon DEF Weigh, files, ghosts
<1>3. CASE WeighWaits
  BY <1>2, <1>3, OwedStays DEF WeighWaits, Writing
<1>4. CASE WeighLeaves
  BY <1>2, <1>4, OwedStays DEF WeighLeaves, NotFollowed
<1>5. ASSUME NEW a, WeighFollows(a)
      PROVE  OwedInv'
  <2>1. PICK p, c : p = Path[claim.head] /\ c = Collected(a)
    OBVIOUS
  <2>2. a \in 0..Len(history) /\ Replace(SubSeq(p, a + 1, Len(p)), a, c, "note")
    BY <1>5, <2>1 DEF WeighFollows, Shares
  <2>3. a \in Nat
    BY <1>1, <2>2, ChainIs
  <2>4. WitnessedLate(c) /\ \A each \in c : each.witnessed # 0
    BY <1>1, <2>1, <2>3, CollectedIs
  <2> QED  BY <1>2, <2>2, <2>4, OwedReplaced DEF Writing
<1> QED  BY <1>1, <1>3, <1>4, <1>5 DEF WeighEnds

LEMMA WriteGenerationOwed ==
  ASSUME ChainInv, OwedInv, WriteGeneration
  PROVE  OwedInv'
<1>1. /\ pc = "files" /\ UNCHANGED <<carried, owed, history>>
      /\ \/ writing' = [writing EXCEPT !.at = @ + 1] /\ UNCHANGED pc
         \/ pc' = "genealogy" /\ UNCHANGED writing
  BY DEF WriteGeneration, ghosts
<1>2. writing \in Writings
  BY <1>1, WritingIs DEF Writing
<1>3. writing'.collected = writing.collected /\ writing'.back = writing.back
  BY <1>1, <1>2 DEF Writings
<1> QED  BY <1>1, <1>3, OwedWrites DEF Writing

LEMMA WriteHeadOwed ==
  ASSUME OwedInv, WriteHead
  PROVE  OwedInv'
<1>1. pc = "head" /\ pc' = "unlink" /\ UNCHANGED <<carried, owed, history, writing>>
  BY DEF WriteHead, ghosts
<1> QED  BY <1>1, OwedWrites DEF Writing

LEMMA WriteGenealogyOwed ==
  ASSUME ChainInv, OwedInv, WriteGenealogy
  PROVE  OwedInv'
<1>1. PICK d, c : d = NewChain /\ c = writing.collected
  OBVIOUS
<1>2. /\ pc = "genealogy" /\ pc' = "head" /\ history' = d /\ UNCHANGED <<carried, writing>>
      /\ owed' = {each.key : each \in c} \cup {key \in owed : SafeIn(d, key)}
  BY <1>1 DEF WriteGenealogy, NewChain
<1>3. carried' \subseteq Carriables /\ WitnessedLate(carried)'
  BY <1>2 DEF OwedInv, WitnessedLate
<1>4. WitnessedLate(c) /\ \A each \in c : each.witnessed # 0
  BY <1>1, <1>2 DEF OwedInv, Writing
<1>5. c # {} => writing.back = "note"
  BY <1>1, <1>2 DEF ChainInv, WritesChain, Writing
<1>6. \A key : SafeIn(d, key) => SafeIn(history, key)'
  BY <1>2 DEF SafeIn, KeysOf
<1>7. \A key \in owed' : \/ SafeIn(history, key)'
                         \/ writing.back = "note" /\ \E each \in c : each.key = key
  BY <1>2, <1>5, <1>6
<1> QED  BY <1>1, <1>2, <1>3, <1>4, <1>7 DEF OwedInv, WitnessedLate

LEMMA UnlinkOwed ==
  ASSUME ChainInv, OwedInv, Unlink
  PROVE  OwedInv'
<1>1. /\ pc = "unlink" /\ pc' = writing.back /\ UNCHANGED <<carried, owed, history>>
      /\ writing.back = "note" => UNCHANGED writing
  BY DEF Unlink, ghosts
<1>2. writing.back \in {"idle", "follow", "followAgain", "note"}
  BY <1>1, WritingIs DEF Writing
<1>3. carried' \subseteq Carriables /\ WitnessedLate(carried)'
  BY <1>1 DEF OwedInv, WitnessedLate
<1>4. \A key : SafeIn(history, key) => SafeIn(history, key)'
  BY <1>1 DEF SafeIn, KeysOf
<1>5. CASE writing.back # "note"
  <2>1. \A key \in owed' : SafeIn(history, key)'
    BY <1>1, <1>4, <1>5 DEF OwedInv
  <2>2. pc' \notin Writing \cup {"note", "down"}
    BY <1>1, <1>2, <1>5 DEF Writing
  <2> QED  BY <1>3, <2>1, <2>2, OwedSafe
<1>6. CASE writing.back = "note"
  <2>1. PICK c : c = writing.collected
    OBVIOUS
  <2>2. pc' = "note" /\ writing'.collected = c /\ writing'.back = "note"
    BY <1>1, <1>6, <2>1
  <2>3. WitnessedLate(c) /\ \A each \in c : each.witnessed # 0
    BY <1>1, <2>1 DEF OwedInv, Writing
  <2>4. \A key \in owed' : SafeIn(history, key)' \/ \E each \in c : each.key = key
    BY <1>1, <1>4, <2>1 DEF OwedInv
  <2> QED  BY <1>3, <2>2, <2>3, <2>4 DEF OwedInv, WitnessedLate
<1> QED  BY <1>5, <1>6

LEMMA WriteFailsOwed ==
  ASSUME OwedInv, WriteFails
  PROVE  OwedInv'
<1>1. /\ pc' \in {"idle", "pay"} /\ UNCHANGED <<carried, history>>
      /\ owed' = {key \in owed : SafeIn(history, key)}
  BY DEF WriteFails
<1>2. carried' \subseteq Carriables /\ WitnessedLate(carried)'
  BY <1>1 DEF OwedInv, WitnessedLate
<1>3. \A key \in owed' : SafeIn(history, key)'
  BY <1>1 DEF SafeIn, KeysOf
<1> QED  BY <1>1, <1>2, <1>3, OwedSafe DEF Writing

LEMMA BeginWeighingOwed ==
  ASSUME ChainInv, OwedInv, BeginWeighing
  PROVE  OwedInv'
<1>1. /\ pc = "follow" /\ pc' = "weigh" /\ UNCHANGED <<history, file, genealogy>>
      /\ NoteHead({}, {})
  BY DEF BeginWeighing, files
<1>2. CASE UNCHANGED <<carried, owed>>
  BY <1>1, <1>2, OwedStays DEF Writing
<1>3. CASE Carry({})
  <2>1. PICK none \in SUBSET Carriables : none = {}
    OBVIOUS
  <2>2. WitnessedLate(none) /\ Carry(none)
    BY <1>3, <2>1 DEF WitnessedLate
  <2>3. carried \in SUBSET Carriables /\ WitnessedLate(carried) /\ history \in Chains
    BY DEF OwedInv, ChainInv, FollowsChain
  <2>4. \A key \in owed : SafeIn(history, key) \/ \E each \in none : each.key = key
    BY <1>1 DEF OwedInv
  <2>5. /\ carried' \subseteq Carriables /\ WitnessedLate(carried)'
        /\ \A key \in owed' : SafeIn(history, key)'
    BY <1>1, <2>2, <2>3, <2>4, CarryOwed
  <2> QED  BY <1>1, <2>5, OwedSafe DEF Writing
<1>4. UNCHANGED <<carried, owed>> \/ Carry({})
  BY <1>1, Zenon DEF NoteHead
<1> QED  BY <1>2, <1>3, <1>4

LEMMA FollowedOwed ==
  ASSUME ChainInv, OwedInv, Followed
  PROVE  OwedInv'
<1>1. PICK h, c : h = claim.head /\ c = writing.collected
  OBVIOUS
<1>2. /\ pc = "note" /\ pc' = "followAgain" /\ UNCHANGED <<history, file, genealogy>>
      /\ NoteHead(c, {h})
  BY <1>1 DEF Followed, files
<1>3. history = Path[h] /\ claim # NoClaim /\ h # noted
  BY <1>1, <1>2 DEF ChainInv, WritesChain, Unfollowed
<1>4. h \in Generations
  BY <1>1, <1>3, ClaimIs DEF ChainInv
<1>5. HeadOf(history) = h
  BY <1>3, <1>4, PathShape DEF HeadOf, Last
<1>6. Carry(c)
  BY <1>2, <1>3, <1>5, Zenon DEF NoteHead
<1>7. /\ c \in SUBSET Carriables /\ WitnessedLate(c)
      /\ carried \in SUBSET Carriables /\ WitnessedLate(carried) /\ history \in Chains
  BY <1>1, <1>2, WritingIs DEF OwedInv
<1>8. \A key \in owed : SafeIn(history, key) \/ \E each \in c : each.key = key
  BY <1>1, <1>2 DEF OwedInv
<1>9. /\ carried' \subseteq Carriables /\ WitnessedLate(carried)'
      /\ \A key \in owed' : SafeIn(history, key)'
  BY <1>2, <1>6, <1>7, <1>8, CarryOwed
<1> QED  BY <1>2, <1>9, OwedSafe DEF Writing

LEMMA CrashOwed ==
  ASSUME OwedInv, Crash
  PROVE  OwedInv'
<1>1. PICK r : r = Recovered
  OBVIOUS
<1>2. /\ pc' = "down" /\ UNCHANGED <<file, genealogy, carried>>
      /\ owed' = {key \in owed : SafeIn(r, key)}
  BY <1>1 DEF Crash, files
<1>3. Recovered' = r
  BY <1>1, <1>2 DEF Recovered
<1>4. \A key \in owed' : SafeIn(r, key)'
  BY <1>2 DEF SafeIn
<1> QED  BY <1>2, <1>3, <1>4 DEF OwedInv, WitnessedLate, SafeIn, Writing

LEMMA OpenOwed ==
  ASSUME OwedInv, Open
  PROVE  OwedInv'
<1>1. PICK r : r = Recovered
  OBVIOUS
<1>2. pc = "down" /\ pc' = "opened" /\ history' = r /\ UNCHANGED <<carried, owed>>
  BY <1>1 DEF Open
<1>3. \A key \in owed : SafeIn(r, key)
  BY <1>1, <1>2 DEF OwedInv
<1>4. \A key \in owed' : SafeIn(history, key)'
  BY <1>2, <1>3 DEF SafeIn, KeysOf
<1>5. carried' \subseteq Carriables /\ WitnessedLate(carried)'
  BY <1>2 DEF OwedInv, WitnessedLate
<1> QED  BY <1>2, <1>4, <1>5, OwedSafe DEF Writing

LEMMA TakeOwed ==
  ASSUME ChainInv, PaysInv, OwedInv, Take
  PROVE  OwedInv'
<1>1. PICK k, b : k = taking.key /\ b = taking.back
  OBVIOUS
<1>2. b \in {"idle", "clear"} /\ k \in Transactions
  <2>1. pc = "take"
    BY DEF Take
  <2>2. taking.key \in Given \cup Moments
    BY <2>1 DEF PaysInv, TakingOne
  <2>3. Given \cup Moments \subseteq Transactions
    BY PaymentsAssumption
  <2>4. taking.back \in {"idle", "clear"}
    BY PaymentsAre DEF PaysInv
  <2> QED  BY <1>1, <2>2, <2>3, <2>4
<1>3. /\ pc = "take" /\ pc' \in {"putTaken", b} /\ UNCHANGED <<history, file, genealogy>>
      /\ \/ UNCHANGED <<carried, owed>>
         \/ /\ carried' = CarryWith({[key |-> k, witnessed |-> 0, putUp |-> TRUE]})
            /\ owed' = {key \in owed \cup ({k} \cap Taken) :
                            Len(history) + 1 <= Earliest(key) + CarryGenerations}
  <2>1. pc' = "putTaken" \/ pc' = b
    BY <1>1, Zenon DEF Take
  <2> QED  BY <1>1, <2>1 DEF Take, chain, files
<1>4. pc \notin Writing \cup {"note", "down"} /\ pc' \notin Writing \cup {"note", "down"}
  BY <1>2, <1>3 DEF Writing
<1>5. CASE UNCHANGED <<carried, owed>>
  BY <1>3, <1>4, <1>5, OwedStays
<1>6. CASE /\ carried' = CarryWith({[key |-> k, witnessed |-> 0, putUp |-> TRUE]})
           /\ owed' = {key \in owed \cup ({k} \cap Taken) :
                           Len(history) + 1 <= Earliest(key) + CarryGenerations}
  <2>1. PICK n \in Carriables : /\ n = [key |-> k, witnessed |-> 0, putUp |-> TRUE]
                                /\ n.witnessed = 0
    <3> DEFINE one == [key |-> k, witnessed |-> 0, putUp |-> TRUE]
    <3>1. one \in Carriables /\ one.witnessed = 0
      BY <1>2 DEF Carriables
    <3> HIDE DEF one
    <3>2. \E n \in Carriables : n = one /\ n.witnessed = 0
      BY <3>1
    <3> QED  BY <3>2 DEF one
  <2>2. PICK new \in SUBSET Carriables : new = {n}
    BY <2>1
  <2>3. WitnessedLate(new)
    BY <2>1, <2>2 DEF WitnessedLate
  <2>4. carried \in SUBSET Carriables /\ WitnessedLate(carried) /\ history \in Chains
    BY DEF OwedInv, ChainInv, FollowsChain
  <2>5. PICK s : s = CarryWith(new)
    OBVIOUS
  <2>6. /\ s \in SUBSET Carriables /\ WitnessedLate(s)
        /\ \A each \in carried \cup new :
              each.key \notin KeysOf(history)
              /\ Len(history) + 1 <= Earliest(each.key) + CarryGenerations
                 => \E one \in s : one.key = each.key
    BY <2>2, <2>3, <2>4, <2>5, CarryWithIs
  <2>7. carried' = s
    BY <1>6, <2>1, <2>2, <2>5
  <2>8. \A key \in Taken : \E one \in s : one.key = key
    BY <2>7 DEF Taken
  <2>9. ASSUME NEW key \in owed, Len(history) + 1 <= Earliest(key) + CarryGenerations,
               key \notin KeysOf(history)
        PROVE  \E one \in s : one.key = key
    <3>1. SafeIn(history, key)
      BY <1>3 DEF OwedInv
    <3>2. PICK each \in carried \cup new : each.key = key
      BY <2>9, <3>1 DEF SafeIn
    <3> QED  BY <2>6, <2>9, <3>2
  <2>10. \A key \in owed' : key \in KeysOf(history) \/ \E one \in s : one.key = key
    BY <1>6, <2>8, <2>9
  <2>11. \A key \in owed' : SafeIn(history, key)'
    BY <1>3, <2>7, <2>10 DEF SafeIn, KeysOf
  <2>12. carried' \subseteq Carriables /\ WitnessedLate(carried)'
    BY <2>6, <2>7 DEF WitnessedLate
  <2> QED  BY <1>4, <2>11, <2>12, OwedSafe
<1> QED  BY <1>3, <1>5, <1>6

LEMMA StepOwed ==
  ASSUME ChainInv, PaysInv, OwedInv, [Next]_vars
  PROVE  OwedInv'
<1> DEFINE Same == UNCHANGED <<carried, owed, history, file, genealogy>>
           On == \/ UNCHANGED <<pc, writing>>
                 \/ pc \notin Writing \cup {"note", "down"} /\ pc' \notin Writing \cup {"note", "down"}
<1>1. Same /\ On => OwedInv'
  BY OwedStays
<1>2. UNCHANGED <<chain, carried, owed>> => Same
  BY DEF chain, files
<1>3. CASE UNCHANGED vars
  <2>1. Same /\ On
    BY <1>3 DEF vars, chainVars, files, ghosts
  <2> QED  BY <1>1, <2>1
<1>4. CASE ChainStep
  <2>1. Look \/ NoneAfter \/ OpenHead => Same /\ On
    BY DEF Look, NoneAfter, OpenHead, files, ghosts, Writing
  <2>2. NoneToWeigh => Same /\ On
    BY DEF NoneToWeigh, NextToWeigh, files, ghosts, Writing
  <2>3. GivenUp => Same /\ On
    BY DEF GivenUp, files, ghosts
  <2>4. ASSUME NEW g \in Generations, Arrives(g) \/ KeysCome(g) \/ Evicted(g)
        PROVE  Same /\ On
    BY <2>4 DEF Arrives, KeysCome, Evicted, files, ghosts
  <2>5. ASSUME NEW g \in Generations, NEW p \in Peers, OnHeadTold(p, g)
        PROVE  Same /\ On
    BY <2>5 DEF OnHeadTold, files, ghosts
  <2>6. ASSUME NEW g \in Generations, TakeFound(g)
        PROVE  Same /\ On
    BY <2>6 DEF TakeFound, TakeUp, NextToWeigh, files, ghosts
  <2>7. ASSUME NEW p \in Peers, TakeTold(p)
        PROVE  Same /\ On
    BY <2>7 DEF TakeTold, TakeUp, NextToWeigh, files, ghosts
  <2> HIDE DEF Same, On
  <2> QED
    BY <1>1, <1>4, <2>1, <2>2, <2>3, <2>4, <2>5, <2>6, <2>7, FollowOwed, RootOwed, WeighOwed,
       WriteGenerationOwed, WriteHeadOwed, WriteGenealogyOwed, UnlinkOwed, WriteFailsOwed,
       BeginWeighingOwed, FollowedOwed, OpenOwed DEF ChainStep
<1>5. CASE Ends
  BY <1>5, CrashOwed DEF Ends
<1>6. ASSUME NEW p \in Payments, Pay(p)
      PROVE  Same /\ On
  BY <1>2, <1>6 DEF Pay, ghosts, chain
<1>7. PayOut => Same /\ On
  BY <1>2 DEF PayOut, ghosts, Writing
<1>8. ASSUME NEW key \in Given, OnTransaction(key)
      PROVE  Same /\ On
  BY <1>2, <1>8 DEF OnTransaction, ghosts, Writing
<1>9. MakePayments \/ MakeAgain \/ NotDue \/ NotTaken \/ Clear => Same /\ On
  BY <1>2 DEF MakePayments, MakeAgain, NotDue, NotTaken, Clear, ghosts, Writing
<1>10. taking.back \in {"idle", "clear"}
  BY PaymentsAre DEF PaysInv
<1>11. PutUp => Same /\ On
  BY <1>2, <1>10 DEF PutUp, Writing, ghosts
<1> HIDE DEF Same, On
<1> QED
  BY <1>1, <1>3, <1>4, <1>5, <1>6, <1>7, <1>8, <1>9, <1>11, TakeOwed DEF Next

(* While the module is at rest, each transaction it took to put up, or     *)
(* that was in a chain it left, is in the chain it follows, or carried;    *)
(* but those too old, and those a crash or a failed write may have cost it *)
(* (HeadChanges._follow, CarriedTransactions.carry).                       *)
THEOREM KarmaTransactionsKept == Spec => []TransactionsKept
<1>1. Init => PaysInv /\ ChainInv /\ OwedInv
  BY InitPays, InitChain, InitOwed
<1>2. PaysInv /\ ChainInv /\ OwedInv /\ [Next]_vars => (PaysInv /\ ChainInv /\ OwedInv)'
  BY StepPays, StepChain, StepOwed
<1>3. OwedInv => TransactionsKept
  BY DEF OwedInv, TransactionsKept
<1> QED  BY <1>1, <1>2, <1>3, PTL DEF Spec

=============================================================================
