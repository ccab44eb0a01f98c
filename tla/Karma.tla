-------------------------------- MODULE Karma --------------------------------
(***************************************************************************)
(* The Karma module of a Libranet node: the chain it follows (KarmaChain), *)
(* and the transactions it puts up: those people give it, and its own      *)
(* payments, queued in a file and made into one transaction now and then   *)
(* (karma/module.py, payments.py, putting.py, protocol/karma_payments.py). *)
(*                                                                         *)
(* A payment is cut where a file is written.  A transaction of the node's  *)
(* is known by its key, which is when it was created.                      *)
(***************************************************************************)
EXTENDS KarmaChain, FiniteSets

CONSTANTS
    Payments,   (* the payments the node is to make *)
    Given,      (* the transactions people give it, by their keys *)
    Moments,    (* when the node's own transactions may be created *)
    Batch,      (* payment_batch *)
    Starts      (* how the runs start: what is held, followed, and may happen *)

ASSUME PaymentsAssumption ==
    /\ Given \cap Moments = {} /\ Given \cup Moments \subseteq Transactions
    /\ Moments \subseteq Nat \ {0}
    /\ Batch \in Nat \ {0}
    /\ \A start \in Starts : start.history \in Chains

VARIABLES
    payments,  (* payments.json *)
    taking,    (* the transaction being taken to put up *)
    (* History variables. *)
    asked,     (* the payments there have been *)
    made       (* the transactions signed, and the payments in each *)

vars == <<chainVars, payments, taking, asked, made>>

chain == <<files, history, writing, heads>>

NotTaking == [key |-> 0, pays |-> {}, back |-> "idle"]
NoPayments == [queue |-> {}, last |-> 0, kept |-> 0, pays |-> {}]

Init ==
    \E start \in Starts :
        /\ held = start.held /\ backed = start.backed
        /\ seen = Transactions \ Moments
        /\ may = start.may
        /\ history = start.history /\ genealogy = start.history
        /\ file = [i \in 1..Longest |->
                     IF i \in DOMAIN start.history THEN start.history[i] ELSE NoGeneration]
        /\ headFile = HeadOf(start.history) /\ noted = HeadOf(start.history)
        /\ carried = {}
        /\ pc = "idle" /\ writing = NothingWritten /\ claim = NoClaim
        /\ told = [p \in Peers |-> NoGeneration]
        /\ queue = {} /\ weighed = {} /\ gaveUp = {} /\ owed = {} /\ torn = FALSE
        /\ payments = NoPayments /\ taking = NotTaking /\ asked = {} /\ made = {}

-----------------------------------------------------------------------------
(* Paying. *)

(* A payment is queued, to a peer that sent what was asked for, say. *)
Pay(p) ==
    /\ pc = "idle"
    /\ history # <<>>
    /\ p \notin asked
    /\ May("payments")
    /\ asked' = asked \cup {p}
    /\ payments' = [payments EXCEPT !.queue = @ \cup {p}]
    /\ UNCHANGED <<world, chain, carried, ghosts, pc, taking, made>>

(* The next is created now, or a second after the last. *)
NextCreated == {c \in Moments : c > payments.last}

(* The operator pays, at once, as a transaction of its own. *)
PayOut ==
    /\ pc = "idle"
    /\ May("payouts")
    /\ \E created \in NextCreated :
          /\ payments' = [payments EXCEPT !.last = created]
          /\ taking' = [key |-> created, pays |-> {}, back |-> "idle"]
    /\ pc' = "take"
    /\ UNCHANGED <<world, chain, carried, ghosts, asked, made>>

(* A person gives a transaction signed. *)
OnTransaction(key) ==
    /\ pc = "idle"
    /\ May("given")
    /\ taking' = [key |-> key, pays |-> {}, back |-> "idle"]
    /\ pc' = "take"
    /\ UNCHANGED <<world, chain, carried, ghosts, payments, asked, made>>

(* At the end of a look, the queue is made one transaction, if it is due, *)
(* and that is kept in its place.                                          *)
Due ==
    \/ Cardinality(payments.queue) >= Batch
    \/ payments.last = 0

MakePayments ==
    /\ pc = "pay"
    /\ payments.kept = 0
    /\ payments.queue # {}
    /\ \E created \in NextCreated :
          /\ payments' = [queue |-> {}, last |-> created, kept |-> created,
                          pays |-> payments.queue]
          /\ taking' = [key |-> created, pays |-> payments.queue, back |-> "clear"]
    /\ pc' = "take"
    /\ UNCHANGED <<world, may, chain, carried, ghosts, asked, made>>

(* Mutant: one kept is mined again as a transaction created now. *)
MakeAgain_Anew ==
    /\ pc = "pay"
    /\ payments.kept # 0
    /\ \E created \in NextCreated :
          /\ payments' = [payments EXCEPT !.last = created, !.kept = created]
          /\ taking' = [key |-> created, pays |-> payments.pays, back |-> "clear"]
    /\ pc' = "take"
    /\ UNCHANGED <<world, may, chain, carried, ghosts, asked, made>>

(* One kept is mined again, with the same key. *)
MakeAgain ==
    /\ pc = "pay"
    /\ payments.kept # 0
    /\ taking' = [key |-> payments.kept, pays |-> payments.pays, back |-> "clear"]
    /\ pc' = "take"
    /\ UNCHANGED <<world, may, chain, carried, ghosts, payments, asked, made>>

(* Those queued are not due before the interval has passed, or cannot be *)
(* written.                                                              *)
NotDue ==
    /\ pc = "pay"
    /\ payments.kept = 0
    /\ \/ payments.queue = {} /\ UNCHANGED may
       \/ payments.queue # {} /\ ~Due /\ UNCHANGED may
       \/ payments.queue # {} /\ May("failures")
    /\ pc' = "put"
    /\ UNCHANGED <<world, chain, carried, ghosts, payments, taking, asked, made>>

-----------------------------------------------------------------------------
(* Taking a transaction to put up. *)

Taken == {key \in Transactions : \E each \in carried' : each.key = key}

(* It is carried, unless the chain holds its key. *)
Take ==
    /\ pc = "take"
    /\ made' = made \cup {[key |-> taking.key, pays |-> taking.pays]}
    /\ IF taking.key \in KeysOf(history)
       THEN pc' = taking.back /\ UNCHANGED <<carried, owed>>
       ELSE /\ carried' = CarryWith({[key |-> taking.key, witnessed |-> 0, putUp |-> TRUE]})
            /\ owed' = {key \in owed \cup ({taking.key} \cap Taken) :
                            Len(history) + 1 <= Earliest(key) + CarryGenerations}
            /\ pc' = IF taking.key \in Taken THEN "putTaken" ELSE taking.back
    /\ taking' = IF pc' = "putTaken" THEN taking ELSE NotTaking
    /\ UNCHANGED <<world, may, chain, payments, asked, torn>>

(* It cannot be mined, the key of its sender is not held, or it cannot be *)
(* carried.                                                               *)
NotTaken ==
    /\ pc = "take"
    /\ May("failures")
    /\ pc' = IF taking.back = "clear" THEN "put" ELSE "idle"
    /\ taking' = NotTaking
    /\ UNCHANGED <<world, chain, carried, ghosts, payments, asked, made>>

(* What is carried to be put up is, as a block of its own, where it is valid. *)
ToPutUp == {each.key : each \in {one \in CarriedAt(carried, history) : one.putUp}}

PutUp ==
    /\ pc \in {"putTaken", "put"}
    /\ \E valid \in SUBSET ToPutUp :
          /\ history = <<>> => valid = {}
          /\ seen' = seen \cup valid
    /\ pc' = IF pc = "putTaken" THEN taking.back ELSE "idle"
    /\ taking' = NotTaking
    /\ UNCHANGED <<held, backed, may, chain, carried, ghosts, payments, asked, made>>

(* The payments put up are kept no more, unless that cannot be written. *)
Clear ==
    /\ pc = "clear"
    /\ \/ payments' = [payments EXCEPT !.kept = 0, !.pays = {}] /\ UNCHANGED may
       \/ May("failures") /\ UNCHANGED payments
    /\ pc' = "put"
    /\ UNCHANGED <<world, chain, carried, ghosts, taking, asked, made>>

-----------------------------------------------------------------------------
ChainStep ==
    /\ \/ \E g \in Generations :
             \/ Arrives(g) \/ KeysCome(g) \/ Evicted(g) \/ OnRootRequested(g) \/ TakeFound(g)
             \/ \E p \in Peers : OnHeadTold(p, g)
       \/ \E p \in Peers : TakeTold(p)
       \/ GivenUp
       \/ WriteGeneration \/ WriteGenealogy \/ WriteHead \/ Unlink \/ WriteFails
       \/ Look \/ Follow \/ BeginWeighing \/ NoneToWeigh \/ Weigh \/ Followed \/ NoneAfter
       \/ Open \/ OpenHead
    /\ UNCHANGED <<payments, taking, asked, made>>

Ends == Crash /\ taking' = NotTaking /\ UNCHANGED <<payments, asked, made>>

Next ==
    \/ ChainStep
    \/ Ends
    \/ \E p \in Payments : Pay(p)
    \/ PayOut
    \/ \E key \in Given : OnTransaction(key)
    \/ MakePayments \/ MakeAgain \/ NotDue \/ Take \/ NotTaken \/ PutUp \/ Clear

Spec == Init /\ [][Next]_vars

-----------------------------------------------------------------------------
(* Properties. *)

(* A restart at any moment, a write cut short included, finds the chain      *)
(* followed, or as far as the one it is changing to shares it; and head.json *)
(* names its head but while the history is written (ChainHistory.replace).   *)
(* Not so once a write has failed, as its docstring says.                    *)
Recovers ==
    ~torn /\ pc # "down" =>
        LET writes == pc \in {"files", "genealogy"}
            shared == IF writes THEN SubSeq(history, 1, writing.first) ELSE history
        IN  /\ IsPrefix(shared, Recovered) /\ IsPrefix(Recovered, history)
            /\ pc \notin Writing \cup {"opened"} => headFile = HeadOf(history)

(* A head weighed and not followed, whose chain is correct, is no heavier    *)
(* than the chain followed, though it is not weighed again as that changes:  *)
(* "a head found lighter ... is so still" (HeadChanges).                     *)
FoundLighterStays ==
    \A g \in weighed \ gaveUp : ToSet(Path[g]) \subseteq Correct => Weight[g] <= Weighs(history)

(* While the module is at rest, each transaction it took to put up, or that  *)
(* was in a chain it left, is in the chain it follows, or carried; but those *)
(* too old, and those a crash or a failed write may have cost it             *)
(* (HeadChanges._follow, CarriedTransactions.carry).                         *)
TransactionsKept == pc = "idle" => \A key \in owed : SafeIn(history, key)

(* Each payment queued is in the queue, or kept, or made into a transaction, *)
(* and in one of these only, whatever crashes: no two transactions of        *)
(* different payments share a key, and no payment is in two transactions     *)
(* (NodePayments: the node "never pays twice").                              *)
PaidOnce ==
    /\ \A one, other \in made : one.key = other.key \/ one.pays \cap other.pays # {} => one = other
    /\ \A one \in made : one.pays \cap payments.queue = {}
    /\ payments.pays \cap payments.queue = {}
    /\ asked = payments.queue \cup payments.pays \cup UNION {one.pays : one \in made}

=============================================================================
