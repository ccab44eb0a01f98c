----------------------------- MODULE KarmaLedger -----------------------------
(***************************************************************************)
(* The arithmetic of the Karma ledger: balances and the generation each    *)
(* last won, what a transaction block leaves, the reward of a generation's *)
(* winning validation block and how it is shared, the reach of stated      *)
(* balances, and the weight of a chain (karma/ledger.py, karma/weight.py,  *)
(* protocol/karma_balances.py, protocol/karma_amounts.py).                 *)
(*                                                                         *)
(* Every division rounds as the code's does, since a node that rounds      *)
(* otherwise finds the blocks of the others false.                         *)
(***************************************************************************)
EXTENDS Integers, Sequences, FiniteSetsExt

CONSTANTS
    Identities,     (* whoever may hold Kismet, naturals above 0 *)
    NewKismet,      (* the new Kismet each generation issues *)
    Parts,          (* how many parts of a generation an age is counted in *)
    AgeLimitFloor, AgeLimitFactor, StakesPerBlock,
    BaselineMultiple, BaselineGenerations, BaselineFall, WindowDivisor,
    CountedBits,    (* the bits of a drop past which none counts *)
    Terms           (* what each transaction says, by the place it sorts at *)

ASSUME LedgerAssumption ==
    /\ Identities \subseteq Nat \ {0}
    /\ {Parts, AgeLimitFloor, StakesPerBlock, BaselineMultiple, BaselineGenerations,
        BaselineFall, WindowDivisor} \subseteq Nat \ {0}
    /\ CountedBits \in Nat
    /\ \A g \in DOMAIN NewKismet : NewKismet[g] \in Nat
    /\ \A t \in DOMAIN Terms : {Terms[t].from, Terms[t].to} \subseteq Identities

(* The new Karma is taken from no one. *)
New == 0

Given(amounts, i) == IF i \in DOMAIN amounts THEN amounts[i] ELSE 0
Total(amounts) == MapThenSumSet(LAMBDA i : amounts[i], DOMAIN amounts)
AtMost(a, b) == IF a < b THEN a ELSE b
AtLeast(a, b) == IF a < b THEN b ELSE a

-----------------------------------------------------------------------------
(* Balances. *)

(* One holding nothing has never won. *)
Never == -1
NoBalance == [kismet |-> 0, won |-> Never]
Holds(balance) == balance.kismet > 0

Sent(balance, amount) ==
    [kismet |-> balance.kismet - amount,
     won |-> IF amount > 0 /\ amount = balance.kismet THEN Never ELSE balance.won]

(* Rounded up, so that rounding never makes what is held older. *)
Moved(won, kept, amount, g) ==
    -((-(kept * won + amount * g * Parts)) \div (kept + amount))

Received(balance, amount, g) ==
    [kismet |-> balance.kismet + amount,
     won |-> CASE amount = 0 -> balance.won
               [] balance.won = Never -> g * Parts
               [] OTHER -> Moved(balance.won, balance.kismet, amount, g)]

-----------------------------------------------------------------------------
(* What a transaction block leaves. *)

KeyOf(t) == <<Terms[t].from, Terms[t].moment>>
Sends(t) == Terms[t].amount + Terms[t].fee
Free(t) == Terms[t].fee = 0
SentBy(i, some) == {t \in some : Terms[t].from = i}

Named(some, payout) ==
    {Terms[t].from : t \in some} \cup {Terms[t].to : t \in some}
        \cup (DOMAIN payout.from \ {New}) \cup DOMAIN payout.to

(* The balances a block's transactions are checked against: its payout is  *)
(* applied first, and a staker it pays has won the generation before.      *)
Checked(some, payout, before, stakers, g) ==
    [i \in Named(some, payout) |->
        LET left == Sent(before[i], Given(payout.from, i))
        IN  IF i \in DOMAIN payout.to /\ i \in stakers
            THEN [kismet |-> left.kismet + payout.to[i], won |-> (g - 1) * Parts]
            ELSE Received(left, Given(payout.to, i), g - 1)]

Spends(i, some) == MapThenSumSet(Sends, SentBy(i, some))
Overspent(some, checked) ==
    {i \in {Terms[t].from : t \in some} : Spends(i, some) > checked[i].kismet}

(* Its fee is left with the sender, for the next block's payout to take.   *)
After(some, checked, g) ==
    LET Amount(t) == Terms[t].amount
        valid == {t \in some : Terms[t].from \notin Overspent(some, checked)}
    IN  [i \in DOMAIN checked |->
            Received(Sent(checked[i], MapThenSumSet(Amount, SentBy(i, valid))),
                     MapThenSumSet(Amount, {t \in valid : Terms[t].to = i}), g - 1)]

HoldersAfter(holders, checked, after) ==
    holders - Cardinality({i \in DOMAIN checked : Holds(checked[i])})
            + Cardinality({i \in DOMAIN after : Holds(after[i])})

(* How many blocks back, from the newest, every holder is stated.           *)
Reach(stated) ==
    Max({0} \cup {n \in 0..(Len(stated) - 1) :
        \E i \in DOMAIN stated[n + 1] :
            /\ Holds(stated[n + 1][i])
            /\ \A m \in 1..n : i \notin DOMAIN stated[m]})

-----------------------------------------------------------------------------
(* What a stake counts for, and the reward. *)

AgeLimit(holders) == AtLeast(AgeLimitFloor, (AgeLimitFactor * holders) \div StakesPerBlock)

Age(balance, g, limit) ==
    IF balance.won = Never THEN 0 ELSE AtMost(g * Parts - balance.won, limit * Parts)

Stakers(stakes) == {stake.staker : stake \in stakes}
Stakes(i, stakes) ==
    MapThenSumSet(LAMBDA stake : stake.kismet, {stake \in stakes : stake.staker = i})

EffectiveStakes(stakes, balances, g, limit) ==
    [i \in Stakers(stakes) |-> (Stakes(i, stakes) * Age(balances[i], g, limit)) \div Parts]

(* Mutant: a staker on both sides gives up its stakes on the other.        *)
Pot_BothSides(g, fees, stakes, others) ==
    LET Gives(i) == Stakes(i, others) + (IF i = New THEN NewKismet[g] ELSE 0)
                        + MapThenSumSet(LAMBDA t : Terms[t].fee, SentBy(i, fees))
    IN  [i \in {j \in Identities \cup {New} : Gives(j) > 0} |-> Gives(i)]

(* Whom the reward is taken from: the new Karma, the senders of fees, and  *)
(* the runner-up's stakers that do not stake on the winning side.          *)
Pot(g, fees, stakes, others) ==
    LET Gives(i) == (IF i \in Stakers(stakes) THEN 0 ELSE Stakes(i, others))
                        + (IF i = New THEN NewKismet[g] ELSE 0)
                        + MapThenSumSet(LAMBDA t : Terms[t].fee, SentBy(i, fees))
    IN  [i \in {j \in Identities \cup {New} : Gives(j) > 0} |-> Gives(i)]

(* Mutant: what rounding leaves over is paid to no one. *)
Shares_Rounded(pot, effective, builder) ==
    LET counted == IF Total(effective) = 0 THEN [i \in DOMAIN effective |-> 1] ELSE effective
        Share(i) == (Total(pot) * Given(counted, i)) \div Total(counted)
    IN  [i \in {j \in DOMAIN effective : Share(j) > 0} |-> Share(i)]

(* Whom it pays, by effective stake, what is left over to the builder. *)
Shares(pot, effective, builder) ==
    LET counted == IF Total(effective) = 0 THEN [i \in DOMAIN effective |-> 1] ELSE effective
        all == Total(counted)
        Share(i) == (Total(pot) * Given(counted, i)) \div all
        left == Total(pot) - MapThenSumSet(Share, DOMAIN effective)
        Pays(i) == Share(i) + (IF i = builder THEN left ELSE 0)
    IN  [i \in {j \in DOMAIN effective \cup {builder} : Pays(j) > 0} |-> Pays(i)]

-----------------------------------------------------------------------------
(* The weight of a chain. *)

DropWeight(bits) == 2 ^ AtMost(bits, CountedBits)

(* Only the root's validation block holds no stake, which counts once. *)
ValidationWeight(bits, stake) == DropWeight(bits) * AtLeast(stake, 1)

Counted(baseline, stake) ==
    IF baseline = 0 THEN stake ELSE AtMost(stake, BaselineMultiple * baseline)

BaselineAfter(baseline, stake, g) ==
    LET counted == Counted(baseline, stake)
        grown == AtMost(BaselineGenerations, (g \div WindowDivisor) + 1)
        window == IF counted < baseline THEN AtLeast(grown, BaselineFall) ELSE grown
    IN  IF baseline = 0 THEN counted ELSE baseline + ((counted - baseline) \div window)
=============================================================================
