----------------------------- MODULE KarmaBlocks -----------------------------
(***************************************************************************)
(* The blocks of a Karma chain: what a transaction block built on a        *)
(* validation block states, which transactions a builder takes, which      *)
(* stakes a validation block takes, and what a node finds as it checks a   *)
(* block (karma/blocks.py, karma/checking.py, karma/building.py,           *)
(* karma/staking.py, karma/validating.py, karma/putting.py).               *)
(*                                                                         *)
(* A block is a value that holds the one it is built on, or validates. It  *)
(* is named by what it holds. What a node finds as it checks a block       *)
(* depends on that block, and on the chain it is built on, alone: it is    *)
(* worked out as the block is placed, and kept with it as "found". What a  *)
(* block built on a validation block must state is kept with that one, as  *)
(* "leaves". A block is as large as it has entries, its payout among them. *)
(***************************************************************************)
EXTENDS KarmaLedger, SequencesExt

CONSTANTS
    EntriesPerHolder,   (* how many each holder asks for before a block is full *)
    MostEntries,        (* the most a block may hold *)
    Room                (* how many fewer it may hold and still be full *)

ASSUME BlocksAssumption ==
    /\ MostEntries \in Nat \ {0, 1}
    /\ Room \in 0..MostEntries
    /\ EntriesPerHolder \in Nat

NoBlock == [builder |-> 0]
NoPayout == [from |-> <<>>, to |-> <<>>]

(* The order ids sort in is any one: here, by the builder first. *)
SortsFirst(a, b) ==
    \E n \in DOMAIN a : a[n] < b[n] /\ SubSeq(a, 1, n - 1) = SubSeq(b, 1, n - 1)

-----------------------------------------------------------------------------
(* What a block built on a validation block is checked against. *)

(* The balances the blocks of the chain state, the newest first, through a  *)
(* transaction block, as far back as a number of blocks before it.          *)
RECURSIVE StatedBack(_, _)
StatedBack(block, back) ==
    <<block.balances>> \o
        (IF back = 0 \/ block.previous = NoBlock THEN <<>>
         ELSE StatedBack(block.previous.validated, back - 1))

Latest(stated) ==
    [i \in Identities |->
        LET stating == {n \in DOMAIN stated : i \in DOMAIN stated[n]}
        IN  IF stating = {} THEN NoBalance ELSE stated[Min(stating)][i]]

(* Each identity's balance as a transaction block leaves it. *)
BalancesLeft(block) == Latest(StatedBack(block, block.reach))

EffectiveIn(validation, balances) ==
    EffectiveStakes(validation.stakes, balances, validation.generation,
                    validation.validated.limit)

RunnerUpStakes(validation) ==
    IF validation.runner_up = NoBlock THEN {} ELSE validation.runner_up.stakes

(* The keys in the chain, and the transactions its validation blocks list. *)
KeysThrough(block) ==
    {[key |-> KeyOf(t), generation |-> block.generation] : t \in block.txs} \cup
        (IF block.previous = NoBlock THEN {} ELSE block.previous.leaves.keys)
WitnessedThrough(validation) ==
    {[tx |-> t, generation |-> validation.generation] : t \in validation.witnessed} \cup
        (IF validation.validated.previous = NoBlock THEN {}
         ELSE validation.validated.previous.leaves.witnessed)

Payout(validation, effective) ==
    LET pot == Pot(validation.generation, validation.validated.txs, validation.stakes,
                   RunnerUpStakes(validation))
    IN  [from |-> pot, to |-> Shares(pot, effective, validation.builder)]

(* What a chain that left some balances leaves to the block built on its    *)
(* last validation block, which rewards some stakes.                        *)
ChainLeaving(validation, balances, stake, payout) ==
    LET block == validation.validated
    IN  [generation |-> validation.generation + 1,
         weight |-> block.weight + DropWeight(block.bits)
                        + ValidationWeight(validation.bits, Counted(block.baseline, stake)),
         baseline |-> BaselineAfter(block.baseline, stake, validation.generation),
         balances |-> balances,
         stakers |-> Stakers(validation.stakes),
         payout |-> payout,
         paid |-> Checked({}, payout, balances, Stakers(validation.stakes),
                          validation.generation + 1) @@ balances,
         stated |-> StatedBack(block, block.reach),
         keys |-> KeysThrough(block),
         witnessed |-> WitnessedThrough(validation)]

ChainRewarding(validation, balances, effective) ==
    ChainLeaving(validation, balances, Total(effective), Payout(validation, effective))

ChainBefore(validation, balances) ==
    ChainRewarding(validation, balances, EffectiveIn(validation, balances))

HoldersOn(before) == Cardinality({i \in Identities : Holds(before.paid[i])})

(* Mutant: a key is held only by a transaction of the very generation. *)
InChain_Exact(t, before) ==
    \E held \in before.keys : held.key = KeyOf(t) /\ held.generation = Terms[t].generation

(* From the generation a transaction names on. *)
InChain(t, before) ==
    \E held \in before.keys : held.key = KeyOf(t) /\ held.generation >= Terms[t].generation

CheckedOn(some, before) ==
    Checked(some, before.payout, before.balances, before.stakers, before.generation)

-----------------------------------------------------------------------------
(* How large a full block is, and what it is found to be. *)

FullAbove(holders) == AtMost(MostEntries - Room, holders * EntriesPerHolder)
Size(block) == Cardinality(block.txs) + 1
IsFull(size, holders) == FullAbove(holders) < size /\ size <= MostEntries
HalfFree(some) == 2 * Cardinality({t \in some : Free(t)}) >= Cardinality(some)

(* What of a transaction block is false, in itself or of its chain.         *)
FalseStatement(block, before, checked, after) ==
    \/ ~(DOMAIN after \subseteq DOMAIN block.balances)
    \/ \E i \in DOMAIN block.balances : block.balances[i] # (after @@ before.balances)[i]
    \/ block.limit # AgeLimit(HoldersAfter(HoldersOn(before), checked, after))

(* In itself: every transaction moves something, under a key of its own.    *)
FalseInItself(block) ==
    \/ \E t, u \in block.txs : t # u /\ KeyOf(t) = KeyOf(u)
    \/ \E t \in block.txs : Sends(t) = 0
    \/ Cardinality(DOMAIN block.balances) > 2 * Cardinality(Named(block.txs, block.payout))

(* Of the chain it is built on, and of how far back its balances are stated. *)
FalseBasis(block, before) ==
    \/ block.weight # before.weight
    \/ block.baseline # before.baseline
    \/ block.payout # before.payout
    \/ block.reach # Reach(<<block.balances>> \o before.stated)

FalseOn(block, before, checked) ==
    \/ FalseInItself(block)
    \/ FalseBasis(block, before)
    \/ \E t \in block.txs : InChain(t, before)
    \/ Overspent(block.txs, checked) # {}
    \/ FalseStatement(block, before, checked, After(block.txs, checked, before.generation))

IncorrectOn(block, before) ==
    \/ ~HalfFree(block.txs)
    \/ \E t \in block.txs : Terms[t].generation > before.generation
    \/ \E i \in DOMAIN block.balances :
           ~Holds(block.balances[i]) /\ i \notin Named(block.txs, block.payout)

(* "combines" is correct but perhaps for being full, as a builder takes it  *)
(* to hold its transactions.                                                *)
TransactionBlockFound(block) ==
    LET before == block.previous.leaves
        full == IsFull(Size(block), HoldersOn(before))
        rest == ~IncorrectOn(block, before)
    IN  [false |-> FalseOn(block, before, CheckedOn(block.txs, before)),
         full |-> full,
         combines |-> rest /\ Size(block) <= MostEntries,
         correct |-> full /\ rest]

(* The average generation its transactions were witnessed in, as a fraction. *)
WitnessedIn(t, block) ==
    LET listed == {each.generation : each \in {one \in block.previous.leaves.witnessed : one.tx = t}}
    IN  Min(listed \cup {block.generation})
AgeOf(block) ==
    IF block.txs = {} THEN <<block.generation, 1>>
    ELSE <<MapThenSumSet(LAMBDA t : WitnessedIn(t, block), block.txs), Cardinality(block.txs)>>

(* More bits, then a shorter reach, then older transactions, then its id.   *)
BetterBlock(a, b) ==
    LET older == AgeOf(a)[1] * AgeOf(b)[2]
        newer == AgeOf(b)[1] * AgeOf(a)[2]
    IN  \/ a.bits > b.bits
        \/ a.bits = b.bits /\ a.reach < b.reach
        \/ a.bits = b.bits /\ a.reach = b.reach /\ older < newer
        \/ a.bits = b.bits /\ a.reach = b.reach /\ older = newer /\ SortsFirst(a.id, b.id)

-----------------------------------------------------------------------------
(* The transaction block a builder fills. *)

(* Those that may be valid in a block, one of each key: a transaction is    *)
(* named by the place it sorts at, those of most bits first.                *)
ValidOn(offered, before) ==
    LET may == {t \in offered : /\ Sends(t) > 0
                                /\ Terms[t].generation <= before.generation
                                /\ ~InChain(t, before)}
    IN  {t \in may : \A u \in may : KeyOf(u) = KeyOf(t) => t <= u}

(* Mutant: what its sender paid before is not counted. *)
Covered_Alone(t, taken, before) == Sends(t) <= before.paid[Terms[t].from].kismet

Covered(t, taken, before) ==
    Spends(Terms[t].from, ToSet(taken) \cup {t}) <= before.paid[Terms[t].from].kismet

(* A paid one is taken each time more free ones than paid have been. *)
RECURSIVE Takes(_, _, _, _)
Takes(free, paid, taken, before) ==
    LET fromPaid == paid # <<>> /\ 2 * Len(SelectSeq(taken, Free)) > Len(taken)
        queue == IF fromPaid THEN paid ELSE free
    IN  IF queue = <<>> THEN taken
        ELSE Takes(IF fromPaid THEN free ELSE Tail(free), IF fromPaid THEN Tail(paid) ELSE paid,
                   IF Covered(Head(queue), taken, before) THEN Append(taken, Head(queue)) ELSE taken,
                   before)

TakenOn(offered, before) ==
    LET valid == ValidOn(offered, before)
        SmallestFirst(t, u) == t < u
        LargestFeeFirst(t, u) ==
            Terms[t].fee > Terms[u].fee \/ (Terms[t].fee = Terms[u].fee /\ t < u)
    IN  Takes(SetToSortSeq({t \in valid : Free(t)}, SmallestFirst),
              SetToSortSeq({t \in valid : ~Free(t)}, LargestFeeFirst), <<>>, before)

(* The balances that are not stated, of those stated longest ago, all of as *)
(* long ago together, while there is room for them.                         *)
Shortening(stated, room, before) ==
    LET Back(i) == Min({n \in DOMAIN before.stated : i \in DOMAIN before.stated[n]})
        idle == {i \in Identities \ DOMAIN stated : Holds(before.balances[i])}
        SinceBack(n) == {i \in idle : Back(i) >= n}
        fits == {n \in DOMAIN before.stated : Cardinality(SinceBack(n)) <= room}
    IN  IF fits = {} THEN {} ELSE SinceBack(Min(fits))

(* What a block states, of what its transactions leave: everything as it is. *)
Stated(after, before, shortens) ==
    after @@ [i \in IF shortens THEN Shortening(after, Cardinality(DOMAIN after), before) ELSE {} |->
                 before.balances[i]]

(* The block of some transactions. *)
BlockStating(some, head, builder, bits, stated, holders) ==
    LET before == head.leaves
    IN  [builder |-> builder, previous |-> head, generation |-> before.generation,
         weight |-> before.weight, baseline |-> before.baseline,
         reach |-> Reach(<<stated>> \o before.stated), limit |-> AgeLimit(holders),
         txs |-> some, payout |-> before.payout, balances |-> stated, bits |-> bits,
         id |-> <<builder, MapThenSumSet(LAMBDA t : 2 ^ t, some), bits>> \o head.id]

BlockLeaving(some, head, builder, bits, shortens, checked, after) ==
    BlockStating(some, head, builder, bits, Stated(after, head.leaves, shortens),
                 HoldersAfter(HoldersOn(head.leaves), checked, after))

BlockOf(some, head, builder, bits, shortens, checked) ==
    BlockLeaving(some, head, builder, bits, shortens, checked,
                 After(some, checked, head.leaves.generation))

Placed(some, head, builder, bits, shortens) ==
    {made @@ [found |-> TransactionBlockFound(made)] :
        made \in {BlockOf(some, head, builder, bits, shortens, CheckedOn(some, head.leaves))}}

-----------------------------------------------------------------------------
(* Validation blocks. *)

(* What covers a staker's stakes: its Kismet, less its fees in the block.   *)
Fees(i, some) == MapThenSumSet(LAMBDA t : Terms[t].fee, SentBy(i, some))
Covering(i, block) == BalancesLeft(block)[i].kismet - Fees(i, block.txs)

(* Of each staker's the largest first, while what covers it covers them.    *)
RECURSIVE TakesStakes(_, _, _)
TakesStakes(left, taken, block) ==
    IF left = {} THEN taken
    ELSE LET first == CHOOSE s \in left : \A o \in left :
                          s.kismet > o.kismet \/ (s.kismet = o.kismet /\ s.made <= o.made)
             of == Stakes(first.staker, taken) + first.kismet
         IN  TakesStakes(left \ {first},
                         IF of <= Covering(first.staker, block) THEN taken \cup {first} ELSE taken,
                         block)

(* Mutant: a stake is taken if its own Kismet are covered. *)
StakesTaken_Each(offered, block) ==
    {stake \in offered : stake.kismet <= Covering(stake.staker, block)}

StakesTaken(offered, block) == TakesStakes(offered, {}, block)

(* Whether each gives up no more than it holds to the reward of some stakes *)
(* on a block, with a runner-up's.                                          *)
RewardCovered(block, stakes, others) ==
    LET balances == BalancesLeft(block)
        pot == Pot(block.generation, block.txs, stakes, others)
    IN  \A i \in DOMAIN pot \ {New} : pot[i] <= balances[i].kismet

(* Whether its stakes, or its runner-up's, are more than what each has less *)
(* the reward covers.                                                       *)
FalseCover(validation, left) ==
    \/ \E stake \in validation.stakes : stake.kismet > left[stake.staker]
    \/ \E i \in Stakers(validation.stakes) : Stakes(i, validation.stakes) > left[i]
    \/ \E i \in Identities : left[i] < 0

FalseWitness(validation) ==
    \E t \in validation.witnessed :
        \E each \in validation.validated.previous.leaves.witnessed : each.tx = t

(* What of a validation block is false, of what each has less the reward. *)
FalseTaking(validation, block, left) ==
    \/ validation.stakes = {}
    \/ \E stake \in validation.stakes : stake.on # block.id \/ stake.kismet = 0
    \/ block.found.false
    \/ block.found.full /\ ~block.found.correct
    \/ FalseCover(validation, left)
    \/ validation.runner_up # NoBlock /\
           (\/ validation.runner_up.validated = block
            \/ validation.runner_up.validated.previous # block.previous)
    \/ FalseWitness(validation)

Less(balances, pot) == [i \in Identities |-> balances[i].kismet - Given(pot, i)]

FalseValidation(validation, balances) ==
    FalseTaking(validation, validation.validated,
                Less(balances, Pot(validation.generation, validation.validated.txs,
                                   validation.stakes, RunnerUpStakes(validation))))

ValidationBlockFound(validation) ==
    [false |-> FalseValidation(validation, BalancesLeft(validation.validated)),
     correct |-> validation.validated.found.correct]

ValidationOf(block, stakes, runnerUp, witnesses, builder, bits) ==
    [builder |-> builder, generation |-> block.generation, validated |-> block, stakes |-> stakes,
     runner_up |-> runnerUp, witnessed |-> witnesses, bits |-> bits,
     id |-> <<builder, MapThenSumSet(LAMBDA s : s.kismet, stakes), Cardinality(stakes)>> \o block.id]

(* Its total effective stake. *)
StakeIn(validation) ==
    Total(EffectiveIn(validation, BalancesLeft(validation.validated)))

PlacedValidation(validation) ==
    {made @@ [found |-> ValidationBlockFound(made), leaves |-> ChainBefore(made, BalancesLeft(made.validated)),
              stake |-> StakeIn(made)] : made \in {validation}}

(* A root is checked by its shape alone, and need not be full.               *)
RootFound == [false |-> FALSE, full |-> FALSE, combines |-> TRUE, correct |-> TRUE]

(* The root states its creator holding nothing, and holds a stake of 0. Its *)
(* one transaction, which moves nothing, is left out.                       *)
RootBlock(creator) ==
    [builder |-> creator, previous |-> NoBlock, generation |-> 0, weight |-> 0, baseline |-> 0,
     reach |-> 0, limit |-> AgeLimitFloor, txs |-> {}, payout |-> NoPayout,
     balances |-> (creator :> NoBalance), bits |-> 0, id |-> <<creator>>,
     found |-> RootFound]
RootStake(creator) == [staker |-> creator, on |-> <<creator>>, kismet |-> 0, made |-> 0]
Root(creator) ==
    LET made == ValidationOf(RootBlock(creator), {RootStake(creator)}, NoBlock, {}, creator, 0)
    IN  made @@ [found |-> [false |-> FALSE, correct |-> TRUE], leaves |-> ChainBefore(made, BalancesLeft(made.validated)),
                 stake |-> 0]

(* What it adds to the weight of its chain, then its stake, its bits, its id. *)
AddsWeight(validation) == validation.leaves.weight - validation.validated.weight
BetterValidation(a, b) ==
    LET scoreA == <<-AddsWeight(a), -a.stake, -a.bits>> \o a.id
        scoreB == <<-AddsWeight(b), -b.stake, -b.bits>> \o b.id
    IN  SortsFirst(scoreA, scoreB)
=============================================================================
