--------------------------- MODULE KarmaGeneration ---------------------------
(***************************************************************************)
(* How the nodes of a network build the generations of a Karma chain: each *)
(* puts up the transactions it is given, combines the blocks it holds into *)
(* one, stakes on the best full block, takes the stakes of others,         *)
(* validates, follows the best validation block, and shuns the blocks      *)
(* that another holds all of (karma/module.py, karma/building.py,          *)
(* karma/staking.py, karma/following.py, karma/putting.py).                *)
(*                                                                         *)
(* A handler of a node is one step, as it runs on one thread: each part of *)
(* it is an operator from a node's state to the set of those it may leave, *)
(* which the next part is applied to. How heads are weighed and changed in *)
(* detail is KarmaChain's, and how payments come to be Karma's.            *)
(***************************************************************************)
EXTENDS KarmaBlocks

CONSTANTS
    Nodes,          (* each known by its identity *)
    Mining,         (* those that combine blocks, and take the stakes of others *)
    Distrusted,     (* whom each distrusts *)
    StakePercent,   (* what of its Kismet each stakes *)
    Combine,        (* how many transactions are combined though not full *)
    Starts          (* the states a network is met in *)

ASSUME NodesAssumption ==
    /\ Nodes \subseteq Identities
    /\ Mining \subseteq Nodes
    /\ Distrusted \in [Nodes -> SUBSET Identities]
    /\ StakePercent \in [Nodes -> 0..100]
    /\ Combine \in Nat \ {0}

VARIABLES
    nodes,  (* what each node holds and remembers *)
    start,  (* the state the network was met in *)
    may     (* how many more there may be of each kind of event *)

vars == <<nodes, start, may>>

May(event) == may[event] > 0 /\ may' = [may EXCEPT ![event] = @ - 1]

(* What a node remembers of a head: the blocks it has read at its target    *)
(* that are not full, the transactions they and others hold, the keys of    *)
(* those it tried to put up, its own stakes, those given, the full blocks it last staked   *)
(* with, and what it last combined.                                         *)
Nothing == [seen |-> {}, offered |-> {}, tried |-> {}, own |-> {}, given |-> {}, builtOn |-> {},
            builtOf |-> [txs |-> {}, blocks |-> {}, ever |-> FALSE]]

-----------------------------------------------------------------------------
(* What a node holds and finds at the targets of its head. *)

KeysHeld(some, node) == some \cap node.lacks = {}
Senders(block) == {Terms[t].from : t \in block.txs}
Checkable(block, node) == KeysHeld(Senders(block) \cup {block.builder}, node)

HeldAt(node) == {block \in node.blocks : block.previous = node.head}
HeldOn(node) ==
    {validation \in node.validations : validation.validated.previous = node.head}

(* A block may be checked once the keys of all in it are held, and what it *)
(* validates and takes is.                                                 *)
CheckedOnHead(node) ==
    {validation \in HeldOn(node) :
        /\ KeysHeld(Stakers(validation.stakes) \cup {validation.builder}, node)
        /\ validation.validated \in node.blocks
        /\ Checkable(validation.validated, node)
        /\ validation.runner_up = NoBlock \/ validation.runner_up \in node.validations
        /\ ~validation.found.false}

FullAt(node) ==
    {block \in HeldAt(node) :
        block.found.full /\ ~block.found.false /\ Checkable(block, node)}

(* Correct, but perhaps for being full. *)
Combines(block, node) ==
    block.found.combines /\ ~block.found.false /\ Checkable(block, node)

-----------------------------------------------------------------------------
(* Placing. *)

Holding(node, block) ==
    IF block \in node.shunned THEN node ELSE [node EXCEPT !.blocks = @ \cup {block}]

(* Those carried that are not in the chain are put up once at a head. *)
PutsUpOne(node, n, t) ==
    LET before == node.head.leaves
        tried == [node EXCEPT !.tried = @ \cup {KeyOf(t)}]
    IN  IF /\ Terms[t].generation <= before.generation
           /\ ~InChain(t, before)
           /\ Sends(t) <= CheckedOn({t}, before)[Terms[t].from].kismet
        THEN {Holding(tried, block) : block \in Placed({t}, node.head, n, 0, FALSE)}
        ELSE {tried}

ToPutUp(node) ==
    {t \in node.toPutUp : KeyOf(t) \notin node.tried /\ ~InChain(t, node.head.leaves)}

RECURSIVE PutsUp(_, _)
PutsUp(node, n) ==
    IF ToPutUp(node) = {} THEN {node}
    ELSE UNION {PutsUp(after, n) : after \in PutsUpOne(node, n, Min(ToPutUp(node)))}

-----------------------------------------------------------------------------
(* Reading what is at the head's target. *)

FalseStarts(node) ==
    {block \in node.blocks :
        /\ block.previous # node.head
        /\ block.previous.validated.previous = node.head.validated.previous}

Offers(blocks) == UNION {block.txs : block \in blocks}

AtTarget(node) == node.seen \cup HeldAt(node)

(* What it has read is kept, though eviction takes the blocks not full.      *)
Reads(node) ==
    {[node EXCEPT !.seen = @ \cup {block \in HeldAt(node) :
                                       ~block.found.full /\ Checkable(block, node)},
                  !.offered = @ \cup Offers(HeldAt(node))]}

-----------------------------------------------------------------------------
(* Combining. *)

HeldWhole(some, node) ==
    \E block \in AtTarget(node) : some \subseteq block.txs /\ Combines(block, node)

Uncombined(some, node) ==
    Cardinality(some) -
        Max({0} \cup {Cardinality(some \cap block.txs) :
                         block \in {one \in AtTarget(node) : Combines(one, node)}})

(* How many hold Kismet, which is how large a full block at the head is.    *)
HoldersAt(node) == HoldersOn(node.head.leaves)

(* Only what is full, and more than the payout, is worth searching long for. *)
Bits(n, some, full) == IF full /\ some # {} THEN start.luck[n] ELSE 0

(* Whether a block of those taken, of which some fit it, is worth its place. *)
Worthwhile(node, taken, some, full) ==
    /\ ~HeldWhole(ToSet(taken), node)
    /\ taken # <<>> /\ ~full => Uncombined(ToSet(taken), node) >= Combine
    /\ ~HeldWhole(some, node)

FullOfThem(some, node) == IsFull(Cardinality(some) + 1, HoldersAt(node))

CombineTaken(node, n, taken) ==
    UNION {IF Worthwhile(node, taken, some, FullOfThem(some, node))
           THEN {Holding(node, block) :
                    block \in Placed(some, node.head, n, Bits(n, some, FullOfThem(some, node)), TRUE)}
           ELSE {node} :
               some \in {ToSet(SubSeq(taken, 1, AtMost(Len(taken), MostEntries - 1)))}}

Combine_One(node, n) ==
    CombineTaken(node, n, TakenOn({t \in node.offered : Terms[t].from \notin node.lacks},
                                  node.head.leaves))

BasisOf(node) ==
    [txs |-> {t \in node.offered : Terms[t].from \notin node.lacks},
     blocks |-> {<<block.id, Combines(block, node)>> : block \in AtTarget(node)},
     ever |-> TRUE]

Combines_On(node, n) ==
    UNION {IF basis = node.builtOf THEN {node}
           ELSE {[after EXCEPT !.builtOf = basis] : after \in Combine_One(node, n)} :
               basis \in {BasisOf(node)}}

BuildsBlock(node, n) ==
    IF n \notin Mining THEN {node}
    ELSE UNION {Combines_On([read EXCEPT !.offered =
                    @ \cup Offers(FalseStarts(read)) \cup read.toPutUp \cup read.carried], n) :
                    read \in Reads(node)}

-----------------------------------------------------------------------------
(* Superseding. *)

Above(a, b) ==
    \/ Cardinality(a.txs) > Cardinality(b.txs)
    \/ Cardinality(a.txs) = Cardinality(b.txs) /\ a.bits > b.bits

(* Mutant: of two that hold the same, each supersedes the other. *)
Supersedes_Either(keeper, block, node) ==
    /\ keeper # block
    /\ block.txs \subseteq keeper.txs
    /\ Combines(keeper, node)

Supersedes(keeper, block, node) ==
    /\ Above(keeper, block)
    /\ block.txs \subseteq keeper.txs
    /\ Combines(keeper, node)

(* Those a validation block stakes on are kept, whatever holds as much. *)
NamedAt(node) == {validation.validated : validation \in HeldOn(node)}

Superseded(node) ==
    {block \in AtTarget(node) :
        /\ ~block.found.full
        /\ block \notin NamedAt(node)
        /\ \E keeper \in AtTarget(node) : Supersedes(keeper, block, node)}

(* What is shunned is deleted, and no longer stored. *)
Shuns(node) ==
    UNION {{[read EXCEPT !.seen = @ \ gone, !.blocks = @ \ gone, !.shunned = @ \cup gone] :
               gone \in {Superseded(read)}} : read \in Reads(node)}

-----------------------------------------------------------------------------
(* Staking and validating. *)

(* The best full block nobody distrusted built, if there is one. *)
Best(node, n) ==
    LET trusted == {block \in FullAt(node) :
                        block.found.correct /\ block.builder \notin Distrusted[n]}
    IN  {block \in trusted : \A other \in trusted \ {block} : BetterBlock(block, other)}

(* Those held, of whom it does not distrust, its own only unless it mines.  *)
Offered(node, n) ==
    {stake \in UNION {validation.stakes : validation \in HeldOn(node)} :
        n \in Mining \/ stake.staker = n} \cup node.given

OfferedOn(block, node, n) ==
    {stake \in Offered(node, n) :
        stake.on = block.id /\ stake.kismet > 0
            /\ stake.staker \notin Distrusted[n] \cup node.lacks}

(* Its own stake, signed once at a head. *)
OwnStake(block, node, n) ==
    LET kismet == (Covering(n, block) * StakePercent[n]) \div 100
        signed == {stake \in node.own : stake.on = block.id}
    IN  IF signed # {} THEN signed
        ELSE IF kismet = 0 THEN {}
        ELSE {[staker |-> n, on |-> block.id, kismet |-> kismet, made |-> node.restarts]}

(* Mutant: a rival is named though the reward takes more than a staker has. *)
RunnerUp_First(block, stakes, rivals) == rivals

(* The first whose stakes, and fees, the reward may take of those it takes. *)
RunnerUp(block, stakes, rivals) ==
    {rival \in rivals : RewardCovered(block, stakes, rival.stakes)}

RivalFirst(a, b) ==
    IF a.found.correct = b.found.correct
    THEN (IF a.found.correct THEN BetterValidation(a, b)
          ELSE SortsFirst(<<-a.bits>> \o a.id, <<-b.bits>> \o b.id))
    ELSE a.found.correct

TheFirst(rivals) ==
    IF rivals = {} THEN NoBlock
    ELSE CHOOSE rival \in rivals : \A other \in rivals \ {rival} : RivalFirst(rival, other)

Witnesses(block, node) ==
    {t \in node.toPutUp \cup node.carried \cup
            Offers({one \in AtTarget(node) : Checkable(one, node) /\ ~one.found.false}) :
        t \notin block.txs /\ \A each \in node.head.leaves.witnessed : each.tx # t}

StakesHeld(stakes, node) ==
    \E validation \in CheckedOnHead(node) :
        validation.found.correct /\ stakes \subseteq validation.stakes

Validating(block, stakes, node, n) ==
    IF stakes = {} \/ StakesHeld(stakes, node) THEN {node}
    ELSE LET rivals == {one \in CheckedOnHead(node) : one.validated # block}
         IN  {[node EXCEPT !.validations = @ \cup {placed}] :
                 placed \in PlacedValidation(
                     ValidationOf(block, stakes, TheFirst(RunnerUp(block, stakes, rivals)),
                                  Witnesses(block, node), n,
                                  IF n \in Mining THEN start.luck[n] ELSE 0))}

(* Its own stake is offered with the others, unless one of its own is. *)
StakesOn(block, node, n) ==
    UNION {Validating(block, StakesTaken(offered \cup own, block),
                      [node EXCEPT !.own = @ \cup own], n) :
               offered \in {OfferedOn(block, node, n)},
               own \in {IF \E stake \in OfferedOn(block, node, n) : stake.staker = n
                        THEN {} ELSE OwnStake(block, node, n)}}

BuildsValidation(node, n) ==
    {[after EXCEPT !.builtOn = FullAt(node)] :
        after \in UNION {IF best = {} THEN {node}
                         ELSE UNION {StakesOn(block, node, n) : block \in best} :
                             best \in {Best(node, n)}}}

(* At once, if a full block has come since it last built. *)
BuildsOnFull(node, n) ==
    IF FullAt(node) \subseteq node.builtOn THEN {node} ELSE BuildsValidation(node, n)

-----------------------------------------------------------------------------
(* Following. *)

KeysCarried(node) == {KeyOf(t) : t \in node.toPutUp \cup node.carried}

(* Carried on at a head are those whose key its chain does not hold, and    *)
(* one of each key, those carried before first. Only those given are put up. *)
Carries(node, head, collected) ==
    LET Still(some) == {t \in some : ~InChain(t, head.leaves)}
        kept == [node EXCEPT !.toPutUp = Still(@), !.carried = Still(@)]
    IN  [kept EXCEPT !.carried =
            @ \cup {t \in Still(collected) : KeyOf(t) \notin KeysCarried(kept)}]

Forgets(node) == [node EXCEPT !.seen = {}, !.offered = {}, !.tried = {}, !.own = {}, !.given = {},
                              !.builtOn = {}, !.builtOf = Nothing.builtOf]

At(node, head, collected) == [Forgets(Carries(node, head, collected)) EXCEPT !.head = head]

FollowedAt(node) ==
    LET correct == {v \in CheckedOnHead(node) : v.found.correct}
    IN  {v \in correct : \A o \in correct \ {v} : BetterValidation(v, o)}

RECURSIVE Follows(_)
Follows(node) ==
    IF FollowedAt(node) = {} THEN {node}
    ELSE UNION {Follows(At(node, next, {})) : next \in FollowedAt(node)}

(* The validation blocks of a chain, after the one all are on. *)
RECURSIVE Through(_)
Through(validation) ==
    IF validation = start.head THEN {}
    ELSE {validation} \cup Through(validation.validated.previous)
TxsThrough(validation) == UNION {one.validated.txs : one \in Through(validation)}

(* Mutant: one as heavy is never followed. *)
Heavier_Strictly(a, b) == a.leaves.weight > b.leaves.weight

(* A chain is heavier, or as heavy and better where they first part.        *)
Heavier(a, b) ==
    \/ a.leaves.weight > b.leaves.weight
    \/ /\ a.leaves.weight = b.leaves.weight
       /\ a # b
       /\ LET First(ours) == CHOOSE v \in ours : \A o \in ours : v.generation <= o.generation
          IN  BetterValidation(First(Through(a) \ Through(b)), First(Through(b) \ Through(a)))

RECURSIVE ChainHeld(_, _)
ChainHeld(validation, node) ==
    \/ validation = start.head
    \/ /\ validation \in node.validations
       /\ validation.validated \in node.blocks
       /\ validation.found.correct /\ ~validation.found.false
       /\ Checkable(validation.validated, node)
       /\ KeysHeld(Stakers(validation.stakes) \cup {validation.builder}, node)
       /\ ChainHeld(validation.validated.previous, node)

(* Weighed are those told of, and those the head was chosen from. *)
HeavierHeads(node) ==
    {v \in node.told \cup {one \in node.validations :
                             one.validated.previous = node.head.validated.previous} :
        Heavier(v, node.head) /\ ChainHeld(v, node)}

Changes(node) ==
    {At(node, v, TxsThrough(node.head)) :
        v \in {one \in HeavierHeads(node) :
            \A other \in HeavierHeads(node) \ {one} : Heavier(one, other)}}

-----------------------------------------------------------------------------
(* Handlers. *)

(* A change is followed from, and no other is looked for till the next look. *)
RECURSIVE FollowsOn(_, _, _)
FollowsOn(node, n, looks) ==
    UNION {UNION {IF looks /\ HeavierHeads(followed) # {}
                  THEN UNION {FollowsOn(changed, n, FALSE) : changed \in Changes(followed)}
                  ELSE {followed} : followed \in Follows(built)} : built \in BuildsOnFull(node, n)}

(* KarmaModule._look *)
AfterLook(node, n) ==
    UNION {UNION {Shuns(up) : up \in PutsUp(changed, n)} : changed \in FollowsOn(node, n, TRUE)}

(* KarmaModule._build *)
AfterBuild(node, n) ==
    UNION {UNION {BuildsValidation(shunned, n) : shunned \in Shuns(built)} :
        built \in BuildsBlock(node, n)}

Becomes(n, after) ==
    /\ nodes' = [nodes EXCEPT ![n] = after]
    /\ UNCHANGED start

Builds(n) ==
    \E after \in AfterBuild(nodes[n], n) :
        after # nodes[n] /\ Becomes(n, after) /\ UNCHANGED may

(* A search of a peer is answered, and what it holds is fetched, but what    *)
(* the node is done with, or shuns; and it tells its head. It is looked at   *)
(* as the module next idles.                                                 *)
Answered(n, m) ==
    LET comes == nodes[m].blocks \ (nodes[n].shunned \cup nodes[n].seen \cup nodes[n].blocks)
    IN  [nodes[n] EXCEPT !.blocks = @ \cup comes,
                         !.validations = @ \cup nodes[m].validations,
                         !.told = @ \cup {nodes[m].head}]

(* The keys a node lacks come late. *)
Keyed(n) == [nodes[n] EXCEPT !.lacks = {}]

(* A node looks at what it has, what a peer answers, or the keys that came. *)
Looks(n) ==
    \E node \in {nodes[n], Keyed(n)} \cup {Answered(n, m) : m \in start.nodes \ {n}} :
        \E after \in AfterLook(node, n) :
            after # nodes[n] /\ Becomes(n, after) /\ UNCHANGED may

(* A person gives a transaction, or a stake, through the node. One that     *)
(* moves nothing, or whose key is carried or in the chain, is passed over,  *)
(* and one whose sender's key is lacked is not done with.                   *)
OnTransaction(n) ==
    \E t \in start.payments[n] :
        /\ Terms[t].from \notin nodes[n].lacks
        /\ Sends(t) > 0
        /\ KeyOf(t) \notin KeysCarried(nodes[n])
        /\ ~InChain(t, nodes[n].head.leaves)
        /\ \E after \in PutsUp([nodes[n] EXCEPT !.toPutUp = @ \cup {t}], n) : Becomes(n, after)
        /\ UNCHANGED may

OnStake(n) ==
    /\ May("stakes")
    /\ \E block \in Best(nodes[n], n), i \in start.people :
           Becomes(n, [nodes[n] EXCEPT !.given = @ \cup
               {[staker |-> i, on |-> block.id, kismet |-> 1, made |-> may["stakes"]]}])

(* Eviction may take a block that is not full. *)
Evicts(n) ==
    /\ May("evictions")
    /\ \E block \in nodes[n].blocks :
           ~block.found.full /\ Becomes(n, [nodes[n] EXCEPT !.blocks = @ \ {block}])

Restarts(n) ==
    /\ May("restarts")
    /\ Becomes(n, [Forgets(nodes[n]) EXCEPT !.restarts = @ + 1, !.told = {start.head}])

Next ==
    \E n \in start.nodes :
        \/ OnTransaction(n)
        \/ OnStake(n)
        \/ Evicts(n)
        \/ Restarts(n)
        \/ Looks(n)
        \/ Builds(n)

Node(n) ==
    [head |-> start.head, blocks |-> {}, validations |-> {}, shunned |-> {},
     told |-> {start.head},
     lacks |-> start.lacks[n], toPutUp |-> start.given[n], carried |-> {}, restarts |-> 0] @@ Nothing

Init ==
    /\ start \in Starts
    /\ may = start.may
    /\ nodes = [n \in start.nodes |-> Node(n)]

Spec == Init /\ [][Next]_vars

-----------------------------------------------------------------------------
(* Properties. *)

HeldAnywhere == UNION {nodes[n].blocks : n \in start.nodes}
ValidationsAnywhere == UNION {nodes[n].validations : n \in start.nodes}

(* What any node builds of whatever it holds, every node finds true, and    *)
(* what it combined correct but perhaps for not being full: the checks of   *)
(* one node and the building of another agree on what is covered, rounded,  *)
(* stated and taken.                                                        *)
NothingFalse ==
    /\ \A block \in HeldAnywhere :
           ~block.found.false /\ (Cardinality(block.txs) > 1 => block.found.combines)
    /\ \A validation \in ValidationsAnywhere : ~validation.found.false

(* Every chain hands out just what its generations have issued, leaves no   *)
(* one less than nothing, and holds no key's transaction twice.             *)
LedgerAddsUp ==
    \A validation \in ValidationsAnywhere :
        LET paid == validation.leaves.paid
            chain == Through(validation)
        IN  /\ \A i \in Identities : paid[i].kismet >= 0
            /\ MapThenSumSet(LAMBDA i : paid[i].kismet, Identities) =
                   MapThenSumSet(LAMBDA g : NewKismet[g], 0..validation.generation)
            /\ \A one, other \in chain : one # other =>
                   \A t \in one.validated.txs, u \in other.validated.txs : KeyOf(t) # KeyOf(u)

(* Nothing more comes of what the nodes hold: each has what the others do,  *)
(* and has looked, and built, since.                                        *)
Quiet ==
    \A n \in start.nodes :
        /\ nodes[n].lacks = {}
        /\ \A m \in start.nodes \ {n} : Answered(n, m) = nodes[n]
        /\ AfterLook(nodes[n], n) = {nodes[n]}
        /\ AfterBuild(nodes[n], n) = {nodes[n]}

(* The nodes follow the same head, whichever of their blocks each heard of  *)
(* first, and none is left with a full block there that it might stake on.  *)
HeadsAgree ==
    /\ \A n, m \in start.nodes : nodes[n].head = nodes[m].head
    /\ \A n \in start.nodes : \A block \in Best(nodes[n], n) :
           Covering(n, block) * StakePercent[n] < 100

(* Every transaction given is to be had at every node, however blocks were  *)
(* combined and shunned, and heads changed: in a block at its head, unless  *)
(* it is in the chain, or cannot be put up there. (What is let go to        *)
(* eviction is had again at the next head.)                                 *)
NoneLost ==
    may.evictions = start.may.evictions =>
        \A n \in start.nodes :
        \A t \in start.given[n] \cup nodes[n].toPutUp \cup nodes[n].carried :
            \/ InChain(t, nodes[n].head.leaves)
            \/ Sends(t) > nodes[n].head.leaves.paid[Terms[t].from].kismet
            \/ \A m \in start.nodes : \E block \in HeldAt(nodes[m]) : t \in block.txs

(* Once nothing more comes of what they hold, the nodes agree on the head,  *)
(* and none of the transactions given is lost.                              *)
QuietAgrees == (HeadsAgree /\ NoneLost) \/ ~Quiet
=============================================================================
