----------------------------- MODULE KarmaChain -----------------------------
(***************************************************************************)
(* How the Karma module of a Libranet node follows a chain of generations, *)
(* keeps its history in files, changes to a heavier chain, and carries the *)
(* transactions of the chain it leaves (karma/history.py, following.py,    *)
(* changing.py, claims.py, carried.py).                                    *)
(*                                                                         *)
(* The module runs one handler, or one look, at a time.  A look is cut     *)
(* here wherever it writes a file, since the process may end between two,  *)
(* and wherever it takes up another head, since content comes meanwhile.   *)
(* A generation stands for a validation block and the transaction block it *)
(* validates; generations are counted from 1, the root's.                  *)
(***************************************************************************)
EXTENDS Integers, SequencesExt

CONSTANTS
    Generations,      (* those of every chain there is *)
    Previous,         (* the one each is built on, or NoGeneration for a root *)
    Work,             (* the weight each adds to its chain *)
    Rank,             (* of two built on the same, the better ranks higher *)
    Correct,          (* those that check as correct on their chain *)
    Misshapen,        (* roots of a correct transaction block, but not validation block *)
    Claims,           (* the most the chain through each claims to weigh *)
    Transactions,     (* the keys of transactions *)
    Keys,             (* those each generation's transaction block holds *)
    Witnesses,        (* those each generation's validation block lists *)
    Peers,            (* the peers that tell of heads *)
    CarryGenerations  (* how long after it was witnessed one is carried *)

NoGeneration == "none"
NoClaim == [head |-> NoGeneration]
NothingWritten == [back |-> "none"]

(* The chain through a generation, from its root on, and what it weighs. *)
Path[g \in Generations] ==
    IF Previous[g] = NoGeneration THEN <<g>> ELSE Append(Path[Previous[g]], g)
Weight[g \in Generations] ==
    Work[g] + (IF Previous[g] = NoGeneration THEN 0 ELSE Weight[Previous[g]])

Longest == Max({Len(Path[g]) : g \in Generations})
Chains == {<<>>} \cup {Path[g] : g \in Generations}

(* A block names the one before by its content id, so none is its own       *)
(* ancestor: of any generations, one is built on none of them.              *)
ASSUME KarmaAssumption ==
    /\ IsFiniteSet(Generations) /\ NoGeneration \notin Generations
    /\ Previous \in [Generations -> Generations \cup {NoGeneration}]
    /\ \A some \in SUBSET Generations :
           some # {} => \E g \in some : Previous[g] \notin some
    /\ Work \in [Generations -> Nat \ {0}]
    /\ Rank \in [Generations -> Nat]
    /\ \A g, h \in Generations : g # h /\ Previous[g] = Previous[h] => Rank[g] # Rank[h]
    /\ Correct \subseteq Generations
    /\ Misshapen \subseteq {g \in Generations \ Correct : Previous[g] = NoGeneration}
    /\ Claims \in [Generations -> Nat]
    /\ \A g \in Generations : ToSet(Path[g]) \subseteq Correct => Claims[g] >= Weight[g]
    /\ Keys \in [Generations -> SUBSET Transactions]
    /\ Witnesses \in [Generations -> SUBSET Transactions]
    /\ CarryGenerations \in Nat

VARIABLES
    (* The world. *)
    held,       (* the generations whose blocks the node holds *)
    backed,     (* those for whose check it holds what they name, as keys *)
    seen,       (* the transactions that have been put up *)
    may,        (* how many more there may be of each kind of event *)
    (* The files of storage.karma_dir. *)
    file,       (* generations/{g}.json *)
    genealogy,  (* genealogy *)
    headFile,   (* head.json *)
    carried,    (* carried.json *)
    (* The memory of the module. *)
    pc,         (* what it is doing *)
    history,    (* the chain followed *)
    writing,    (* what it is writing of a chain to follow *)
    noted,      (* the head its memory of other heads is for *)
    told,       (* the latest head each peer told *)
    queue,      (* the heads found at the target the head was chosen from *)
    claim,      (* the head being weighed, as far as it is read *)
    weighed,    (* those weighed while the chain was at this generation *)
    gaveUp,     (* those given up on while the head was this one *)
    (* History variables. *)
    owed,       (* the transactions of chains left, and those taken to put up *)
    torn        (* whether a write of the history failed since it was opened *)

world == <<held, backed, seen>>
files == <<file, genealogy, headFile>>
heads == <<noted, told, queue, claim, weighed, gaveUp>>
ghosts == <<owed, torn>>
chainVars == <<world, may, files, carried, pc, history, writing, heads, ghosts>>

May(event) == may[event] > 0 /\ may' = [may EXCEPT ![event] = @ - 1]

-----------------------------------------------------------------------------
(* Chains. *)

HeadOf(chain) == IF chain = <<>> THEN NoGeneration ELSE Last(chain)
Weighs(chain) == IF chain = <<>> THEN 0 ELSE Weight[Last(chain)]

KeysOf(chain) == UNION {Keys[chain[i]] : i \in DOMAIN chain}

(* The generation that first lists a transaction, or 0. *)
WitnessedBy(chain, key) ==
    LET listing == {i \in DOMAIN chain : key \in Witnesses[chain[i]]}
    IN  IF listing = {} THEN 0 ELSE Min(listing)

(* What a restart finds: the generations whose files agree with the genealogy. *)
Recovered ==
    SubSeq(genealogy, 1, Max({n \in 0..Len(genealogy) : \A i \in 1..n : file[i] = genealogy[i]}))

-----------------------------------------------------------------------------
(* Transactions carried, once the chain followed is the given one. *)

Carriable(each, chain) ==
    LET witnessed == IF each.witnessed # 0 THEN each.witnessed ELSE WitnessedBy(chain, each.key)
    IN  /\ each.key \notin KeysOf(chain)
        /\ witnessed # 0 => Len(chain) + 1 <= witnessed + CarryGenerations

CarriedAt(some, chain) ==
    {[each EXCEPT !.witnessed = IF @ # 0 THEN @ ELSE WitnessedBy(chain, each.key)] :
        each \in {one \in some : Carriable(one, chain)}}

(* Mutant: those carried before are written over. *)
CarryWith_Collected(collected) == CarriedAt(collected, history)

(* Those carried and those collected, one of each key. *)
CarryWith(collected) ==
    LET kept == CarriedAt(carried, history)
    IN  kept \cup {new \in CarriedAt(collected, history) :
                      \A old \in kept : old.key # new.key}

(* Of the blocks of the chain followed after an ancestor, those held are read. *)
Collected(ancestor) ==
    LET Found(i, key) ==
            LET listed == WitnessedBy(history, key)
            IN  [key |-> key, putUp |-> FALSE,
                 witnessed |-> IF listed # 0 /\ listed < i THEN listed ELSE i]
    IN  UNION {{Found(i, key) : key \in Keys[history[i]]} :
                  i \in {j \in ancestor + 1..Len(history) : history[j] \in held}}

-----------------------------------------------------------------------------
(* What comes to the node: at any time, but what comes while a file is      *)
(* written may as well come once it is, as no content is read meanwhile.    *)

Writing == {"files", "genealogy", "head", "unlink"}

(* A block of a transaction comes once that has been put up. *)
Exists(g) == KeysOf(Path[g]) \subseteq seen

Arrives(g) ==
    /\ pc \notin Writing
    /\ g \notin held
    /\ Exists(g)
    /\ May("arrivals")
    /\ held' = held \cup {g}
    /\ UNCHANGED <<backed, seen, files, carried, pc, history, writing, heads, ghosts>>

KeysCome(g) ==
    /\ pc \notin Writing
    /\ g \notin backed
    /\ backed' = backed \cup {g}
    /\ UNCHANGED <<held, seen, may, files, carried, pc, history, writing, heads, ghosts>>

Evicted(g) ==
    /\ pc \notin Writing
    /\ g \in held
    /\ May("evictions")
    /\ held' = held \ {g}
    /\ UNCHANGED <<backed, seen, files, carried, pc, history, writing, heads, ghosts>>

(* The latest head each peer told is weighed, unless it is followed. *)
OnHeadTold(p, g) ==
    /\ pc = "idle"
    /\ Exists(g)
    /\ May("tellings")
    /\ told' = IF g = HeadOf(history) THEN told ELSE [told EXCEPT ![p] = g]
    /\ UNCHANGED <<world, files, carried, pc, history, writing, noted, queue, claim, weighed,
                   gaveUp, ghosts>>

Came(lack) == lack[2] \in (IF lack[1] = "block" THEN held ELSE backed)

(* Mutant: one given up on is as one found lighter. *)
GivenUp_AsLighter ==
    /\ pc = "idle"
    /\ claim # NoClaim
    /\ \E lack \in claim.lacking : ~Came(lack)
    /\ weighed' = weighed \cup {claim.head}
    /\ claim' = NoClaim
    /\ UNCHANGED <<world, may, files, carried, pc, history, writing, noted, told, queue, gaveUp,
                   ghosts>>

(* What the head being weighed waits for has not come in time. *)
GivenUp ==
    /\ pc = "idle"
    /\ claim # NoClaim
    /\ \E lack \in claim.lacking : ~Came(lack)
    /\ weighed' = weighed \cup {claim.head}
    /\ gaveUp' = gaveUp \cup {claim.head}
    /\ claim' = NoClaim
    /\ UNCHANGED <<world, may, files, carried, pc, history, writing, noted, told, queue, ghosts>>

-----------------------------------------------------------------------------
(* Following a chain in place of all after one of its generations. *)

Replace(generations, first, collected, back) ==
    /\ writing' = [generations |-> generations, first |-> first, at |-> 1,
                   dropped |-> Len(history), collected |-> collected, back |-> back]
    /\ pc' = "files"

WriteGeneration ==
    /\ pc = "files"
    /\ file' = [file EXCEPT ![writing.first + writing.at] = writing.generations[writing.at]]
    /\ IF writing.at < Len(writing.generations)
       THEN writing' = [writing EXCEPT !.at = @ + 1] /\ UNCHANGED pc
       ELSE pc' = "genealogy" /\ UNCHANGED writing
    /\ UNCHANGED <<world, may, genealogy, headFile, carried, history, heads, ghosts>>

(* A transaction is safe while it is carried, or the chain holds it. *)
SafeIn(chain, key) == key \in KeysOf(chain) \/ \E each \in carried : each.key = key

WriteGenealogy ==
    LET chain == SubSeq(history, 1, writing.first) \o writing.generations
        collected == {each.key : each \in writing.collected}
    IN  /\ pc = "genealogy"
        /\ genealogy' = chain
        /\ history' = chain
        /\ owed' = collected \cup {key \in owed : SafeIn(chain, key)}
        /\ pc' = "head"
        /\ UNCHANGED <<world, may, file, headFile, carried, writing, heads, torn>>

WriteHead ==
    /\ pc = "head"
    /\ headFile' = HeadOf(history)
    /\ pc' = "unlink"
    /\ UNCHANGED <<world, may, file, genealogy, carried, history, writing, heads, ghosts>>

(* Mutant: the file of the new head goes with those no longer followed. *)
Unlink_HeadToo ==
    /\ pc = "unlink"
    /\ file' = [i \in DOMAIN file |->
                  IF i \in Len(history)..writing.dropped THEN NoGeneration ELSE file[i]]
    /\ pc' = writing.back
    /\ writing' = IF writing.back = "note" THEN writing ELSE NothingWritten
    /\ UNCHANGED <<world, may, genealogy, headFile, carried, history, heads, ghosts>>

Unlink ==
    /\ pc = "unlink"
    /\ file' = [i \in DOMAIN file |->
                  IF i \in Len(history) + 1..writing.dropped THEN NoGeneration ELSE file[i]]
    /\ pc' = writing.back
    /\ writing' = IF writing.back = "note" THEN writing ELSE NothingWritten
    /\ UNCHANGED <<world, may, genealogy, headFile, carried, history, heads, ghosts>>

(* A file that cannot be written ends the look, or the making of the root. *)
(* What was collected is forgotten.                                        *)
WriteFails ==
    /\ pc \in Writing
    /\ May("failures")
    /\ pc' = IF writing.back = "idle" THEN "idle" ELSE "pay"
    /\ writing' = NothingWritten
    /\ owed' = {key \in owed : SafeIn(history, key)}
    /\ torn' = TRUE
    /\ UNCHANGED <<world, files, carried, history, heads>>

-----------------------------------------------------------------------------
(* A look follows the chain on from its head ... *)

Look ==
    /\ pc = "idle"
    /\ pc' = "follow"
    /\ UNCHANGED <<world, may, files, carried, history, writing, heads, ghosts>>

Readable(g) == g \in held /\ g \in backed

(* Of roots, one whose validation block is not correct is not left out.     *)
AtTarget(g) ==
    /\ Previous[g] = HeadOf(history)
    /\ Readable(g)
    /\ g \in Correct \cup (IF history = <<>> THEN Misshapen ELSE {})

(* The best at the targets, or the heaviest root. *)
Best(g) ==
    \A h \in Generations : AtTarget(h) /\ h # g =>
        \/ history = <<>> /\ Work[g] > Work[h]
        \/ (history = <<>> => Work[g] = Work[h]) /\ Rank[g] > Rank[h]

Follow ==
    /\ pc \in {"follow", "followAgain"}
    /\ \E g \in Generations :
          /\ AtTarget(g)
          /\ Best(g)
          /\ Replace(<<g>>, Len(history), {}, pc)
    /\ UNCHANGED <<world, may, files, carried, history, heads, ghosts>>

(* The operator asks for a root, and none is made but while none is followed. *)
OnRootRequested(g) ==
    /\ pc = "idle"
    /\ history = <<>>
    /\ Previous[g] = NoGeneration
    /\ g \in Correct \ held
    /\ May("roots")
    /\ held' = held \cup {g}
    /\ backed' = backed \cup {g}
    /\ Replace(<<g>>, 0, {}, "idle")
    /\ UNCHANGED <<seen, files, carried, history, heads, ghosts>>

-----------------------------------------------------------------------------
(* ... weighs the heads it does not follow ... *)

(* The earliest a chain may have witnessed a transaction. *)
Earliest(key) ==
    Min({Longest} \cup {Len(Path[g]) : g \in {h \in Generations : key \in Keys[h] \cup Witnesses[h]}})

(* What is carried is written anew, but a file that cannot be is left. *)
Carry(collected) ==
    \/ /\ carried' = CarryWith(collected)
       /\ owed' = {key \in owed : Len(history) + 1 <= Earliest(key) + CarryGenerations}
       /\ UNCHANGED may
    \/ /\ May("failures")
       /\ owed' = {key \in owed : SafeIn(history, key)}
       /\ UNCHANGED carried

(* Mutant: the heads given up on are not forgotten. *)
(* What was found while the chain was at another generation is forgotten,  *)
(* and so are the heads given up on.                                       *)
NoteHead(collected, done) ==
    IF HeadOf(history) = noted
    THEN weighed' = weighed \cup done /\ UNCHANGED <<noted, gaveUp, carried, owed, may>>
    ELSE /\ noted' = HeadOf(history)
         /\ weighed' = done \cup IF noted # NoGeneration /\ Len(Path[noted]) = Len(history)
                                 THEN weighed \ gaveUp ELSE {}
         /\ gaveUp' = {}
         /\ Carry(collected)

(* The others at the target the head was chosen from. *)
Siblings ==
    {g \in Generations \ {HeadOf(history)} :
        history # <<>> /\ Previous[g] = Previous[HeadOf(history)]}

NoneToFollow == \A g \in Generations : ~AtTarget(g)

BeginWeighing ==
    /\ pc = "follow"
    /\ NoneToFollow
    /\ NoteHead({}, {})
    /\ queue' = queue \cup (Siblings \cap held)
    /\ pc' = "weigh"
    /\ UNCHANGED <<world, files, history, writing, told, claim, torn>>

NextToWeigh ==
    /\ pc = "weigh"
    /\ claim = NoClaim
    /\ UNCHANGED <<world, may, files, carried, history, writing, noted, weighed, gaveUp, ghosts>>

TakeUp(g) ==
    /\ claim' = IF g \in weighed \/ g = HeadOf(history) THEN NoClaim
                ELSE [head |-> g, walked |-> Len(Path[g]) + 1, ancestor |-> -1,
                      checked |-> 0, lacking |-> {}]
    /\ UNCHANGED pc

(* Those found are weighed first, and then those told. *)
TakeFound(g) ==
    /\ NextToWeigh
    /\ g \in queue
    /\ queue' = queue \ {g}
    /\ TakeUp(g)
    /\ UNCHANGED told

TakeTold(p) ==
    /\ NextToWeigh
    /\ queue = {}
    /\ told[p] # NoGeneration
    /\ told' = [told EXCEPT ![p] = NoGeneration]
    /\ TakeUp(told[p])
    /\ UNCHANGED queue

NoneToWeigh ==
    /\ NextToWeigh
    /\ queue = {}
    /\ \A p \in Peers : told[p] = NoGeneration
    /\ pc' = "pay"
    /\ UNCHANGED <<told, queue, claim>>

(* Whether what a generation is built on is in the chain followed, or it is *)
(* a root: then the walk back ends there.                                   *)
Meets(path, i) == i = 1 \/ (i - 1 <= Len(history) /\ history[i - 1] = path[i - 1])

(* How far back the blocks held let the claim be read. *)
WalkedTo(path) ==
    Min({i \in 1..claim.walked :
           /\ \A j \in i..claim.walked - 1 : path[j] \in held
           /\ \A j \in (i + 1..claim.walked) \cap DOMAIN path : ~Meets(path, j)})

(* How many generations after the ancestor can be checked, each correct. *)
CheckedTo(path, ancestor) ==
    Max({n \in claim.checked..Len(path) - ancestor :
           \A i \in claim.checked + 1..n :
               Readable(path[ancestor + i]) /\ path[ancestor + i] \in Correct})

Lacking(g) == {IF g \in held THEN <<"keys", g>> ELSE <<"block", g>>}

Waits(walked, ancestor, checked, g) ==
    /\ claim' = [claim EXCEPT !.walked = walked, !.ancestor = ancestor, !.checked = checked,
                              !.lacking = Lacking(g)]
    /\ pc' = "pay"
    /\ UNCHANGED <<writing, weighed>>

NotFollowed ==
    /\ weighed' = weighed \cup {claim.head}
    /\ claim' = NoClaim
    /\ UNCHANGED <<pc, writing>>

FollowClaim(path, walked, ancestor) ==
    /\ Replace(SubSeq(path, ancestor + 1, Len(path)), ancestor, Collected(ancestor), "note")
    /\ claim' = [claim EXCEPT !.walked = walked, !.ancestor = ancestor,
                              !.checked = Len(path) - ancestor]
    /\ UNCHANGED weighed

(* A claim as heavy is the better at the generation after its ancestor, as *)
(* that was when the walk came to it.                                      *)
Better(path, ancestor) == Rank[path[ancestor + 1]] > Rank[history[ancestor + 1]]

Compare(path, walked, ancestor) ==
    LET equal == Weighs(path) = Weighs(history)
        ours == history[ancestor + 1]
    IN  CASE Weighs(path) > Weighs(history) -> FollowClaim(path, walked, ancestor)
          [] equal /\ ancestor > 0 /\ ~Readable(ours) ->
                 Waits(walked, ancestor, Len(path) - ancestor, ours)
          [] equal /\ (ancestor > 0 => Readable(ours)) /\ Better(path, ancestor) ->
                 FollowClaim(path, walked, ancestor)
          [] OTHER -> NotFollowed

(* Forward from the ancestor, to the first that is not correct, or lacking. *)
CheckForward(path, walked, ancestor) ==
    LET checked == CheckedTo(path, ancestor)
        next == path[ancestor + checked + 1]
    IN  IF ancestor + checked = Len(path) THEN Compare(path, walked, ancestor)
        ELSE IF Readable(next) THEN NotFollowed
        ELSE Waits(walked, ancestor, checked, next)

(* The head is read first, and no more if the chain through it claims to    *)
(* weigh less.  A false statement may be found on the way back, or not      *)
(* before its block is checked.                                             *)
Weigh ==
    LET path == Path[claim.head]
        walked == IF claim.ancestor >= 0 THEN claim.walked ELSE WalkedTo(path)
    IN  /\ pc = "weigh"
        /\ claim # NoClaim
        /\ IF walked > Len(path) THEN Waits(walked, -1, 0, Last(path))
           ELSE IF Claims[claim.head] < Weighs(history) THEN NotFollowed
           ELSE IF claim.ancestor >= 0 THEN CheckForward(path, walked, claim.ancestor)
           ELSE \/ \E i \in walked..Len(path) :
                      /\ path[i] \notin Correct
                      /\ IF path[i] \in backed THEN NotFollowed ELSE Waits(walked, -1, 0, path[i])
                \/ IF Meets(path, walked) THEN CheckForward(path, walked, walked - 1)
                   ELSE Waits(walked, -1, 0, path[walked - 1])
        /\ UNCHANGED <<world, may, files, carried, history, noted, told, queue, gaveUp, ghosts>>

(* ... and, once it follows another chain, notes that and follows it on. *)
Followed ==
    /\ pc = "note"
    /\ NoteHead(writing.collected, {claim.head})
    /\ claim' = NoClaim
    /\ writing' = NothingWritten
    /\ pc' = "followAgain"
    /\ UNCHANGED <<world, files, history, told, queue, torn>>

NoneAfter ==
    /\ pc = "followAgain"
    /\ NoneToFollow
    /\ pc' = "pay"
    /\ UNCHANGED <<world, may, files, carried, history, writing, heads, ghosts>>

-----------------------------------------------------------------------------
(* The module ends, and starts again: it opens the history, and writes it   *)
(* as it found it, and then the head.                                       *)

Forget ==
    /\ history' = <<>>
    /\ writing' = NothingWritten
    /\ told' = [p \in Peers |-> NoGeneration]
    /\ noted' = NoGeneration
    /\ queue' = {} /\ claim' = NoClaim
    /\ weighed' = {} /\ gaveUp' = {}

Crash ==
    /\ pc # "down"
    /\ May("crashes")
    /\ Forget
    /\ pc' = "down"
    /\ owed' = {key \in owed : SafeIn(Recovered, key)}
    /\ UNCHANGED <<world, files, carried, torn>>

Open ==
    /\ pc = "down"
    /\ history' = Recovered
    /\ genealogy' = Recovered
    /\ noted' = HeadOf(Recovered)
    /\ torn' = FALSE
    /\ pc' = "opened"
    /\ UNCHANGED <<world, may, file, headFile, carried, writing, told, queue, claim, weighed,
                   gaveUp, owed>>

OpenHead ==
    /\ pc = "opened"
    /\ headFile' = HeadOf(history)
    /\ pc' = "idle"
    /\ UNCHANGED <<world, may, file, genealogy, carried, history, writing, heads, ghosts>>

=============================================================================
