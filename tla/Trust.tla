-------------------------------- MODULE Trust --------------------------------
(***************************************************************************)
(* Trust lists changed and scores built in the web server: sessions, the   *)
(* builds behind them, the versions that changes place, whom this node's   *)
(* peers are chosen by, and the distrusting of false builders.             *)
(*                                                                         *)
(* A version is a drop its owner signs: elsewhere, known to a search here, *)
(* asked for, uploaded here but not stored, or held; and it may be         *)
(* shunned.  A request thread that changes a list, and the job of a build, *)
(* are each followed from one lock, search or message to the next.         *)
(*                                                                         *)
(* Clocks are not kept: a session may fall idle, a wait may end and a       *)
(* rebuild may come whenever they are running.                              *)
(***************************************************************************)
EXTENDS TrustScores

CONSTANTS
  Me,           \* this node, whose list is an identity's like any other
  People,       \* those who sign in
  Tokens,       \* the names of sessions
  Ids,          \* the ids of versions placed here
  Elsewhere,    \* those of versions placed elsewhere
  Signed,       \* who signed each false block
  Wishes,       \* the changes people think of: whom, and what to say of them
  Always,       \* how often what is not bounded may happen
  Starts        \* what is there at first, and how often what may happen

VARIABLES
  doc,         \* the versions there are
  late,        \* versions that builds which have ended may yet have shunned
  sessions,    \* Sessions._held
  builds,      \* TrustBuilds._builds.by_person
  remembered,  \* VersionEdits._placed
  turn,        \* who has the turn to change each list, and how far they are
  peers,       \* PeerTrust
  kept,        \* what the stats module keeps of whom this node trusts
  news,        \* node.trust_stored, on its way
  distrusts,   \* FalseBuilders
  placed,      \* the versions placed here since the process started, in order
  may          \* how often each thing may still happen

edits == <<remembered, turn, placed>>
trustVars == <<doc, late, sessions, builds, edits, peers, kept, news, distrusts>>

Owners == {Me} \cup People

ASSUME BuildersAssumption ==
  /\ Me \in Identities /\ People \subseteq Identities \ {Me}
  /\ Ids \subseteq Nat /\ Elsewhere \subseteq Nat \ Ids
  /\ Always \in Nat \ {0}

(* What a node is met with: versions numbered and named, none of them shunned. *)
ASSUME StartsAssumption ==
  \A start \in Starts :
    /\ IsFiniteSet(DOMAIN start.doc)
    /\ DOMAIN start.doc \subseteq Nat
    /\ \A i \in DOMAIN start.doc :
         /\ DOMAIN start.doc[i] = {"owner", "number", "shunned", "at", "entries"}
         /\ start.doc[i].number \in Nat
         /\ start.doc[i].shunned = "no"

May(event) == may[event] > 0 /\ may' = [may EXCEPT ![event] = IF @ = Always THEN @ ELSE @ - 1]

-----------------------------------------------------------------------------
(* Versions, and what a search finds of them. *)

At(places) == {i \in DOMAIN doc : doc[i].at \in places}
Unshunned == {i \in DOMAIN doc : doc[i].shunned # "shunned"}

VersionOf(i) == Version(doc[i].number, doc[i].entries, i)
VersionsOf(o, ids) == {VersionOf(i) : i \in {j \in ids : doc[j].owner = o}}
IdsOf(versions) == {v.id : v \in versions}

(* What is read of a list: its versions held, and those found that are not. *)
FoundOf(o) == [versions |-> VersionsOf(o, At({"held"}) \cap Unshunned),
               missing |-> IdsOf(VersionsOf(o, At({"known", "asked"}) \cap Unshunned))]
NothingFound == [versions |-> {}, missing |-> {}]

AskedFor(ids) ==
  [i \in DOMAIN doc |->
     IF i \in ids /\ doc[i].at = "known" THEN [doc[i] EXCEPT !.at = "asked"] ELSE doc[i]]
ShunAsked(ids) ==
  [i \in DOMAIN doc |->
     IF i \in ids /\ doc[i].shunned = "no" THEN [doc[i] EXCEPT !.shunned = "asked"] ELSE doc[i]]

Joining(drops, i, drop) == [k \in DOMAIN drops \cup {i} |-> IF k = i THEN drop ELSE drops[k]]

-----------------------------------------------------------------------------
(* Builds. *)

NoScores == [states |-> [i \in Identities |-> 0], needed |-> <<>>]
NoBuild ==
  [on |-> FALSE, lists |-> [i \in Identities |-> Unread], scores |-> NoScores, handed |-> Unread, changes |-> 0,
   reading |-> FALSE, failed |-> FALSE, at |-> "idle", seen |-> 0,
   looking |-> <<>>, still |-> <<>>, waited |-> FALSE, found |-> NothingFound]
NewBuild(o) == [NoBuild EXCEPT !.on = TRUE, !.scores.needed = <<o>>, !.reading = TRUE, !.at = "score"]

(* The scores are worked out of the lists whenever they are asked for. *)
With(o, build, lists) == [build EXCEPT !.lists = lists, !.scores = ScoresOf(o, lists)]

(* A build that ends has what it has just read shunned all the same. *)
Leaves(o) == IF builds[o].at = "take" THEN IdsOf(Replaced(builds[o].found.versions)) ELSE {}
AllLeave(owners) == late \cup UNION {Leaves(o) : o \in owners}

Job(o, at) == builds[o].at = at

Scores(o) ==
  /\ Job(o, "score")
  /\ LET scores == builds[o].scores
         b == [builds[o] EXCEPT !.seen = builds[o].changes]
     IN builds' = [builds EXCEPT ![o] =
          IF complete(scores) THEN [b EXCEPT !.at = "done"]
          ELSE [b EXCEPT !.at = "look", !.looking = scores.needed, !.waited = FALSE]]
  /\ UNCHANGED <<doc, late, sessions, edits, peers, kept, news, distrusts, may>>

Unchanged_Whatever(build) == TRUE
Unchanged(build) == build.changes = build.seen

Done(o) ==
  /\ Job(o, "done")
  /\ builds' = [builds EXCEPT ![o] =
       IF Unchanged(@) THEN [@ EXCEPT !.reading = FALSE, !.at = "idle"] ELSE [@ EXCEPT !.at = "score"]]
  /\ UNCHANGED <<doc, late, sessions, edits, peers, kept, news, distrusts, may>>

Looks(o) ==
  /\ Job(o, "look") /\ builds[o].looking # <<>>
  /\ LET found == FoundOf(Head(builds[o].looking))
     IN /\ builds' = [builds EXCEPT ![o].at = "take", ![o].found = found]
        /\ doc' = AskedFor(found.missing)
  /\ UNCHANGED <<late, sessions, edits, peers, kept, news, distrusts, may>>

Ready(build) == \/ build.found.missing = {} /\ build.found.versions # {}
                \/ build.waited

ReadInto_Overwriting(build, owner) == [build.lists EXCEPT ![owner] = EntriesOf(build.found.versions)]
(* What the person changed since is newer than what was read. *)
ReadInto(build, owner) ==
  [build.lists EXCEPT ![owner] = IF @ = Unread THEN EntriesOf(build.found.versions) ELSE @]

Takes(o) ==
  /\ Job(o, "take")
  /\ LET b == builds[o]
         owner == Head(b.looking)
         next == [b EXCEPT !.at = "look", !.looking = Tail(@), !.found = NothingFound]
     IN IF Ready(b)
        THEN /\ builds' = [builds EXCEPT ![o] = With(o, next, ReadInto(b, owner))]
             /\ doc' = ShunAsked(IdsOf(Replaced(b.found.versions)))
        ELSE /\ builds' = [builds EXCEPT ![o] = [next EXCEPT !.still = Append(@, owner)]]
             /\ UNCHANGED doc
  /\ UNCHANGED <<late, sessions, edits, peers, kept, news, distrusts, may>>

RoundEnds(o) ==
  /\ Job(o, "look") /\ builds[o].looking = <<>>
  /\ LET b == builds[o]
     IN builds' = [builds EXCEPT ![o] = IF b.still = <<>> THEN [b EXCEPT !.at = "score", !.waited = FALSE]
                                        ELSE [b EXCEPT !.at = "pause"]]
  /\ UNCHANGED <<doc, late, sessions, edits, peers, kept, news, distrusts, may>>

LooksAgain(o) ==
  /\ Job(o, "pause")
  /\ builds' = [builds EXCEPT ![o].at = "look", ![o].looking = builds[o].still, ![o].still = <<>>]
  /\ UNCHANGED <<doc, late, sessions, edits, peers, kept, news, distrusts, may>>

(* wait_seconds have passed since the step began to look. *)
HasWaited(o) ==
  /\ builds[o].at \in {"look", "take", "pause"} /\ ~builds[o].waited
  /\ builds' = [builds EXCEPT ![o].waited = TRUE]
  /\ UNCHANGED <<doc, late, sessions, edits, peers, kept, news, distrusts, may>>

ReadFails(o) ==
  /\ Job(o, "look") /\ builds[o].looking # <<>>
  /\ May("errors")
  /\ builds' = [builds EXCEPT ![o] =
       [@ EXCEPT !.at = "idle", !.reading = FALSE, !.failed = TRUE,
                 !.looking = <<>>, !.still = <<>>, !.waited = FALSE]]
  /\ UNCHANGED <<doc, late, sessions, edits, peers, kept, news, distrusts>>

LateShuns ==
  /\ \E i \in late : doc' = ShunAsked({i}) /\ late' = late \ {i}
  /\ UNCHANGED <<sessions, builds, edits, peers, kept, news, distrusts, may>>

(* TrustBuilds.changed: the build's own job goes on, or a new one starts. *)
Handed(o, entries) ==
  IF ~builds[o].on THEN builds
  ELSE LET b == [With(o, builds[o], [builds[o].lists EXCEPT ![o] = entries])
                 EXCEPT !.handed = entries, !.changes = @ + 1, !.reading = TRUE]
       IN [builds EXCEPT ![o] =
             IF builds[o].reading THEN b ELSE [b EXCEPT !.at = "score", !.failed = FALSE]]

-----------------------------------------------------------------------------
(* Sessions. *)

NoSession == [person |-> Me, idle |-> FALSE]
Live == {t \in Tokens : sessions[t] # NoSession}
Idle == {t \in Live : sessions[t].idle}
Kept(gone) == [t \in Tokens |-> IF t \in gone THEN NoSession ELSE sessions[t]]
PeopleIn(tokens) == {sessions[t].person : t \in tokens \cap Live}

LeftWithNone_Each(gone) == PeopleIn(gone)
(* Who of those whose sessions are forgotten have no other. *)
LeftWithNone(gone) == PeopleIn(gone) \ PeopleIn(Tokens \ gone)

BuildsWithout(gone) == [o \in Owners |-> IF o \in LeftWithNone(gone) THEN NoBuild ELSE builds[o]]

Forget(gone) ==
  /\ sessions' = Kept(gone)
  /\ builds' = BuildsWithout(gone)
  /\ late' = AllLeave(LeftWithNone(gone))

(* TrustBuilds.session_started, told with the sessions locked. *)
StartsSession(p) ==
  LET t == CHOOSE t \in Tokens \ Live : TRUE
  IN /\ Tokens \ Live # {}
     /\ sessions' = [Kept(Idle) EXCEPT ![t] = [person |-> p, idle |-> FALSE]]
     /\ builds' = [BuildsWithout(Idle) EXCEPT ![p] = NewBuild(p)]
     /\ late' = AllLeave({p} \cup LeftWithNone(Idle))

SignsIn(p) ==
  /\ May("sessions") /\ StartsSession(p)
  /\ UNCHANGED <<doc, edits, peers, kept, news, distrusts>>

GoesUnused(t) ==
  /\ t \in Live \ Idle /\ May("idles")
  /\ sessions' = [sessions EXCEPT ![t].idle = TRUE]
  /\ UNCHANGED <<doc, late, builds, edits, peers, kept, news, distrusts>>

(* One used again once idle is forgotten, and any other is marked used. *)
Uses(t) ==
  /\ t \in Idle
  /\ Forget({t})
  /\ UNCHANGED <<doc, edits, peers, kept, news, distrusts, may>>

SignsOut(t) ==
  /\ t \in Live /\ May("leaves")
  /\ Forget({t})
  /\ UNCHANGED <<doc, edits, peers, kept, news, distrusts>>

-----------------------------------------------------------------------------
(* Changes to a list, one at a time. *)

NoTurn == [by |-> "none", at |-> "free", identity |-> Me, trusted |-> 0, held |-> NothingFound]
Turn(by, identity, trusted) ==
  [by |-> by, at |-> "read", identity |-> identity, trusted |-> trusted, held |-> NothingFound]

Free(o) == \A other \in IF o = Me THEN {Me} ELSE People : turn[other] = NoTurn

(* What becomes of a distrust as its change is answered. *)
AfterFalse_Kept(missing) ==
  IF missing THEN [distrusts EXCEPT !.distrusting = FALSE, !.resting = TRUE]
  ELSE [distrusts EXCEPT !.distrusting = FALSE]
AfterFalse(missing) ==
  IF missing THEN [distrusts EXCEPT !.distrusting = FALSE, !.resting = TRUE]
  ELSE [distrusts EXCEPT !.waiting = Tail(@), !.distrusting = Len(distrusts.waiting) > 1]

Answers(o, missing) ==
  /\ turn' = [turn EXCEPT ![o] = NoTurn]
  /\ distrusts' = IF turn[o].by = "false" THEN AfterFalse(missing) ELSE distrusts

(* A person signed in, or the operator, asks for a change. *)
Asks(o, identity, trusted) ==
  /\ Free(o) /\ identity # o /\ May("changes")
  /\ o # Me => \E t \in Live \ Idle : sessions[t].person = o
  /\ turn' = [turn EXCEPT ![o] = Turn("request", identity, trusted)]
  /\ UNCHANGED <<doc, late, sessions, builds, remembered, placed, peers, kept, news, distrusts>>

HeldOf_Found(o) == FoundOf(o)
(* What is held, with what the last change placed. *)
HeldOf(o) == [FoundOf(o) EXCEPT !.versions = @ \cup remembered[o]]

Outdated_All(versions) == versions
Outdated(versions) == Replaced(versions)

Reads(o) ==
  /\ turn[o].at = "read"
  /\ LET held == HeldOf(o)
         same == EntriesOf(held.versions)[turn[o].identity] = turn[o].trusted
     IN /\ remembered' =
             [remembered EXCEPT ![o] = IF @ \subseteq FoundOf(o).versions THEN {} ELSE @]
        /\ IF held.missing # {}
           THEN doc' = AskedFor(held.missing) /\ Answers(o, TRUE)
           ELSE /\ doc' = ShunAsked(IdsOf(Outdated(held.versions)))
                /\ IF same THEN Answers(o, FALSE)
                   ELSE /\ turn' = [turn EXCEPT ![o].at = "place", ![o].held = held]
                        /\ UNCHANGED distrusts
  /\ UNCHANGED <<late, sessions, builds, placed, peers, kept, news, may>>

Places(o) ==
  /\ turn[o].at = "place"
  /\ Ids \ DOMAIN doc # {}
  /\ LET i == CHOOSE i \in Ids \ DOMAIN doc : TRUE
         t == turn[o]
         versions == t.held.versions
         made == [owner |-> o, number |-> next_number(versions), shunned |-> "no", at |-> "uploaded",
                  entries |-> [EntriesOf(versions) EXCEPT ![t.identity] = t.trusted]]
         newest == versions \ Replaced(versions)
     IN /\ doc' = Joining(ShunAsked(IdsOf(newest)), i, made)
        /\ placed' = [placed EXCEPT ![o] = Append(@, i)]
        /\ turn' = [turn EXCEPT ![o].at = "tell"]
  /\ UNCHANGED <<late, sessions, builds, remembered, peers, kept, news, distrusts, may>>

PlaceFails(o) ==
  /\ turn[o].at = "place" /\ May("failures")
  /\ Answers(o, FALSE)
  /\ UNCHANGED <<doc, late, sessions, builds, remembered, placed, peers, kept, news>>

ReadsFail(o) ==
  /\ turn[o].at = "read" /\ May("failures")
  /\ Answers(o, TRUE)
  /\ UNCHANGED <<doc, late, sessions, builds, remembered, placed, peers, kept, news>>

Tells(o) ==
  /\ turn[o].at = "tell"
  /\ LET i == Last(placed[o])
     IN /\ remembered' = [remembered EXCEPT ![o] = {VersionOf(i)}]
        /\ builds' = Handed(o, doc[i].entries)
  /\ Answers(o, FALSE)
  /\ UNCHANGED <<doc, late, sessions, placed, peers, kept, news, may>>


-----------------------------------------------------------------------------
(* Whom this node's peers are chosen by. *)

Says(trust) == [states |-> trust.states, only |-> trust.only]
NoStates == [i \in Identities |-> 0]

(* What a build has read so far is laid over what the last complete one     *)
(* said, or over what was kept.                                              *)
OverSettled(settled, said) == [i \in Identities |-> IF said[i] # 0 THEN said[i] ELSE settled[i]]

Updated(trust, build) ==
  LET said == build.scores.states
      now == IF complete(build.scores)
             THEN [trust EXCEPT !.settled = said, !.states = said, !.known = TRUE, !.complete = TRUE]
             ELSE [trust EXCEPT !.states = OverSettled(trust.settled, said)]
  IN IF now.known THEN [now EXCEPT !.published = {Says(now)}] ELSE now

(* The stats module keeps what is published in place of what it kept. *)
Publishes(trust) ==
  /\ peers' = trust
  /\ kept' = IF peers'.published = peers.published THEN kept
             ELSE (CHOOSE trusted \in peers'.published : TRUE).states

Checks ==
  /\ Publishes(Updated(peers, builds[Me]))
  /\ UNCHANGED <<doc, late, sessions, builds, edits, news, distrusts, may>>

(* It is time to build the scores again: an hour is long enough for a       *)
(* build, and for what it says to be taken up, but for the hasty.            *)
Rebuilds ==
  /\ May(IF builds[Me].reading \/ Updated(peers, builds[Me]) # peers THEN "hasty" ELSE "rebuilds")
  /\ builds' = [builds EXCEPT ![Me] = NewBuild(Me)]
  /\ late' = AllLeave({Me})
  /\ Publishes(Updated(peers, NewBuild(Me)))
  /\ UNCHANGED <<doc, sessions, edits, news, distrusts>>

TakesKept ==
  /\ news # {}
  /\ news' = {}
  /\ IF peers.complete THEN UNCHANGED <<peers, kept>>
     ELSE \E said \in news : Publishes(Updated([peers EXCEPT !.settled = said, !.known = TRUE], builds[Me]))
  /\ UNCHANGED <<doc, late, sessions, builds, edits, distrusts, may>>

(* The operator has it connect only to those it trusts, or not. *)
Connecting ==
  /\ May("rules")
  /\ Publishes(Updated([peers EXCEPT !.only = ~@], builds[Me]))
  /\ UNCHANGED <<doc, late, sessions, builds, edits, news, distrusts>>

-----------------------------------------------------------------------------
(* Whoever built a false Karma block. *)

Starting(false) ==
  IF false.distrusting \/ false.waiting = <<>> \/ false.resting THEN false
  ELSE [false EXCEPT !.distrusting = TRUE]

Joined(waiting, identity) ==
  IF identity \in Range(waiting) THEN waiting ELSE Append(waiting, identity)

FalseFound(block) ==
  /\ May(block)
  /\ distrusts' = Starting([distrusts EXCEPT !.waiting = FoldLeft(Joined, @, Signed[block])])
  /\ UNCHANGED <<doc, late, sessions, builds, edits, peers, kept, news>>

FalseCheck ==
  /\ Starting(distrusts) # distrusts
  /\ distrusts' = Starting(distrusts)
  /\ UNCHANGED <<doc, late, sessions, builds, edits, peers, kept, news, may>>

(* In turn with the operator's changes; this node itself is passed over. *)
Distrusts ==
  /\ distrusts.distrusting
  /\ LET identity == Head(distrusts.waiting)
     IN IF identity = Me THEN distrusts' = AfterFalse(FALSE) /\ UNCHANGED turn
        ELSE /\ Free(Me)
             /\ turn' = [turn EXCEPT ![Me] = Turn("false", identity, -1)]
             /\ UNCHANGED distrusts
  /\ UNCHANGED <<doc, late, sessions, builds, remembered, placed, peers, kept, news, may>>

Rested ==
  /\ distrusts.resting
  /\ distrusts' = [distrusts EXCEPT !.resting = FALSE]
  /\ UNCHANGED <<doc, late, sessions, builds, edits, peers, kept, news, may>>

-----------------------------------------------------------------------------
(* What other modules, nodes and devices do. *)

(* The validator stores what is uploaded, unless it is shunned. *)
Stores(i) ==
  /\ i \in At({"uploaded"})
  /\ doc' = [doc EXCEPT ![i].at = IF i \in Unshunned THEN "held" ELSE "gone"]
  /\ UNCHANGED <<late, sessions, builds, edits, peers, kept, news, distrusts, may>>

(* The stats module shuns what it is asked to. *)
Shuns(i) ==
  /\ doc[i].shunned = "asked"
  /\ doc' = [doc EXCEPT ![i].shunned = "shunned"]
  /\ UNCHANGED <<late, sessions, builds, edits, peers, kept, news, distrusts, may>>

(* A peer answers a search, or what was asked of it. *)
Hears(i) ==
  /\ i \in At({"elsewhere"})
  /\ doc' = [doc EXCEPT ![i].at = "known"]
  /\ UNCHANGED <<late, sessions, builds, edits, peers, kept, news, distrusts, may>>
Arrives(i) ==
  /\ i \in At({"asked"}) \cap Unshunned
  /\ doc' = [doc EXCEPT ![i].at = "held"]
  /\ UNCHANGED <<late, sessions, builds, edits, peers, kept, news, distrusts, may>>

(* An owner changes their list on another node. *)
PlacesElsewhere(o) ==
  /\ May("elsewhere")
  /\ \E i \in Elsewhere \ DOMAIN doc, wish \in Wishes :
       LET versions == VersionsOf(o, DOMAIN doc)
           identity == wish[1]
           trusted == wish[2]
       IN doc' = Joining(doc, i, [owner |-> o, number |-> next_number(versions), shunned |-> "no",
                                  at |-> "elsewhere",
                                  entries |-> [EntriesOf(versions) EXCEPT ![identity] = trusted]])
  /\ UNCHANGED <<late, sessions, builds, edits, peers, kept, news, distrusts>>

-----------------------------------------------------------------------------
(* The process, starting and started again. *)

FirstBuilds == [o \in Owners |-> IF o = Me THEN NewBuild(Me) ELSE NoBuild]
NoEdits == [o \in Owners |-> NoTurn]
NonePlaced == [o \in Owners |-> <<>>]
NoneRemembered == [o \in Owners |-> {}]
NoneFalse == [waiting |-> <<>>, distrusting |-> FALSE, resting |-> FALSE]
FirstPeers(only) ==
  [settled |-> NoStates, known |-> FALSE, complete |-> FALSE, states |-> NoStates, only |-> only,
   published |-> {}]

(* What is published and asked for outlives the process; nothing else does  *)
(* but what is stored, uploaded, or kept of the rule.                        *)
Restarts ==
  /\ May("restarts")
  /\ late' = {} /\ sessions' = [t \in Tokens |-> NoSession] /\ builds' = FirstBuilds
  /\ turn' = NoEdits /\ placed' = NonePlaced /\ remembered' = NoneRemembered
  /\ distrusts' = NoneFalse
  /\ peers' = FirstPeers(peers.only) /\ news' = {kept}
  /\ UNCHANGED <<doc, kept>>

(* A process that starts, or, of a node with no list, one that has been up. *)
Built == [NewBuild(Me) EXCEPT !.lists[Me] = NoEntries, !.scores = NoScores, !.reading = FALSE, !.at = "idle"]
Up(only) == [FirstPeers(only) EXCEPT !.known = TRUE, !.complete = TRUE,
                                     !.published = {[states |-> NoStates, only |-> only]}]

Init ==
  \E start \in Starts :
    /\ doc = start.doc /\ kept = start.kept /\ may = start.may
    /\ late = {} /\ sessions = [t \in Tokens |-> NoSession]
    /\ turn = NoEdits /\ placed = NonePlaced /\ remembered = NoneRemembered
    /\ distrusts = NoneFalse
    /\ builds = IF start.up THEN [FirstBuilds EXCEPT ![Me] = Built] ELSE FirstBuilds
    /\ peers = IF start.up THEN Up(FALSE) ELSE FirstPeers(FALSE)
    /\ news = IF start.up THEN {} ELSE {start.kept}

-----------------------------------------------------------------------------
JobStep(o) == Scores(o) \/ Done(o) \/ Looks(o) \/ Takes(o) \/ RoundEnds(o) \/ LooksAgain(o)
EditStep(o) == Reads(o) \/ Places(o) \/ Tells(o)

Next ==
  \/ \E o \in Owners : \/ JobStep(o) \/ HasWaited(o) \/ ReadFails(o)
                        \/ EditStep(o) \/ ReadsFail(o) \/ PlaceFails(o)
                        \/ \E wish \in Wishes : Asks(o, wish[1], wish[2])
  \/ \E p \in People : SignsIn(p)
  \/ \E t \in Tokens : GoesUnused(t) \/ Uses(t) \/ SignsOut(t)
  \/ \E block \in DOMAIN Signed : FalseFound(block)
  \/ LateShuns \/ Checks \/ Rebuilds \/ TakesKept \/ Connecting
  \/ FalseCheck \/ Distrusts \/ Rested
  \/ \E i \in DOMAIN doc : Stores(i) \/ Shuns(i) \/ Hears(i) \/ Arrives(i)
  \/ \E o \in Identities : PlacesElsewhere(o)
  \/ Restarts

vars == <<trustVars, may>>
Spec == Init /\ [][Next]_vars

(* Threads run, on_idle is called, waits end, and what is stored, shunned   *)
(* and asked of peers is answered.                                           *)
FairSpec ==
  /\ Spec
  /\ WF_vars(JobStep(Me)) /\ WF_vars(HasWaited(Me)) /\ WF_vars(EditStep(Me))
  /\ WF_vars(LateShuns) /\ WF_vars(Checks) /\ WF_vars(Rebuilds) /\ WF_vars(TakesKept)
  /\ WF_vars(FalseCheck) /\ WF_vars(Distrusts) /\ WF_vars(Rested)
  /\ WF_vars(\E i \in DOMAIN doc : Stores(i) \/ Shuns(i) \/ Arrives(i))

-----------------------------------------------------------------------------
(* Properties. *)

(* A person has a build just while they have a session: none is ended by    *)
(* the end of one of two sessions, and none goes on past the last.  A build *)
(* scores by the last version a change handed it, whatever it reads         *)
(* meanwhile; and one that is done, and did not fail, lacks no list.        *)
BuildsKeepUp ==
  /\ \A p \in People : builds[p].on <=> p \in PeopleIn(Tokens)
  /\ \A o \in Owners :
       LET b == builds[o]
       IN /\ b.handed # Unread => b.lists[o] = b.handed
          /\ b.on /\ ~b.reading /\ ~b.failed => complete(ScoresOf(o, b.lists))

(* No version is shunned but for a newer one of the same list, which is     *)
(* here and is not shunned: however builds, changes and other devices come  *)
(* between one another, a list never loses its newest version.              *)
NewestNotShunned ==
  \A i \in DOMAIN doc :
    doc[i].shunned # "no" =>
      \E j \in At({"uploaded", "held"}) :
        doc[j].owner = doc[i].owner /\ doc[j].shunned = "no" /\ Newer(VersionOf(j), VersionOf(i))

(* Versions placed here one after another build on one another: each is     *)
(* newer than the last, and differs in one entry from it, or from a version *)
(* newer than it that was found; no change is lost to one made before what  *)
(* the last placed can be found.                                             *)
Differences(v, w) == {i \in Identities : v[i] # w[i]}
ChangesAccumulate ==
  \A o \in Owners : \A k \in 2 .. Len(placed[o]) :
    LET i == placed[o][k]
        before == placed[o][k - 1]
    IN \E j \in DOMAIN doc : /\ doc[j].owner = o
                            /\ (j = before \/ Newer(VersionOf(j), VersionOf(before)))
                            /\ doc[i].number = doc[j].number + 1
                            /\ Cardinality(Differences(doc[i].entries, doc[j].entries)) = 1

(* Whoever the lists held make this node trust and distrust is what it says *)
(* again and again, with the rule its operator gave, while it builds its    *)
(* scores again, whatever was lost, late or failed before; and whoever      *)
(* built a false block is at last distrusted, or passed over.               *)
Truth == ScoresOf(Me, [o \in Identities |-> EntriesOf(VersionsOf(o, At({"held"}) \cap Unshunned))]).states
WordGetsOut ==
  /\ []<>(may["rebuilds"] = Always => peers.published = {[states |-> Truth, only |-> peers.only]})
  /\ []<>(distrusts.waiting = <<>>)
=============================================================================
