------------------------------- MODULE AppStore -------------------------------
(***************************************************************************)
(* The values one application keeps (ApplicationStore): a file, what was   *)
(* last read of it, and the lock under which the threads of the web server *)
(* read, check and replace it.                                             *)
(*                                                                         *)
(* A value is a number, which is its size and its tag too.  A version is   *)
(* what tells a file from the one it replaced; the file there is none of   *)
(* has version 0.                                                          *)
(***************************************************************************)
EXTENDS Integers, SequencesExt

CONSTANTS
  Keys,
  MaxValue,  \* the most a value may hold
  MaxStore   \* and the most they may together

ASSUME StoreAssumption == IsFiniteSet(Keys) /\ MaxValue \in Nat /\ MaxStore \in Nat

VARIABLES
  stored,    \* what is on disk
  lastRead,  \* KeptRead: what was last read of it, and of which version
  changing   \* the change being made under the lock: whose, and of what

store == <<stored, lastRead, changing>>

NoValues == [k \in {} |-> 0]
NoFile == [version |-> 0, values |-> NoValues, usable |-> TRUE]
File(version, values) == [version |-> version, values |-> values, usable |-> TRUE]
NothingRead == [version |-> 0, values |-> NoValues]

StoreInit(start) == stored = start /\ lastRead = NothingRead /\ changing = {}

StoreFree == changing = {}

-----------------------------------------------------------------------------
(* _current: the file is looked at, and read if it is not what was read.   *)

Readable == stored.version = 0 \/ lastRead.version = stored.version \/ stored.usable
Current == IF stored.version = 0 THEN NoValues
           ELSE IF lastRead.version = stored.version THEN lastRead.values ELSE stored.values
ReadNow == IF stored.version = 0 THEN NothingRead
           ELSE IF Readable THEN [version |-> stored.version, values |-> Current]
           ELSE lastRead

Held(key) == key \in DOMAIN Current

Reads == StoreFree /\ lastRead' = ReadNow /\ UNCHANGED <<stored, changing>>

(* If-Match: nothing asked, any value held, or the value of a tag held.    *)
Matches(match, key) ==
  \/ match.kind = "none"
  \/ match.kind = "any" /\ Held(key)
  \/ match.kind = "tag" /\ Held(key) /\ Current[key] = match.tag

-----------------------------------------------------------------------------
(* A change.  The status it is answered with is known once it is looked    *)
(* into, unless there is something to save: 0.                             *)

ValueTooLarge(value) == value > MaxValue

PutStatus(match, key) ==
  CASE ~Readable -> 500
    [] ~Matches(match, key) -> 412
    [] OTHER -> 0

RemovalStatus(match, key) ==
  CASE ~Readable -> 500
    [] ~Matches(match, key) -> 412
    [] ~Held(key) -> 404
    [] OTHER -> 0

PutValues(key, value) ==
  [k \in DOMAIN Current \cup {key} |-> IF k = key THEN value ELSE Current[k]]
ValuesLess(key) == [k \in DOMAIN Current \ {key} |-> Current[k]]

(* Mutant of LooksInto: the lock is let go before a change is saved.       *)
LooksIntoUnlocked(at, status, values, saved) ==
  /\ lastRead' = ReadNow
  /\ changing' = IF status = 0
                 THEN changing \cup {[at |-> at, values |-> values, saved |-> saved]}
                 ELSE changing
  /\ UNCHANGED stored

(* The lock is kept from looking into a change until it is saved.          *)
LooksInto(at, status, values, saved) ==
  /\ StoreFree
  /\ lastRead' = ReadNow
  /\ changing' = IF status = 0
                 THEN changing \cup {[at |-> at, values |-> values, saved |-> saved]}
                 ELSE changing
  /\ UNCHANGED stored

ChangeOf(at) == CHOOSE change \in changing : change.at = at

KeptBytes(values) == UNION {{<<k, byte>> : byte \in 1..values[k]} : k \in DOMAIN values}
Size(values) == Cardinality(KeptBytes(values))
TooLarge(change) == Size(change.values) > MaxStore

Ends(at) == changing' = changing \ {ChangeOf(at)}

(* _save: a file is replaced by another, or removed if nothing is kept.    *)
Saves(at, version) ==
  /\ ~TooLarge(ChangeOf(at))
  /\ version # stored.version
  /\ stored' = IF ChangeOf(at).values = NoValues THEN NoFile
             ELSE File(version, ChangeOf(at).values)
  /\ lastRead' = NothingRead
  /\ Ends(at)

Refuses(at) == TooLarge(ChangeOf(at)) /\ Ends(at) /\ UNCHANGED <<stored, lastRead>>

(* The disk is full, or the file cannot be replaced: it stays as it was.   *)
SaveFails(at) == ~TooLarge(ChangeOf(at)) /\ Ends(at) /\ UNCHANGED <<stored, lastRead>>
=============================================================================
