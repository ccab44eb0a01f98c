------------------------------- MODULE Backup -------------------------------
(***************************************************************************)
(* The backup process: backup/module.py, with jobs.py, runs.py, builds.py,*)
(* restores.py, exports.py, imports.py, kept_archives.py and tasks.py.    *)
(*                                                                         *)
(* It does one thing at a time: handles a message, then carries on with   *)
(* the work most due.  While it stores content it also reads its inbox,   *)
(* to hear whether storage is full, and sets every other message aside.   *)
(* One directory is backed up, built, and restored into; one bundle,      *)
(* AskedFor, is restored, exported, and kept in an archive.               *)
(*                                                                         *)
(* Times are counted down, or up to what they are compared with, by Tick. *)
(***************************************************************************)
EXTENDS Layers, SequencesExt

CONSTANTS
  Order,     \* the Paths as a directory lists them
  Interval,  \* between looks at a job
  Stall,     \* how long storage may stay full before what stores gives up
  Ask,       \* how often what is lacked is asked for again
  GiveUp,    \* how long a restore or an archive waits with nothing arriving
  Resume,    \* how long a restore gathers what arrives
  Life,      \* until an archive expires, from when it is asked for
  Source,    \* what the bundle asked for holds
  Starts     \* the scenarios: what there is, and what may happen

ASSUME BackupAssumption ==
  /\ Order \in Seq(Paths) /\ Order # <<>> /\ Range(Order) = Paths
  /\ \A t \in {Interval, Stall, Ask, GiveUp, Resume, Life} : t \in Nat \ {0}
  /\ Source \in Directories
  /\ \A start \in Starts : start.directory \in Directories

VARIABLES
  jobs_file,      \* whether the directory is a job, and its latest backup
  expanded_file,  \* that backup kept expanded
  record_file,    \* the bundle recorded beside the directory
  archive_file,   \* whether the kept archive is there
  kept_file,      \* the record of it
  directory,      \* what the directory holds now
  store,          \* the objects held in the source of truth
  mem,            \* what a restart forgets
  work,           \* the work under way
  mail,           \* messages to the module
  filled,         \* whether storage is full, as eviction has it
  announcing,     \* objects others have stored, and not yet said so
  sought,         \* objects this node has asked for
  left,           \* what of the scenario may still happen
  stored,         \* history: every object that was ever stored
  since,          \* history: how long a restore has had nothing of what it waits on
  told,           \* history: how many requests the module has been sent
  heeded          \* history: the last of them it handled

files == <<jobs_file, expanded_file, record_file, archive_file, kept_file>>
backupHistory == <<stored, since, told, heeded>>
backupVars == <<bundles, files, directory, store, mem, work, mail, filled, announcing, sought, left, backupHistory>>

AskedFor == 1
Empty == [p \in Paths |-> Absent]

(* What is held, archives counted: LayeredSource. *)
Held == store \cup (IF archive_file THEN Needed(AskedFor) ELSE {})

-----------------------------------------------------------------------------
(* Records: the latest backup of a job, the record of a build, a task that *)
(* waits on content (ContentWaiting), an archive kept.                     *)

NoLatest == [bundle |-> Unknown, layers |-> Unknown, entries |-> Empty]
NoJob == [configured |-> FALSE, latest |-> NoLatest]
NoRecord == [expanded |-> NotExpanded, protection |-> "plain"]
NotKept == [kept |-> FALSE, expires |-> 0]

NoRestore ==
  [status |-> "none", due |-> 0, arrived |-> 0, asked |-> Ask, missing |-> {},
   gave_up |-> FALSE, read |-> FALSE, started |-> FALSE, pending |-> {}, overwrite |-> FALSE]
NoArchive == [status |-> "none", due |-> 0, arrived |-> 0, asked |-> Ask, missing |-> {}, expires |-> 0]

IsDue(task) == task.status = "waiting" /\ task.due = 0
Earlier(s, t) == IF s < t THEN s ELSE t
Later(t, limit) == IF t < limit THEN t + 1 ELSE t
Sooner(t) == IF t > 0 THEN t - 1 ELSE t

fail(task) == [task EXCEPT !.status = "failed", !.missing = {}]
ask_again(task) == [task EXCEPT !.due = 0, !.arrived = 0, !.asked = Ask]

(* Content a task waits on has arrived. *)
landed(task, o, resume) ==
  IF o \notin task.missing THEN task
  ELSE LET rest == task.missing \ {o} IN
       [task EXCEPT !.missing = rest, !.arrived = 0,
                    !.due = IF rest = {} THEN 0 ELSE Earlier(@, resume)]

(* An archive, written whole, carries on once nothing is missing. *)
archive_landed(task, o) == landed(task, o, IF o \in task.missing /\ task.missing # {o} THEN task.due ELSE 0)

(* A pass found content missing: wait on it, or give up. *)
(* MUTANT: only the news of content counts as its arrival. *)
Arrived_AsTold(task, missing) == task.arrived
Arrived(task, missing) == IF task.missing \ missing # {} THEN 0 ELSE task.arrived
GivesUp(task, missing) == missing # {} /\ Arrived(task, missing) >= GiveUp
Asking(task, missing) == IF task.asked >= Ask THEN missing ELSE missing \ task.missing

WaitOn(task, missing) ==
  IF GivesUp(task, missing) THEN [fail(task) EXCEPT !.arrived = Arrived(task, missing)]
  ELSE LET arrived == Arrived(task, missing)
           asked == IF task.asked >= Ask THEN 0 ELSE task.asked
       IN [task EXCEPT !.status = "waiting", !.missing = missing, !.arrived = arrived, !.asked = asked,
                       !.due = Earlier(Ask - asked, GiveUp - arrived)]

-----------------------------------------------------------------------------
(* The memory, and what is under way. *)

Forgotten ==
  [alive |-> FALSE, job |-> NoJob, due |-> 0, requested |-> FALSE, status |-> "waiting", full |-> FALSE,
   aside |-> <<>>, restore |-> NoRestore, tasks |-> <<>>, archive |-> NoArchive, kept |-> NotKept]

Resting ==
  [doing |-> "rest", at |-> "rest", todo |-> <<>>, entries |-> Empty, entry |-> Absent, earlier |-> NotExpanded,
   loaded |-> NotExpanded, publish |-> FALSE, protection |-> "plain", want |-> <<>>, waits |-> FALSE,
   stall |-> 0, bundle |-> Unknown, result |-> NotExpanded, missing |-> {}]

(* A step of the scenario, and files that may fail to be written. *)
Spend(what) == left[what] > 0 /\ left' = [left EXCEPT ![what] = @ - 1]
Works(ok) == \/ ok /\ UNCHANGED left
             \/ ~ok /\ Spend("fails")

At(doing, at) == mem.alive /\ work.doing = doing /\ work.at = at

(* The module is done with its work, which came to this. *)
Done(m) == mem' = m /\ work' = Resting

-----------------------------------------------------------------------------
(* Messages. *)

Message(event, o, n) == [event |-> event, object |-> o, n |-> n]

(* What eviction said of storage is taken from the inbox wherever it is;   *)
(* the rest is set aside.                                                   *)
OfStorage(message) == message.event \in {"full", "room"}
Said == SelectSeq(mail, OfStorage)
Full == IF Said = <<>> THEN mem.full ELSE Last(Said).event = "full"
NotOfStorage(messages) ==
  LET rest[n \in 0..Len(messages)] ==
        IF n = 0 THEN <<>>
        ELSE IF OfStorage(messages[n]) THEN rest[n - 1] ELSE Append(rest[n - 1], messages[n])
  IN rest[Len(messages)]
(* MUTANT: what is set aside later goes first. *)
SetAside_LastFirst == NotOfStorage(mail) \o mem.aside
SetAside == mem.aside \o NotOfStorage(mail)

(* The next message: one set aside first. *)
NextMessage == IF mem.aside # <<>> THEN Head(mem.aside) ELSE Head(mail)
Hears(event) ==
  /\ At("rest", "rest")
  /\ mem.aside # <<>> \/ mail # <<>>
  /\ NextMessage.event = event
  /\ mail' = IF mem.aside # <<>> THEN mail ELSE Tail(mail)
  /\ heeded' = IF NextMessage.n > 0 THEN NextMessage.n ELSE heeded

Taken == [mem EXCEPT !.aside = IF @ # <<>> THEN Tail(@) ELSE @]
Handled(m) == mem' = m /\ work' = [Resting EXCEPT !.doing = "next", !.at = "expire"]
(* A handler that failed: nothing more is done until the next message. *)
Failed == mem' = Taken /\ UNCHANGED work

OnStorageFull ==
  \E event \in {"full", "room"} :
    /\ Hears(event)
    /\ Handled([Taken EXCEPT !.full = event = "full"])
    /\ UNCHANGED <<bundles, files, directory, store, filled, announcing, sought, left, stored, since, told>>

(* Jobs are saved before they are the jobs kept. *)
Keep(job, ok, m) ==
  /\ Works(ok)
  /\ jobs_file' = IF ok THEN job ELSE jobs_file
  /\ IF ok THEN Handled([m EXCEPT !.job = job]) ELSE Failed

OnJobConfigured ==
  /\ Hears("configured")
  /\ \E ok \in BOOLEAN : Keep([mem.job EXCEPT !.configured = TRUE], ok, [Taken EXCEPT !.due = 0])
  /\ UNCHANGED <<bundles, expanded_file, record_file, archive_file, kept_file, directory, store, filled,
                 announcing, sought, stored, since, told>>

OnJobRemoved ==
  /\ Hears("removed")
  /\ \E ok \in BOOLEAN :
       IF mem.job.configured
       THEN /\ Keep(NoJob, ok, [Taken EXCEPT !.requested = FALSE, !.status = "waiting"])
            /\ expanded_file' \in IF ok THEN {NotExpanded, expanded_file} ELSE {expanded_file}
       ELSE ok /\ Handled(Taken) /\ UNCHANGED <<jobs_file, expanded_file, left>>
  /\ UNCHANGED <<bundles, record_file, archive_file, kept_file, directory, store, filled, announcing,
                 sought, stored, since, told>>

OnRunRequested ==
  /\ Hears("run")
  /\ Handled([Taken EXCEPT !.requested = mem.job.configured])
  /\ UNCHANGED <<bundles, files, directory, store, filled, announcing, sought, left, stored, since, told>>

CanCarryOn(restore) == restore.status = "waiting" \/ restore.gave_up

OnRestoreRequested ==
  \E overwrite \in BOOLEAN :
    /\ Hears(IF overwrite THEN "restore over" ELSE "restore")
    /\ LET r == mem.restore
       IN Handled([Taken EXCEPT !.restore =
            IF CanCarryOn(r)
            THEN [ask_again(r) EXCEPT !.status = "waiting", !.gave_up = FALSE, !.overwrite = overwrite]
            ELSE [NoRestore EXCEPT !.status = "waiting", !.overwrite = overwrite]])
    /\ since' = 0
    /\ UNCHANGED <<bundles, files, directory, store, filled, announcing, sought, left, stored, told>>

(* One asked for again starts over, last in turn. *)
OnTaskRequested ==
  \E task \in {"build", "protected build", "export", "import"} :
    /\ Hears(task)
    /\ Handled([Taken EXCEPT !.tasks = Append(SelectSeq(@, LAMBDA other : other # task), task)])
    /\ UNCHANGED <<bundles, files, directory, store, filled, announcing, sought, left, stored, since, told>>

OnArchiveRequested ==
  /\ Hears("archive")
  /\ \E ok \in BOOLEAN :
       IF mem.kept.kept
       THEN LET kept == [kept |-> TRUE, expires |-> Life]
            IN /\ Works(ok)
               /\ kept_file' = IF ok THEN kept ELSE kept_file
               /\ IF ok THEN Handled([Taken EXCEPT !.kept = kept]) ELSE Failed
       ELSE /\ ok /\ UNCHANGED <<kept_file, left>>
            /\ Handled([Taken EXCEPT !.archive =
                 IF @.status = "waiting" THEN [ask_again(@) EXCEPT !.expires = Life]
                 ELSE [NoArchive EXCEPT !.status = "waiting", !.expires = Life]])
  /\ UNCHANGED <<bundles, jobs_file, expanded_file, record_file, archive_file, directory, store, filled,
                 announcing, sought, stored, since, told>>

(* The archive is deleted, then its record; a record that cannot be saved  *)
(* is forgotten all the same.                                               *)
(* MUTANT: an archive that could not be deleted is forgotten. *)
Removed_AllTheSame(m, unlinked) == [m EXCEPT !.archive = NoArchive, !.kept = NotKept]
Removed(m, unlinked) == [m EXCEPT !.archive = NoArchive, !.kept = IF unlinked THEN NotKept ELSE @]
RemoveArchive(unlinked, saved) ==
  /\ Works(unlinked /\ saved)
  /\ archive_file' = (archive_file /\ ~(mem.kept.kept /\ unlinked))
  /\ kept_file' = IF mem.kept.kept /\ unlinked /\ saved THEN NotKept ELSE kept_file

OnArchiveRemoved ==
  /\ Hears("archive removed")
  /\ \E unlinked, saved \in BOOLEAN :
       RemoveArchive(unlinked, saved) /\ Handled(Removed(Taken, unlinked))
  /\ UNCHANGED <<bundles, jobs_file, expanded_file, record_file, directory, store, filled, announcing,
                 sought, stored, since, told>>

OnDataStored ==
  /\ Hears("stored")
  /\ LET o == NextMessage.object
     IN Handled([Taken EXCEPT !.restore = landed(@, o, Resume), !.archive = archive_landed(@, o)])
  /\ UNCHANGED <<bundles, files, directory, store, filled, announcing, sought, left, stored, since, told>>

-----------------------------------------------------------------------------
(* The work most due: _work_next. *)

(* MUTANT: a job that failed is looked at again only when it is asked for. *)
JobDue_NotFailed == mem.job.configured /\ (mem.requested \/ (mem.due = 0 /\ mem.status # "failed"))
JobDue == mem.job.configured /\ (mem.requested \/ mem.due = 0)
Expired == \/ mem.kept.kept /\ mem.kept.expires = 0
           \/ mem.archive.status # "none" /\ mem.archive.expires = 0
AnyDue == IsDue(mem.restore) \/ IsDue(mem.archive) \/ mem.tasks # <<>> \/ JobDue

(* A poll interval passed with nothing to handle. *)
OnIdle ==
  /\ At("rest", "rest")
  /\ mem.aside = <<>> /\ mail = <<>>
  /\ AnyDue \/ Expired
  /\ Handled(mem)
  /\ UNCHANGED <<bundles, files, directory, store, mail, filled, announcing, sought, left, backupHistory>>

Expire ==
  /\ At("next", "expire")
  /\ IF Expired
     THEN \E unlinked, saved \in BOOLEAN : RemoveArchive(unlinked, saved) /\ mem' = Removed(mem, unlinked)
     ELSE UNCHANGED <<archive_file, kept_file, mem, left>>
  /\ work' = [work EXCEPT !.at = "choose"]
  /\ UNCHANGED <<bundles, jobs_file, expanded_file, record_file, directory, store, mail, filled, announcing,
                 sought, backupHistory>>

(* How work that cannot go on ends. *)
LookEnds(status) == [mem EXCEPT !.status = status, !.due = Interval]
RestoreFailed == [mem EXCEPT !.restore = fail(@)]
ArchiveFailed == [mem EXCEPT !.archive = fail(@)]
WorkFailed == IF work.doing = "job" THEN LookEnds("failed") ELSE mem

(* The latest backup, as kept expanded, if that is what is kept, or else as *)
(* read back, if it is held.                                                *)
(* MUTANT: what is kept expanded is taken for the latest backup. *)
Loaded_Unchecked == IF mem.job.latest = NoLatest THEN NotExpanded ELSE expanded_file
Loaded == IF mem.job.latest = NoLatest \/ expanded_file.bundle # mem.job.latest.bundle THEN NotExpanded ELSE expanded_file
EarlierOfJob ==
  IF mem.job.latest = NoLatest \/ Loaded # NotExpanded THEN Loaded
  ELSE IF Reached(mem.job.latest.bundle) \subseteq store THEN ReadBack(mem.job.latest.bundle, mem.job.latest.layers)
  ELSE NotExpanded

Begins(doing, at) == [Resting EXCEPT !.doing = doing, !.at = at]
BeginsLook ==
  [Begins("job", "walk") EXCEPT !.todo = Order, !.earlier = EarlierOfJob, !.loaded = Loaded,
                                !.publish = mem.requested, !.protection = "secret"]
BeginsTask(task) ==
  CASE task = "export" -> Begins("export", "look")
    [] task = "import" -> [Begins("import", "walk") EXCEPT !.todo = <<Order[1]>>]
    [] OTHER ->
         [Begins("build", "walk") EXCEPT !.todo = Order, !.earlier = record_file.expanded,
                                         !.protection = IF task = "build" THEN "plain" ELSE "password"]

(* The restore or archive longest due, or else what was asked for first,   *)
(* or else the job.  Of two as long due, either.                           *)
WorkNext ==
  /\ At("next", "choose")
  /\ \/ /\ IsDue(mem.restore)
        /\ mem' = [mem EXCEPT !.restore.status = "running"]
        /\ work' = Begins("restore", "place")
     \/ /\ IsDue(mem.archive)
        /\ mem' = [mem EXCEPT !.archive.status = "running"]
        /\ work' = Begins("archive", "look")
     \/ /\ ~IsDue(mem.restore) /\ ~IsDue(mem.archive)
        /\ IF mem.tasks # <<>>
           THEN mem' = [mem EXCEPT !.tasks = Tail(@)] /\ work' = BeginsTask(Head(mem.tasks))
           ELSE IF JobDue
           THEN /\ mem' = [mem EXCEPT !.requested = FALSE, !.status = "running"]
                /\ work' = BeginsLook
           ELSE Done(mem)
  /\ UNCHANGED <<bundles, files, directory, store, mail, filled, announcing, sought, left, backupHistory>>

-----------------------------------------------------------------------------
(* Storing: an object already held is not stored again; for any other      *)
(* there must be room, as eviction last said.  What it said meanwhile is    *)
(* heard first.                                                             *)

Wanted == Head(work.want)
Storing == mem.alive /\ work.want # <<>>
Heard == mem' = [mem EXCEPT !.full = Full, !.aside = SetAside] /\ mail' = <<>>
(* history: a restore that waits on an object has it. *)
WriteObject(o) ==
  /\ store' = store \cup {o} /\ stored' = stored \cup {o}
  /\ since' = IF o \in mem.restore.missing /\ work.doing # "restore" THEN 0 ELSE since

(* An object is stored: the module is not sent its own news of it. *)
Stores ==
  /\ Storing
  /\ IF Wanted.object \in store THEN UNCHANGED <<store, stored, since, mem, mail>>
     ELSE Heard /\ ~mem'.full /\ WriteObject(Wanted.object)
  /\ work' = [work EXCEPT !.want = Tail(@), !.waits = FALSE]
  /\ UNCHANGED <<bundles, files, directory, filled, announcing, sought, left, told, heeded>>

(* There is no room: _make_room waits. *)
WaitsForRoom ==
  /\ Storing
  /\ Wanted.object \notin store
  /\ ~work.waits \/ mail # <<>>
  /\ Heard /\ mem'.full
  /\ work' = [work EXCEPT !.waits = TRUE, !.stall = IF work.waits THEN @ ELSE Stall]
  /\ UNCHANGED <<bundles, files, directory, store, filled, announcing, sought, left, backupHistory>>

(* There was none for too long.  An attribute that cannot be stored leaves  *)
(* its entry out; anything else fails the work.                             *)
StallsOut ==
  /\ Storing /\ work.waits /\ mem.full /\ work.stall = 0
  /\ IF Wanted.attribute
     THEN work' = [work EXCEPT !.want = <<>>, !.waits = FALSE, !.entry = Absent] /\ UNCHANGED mem
     ELSE Done(WorkFailed)
  /\ UNCHANGED <<bundles, files, directory, store, mail, filled, announcing, sought, left, backupHistory>>

-----------------------------------------------------------------------------
(* Walking the directory: build_directory, an entry at a time.  An entry   *)
(* as it was in the bundle before is kept; of one whose bytes are as they   *)
(* were, only attributes too large to be held inline are stored.            *)

ToStore(o, attribute) == [object |-> o, attribute |-> attribute]
KeepsParts(entry, earlier) == earlier # Absent /\ Contents(earlier) = Contents(entry)
WantedOf(entry, earlier) ==
  IF entry = Absent THEN <<>>
  ELSE SetToSeq({ToStore(o, TRUE) : o \in Attributes(entry)}) \o
       (IF KeepsParts(entry, earlier) THEN <<>> ELSE SetToSeq({ToStore(o, FALSE) : o \in Contents(entry)}))

Walking == mem.alive /\ work.doing \in {"job", "build", "import"} /\ work.want = <<>>

Walk ==
  /\ Walking /\ work.at = "walk" /\ work.todo # <<>>
  /\ LET path == Head(work.todo)
         entry == directory[path]
     IN work' = [work EXCEPT !.at = "parts", !.entry = entry,
                             !.want = WantedOf(entry, seen(work.earlier)[path])]
  /\ UNCHANGED <<bundles, files, directory, store, mem, mail, filled, announcing, sought, left, backupHistory>>

Walked ==
  /\ Walking /\ work.at = "parts"
  /\ work' = [work EXCEPT !.at = "walk", !.todo = Tail(@), !.entries[Head(work.todo)] = work.entry]
  /\ UNCHANGED <<bundles, files, directory, store, mem, mail, filled, announcing, sought, left, backupHistory>>

(* A look, a build, or an import fails: the directory cannot be listed, a  *)
(* file cannot be read.                                                     *)
CannotWalk ==
  /\ Walking /\ work.at = "walk" /\ Spend("fails")
  /\ Done(WorkFailed)
  /\ UNCHANGED <<bundles, files, directory, store, mail, filled, announcing, sought, backupHistory>>

(* The new bundle: stored once named. *)
MakesBundle(superseded, supersedes) ==
  LET bundle == NewVersion(superseded, work.entries, supersedes, work.protection)
      name == NameOf(bundle)
  IN /\ Naming(bundle)
     /\ work' = [work EXCEPT !.at = "bundle", !.bundle = name, !.want = <<ToStore(name, FALSE)>>,
                             !.result = Expanded(name, work.entries, bundle.extensions, Len(bundle.extensions))]
     /\ UNCHANGED mem

(* What a build may be layered over: the bundle recorded, protected alike.  *)
(* A password is known to be the one it was protected with only by opening  *)
(* it.                                                                       *)
(* MUTANT: a build is layered over a bundle however that was protected. *)
Alike_HoweverProtected == record_file.expanded # NotExpanded
Alike ==
  /\ record_file.expanded # NotExpanded
  /\ record_file.protection = work.protection
  /\ work.protection = "plain" \/ record_file.expanded.bundle \in store

(* The job's bundle, unless what is kept of the last one will do. *)
JobBundles ==
  LET latest == mem.job.latest
      kept == IF latest = NoLatest THEN NotExpanded
              ELSE Kept(work.earlier, latest, work.entries, work.publish)
  IN IF kept # NotExpanded
     THEN work' = [work EXCEPT !.at = "expanded", !.result = kept] /\ UNCHANGED <<bundles, mem>>
     ELSE MakesBundle(work.earlier, latest.bundle)

BuildBundles ==
  IF Alike /\ work.earlier.entries = work.entries
  THEN Done(mem) /\ UNCHANGED bundles
  ELSE MakesBundle(IF Alike THEN work.earlier ELSE NotExpanded, record_file.expanded.bundle)

Bundles ==
  /\ Walking /\ work.at = "walk" /\ work.todo = <<>>
  /\ CASE work.doing = "job" -> JobBundles
       [] work.doing = "build" -> BuildBundles
       [] work.doing = "import" -> MakesBundle(NotExpanded, Unknown)
  /\ UNCHANGED <<files, directory, store, mail, filled, announcing, sought, left, backupHistory>>

BundleStored ==
  /\ Walking /\ work.at = "bundle"
  /\ IF work.doing = "import" THEN Done(mem)
     ELSE work' = [work EXCEPT !.at = IF work.doing = "job" THEN "expanded" ELSE "record"] /\ UNCHANGED mem
  /\ UNCHANGED <<bundles, files, directory, store, mail, filled, announcing, sought, left, backupHistory>>

(* A job keeps its bundle expanded, then saves that it is the latest. *)
KeepsExpanded ==
  /\ At("job", "expanded") /\ work.want = <<>>
  /\ \E ok \in BOOLEAN :
       IF work.result = work.loaded
       THEN ok /\ work' = [work EXCEPT !.at = "latest"] /\ UNCHANGED <<expanded_file, mem, left>>
       ELSE /\ Works(ok)
            /\ expanded_file' = IF ok THEN work.result ELSE expanded_file
            /\ IF ok THEN work' = [work EXCEPT !.at = "latest"] /\ UNCHANGED mem ELSE Done(WorkFailed)
  /\ UNCHANGED <<bundles, jobs_file, record_file, archive_file, kept_file, directory, store, mail, filled,
                 announcing, sought, backupHistory>>

Latest ==
  IF work.bundle = Unknown THEN mem.job.latest
  ELSE [bundle |-> work.bundle, layers |-> work.result.layers, entries |-> work.entries]

KeepsLatest ==
  /\ At("job", "latest")
  /\ \E ok \in BOOLEAN :
       LET job == [mem.job EXCEPT !.latest = Latest]
       IN /\ IF job = mem.job THEN ok /\ UNCHANGED left ELSE Works(ok)
          /\ jobs_file' = IF ok THEN job ELSE jobs_file
          /\ Done(IF ok THEN [LookEnds("waiting") EXCEPT !.job = job] ELSE WorkFailed)
  /\ UNCHANGED <<bundles, expanded_file, record_file, archive_file, kept_file, directory, store, mail, filled,
                 announcing, sought, backupHistory>>

RecordsBuild ==
  /\ At("build", "record")
  /\ \E ok \in BOOLEAN :
       /\ Works(ok)
       /\ record_file' = IF ok THEN [expanded |-> work.result, protection |-> work.protection] ELSE record_file
  /\ Done(mem)
  /\ UNCHANGED <<bundles, jobs_file, expanded_file, archive_file, kept_file, directory, store, mail, filled,
                 announcing, sought, backupHistory>>

(* An export writes what the bundle needs, or asks for what it lacks. *)
Exports ==
  /\ At("export", "look")
  /\ sought' = sought \cup (Needed(AskedFor) \ Held)
  /\ Done(mem)
  /\ UNCHANGED <<bundles, files, directory, store, mail, filled, announcing, left, backupHistory>>

-----------------------------------------------------------------------------
(* A pass of a restore.  It places what is held of what is left, then       *)
(* waits on the rest, or is done, and records the bundle it restored.       *)

Refused == ~mem.restore.started /\ ~mem.restore.overwrite /\ directory # Empty

(* A file or a symlink is written under another name, then renamed over    *)
(* what is there, if the restore may overwrite.                             *)
Free(p) == mem.restore.overwrite \/ directory[p] = Absent
Writes(held, entries) == directory' = [p \in Paths |-> IF p \in held /\ Free(p) THEN entries[p] ELSE directory[p]]

RestorePlaces ==
  /\ At("restore", "place")
  /\ LET r == mem.restore
         entries == resolve_directory(AskedFor)
         pending == IF r.read THEN r.pending ELSE {p \in Paths : entries[p] # Absent}
         held == {p \in pending : Parts(entries[p]) \subseteq Held}
     IN IF Refused THEN Done(RestoreFailed) /\ UNCHANGED directory
        ELSE IF ~r.read /\ ~(Reached(AskedFor) \subseteq Held)
        THEN /\ work' = [work EXCEPT !.at = "settle", !.missing = Reached(AskedFor) \ Held]
             /\ UNCHANGED <<mem, directory>>
        ELSE /\ Writes(held, entries)
             /\ mem' = [mem EXCEPT !.restore.read = TRUE, !.restore.started = TRUE,
                                   !.restore.pending = pending \ held]
             /\ work' = [work EXCEPT !.at = "settle",
                                     !.missing = (UNION {Parts(entries[p]) : p \in pending \ held}) \ Held]
  /\ UNCHANGED <<bundles, files, store, mail, filled, announcing, sought, left, backupHistory>>

(* Writing fails in a way that would fail every entry alike. *)
RestoreCannotWrite ==
  /\ At("restore", "place") /\ Spend("fails")
  /\ Done(RestoreFailed)
  /\ UNCHANGED <<bundles, files, directory, store, mail, filled, announcing, sought, backupHistory>>

RestoreSettles ==
  /\ At("restore", "settle")
  /\ IF work.missing = {}
     THEN \E ok \in BOOLEAN :
            /\ Works(ok)
            /\ record_file' = IF ok THEN [expanded |-> ExpandedFrom(AskedFor), protection |-> "plain"]
                              ELSE record_file
            /\ Done(IF ok THEN [mem EXCEPT !.restore.status = "done", !.restore.missing = {}] ELSE RestoreFailed)
            /\ UNCHANGED sought
     ELSE /\ Done([mem EXCEPT !.restore =
                     [WaitOn(@, work.missing) EXCEPT !.gave_up = GivesUp(mem.restore, work.missing)]])
          /\ sought' = IF GivesUp(mem.restore, work.missing) THEN sought
                       ELSE sought \cup Asking(mem.restore, work.missing)
          /\ UNCHANGED <<record_file, left>>
  /\ UNCHANGED <<bundles, jobs_file, expanded_file, archive_file, kept_file, directory, store, mail, filled,
                 announcing, backupHistory>>

-----------------------------------------------------------------------------
(* A pass of an archive being kept.  What it needs is found held, or waited *)
(* on; then it is written, whole, and then recorded.                        *)

ArchiveWaits(missing) ==
  /\ Done([mem EXCEPT !.archive = WaitOn(@, missing)])
  /\ sought' = IF GivesUp(mem.archive, missing) THEN sought ELSE sought \cup Asking(mem.archive, missing)

ArchiveLooks ==
  /\ At("archive", "look")
  /\ IF Needed(AskedFor) \subseteq Held
     THEN work' = [work EXCEPT !.at = "write"] /\ UNCHANGED <<mem, sought>>
     ELSE ArchiveWaits((IF Reached(AskedFor) \subseteq Held THEN Needed(AskedFor) ELSE Reached(AskedFor)) \ Held)
  /\ UNCHANGED <<bundles, files, directory, store, mail, filled, announcing, left, backupHistory>>

(* What was found held may have been let go of since. *)
ArchiveWrites ==
  /\ At("archive", "write")
  /\ IF Needed(AskedFor) \subseteq Held
     THEN \E ok \in BOOLEAN :
            /\ Works(ok)
            /\ archive_file' = (archive_file \/ ok)
            /\ IF ok THEN work' = [work EXCEPT !.at = "record"] /\ UNCHANGED mem ELSE Done(ArchiveFailed)
            /\ UNCHANGED sought
     ELSE \E o \in Needed(AskedFor) \ Held : ArchiveWaits({o}) /\ UNCHANGED <<archive_file, left>>
  /\ UNCHANGED <<bundles, jobs_file, expanded_file, record_file, kept_file, directory, store, mail, filled,
                 announcing, backupHistory>>

(* An archive that cannot be recorded would never expire: it is removed. *)
ArchiveRecorded ==
  /\ At("archive", "record")
  /\ \E ok \in BOOLEAN :
       LET kept == [kept |-> TRUE, expires |-> mem.archive.expires]
       IN /\ Works(ok)
          /\ kept_file' = IF ok THEN kept ELSE kept_file
          /\ archive_file' = ok
          /\ Done(IF ok THEN [mem EXCEPT !.archive = NoArchive, !.kept = kept] ELSE ArchiveFailed)
  /\ UNCHANGED <<bundles, jobs_file, expanded_file, record_file, directory, store, mail, filled, announcing,
                 sought, backupHistory>>

-----------------------------------------------------------------------------
(* The process ends, and starts from its files.  It asks eviction whether   *)
(* storage is full, and is told.                                             *)

Crashes ==
  /\ mem.alive /\ Spend("crashes")
  /\ Done(Forgotten)
  /\ UNCHANGED <<bundles, files, directory, store, mail, filled, announcing, sought, backupHistory>>

(* A record of an archive that is gone is dropped. *)
KeptNow == IF archive_file THEN kept_file ELSE NotKept

OnStart ==
  /\ ~mem.alive
  /\ LET there == KeptNow
     IN /\ mem' = [Forgotten EXCEPT !.alive = TRUE, !.job = jobs_file, !.kept = there]
        /\ \E ok \in BOOLEAN :
             /\ IF there = kept_file THEN ok /\ UNCHANGED left ELSE Works(ok)
             /\ kept_file' = IF ok THEN there ELSE kept_file
  /\ mail' = Append(mail, Message(IF filled THEN "full" ELSE "room", Unknown, 0))
  /\ UNCHANGED <<bundles, jobs_file, expanded_file, record_file, archive_file, directory, store, work, filled,
                 announcing, sought, backupHistory>>

-----------------------------------------------------------------------------
(* What the module does not do: the user, eviction, peers, time. *)

Requests == {"configured", "removed", "run", "restore", "restore over", "build", "protected build", "export",
             "import", "archive", "archive removed"}

UserAsks ==
  \E event \in Requests :
    /\ Spend(event)
    /\ told' = told + 1
    /\ mail' = Append(mail, Message(event, Unknown, told + 1))
    /\ UNCHANGED <<bundles, files, directory, store, mem, work, filled, announcing, sought, stored, since, heeded>>

UserEdits ==
  /\ Spend("edits")
  /\ \E p \in Paths, entry \in Entries \cup {Absent} :
       entry # directory[p] /\ directory' = [directory EXCEPT ![p] = entry]
  /\ UNCHANGED <<bundles, files, store, mem, work, mail, filled, announcing, sought, backupHistory>>

Fills ==
  /\ ~filled /\ Spend("fills")
  /\ filled' = TRUE
  /\ mail' = Append(mail, Message("full", Unknown, 0))
  /\ UNCHANGED <<bundles, files, directory, store, mem, work, announcing, sought, backupHistory>>

Empties ==
  /\ filled
  /\ filled' = FALSE
  /\ mail' = Append(mail, Message("room", Unknown, 0))
  /\ UNCHANGED <<bundles, files, directory, store, mem, work, announcing, sought, left, backupHistory>>

(* What was asked for arrives, and is stored; the news of it may be lost. *)
Arrives ==
  /\ Spend("arrivals")
  /\ \E o \in (sought \cap Needed(AskedFor)) \ store :
       WriteObject(o) /\ announcing' = announcing \cup {o}
  /\ UNCHANGED <<bundles, files, directory, mem, work, mail, filled, sought, told, heeded>>

Announced ==
  \E o \in announcing :
    /\ announcing' = announcing \ {o}
    /\ \/ UNCHANGED left /\ mail' = Append(mail, Message("stored", o, 0))
       \/ Spend("losses") /\ UNCHANGED mail
    /\ UNCHANGED <<bundles, files, directory, store, mem, work, filled, sought, backupHistory>>

(* A peer accepts an object, which is let go of. *)
Evicts ==
  /\ Spend("evictions")
  /\ \E o \in store : store' = store \ {o}
  /\ UNCHANGED <<bundles, files, directory, mem, work, mail, filled, announcing, sought, backupHistory>>

(* Time passes while the module waits: for a message, with nothing due, or *)
(* for room.                                                                 *)
Waits ==
  \/ ~mem.alive
  \/ At("rest", "rest") /\ mem.aside = <<>> /\ mail = <<>> /\ ~AnyDue /\ ~Expired
  \/ work.waits /\ mail = <<>> /\ work.stall > 0

Passes(task) ==
  IF task.status # "waiting" THEN task
  ELSE [task EXCEPT !.due = Sooner(@), !.arrived = Later(@, GiveUp), !.asked = Later(@, Ask)]

Tick ==
  /\ Waits
  /\ mem' = [mem EXCEPT !.due = IF mem.job.configured THEN Sooner(@) ELSE @,
                        !.restore = Passes(@),
                        !.archive = [Passes(mem.archive) EXCEPT !.expires = Sooner(@)],
                        !.kept.expires = Sooner(@)]
  /\ work' = [work EXCEPT !.stall = Sooner(@)]
  /\ kept_file' = [kept_file EXCEPT !.expires = Sooner(@)]
  /\ since' = Later(since, GiveUp)
  /\ UNCHANGED <<bundles, jobs_file, expanded_file, record_file, archive_file, directory, store, mail, filled,
                 announcing, sought, left, stored, told, heeded>>

-----------------------------------------------------------------------------
BackupInit ==
  \E start \in Starts :
    /\ bundles = <<[entries |-> [p \in Paths |-> IF Source[p] = Absent THEN Unsaid ELSE Source[p]],
                    extensions |-> <<>>, supersedes |-> Unknown, protection |-> "plain"]>>
    /\ jobs_file = NoJob /\ expanded_file = NotExpanded /\ record_file = NoRecord
    /\ archive_file = FALSE /\ kept_file = NotKept
    /\ directory = start.directory
    /\ store = start.store /\ stored = start.store
    /\ mem = [Forgotten EXCEPT !.alive = TRUE]
    /\ work = Resting
    /\ mail = <<>> /\ filled = FALSE /\ announcing = {} /\ sought = {}
    /\ left = start.left
    /\ since = 0 /\ told = 0 /\ heeded = 0

Handles ==
  \/ OnStorageFull \/ OnJobConfigured \/ OnJobRemoved \/ OnRunRequested \/ OnRestoreRequested
  \/ OnTaskRequested \/ OnArchiveRequested \/ OnArchiveRemoved \/ OnDataStored \/ OnIdle

Carries ==
  \/ Expire \/ WorkNext \/ Stores \/ WaitsForRoom \/ StallsOut \/ Walk \/ Walked \/ Bundles \/ BundleStored
  \/ KeepsExpanded \/ KeepsLatest \/ RecordsBuild \/ Exports \/ RestorePlaces \/ RestoreSettles
  \/ ArchiveLooks \/ ArchiveWrites \/ ArchiveRecorded \/ OnStart

Surroundings ==
  \/ CannotWalk \/ RestoreCannotWrite \/ Crashes
  \/ UserAsks \/ UserEdits \/ Fills \/ Arrives \/ Evicts

BackupNext == Handles \/ Carries \/ Surroundings \/ Empties \/ Announced \/ Tick

BackupSpec == BackupInit /\ [][BackupNext]_backupVars

BackupFairness ==
  /\ WF_backupVars(Handles \/ Carries)
  /\ WF_backupVars(Empties)
  /\ WF_backupVars(Announced)
  /\ WF_backupVars(Tick)

BackupFairSpec == BackupSpec /\ BackupFairness

-----------------------------------------------------------------------------
(* What the files say is true, whatever failed between them: the latest     *)
(* backup of a job, and the bundle recorded beside a directory, bring back  *)
(* just what was seen, and all they need has been stored; and whoever can   *)
(* read a bundle can read what it extends.                                  *)
BackupsWhole ==
  /\ LET latest == jobs_file.latest IN
     latest # NoLatest => /\ resolve_directory(latest.bundle) = latest.entries
                          /\ Needed(latest.bundle) \subseteq stored
  /\ LET recorded == record_file.expanded IN
     recorded # NotExpanded => /\ resolve_directory(recorded.bundle) = recorded.entries
                               /\ Needed(recorded.bundle) \subseteq stored
  /\ \A b \in Made : \A beneath \in Reached(b) : bundles[beneath].protection = bundles[b].protection

(* A look that ends well leaves what it saw: the latest backup holds it,    *)
(* but for metadata held back beside it, and held back only where no backup *)
(* was asked for.                                                            *)
LooksSettle ==
  [][At("job", "latest") /\ ~At("job", "latest")' /\ mem'.status = "waiting" /\ mem'.alive =>
       LET latest == jobs_file'.latest.bundle
       IN /\ expanded_file'.bundle = latest
          /\ seen(expanded_file') = work.entries
          /\ ~changes_content(expanded_file', work.entries)
          /\ expanded_file'.entries = resolve_directory(latest)
          /\ work.publish => resolve_directory(latest) = work.entries]_backupVars

(* What the module is asked for it does in the order it was asked, though  *)
(* it takes messages ahead of their turn while it stores.                   *)
InTurn(s) == \A i, j \in DOMAIN s : i < j /\ s[i].n > 0 /\ s[j].n > 0 => s[i].n < s[j].n
HandledInOrder ==
  LET coming == mem.aside \o mail
  IN InTurn(coming) /\ \A i \in DOMAIN coming : coming[i].n > 0 => heeded < coming[i].n

(* An archive listed as kept is there, with a record of when it expires     *)
(* that a restart finds; and no archive goes but one that expired, was      *)
(* removed, or could not be recorded.                                        *)
KeptIsListed ==
  /\ mem.kept.kept => archive_file /\ kept_file = mem.kept
  /\ mem.alive /\ kept_file.kept /\ archive_file /\ ~At("archive", "record") => mem.kept.kept

(* All that is on record, of backups and of archives, is as it is recorded. *)
RecordsHold == BackupsWhole /\ KeptIsListed

(* Whatever fails or fills, the work ends: a restore is done or failed,     *)
(* giving up only on what has not come for as long as it may take, an       *)
(* archive kept, failed or gone, tasks run, a kept archive expires, and a   *)
(* job comes to hold what is in its directory: a look that ends well has    *)
(* settled.                                                                 *)
WorkEnds ==
  /\ LooksSettle
  /\ [][mem'.restore.gave_up /\ ~mem.restore.gave_up => since >= GiveUp]_backupVars
  /\ []<>(mem.restore.status \in {"none", "done", "failed"})
  /\ []<>(mem.archive.status \in {"none", "failed"} /\ mem.tasks = <<>>)
  /\ []<>(~mem.kept.kept)
  /\ <>[](mem.alive /\ (mem.job.configured => seen(expanded_file) = directory))
=============================================================================
