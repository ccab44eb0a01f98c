--------------------------- MODULE SupervisorProofs ---------------------------
(* What the supervisor never does, for any modules and any of its settings. *)
EXTENDS Supervisor, FiniteSets, FiniteSetTheorems, TLAPS

(* Whatever runs is known by its slot. *)
LEMMA ModulesAreNames ==
  /\ Len(Modules) \in Nat \ {0}
  /\ \A i \in 1..Len(Modules) : Modules[i] \in Names
  BY SupervisorAssumption DEF Names, ToSet

LEMMA TargetsAreSlots ==
  /\ Len(Targets) \in Nat \ {0}
  /\ \A i \in 1..Len(Targets) : Targets[i] \in Slots
  BY ModulesAreNames DEF Targets, Slots

(* A power of two counts the subsets of a set, so it is a number. *)
LEMMA PowerIsNat ==
  ASSUME NEW n \in Nat
  PROVE  2 ^ n \in Nat
<1>1. IsFiniteSet(1..n) /\ Cardinality(1..n) = n
  BY FS_Interval
<1>2. IsFiniteSet(SUBSET (1..n)) /\ Cardinality(SUBSET (1..n)) = 2 ^ n
  BY <1>1, FS_SUBSET
<1> QED BY <1>2, FS_CardinalityType

(* A wait is never longer than the maximum. *)
LEMMA DelayInRange ==
  ASSUME NEW n \in Nat \ {0}
  PROVE  Delay(n) \in 0..MaxRestartDelay
<1>1. 2 ^ (n - 1) \in Nat
  BY PowerIsNat
<1> DEFINE power == 2 ^ (n - 1)
<1> HIDE DEF power
<1>2. RestartDelay * power \in Nat
  BY <1>1, SupervisorAssumption DEF power
<1> QED BY <1>2, SupervisorAssumption DEF Delay, power

LEMMA FailuresCounted ==
  ASSUME NEW n \in Nat, NEW uptime \in Nat
  PROVE  Failures(n, uptime) \in Nat \ {0}
  BY SupervisorAssumption DEF Failures

LEMMA TimersInRange ==
  /\ Horizon \in Nat /\ MaxRestartDelay \in Nat /\ MaxRestartDelay <= Horizon
  /\ \A t \in 0..Horizon : Longer(t, Horizon) \in 0..Horizon
  /\ \A t \in NoTimer..MaxRestartDelay : Ticked(t) \in NoTimer..MaxRestartDelay
  /\ \A t \in Nat : Ticked(t) \in Nat
  BY SupervisorAssumption DEF Horizon, Longer, Ticked, NoTimer

-----------------------------------------------------------------------------
(* Type correctness, in parts. *)

LEMMA SettingsTyped ==
  /\ RestartDelay \in Nat /\ MaxRestartDelay \in Nat /\ StableAfter \in Nat
  /\ ReadyTimeout \in Nat /\ StopTimeout \in Nat
  /\ MaxExits \in Nat /\ MaxPublished \in Nat
  /\ Dispatcher \in Slots /\ Dispatcher \notin Names /\ Names \subseteq Slots
  BY SupervisorAssumption DEF Slots

(* How many there are to stop. *)
Size(of) == IF of = "modules" THEN Len(Modules) ELSE 1

LEMMA SizeOfTargets ==
  /\ Len(Targets) = Size(group)
  /\ Size(group) \in 1..Len(Modules)
  /\ \A i \in 1..Size(group) : Targets[i] \in Slots
  BY ModulesAreNames DEF Targets, Size, Slots

Phases == {"new", "polling", "awaiting", "checking", "sleeping", "shutdown",
           "joining", "releasing", "terminating", "killing", "stopped"}

Control ==
    /\ pc \in Phases
    /\ group \in {"modules", "dispatcher"}
    /\ turn \in 1..Size(group)
    /\ group # "modules" => pc \notin {"new", "polling", "awaiting", "checking",
                                       "sleeping", "shutdown"}
    /\ timer \in Nat

Flags ==
    /\ ready \in BOOLEAN
    /\ stopRequested \in BOOLEAN
    /\ stop \in BOOLEAN
    /\ dispatcherStop \in BOOLEAN
    /\ prompt \in BOOLEAN

Held ==
    /\ process \in [Slots -> States]
    /\ left \subseteq Slots \X States
    /\ unread \subseteq Names

Times ==
    /\ age \in [Slots -> 0..Horizon]
    /\ ran \in [Slots -> 0..Horizon]
    /\ waited \in [Slots -> 0..Horizon]
    /\ restart \in [Slots -> NoTimer..MaxRestartDelay]

Counts ==
    /\ failures \in [Slots -> Nat]
    /\ streak \in [Slots -> Nat]
    /\ exits \in 0..MaxExits
    /\ sent \in 0..MaxPublished

Typed == Control /\ Flags /\ Held /\ Times /\ Counts

LEMMA TypedIsTypeOK == Typed => TypeOK
<1> SUFFICES ASSUME Typed PROVE TypeOK
  OBVIOUS
<1>1. turn \in 1..Len(Modules)
  BY ModulesAreNames DEF Typed, Control, Size
<1> QED BY <1>1 DEF Typed, Control, Flags, Held, Times, Counts, TypeOK, Phases

LEMMA InitTyped == Init => Typed
<1> SUFFICES ASSUME Init PROVE Typed
  OBVIOUS
<1>1. Control
  BY ModulesAreNames DEF Init, Control, Size, Phases
<1>5. Flags
  BY DEF Init, Flags
<1>2. Held
  BY DEF Init, Held, States
<1>3. Times
  BY TimersInRange DEF Init, Times, NoTimer
<1>4. Counts
  BY SettingsTyped DEF Init, Counts
<1> QED BY <1>1, <1>2, <1>3, <1>4, <1>5 DEF Typed

(* Where the supervisor is in its work. *)
LEMMA ControlKept ==
  ASSUME Control, [Next]_vars
  PROVE  Control'
<1> USE SettingsTyped, ModulesAreNames DEF Control, Size, Phases
<1>1. CASE Begin
  <2>1. pc = "new" /\ pc' \in {"stopped", "polling"} /\ UNCHANGED <<group, turn, timer>>
    BY <1>1, Zenon DEF Begin
  <2> QED BY <2>1
<1>2. CASE Poll
  <2>1. /\ pc = "polling" /\ pc' \in {"checking", "awaiting", "shutdown"}
        /\ UNCHANGED <<group, turn>> /\ (timer' = timer \/ timer' = ReadyTimeout)
    BY <1>2 DEF Poll, LaunchFails
  <2> QED BY <2>1
<1>3. CASE DispatcherReady \/ AwaitEnds \/ Wake
  BY <1>3 DEF DispatcherReady, AwaitEnds, Wake, NotReady, Sleep
<1>4. CASE CheckModule
  BY <1>4 DEF CheckModule, NextModule, Sleep, LaunchFails
<1>5. CASE EndRun \/ Joined \/ Terminate \/ Kill
  BY <1>5 DEF EndRun, Joined, Terminate, Kill, Signalled
<1>6. CASE Shutdown
  BY <1>6 DEF Shutdown
<1>7. CASE Release
  <2>1. Len(Targets) = Size(group)
    BY SizeOfTargets
  <2>2. /\ pc \in {"releasing", "terminating", "killing"}
        /\ \/ /\ turn < Len(Targets) /\ turn' = turn + 1
              /\ pc' = "releasing" /\ UNCHANGED <<group, timer>>
           \/ /\ turn' = 1 /\ pc' = "joining"
              /\ group' = "dispatcher" /\ timer' = StopTimeout
           \/ turn' = 1 /\ pc' = "stopped" /\ UNCHANGED <<group, timer>>
    BY <1>7 DEF Release, StopNext
  <2> QED BY <2>1, <2>2
<1>8. CASE Tick
  BY <1>8, TimersInRange DEF Tick
<1>9. CASE UNCHANGED <<pc, group, turn, timer>>
  BY <1>9
<1> QED
  BY <1>1, <1>2, <1>3, <1>4, <1>5, <1>6, <1>7, <1>8, <1>9
     DEF Next, Supervise, StopAll, SetReady, RequestStop, Publish, Read, Crash, Stops, Dies,
         Exit, vars

(* What has been said. *)
LEMMA FlagsKept ==
  ASSUME Flags, [Next]_vars
  PROVE  Flags'
<1>1. ready' = ready \/ ready' \in BOOLEAN
  BY Zenon DEF Next, Supervise, StopAll, Begin, Poll, DispatcherReady, AwaitEnds, CheckModule,
         Wake, EndRun, Shutdown, Joined, Terminate, Kill, Release, SetReady, Publish, Read,
         Crash, Stops, Dies, Exit, RequestStop, Tick, vars
<1>2. /\ stopRequested' = stopRequested \/ stopRequested' = TRUE
      /\ stop' = stop \/ stop' = TRUE
      /\ dispatcherStop' = dispatcherStop \/ dispatcherStop' = TRUE
  BY DEF Next, Supervise, StopAll, Begin, Poll, DispatcherReady, AwaitEnds, CheckModule,
         Wake, EndRun, Shutdown, Joined, Terminate, Kill, Release, StopNext, SetReady, Publish,
         Read, Crash, Stops, Dies, Exit, RequestStop, Tick, signals, vars
<1>3. prompt' = prompt \/ prompt' = (prompt /\ ~KeptWaiting)
  BY Zenon DEF Next, Supervise, StopAll, Begin, Poll, DispatcherReady, AwaitEnds, CheckModule,
         Wake, EndRun, Shutdown, Joined, Terminate, Kill, Release, SetReady, Publish, Read,
         Crash, Stops, Dies, Exit, RequestStop, Tick, history, vars
<1>4. prompt' \in BOOLEAN
  BY <1>3, Zenon DEF Flags
<1> QED BY <1>1, <1>2, <1>4 DEF Flags

(* What the slots hold. *)
LEMMA HeldKept ==
  ASSUME Control, Held, [Next]_vars
  PROVE  Held'
<1> USE SettingsTyped DEF Held, States
<1>1. CASE Poll
  BY <1>1 DEF Poll, Launch
<1>2. CASE AwaitEnds
  <2>1. process' = process \/ process' = [process EXCEPT ![Dispatcher] = "terminated"]
    BY <1>2, Zenon DEF AwaitEnds
  <2>2. UNCHANGED <<left, unread>>
    BY <1>2 DEF AwaitEnds, history
  <2> QED BY <2>1, <2>2
<1>3. CASE CheckModule
  <2>1. Modules[turn] \in Slots \/ group # "modules"
    BY ModulesAreNames DEF Control, Size, Slots
  <2>2. group = "modules"
    BY <1>3 DEF CheckModule, Control
  <2> QED BY <1>3, <2>1, <2>2 DEF CheckModule, Reap, Launch
<1>4. CASE Terminate \/ Kill \/ Release
  <2>1. Targets[turn] \in Slots
    BY SizeOfTargets DEF Control
  <2> QED BY <1>4, <2>1 DEF Terminate, Kill, Release, Signalled, history
<1>5. ASSUME NEW module \in Names, Publish(module) \/ Read(module)
      PROVE  Held'
  BY <1>5 DEF Publish, Read, history
<1>6. ASSUME NEW slot \in Slots, Crash(slot) \/ Stops(slot) \/ Dies(slot)
      PROVE  Held'
  BY <1>6 DEF Crash, Stops, Dies, Exit
<1>7. CASE UNCHANGED <<process, left, unread>>
  BY <1>7
<1> QED
  BY <1>1, <1>2, <1>3, <1>4, <1>5, <1>6, <1>7
     DEF Next, Supervise, StopAll, Begin, DispatcherReady, Wake, EndRun, Shutdown, Joined,
         SetReady, RequestStop, Tick, history, vars

(* A module that died waits as its count of failures says. *)
LEMMA ReapTyped ==
  ASSUME NEW module \in Names, Held, Times, Counts, Reap(module)
  PROVE  /\ failures' \in [Slots -> Nat] /\ streak' \in [Slots -> Nat]
         /\ waited' \in [Slots -> 0..Horizon]
         /\ restart' \in [Slots -> NoTimer..MaxRestartDelay]
<1> DEFINE n == Failures(failures[module], age[module])
<1>1. n \in Nat \ {0}
  <2>1. failures[module] \in Nat /\ age[module] \in Nat
    BY SettingsTyped, TimersInRange DEF Times, Counts
  <2> QED BY <2>1, FailuresCounted
<1>2. Delay(n) \in NoTimer..MaxRestartDelay
  BY <1>1, DelayInRange, TimersInRange DEF NoTimer
<1> HIDE DEF n
<1>3. failures' = [failures EXCEPT ![module] = n] /\ restart' = [restart EXCEPT ![module] = Delay(n)]
  BY DEF Reap, n
<1>4. /\ waited' = [waited EXCEPT ![module] = 0]
      /\ streak' = [streak EXCEPT ![module] = IF age[module] < StableAfter THEN @ + 1 ELSE 1]
  BY DEF Reap
<1> QED BY <1>1, <1>2, <1>3, <1>4, SettingsTyped, TimersInRange DEF Times, Counts

(* How long everything has lasted, and has still to wait. *)
LEMMA TimesKept ==
  ASSUME Control, Held, Times, Counts, [Next]_vars
  PROVE  Times'
<1> USE TimersInRange DEF Times
<1>1. CASE Poll
  BY <1>1, SettingsTyped DEF Poll, Launch, NoTimer
<1>2. CASE CheckModule
  <2> DEFINE module == Modules[turn]
  <2>1. module \in Names /\ module \in Slots
    BY <1>2, ModulesAreNames, SettingsTyped DEF CheckModule, Control, Size
  <2> HIDE DEF module
  <2>2. CASE Reap(module) /\ UNCHANGED <<age, ran>>
    BY <2>1, <2>2, ReapTyped
  <2>3. CASE Launch(module) /\ UNCHANGED waited
    BY <2>1, <2>3 DEF Launch, NoTimer
  <2>4. CASE UNCHANGED <<age, ran, waited, restart>>
    BY <2>4
  <2> QED BY <1>2, <2>2, <2>3, <2>4 DEF CheckModule, module
<1>3. CASE Tick
  BY <1>3 DEF Tick
<1>4. CASE UNCHANGED <<age, ran, waited, restart>>
  BY <1>4
<1> QED
  BY <1>1, <1>2, <1>3, <1>4
     DEF Next, Supervise, StopAll, Begin, DispatcherReady, AwaitEnds, Wake, EndRun, Shutdown,
         Joined, Terminate, Kill, Release, SetReady, Publish, Read, Crash, Stops, Dies, Exit,
         RequestStop, history, vars

(* How often things have happened. *)
LEMMA CountsKept ==
  ASSUME Control, Held, Times, Counts, [Next]_vars
  PROVE  Counts'
<1> USE SettingsTyped DEF Counts
<1>1. CASE Poll
  BY <1>1 DEF Poll, LaunchFails
<1>2. CASE CheckModule
  <2> DEFINE module == Modules[turn]
  <2>1. module \in Names /\ module \in Slots
    BY <1>2, ModulesAreNames DEF CheckModule, Control, Size
  <2> HIDE DEF module
  <2>2. CASE Reap(module) /\ UNCHANGED <<exits, sent>>
    BY <2>1, <2>2, ReapTyped
  <2>3. CASE UNCHANGED <<failures, streak, sent>> /\ (LaunchFails \/ UNCHANGED exits)
    BY <2>3 DEF LaunchFails
  <2> QED BY <1>2, <2>2, <2>3 DEF CheckModule, module
<1>3. ASSUME NEW module \in Names, Publish(module)
      PROVE  Counts'
  BY <1>3 DEF Publish
<1>4. ASSUME NEW slot \in Slots, Crash(slot)
      PROVE  Counts'
  BY <1>4 DEF Crash, Exit
<1>5. CASE UNCHANGED <<failures, streak, exits, sent>>
  BY <1>5
<1> QED
  BY <1>1, <1>2, <1>3, <1>4, <1>5
     DEF Next, Supervise, StopAll, Begin, DispatcherReady, AwaitEnds, Wake, EndRun, Shutdown,
         Joined, Terminate, Kill, Release, SetReady, Read, Stops, Dies, Exit,
         RequestStop, Tick, history, vars

LEMMA NextTyped == Typed /\ [Next]_vars => Typed'
  BY ControlKept, FlagsKept, HeldKept, TimesKept, CountsKept DEF Typed

(* Every variable has its type; a wait for a restart is never longer than  *)
(* the maximum, however often its module has failed.                       *)
THEOREM SupervisorTypeOK == Spec => []TypeOK
  BY InitTyped, NextTyped, TypedIsTypeOK, PTL DEF Spec

-----------------------------------------------------------------------------
(* Modules start after the dispatcher. *)

Supervising == {"new", "polling", "awaiting", "checking", "sleeping"}

(* Before a module may be started the dispatcher is there, and is ready     *)
(* unless it is on its way out; one not yet ready is slept on only if the   *)
(* node is to stop.                                                         *)
DispatcherFirst ==
    /\ pc \in {"awaiting", "checking"} => process[Dispatcher] # "none"
    /\ pc = "checking" /\ process[Dispatcher] = "alive" => ready
    /\ pc \in {"new", "polling", "sleeping"} /\ process[Dispatcher] = "alive" => ready \/ Stopping
    /\ pc = "new" => process[Dispatcher] = "none"

LEMMA DispatcherFirstKept ==
  ASSUME Typed, DispatcherFirst, [Next]_vars
  PROVE  DispatcherFirst'
<1> USE SettingsTyped DEF DispatcherFirst, Typed, Control, Held, States
<1>1. CASE Begin
  BY <1>1 DEF Begin, signals, Stopping
<1>2. CASE Poll
  BY <1>2 DEF Poll, Launch, LaunchFails, IsAlive, Stopping, signals
<1>3. CASE DispatcherReady
  BY <1>3 DEF DispatcherReady
<1>4. CASE AwaitEnds
  <2>1. /\ pc' = "sleeping" /\ UNCHANGED <<ready, signals>>
        /\ \/ Stopping /\ UNCHANGED process
           \/ ~IsAlive(Dispatcher) /\ UNCHANGED process
           \/ process' = [process EXCEPT ![Dispatcher] = "terminated"]
    BY <1>4 DEF AwaitEnds, NotReady, Sleep
  <2> QED BY <2>1 DEF Stopping, signals, IsAlive
<1>5. CASE CheckModule
  <2>1. Modules[turn] \in Names
    BY <1>5, ModulesAreNames DEF CheckModule, Size
  <2>2. /\ pc = "checking" /\ pc' \in {"checking", "sleeping", "shutdown"} /\ UNCHANGED ready
        /\ \/ UNCHANGED process
           \/ \E state \in States : process' = [process EXCEPT ![Modules[turn]] = state]
    BY <1>5 DEF CheckModule, NextModule, Sleep, LaunchFails, Launch, Reap
  <2>3. process'[Dispatcher] = process[Dispatcher]
    BY <2>1, <2>2
  <2> QED BY <2>2, <2>3
<1>6. CASE Wake
  BY <1>6 DEF Wake, signals, Stopping
<1>7. CASE StopAll
  <2>1. pc' \notin Supervising
    BY <1>7 DEF StopAll, EndRun, Shutdown, Joined, Terminate, Kill, Release, StopNext, Supervising
  <2> QED BY <2>1 DEF Supervising
<1>8. CASE SetReady
  BY <1>8 DEF SetReady, signals, Stopping
<1>9. ASSUME NEW slot \in Slots, Crash(slot) \/ Stops(slot) \/ Dies(slot)
      PROVE  DispatcherFirst'
  <2>1. UNCHANGED <<pc, ready, signals>> /\ process' = [process EXCEPT ![slot] = "dead"]
    BY <1>9 DEF Crash, Stops, Dies, Exit
  <2>2. process[slot] # "none"
    BY <1>9 DEF Crash, Stops, Dies, MayStop, Asked
  <2> QED BY <2>1, <2>2 DEF signals, Stopping
<1>10. CASE RequestStop
  BY <1>10 DEF RequestStop, Stopping
<1>11. CASE UNCHANGED <<pc, process, ready, signals>>
  BY <1>11 DEF signals, Stopping
<1> QED
  BY <1>1, <1>2, <1>3, <1>4, <1>5, <1>6, <1>7, <1>8, <1>9, <1>10, <1>11
     DEF Next, Supervise, Publish, Read, Tick, vars, signals

(* Only the check of a module starts it. *)
LEMMA StartedByCheck ==
  ASSUME Typed, [Next]_vars, NEW module \in Names, Starting(module)
  PROVE  /\ pc = "checking" /\ module = Modules[turn] /\ Due(module) /\ process[module] = "none"
<1> USE SettingsTyped DEF Typed, Control, Held, States, Starting, IsAlive
<1>1. CASE Poll
  BY <1>1 DEF Poll, Launch
<1>2. CASE AwaitEnds
  BY <1>2 DEF AwaitEnds
<1>3. CASE CheckModule
  <2>1. Modules[turn] \in Names
    BY <1>3, ModulesAreNames DEF CheckModule, Size
  <2>2. CASE process' = [process EXCEPT ![Modules[turn]] = "none"]
    BY <2>1, <2>2
  <2>3. CASE UNCHANGED process
    BY <2>3
  <2>4. CASE /\ process[Modules[turn]] = "none" /\ Due(Modules[turn])
             /\ process' = [process EXCEPT ![Modules[turn]] = "alive"]
    BY <2>1, <2>4, <1>3 DEF CheckModule
  <2> QED BY <1>3, <2>2, <2>3, <2>4 DEF CheckModule, Reap, Launch
<1>4. CASE Terminate \/ Kill \/ Release
  <2>1. Targets[turn] \in Slots
    BY SizeOfTargets
  <2> QED BY <1>4, <2>1 DEF Terminate, Kill, Release, Signalled
<1>5. ASSUME NEW slot \in Slots, Crash(slot) \/ Stops(slot) \/ Dies(slot)
      PROVE  FALSE
  BY <1>5 DEF Crash, Stops, Dies, Exit
<1>6. CASE UNCHANGED process
  BY <1>6
<1> QED
  BY <1>1, <1>2, <1>3, <1>4, <1>5, <1>6
     DEF Next, Supervise, StopAll, Begin, DispatcherReady, Wake, EndRun, Shutdown, Joined, Publish,
         Read, SetReady, RequestStop, Tick, vars

-----------------------------------------------------------------------------
(* A module that keeps failing waits the longer. *)

(* The supervisor's count of a module's failures is that of its early ends. *)
CountsAgree == failures = streak

(* While the modules are supervised, one whose process was reaped has        *)
(* waited, or has still to wait, as long as its failures ask.                *)
WaitsOut(module) ==
    pc \in Supervising \cup {"shutdown"} /\ process[module] = "none" /\ streak[module] > 0
        => restart[module] # NoTimer /\ waited[module] + restart[module] >= Delay(streak[module])

Waits == CountsAgree /\ \A module \in Names : WaitsOut(module)

LEMMA CountsAgreeKept ==
  ASSUME Typed, CountsAgree, [Next]_vars
  PROVE  CountsAgree'
<1>1. CASE CheckModule
  <2>1. PICK module \in Names : module = Modules[turn]
    BY <1>1, ModulesAreNames DEF Typed, CheckModule, Control, Size
  <2>2. CASE Reap(module)
    <3>1. /\ failures' = [failures EXCEPT ![module] = Failures(failures[module], age[module])]
          /\ streak' = [streak EXCEPT ![module] = IF age[module] < StableAfter THEN @ + 1 ELSE 1]
      BY <2>2 DEF Reap
    <3>2. Failures(failures[module], age[module])
            = IF age[module] < StableAfter THEN failures[module] + 1 ELSE 1
      BY SettingsTyped, TimersInRange DEF Failures, Typed, Times, Counts
    <3> QED BY <3>1, <3>2, SettingsTyped DEF CountsAgree, Typed, Counts
  <2>3. CASE UNCHANGED <<failures, streak>>
    BY <2>3 DEF CountsAgree
  <2> QED BY <1>1, <2>1, <2>2, <2>3 DEF CheckModule
<1>2. CASE UNCHANGED <<failures, streak>>
  BY <1>2 DEF CountsAgree
<1> QED
  BY <1>1, <1>2
     DEF Next, Supervise, StopAll, Begin, Poll, DispatcherReady, AwaitEnds, Wake, EndRun, Shutdown,
         Joined, Terminate, Kill, Release, SetReady, Publish, Read, Crash, Stops, Dies, Exit,
         RequestStop, Tick, history, vars

LEMMA DelayTyped ==
  ASSUME NEW n \in Nat, n > 0
  PROVE  Delay(n) \in 0..MaxRestartDelay
  BY DelayInRange

LEMMA TickWaits ==
  ASSUME Typed, NEW module \in Names, WaitsOut(module), Tick
  PROVE  WaitsOut(module)'
<1> PICK n, delay : n = streak[module] /\ delay = Delay(n)
  OBVIOUS
<1>1. /\ UNCHANGED <<pc, process, streak>>
      /\ restart'[module] = Ticked(restart[module])
      /\ waited'[module] = Longer(waited[module], Horizon)
  BY SettingsTyped DEF Tick
<1>2. Delay(streak[module])' = delay
  BY <1>1 DEF Delay
<1>3. CASE n > 0
  <2>1. delay \in 0..MaxRestartDelay
    BY <1>3, SettingsTyped, DelayTyped DEF Typed, Counts
  <2>2. /\ waited[module] \in 0..Horizon /\ restart[module] \in NoTimer..MaxRestartDelay
        /\ Horizon \in Nat /\ MaxRestartDelay <= Horizon /\ MaxRestartDelay \in Nat
    BY SettingsTyped, TimersInRange DEF Typed, Times
  <2>3. ASSUME restart[module] # NoTimer, waited[module] + restart[module] >= delay
        PROVE  restart'[module] # NoTimer /\ waited'[module] + restart'[module] >= delay
    BY <1>1, <2>1, <2>2, <2>3 DEF Longer, Ticked, NoTimer
  <2> QED BY <1>1, <1>2, <2>3 DEF WaitsOut
<1>4. CASE ~(n > 0)
  BY <1>1, <1>4 DEF WaitsOut
<1> QED BY <1>3, <1>4

LEMMA WaitsKept ==
  ASSUME Typed, Waits, [Next]_vars
  PROVE  Waits'
<1>1. CountsAgree'
  BY CountsAgreeKept DEF Waits
<1> SUFFICES ASSUME NEW module \in Names PROVE WaitsOut(module)'
  BY <1>1 DEF Waits
<1>2. WaitsOut(module)
  BY DEF Waits
<1>3. ASSUME pc' \in Supervising \cup {"shutdown"} => pc \in Supervising \cup {"shutdown"},
             process'[module] = "none" => process[module] = "none",
             restart'[module] = restart[module], waited'[module] = waited[module],
             streak'[module] = streak[module]
      PROVE  WaitsOut(module)'
  BY <1>2, <1>3 DEF WaitsOut, Delay
<1> USE SettingsTyped DEF Typed, Control, Held
<1>4. CASE Poll
  <2>1. UNCHANGED <<waited, streak>> /\ pc = "polling"
    BY <1>4 DEF Poll
  <2>2. /\ process' = process \/ \E state \in {"alive", "none"} : process' = [process EXCEPT ![Dispatcher] = state]
        /\ restart' = restart \/ restart' = [restart EXCEPT ![Dispatcher] = NoTimer]
    BY <1>4 DEF Poll, Launch
  <2>3. process'[module] = process[module] /\ restart'[module] = restart[module]
    BY <2>2 DEF Times
  <2> QED BY <1>3, <2>1, <2>3 DEF Supervising
<1>5. CASE CheckModule
  <2>1. PICK other \in Names : other = Modules[turn]
    BY <1>5, ModulesAreNames DEF CheckModule, Size
  <2>2. CASE other # module
    <3>1. /\ process'[module] = process[module] /\ restart'[module] = restart[module]
          /\ waited'[module] = waited[module] /\ streak'[module] = streak[module]
      BY <1>5, <2>1, <2>2 DEF CheckModule, Reap, Launch, Times, Counts
    <3> QED BY <1>3, <1>5, <3>1 DEF CheckModule, Supervising
  <2>3. CASE other = module /\ Reap(module)
    <3>1. PICK n : n = Failures(failures[module], age[module])
      OBVIOUS
    <3>2. n \in Nat /\ n > 0
      <4>1. failures[module] \in Nat /\ age[module] \in Nat
        BY TimersInRange DEF Times, Counts
      <4>2. n \in Nat \ {0}
        BY <4>1, <3>1, FailuresCounted, Zenon
      <4> QED BY <4>2
    <3>3. restart'[module] = Delay(n) /\ waited'[module] = 0 /\ failures'[module] = n
      BY <2>3, <3>1 DEF Reap, Times, Counts
    <3>4. streak'[module] = n
      BY <1>1, <3>3 DEF CountsAgree
    <3>5. Delay(n) \in 0..MaxRestartDelay
      BY <3>2, DelayTyped
    <3>6. Delay(streak[module])' = Delay(n)
      BY <3>4 DEF Delay
    <3> QED BY <3>3, <3>5, <3>6 DEF WaitsOut, NoTimer
  <2>4. CASE other = module /\ process'[module] = "alive"
    BY <2>4 DEF WaitsOut
  <2>5. CASE other = module /\ UNCHANGED <<process, restart, waited, streak>>
    BY <1>3, <1>5, <2>5 DEF CheckModule, Supervising
  <2>6. ASSUME Launch(module) PROVE process'[module] = "alive"
    BY <2>6 DEF Launch
  <2>7. \/ Reap(other) \/ Launch(other) \/ UNCHANGED <<process, restart, waited, streak>>
    BY <1>5, <2>1 DEF CheckModule
  <2> QED BY <2>2, <2>3, <2>4, <2>5, <2>6, <2>7
<1>6. CASE Tick
  BY <1>2, <1>6, TickWaits
<1>7. CASE Terminate \/ Kill \/ Release
  <2>1. pc' \notin Supervising \cup {"shutdown"}
    BY <1>7 DEF Terminate, Kill, Release, StopNext, Supervising
  <2> QED BY <2>1 DEF WaitsOut
<1>8. CASE Begin \/ DispatcherReady \/ AwaitEnds \/ Wake \/ EndRun \/ Shutdown \/ Joined
  <2>1. UNCHANGED <<restart, waited, streak>> /\ pc \in Supervising \cup {"shutdown", "joining"}
        /\ (pc = "joining" => pc' = "releasing")
    BY <1>8 DEF Begin, DispatcherReady, AwaitEnds, Wake, EndRun, Shutdown, Joined, history, Supervising
  <2>2. process'[module] = process[module]
    BY <1>8 DEF Begin, DispatcherReady, AwaitEnds, Wake, EndRun, Shutdown, Joined
  <2> QED BY <1>3, <2>1, <2>2 DEF Supervising
<1>9. ASSUME NEW slot \in Slots, Crash(slot) \/ Stops(slot) \/ Dies(slot)
      PROVE  WaitsOut(module)'
  <2>1. UNCHANGED <<pc, restart, waited, streak>> /\ process' = [process EXCEPT ![slot] = "dead"]
    BY <1>9 DEF Crash, Stops, Dies, Exit
  <2> QED BY <1>3, <2>1
<1>10. CASE UNCHANGED <<pc, process, restart, waited, streak>>
  BY <1>3, <1>10
<1> QED
  BY <1>4, <1>5, <1>6, <1>7, <1>8, <1>9, <1>10
     DEF Next, Supervise, StopAll, SetReady, Publish, Read, RequestStop, history, vars

LEMMA InitOrdered == Init => DispatcherFirst /\ Waits
<1> SUFFICES ASSUME Init PROVE DispatcherFirst /\ Waits
  OBVIOUS
<1>1. DispatcherFirst
  BY SettingsTyped DEF Init, DispatcherFirst
<1>2. Waits
  BY SettingsTyped DEF Init, Waits, CountsAgree, WaitsOut
<1> QED BY <1>1, <1>2

(* A module that is started has the dispatcher before it, and has waited.   *)
LEMMA StartedInOrder ==
  ASSUME Typed, DispatcherFirst, Waits, [Next]_vars, NEW module \in Names, Starting(module)
  PROVE  /\ process[Dispatcher] # "none" /\ (process[Dispatcher] = "alive" => ready)
         /\ streak[module] > 0 => \/ waited[module] >= MaxRestartDelay
                                  \/ waited[module] >= RestartDelay * 2 ^ (streak[module] - 1)
<1>1. pc = "checking" /\ Due(module) /\ process[module] = "none"
  BY StartedByCheck
<1>2. process[Dispatcher] # "none" /\ (process[Dispatcher] = "alive" => ready)
  BY <1>1 DEF DispatcherFirst
<1>3. ASSUME streak[module] > 0
      PROVE  \/ waited[module] >= MaxRestartDelay
             \/ waited[module] >= RestartDelay * 2 ^ (streak[module] - 1)
  <2>1. restart[module] = 0 /\ waited[module] + restart[module] >= Delay(streak[module])
    BY <1>1, <1>3 DEF Waits, WaitsOut, Due, Supervising
  <2>2. waited[module] \in Nat
    BY SettingsTyped, TimersInRange DEF Typed, Times
  <2>3. Delay(streak[module]) = MaxRestartDelay
        \/ Delay(streak[module]) = RestartDelay * 2 ^ (streak[module] - 1)
    BY DEF Delay
  <2>4. waited[module] >= Delay(streak[module])
    <3>1. streak[module] \in Nat
      BY SettingsTyped DEF Typed, Counts
    <3>2. Delay(streak[module]) \in 0..MaxRestartDelay
      BY <1>3, <3>1, DelayTyped
    <3> QED BY <2>1, <2>2, <3>2, SettingsTyped
  <2> QED BY <2>3, <2>4
<1> QED BY <1>2, <1>3

(* No module is started before the dispatcher, nor sooner than its failures *)
(* in a row ask, whatever the modules, delays and timeouts                  *)
(* (process_supervisor.py:14-19).                                           *)
THEOREM SupervisorStartsInOrder == Spec => StartsInOrder
<1> DEFINE Ordered == Typed /\ DispatcherFirst /\ Waits
<1>1. Init => Ordered
  BY InitTyped, InitOrdered
<1>2. Ordered /\ [Next]_vars => Ordered'
  BY NextTyped, DispatcherFirstKept, WaitsKept
<1>3. Ordered /\ [Next]_vars =>
        [\A module \in Names : Starting(module)
           => process[Dispatcher] # "none" /\ (process[Dispatcher] = "alive" => ready)]_vars
  BY StartedInOrder
<1>4. Ordered /\ [Next]_vars =>
        [\A module \in Names : Starting(module) /\ streak[module] > 0
           => \/ waited[module] >= MaxRestartDelay
              \/ waited[module] >= RestartDelay * 2 ^ (streak[module] - 1)]_vars
  BY StartedInOrder
<1> QED BY <1>1, <1>2, <1>3, <1>4, PTL DEF Spec, StartsInOrder, NoneBeforeDispatcher, BacksOff

-----------------------------------------------------------------------------
(* The supervisor escalates only as it must. *)

(* What has been asked to stop, and when. *)
AskedInTurn ==
    /\ dispatcherStop <=> group = "dispatcher"
    /\ pc \in {"joining", "releasing", "terminating", "killing"} => stop

(* While every process does at once what it is asked, and none fails by    *)
(* itself: no deadline passes, none is signalled, and modules run only     *)
(* beside a dispatcher that does.                                          *)
Quiet == prompt /\ exits = 0
AllPrompt ==
    /\ \A slot \in Slots : process[slot] \notin {"terminated", "killed"}
    /\ pc \in {"awaiting", "joining"} => timer > 0
    /\ pc = "releasing" => \A i \in 1..Len(Targets) : ~IsAlive(Targets[i])
    /\ pc \notin {"terminating", "killing"}
    /\ group = "modules" =>
         /\ pc \in {"awaiting", "checking"} => process[Dispatcher] = "alive"
         /\ \A module \in Names : process[module] = "alive" => process[Dispatcher] = "alive"
         /\ process[Dispatcher] # "dead"

(* What is killed is given up only once it may be. *)
KilledLast ==
    /\ pc = "killing" => process[Targets[turn]] \in {"killed", "dead"}
    /\ \A process_left \in left : process_left[2] = "killed"

Gently == AskedInTurn /\ (Quiet => AllPrompt) /\ KilledLast

LEMMA AskedInTurnKept ==
  ASSUME Typed, AskedInTurn, [Next]_vars
  PROVE  AskedInTurn'
<1> USE DEF AskedInTurn, Typed, Control, Flags, signals
<1>1. CASE Supervise
  <2>1. UNCHANGED <<signals, group>> /\ pc \in Supervising
        /\ pc' \in Supervising \cup {"shutdown", "stopped"}
    BY <1>1 DEF Supervise, Begin, Poll, DispatcherReady, AwaitEnds, CheckModule, Wake, LaunchFails,
           NextModule, NotReady, Sleep, Supervising
  <2> QED BY <2>1 DEF Supervising
<1>2. CASE EndRun \/ Joined \/ Terminate \/ Kill
  BY <1>2 DEF EndRun, Joined, Terminate, Kill
<1>3. CASE Shutdown
  BY <1>3 DEF Shutdown
<1>4. CASE Release
  <2>1. /\ UNCHANGED stop /\ pc \in {"releasing", "terminating", "killing"}
        /\ \/ UNCHANGED <<group, dispatcherStop>>
           \/ group' = "dispatcher" /\ dispatcherStop' = TRUE
    BY <1>4 DEF Release, StopNext
  <2> QED BY <2>1
<1>5. CASE UNCHANGED <<pc, group, stop, dispatcherStop>>
  BY <1>5
<1> QED
  BY <1>1, <1>2, <1>3, <1>4, <1>5
     DEF Next, StopAll, SetReady, Publish, Read, Crash, Stops, Dies, Exit, RequestStop, Tick, vars

LEMMA KilledLastKept ==
  ASSUME Typed, KilledLast, [Next]_vars
  PROVE  KilledLast'
<1> USE SettingsTyped DEF KilledLast, Typed, Control, Held, States
<1>1. PICK target : target = Targets[turn]
  OBVIOUS
<1>2. target \in Slots
  BY <1>1, SizeOfTargets
<1>3. ASSUME pc' = "killing" => pc = "killing" /\ UNCHANGED <<group, turn>>,
             pc = "killing" => process'[target] \in {process[target], "dead"},
             UNCHANGED left
      PROVE  KilledLast'
  BY <1>1, <1>3 DEF Targets
<1>4. CASE Kill
  <2>1. /\ process' = [process EXCEPT ![target] = "killed"] /\ UNCHANGED <<group, turn, left>>
    BY <1>1, <1>4 DEF Kill, Signalled, history
  <2>2. Targets[turn]' = target
    BY <1>1, <2>1 DEF Targets
  <2> QED BY <1>2, <2>1, <2>2
<1>5. CASE Release
  <2>1. pc' # "killing"
    BY <1>5 DEF Release, StopNext
  <2>2. left' = IF IsAlive(target) THEN left \cup {<<target, process[target]>>} ELSE left
    BY <1>1, <1>5 DEF Release
  <2>3. IsAlive(target) => process[target] = "killed"
    BY <1>1, <1>5 DEF Release, MayRelease, IsAlive
  <2> QED BY <2>1, <2>2, <2>3
<1>6. CASE Begin \/ Poll \/ DispatcherReady \/ AwaitEnds \/ CheckModule \/ Wake \/ EndRun \/ Shutdown \/ Joined
           \/ Terminate
  <2>1. pc' # "killing" /\ pc # "killing" /\ UNCHANGED left
    BY <1>6 DEF Begin, Poll, DispatcherReady, AwaitEnds, CheckModule, Wake, EndRun, Shutdown, Joined,
           Terminate, LaunchFails, NextModule, NotReady, Sleep, history
  <2> QED BY <1>3, <2>1
<1>7. ASSUME NEW slot \in Slots, Crash(slot) \/ Stops(slot) \/ Dies(slot)
      PROVE  KilledLast'
  <2>1. UNCHANGED <<pc, group, turn, left>> /\ process' = [process EXCEPT ![slot] = "dead"]
    BY <1>7 DEF Crash, Stops, Dies, Exit
  <2> QED BY <1>2, <1>3, <2>1
<1>8. CASE UNCHANGED <<pc, group, turn, left, process>>
  BY <1>3, <1>8
<1> QED
  BY <1>4, <1>5, <1>6, <1>7, <1>8
     DEF Next, Supervise, StopAll, SetReady, Publish, Read, RequestStop, Tick, history, vars

(* Time that passes while something is awaited is time a process took. *)
LEMMA WaitIsKept ==
  ASSUME Typed, AskedInTurn, AllPrompt, Tick, pc \in {"awaiting", "joining"}
  PROVE  KeptWaiting
<1> USE SettingsTyped DEF Typed, Control, Held, AllPrompt
<1>1. CASE pc = "awaiting"
  <2>1. IsAlive(Dispatcher) /\ ~ready
    BY <1>1 DEF Tick, Waiting
  <2> QED BY <2>1 DEF IsAlive, KeptWaiting
<1>2. CASE pc = "joining"
  <2>1. PICK i \in 1..Len(Targets) : IsAlive(Targets[i])
    BY <1>2 DEF Tick, Waiting
  <2>2. PICK slot \in Slots : slot = Targets[i]
    BY <2>1, TargetsAreSlots
  <2>3. process[slot] = "alive" /\ stop
    BY <1>2, <2>1, <2>2 DEF IsAlive, AskedInTurn
  <2>4. CASE group = "modules"
    <3>1. slot \in Names /\ slot # Dispatcher
      BY <2>2, <2>4, ModulesAreNames DEF Targets
    <3>2. process[Dispatcher] = "alive" /\ ~dispatcherStop
      BY <2>3, <2>4, <3>1 DEF AskedInTurn
    <3>3. CASE slot \notin unread
      BY <2>3, <3>1, <3>3 DEF KeptWaiting, MayStop, Asked
    <3>4. CASE slot \in unread
      BY <3>2, <3>4 DEF KeptWaiting, Reads
    <3> QED BY <3>3, <3>4
  <2>5. CASE group = "dispatcher"
    <3>1. slot = Dispatcher /\ slot \notin unread
      BY <2>1, <2>2, <2>5 DEF Targets
    <3> QED BY <2>3, <2>5, <3>1 DEF KeptWaiting, MayStop, Asked, AskedInTurn
  <2> QED BY <2>4, <2>5
<1> QED BY <1>1, <1>2

LEMMA StillQuiet ==
  ASSUME Typed, [Next]_vars, Quiet'
  PROVE  Quiet /\ prompt' = prompt /\ exits' = exits
<1>1. prompt' = prompt \/ prompt' = (prompt /\ ~KeptWaiting)
  BY Zenon DEF Next, Supervise, StopAll, Begin, Poll, DispatcherReady, AwaitEnds, CheckModule,
         Wake, EndRun, Shutdown, Joined, Terminate, Kill, Release, SetReady, Publish, Read,
         Crash, Stops, Dies, Exit, RequestStop, Tick, history, vars
<1>2. exits' = exits \/ exits' = exits + 1
  BY DEF Next, Supervise, StopAll, Begin, Poll, DispatcherReady, AwaitEnds, CheckModule, LaunchFails,
         Wake, EndRun, Shutdown, Joined, Terminate, Kill, Release, SetReady, Publish, Read,
         Crash, Stops, Dies, Exit, RequestStop, Tick, history, vars
<1>3. exits' = exits
  BY <1>2, SettingsTyped DEF Quiet, Typed, Counts
<1>4. prompt /\ prompt'
  BY <1>1, Zenon DEF Quiet
<1> QED BY <1>3, <1>4 DEF Quiet

LEMMA AllPromptKept ==
  ASSUME Typed, AskedInTurn, AllPrompt, [Next]_vars, Quiet, prompt' = prompt, exits' = exits
  PROVE  AllPrompt'
<1> USE SettingsTyped DEF Typed, Control, Held, States, AllPrompt
<1> DEFINE NoneLeft == \A i \in 1..Len(Targets) : ~IsAlive(Targets[i])
<1>0. ReadyTimeout > 0 /\ StopTimeout > 0
  BY SupervisorAssumption
<1>12. ASSUME UNCHANGED group, NoneLeft, \A slot \in Slots : IsAlive(slot)' => IsAlive(slot)
       PROVE  NoneLeft'
  <2>1. PICK targets : targets = Targets
    OBVIOUS
  <2>2. Targets' = targets
    BY <1>12, <2>1 DEF Targets
  <2>3. \A i \in 1..Len(targets) : targets[i] \in Slots /\ ~IsAlive(targets[i])
    BY <1>12, <2>1, TargetsAreSlots
  <2>4. \A i \in 1..Len(targets) : ~(process'[targets[i]] \in {"alive", "terminated", "killed"})
    BY <1>12, <2>3 DEF IsAlive
  <2> QED BY <2>2, <2>4 DEF IsAlive
<1> HIDE DEF NoneLeft
<1>1. CASE Begin \/ DispatcherReady \/ Wake \/ EndRun
  BY <1>1 DEF Begin, DispatcherReady, Wake, EndRun
<1>2. CASE Poll
  <2>1. /\ pc = "polling" /\ UNCHANGED group
        /\ \/ IsAlive(Dispatcher) /\ pc' = "checking" /\ UNCHANGED process
           \/ /\ pc' = "awaiting" /\ timer' = ReadyTimeout
              /\ process' = [process EXCEPT ![Dispatcher] = "alive"]
    BY <1>2 DEF Poll, Launch, LaunchFails, Quiet
  <2> QED BY <1>0, <2>1 DEF IsAlive
<1>3. CASE AwaitEnds
  <2>1. pc = "awaiting" /\ pc' = "sleeping" /\ UNCHANGED <<group>>
    BY <1>3 DEF AwaitEnds, NotReady, Sleep
  <2>2. Stopping
    BY <1>3, <2>1 DEF AwaitEnds, IsAlive
  <2>3. UNCHANGED process
    BY <1>3, <2>2, Zenon DEF AwaitEnds
  <2> QED BY <2>1, <2>3
<1>4. CASE CheckModule
  <2>1. PICK module \in Names : module = Modules[turn]
    BY <1>4, ModulesAreNames DEF CheckModule, Size
  <2>2. /\ pc = "checking" /\ pc' \in {"checking", "sleeping"} /\ UNCHANGED group
        /\ \/ UNCHANGED process
           \/ process' = [process EXCEPT ![module] = "alive"]
           \/ process' = [process EXCEPT ![module] = "none"]
    BY <1>4, <2>1 DEF CheckModule, NextModule, Sleep, LaunchFails, Launch, Reap, Quiet
  <2>3. group = "modules"
    BY <2>2
  <2> QED BY <2>1, <2>2, <2>3
<1>5. CASE Shutdown
  BY <1>0, <1>5 DEF Shutdown
<1>6. CASE Joined
  <2>1. /\ pc = "joining" /\ pc' = "releasing" /\ UNCHANGED <<group, process>> /\ NoneLeft
    BY <1>6 DEF Joined, NoneLeft
  <2>2. NoneLeft'
    BY <1>12, <2>1 DEF IsAlive
  <2> QED BY <2>1, <2>2 DEF NoneLeft
<1>7. CASE Terminate \/ Kill
  <2>1. turn \in 1..Len(Targets)
    BY SizeOfTargets
  <2> QED BY <1>7, <2>1 DEF Terminate, Kill
<1>8. CASE Release
  <2>1. PICK target \in Slots : target = Targets[turn] /\ (group = "modules" => target \in Names)
    BY SizeOfTargets, ModulesAreNames DEF Targets, Size
  <2>2. process' = [process EXCEPT ![target] = "none"] /\ pc = "releasing"
    BY <1>8, <2>1 DEF Release
  <2>3. \/ pc' = "releasing" /\ UNCHANGED group
        \/ pc' = "joining" /\ timer' = StopTimeout /\ group' = "dispatcher"
        \/ pc' = "stopped" /\ UNCHANGED group /\ group # "modules"
    BY <1>8 DEF Release, StopNext
  <2>4. CASE pc' = "releasing" /\ UNCHANGED group
    <3>1. NoneLeft'
      BY <1>12, <2>2, <2>4 DEF IsAlive, NoneLeft
    <3> QED BY <2>1, <2>2, <2>4, <3>1 DEF NoneLeft
  <2>5. CASE group' = "dispatcher" /\ pc' = "joining" /\ timer' = StopTimeout
    BY <1>0, <2>1, <2>2, <2>5
  <2>6. CASE pc' = "stopped" /\ UNCHANGED group /\ group # "modules"
    BY <2>1, <2>2, <2>6
  <2> QED BY <2>3, <2>4, <2>5, <2>6
<1>9. ASSUME NEW slot \in Slots, Crash(slot) \/ Stops(slot) \/ Dies(slot)
      PROVE  AllPrompt'
  <2>1. UNCHANGED <<pc, group, timer>> /\ process' = [process EXCEPT ![slot] = "dead"]
    BY <1>9 DEF Crash, Stops, Dies, Exit
  <2>2. Stops(slot)
    BY <1>9 DEF Crash, Dies, Quiet
  <2>3. group = "modules" => slot # Dispatcher
    BY <2>2 DEF Stops, MayStop, Asked, AskedInTurn
  <2>4. pc = "releasing" => NoneLeft'
    BY <1>12, <2>1 DEF IsAlive, NoneLeft
  <2> QED BY <2>1, <2>3, <2>4 DEF NoneLeft
<1>10. CASE Tick
  <2>1. prompt' = (prompt /\ ~KeptWaiting)
    BY <1>10, Zenon DEF Tick
  <2>2. prompt'
    BY DEF Quiet
  <2>6. ~KeptWaiting
    BY <2>1, <2>2, Zenon
  <2>3. pc \notin {"awaiting", "joining"}
    BY <1>10, <2>6, WaitIsKept
  <2>4. UNCHANGED <<pc, group, process>>
    BY <1>10 DEF Tick
  <2>5. pc = "releasing" => NoneLeft'
    BY <1>12, <2>4 DEF IsAlive, NoneLeft
  <2> QED BY <2>3, <2>4, <2>5 DEF NoneLeft
<1>11. CASE UNCHANGED <<pc, group, timer, process>>
  <2>1. pc = "releasing" => NoneLeft'
    BY <1>11, <1>12 DEF IsAlive, NoneLeft
  <2> QED BY <1>11, <2>1 DEF NoneLeft
<1> QED
  BY <1>1, <1>2, <1>3, <1>4, <1>5, <1>6, <1>7, <1>8, <1>9, <1>10, <1>11
     DEF Next, Supervise, StopAll, SetReady, Publish, Read, RequestStop, vars

LEMMA GentlyKept == Typed /\ Gently /\ [Next]_vars => Gently'
<1> SUFFICES ASSUME Typed, Gently, [Next]_vars PROVE Gently'
  OBVIOUS
<1>1. ASSUME Quiet' PROVE AllPrompt'
  BY <1>1, StillQuiet, AllPromptKept DEF Gently
<1> QED BY <1>1, AskedInTurnKept, KilledLastKept DEF Gently

LEMMA InitGently == Init => Gently
<1> SUFFICES ASSUME Init PROVE Gently
  OBVIOUS
<1> QED BY SettingsTyped DEF Init, Gently, AskedInTurn, AllPrompt, KilledLast

(* While no process keeps the supervisor waiting nor fails by itself, none   *)
(* is killed; and one is left running only once it was sent SIGKILL, for    *)
(* any modules and timeouts (process_supervisor.py:257-289).                *)
THEOREM SupervisorEscalates == Spec => []Escalates
<1>1. Gently => Escalates
  BY DEF Gently, Quiet, AllPrompt, KilledLast, Escalates, NoneKilled, LeftLast
<1> QED BY <1>1, InitTyped, NextTyped, InitGently, GentlyKept, PTL DEF Spec
==============================================================================
