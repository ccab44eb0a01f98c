------------------------------ MODULE Supervisor ------------------------------
(***************************************************************************)
(* The process supervisor of a Libranet node and the processes it starts   *)
(* (supervision/process_supervisor.py, children.py): the dispatcher and    *)
(* the modules, restarted when they exit and stopped in order.             *)
(*                                                                         *)
(* Time is counted in ticks of the supervisor's poll interval and passes   *)
(* only while it sleeps or waits; the rest of a supervision pass takes     *)
(* none.  Times are timers counted down.                                   *)
(***************************************************************************)
EXTENDS Integers, SequencesExt

CONSTANTS
    Modules,        (* the modules, in the order they are looked over *)
    Dispatcher,     (* the dispatcher *)
    RestartDelay,   (* restart_delay_seconds *)
    MaxRestartDelay,(* max_restart_delay_seconds *)
    StableAfter,    (* stable_after_seconds *)
    ReadyTimeout,   (* ready_timeout_seconds *)
    StopTimeout,    (* stop_timeout_seconds *)
    (* Bounds of the model. *)
    MaxExits,       (* times a process exits by itself, or fails to start *)
    MaxPublished    (* times a module publishes *)

Names == ToSet(Modules)
Slots == Names \cup {Dispatcher}

ASSUME SupervisorAssumption ==
    /\ Modules \in Seq(Names)
    /\ Modules # <<>>
    /\ IsInjective(Modules)
    /\ Dispatcher \notin Names
    /\ {RestartDelay, MaxRestartDelay, StableAfter, ReadyTimeout, StopTimeout} \subseteq Nat
    /\ RestartDelay <= MaxRestartDelay
    /\ ReadyTimeout > 0 /\ StopTimeout > 0
    /\ {MaxExits, MaxPublished} \subseteq Nat

VARIABLES
    pc,             (* what the supervisor is doing *)
    turn,           (* the place in Modules, or in those it stops, it has come to *)
    group,          (* which processes it stops: the modules, or the dispatcher *)
    timer,          (* how long until its deadline *)
    process,        (* what has become of the process in each slot *)
    ready,          (* whether the dispatcher's process has reported itself ready *)
    age,            (* how long since each slot's process was started *)
    failures,       (* how often each has failed in a row *)
    restart,        (* how long until each module that died is due *)
    stopRequested,  (* the node was asked to stop *)
    stop,           (* modules are asked to stop *)
    dispatcherStop, (* the dispatcher is asked to stop *)
    unread,         (* the modules with messages the dispatcher has not read *)
    ran,            (* history: how long each slot's process has run *)
    waited,         (* history: how long since each module's process was reaped *)
    streak,         (* history: the lives of each module that ended early in a row *)
    left,           (* history: the state of the processes left running *)
    prompt,         (* history: no process has kept the supervisor waiting *)
    exits,          (* history: how many processes exited by themselves *)
    sent            (* history: how often a module has published *)

signals == <<stopRequested, stop, dispatcherStop>>
history == <<ran, waited, streak, left, prompt, exits, sent>>
vars == <<pc, turn, group, timer, process, ready, age, failures, restart,
          stopRequested, stop, dispatcherStop, unread, ran, waited, streak,
          left, prompt, exits, sent>>

States == {"none", "alive", "terminated", "killed", "dead"}
IsAlive(slot) == process[slot] \in {"alive", "terminated", "killed"}

NoTimer == -1
Ticked(t) == IF t > 0 THEN t - 1 ELSE t
Longer(t, limit) == IF t < limit THEN t + 1 ELSE t

(* Times are told apart up to here. *)
Horizon == IF StableAfter < MaxRestartDelay THEN MaxRestartDelay ELSE StableAfter

-----------------------------------------------------------------------------
(* How long a module that keeps failing waits before it is restarted. *)

Failures(previous, uptime) ==
    IF uptime >= StableAfter THEN 1 ELSE previous + 1

Delay(n) ==
    LET doubled == RestartDelay * 2 ^ (n - 1)
    IN  IF doubled < MaxRestartDelay THEN doubled ELSE MaxRestartDelay

Due_AtOnce(slot) == TRUE
Due_Again(slot) == restart[slot] = 0
Due(slot) == restart[slot] \in {NoTimer, 0}

-----------------------------------------------------------------------------
(* Slots. *)

Launch(slot) ==
    /\ process' = [process EXCEPT ![slot] = "alive"]
    /\ age' = [age EXCEPT ![slot] = 0]
    /\ restart' = [restart EXCEPT ![slot] = NoTimer]
    /\ ran' = [ran EXCEPT ![slot] = 0]

(* The system will start no process: the exception ends the run. *)
LaunchFails ==
    /\ exits < MaxExits
    /\ exits' = exits + 1
    /\ pc' = "shutdown"

Stopping == stop \/ stopRequested

Sleep == pc' = "sleeping" /\ timer' = 1

NextModule ==
    IF turn < Len(Modules)
    THEN turn' = turn + 1 /\ UNCHANGED <<pc, timer>>
    ELSE turn' = 1 /\ Sleep

-----------------------------------------------------------------------------
(* Supervision. *)

Begin ==
    /\ pc = "new"
    /\ pc' = IF stopRequested THEN "stopped" ELSE "polling"
    /\ UNCHANGED <<turn, group, timer, process, ready, age, failures, restart, signals,
                   unread, history>>

(* A pass: the modules are looked over if the dispatcher is alive, and it  *)
(* is reaped and started at once if it is not.  How often it failed is     *)
(* only logged.                                                            *)
Poll ==
    /\ pc = "polling"
    /\ ~Stopping
    /\ IF IsAlive(Dispatcher)
       THEN /\ pc' = "checking"
            /\ UNCHANGED <<timer, process, ready, age, failures, restart, ran, exits>>
       ELSE /\ ready' = FALSE
            /\ \/ /\ Launch(Dispatcher)
                  /\ timer' = ReadyTimeout
                  /\ pc' = "awaiting"
                  /\ UNCHANGED exits
               \/ /\ LaunchFails
                  /\ process' = [process EXCEPT ![Dispatcher] = "none"]
                  /\ UNCHANGED <<timer, age, restart, ran>>
            /\ UNCHANGED failures
    /\ UNCHANGED <<turn, group, signals, unread, waited, streak, left, prompt, sent>>

(* The dispatcher reported itself ready, and only then, is looked at first. *)
DispatcherReady ==
    /\ pc = "awaiting"
    /\ ready
    /\ pc' = "checking"
    /\ UNCHANGED <<turn, group, timer, process, ready, age, failures, restart, signals,
                   unread, history>>

NotReady_CarriesOn == pc' = "checking" /\ UNCHANGED timer
NotReady == Sleep

AwaitEnds ==
    /\ pc = "awaiting"
    /\ ~ready
    /\ Stopping \/ ~IsAlive(Dispatcher) \/ timer = 0
    /\ process' = IF ~Stopping /\ IsAlive(Dispatcher)
                  THEN [process EXCEPT ![Dispatcher] = "terminated"] ELSE process
    /\ NotReady
    /\ UNCHANGED <<turn, group, ready, age, failures, restart, signals, unread, history>>

(* Collect the exit status of a module that died, and say when it is due.  *)
Reap(module) ==
    LET n == Failures(failures[module], age[module])
    IN  /\ failures' = [failures EXCEPT ![module] = n]
        /\ restart' = [restart EXCEPT ![module] = Delay(n)]
        /\ process' = [process EXCEPT ![module] = "none"]
        /\ waited' = [waited EXCEPT ![module] = 0]
        /\ streak' = [streak EXCEPT ![module] = IF age[module] < StableAfter THEN @ + 1 ELSE 1]

(* Reap the module if it died, and start it if it is due. *)
CheckModule ==
    LET module == Modules[turn]
    IN  /\ pc = "checking"
        /\ \/ /\ IsAlive(module)
              /\ NextModule
              /\ UNCHANGED <<process, age, failures, restart, ran, waited,
                             streak, exits>>
           \/ /\ process[module] = "dead"
              /\ Reap(module)
              /\ IF Delay(failures'[module]) = 0 THEN UNCHANGED <<pc, turn, timer>> ELSE NextModule
              /\ UNCHANGED <<age, ran, exits>>
           \/ /\ process[module] = "none"
              /\ ~Due(module)
              /\ NextModule
              /\ UNCHANGED <<process, age, failures, restart, ran, waited,
                             streak, exits>>
           \/ /\ process[module] = "none"
              /\ Due(module)
              /\ \/ Launch(module) /\ NextModule /\ UNCHANGED exits
                 \/ /\ LaunchFails
                    /\ turn' = 1
                    /\ UNCHANGED <<timer, process, age, restart, ran>>
              /\ UNCHANGED <<failures, waited, streak>>
        /\ UNCHANGED <<group, ready, signals, unread, left, prompt, sent>>

Wake ==
    /\ pc = "sleeping"
    /\ timer = 0
    /\ pc' = "polling"
    /\ UNCHANGED <<turn, group, timer, process, ready, age, failures, restart, signals,
                   unread, history>>

-----------------------------------------------------------------------------
(* Shutting down: the modules, and then the dispatcher. *)

EndRun ==
    /\ pc = "polling"
    /\ Stopping
    /\ pc' = "shutdown"
    /\ UNCHANGED <<turn, group, timer, process, ready, age, failures, restart, signals,
                   unread, history>>

(* What is being stopped, in order. *)
Targets == IF group = "modules" THEN Modules ELSE <<Dispatcher>>

Shutdown_AllAtOnce ==
    /\ pc = "shutdown"
    /\ stop' = TRUE
    /\ dispatcherStop' = TRUE
    /\ turn' = 1
    /\ timer' = StopTimeout
    /\ pc' = "joining"
    /\ UNCHANGED <<group, process, ready, age, failures, restart, stopRequested,
                   unread, history>>
Shutdown ==
    /\ pc = "shutdown"
    /\ stop' = TRUE
    /\ turn' = 1
    /\ timer' = StopTimeout
    /\ pc' = "joining"
    /\ UNCHANGED <<group, process, ready, age, failures, restart, stopRequested,
                   dispatcherStop, unread, history>>

(* Wait for all of them to exit, until the deadline. *)
Joined ==
    /\ pc = "joining"
    /\ timer = 0 \/ \A i \in 1..Len(Targets) : ~IsAlive(Targets[i])
    /\ pc' = "releasing"
    /\ UNCHANGED <<turn, group, timer, process, ready, age, failures, restart, signals,
                   unread, history>>

StopNext ==
    IF turn < Len(Targets)
    THEN turn' = turn + 1 /\ pc' = "releasing" /\ UNCHANGED <<group, timer, dispatcherStop>>
    ELSE /\ turn' = 1
         /\ IF group = "modules"
            THEN /\ group' = "dispatcher"
                 /\ dispatcherStop' = TRUE
                 /\ timer' = StopTimeout
                 /\ pc' = "joining"
            ELSE pc' = "stopped" /\ UNCHANGED <<group, timer, dispatcherStop>>

Signalled(slot, signal) ==
    /\ process' = [process EXCEPT ![slot] = signal]
    /\ timer' = StopTimeout

(* One that will not stop is sent SIGTERM, then SIGKILL, and then left. *)
Terminate ==
    /\ pc = "releasing"
    /\ IsAlive(Targets[turn])
    /\ Signalled(Targets[turn], "terminated")
    /\ pc' = "terminating"
    /\ UNCHANGED <<turn, group, ready, age, failures, restart, signals, unread, history>>

Kill ==
    /\ pc = "terminating"
    /\ timer = 0
    /\ IsAlive(Targets[turn])
    /\ Signalled(Targets[turn], "killed")
    /\ pc' = "killing"
    /\ UNCHANGED <<turn, group, ready, age, failures, restart, signals, unread, history>>

MayRelease_Terminated(slot) ==
    \/ ~IsAlive(slot)
    \/ pc \in {"terminating", "killing"} /\ timer = 0
MayRelease_Dead(slot) == ~IsAlive(slot)
MayRelease(slot) ==
    \/ ~IsAlive(slot)
    \/ pc = "killing" /\ timer = 0

Release ==
    /\ pc \in {"releasing", "terminating", "killing"}
    /\ MayRelease(Targets[turn])
    /\ process' = [process EXCEPT ![Targets[turn]] = "none"]
    /\ left' = IF IsAlive(Targets[turn])
               THEN left \cup {<<Targets[turn], process[Targets[turn]]>>} ELSE left
    /\ StopNext
    /\ UNCHANGED <<ready, age, failures, restart, stopRequested, stop, unread, ran,
                   waited, streak, prompt, exits, sent>>

-----------------------------------------------------------------------------
(* The processes. *)

SetReady ==
    /\ process[Dispatcher] \in {"alive", "terminated"}
    /\ ~ready
    /\ ready' = TRUE
    /\ UNCHANGED <<pc, turn, group, timer, process, age, failures, restart, signals, unread,
                   history>>

(* A module publishes, and the dispatcher reads it; a module that was      *)
(* stopped cannot exit before what it published has been read.             *)
Publish(module) ==
    /\ process[module] = "alive"
    /\ sent < MaxPublished
    /\ unread' = unread \cup {module}
    /\ sent' = sent + 1
    /\ UNCHANGED <<pc, turn, group, timer, process, ready, age, failures, restart, signals,
                   ran, waited, streak, left, prompt, exits>>

Reads == process[Dispatcher] = "alive" /\ ready /\ ~dispatcherStop

Read(module) ==
    /\ Reads
    /\ module \in unread
    /\ unread' = unread \ {module}
    /\ UNCHANGED <<pc, turn, group, timer, process, ready, age, failures, restart, signals,
                   history>>

Exit(slot) ==
    /\ process' = [process EXCEPT ![slot] = "dead"]
    /\ UNCHANGED <<pc, turn, group, timer, ready, age, failures, restart, signals, ran,
                   waited, streak, left, prompt, sent>>

Crash(slot) ==
    /\ process[slot] = "alive"
    /\ exits < MaxExits
    /\ exits' = exits + 1
    /\ unread' = unread \ {slot}
    /\ Exit(slot)

Asked(slot) ==
    \/ process[slot] = "terminated"
    \/ process[slot] = "alive" /\ (IF slot = Dispatcher THEN dispatcherStop ELSE stop)

MayStop(slot) == Asked(slot) /\ slot \notin unread

Stops(slot) ==
    /\ MayStop(slot)
    /\ Exit(slot)
    /\ UNCHANGED <<unread, exits>>

Dies(slot) ==
    /\ process[slot] = "killed"
    /\ unread' = unread \ {slot}
    /\ Exit(slot)
    /\ UNCHANGED exits

RequestStop ==
    /\ ~stopRequested
    /\ stopRequested' = TRUE
    /\ UNCHANGED <<pc, turn, group, timer, process, ready, age, failures, restart, stop,
                   dispatcherStop, unread, history>>

Waiting ==
    \/ pc = "sleeping"
    \/ pc = "awaiting" /\ ~ready /\ ~Stopping /\ IsAlive(Dispatcher)
    \/ pc = "joining" /\ \E i \in 1..Len(Targets) : IsAlive(Targets[i])
    \/ pc \in {"terminating", "killing"} /\ IsAlive(Targets[turn])

(* What a process has still to do of what it was asked, at once.           *)
KeptWaiting ==
    \/ \E slot \in Slots : MayStop(slot) \/ process[slot] = "killed"
    \/ process[Dispatcher] = "alive" /\ ~ready
    \/ Reads /\ unread # {}

(* Time passes while the supervisor waits, up to its deadline.             *)
Tick ==
    /\ Waiting
    /\ timer > 0
    /\ prompt' = (prompt /\ ~KeptWaiting)
    /\ timer' = Ticked(timer)
    /\ age' = [slot \in Slots |-> Longer(age[slot], Horizon)]
    /\ restart' = [slot \in Slots |-> Ticked(restart[slot])]
    /\ ran' = [slot \in Slots |-> IF IsAlive(slot) THEN Longer(ran[slot], Horizon)
                                                   ELSE ran[slot]]
    /\ waited' = [slot \in Slots |-> Longer(waited[slot], Horizon)]
    /\ UNCHANGED <<pc, turn, group, process, ready, failures, signals, unread, streak, left, exits, sent>>

-----------------------------------------------------------------------------
Init ==
    /\ pc = "new"
    /\ turn = 1
    /\ group = "modules"
    /\ timer = 0
    /\ process = [slot \in Slots |-> "none"]
    /\ ready = FALSE
    /\ age = [slot \in Slots |-> 0]
    /\ failures = [slot \in Slots |-> 0]
    /\ restart = [slot \in Slots |-> NoTimer]
    /\ stopRequested = FALSE
    /\ stop = FALSE
    /\ dispatcherStop = FALSE
    /\ unread = {}
    /\ ran = [slot \in Slots |-> 0]
    /\ waited = [slot \in Slots |-> 0]
    /\ streak = [slot \in Slots |-> 0]
    /\ left = {}
    /\ exits = 0
    /\ prompt = TRUE
    /\ sent = 0

Supervise == Begin \/ Poll \/ DispatcherReady \/ AwaitEnds \/ CheckModule \/ Wake
StopAll == EndRun \/ Shutdown \/ Joined \/ Terminate \/ Kill \/ Release

Next ==
    \/ Supervise
    \/ StopAll
    \/ SetReady
    \/ \E module \in Names : Publish(module) \/ Read(module)
    \/ \E slot \in Slots : Crash(slot) \/ Stops(slot) \/ Dies(slot)
    \/ RequestStop
    \/ Tick

Spec == Init /\ [][Next]_vars

(* The supervisor runs and time passes.                                    *)
Runs == WF_vars(Supervise) /\ WF_vars(StopAll) /\ WF_vars(Tick)

FairSpec == Spec /\ Runs

-----------------------------------------------------------------------------
TypeOK ==
    /\ pc \in {"new", "polling", "awaiting", "checking", "sleeping", "shutdown",
              "joining", "releasing", "terminating", "killing", "stopped"}
    /\ turn \in 1..Len(Modules)
    /\ group \in {"modules", "dispatcher"}
    /\ timer \in Nat
    /\ process \in [Slots -> States]
    /\ ready \in BOOLEAN
    /\ age \in [Slots -> 0..Horizon]
    /\ failures \in [Slots -> Nat]
    /\ restart \in [Slots -> NoTimer..MaxRestartDelay]
    /\ stopRequested \in BOOLEAN
    /\ stop \in BOOLEAN
    /\ dispatcherStop \in BOOLEAN
    /\ unread \subseteq Names
    /\ ran \in [Slots -> 0..Horizon]
    /\ waited \in [Slots -> 0..Horizon]
    /\ streak \in [Slots -> Nat]
    /\ left \subseteq Slots \X States
    /\ prompt \in BOOLEAN
    /\ exits \in 0..MaxExits
    /\ sent \in 0..MaxPublished

Starting(slot) == ~IsAlive(slot) /\ process'[slot] = "alive"

(* No module is started before the dispatcher, nor while the dispatcher    *)
(* has still to come up: only once it is ready, or has failed to be and is *)
(* still on its way out (process_supervisor.py:17-19, 301-352).            *)
NoneBeforeDispatcher ==
    [][\A module \in Names : Starting(module)
          => process[Dispatcher] # "none" /\ (process[Dispatcher] = "alive" => ready)]_vars

(* A module whose last lives all ended early waits the longer for it, up   *)
(* to the maximum (process_supervisor.py:14-16).                           *)
BacksOff ==
    [][\A module \in Names : Starting(module) /\ streak[module] > 0
          => \/ waited[module] >= MaxRestartDelay
             \/ waited[module] >= RestartDelay * 2 ^ (streak[module] - 1)]_vars

(* Modules start after the dispatcher, and the later the oftener they end. *)
StartsInOrder == NoneBeforeDispatcher /\ BacksOff

NoneKilled ==
    (prompt /\ exits = 0)
        => \A slot \in Slots : process[slot] \notin {"terminated", "killed"}

LeftLast == \A process_left \in left : process_left[2] = "killed"

(* While no process keeps the supervisor waiting nor fails by itself, none *)
(* is killed: what modules publish on the way out is read.  And one is     *)
(* left running only when it has not died of SIGKILL                       *)
(* (process_supervisor.py:257-289).                                        *)
Escalates == NoneKilled /\ LeftLast

(* Once asked to, the node stops, whatever its processes do.               *)
StopIsHeard == stopRequested ~> (pc = "stopped")

(* Unless it stops, the node ends up with all of its processes running, if *)
(* a process told to die does, and a dispatcher that is started often      *)
(* enough comes up in time.                                                *)
Obeys == WF_vars(\E slot \in Slots : Stops(slot) \/ Dies(slot))
ComesUp == SF_vars(pc = "awaiting" /\ process[Dispatcher] = "alive" /\ SetReady)
AllRun ==
    Obeys /\ ComesUp =>
        \/ <>(stopRequested \/ pc = "stopped")
        \/ <>[](ready /\ \A slot \in Slots : process[slot] = "alive")

(* However its processes behave, the node comes to rest: stopped, if asked *)
(* to, and otherwise with all of them running.                              *)
ComesToRest == StopIsHeard /\ AllRun
==============================================================================
