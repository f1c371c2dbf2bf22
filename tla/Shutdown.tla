------------------------------ MODULE Shutdown ------------------------------
(***************************************************************************)
(* SIGINT or SIGTERM: main sets interrupted, takes serviceMutex for good   *)
(* and stops what it finds in runningServices, while starts, stops and     *)
(* monitorProcess goroutines go on; each reads interrupted at its own      *)
(* moments and takes the other branch from then on.  main.go, service.go,  *)
(* service_process.go.                                                     *)
(*                                                                         *)
(* A service has one instance here (ServiceManager has its successors and  *)
(* the resources).  A section under serviceMutex is one action that needs  *)
(* the mutex to be free; only the signal handler keeps it.  The read of    *)
(* interrupted that lets a goroutine wait for serviceMutex is in the same  *)
(* action: one that has read FALSE when main has the mutex never goes on,  *)
(* as one that never runs again.                                           *)
(***************************************************************************)
EXTENDS Integers, FiniteSets

CONSTANTS
    Services, \* the config.Services, by name
    Detached, \* those with ConsiderStoppedOnProcessExit false
    Callers,  \* goroutines that call stopService beside a start that failed:
              \* idle callbacks, restarts, evictors
    Victim,   \* the service each of them stops
    Handler   \* the goroutine of main

ASSUME ShutdownAssumption ==
    /\ IsFiniteSet(Services) /\ Detached \subseteq Services
    /\ Callers \cap Services = {}
    /\ Handler \notin Services \cup Callers
    /\ Victim \in [Callers -> Services]

VARIABLES
    interrupted, \* the flag
    handler,     \* where main is: wait, signal, stop or exited
    todo,        \* the services its loop has still to visit
    seen,        \* history: those that had a cmd when it took serviceMutex
    registered,  \* runningServices has the instance
    launched,    \* its cmd is set
    ready,       \* its isReady
    manage,      \* its manageMutex: free, start, stop or lost for good
    start,       \* where its startService is
    process,     \* its process: none, alive, exited, killed or immortal
    waitGroup,   \* exitWaitGroup is done
    watcher,     \* where its monitorProcess is
    stop,        \* where stopRunningService called by a goroutine is
    unlocks,     \* the stops that have deferred an Unlock
    target       \* the service main is stopping

\* The goroutines that stop services: the starts, the callers and main.
Stoppers == Services \cup Callers \cup {Handler}

mapVars    == <<registered, launched, ready>>
mainVars   == <<interrupted, handler, todo, seen, target>>
lockVars   == <<manage, unlocks>>
threadVars == <<lockVars, start, stop>>
exitVars   == <<process, waitGroup, watcher>>
vars == <<mainVars, mapVars, threadVars, exitVars>>

Init ==
    /\ interrupted = FALSE /\ handler = "wait" /\ todo = {} /\ seen = {}
    /\ registered = {} /\ launched = {} /\ ready = {}
    /\ manage = [s \in Services |-> "free"]
    /\ start = [s \in Services |-> "none"]
    /\ process = [s \in Services |-> "none"]
    /\ waitGroup = {}
    /\ watcher = [s \in Services |-> "none"]
    /\ stop = [a \in Stoppers |-> "none"]
    /\ unlocks = {}
    /\ target = Handler
-----------------------------------------------------------------------------
\* os.Exit ends every goroutine.
Up == handler # "exited"

\* serviceMutex can be taken.
Unlocked == handler \in {"wait", "signal"}

Starts(s, p, q)  == Up /\ start[s] = p /\ start' = [start EXCEPT ![s] = q]
Watches(s, p, q) == Up /\ watcher[s] = p /\ watcher' = [watcher EXCEPT ![s] = q]

\* cleanUpStoppedServiceWhenServiceMutexIsLocked, once.
CleanUp(s) == registered' = registered \ {s} /\ UNCHANGED <<launched, ready>>
-----------------------------------------------------------------------------
(***************************************************************************)
(* startService.                                                           *)
(***************************************************************************)
Register(s) ==
    /\ Starts(s, "none", "reserve") /\ Unlocked
    /\ registered' = registered \cup {s}
    /\ manage' = [manage EXCEPT ![s] = "start"]
    /\ UNCHANGED <<mainVars, launched, ready, unlocks, stop, exitVars>>

Reserve(s) ==
    /\ Starts(s, "reserve", "launch") /\ Unlocked
    /\ UNCHANGED <<mainVars, mapVars, lockVars, stop, exitVars>>

\* An interrupted start that was refused leaves everything as it is.
Refused(s) ==
    \/ /\ Starts(s, "reserve", "done") /\ interrupted
       /\ UNCHANGED <<mainVars, mapVars, lockVars, stop, exitVars>>
    \/ /\ Starts(s, "reserve", "dropped") /\ ~interrupted
       /\ UNCHANGED <<mainVars, mapVars, lockVars, stop, exitVars>>

\* Refused, or the command could not be run.
Drop(s) ==
    /\ Starts(s, "dropped", "done") /\ Unlocked
    /\ CleanUp(s)
    /\ manage' = [manage EXCEPT ![s] = "free"]
    /\ UNCHANGED <<mainVars, unlocks, stop, exitVars>>

Launch(s) ==
    /\ Starts(s, "launch", "running")
    /\ process' = [process EXCEPT ![s] = "alive"]
    /\ UNCHANGED <<mainVars, mapVars, lockVars, stop, waitGroup, watcher>>

LaunchFails(s) ==
    /\ Starts(s, "launch", "dropped")
    /\ UNCHANGED <<mainVars, mapVars, lockVars, stop, exitVars>>

SetCmd(s) ==
    /\ Starts(s, "running", "probe") /\ Unlocked
    /\ launched' = launched \cup {s}
    /\ watcher' = [watcher EXCEPT ![s] = "wait"]
    /\ UNCHANGED <<mainVars, registered, ready, lockVars, stop, process, waitGroup>>

\* Connected.  The flag is read before the first dial and again before
\* serviceMutex is taken; from the second read on the Unlock is deferred.
ProbeOk(s) ==
    /\ \/ Starts(s, "probe", "connected") /\ ~interrupted /\ UNCHANGED manage
       \/ Starts(s, "probe", "done") /\ interrupted /\ UNCHANGED manage
       \/ /\ Starts(s, "probe", "done") /\ interrupted
          /\ manage' = [manage EXCEPT ![s] = "free"]
    /\ UNCHANGED <<mainVars, mapVars, unlocks, stop, exitVars>>

Ready(s) ==
    /\ Starts(s, "connected", "done") /\ Unlocked
    /\ ready' = ready \cup {s}
    /\ manage' = [manage EXCEPT ![s] = "free"]
    /\ UNCHANGED <<mainVars, registered, launched, unlocks, stop, exitVars>>

\* The probe failed: unlock, then stopService.
ProbeFails(s) ==
    /\ Starts(s, "probe", "done")
    /\ manage' = [manage EXCEPT ![s] = "free"]
    /\ stop' = [stop EXCEPT ![s] = "lookup"]
    /\ UNCHANGED <<mainVars, mapVars, unlocks, exitVars>>

-----------------------------------------------------------------------------
(***************************************************************************)
(* The process and its monitorProcess.  A process may survive SIGTERM;     *)
(* what it does after the program has ended is left out.                   *)
(***************************************************************************)
Exit(s) ==
    /\ Up /\ process[s] \in {"alive", "killed"}
    /\ process' = [process EXCEPT ![s] = "exited"]
    /\ UNCHANGED <<mainVars, mapVars, threadVars, waitGroup, watcher>>

Reap(s) ==
    /\ Watches(s, "wait", "exited") /\ process[s] = "exited"
    /\ waitGroup' = waitGroup \cup {s}
    /\ UNCHANGED <<mainVars, mapVars, threadVars, process>>

WatcherCleansUp(s) ==
    IF s \in Detached THEN UNCHANGED mapVars ELSE CleanUp(s)

BadWatcherTries(s) ==
    /\ Watches(s, "exited", "done") /\ interrupted
    /\ WatcherCleansUp(s)                            \* fault: with or without it
    /\ UNCHANGED <<mainVars, threadVars, process, waitGroup>>

\* monitorProcess waits for the lock or, interrupted, tries it: that fails if
\* main has it, or another goroutine for a moment.
WatcherTries(s) ==
    /\ Watches(s, "exited", "done") /\ interrupted
    /\ UNCHANGED <<mainVars, mapVars, threadVars, process, waitGroup>>

WatcherLocks(s) ==
    /\ Watches(s, "exited", "done") /\ Unlocked
    /\ WatcherCleansUp(s)
    /\ UNCHANGED <<mainVars, threadVars, process, waitGroup>>
-----------------------------------------------------------------------------
(***************************************************************************)
(* stopRunningService, called by main or, through stopService, by a start  *)
(* that failed or another goroutine.                                       *)
(***************************************************************************)
ServiceOf(a) ==
    IF a = Handler THEN target ELSE IF a \in Callers THEN Victim[a] ELSE a

Stops(a, p, q) == Up /\ stop[a] = p /\ stop' = [stop EXCEPT ![a] = q]

\* A start that failed calls stopService: maybeGetRunningService.  For an
\* interrupted stop a lock that is held, by main or by another goroutine for a
\* moment, counts as a service gone.
Lookup(s) ==
    /\ \/ /\ Stops(s, "lookup", IF s \in registered THEN "manage" ELSE "none")
          /\ Unlocked
       \/ Stops(s, "lookup", "none") /\ interrupted
    /\ UNCHANGED <<mainVars, mapVars, lockVars, start, exitVars>>

\* An idle callback, or a connection that restarts the service or needs its
\* resources, calls stopService, which finds the service.
CallStop(a) ==
    /\ Stops(a, "none", "manage") /\ Unlocked
    /\ Victim[a] \in registered
    /\ UNCHANGED <<mainVars, mapVars, lockVars, start, exitVars>>

BadManage(a) ==
    /\ Stops(a, "manage", "lock")                    \* fault: also interrupted
    /\ UNCHANGED <<mainVars, mapVars, lockVars, start, exitVars>>

\* An interrupted stop tries manageMutex, never gives it back and goes on
\* without it; the other one waits.
Manage(a) ==
    /\ \/ /\ Stops(a, "manage", "lock") /\ ~interrupted
          /\ UNCHANGED manage
       \/ /\ Stops(a, "manage", "timer") /\ interrupted
          /\ manage' = [manage EXCEPT ![ServiceOf(a)] = IF @ = "free" THEN "lost" ELSE @]
    /\ UNCHANGED <<mainVars, mapVars, unlocks, start, exitVars>>

Lock(a) ==
    /\ Stops(a, "lock", "timer") /\ manage[ServiceOf(a)] = "free"
    /\ manage' = [manage EXCEPT ![ServiceOf(a)] = "stop"]
    /\ unlocks' = unlocks \cup {a}
    /\ UNCHANGED <<mainVars, mapVars, start, exitVars>>

\* The idle timer is stopped under serviceMutex, or left to itself.
StopTimer(a) ==
    /\ Stops(a, "timer", "kill") /\ (interrupted \/ Unlocked)
    /\ UNCHANGED <<mainVars, mapVars, lockVars, start, exitVars>>

NothingToKill(a) ==
    /\ Stops(a, "kill", "clean") /\ ServiceOf(a) \notin launched
    /\ UNCHANGED <<mainVars, mapVars, lockVars, start, exitVars>>

\* The KillCommand, which may do anything to the process, then SIGTERM and up
\* to ten seconds: as long as these take nothing here moves.
Waited(a) ==
    /\ Stops(a, "kill", "clean") /\ ServiceOf(a) \in waitGroup
    /\ UNCHANGED <<mainVars, mapVars, lockVars, start, exitVars>>

BadTimedOut(a) ==
    /\ Stops(a, "kill", "clean") /\ ServiceOf(a) \in launched   \* fault: no SIGKILL
    /\ UNCHANGED <<mainVars, mapVars, lockVars, start, exitVars>>

\* Ten seconds have passed: SIGKILL, also if the process exits just now.
TimedOut(a) ==
    /\ Stops(a, "kill", "clean") /\ ServiceOf(a) \in launched
    /\ process' = [process EXCEPT ![ServiceOf(a)] =
                      IF @ = "alive" THEN "killed" ELSE @]
    /\ UNCHANGED <<mainVars, mapVars, lockVars, start, waitGroup, watcher>>

BadReturns(a, p) ==
    /\ Stops(a, p, "none")
    /\ manage' = [manage EXCEPT ![ServiceOf(a)] = "free"]
    /\ unlocks' = unlocks \ {a}                     \* fault: deferred in any case
    /\ target' = IF a = Handler THEN Handler ELSE target
    /\ UNCHANGED <<interrupted, handler, todo, seen, start>>

\* The stop returns; the deferred Unlock, where Lock was called.
Returns(a, p) ==
    /\ Stops(a, p, "none")
    /\ manage' = IF a \in unlocks THEN [manage EXCEPT ![ServiceOf(a)] = "free"]
                 ELSE manage
    /\ unlocks' = unlocks \ {a}
    /\ target' = IF a = Handler THEN Handler ELSE target
    /\ UNCHANGED <<interrupted, handler, todo, seen, start>>

\* SIGKILL is refused: manual action required.
SigKillFails(a) ==
    /\ Returns(a, "kill") /\ ServiceOf(a) \in launched
    /\ process[ServiceOf(a)] \in {"alive", "immortal"}
    /\ process' = [process EXCEPT ![ServiceOf(a)] = "immortal"]
    /\ UNCHANGED <<mapVars, waitGroup, watcher>>

\* Cleaned up already, or interrupted: nothing to do.
NothingToClean(a) ==
    /\ Returns(a, "clean") /\ (interrupted \/ ServiceOf(a) \notin registered)
    /\ UNCHANGED <<mapVars, exitVars>>

Clean(a) ==
    /\ Returns(a, "clean") /\ Unlocked
    /\ CleanUp(ServiceOf(a))
    /\ UNCHANGED exitVars
-----------------------------------------------------------------------------
(***************************************************************************)
(* main.                                                                   *)
(***************************************************************************)
BadSignal ==
    /\ handler = "wait"
    /\ handler' = "signal"                           \* fault: the flag comes later
    /\ UNCHANGED <<interrupted, todo, seen, target, mapVars, threadVars, exitVars>>

Signal ==
    /\ handler = "wait"
    /\ handler' = "signal" /\ interrupted' = TRUE
    /\ UNCHANGED <<todo, seen, target, mapVars, threadVars, exitVars>>

TakeServiceMutex ==
    /\ handler = "signal"
    /\ handler' = "stop"
    /\ todo' = registered
    /\ seen' = registered \cap launched
    /\ UNCHANGED <<interrupted, target, mapVars, threadVars, exitVars>>

StopNext ==
    /\ handler = "stop" /\ target = Handler
    /\ \E s \in todo :
        /\ target' = s
        /\ todo' = todo \ {s}
    /\ stop' = [stop EXCEPT ![Handler] = "manage"]
    /\ UNCHANGED <<interrupted, handler, seen, mapVars, lockVars, start, exitVars>>

OsExit ==
    /\ handler = "stop" /\ target = Handler /\ todo = {}
    /\ handler' = "exited"
    /\ UNCHANGED <<interrupted, todo, seen, target, mapVars, threadVars, exitVars>>
-----------------------------------------------------------------------------
StartStep(s) ==
    \/ Register(s) \/ Reserve(s) \/ Refused(s) \/ Drop(s) \/ Launch(s)
    \/ LaunchFails(s) \/ SetCmd(s) \/ ProbeOk(s) \/ Ready(s) \/ ProbeFails(s)

WatcherStep(s) == Reap(s) \/ WatcherTries(s) \/ WatcherLocks(s)

StopStep(a) ==
    \/ Manage(a) \/ Lock(a) \/ StopTimer(a) \/ NothingToKill(a) \/ Waited(a)
    \/ TimedOut(a) \/ SigKillFails(a) \/ NothingToClean(a) \/ Clean(a)

HandlerStep == TakeServiceMutex \/ StopNext \/ OsExit \/ StopStep(Handler)

Next ==
    \/ Signal \/ HandlerStep
    \/ \E s \in Services : StartStep(s) \/ Lookup(s) \/ Exit(s) \/ WatcherStep(s)
    \/ \E a \in Callers : CallStop(a)
    \/ \E a \in Services \cup Callers : StopStep(a)

Spec == Init /\ [][Next]_vars

\* The handler runs; a KillCommand comes to an end.
FairSpec == Spec /\ WF_vars(HandlerStep)
=============================================================================
