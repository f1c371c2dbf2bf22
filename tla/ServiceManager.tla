--------------------------- MODULE ServiceManager ---------------------------
(***************************************************************************)
(* The service life cycle of large-model-proxy: the goroutine of every     *)
(* client connection looks its service up, queues for it, or starts it     *)
(* (reserving resources, stopping idle services to make room, launching    *)
(* the process and probing it), proxies the client and counts it; idle     *)
(* timers, evictors, restarts and failed starts stop services; a monitor   *)
(* goroutine per process reaps it.  service.go, service_process.go, the    *)
(* statically accounted part of resources.go, handleConnection of          *)
(* connection.go and the counters of main.go.                              *)
(*                                                                         *)
(* Granularity.  A section of code under serviceMutex is one action: the   *)
(* locks taken inside it (resourceChangeByResourceMutex,                   *)
(* connectionStatsMutex) are held for a few statements and TryLock does    *)
(* not block.  manageMutex is held across sections and is a variable.  A   *)
(* release of manageMutex is part of the section that precedes it.         *)
(*                                                                         *)
(* Left to other modules: shutdown (interrupted stays false here),         *)
(* resources measured by a CheckCommand, and the bytes of a connection.    *)
(***************************************************************************)
EXTENDS Integers, FiniteSets

CONSTANTS
    Connections,   \* client connections, each accepted at most once
    Timers,        \* goroutines that may run an idle-timer callback at a time
    Services,      \* config.Services, by name
    Resources,     \* config.ResourcesAvailable without a CheckCommand, by name
    Target,        \* the service whose port a connection was accepted on
    Amount,        \* ResourcesAvailable[r].Amount
    Requirement,   \* ResourceRequirements of a service, 0 where it lists none
    StoppedOnExit, \* services with ConsiderStoppedOnProcessExit
    Restarting,    \* services with RestartOnConnectionFailure
    Unkillable,    \* services whose process group refuses SIGKILL (not ESRCH)
    None           \* no connection, no service, no resource

ASSUME ThreadsAssumption ==
    /\ IsFiniteSet(Connections)
    /\ IsFiniteSet(Timers)
    /\ Connections \cap Timers = {}       \* a goroutine is one or the other

ASSUME ConfigAssumption ==
    /\ IsFiniteSet(Services)
    /\ Target \in [Connections -> Services]
    /\ Amount \in [Resources -> Nat]
    /\ Requirement \in [Services -> [Resources -> Nat]]
    /\ StoppedOnExit \subseteq Services
    /\ Restarting \subseteq Services
    /\ Unkillable \subseteq Services

ASSUME NoneAssumption ==
    None \notin Connections \cup Timers \cup Services \cup Resources

Threads == Connections \cup Timers

\* A connection calls startService at most once, so it also names the
\* RunningService struct that call allocates.
Instances == Connections

VARIABLES
    pc,       \* where a goroutine is
    ptr,      \* the *RunningService a goroutine got from a lookup or a closure
    stopping, \* the service name a goroutine passed to stopService
    then,     \* where a goroutine continues when stopService returns
    missing,  \* missingResource of a connection in reserveResources
    running,  \* resourceManager.runningServices
    status,   \* resourcesReleased of an instance, "unborn" until it is allocated
    manage,   \* manageMutex: the goroutine that holds the token, or None
    flag,     \* resourcesReserved of an instance
    timer,    \* idleTimer: nil, armed, or spent (fired or stopped, not nil)
    proc,     \* the child process and what its monitor goroutine has done
    inUse,    \* resourceManager.resourcesInUse
    reserved, \* resourceManager.resourcesReserved
    chan,     \* resourceChangeByResourceChans[r][s], of capacity 1
    waiting,  \* connectionStats[s].waiting
    proxied   \* connectionStats[s].proxied

threadVars   == <<pc, ptr, stopping, then, missing>>
instanceVars == <<running, status, manage, flag, timer, proc>>
resourceVars == <<inUse, reserved, chan>>
counterVars  == <<waiting, proxied>>
vars == <<threadVars, instanceVars, resourceVars, counterVars>>
-----------------------------------------------------------------------------
\* Places of the goroutines.  stopService is a call: "stopLookup" to "killed".
StopCall == {"stopLookup", "stopLock", "wait", "killed"}
Starting == {"reserve", "pick", "park", "parked", "refused", "flag", "launch",
             "probe", "ready"}
ConnectionPlaces == StopCall \cup Starting \cup
    {"new", "lookup", "trylock", "queued", "requeue", "track", "dial",
     "restart", "register", "unreserve", "attach", "count", "proxied",
     "uncount", "fail", "notify", "done"}
TimerPlaces == StopCall \cup {"off", "idle"}

Needs(s) == {r \in Resources : Requirement[s][r] > 0}
Short(s) == {r \in Needs(s) : Requirement[s][r] > Amount[r] - inUse[r]}
Plus(use, s)  == [r \in Resources |-> use[r] + Requirement[s][r]]
Minus(use, s) == [r \in Resources |-> use[r] - Requirement[s][r]]
Decrement(n) == IF n > 0 THEN n - 1 ELSE 0

\* Definitions named Bad... are never used by an action: each is a fault a
\* change of the code could bring in, put in the place of the definition that
\* follows it to show that a property notices.
BadBroadcast(rs) == chan' = chan    \* fault: a channel without a buffer drops it

\* broadcastResourceChanges: a non-blocking send to every registered channel.
Broadcast(rs) ==
    chan' = [r \in Resources |-> [s \in Services |->
                IF r \in rs /\ chan[r][s] = "empty" THEN "full" ELSE chan[r][s]]]

\* trackServiceLastUsed: looks the service up by name and re-arms its timer.
\* Two sections in one action: an instance released between them has no timer
\* any more, and one made ready between them counts as looked up afterwards
\* (left out: a timer armed and expired between them).
Touch(s) ==
    LET i == running[s]
    IN  timer' = IF i # None /\ timer[i] # "nil"
                 THEN [timer EXCEPT ![i] = "armed"] ELSE timer

\* canBeStopped, with i the instance of the service it is asked about.
CanBeStopped(i) == manage[i] = None /\ proxied[Target[i]] = 0

\* The body of cleanUpStoppedServiceWhenServiceMutexIsLocked, past its guard.
BadRelease(i) ==
    /\ status' = [status EXCEPT ![i] = "released"]
    /\ timer' = [timer EXCEPT ![i] = "nil"]
    /\ inUse' = Minus(inUse, Target[i])          \* fault: never reserved
    /\ running' = [running EXCEPT ![Target[i]] = None]
    /\ Broadcast(Needs(Target[i]))

Release(i) ==
    /\ status' = [status EXCEPT ![i] = "released"]
    /\ timer' = [timer EXCEPT ![i] = "nil"]
    /\ inUse' = IF flag[i] THEN Minus(inUse, Target[i]) ELSE inUse
    /\ running' = IF running[Target[i]] = i
                  THEN [running EXCEPT ![Target[i]] = None] ELSE running
    /\ Broadcast(Needs(Target[i]))

BadCleanUp(i) == Release(i)                      \* fault: no guard

\* cleanUpStoppedServiceWhenServiceMutexIsLocked(.., i, true).
CleanUp(i) ==
    \/ status[i] # "released" /\ Release(i)
    \/ /\ status[i] = "released"
       /\ UNCHANGED <<status, timer, inUse, running, chan>>

Goto(t, place)   == pc' = [pc EXCEPT ![t] = place]
Move(t, p, q)    == pc[t] = p /\ Goto(t, q)
Hold(i, t)       == manage[i] = None /\ manage' = [manage EXCEPT ![i] = t]
Unlock(i)        == manage' = [manage EXCEPT ![i] = None]

\* stopService(s) is called by t, which continues at place p.
CallStop(t, s, p) ==
    /\ Goto(t, "stopLookup")
    /\ stopping' = [stopping EXCEPT ![t] = s]
    /\ then' = [then EXCEPT ![t] = p]
    /\ ptr' = [ptr EXCEPT ![t] = None]

ReturnFromStop(t) ==
    /\ Goto(t, then[t])
    /\ stopping' = [stopping EXCEPT ![t] = None]
    /\ then' = [then EXCEPT ![t] = "none"]
    /\ ptr' = [ptr EXCEPT ![t] = None]

Init ==
    /\ pc = [t \in Threads |-> IF t \in Connections THEN "new" ELSE "off"]
    /\ ptr = [t \in Threads |-> None]
    /\ stopping = [t \in Threads |-> None]
    /\ then = [t \in Threads |-> "none"]
    /\ missing = [c \in Connections |-> None]
    /\ running = [s \in Services |-> None]
    /\ status = [i \in Instances |-> "unborn"]
    /\ manage = [i \in Instances |-> None]
    /\ flag = [i \in Instances |-> FALSE]
    /\ timer = [i \in Instances |-> "nil"]
    /\ proc = [i \in Instances |-> "none"]
    /\ inUse = [r \in Resources |-> 0]
    /\ reserved = [r \in Resources |-> 0]
    /\ chan = [r \in Resources |-> [s \in Services |-> "none"]]
    /\ waiting = [s \in Services |-> 0]
    /\ proxied = [s \in Services |-> 0]
-----------------------------------------------------------------------------
(***************************************************************************)
(* handleConnection and startServiceIfNotAlreadyRunningAndConnect.  A      *)
(* client may disconnect at any time: each place of the code that looks    *)
(* at clientDisconnected may find it closed.                               *)
(***************************************************************************)
BadAccept(c) ==
    /\ Move(c, "new", "lookup")                  \* fault: not counted
    /\ UNCHANGED <<ptr, stopping, then, missing, instanceVars, resourceVars,
                   counterVars>>

Accept(c) ==
    /\ Move(c, "new", "lookup")
    /\ waiting' = [waiting EXCEPT ![Target[c]] = @ + 1]
    /\ UNCHANGED <<ptr, stopping, then, missing, instanceVars, resourceVars,
                   proxied>>

Lookup(c) ==
    LET i == running[Target[c]]
    IN  /\ Move(c, "lookup", IF i = None THEN "register" ELSE "trylock")
        /\ ptr' = [ptr EXCEPT ![c] = i]
        /\ UNCHANGED <<stopping, then, missing, instanceVars, resourceVars,
                       counterVars>>

TryLock(c) ==
    /\ \/ Move(c, "trylock", "track") /\ Hold(ptr[c], c)
       \/ /\ Move(c, "trylock", "queued")
          /\ manage[ptr[c]] # None
          /\ UNCHANGED manage
    /\ UNCHANGED <<ptr, stopping, then, missing, running, status, flag, timer,
                   proc, resourceVars, counterVars>>

\* The two arms of LockOrCancel.
LockQueued(c) ==
    /\ Move(c, "queued", "requeue")
    /\ Hold(ptr[c], c)
    /\ UNCHANGED <<ptr, stopping, then, missing, running, status, flag, timer,
                   proc, resourceVars, counterVars>>

BadCancelQueued(c) ==
    /\ Move(c, "queued", "done")                 \* fault: still counted
    /\ ptr' = [ptr EXCEPT ![c] = None]
    /\ UNCHANGED <<stopping, then, missing, instanceVars, resourceVars,
                   counterVars>>

CancelQueued(c) ==
    /\ Move(c, "queued", "fail")
    /\ ptr' = [ptr EXCEPT ![c] = None]
    /\ UNCHANGED <<stopping, then, missing, instanceVars, resourceVars,
                   counterVars>>

\* The queue was only waited for: unlock and look the service up again.
Requeue(c) ==
    /\ \/ Move(c, "requeue", "lookup")
       \/ Move(c, "requeue", "fail")      \* the client is gone
    /\ Unlock(ptr[c])
    /\ ptr' = [ptr EXCEPT ![c] = None]
    /\ UNCHANGED <<stopping, then, missing, running, status, flag, timer, proc,
                   resourceVars, counterVars>>

Track(c) ==
    /\ Move(c, "track", "dial")
    /\ Touch(Target[c])
    /\ Unlock(ptr[c])
    /\ ptr' = [ptr EXCEPT ![c] = None]
    /\ UNCHANGED <<stopping, then, missing, running, status, flag, proc,
                   resourceVars, counterVars>>

\* Something may answer on the service's port: its process, or what a
\* detached service left behind when its command returned.
Listening(s) ==
    \E i \in Instances :
        /\ Target[i] = s
        /\ \/ proc[i] \in {"up", "killed"}
           \/ s \notin StoppedOnExit /\ proc[i] # "none" /\ status[i] # "released"

DialOk(c) ==
    /\ Move(c, "dial", "attach")
    /\ Listening(Target[c])
    /\ UNCHANGED <<ptr, stopping, then, missing, instanceVars, resourceVars,
                   counterVars>>

DialFail(c) ==
    /\ Move(c, "dial", IF Target[c] \in Restarting THEN "restart" ELSE "fail")
    /\ UNCHANGED <<ptr, stopping, then, missing, instanceVars, resourceVars,
                   counterVars>>

Restart(c) ==
    /\ pc[c] = "restart"
    /\ \/ running[Target[c]] # None /\ CallStop(c, Target[c], "register")
       \/ /\ running[Target[c]] = None
          /\ Goto(c, "register")
          /\ UNCHANGED <<ptr, stopping, then>>
    /\ UNCHANGED <<missing, instanceVars, resourceVars, counterVars>>
-----------------------------------------------------------------------------
(***************************************************************************)
(* startService and reserveResources.                                      *)
(***************************************************************************)
BadRegister(c) ==
    /\ Move(c, "register", "reserve")            \* fault: no test of the map
    /\ running' = [running EXCEPT ![Target[c]] = c]
    /\ status' = [status EXCEPT ![c] = "live"]
    /\ Hold(c, c)
    /\ UNCHANGED <<ptr, stopping, then, missing, flag, timer, proc,
                   resourceVars, counterVars>>

Register(c) ==
    /\ \/ /\ running[Target[c]] = None
          /\ Move(c, "register", "reserve")
          /\ running' = [running EXCEPT ![Target[c]] = c]
          /\ status' = [status EXCEPT ![c] = "live"]
          /\ Hold(c, c)
       \/ /\ running[Target[c]] # None     \* "service already started"
          /\ Move(c, "register", "fail")
          /\ UNCHANGED <<running, status, manage>>
    /\ UNCHANGED <<ptr, stopping, then, missing, flag, timer, proc,
                   resourceVars, counterVars>>

ReserveOk(c) ==
    LET s == Target[c]
    IN  /\ Move(c, "reserve", "flag")
        /\ Short(s) = {}
        /\ inUse' = Plus(inUse, s)
        /\ reserved' = Plus(reserved, s)
        /\ chan' = [r \in Resources |->
                      IF r \in Needs(s) THEN [chan[r] EXCEPT ![s] = "none"]
                      ELSE chan[r]]
        /\ missing' = [missing EXCEPT ![c] = None]
        /\ UNCHANGED <<ptr, stopping, then, instanceVars, counterVars>>

\* The requirements are a Go map: any short resource may be found first.
ReserveMissing(c) ==
    /\ Move(c, "reserve", "pick")
    /\ \E r \in Short(Target[c]) : missing' = [missing EXCEPT ![c] = r]
    /\ UNCHANGED <<ptr, stopping, then, instanceVars, resourceVars, counterVars>>

\* findEarliestLastUsedServiceUsingResource.  Which candidate was used least
\* recently is left open.  Left out: the clock is read before serviceMutex is
\* taken, so a candidate that is used in between is passed over.
Victims(c) ==
    {s \in Services \ {Target[c]} :
        /\ running[s] # None
        /\ missing[c] \in Needs(s)
        /\ CanBeStopped(running[s])}

PickVictim(c) ==
    /\ pc[c] = "pick"
    /\ \/ \E s \in Victims(c) : CallStop(c, s, "reserve")
       \/ /\ Victims(c) = {}
          /\ Goto(c, "park")
          /\ UNCHANGED <<ptr, stopping, then>>
    /\ UNCHANGED <<missing, instanceVars, resourceVars, counterVars>>

Park(c) ==
    /\ Move(c, "park", "parked")
    /\ chan' = [chan EXCEPT ![missing[c]][Target[c]] = "empty"]
    /\ UNCHANGED <<ptr, stopping, then, missing, instanceVars, inUse, reserved,
                   counterVars>>

Unpark(c, place) ==
    /\ Move(c, "parked", place)
    /\ chan' = [chan EXCEPT ![missing[c]][Target[c]] = "none"]
    /\ missing' = [missing EXCEPT ![c] = None]
    /\ UNCHANGED <<ptr, stopping, then, instanceVars, inUse, reserved,
                   counterVars>>

Wake(c) == Unpark(c, "reserve") /\ chan[missing[c]][Target[c]] = "full"

\* maxWaitTimeTimer fired, or the client is gone.
GiveUp(c) == Unpark(c, "refused")

BadRefused(c) ==
    /\ Move(c, "refused", "fail")
    /\ CleanUp(c)                                \* fault: no unlock
    /\ UNCHANGED <<ptr, stopping, then, missing, manage, flag, proc, reserved,
                   counterVars>>

Refused(c) ==
    /\ Move(c, "refused", "fail")
    /\ CleanUp(c)
    /\ Unlock(c)
    /\ UNCHANGED <<ptr, stopping, then, missing, flag, proc, reserved,
                   counterVars>>

FlagReserved(c) ==
    /\ Move(c, "flag", "launch")
    /\ flag' = [flag EXCEPT ![c] = TRUE]
    /\ UNCHANGED <<ptr, stopping, then, missing, running, status, manage, timer,
                   proc, resourceVars, counterVars>>

BadLaunchFail(c) ==
    /\ Move(c, "launch", "fail")
    /\ CleanUp(c)                                \* fault: still reserved
    /\ Unlock(c)
    /\ UNCHANGED <<ptr, stopping, then, missing, flag, proc, reserved,
                   counterVars>>

\* runServiceCommand returned nil.
LaunchFail(c) ==
    /\ Move(c, "launch", "fail")
    /\ reserved' = Minus(reserved, Target[c])
    /\ CleanUp(c)
    /\ Unlock(c)
    /\ UNCHANGED <<ptr, stopping, then, missing, flag, proc, counterVars>>

LaunchOk(c) ==
    /\ Move(c, "launch", "probe")
    /\ proc' = [proc EXCEPT ![c] = "up"]
    /\ UNCHANGED <<ptr, stopping, then, missing, running, status, manage, flag,
                   timer, resourceVars, counterVars>>

\* The health check passed and a connection attempt succeeded.
ProbeOk(c) ==
    /\ Move(c, "probe", "ready")
    /\ Listening(Target[c])
    /\ UNCHANGED <<ptr, stopping, then, missing, instanceVars, resourceVars,
                   counterVars>>

BadProbeFail(c) ==
    /\ pc[c] = "probe"
    /\ CallStop(c, Target[c], "unreserve")       \* fault: no unlock
    /\ UNCHANGED <<missing, instanceVars, resourceVars, counterVars>>

\* The health check or the connection attempts failed, timed out, saw the
\* process exit or the client leave: unlock, then stop the service by name.
ProbeFail(c) ==
    /\ pc[c] = "probe"
    /\ Unlock(c)
    /\ CallStop(c, Target[c], "unreserve")
    /\ UNCHANGED <<missing, running, status, flag, timer, proc, resourceVars,
                   counterVars>>

Unreserve(c) ==
    /\ Move(c, "unreserve", "fail")
    /\ reserved' = Minus(reserved, Target[c])
    /\ UNCHANGED <<ptr, stopping, then, missing, instanceVars, inUse, chan,
                   counterVars>>

Ready(c) ==
    /\ Move(c, "ready", "attach")
    /\ reserved' = Minus(reserved, Target[c])
    /\ timer' = [timer EXCEPT ![c] = "armed"]
    /\ Unlock(c)
    /\ UNCHANGED <<ptr, stopping, then, missing, running, status, flag, proc,
                   inUse, chan, counterVars>>
-----------------------------------------------------------------------------
(***************************************************************************)
(* The rest of handleConnection: the counters and the end of a client.     *)
(***************************************************************************)
Attach(c) ==
    /\ Move(c, "attach", "count")
    /\ Touch(Target[c])
    /\ UNCHANGED <<ptr, stopping, then, missing, running, status, manage, flag,
                   proc, resourceVars, counterVars>>

Count(c) ==
    /\ Move(c, "count", "proxied")
    /\ proxied' = [proxied EXCEPT ![Target[c]] = @ + 1]
    /\ waiting' = [waiting EXCEPT ![Target[c]] = Decrement(@)]
    /\ UNCHANGED <<ptr, stopping, then, missing, instanceVars, resourceVars>>

\* forwardConnection returned; after a failed first write there is no tracking.
EndProxy(c) ==
    /\ Move(c, "proxied", "uncount")
    /\ Touch(Target[c]) \/ UNCHANGED timer
    /\ UNCHANGED <<ptr, stopping, then, missing, running, status, manage, flag,
                   proc, resourceVars, counterVars>>

\* incrementConnection decides on the broadcast before it releases its mutex.
AfterDecrement(c, w, p) == Goto(c, IF w = 0 /\ p = 0 THEN "notify" ELSE "done")

Uncount(c) ==
    LET s == Target[c]
        p == Decrement(proxied[s])
    IN  /\ pc[c] = "uncount"
        /\ proxied' = [proxied EXCEPT ![s] = p]
        /\ AfterDecrement(c, waiting[s], p)
        /\ UNCHANGED <<ptr, stopping, then, missing, instanceVars, resourceVars,
                       waiting>>

Fail(c) ==
    LET s == Target[c]
        w == Decrement(waiting[s])
    IN  /\ pc[c] = "fail"
        /\ waiting' = [waiting EXCEPT ![s] = w]
        /\ AfterDecrement(c, w, proxied[s])
        /\ UNCHANGED <<ptr, stopping, then, missing, instanceVars, resourceVars,
                       proxied>>

Notify(c) ==
    /\ Move(c, "notify", "done")
    /\ Broadcast(Needs(Target[c]))
    /\ UNCHANGED <<ptr, stopping, then, missing, instanceVars, inUse, reserved,
                   counterVars>>
-----------------------------------------------------------------------------
(***************************************************************************)
(* stopService, called by an evictor, a restart, a failed start or an idle *)
(* timer: lookup by name, manageMutex, SIGTERM, wait, SIGKILL, cleanup.    *)
(***************************************************************************)
StopLookup(t) ==
    LET i == running[stopping[t]]
    IN  /\ pc[t] = "stopLookup"
        /\ \/ i = None /\ ReturnFromStop(t)
           \/ /\ i # None
              /\ Goto(t, "stopLock")
              /\ ptr' = [ptr EXCEPT ![t] = i]
              /\ UNCHANGED <<stopping, then>>
        /\ UNCHANGED <<missing, instanceVars, resourceVars, counterVars>>

StopLock(t) ==
    LET i == ptr[t]
    IN  /\ Move(t, "stopLock", "wait")
        /\ Hold(i, t)
        /\ timer' = IF timer[i] = "armed" THEN [timer EXCEPT ![i] = "spent"]
                    ELSE timer
        /\ UNCHANGED <<ptr, stopping, then, missing, running, status, flag, proc,
                       resourceVars, counterVars>>

BadStopFinish(t) ==
    /\ pc[t] \in {"wait", "killed"}              \* fault: no wait for the exit
    /\ CleanUp(ptr[t])
    /\ Unlock(ptr[t])
    /\ ReturnFromStop(t)
    /\ UNCHANGED <<missing, flag, proc, reserved, counterVars>>

\* There was no process, it is gone already, or it left within the timeout;
\* or SIGKILL was sent, which is not waited for.
StopFinish(t) ==
    /\ \/ pc[t] = "wait" /\ proc[ptr[t]] \in {"none", "exited", "reaped"}
       \/ pc[t] = "killed"
    /\ CleanUp(ptr[t])
    /\ Unlock(ptr[t])
    /\ ReturnFromStop(t)
    /\ UNCHANGED <<missing, flag, proc, reserved, counterVars>>

StopKill(t) ==
    /\ Move(t, "wait", "killed")
    /\ proc[ptr[t]] \in {"up", "killed"}
    /\ proc' = [proc EXCEPT ![ptr[t]] = "killed"]
    /\ UNCHANGED <<ptr, stopping, then, missing, running, status, manage, flag,
                   timer, resourceVars, counterVars>>

\* "Manual action required": stopService returns without a cleanup.
StopAbandon(t) ==
    /\ pc[t] = "wait"
    /\ proc[ptr[t]] = "up"
    /\ Target[ptr[t]] \in Unkillable
    /\ Unlock(ptr[t])
    /\ ReturnFromStop(t)
    /\ UNCHANGED <<missing, running, status, flag, timer, proc, resourceVars,
                   counterVars>>

\* A process exits, at any time: process.Wait returns in its monitor, which
\* signals exitWaitGroup.
Exit(i) ==
    /\ proc[i] \in {"up", "killed"}
    /\ proc' = [proc EXCEPT ![i] = "exited"]
    /\ UNCHANGED <<threadVars, running, status, manage, flag, timer,
                   resourceVars, counterVars>>

MonitorClean(i) ==
    /\ proc[i] = "exited"
    /\ proc' = [proc EXCEPT ![i] = "reaped"]
    /\ IF Target[i] \in StoppedOnExit THEN CleanUp(i)
       ELSE UNCHANGED <<status, timer, inUse, running, chan>>
    /\ UNCHANGED <<threadVars, manage, flag, reserved, counterVars>>

\* The idle timer of i fires and its callback gets a goroutine.
TimerFire(t, i) ==
    /\ Move(t, "off", "idle")
    /\ timer[i] = "armed"
    /\ timer' = [timer EXCEPT ![i] = "spent"]
    /\ ptr' = [ptr EXCEPT ![t] = i]
    /\ UNCHANGED <<stopping, then, missing, running, status, manage, flag, proc,
                   resourceVars, counterVars>>

IdleDrop(t) ==
    /\ Move(t, "idle", "off")
    /\ timer[ptr[t]] = "nil"
    /\ ptr' = [ptr EXCEPT ![t] = None]
    /\ UNCHANGED <<stopping, then, missing, instanceVars, resourceVars,
                   counterVars>>

BadIdleRearm(t) ==
    /\ Move(t, "idle", "off")
    /\ timer[ptr[t]] # "nil"
    /\ ~CanBeStopped(ptr[t])                     \* fault: no Reset
    /\ ptr' = [ptr EXCEPT ![t] = None]
    /\ UNCHANGED <<stopping, then, missing, instanceVars, resourceVars,
                   counterVars>>

IdleRearm(t) ==
    /\ Move(t, "idle", "off")
    /\ timer[ptr[t]] # "nil"
    /\ ~CanBeStopped(ptr[t])
    /\ timer' = [timer EXCEPT ![ptr[t]] = "armed"]
    /\ ptr' = [ptr EXCEPT ![t] = None]
    /\ UNCHANGED <<stopping, then, missing, running, status, manage, flag, proc,
                   resourceVars, counterVars>>

IdleStop(t) ==
    /\ pc[t] = "idle"
    /\ timer[ptr[t]] # "nil"
    /\ CanBeStopped(ptr[t])
    /\ CallStop(t, Target[ptr[t]], "off")
    /\ UNCHANGED <<missing, instanceVars, resourceVars, counterVars>>
-----------------------------------------------------------------------------
StopStep(t) == StopLookup(t) \/ StopFinish(t) \/ StopKill(t) \/ StopAbandon(t)
IdleStep(t) == IdleDrop(t) \/ IdleRearm(t) \/ IdleStop(t)

\* What the goroutine of a connection does on its own, once accepted.
ProgramStep(c) ==
    \/ Lookup(c) \/ TryLock(c) \/ Requeue(c) \/ Track(c)
    \/ DialOk(c) \/ DialFail(c) \/ Restart(c) \/ Register(c)
    \/ ReserveOk(c) \/ ReserveMissing(c) \/ PickVictim(c)
    \/ Park(c) \/ Wake(c) \/ GiveUp(c) \/ Refused(c)
    \/ FlagReserved(c) \/ LaunchFail(c) \/ LaunchOk(c)
    \/ ProbeOk(c) \/ ProbeFail(c) \/ Unreserve(c) \/ Ready(c)
    \/ Attach(c) \/ Count(c) \/ Uncount(c) \/ Fail(c) \/ Notify(c)

\* What the goroutine of a connection does when its client acts.
ClientStep(c) == Accept(c) \/ CancelQueued(c) \/ EndProxy(c)

Next ==
    \/ \E c \in Connections : ClientStep(c) \/ LockQueued(c) \/ ProgramStep(c)
    \/ \E t \in Threads : StopLock(t) \/ StopStep(t)
    \/ \E t \in Timers : IdleStep(t) \/ \E i \in Instances : TimerFire(t, i)
    \/ \E i \in Instances : Exit(i) \/ MonitorClean(i)

Spec == Init /\ [][Next]_vars

(***************************************************************************)
(* The Go scheduler runs every runnable goroutine and timers expire.       *)
(* manageMutex is a channel: receivers queue first in, first out and a     *)
(* send hands the token to the first of them, so a blocked Lock is served  *)
(* (strong fairness).  A SIGKILLed process exits.  Clients owe nothing, a  *)
(* process that was not killed may run for ever, and TimerFire is strongly *)
(* fair because the number of callback goroutines is a bound of the model. *)
(***************************************************************************)
Fairness ==
    /\ \A c \in Connections :
        /\ WF_vars(ProgramStep(c) \/ StopStep(c))
        /\ SF_vars(LockQueued(c) \/ StopLock(c))
    /\ \A t \in Timers :
        /\ WF_vars(IdleStep(t) \/ StopStep(t))
        /\ SF_vars(StopLock(t))
    /\ \A i \in Instances :
        /\ SF_vars(\E t \in Timers : TimerFire(t, i))
        /\ WF_vars(MonitorClean(i) \/ (proc[i] = "killed" /\ Exit(i)))

FairSpec == Spec /\ Fairness
=============================================================================
