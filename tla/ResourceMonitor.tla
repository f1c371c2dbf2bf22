-------------------------- MODULE ResourceMonitor --------------------------
(***************************************************************************)
(* Resources measured by a CheckCommand: one monitor goroutine per         *)
(* resource runs the command, caches the amount and signals the services   *)
(* that wait; reserveResources asks for a measurement, compares the cached *)
(* amount with what starting services have reserved, evicts or waits.      *)
(* monitor_resources.go and the measured part of resources.go.             *)
(*                                                                         *)
(* A service stands for its instance and for the one goroutine that starts *)
(* it (OneReserverPerService of ServiceManagerProperties).  A section      *)
(* under serviceMutex, or under resourceChangeByResourceMutex alone, is    *)
(* one action: the monitor takes the second mutex and never the first.     *)
(* Inside a section that registers channels and then pokes the monitor, a  *)
(* broadcast in between has the effect of one right after it.              *)
(*                                                                         *)
(* The amounts are physical here: a process takes memory some time after   *)
(* its launch and gives it back when it exits, and programs that are none  *)
(* of the proxy's services take some as well.                              *)
(***************************************************************************)
EXTENDS Integers, ResourceUnits

CONSTANTS
    Services,    \* the config.Services that need such a resource, by name
    Resources,   \* config.ResourcesAvailable with a CheckCommand, by name
    Capacity,    \* what there is of a resource
    Requirement, \* ResourceRequirements of a service, 0 where it lists none
    Usage,       \* what the process of a service really takes
    Others,      \* the amounts of a resource that other programs may take
    None         \* no service, no resource

ASSUME MonitorAssumption ==
    /\ IsFiniteSet(Services)
    /\ Capacity \in [Resources -> Nat]
    /\ Requirement \in [Services -> [Resources -> Nat]]
    /\ Usage \in [Services -> [Resources -> Nat]]
    /\ \A s \in Services : \E r \in Resources : Requirement[s][r] > 0
    /\ Others \in [Resources -> SUBSET Nat]
    /\ \A r \in Resources : 0 \in Others[r]
    /\ None \notin Services \cup Resources

VARIABLES
    place,     \* where the start, the run or the stop of a service is
    recheck,   \* recheckNeeded of its reserveResources
    missing,   \* missingResource
    victim,    \* the service it is stopping to make room
    pending,   \* pendingCheckChannels not received from yet
    answered,  \* history: checked since the attempt last distrusted the cache
    first,     \* checkCommandFirstChangeByResourceChans[r][s], capacity 1
    change,    \* resourceChangeByResourceChans[r][s], capacity 1, with its value
    reserved,  \* resourceManager.resourcesReserved
    available, \* resourceManager.resourcesAvailable
    monitor,   \* where the monitor goroutine of a resource is
    sample,    \* what the command running for a resource has measured
    timer,     \* the monitor's timer: armed or off
    poke,      \* monitorUnpauseChans[r] holds its one value
    other      \* what other programs take of a resource

waiterVars  == <<place, recheck, missing, victim, pending, answered>>
channelVars == <<first, change>>
monitorVars == <<available, monitor, sample, timer, poke>>
vars == <<waiterVars, channelVars, monitorVars, reserved, other>>
-----------------------------------------------------------------------------
Needs(s) == {r \in Resources : Requirement[s][r] > 0}
Plus(s)  == [r \in Resources |-> reserved[r] + Requirement[s][r]]
Minus(s) == [r \in Resources |-> reserved[r] - Requirement[s][r]]

\* isEnoughResourceForServiceWithCheckCommandThatRan: the services that have
\* passed their health check are in the measurement, the others in reserved.
Short(s) == {r \in Needs(s) : Requirement[s][r] > available[r] - reserved[r]}

\* The services whose process holds its memory.
InMemory == {s \in Services : place[s] \in {"loaded", "ready", "stopping"}}

\* What a CheckCommand prints.
Free(r) == Capacity[r] - Use(Usage, InMemory, r) - other[r]

HasWaiters(r) ==
    \E s \in Services : first[r][s] # "none" \/ change[r][s] # "none"

\* broadcastResourceChange...: a non-blocking send to the channels of rs.
Signalled(rs, value) ==
    [r \in Resources |-> [s \in Services |->
        IF r \in rs /\ change[r][s] = "empty" THEN value ELSE change[r][s]]]

Go(s, p, q) == place[s] = p /\ place' = [place EXCEPT ![s] = q]

\* The services whose reserveResources is under way.
Waits(s) == place[s] \in {"evaluate", "await", "pick", "evicting", "parked"}

\* The attempt of s decides with recheckNeeded = b from here on.
Distrust(s, b) ==
    /\ recheck' = [recheck EXCEPT ![s] = b]
    /\ answered' = IF b THEN [answered EXCEPT ![s] = {}] ELSE answered

Init ==
    /\ place = [s \in Services |-> "off"]
    /\ recheck = [s \in Services |-> FALSE]
    /\ missing = [s \in Services |-> None]
    /\ victim = [s \in Services |-> None]
    /\ pending = [s \in Services |-> {}]
    /\ answered = [s \in Services |-> {}]
    /\ first = [r \in Resources |-> [s \in Services |-> "none"]]
    /\ change = [r \in Resources |-> [s \in Services |-> "none"]]
    /\ reserved = [r \in Resources |-> 0]
    /\ available = [r \in Resources |-> 0]
    /\ monitor = [r \in Resources |-> "select"]
    /\ sample = [r \in Resources |-> 0]
    /\ timer = [r \in Resources |-> "armed"]     \* time.NewTimer(0)
    /\ poke = [r \in Resources |-> FALSE]
    /\ other = [r \in Resources |-> 0]
-----------------------------------------------------------------------------
(***************************************************************************)
(* monitorResourceAvailability and one run of the check.  A command may    *)
(* take any time, or for ever.                                             *)
(***************************************************************************)
Tick(r) ==
    /\ monitor[r] = "select" /\ timer[r] = "armed"
    /\ timer' = [timer EXCEPT ![r] = "off"]
    /\ monitor' = [monitor EXCEPT ![r] = "running"]
    /\ UNCHANGED <<waiterVars, channelVars, reserved, other, available, sample,
                   poke>>

\* A poke also stops the timer and drains it.
Poked(r) ==
    /\ monitor[r] = "select" /\ poke[r]
    /\ poke' = [poke EXCEPT ![r] = FALSE]
    /\ timer' = [timer EXCEPT ![r] = "off"]
    /\ monitor' = [monitor EXCEPT ![r] = "running"]
    /\ UNCHANGED <<waiterVars, channelVars, reserved, other, available, sample>>

Measure(r) ==
    /\ monitor[r] = "running"
    /\ sample' = [sample EXCEPT ![r] = Free(r)]
    /\ monitor' = [monitor EXCEPT ![r] = "measured"]
    /\ UNCHANGED <<waiterVars, channelVars, reserved, other, available, timer,
                   poke>>

\* The monitor goes back to its select and polls on only while someone waits.
Rearm(r) ==
    /\ timer' = IF HasWaiters(r) THEN [timer EXCEPT ![r] = "armed"] ELSE timer
    /\ monitor' = [monitor EXCEPT ![r] = "select"]

BadCheckFails(r) ==
    /\ monitor[r] = "running"
    /\ monitor' = [monitor EXCEPT ![r] = "select"]   \* fault: no retry
    /\ UNCHANGED <<waiterVars, channelVars, reserved, other, available, sample,
                   timer, poke>>

\* The command failed or printed no number: nobody is signalled.
CheckFails(r) ==
    /\ monitor[r] = "running"
    /\ Rearm(r)
    /\ UNCHANGED <<waiterVars, channelVars, reserved, other, available, sample,
                   poke>>

Store(r) ==
    /\ monitor[r] = "measured"
    /\ monitor' = [monitor EXCEPT ![r] = IF available[r] = sample[r]
                                         THEN "same" ELSE "changed"]
    /\ available' = [available EXCEPT ![r] = sample[r]]
    /\ sample' = [sample EXCEPT ![r] = 0]
    /\ UNCHANGED <<waiterVars, channelVars, reserved, other, timer, poke>>

BadPublish(r) ==
    /\ monitor[r] \in {"same", "changed"}
    /\ change' = IF monitor[r] = "changed" THEN Signalled({r}, "false") ELSE change
    /\ timer' = [timer EXCEPT ![r] = "armed"]        \* fault: polls for ever
    /\ monitor' = [monitor EXCEPT ![r] = "select"]
    /\ first' = [first EXCEPT ![r] = [s \in Services |->
                    IF @[s] = "empty" THEN "full" ELSE @[s]]]
    /\ answered' = [s \in Services |->
                     IF Waits(s) THEN answered[s] \cup {r} ELSE answered[s]]
    /\ UNCHANGED <<place, recheck, missing, victim, pending, reserved, other,
                   available, sample, poke>>

\* Every first-change channel is signalled, the others only of a change.
Publish(r) ==
    /\ monitor[r] \in {"same", "changed"}
    /\ first' = [first EXCEPT ![r] = [s \in Services |->
                    IF @[s] = "empty" THEN "full" ELSE @[s]]]
    /\ change' = IF monitor[r] = "changed" THEN Signalled({r}, "false") ELSE change
    /\ answered' = [s \in Services |->
                     IF Waits(s) THEN answered[s] \cup {r} ELSE answered[s]]
    /\ Rearm(r)
    /\ UNCHANGED <<place, recheck, missing, victim, pending, reserved, other,
                   available, sample, poke>>
-----------------------------------------------------------------------------
(***************************************************************************)
(* reserveResources.                                                       *)
(***************************************************************************)
Begin(s) ==
    /\ Go(s, "off", "evaluate")
    /\ Distrust(s, TRUE)
    /\ UNCHANGED <<missing, victim, pending, channelVars, monitorVars, reserved,
                   other>>

\* UnpauseResourceAvailabilityMonitoring of each of them: a non-blocking send.
Unpause(rs) == poke' = [r \in Resources |-> poke[r] \/ r \in rs]

\* firstCheckNeeded: ask for a measurement of every resource.
Request(s) ==
    /\ Go(s, "evaluate", "await") /\ recheck[s]
    /\ pending' = [pending EXCEPT ![s] = Needs(s)]
    /\ first' = [r \in Resources |->
                    IF r \in Needs(s) THEN [first[r] EXCEPT ![s] = "empty"]
                    ELSE first[r]]
    /\ Unpause(Needs(s))
    /\ UNCHANGED <<recheck, missing, victim, answered, change, available,
                   monitor, sample, timer, reserved, other>>

\* waitForFirstCheckCommands receives from its channels one after the other.
Receive(s) ==
    /\ place[s] = "await"
    /\ \E r \in pending[s] :
        /\ first[r][s] = "full"
        /\ first' = [first EXCEPT ![r][s] = "empty"]
        /\ pending' = [pending EXCEPT ![s] = @ \ {r}]
    /\ UNCHANGED <<place, recheck, missing, victim, answered, change,
                   monitorVars, reserved, other>>

\* reserveResources returns and its locals are gone.
Return(s) ==
    /\ recheck' = [recheck EXCEPT ![s] = FALSE]
    /\ answered' = [answered EXCEPT ![s] = {}]

Unregister(s) == first' = [r \in Resources |-> [first[r] EXCEPT ![s] = "none"]]

AllReceived(s) ==
    /\ Go(s, "await", "evaluate") /\ pending[s] = {}
    /\ Unregister(s)
    /\ Distrust(s, FALSE)
    /\ UNCHANGED <<missing, victim, pending, change, monitorVars, reserved, other>>

BadGiveUpChecks(s) ==
    /\ Go(s, "await", "refused") /\ pending[s] # {}
    /\ pending' = [pending EXCEPT ![s] = {}]         \* fault: still registered
    /\ Return(s)
    /\ UNCHANGED <<missing, victim, channelVars, monitorVars, reserved, other>>

BadDeadline(s) ==
    /\ Go(s, "await", "refused") /\ pending[s] = {}  \* fault: checks come first
    /\ Unregister(s)
    /\ Return(s)
    /\ UNCHANGED <<missing, victim, pending, change, monitorVars, reserved, other>>

\* maxWaitTimeTimer fired, or the client is gone.
GiveUpChecks(s) ==
    /\ Go(s, "await", "refused") /\ pending[s] # {}
    /\ Unregister(s)
    /\ pending' = [pending EXCEPT ![s] = {}]
    /\ Return(s)
    /\ UNCHANGED <<missing, victim, change, monitorVars, reserved, other>>

Reserve(s) ==
    /\ Go(s, "evaluate", "granted") /\ ~recheck[s]
    /\ Short(s) = {}
    /\ change' = [r \in Resources |->
                     IF r \in Needs(s) THEN [change[r] EXCEPT ![s] = "none"]
                     ELSE change[r]]
    /\ reserved' = Plus(s)
    /\ Return(s)
    /\ UNCHANGED <<missing, victim, pending, first, monitorVars, other>>

\* handleNotEnoughResource; any short resource may be met first.
NotEnough(s) ==
    /\ Go(s, "evaluate", "pick") /\ ~recheck[s]
    /\ \E r \in Short(s) : missing' = [missing EXCEPT ![s] = r]
    /\ Unregister(s)
    /\ UNCHANGED <<recheck, victim, pending, answered, change, monitorVars,
                   reserved, other>>

\* An idle service that uses the missing resource is stopped.
PickVictim(s) ==
    /\ place[s] = "pick"
    /\ \E v \in Services :
        /\ place[v] = "ready" /\ missing[s] \in Needs(v)
        /\ place' = [place EXCEPT ![s] = "evicting", ![v] = "stopping"]
        /\ victim' = [victim EXCEPT ![s] = v]
    /\ UNCHANGED <<recheck, missing, pending, answered, channelVars, monitorVars,
                   reserved, other>>

\* All candidates are gone, busy or locked: wait for a change.
Park(s) ==
    /\ Go(s, "pick", "parked")
    /\ change' = [change EXCEPT ![missing[s]][s] = "empty"]
    /\ UNCHANGED <<recheck, missing, victim, pending, answered, first,
                   monitorVars, reserved, other>>

Unpark(s, p) ==
    /\ Go(s, "parked", p)
    /\ change' = [change EXCEPT ![missing[s]][s] = "none"]
    /\ missing' = [missing EXCEPT ![s] = None]
    /\ UNCHANGED <<victim, pending, first, monitorVars, reserved, other>>

BadWake(s) ==
    /\ place[s] = "parked" /\ change[missing[s]][s] \in {"true", "false"}
    /\ Unpark(s, "evaluate")
    /\ recheck' = [recheck EXCEPT ![s] = FALSE]      \* fault: ignores the value
    /\ answered' = IF change[missing[s]][s] = "true"
                   THEN [answered EXCEPT ![s] = {}] ELSE answered

\* The value received is the next recheckNeeded.
Wake(s) ==
    /\ place[s] = "parked" /\ change[missing[s]][s] \in {"true", "false"}
    /\ Unpark(s, "evaluate")
    /\ Distrust(s, change[missing[s]][s] = "true")

GiveUp(s) ==
    /\ Unpark(s, "refused")
    /\ Return(s)
-----------------------------------------------------------------------------
(***************************************************************************)
(* The life of a service around reserveResources, as far as it moves the   *)
(* amounts or signals the waiters; ServiceManager has the rest of it.      *)
(***************************************************************************)
\* cleanUpStoppedServiceWhenServiceMutexIsLocked broadcasts "true".
Broadcast(s) == change' = Signalled(Needs(s), "true")

\* startService cleans up after a refused reservation.
Refused(s) ==
    /\ Go(s, "refused", "off")
    /\ Broadcast(s)
    /\ UNCHANGED <<recheck, missing, victim, pending, answered, first,
                   monitorVars, reserved, other>>

\* The process of s takes its memory.
Load(s) ==
    /\ Go(s, "granted", "loaded")
    /\ UNCHANGED <<recheck, missing, victim, pending, answered, channelVars,
                   monitorVars, reserved, other>>

\* The probe passed: releaseReservedResources, which signals nobody.
Ready(s) ==
    /\ Go(s, "loaded", "ready")
    /\ reserved' = Minus(s)
    /\ UNCHANGED <<recheck, missing, victim, pending, answered, channelVars,
                   monitorVars, other>>

BadStartFails(s) ==
    /\ place[s] \in {"granted", "loaded"}
    /\ place' = [place EXCEPT ![s] = "failing"]
    /\ reserved' = Minus(s)                          \* fault: given back twice
    /\ Broadcast(s)
    /\ UNCHANGED <<recheck, missing, victim, pending, answered, first,
                   monitorVars, other>>

\* The command could not be run: all is undone in one section.
LaunchFails(s) ==
    /\ Go(s, "granted", "off")
    /\ reserved' = Minus(s)
    /\ Broadcast(s)
    /\ UNCHANGED <<recheck, missing, victim, pending, answered, first,
                   monitorVars, other>>

\* The probe failed; the service is stopped and cleaned up.
StartFails(s) ==
    /\ place[s] \in {"granted", "loaded"}
    /\ place' = [place EXCEPT ![s] = "failing"]
    /\ Broadcast(s)
    /\ UNCHANGED <<recheck, missing, victim, pending, answered, first,
                   monitorVars, reserved, other>>

\* Only then is the reservation of a failed start given back.
Unreserve(s) ==
    /\ Go(s, "failing", "off")
    /\ reserved' = Minus(s)
    /\ UNCHANGED <<recheck, missing, victim, pending, answered, channelVars,
                   monitorVars, other>>

\* The process exits: by itself, idle, or stopped for another service.
Exit(s) ==
    /\ place[s] \in {"ready", "stopping"}
    /\ place' = [place EXCEPT ![s] = "exited"]
    /\ UNCHANGED <<recheck, missing, victim, pending, answered, channelVars,
                   monitorVars, reserved, other>>

\* The clean-up of v; stopService returns to whoever was stopping v, who
\* finds the cached amount stale.
Released(v) ==
    LET evictors == {s \in Services : place[s] = "evicting" /\ victim[s] = v}
    IN  /\ place[v] = "exited"
        /\ place' = [s \in Services |-> IF s = v THEN "off"
                         ELSE IF s \in evictors THEN "evaluate" ELSE place[s]]
        /\ victim' = [s \in Services |-> IF s \in evictors THEN None ELSE victim[s]]
        /\ missing' = [s \in Services |-> IF s \in evictors THEN None ELSE missing[s]]
        /\ recheck' = [s \in Services |-> s \in evictors \/ recheck[s]]
        /\ answered' = [s \in Services |-> IF s \in evictors THEN {} ELSE answered[s]]
        /\ Broadcast(v)
        /\ UNCHANGED <<pending, first, monitorVars, reserved, other>>

\* incrementConnection: the last connection of a service has left it, which is
\* not being started, since its starter waits.
LastLeaves(s) ==
    /\ place[s] \in {"off", "ready", "stopping", "exited"}
    /\ Broadcast(s)
    /\ UNCHANGED <<waiterVars, first, monitorVars, reserved, other>>

\* Another program takes or frees memory.
Environment(r) ==
    /\ \E n \in Others[r] : other' = [other EXCEPT ![r] = n]
    /\ UNCHANGED <<waiterVars, channelVars, monitorVars, reserved>>
-----------------------------------------------------------------------------
CheckStep(r)   == Measure(r) \/ CheckFails(r)
MonitorStep(r) == Tick(r) \/ Poked(r) \/ Store(r) \/ Publish(r)
ReserveStep(s) == Request(s) \/ Receive(s) \/ AllReceived(s) \/ Reserve(s)
                  \/ NotEnough(s) \/ PickVictim(s) \/ Park(s) \/ Wake(s)
GivingUp(s) == GiveUpChecks(s) \/ GiveUp(s)
StopStep(s) == Released(s) \/ (place[s] = "stopping" /\ Exit(s))

Next ==
    \/ \E r \in Resources : CheckStep(r) \/ MonitorStep(r) \/ Environment(r)
    \/ \E s \in Services :
        \/ Begin(s) \/ ReserveStep(s) \/ GivingUp(s) \/ Refused(s)
        \/ Load(s) \/ Ready(s) \/ LaunchFails(s) \/ StartFails(s) \/ Unreserve(s)
        \/ Exit(s) \/ Released(s) \/ LastLeaves(s)

Spec == Init /\ [][Next]_vars

(***************************************************************************)
(* The scheduler runs every goroutine; a stopped process exits; the timer  *)
(* of the deadline fires, and a select that finds it ready time and again  *)
(* takes it in the end, also when a signal is always there (strong         *)
(* fairness).  A CheckCommand owes nothing: it may hang.                   *)
(***************************************************************************)
Fairness ==
    /\ \A r \in Resources : WF_vars(MonitorStep(r))
    /\ \A s \in Services :
        /\ WF_vars(ReserveStep(s) \/ Refused(s) \/ StopStep(s))
        /\ SF_vars(GivingUp(s))

FairSpec == Spec /\ Fairness
=============================================================================
