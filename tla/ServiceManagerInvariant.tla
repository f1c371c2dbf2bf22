----------------------- MODULE ServiceManagerInvariant -----------------------
(***************************************************************************)
(* The inductive invariant behind the safety properties of ServiceManager. *)
(***************************************************************************)
EXTENDS ServiceManagerProperties

\* A goroutine has the locals that the place it is at uses.
LocalsInv ==
    /\ \A t \in Threads :
        /\ pc[t] \in {"trylock", "queued", "requeue", "track", "stopLock",
                      "wait", "killed", "idle"} => ptr[t] # None
        /\ pc[t] \in StopCall => then[t] # "none"
        /\ pc[t] = "stopLookup" => stopping[t] # None
    /\ \A c \in Connections :
        pc[c] \in {"pick", "park", "parked"} => missing[c] # None

\* runningServices maps a service to an instance of that service, and every
\* live instance is there.
RegistryInv ==
    /\ \A s \in Services : running[s] # None => Target[running[s]] = s
    /\ LiveIsRegistered

\* An evictor does not stop the instance it is starting.
LockInv ==
    /\ LockDiscipline
    /\ \A t \in Threads :
        pc[t] \in {"wait", "killed"} /\ then[t] = "reserve" => ptr[t] # t

\* c has not registered an instance yet.
Unregistered(c) ==
    \/ pc[c] \in {"new", "lookup", "trylock", "queued", "requeue", "track",
                  "dial", "restart", "register"}
    \/ pc[c] \in StopCall /\ then[c] = "register"

\* Up to the launch of its process, an instance stays registered and its
\* charge follows its starter's progress.
PhaseInv ==
    \A c \in Connections :
        /\ Unregistered(c) => ~flag[c] /\ proc[c] = "none"
        /\ Reserving(c) \/ pc[c] = "flag" =>
                ~flag[c] /\ proc[c] = "none" /\ running[Target[c]] = c
        /\ pc[c] = "launch" =>
                flag[c] /\ proc[c] = "none" /\ running[Target[c]] = c

\* A process that was not sent SIGKILL has a registered, charged instance, and
\* a stopService that sent SIGKILL left no such process behind.
ProcessInv ==
    /\ \A i \in Instances :
        proc[i] = "up" => flag[i] /\ running[Target[i]] = i
    /\ \A t \in Threads : pc[t] = "killed" => proc[ptr[t]] # "up"

\* Only an instance that was registered is charged.
ChargeInv == \A i \in Instances : flag[i] => status[i] # "unborn"

\* An instance is allocated when it is registered, before anybody can look it
\* up or arm its timer.
BornInv ==
    /\ \A c \in Connections :
        /\ Unregistered(c) => status[c] = "unborn"
        /\ HoldsOwn(c) => status[c] # "unborn"
    /\ \A t \in Threads : ptr[t] # None => status[ptr[t]] # "unborn"
    /\ \A i \in Instances : timer[i] # "nil" => status[i] # "unborn"

\* A timer that has called back was not set to nil but by the release.
TimerInv ==
    \A t \in Threads :
        pc[t] = "idle" => status[ptr[t]] = "released" \/ timer[ptr[t]] # "nil"

\* Something will stop i: its idle timer, its callback or a stopService.
PendingBy(t, i) ==
    \/ pc[t] \in {"idle", "stopLock"} /\ ptr[t] = i
    \/ pc[t] = "stopLookup" /\ stopping[t] = Target[i]

Pending(i) == timer[i] = "armed" \/ \E t \in Threads : PendingBy(t, i)

\* Nobody works on i, or only a connection that found it running.
AtRest(i) == manage[i] = None \/ pc[manage[i]] \in {"track", "requeue"}

\* An instance at rest has something pending, also while a connection holds
\* its manageMutex for a moment.
PendingInv ==
    \A i \in Instances :
        status[i] = "live" /\ AtRest(i) /\ Target[i] \notin Unkillable
            => Pending(i)

\* stopService works on the instance it found for the name it was given.
StoppingInv ==
    \A t \in Threads :
        pc[t] \in {"stopLock", "wait", "killed"} => Target[ptr[t]] = stopping[t]

\* c was about to stop the service of d when d registered a new instance of it
\* and began to reserve.
Evicts(c, d) ==
    /\ pc[c] \in StopCall /\ then[c] = "reserve"
    /\ stopping[c] = Target[d] /\ Reserving(d)

\* Evictors do not chase each other in a circle.
EvictionInv ==
    \A T \in SUBSET Connections : T # {} =>
        \E c \in T : \A d \in T : ~Evicts(c, d)

\* The process of c is being launched or probed.
Launching(c) == pc[c] \in {"launch", "probe", "ready"}

\* c stops the service it failed to start.
StopsOwn(c) == pc[c] \in StopCall /\ then[c] = "unreserve"

\* c is starting its instance, or stops it because the start failed.
StarterAt(c) ==
    HoldsOwn(c) \/ (StopsOwn(c) /\ (pc[c] = "stopLookup" \/ ptr[c] = c))

StartOf(c) ==
    /\ Launching(c) => flag[c]
    /\ StopsOwn(c) => stopping[c] = Target[c]
    /\ status[c] = "live" /\ timer[c] = "nil" /\ Target[c] \notin Unkillable
          => StarterAt(c)

\* An instance with an idle timer has its resources, and a live one without a
\* timer has its starter, unless it refused SIGKILL.
StarterInv ==
    \A c \in Connections : StartOf(c) /\ (timer[c] # "nil" => flag[c])

\* A parked connection has its channel registered.
ParkInv ==
    \A c \in Connections :
        pc[c] = "parked" => chan[missing[c]][Target[c]] # "none"

\* The counter of a resource is what its holders take and never too much.
LedgerInv ==
    /\ Conservation
    /\ \A r \in Resources : inUse[r] <= Amount[r]

ControlInv ==
    /\ TypeInv
    /\ LocalsInv
    /\ RegistryInv
    /\ LockInv
    /\ PhaseInv
    /\ ProcessInv
    /\ ChargeInv
    /\ ParkInv
    /\ BornInv
    /\ TimerInv
    /\ PendingInv
    /\ StoppingInv
    /\ EvictionInv
    /\ StarterInv
    /\ CountsMatch

IInv == ControlInv /\ LedgerInv /\ ReservedConservation
=============================================================================
