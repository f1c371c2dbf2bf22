---------------------- MODULE ServiceManagerProperties ----------------------
(***************************************************************************)
(* What is claimed of ServiceManager.                                      *)
(***************************************************************************)
EXTENDS ServiceManager, ResourceUnits

\* The types, the resource counters signed as they are in Go.
TypeInv ==
    /\ pc \in [Threads -> ConnectionPlaces \cup TimerPlaces]
    /\ ptr \in [Threads -> Instances \cup {None}]
    /\ stopping \in [Threads -> Services \cup {None}]
    /\ then \in [Threads -> {"reserve", "register", "unreserve", "off", "none"}]
    /\ missing \in [Connections -> Resources \cup {None}]
    /\ running \in [Services -> Instances \cup {None}]
    /\ status \in [Instances -> {"unborn", "live", "released"}]
    /\ manage \in [Instances -> Threads \cup {None}]
    /\ flag \in [Instances -> BOOLEAN]
    /\ timer \in [Instances -> {"nil", "armed", "spent"}]
    /\ proc \in [Instances -> {"none", "up", "killed", "exited", "reaped"}]
    /\ inUse \in [Resources -> Int]
    /\ reserved \in [Resources -> Int]
    /\ chan \in [Resources -> [Services -> {"none", "empty", "full"}]]
    /\ waiting \in [Services -> Nat]
    /\ proxied \in [Services -> Nat]

\* Type invariant: no resource counter goes below zero either.
TypeOK ==
    /\ TypeInv
    /\ inUse \in [Resources -> Nat]
    /\ reserved \in [Resources -> Nat]
-----------------------------------------------------------------------------
\* c has registered its instance and has neither reserved nor given up.
Reserving(c) ==
    \/ pc[c] \in {"reserve", "pick", "park", "parked", "refused"}
    \/ pc[c] \in StopCall /\ then[c] = "reserve"

\* c holds the manageMutex of the instance it is starting.
HoldsOwn(c) == pc[c] \in Starting \/ Reserving(c)

\* t holds the manageMutex of the instance it looked up.
HoldsPtr(t) == pc[t] \in {"track", "requeue", "wait", "killed"}

\* The instance whose manageMutex t is blocked on, if any.
Blocked(t) == pc[t] \in {"queued", "stopLock"} /\ manage[ptr[t]] # None

\* The service's resources are counted in resourcesInUse.
Charged(i) == flag[i] \/ pc[i] = "flag"
Holders == {s \in Services : running[s] # None /\ Charged(running[s])}

\* c is between its reservation and the matching releaseReservedResources.
HoldsReservation(c) ==
    \/ pc[c] \in {"flag", "launch", "probe", "ready", "unreserve"}
    \/ pc[c] \in StopCall /\ then[c] = "unreserve"
ReservationHolders == {c \in Connections : HoldsReservation(c)}

InstanceRequirement == [i \in Instances |-> Requirement[Target[i]]]

Proxied(c) == pc[c] \in {"proxied", "uncount"}
Waiting(c) == pc[c] \notin {"new", "proxied", "uncount", "notify", "done"}
-----------------------------------------------------------------------------
\* runningServices holds an instance exactly while its resources have not been
\* released: cleanUpStoppedServiceWhenServiceMutexIsLocked always finds itself
\* in the map, so its "not the same instance" error cannot be logged and no
\* live instance is ever replaced in the map (service_process.go:314-319).
LiveIsRegistered ==
    \A i \in Instances : status[i] = "live" <=> running[Target[i]] = i

\* resourcesInUse is exactly what the charged instances in runningServices
\* require, whatever crash, failed start, eviction or idle stop releases them,
\* in whatever order (resources.go:41, service_process.go:311).
Conservation ==
    \A r \in Resources : inUse[r] = Use(Requirement, Holders, r)

\* resourcesReserved is exactly what the starts under way have reserved: every
\* path out of startService gives its reservation back once (resources.go:43,
\* service.go:110, 139, 160, 167, 176).
ReservedConservation ==
    \A r \in Resources :
        reserved[r] = Use(InstanceRequirement, ReservationHolders, r)

\* The processes that were not sent SIGKILL never need more of a resource
\* together than resourcesInUse says, and that is never more than there is: a
\* process outlives neither its charge nor its entry in runningServices
\* (README.md, "No more GPU or RAM will be attempted to be used").
PhysicalCapacity ==
    \A r \in Resources :
        /\ Use(InstanceRequirement, {i \in Instances : proc[i] = "up"}, r)
              <= inUse[r]
        /\ inUse[r] <= Amount[r]

\* connectionStats counts exactly the connections that wait and that are
\* proxied, so no decrement is ever clamped (main.go:76-90).
CountsMatch ==
    \A s \in Services :
        /\ waiting[s] = Cardinality({c \in Connections :
                                        Target[c] = s /\ Waiting(c)})
        /\ proxied[s] = Cardinality({c \in Connections :
                                        Target[c] = s /\ Proxied(c)})

\* A manageMutex is held by the one goroutine that is in a section it guards,
\* and by nobody when none is: no path returns with the token, none puts a
\* second token in the channel (service.go:80-170, service_process.go:182).
LockDiscipline ==
    \A i \in Instances, t \in Threads :
        manage[i] = t <=> \/ t = i /\ HoldsOwn(t)
                          \/ ptr[t] = i /\ HoldsPtr(t)

\* No goroutines block each other for ever on manageMutexes, although an
\* evictor holds the one of the service it starts while it locks its victim's
\* (resources.go:70, service.go:80).
NoLockCycle ==
    \A T \in SUBSET Threads : T # {} =>
        \E t \in T : ~ (Blocked(t) /\ manage[ptr[t]] \in T)

\* At most one goroutine waits for resources on behalf of a service, and it is
\* the one whose instance is registered: "already being reserved by this
\* service" cannot be logged and no wake-up channel is overwritten
\* (resources.go:87-90).
OneReserverPerService ==
    \A c \in Connections : Reserving(c) => running[Target[c]] = c

\* A live instance nobody is working on still has something that will stop
\* it: an armed idle timer, its callback, or a pending stopService
\* (service.go:180-209); services that refuse SIGKILL are given up on.
NeverForgotten ==
    \A i \in Instances :
        status[i] = "live" /\ manage[i] = None /\ Target[i] \notin Unkillable =>
            \/ timer[i] = "armed"
            \/ \E t \in Threads :
                \/ pc[t] \in {"idle", "stopLock"} /\ ptr[t] = i
                \/ pc[t] = "stopLookup" /\ stopping[t] = Target[i]

\* A step that frees enough of the resource a parked connection waits for also
\* fills the channel of that connection.
WakeStep ==
    \A c \in Connections :
        /\ pc[c] = "parked" /\ pc'[c] = "parked"
        /\ missing[c] \in Short(Target[c])
        /\ missing[c] \notin Short(Target[c])'
        => chan'[missing[c]][Target[c]] = "full"

\* No release of resources is lost on a parked connection, whoever releases
\* them and whoever else registers or leaves meanwhile
\* (service_process.go:320, resources.go:79-84, monitor_resources.go:163-180).
WakeOnRelease == [][WakeStep]_vars
-----------------------------------------------------------------------------
Ledger == INSTANCE ResourceLedger WITH holders <- Holders, used <- inUse

\* The static accounting implements the ledger: every step takes a whole
\* requirement that fits, gives a whole one back, or leaves the ledger alone.
ImplementsLedger == Ledger!LedgerSpec

\* Every accepted connection is eventually proxied or closed.
Resolves ==
    \A c \in Connections : pc[c] # "new" ~> pc[c] \in {"proxied", "done"}

\* A service without a proxied connection does not stay loaded: again and
\* again it is stopped or somebody uses it (ShutDownAfterInactivitySeconds).
IdleUnloaded ==
    \A s \in Services : []<>(running[s] = None \/ proxied[s] > 0)
-----------------------------------------------------------------------------
(***************************************************************************)
(* What the repository says of the program and the code does not always    *)
(* do: this is refuted by the run BusyEviction.                            *)
(***************************************************************************)
\* An evictor only stops a service that has no proxied connection when it
\* sends SIGTERM: README.md:177, "If they are currently in use, a request to
\* Gemma will have to wait for one of the other services to free up".
EvictsOnlyIdle ==
    [][\A t \in Threads :
        pc[t] = "stopLock" /\ then[t] = "reserve" /\ pc'[t] = "wait"
            => proxied[Target[ptr[t]]] = 0]_vars
=============================================================================
