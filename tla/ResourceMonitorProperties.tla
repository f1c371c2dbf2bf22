--------------------- MODULE ResourceMonitorProperties ---------------------
(***************************************************************************)
(* What is claimed of ResourceMonitor.                                     *)
(***************************************************************************)
EXTENDS ResourceMonitor

Signals == {"none", "empty", "full"}
Values  == {"none", "empty", "true", "false"}
Places  == {"off", "evaluate", "await", "pick", "evicting", "parked", "refused",
            "granted", "loaded", "ready", "failing", "stopping", "exited"}

Types ==
    /\ place \in [Services -> Places]
    /\ recheck \in [Services -> BOOLEAN]
    /\ missing \in [Services -> Resources \cup {None}]
    /\ victim \in [Services -> Services \cup {None}]
    /\ pending \in [Services -> SUBSET Resources]
    /\ answered \in [Services -> SUBSET Resources]
    /\ first \in [Resources -> [Services -> Signals]]
    /\ change \in [Resources -> [Services -> Values]]
    /\ reserved \in [Resources -> Int]
    /\ available \in [Resources -> Int]
    /\ monitor \in [Resources -> {"select", "running", "measured", "same", "changed"}]
    /\ sample \in [Resources -> Int]
    /\ timer \in [Resources -> {"armed", "off"}]
    /\ poke \in [Resources -> BOOLEAN]
    /\ other \in [Resources -> Nat]
    /\ \A r \in Resources : other[r] \in Others[r]

\* Type invariant: every variable keeps its type and no reservation is given
\* back twice.
TypeOK == Types /\ reserved \in [Resources -> Nat]

\* The monitor of r will run a check, or is running one.
Attended(r) == monitor[r] # "select" \/ timer[r] = "armed" \/ poke[r]

\* A service that waits for its first measurement is going to get one: a check
\* runs, is asked for or is due, also after checks that failed and whatever
\* else the monitor was poked for (resources.go:198-200,
\* monitor_resources.go:71-82).
FirstCheckComes ==
    \A s \in Services :
        place[s] = "await" =>
            \A r \in pending[s] : first[r][s] = "full" \/ Attended(r)

\* No channel outlives the wait it was made for: a registration left behind
\* would keep the monitor polling for nobody, or take the signal of the next
\* attempt (resources.go:253, 264, 38, 96, 104, 110).
NoOrphanChannel ==
    \A s \in Services, r \in Resources :
        /\ first[r][s] # "none" => place[s] = "await"
        /\ change[r][s] # "none" => place[s] = "parked" /\ missing[s] = r

\* Resources are granted only after a check of each of them has been announced
\* since the attempt began and since everything that told it that the cached
\* amounts are stale: a service it evicted, a "true" it received (main.go:51,
\* resources.go:71-74).
GrantsAfterCheck ==
    [][\A s \in Services :
        place[s] = "evaluate" /\ place'[s] = "granted"
            => Needs(s) \subseteq answered[s]]_vars

\* A start under way does not wait for resources for ever, even if a
\* CheckCommand hangs (resources.go:27, 102, 233).
Ends == \A s \in Services : Waits(s) ~> ~Waits(s)

\* When nobody waits any more, the monitor stops running the CheckCommand
\* (monitor_resources.go:49, "keeps polling ... only while at least one waiter
\* exists"), unless the command itself hangs.
NobodyWaits(r) == ~HasWaiters(r)
Quiesces ==
    \A r \in Resources :
        <>[]NobodyWaits(r) => <>[](monitor[r] = "running" \/ ~Attended(r))
-----------------------------------------------------------------------------
(***************************************************************************)
(* What the repository says of the program and the code does not always do *)
(***************************************************************************)
\* While a service waits for a resource, its CheckCommand is run again and
\* again: README.md:179, "If there is not enough resources, it will run every
\* CheckWhenNotEnoughIntervalMilliseconds".
WaiterIsPolled ==
    \A s \in Services :
        place[s] = "parked" /\ change[missing[s]][s] = "empty"
            => Attended(missing[s])
=============================================================================
