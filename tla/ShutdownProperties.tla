------------------------- MODULE ShutdownProperties -------------------------
(***************************************************************************)
(* What is claimed of Shutdown.                                            *)
(***************************************************************************)
EXTENDS Shutdown

\* Type invariant: every variable keeps its type, interrupted is set before main
\* asks for serviceMutex, and main stops a service only once it has it.
TypeOK ==
    /\ interrupted \in BOOLEAN /\ (interrupted <=> handler # "wait")
    /\ handler \in {"wait", "signal", "stop", "exited"}
    /\ {todo, seen, registered, launched, ready, waitGroup} \subseteq SUBSET Services
    /\ manage \in [Services -> {"free", "start", "stop", "lost"}]
    /\ start \in [Services -> {"none", "reserve", "launch", "running", "probe",
                               "connected", "dropped", "done"}]
    /\ process \in [Services -> {"none", "alive", "exited", "killed", "immortal"}]
    /\ watcher \in [Services -> {"none", "wait", "exited", "done"}]
    /\ stop \in [Stoppers -> {"none", "lookup", "manage", "lock", "timer",
                           "kill", "clean"}]
    /\ target \in Stoppers
    /\ target # Handler => handler = "stop"
    /\ stop[Handler] # "none" <=> target # Handler
    /\ unlocks \subseteq Services \cup Callers

\* Whoever is going to unlock a manageMutex holds its token, and nobody else is
\* going to: Unlock, which sends to a channel with room for one, neither blocks
\* for ever nor admits two goroutines, although stops of one instance run side
\* by side and those that are interrupted take the token for good or go on
\* without it (service_process.go:178-184, connection.go:293).
TokensHeld ==
    /\ \A s \in Services :
        start[s] \in {"reserve", "launch", "running", "probe", "connected", "dropped"}
            => manage[s] = "start"
    /\ \A a \in unlocks : manage[ServiceOf(a)] = "stop"
    /\ \A a, b \in unlocks : ServiceOf(a) = ServiceOf(b) => a = b

\* From the moment main has serviceMutex, nothing that it guards changes any
\* more, whatever the goroutines do that are still running (main.go:192-195,
\* "The map is frozen during shutdown").
MapFrozen == [][handler = "stop" => UNCHANGED mapVars]_vars

\* When the program exits, every process that main could know of has exited or
\* was sent SIGKILL, even if a start or another stop held its manageMutex or was
\* stopping it at the same time, unless the SIGKILL was refused
\* (service_process.go:179).
StoppedAtExit ==
    handler = "exited" =>
        \A s \in seen : process[s] \in {"exited", "killed", "immortal"}

\* After a signal the program exits, whatever locks the interrupted goroutines
\* hold or wait for.
Terminates == interrupted ~> handler = "exited"
=============================================================================
