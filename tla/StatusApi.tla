----------------------------- MODULE StatusApi -----------------------------
(***************************************************************************)
(* GET /status of the management API beside the life cycle of the          *)
(* services: handleStatus copies the connection counters under their own   *)
(* mutex first, and only then takes serviceMutex and composes the answer   *)
(* from the copy and from what is true by now.  management_api.go; one     *)
(* request at a time.                                                      *)
(***************************************************************************)
EXTENDS ServiceManagerProperties

VARIABLES
    snapshot, \* connectionStatsSnapshot, or None between two requests
    before    \* history: the connections that were counted in it

statusVars == <<snapshot, before>>

StatusInit == Init /\ snapshot = None /\ before = {}

\* The connections between their two calls of incrementConnection.
Counted == {c \in Connections : Waiting(c) \/ Proxied(c)}

CopyCounters ==
    /\ snapshot = None
    /\ snapshot' = [waiting |-> waiting, proxied |-> proxied]
    /\ before' = Counted
    /\ UNCHANGED vars

\* The answer that serviceMutex would be held for now.
isReady(i)               == timer[i] # "nil"
isWaitingForResources(i) == ~flag[i]

Status(s) ==
    LET i == running[s]
    IN  CASE i = None                 -> "stopped"
          [] i # None /\ isReady(i)   -> "running"
          [] i # None /\ ~isReady(i)  ->
                IF isWaitingForResources(i) THEN "waiting_for_resources"
                ELSE "starting"

BadUsageByService(r) ==                          \* fault: the ready ones only
    [s \in {x \in Services : Status(x) = "running"} |-> Requirement[s][r]]

UsageByService(r) ==
    [s \in {x \in Services : running[x] # None} |-> Requirement[s][r]]

Usage(r) ==
    [total |-> Amount[r], reserved_by_starting_services |-> reserved[r],
     in_use |-> inUse[r], free |-> Amount[r] - inUse[r],
     usage_by_service |-> UsageByService(r)]

Connected(s) == [waiting_connections |-> snapshot.waiting[s],
                 proxied_connections |-> snapshot.proxied[s]]

\* The answer is sent.
Answer ==
    /\ snapshot # None
    /\ snapshot' = None /\ before' = {}
    /\ UNCHANGED vars

StatusNext == CopyCounters \/ Answer \/ (Next /\ UNCHANGED statusVars)

StatusSpec ==
    StatusInit /\ [][StatusNext]_<<vars, statusVars>> /\ Fairness
-----------------------------------------------------------------------------
Requires(S, r) == Use(Requirement, S, r)

\* The figures of a resource agree with each other and with the states of the
\* services in the same answer: in_use has everything that starting and running
\* services need and nothing that usage_by_service does not list, and free is
\* never negative (README.md:235-239).
FiguresAgree ==
    \A r \in Resources :
        LET u == Usage(r)
        IN  /\ Requires({s \in Services : Status(s) \in {"starting", "running"}}, r)
                   <= u.in_use
            /\ u.in_use <= Requires(DOMAIN u.usage_by_service, r)
            /\ u.free >= 0

\* A service is not shown as waiting for resources or starting with nobody
\* waiting for it, unless the client it is started for came after the counters
\* were copied (management_api.go:62-66, "reading the counts a moment earlier");
\* a service that refused SIGKILL stays listed with nobody.
StartHasItsClient ==
    snapshot # None =>
        \A s \in Services \ Unkillable :
            /\ Status(s) \in {"waiting_for_resources", "starting"}
            /\ Connected(s).waiting_connections = 0
            => \E c \in Counted \ before : Target[c] = s
=============================================================================
