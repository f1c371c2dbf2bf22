---------------------------- MODULE StartupProbe ----------------------------
(***************************************************************************)
(* How startService finds out that the process it has launched serves:     *)
(* performHealthCheck runs a command again and again, then                 *)
(* tryConnectingUntilTimeoutOrProcessExit dials, both racing the startup   *)
(* timeout, the exit of the process, the client and an interrupt.          *)
(* service.go.  ServiceManager has the outcomes as ProbeOk and ProbeFail.  *)
(*                                                                         *)
(* Time is a clock of ticks.  The goroutine itself takes none: the clock   *)
(* stands still while it has a step to take, so every delay is one that    *)
(* the code asks for or that its surroundings cause.  A select with        *)
(* several ready cases takes any of them.                                  *)
(***************************************************************************)
EXTENDS Integers

CONSTANTS
    Timeout,     \* StartupTimeoutMilliseconds
    Interval,    \* HealthcheckIntervalMilliseconds
    DialTimeout, \* of net.DialTimeout
    MaxPause,    \* the longest sleep between two dials
    Horizon,     \* bound: the clock stops here
    Never        \* no time

ASSUME TimesAssumption ==
    /\ Timeout \in Nat /\ Interval \in Nat \ {0}
    /\ DialTimeout \in Nat \ {0} /\ MaxPause \in Nat \ {0}
    /\ Horizon \in Nat /\ Never \notin Int

VARIABLES
    now,         \* the clock, 0 at giveUpTime - Timeout
    config,      \* the service's HealthcheckCommand and ConsiderStoppedOnProcessExit
    exitAt,      \* when the process exited
    goneAt,      \* when clientDisconnected was closed
    stopAt,      \* when interrupted was set
    listening,   \* the service accepts connections
    place,       \* where startService is, or how the probe ended
    command,     \* the health check command: none, running, ok or failed
    wake,        \* when the wait it is in times out
    deadline,    \* what is left to the connection attempts ends here
    pause,       \* sleepDuration between two dials
    exitChannel  \* processExitedChannel of the function it is in

worldVars == <<config, exitAt, goneAt, stopAt, listening>>
probeVars == <<place, command, wake, deadline, pause, exitChannel>>
vars == <<now, worldVars, probeVars>>

Over == {"connected", "no command", "unhealthy", "exited", "unreachable",
         "interrupted"}

Exited      == exitAt # Never
ClientGone  == goneAt # Never
Interrupted == stopAt # Never

Init ==
    /\ now = 0
    /\ config \in [healthCheck : BOOLEAN, stoppedOnExit : BOOLEAN]
    /\ exitAt = Never /\ goneAt = Never /\ stopAt = Never
    /\ listening \in BOOLEAN
    /\ place = "begin" /\ command = "none"
    /\ wake = Never /\ deadline = Never /\ pause = 0
    /\ exitChannel = "nil"
-----------------------------------------------------------------------------
(***************************************************************************)
(* The process, the client, the signal and the health check command.       *)
(***************************************************************************)
World ==
    /\ place \notin Over
    /\ \/ /\ ~Exited /\ exitAt' = now
          /\ UNCHANGED <<goneAt, stopAt, listening>>
       \/ /\ ~ClientGone /\ goneAt' = now
          /\ UNCHANGED <<exitAt, stopAt, listening>>
       \/ /\ ~Interrupted /\ stopAt' = now
          /\ UNCHANGED <<exitAt, goneAt, listening>>
       \/ /\ listening' = ~listening
          /\ UNCHANGED <<exitAt, goneAt, stopAt>>
    /\ UNCHANGED <<now, config, probeVars>>

CommandEnds ==
    /\ command = "running"
    /\ command' \in {"ok", "failed"}
    /\ UNCHANGED <<now, worldVars, place, wake, deadline, pause, exitChannel>>

\* The goroutine that waits for exitWaitGroup and closes the channel.
CloseExitChannel ==
    /\ exitChannel = "open" /\ Exited
    /\ exitChannel' = "closed"
    /\ UNCHANGED <<now, worldVars, place, command, wake, deadline, pause>>
-----------------------------------------------------------------------------
(***************************************************************************)
(* performHealthCheck.                                                     *)
(***************************************************************************)
Goto(p) == place' = p

BadBeginHealthCheck ==
    /\ place = "begin" /\ config.healthCheck
    /\ Goto("check")
    /\ exitChannel' = "open"                         \* fault: also if detached
    /\ UNCHANGED <<now, worldVars, command, wake, deadline, pause>>

\* The channel stays nil when the exit of the process is to be ignored.
BeginHealthCheck ==
    /\ place = "begin" /\ config.healthCheck
    /\ Goto("check")
    /\ exitChannel' = IF config.stoppedOnExit THEN "open" ELSE "nil"
    /\ UNCHANGED <<now, worldVars, command, wake, deadline, pause>>

\* The loop's tests, and cmd.Start, which may fail.
Check ==
    /\ place = "check"
    /\ \/ /\ ~Interrupted /\ now < Timeout
          /\ Goto("command")
          /\ command' = "running"
          /\ wake' = Timeout
       \/ /\ ~Interrupted /\ now < Timeout
          /\ Goto("no command")
          /\ UNCHANGED <<command, wake>>
       \/ /\ Interrupted \/ now >= Timeout
          /\ Goto("unhealthy")
          /\ UNCHANGED <<command, wake>>
    /\ UNCHANGED <<now, worldVars, deadline, pause, exitChannel>>

BadAbandoned == exitChannel = "closed"           \* fault: not for the client

\* The client is gone or the process exited: the cases of every select.
Abandoned == ClientGone \/ exitChannel = "closed"

BadWaitEnds == Abandoned                         \* fault: no time limit

WaitEnds == now >= wake \/ Abandoned

BadCommandAborted ==
    /\ place = "command" /\ WaitEnds
    /\ Goto("unhealthy") /\ wake' = Never           \* fault: not killed
    /\ UNCHANGED <<now, worldVars, command, deadline, pause, exitChannel>>

\* The command is killed.
CommandAborted ==
    /\ place = "command" /\ WaitEnds
    /\ Goto("unhealthy")
    /\ command' = "none" /\ wake' = Never
    /\ UNCHANGED <<now, worldVars, deadline, pause, exitChannel>>

Healthy ==
    /\ place = "command" /\ command = "ok"
    /\ Goto("healthy")
    /\ command' = "none" /\ wake' = Never
    /\ UNCHANGED <<now, worldVars, deadline, pause, exitChannel>>

EnoughTimeLeft == now + Interval <= Timeout

NotHealthyYet ==
    /\ place = "command" /\ command = "failed"
    /\ command' = "none"
    /\ IF EnoughTimeLeft THEN Goto("sleep") /\ wake' = now + Interval
                         ELSE Goto("unhealthy") /\ wake' = Never
    /\ UNCHANGED <<now, worldVars, deadline, pause, exitChannel>>

Slept ==
    /\ place = "sleep" /\ now >= wake
    /\ Goto("check") /\ wake' = Never
    /\ UNCHANGED <<now, worldVars, command, deadline, pause, exitChannel>>

SleepAborted ==
    /\ place = "sleep" /\ Abandoned
    /\ Goto("unhealthy") /\ wake' = Never
    /\ UNCHANGED <<now, worldVars, command, deadline, pause, exitChannel>>
-----------------------------------------------------------------------------
(***************************************************************************)
(* tryConnectingUntilTimeoutOrProcessExit, with the time that is left, and *)
(* what startService makes of its answer.                                  *)
(***************************************************************************)
BadBeginConnecting ==
    /\ place \in {"begin", "healthy"}
    /\ place = "begin" => ~config.healthCheck
    /\ Goto("connect")
    /\ deadline' = now + Timeout                     \* fault: all of it again
    /\ pause' = 0
    /\ exitChannel' = "open"
    /\ UNCHANGED <<now, worldVars, command, wake>>

BeginConnecting ==
    /\ place \in {"begin", "healthy"}
    /\ place = "begin" => ~config.healthCheck
    /\ IF Interrupted
       THEN Goto("interrupted") /\ UNCHANGED <<deadline, pause, exitChannel>>
       ELSE /\ Goto("connect")
            /\ deadline' = Timeout
            /\ pause' = 0
            /\ exitChannel' = "open"
    /\ UNCHANGED <<now, worldVars, command, wake>>

\* The loop's condition, its first select and the test of interrupted.
Dial ==
    /\ place = "connect"
    /\ now < deadline /\ ~Interrupted
    /\ exitChannel = "open" /\ ~ClientGone
    /\ Goto("dialing")
    /\ wake' = now + DialTimeout
    /\ UNCHANGED <<now, worldVars, command, deadline, pause, exitChannel>>

GiveUp ==
    /\ place = "connect"
    /\ \/ now >= deadline \/ ClientGone
       \/ Interrupted /\ exitChannel = "open"
    /\ Goto("unreachable")
    /\ UNCHANGED <<now, worldVars, command, wake, deadline, pause, exitChannel>>

\* Found in the select of the loop or in the one between two dials.
ProcessExited ==
    /\ \/ place = "connect" /\ now < deadline
       \/ place = "pause"
    /\ exitChannel = "closed"
    /\ Goto("exited") /\ wake' = Never
    /\ UNCHANGED <<now, worldVars, command, deadline, pause, exitChannel>>

\* The connection of a start that was interrupted meanwhile is not used.
Connected ==
    /\ place = "dialing" /\ listening
    /\ Goto(IF Interrupted THEN "interrupted" ELSE "connected")
    /\ wake' = Never
    /\ UNCHANGED <<now, worldVars, command, deadline, pause, exitChannel>>

\* Refused at once, or nothing answered.
DialFails ==
    /\ place = "dialing" /\ (~listening \/ now >= wake)
    /\ Goto("pause")
    /\ wake' = now + pause
    /\ UNCHANGED <<now, worldVars, command, deadline, pause, exitChannel>>

\* From a microsecond, which is no tick, the sleep doubles up to its limit.
Doubled == IF pause = 0 THEN 1 ELSE IF 2 * pause > MaxPause THEN MaxPause ELSE 2 * pause

Paused ==
    /\ place = "pause" /\ now >= wake
    /\ Goto("connect") /\ wake' = Never
    /\ pause' = Doubled
    /\ UNCHANGED <<now, worldVars, command, deadline, exitChannel>>

PauseAborted ==
    /\ place = "pause" /\ ClientGone
    /\ Goto("unreachable") /\ wake' = Never
    /\ UNCHANGED <<now, worldVars, command, deadline, pause, exitChannel>>
-----------------------------------------------------------------------------
Probe == BeginHealthCheck \/ Check \/ CommandAborted \/ Healthy \/ NotHealthyYet
         \/ Slept \/ SleepAborted \/ BeginConnecting \/ Dial \/ GiveUp
         \/ ProcessExited \/ Connected \/ DialFails \/ Paused \/ PauseAborted

\* The goroutine waits, and nothing that it waits for has come.
Idle ==
    /\ exitChannel = "open" => ~Exited
    /\ \/ /\ place = "command" /\ command = "running" /\ ~WaitEnds
       \/ /\ place \in {"sleep", "pause"} /\ ~WaitEnds
       \/ place = "dialing" /\ now < wake

Tick ==
    /\ Idle /\ now < Horizon
    /\ now' = now + 1
    /\ UNCHANGED <<worldVars, probeVars>>

Next == World \/ CommandEnds \/ CloseExitChannel \/ Probe \/ Tick

Spec == Init /\ [][Next]_vars

\* Time passes and the goroutines run.
FairSpec == Spec /\ WF_vars(Tick) /\ WF_vars(CloseExitChannel) /\ WF_vars(Probe)
-----------------------------------------------------------------------------
\* Type invariant: every variable keeps its type, and a health check command
\* runs only while somebody waits for it.
TypeOK ==
    /\ now \in 0..Horizon
    /\ config \in [healthCheck : BOOLEAN, stoppedOnExit : BOOLEAN]
    /\ {exitAt, goneAt, stopAt} \subseteq 0..now \cup {Never}
    /\ listening \in BOOLEAN
    /\ place \in Over \cup {"begin", "check", "command", "sleep", "healthy",
                           "connect", "dialing", "pause"}
    /\ command \in {"none", "running", "ok", "failed"}
    /\ command # "none" <=> place = "command"
    /\ wake \in Int \cup {Never} /\ deadline \in Int \cup {Never}
    /\ pause \in 0..MaxPause
    /\ exitChannel \in {"nil", "open", "closed"}

\* Health checks and dials together end by the startup timeout, but for the
\* last dial and the sleep after it: the second phase has what the first has
\* left (README.md:165; service.go:133, 151, 303, 364).
EndsInTime == place \notin Over => now < Timeout + DialTimeout + MaxPause

\* A client that leaves, or a process that exits when that matters, ends the
\* start at once or when the current dial returns, whatever it waits for.
NoticedPromptly ==
    place \notin Over =>
        /\ ClientGone => now <= goneAt + DialTimeout
        /\ Exited /\ config.stoppedOnExit => now <= exitAt + DialTimeout

\* A start is given up only for a reason that is still there: a process that
\* was meant to return early does not end a health check (service.go:229-239).
FailsForAReason ==
    /\ place = "unhealthy" =>
          \/ Interrupted \/ ClientGone \/ now + Interval > Timeout
          \/ Exited /\ config.stoppedOnExit
    /\ place = "unreachable" => Interrupted \/ ClientGone \/ now >= Timeout
    /\ place = "exited" => Exited

\* What README.md:175 says of a service that is started by a command which
\* returns early: with ConsiderStoppedOnProcessExit false that does not make
\* the proxy tear it down.  performHealthCheck keeps it, the connection
\* attempts do not (service.go:358-367, 380-383): the start fails and
\* startService stops the service.
EarlyReturnTolerated == place = "exited" => config.stoppedOnExit

\* The probe comes to an end, whatever the command and the service do.
Decides == <>(place \in Over)
=============================================================================
