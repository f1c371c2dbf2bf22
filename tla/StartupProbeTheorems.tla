------------------------- MODULE StartupProbeTheorems -------------------------
(***************************************************************************)
(* What is proved of StartupProbe for every startup timeout, interval and  *)
(* limit of the waits.                                                     *)
(***************************************************************************)
EXTENDS StartupProbe, TLAPS

Checking   == {"begin", "check", "command", "sleep", "healthy"}
Connecting == {"connect", "dialing", "pause"}

\* No wait is slept past its end, and no dial begins past the timeout.
TimeInv ==
    /\ place \in {"command", "sleep", "dialing", "pause"} => wake \in Int /\ now <= wake
    /\ place \in Checking => now <= Timeout
    /\ place = "command" => wake = Timeout
    /\ place = "sleep" => wake <= Timeout
    /\ place \in Connecting => deadline = Timeout
    /\ place = "connect" => now < Timeout + DialTimeout + MaxPause
    /\ place = "dialing" => wake < Timeout + DialTimeout /\ wake <= now + DialTimeout
    /\ place = "pause" => wake < Timeout + DialTimeout + MaxPause

\* The channel is closed for an exit only, and the health check has one only
\* if the exit matters.
ChannelInv ==
    /\ exitChannel = "closed" => Exited
    /\ place = "begin" => exitChannel = "nil"
    /\ place \in {"check", "command", "sleep"} =>
          (exitChannel # "nil" <=> config.stoppedOnExit)
    /\ place \in Connecting => exitChannel # "nil"

\* Of a process whose exit matters the clock stands still from its exit until
\* the channel is closed, and in a health check for good.
ExitInv ==
    config.stoppedOnExit /\ Exited =>
        \/ place \in Over
        \/ place \in Connecting /\ exitChannel = "closed"
        \/ now = exitAt

\* A dial that the client or the process did not wait for began before.
DialInv ==
    place = "dialing" =>
        /\ ClientGone => wake <= goneAt + DialTimeout
        /\ Exited /\ config.stoppedOnExit => wake <= exitAt + DialTimeout

\* The inductive invariant.
IInv ==
    /\ TypeOK /\ TimeInv /\ ChannelInv /\ ExitInv /\ DialInv
    /\ NoticedPromptly /\ FailsForAReason
-----------------------------------------------------------------------------
\* What the types say of the numbers.
LEMMA Numbers ==
  ASSUME TypeOK
  PROVE  /\ Timeout \in Int /\ Interval \in Int /\ DialTimeout \in Int /\ MaxPause \in Int
         /\ 0 <= Timeout /\ 1 <= Interval /\ 1 <= DialTimeout /\ 1 <= MaxPause
         /\ Never \notin Int /\ now \in Int /\ 0 <= now
         /\ pause \in Int /\ 0 <= pause /\ pause <= MaxPause
         /\ (exitAt = Never \/ (exitAt \in Int /\ exitAt <= now))
         /\ (goneAt = Never \/ (goneAt \in Int /\ goneAt <= now))
         /\ wake = Never \/ wake \in Int
         /\ config.healthCheck \in BOOLEAN /\ config.stoppedOnExit \in BOOLEAN
         /\ (command # "none" <=> place = "command")
         /\ exitChannel \in {"nil", "open", "closed"}
<1>1. now \in 0..Horizon /\ pause \in 0..MaxPause /\ (command # "none" <=> place = "command")
  BY DEF TypeOK
<1>2. exitAt \in 0..now \cup {Never} /\ goneAt \in 0..now \cup {Never} /\ wake \in Int \cup {Never}
  BY DEF TypeOK
<1>3. exitChannel \in {"nil", "open", "closed"}
  BY DEF TypeOK
<1>4. config.healthCheck \in BOOLEAN /\ config.stoppedOnExit \in BOOLEAN
  BY DEF TypeOK
<1> QED
  BY <1>1, <1>2, <1>3, <1>4, TimesAssumption

\* What happens around the probe, and to the clock.
LEMMA WorldStep ==
  ASSUME World
  PROVE  /\ UNCHANGED <<now, config, probeVars>> /\ place \notin Over
         /\ (exitAt' = exitAt \/ (~Exited /\ exitAt' = now))
         /\ (goneAt' = goneAt \/ (~ClientGone /\ goneAt' = now))
         /\ (stopAt' = stopAt \/ (~Interrupted /\ stopAt' = now))
<1>1. UNCHANGED <<now, config, probeVars>> /\ place \notin Over
  BY DEF World
<1>2. exitAt' = exitAt \/ (~Exited /\ exitAt' = now)
  BY DEF World
<1>3. goneAt' = goneAt \/ (~ClientGone /\ goneAt' = now)
  BY DEF World
<1>4. stopAt' = stopAt \/ (~Interrupted /\ stopAt' = now)
  BY DEF World
<1> QED
  BY <1>1, <1>2, <1>3, <1>4

LEMMA TickStep ==
  ASSUME TypeOK, TimeInv, Tick
  PROVE  /\ UNCHANGED <<worldVars, probeVars>> /\ now' = now + 1
         /\ place \in {"command", "sleep", "pause", "dialing"} /\ wake \in Int /\ now < wake
         /\ place # "dialing" => exitChannel # "closed" /\ ~ClientGone
         /\ exitChannel = "open" => ~Exited
<1>1. UNCHANGED <<worldVars, probeVars>> /\ now' = now + 1
  BY DEF Tick
<1>2. exitChannel = "open" => ~Exited
  BY DEF Tick, Idle
<1>3. CASE place \in {"command", "sleep", "pause"} /\ ~WaitEnds
  BY <1>1, Numbers, <1>2, <1>3 DEF WaitEnds, Abandoned, TimeInv
<1>4. CASE place = "dialing" /\ now < wake
  BY <1>1, <1>2, <1>4 DEF TimeInv
<1> QED
  BY <1>3, <1>4 DEF Tick, Idle

\* Every step keeps the types.
LEMMA TypePreserved ==
  ASSUME TypeOK, TimeInv, Next \/ UNCHANGED vars
  PROVE  TypeOK'
<1>1. ASSUME World PROVE TypeOK'
  <2>1. {exitAt', goneAt', stopAt'} \subseteq 0..now \cup {Never}
    BY <1>1, WorldStep, Numbers DEF TypeOK
  <2>2. listening' \in BOOLEAN
    BY <1>1 DEF World, TypeOK
  <2> QED
    BY <1>1, WorldStep, <2>1, <2>2 DEF probeVars, TypeOK, Over
<1>2. ASSUME CommandEnds PROVE TypeOK'
  BY <1>2, Numbers DEF CommandEnds, worldVars, probeVars, TypeOK, Over,
     Exited, ClientGone, Interrupted
<1>3. ASSUME CloseExitChannel PROVE TypeOK'
  BY <1>3, Numbers DEF CloseExitChannel, worldVars, probeVars, TypeOK, Over,
     Exited, ClientGone, Interrupted
<1>4. ASSUME BeginHealthCheck PROVE TypeOK'
  BY <1>4, Numbers DEF BeginHealthCheck, Goto, worldVars, probeVars, TypeOK,
     Over, Exited, ClientGone, Interrupted
<1>5. ASSUME Check PROVE TypeOK'
  <2>1. UNCHANGED <<now, worldVars, deadline, pause, exitChannel>> /\ place = "check"
    BY <1>5 DEF Check
  <2>2. CASE place' = "command" /\ command' = "running" /\ wake' = Timeout
             /\ ~Interrupted /\ now < Timeout
    BY <2>1, <2>2, Numbers DEF worldVars, TypeOK, Over
  <2>3. CASE place' = "no command" /\ UNCHANGED <<command, wake>>
    BY <2>1, <2>3 DEF worldVars, TypeOK, Over
  <2>4. CASE place' = "unhealthy" /\ UNCHANGED <<command, wake>>
             /\ (Interrupted \/ now >= Timeout)
    BY <2>1, <2>4 DEF worldVars, TypeOK, Over
  <2> QED
    BY <1>5, <2>2, <2>3, <2>4 DEF Check, Goto
<1>6. ASSUME CommandAborted PROVE TypeOK'
  BY <1>6, Numbers DEF CommandAborted, WaitEnds, Abandoned, Goto, worldVars,
     probeVars, TypeOK, Over, Exited, ClientGone, Interrupted
<1>7. ASSUME Healthy PROVE TypeOK'
  BY <1>7, Numbers DEF Healthy, Goto, worldVars, probeVars, TypeOK, Over,
     Exited, ClientGone, Interrupted
<1>8. ASSUME NotHealthyYet PROVE TypeOK'
  <2>1. UNCHANGED <<now, worldVars, deadline, pause, exitChannel>>
        /\ place = "command" /\ command' = "none"
    BY <1>8 DEF NotHealthyYet
  <2>2. place' \in {"sleep", "unhealthy"} /\ wake' \in {now + Interval, Never}
    BY <1>8 DEF NotHealthyYet, Goto
  <2>3. wake' \in Int \cup {Never}
    BY <2>2, Numbers
  <2> QED
    BY <2>1, <2>2, <2>3 DEF worldVars, TypeOK, Over
<1>9. ASSUME Slept PROVE TypeOK'
  BY <1>9, Numbers DEF Slept, Goto, worldVars, probeVars, TypeOK, Over,
     Exited, ClientGone, Interrupted
<1>10. ASSUME SleepAborted PROVE TypeOK'
  BY <1>10, Numbers DEF SleepAborted, Abandoned, Goto, worldVars, probeVars,
     TypeOK, Over, Exited, ClientGone, Interrupted
<1>11. ASSUME BeginConnecting PROVE TypeOK'
  <2>1. UNCHANGED <<now, worldVars, command, wake>> /\ place \in {"begin", "healthy"}
    BY <1>11 DEF BeginConnecting
  <2>2. CASE place' = "interrupted" /\ UNCHANGED <<deadline, pause, exitChannel>>
    BY <2>1, <2>2 DEF worldVars, TypeOK, Over
  <2>3. CASE /\ place' = "connect" /\ deadline' = Timeout
             /\ pause' = 0 /\ exitChannel' = "open"
    <3>1. 0 \in 0..MaxPause /\ Timeout \in Int
      BY Numbers
    <3> QED
      BY <2>1, <2>3, <3>1 DEF worldVars, TypeOK, Over
  <2> QED
    BY <1>11, <2>2, <2>3 DEF BeginConnecting, Goto
<1>12. ASSUME Dial PROVE TypeOK'
  BY <1>12, Numbers DEF Dial, Goto, worldVars, probeVars, TypeOK, Over,
     Exited, ClientGone, Interrupted
<1>13. ASSUME GiveUp PROVE TypeOK'
  BY <1>13, Numbers DEF GiveUp, Goto, worldVars, probeVars, TypeOK, Over,
     Exited, ClientGone, Interrupted
<1>14. ASSUME ProcessExited PROVE TypeOK'
  BY <1>14, Numbers DEF ProcessExited, Goto, worldVars, probeVars, TypeOK,
     Over, Exited, ClientGone, Interrupted
<1>15. ASSUME Connected PROVE TypeOK'
  BY <1>15, Numbers DEF Connected, Goto, worldVars, probeVars, TypeOK, Over,
     Exited, ClientGone, Interrupted
<1>16. ASSUME DialFails PROVE TypeOK'
  BY <1>16, Numbers DEF DialFails, Goto, worldVars, probeVars, TypeOK, Over,
     Exited, ClientGone, Interrupted
<1>17. ASSUME Paused PROVE TypeOK'
  BY <1>17, Numbers DEF Paused, Doubled, Goto, worldVars, probeVars, TypeOK,
     Over, Exited, ClientGone, Interrupted
<1>18. ASSUME PauseAborted PROVE TypeOK'
  BY <1>18, Numbers DEF PauseAborted, Goto, worldVars, probeVars, TypeOK,
     Over, Exited, ClientGone, Interrupted
<1>19. ASSUME Tick PROVE TypeOK'
  <2>1. now' \in 0..Horizon /\ 0..now \subseteq 0..now'
    BY <1>19, TickStep, Numbers, TimesAssumption DEF Tick
  <2>2. {exitAt, goneAt, stopAt} \subseteq 0..now' \cup {Never}
    BY <2>1 DEF TypeOK
  <2> QED
    BY <1>19, TickStep, <2>1, <2>2 DEF worldVars, probeVars, TypeOK, Over
<1>20. CASE UNCHANGED vars
  BY <1>20 DEF vars, worldVars, probeVars, TypeOK, Over, Exited, ClientGone,
     Interrupted
<1> QED
  BY <1>1, <1>2, <1>3, <1>4, <1>5, <1>6, <1>7, <1>8, <1>9, <1>10, <1>11,
     <1>12, <1>13, <1>14, <1>15, <1>16, <1>17, <1>18, <1>19, <1>20 DEF Next,
     Probe

\* No step overruns the wait it is in.
LEMMA TimePreserved ==
  ASSUME TypeOK, TimeInv, Next \/ UNCHANGED vars
  PROVE  TimeInv'
<1> USE Numbers DEF Over, Exited, ClientGone, Interrupted, Checking,
               Connecting, TimeInv
<1>1. ASSUME World PROVE TimeInv'
  BY <1>1 DEF World, worldVars, probeVars
<1>2. ASSUME CommandEnds PROVE TimeInv'
  BY <1>2 DEF CommandEnds, worldVars, probeVars
<1>3. ASSUME CloseExitChannel PROVE TimeInv'
  BY <1>3 DEF CloseExitChannel, worldVars, probeVars
<1>4. ASSUME BeginHealthCheck PROVE TimeInv'
  BY <1>4 DEF BeginHealthCheck, Goto, worldVars, probeVars
<1>5. ASSUME Check PROVE TimeInv'
  <2>1. UNCHANGED <<now, worldVars, deadline, pause, exitChannel>> /\ place = "check"
    BY <1>5 DEF Check
  <2>2. CASE place' = "command" /\ command' = "running" /\ wake' = Timeout
             /\ ~Interrupted /\ now < Timeout
    BY <2>1, <2>2 DEF worldVars
  <2>3. CASE place' = "no command" /\ UNCHANGED <<command, wake>>
    BY <2>1, <2>3 DEF worldVars
  <2>4. CASE place' = "unhealthy" /\ UNCHANGED <<command, wake>>
             /\ (Interrupted \/ now >= Timeout)
    BY <2>1, <2>4 DEF worldVars
  <2> QED
    BY <1>5, <2>2, <2>3, <2>4 DEF Check, Goto
<1>6. ASSUME CommandAborted PROVE TimeInv'
  BY <1>6 DEF CommandAborted, WaitEnds, Abandoned, Goto, worldVars, probeVars
<1>7. ASSUME Healthy PROVE TimeInv'
  BY <1>7 DEF Healthy, Goto, worldVars, probeVars
<1>8. ASSUME NotHealthyYet PROVE TimeInv'
  BY <1>8 DEF NotHealthyYet, EnoughTimeLeft, Goto, worldVars, probeVars
<1>9. ASSUME Slept PROVE TimeInv'
  BY <1>9 DEF Slept, Goto, worldVars, probeVars
<1>10. ASSUME SleepAborted PROVE TimeInv'
  BY <1>10 DEF SleepAborted, Abandoned, Goto, worldVars, probeVars
<1>11. ASSUME BeginConnecting PROVE TimeInv'
  <2>1. UNCHANGED <<now, worldVars, command, wake>> /\ place \in {"begin", "healthy"}
    BY <1>11 DEF BeginConnecting
  <2>2. CASE place' = "interrupted" /\ UNCHANGED <<deadline, pause, exitChannel>>
    BY <2>1, <2>2 DEF worldVars
  <2>3. CASE /\ place' = "connect" /\ deadline' = Timeout
             /\ pause' = 0 /\ exitChannel' = "open"
    BY <2>1, <2>3 DEF worldVars
  <2> QED
    BY <1>11, <2>2, <2>3 DEF BeginConnecting, Goto
<1>12. ASSUME Dial PROVE TimeInv'
  BY <1>12 DEF Dial, Goto, worldVars, probeVars
<1>13. ASSUME GiveUp PROVE TimeInv'
  BY <1>13 DEF GiveUp, Goto, worldVars, probeVars
<1>14. ASSUME ProcessExited PROVE TimeInv'
  BY <1>14 DEF ProcessExited, Goto, worldVars, probeVars
<1>15. ASSUME Connected PROVE TimeInv'
  BY <1>15 DEF Connected, Goto, worldVars, probeVars
<1>16. ASSUME DialFails PROVE TimeInv'
  BY <1>16 DEF DialFails, Goto, worldVars, probeVars
<1>17. ASSUME Paused PROVE TimeInv'
  BY <1>17 DEF Paused, Doubled, Goto, worldVars, probeVars
<1>18. ASSUME PauseAborted PROVE TimeInv'
  BY <1>18 DEF PauseAborted, Goto, worldVars, probeVars
<1>19. ASSUME Tick PROVE TimeInv'
  BY <1>19, TickStep DEF worldVars, probeVars
<1>20. CASE UNCHANGED vars
  BY <1>20 DEF vars, worldVars, probeVars
<1> QED
  BY <1>1, <1>2, <1>3, <1>4, <1>5, <1>6, <1>7, <1>8, <1>9, <1>10, <1>11,
     <1>12, <1>13, <1>14, <1>15, <1>16, <1>17, <1>18, <1>19, <1>20 DEF Next,
     Probe

\* The channel tells of an exit, and only where it matters.
LEMMA ChannelPreserved ==
  ASSUME TypeOK, ChannelInv, Next \/ UNCHANGED vars
  PROVE  ChannelInv'
<1> USE Numbers DEF Over, Exited, ClientGone, Interrupted, Checking,
               Connecting, ChannelInv
<1>1. ASSUME World PROVE ChannelInv'
  BY <1>1 DEF World, worldVars, probeVars
<1>2. ASSUME CommandEnds PROVE ChannelInv'
  BY <1>2 DEF CommandEnds, worldVars, probeVars
<1>3. ASSUME CloseExitChannel PROVE ChannelInv'
  BY <1>3 DEF CloseExitChannel, worldVars, probeVars
<1>4. ASSUME BeginHealthCheck PROVE ChannelInv'
  BY <1>4 DEF BeginHealthCheck, Goto, worldVars, probeVars
<1>5. ASSUME Check PROVE ChannelInv'
  BY <1>5 DEF Check, Goto, worldVars, probeVars
<1>6. ASSUME CommandAborted PROVE ChannelInv'
  BY <1>6 DEF CommandAborted, WaitEnds, Abandoned, Goto, worldVars, probeVars
<1>7. ASSUME Healthy PROVE ChannelInv'
  BY <1>7 DEF Healthy, Goto, worldVars, probeVars
<1>8. ASSUME NotHealthyYet PROVE ChannelInv'
  BY <1>8 DEF NotHealthyYet, EnoughTimeLeft, Goto, worldVars, probeVars
<1>9. ASSUME Slept PROVE ChannelInv'
  BY <1>9 DEF Slept, Goto, worldVars, probeVars
<1>10. ASSUME SleepAborted PROVE ChannelInv'
  BY <1>10 DEF SleepAborted, Abandoned, Goto, worldVars, probeVars
<1>11. ASSUME BeginConnecting PROVE ChannelInv'
  BY <1>11 DEF BeginConnecting, Goto, worldVars, probeVars
<1>12. ASSUME Dial PROVE ChannelInv'
  BY <1>12 DEF Dial, Goto, worldVars, probeVars
<1>13. ASSUME GiveUp PROVE ChannelInv'
  BY <1>13 DEF GiveUp, Goto, worldVars, probeVars
<1>14. ASSUME ProcessExited PROVE ChannelInv'
  BY <1>14 DEF ProcessExited, Goto, worldVars, probeVars
<1>15. ASSUME Connected PROVE ChannelInv'
  BY <1>15 DEF Connected, Goto, worldVars, probeVars
<1>16. ASSUME DialFails PROVE ChannelInv'
  BY <1>16 DEF DialFails, Goto, worldVars, probeVars
<1>17. ASSUME Paused PROVE ChannelInv'
  BY <1>17 DEF Paused, Doubled, Goto, worldVars, probeVars
<1>18. ASSUME PauseAborted PROVE ChannelInv'
  BY <1>18 DEF PauseAborted, Goto, worldVars, probeVars
<1>19. ASSUME Tick PROVE ChannelInv'
  BY <1>19 DEF Tick, Idle, WaitEnds, Abandoned, worldVars, probeVars
<1>20. CASE UNCHANGED vars
  BY <1>20 DEF vars, worldVars, probeVars
<1> QED
  BY <1>1, <1>2, <1>3, <1>4, <1>5, <1>6, <1>7, <1>8, <1>9, <1>10, <1>11,
     <1>12, <1>13, <1>14, <1>15, <1>16, <1>17, <1>18, <1>19, <1>20 DEF Next,
     Probe

\* The clock waits for the news of an exit that matters.
LEMMA ExitPreserved ==
  ASSUME TypeOK, TimeInv, ChannelInv, ExitInv, Next \/ UNCHANGED vars
  PROVE  ExitInv'
<1> USE Numbers DEF Over, Exited, ClientGone, Interrupted, Checking,
               Connecting, ChannelInv, ExitInv
<1>1. ASSUME World PROVE ExitInv'
  BY <1>1 DEF World, worldVars, probeVars
<1>2. ASSUME CommandEnds PROVE ExitInv'
  BY <1>2 DEF CommandEnds, worldVars, probeVars
<1>3. ASSUME CloseExitChannel PROVE ExitInv'
  BY <1>3 DEF CloseExitChannel, worldVars, probeVars
<1>4. ASSUME BeginHealthCheck PROVE ExitInv'
  BY <1>4 DEF BeginHealthCheck, Goto, worldVars, probeVars
<1>5. ASSUME Check PROVE ExitInv'
  BY <1>5 DEF Check, Goto, worldVars, probeVars
<1>6. ASSUME CommandAborted PROVE ExitInv'
  BY <1>6 DEF CommandAborted, WaitEnds, Abandoned, Goto, worldVars, probeVars
<1>7. ASSUME Healthy PROVE ExitInv'
  BY <1>7 DEF Healthy, Goto, worldVars, probeVars
<1>8. ASSUME NotHealthyYet PROVE ExitInv'
  BY <1>8 DEF NotHealthyYet, EnoughTimeLeft, Goto, worldVars, probeVars
<1>9. ASSUME Slept PROVE ExitInv'
  BY <1>9 DEF Slept, Goto, worldVars, probeVars
<1>10. ASSUME SleepAborted PROVE ExitInv'
  BY <1>10 DEF SleepAborted, Abandoned, Goto, worldVars, probeVars
<1>11. ASSUME BeginConnecting PROVE ExitInv'
  BY <1>11 DEF BeginConnecting, Goto, worldVars, probeVars
<1>12. ASSUME Dial PROVE ExitInv'
  BY <1>12 DEF Dial, Goto, worldVars, probeVars
<1>13. ASSUME GiveUp PROVE ExitInv'
  BY <1>13 DEF GiveUp, Goto, worldVars, probeVars
<1>14. ASSUME ProcessExited PROVE ExitInv'
  BY <1>14 DEF ProcessExited, Goto, worldVars, probeVars
<1>15. ASSUME Connected PROVE ExitInv'
  BY <1>15 DEF Connected, Goto, worldVars, probeVars
<1>16. ASSUME DialFails PROVE ExitInv'
  BY <1>16 DEF DialFails, Goto, worldVars, probeVars
<1>17. ASSUME Paused PROVE ExitInv'
  BY <1>17 DEF Paused, Doubled, Goto, worldVars, probeVars
<1>18. ASSUME PauseAborted PROVE ExitInv'
  BY <1>18 DEF PauseAborted, Goto, worldVars, probeVars
<1>19. ASSUME Tick PROVE ExitInv'
  BY <1>19, TickStep DEF worldVars, probeVars
<1>20. CASE UNCHANGED vars
  BY <1>20 DEF vars, worldVars, probeVars
<1> QED
  BY <1>1, <1>2, <1>3, <1>4, <1>5, <1>6, <1>7, <1>8, <1>9, <1>10, <1>11,
     <1>12, <1>13, <1>14, <1>15, <1>16, <1>17, <1>18, <1>19, <1>20 DEF Next,
     Probe

\* A dial does not outlive its reason by more than its timeout.
LEMMA DialPreserved ==
  ASSUME TypeOK, TimeInv, ChannelInv, ExitInv, DialInv, Next \/ UNCHANGED vars
  PROVE  DialInv'
<1> USE Numbers DEF Over, Exited, ClientGone, Interrupted, Checking,
               Connecting, TimeInv, ChannelInv, ExitInv, DialInv
<1>1. ASSUME World PROVE DialInv'
  BY <1>1, WorldStep DEF probeVars
<1>2. ASSUME CommandEnds PROVE DialInv'
  BY <1>2 DEF CommandEnds, worldVars, probeVars
<1>3. ASSUME CloseExitChannel PROVE DialInv'
  BY <1>3 DEF CloseExitChannel, worldVars, probeVars
<1>4. ASSUME BeginHealthCheck PROVE DialInv'
  BY <1>4 DEF BeginHealthCheck, Goto, worldVars, probeVars
<1>5. ASSUME Check PROVE DialInv'
  BY <1>5 DEF Check, Goto, worldVars, probeVars
<1>6. ASSUME CommandAborted PROVE DialInv'
  BY <1>6 DEF CommandAborted, WaitEnds, Abandoned, Goto, worldVars, probeVars
<1>7. ASSUME Healthy PROVE DialInv'
  BY <1>7 DEF Healthy, Goto, worldVars, probeVars
<1>8. ASSUME NotHealthyYet PROVE DialInv'
  BY <1>8 DEF NotHealthyYet, EnoughTimeLeft, Goto, worldVars, probeVars
<1>9. ASSUME Slept PROVE DialInv'
  BY <1>9 DEF Slept, Goto, worldVars, probeVars
<1>10. ASSUME SleepAborted PROVE DialInv'
  BY <1>10 DEF SleepAborted, Abandoned, Goto, worldVars, probeVars
<1>11. ASSUME BeginConnecting PROVE DialInv'
  BY <1>11 DEF BeginConnecting, Goto, worldVars, probeVars
<1>12. ASSUME Dial PROVE DialInv'
  BY <1>12 DEF Dial, Goto, worldVars, probeVars
<1>13. ASSUME GiveUp PROVE DialInv'
  BY <1>13 DEF GiveUp, Goto, worldVars, probeVars
<1>14. ASSUME ProcessExited PROVE DialInv'
  BY <1>14 DEF ProcessExited, Goto, worldVars, probeVars
<1>15. ASSUME Connected PROVE DialInv'
  BY <1>15 DEF Connected, Goto, worldVars, probeVars
<1>16. ASSUME DialFails PROVE DialInv'
  BY <1>16 DEF DialFails, Goto, worldVars, probeVars
<1>17. ASSUME Paused PROVE DialInv'
  BY <1>17 DEF Paused, Doubled, Goto, worldVars, probeVars
<1>18. ASSUME PauseAborted PROVE DialInv'
  BY <1>18 DEF PauseAborted, Goto, worldVars, probeVars
<1>19. ASSUME Tick PROVE DialInv'
  BY <1>19 DEF Tick, Idle, WaitEnds, Abandoned, worldVars, probeVars
<1>20. CASE UNCHANGED vars
  BY <1>20 DEF vars, worldVars, probeVars
<1> QED
  BY <1>1, <1>2, <1>3, <1>4, <1>5, <1>6, <1>7, <1>8, <1>9, <1>10, <1>11,
     <1>12, <1>13, <1>14, <1>15, <1>16, <1>17, <1>18, <1>19, <1>20 DEF Next,
     Probe

\* While somebody who leaves goes unnoticed time does not pass, but in a dial.
LEMMA NoticePreserved ==
  ASSUME TypeOK, TimeInv, ChannelInv, ExitInv, DialInv, NoticedPromptly, Next \/ UNCHANGED vars
  PROVE  NoticedPromptly'
<1>0. now <= now + DialTimeout
  BY Numbers
<1> USE Numbers DEF Over, Exited, ClientGone, Interrupted, Checking,
               Connecting, NoticedPromptly
<1>1. ASSUME World PROVE NoticedPromptly'
  <2>1. now' = now /\ config' = config /\ place' = place /\ place \notin Over
    BY <1>1, WorldStep DEF probeVars
  <2>2. ClientGone' => now <= goneAt' + DialTimeout
    <3>1. CASE goneAt' = goneAt
      BY <2>1, <3>1
    <3>2. CASE goneAt' = now
      BY <1>0, <3>2
    <3> QED
      BY <1>1, <3>1, <3>2, WorldStep
  <2>3. Exited' /\ config.stoppedOnExit => now <= exitAt' + DialTimeout
    <3>1. CASE exitAt' = exitAt
      BY <2>1, <3>1
    <3>2. CASE exitAt' = now
      BY <1>0, <3>2
    <3> QED
      BY <1>1, <3>1, <3>2, WorldStep
  <2> QED
    BY <2>1, <2>2, <2>3
<1>2. ASSUME CommandEnds PROVE NoticedPromptly'
  BY <1>2 DEF CommandEnds, worldVars, probeVars
<1>3. ASSUME CloseExitChannel PROVE NoticedPromptly'
  BY <1>3 DEF CloseExitChannel, worldVars, probeVars
<1>4. ASSUME BeginHealthCheck PROVE NoticedPromptly'
  BY <1>4 DEF BeginHealthCheck, Goto, worldVars, probeVars
<1>5. ASSUME Check PROVE NoticedPromptly'
  BY <1>5 DEF Check, Goto, worldVars, probeVars
<1>6. ASSUME CommandAborted PROVE NoticedPromptly'
  BY <1>6 DEF CommandAborted, WaitEnds, Abandoned, Goto, worldVars, probeVars
<1>7. ASSUME Healthy PROVE NoticedPromptly'
  BY <1>7 DEF Healthy, Goto, worldVars, probeVars
<1>8. ASSUME NotHealthyYet PROVE NoticedPromptly'
  BY <1>8 DEF NotHealthyYet, EnoughTimeLeft, Goto, worldVars, probeVars
<1>9. ASSUME Slept PROVE NoticedPromptly'
  BY <1>9 DEF Slept, Goto, worldVars, probeVars
<1>10. ASSUME SleepAborted PROVE NoticedPromptly'
  BY <1>10 DEF SleepAborted, Abandoned, Goto, worldVars, probeVars
<1>11. ASSUME BeginConnecting PROVE NoticedPromptly'
  BY <1>11 DEF BeginConnecting, Goto, worldVars, probeVars
<1>12. ASSUME Dial PROVE NoticedPromptly'
  BY <1>12 DEF Dial, Goto, worldVars, probeVars
<1>13. ASSUME GiveUp PROVE NoticedPromptly'
  BY <1>13 DEF GiveUp, Goto, worldVars, probeVars
<1>14. ASSUME ProcessExited PROVE NoticedPromptly'
  BY <1>14 DEF ProcessExited, Goto, worldVars, probeVars
<1>15. ASSUME Connected PROVE NoticedPromptly'
  BY <1>15 DEF Connected, Goto, worldVars, probeVars
<1>16. ASSUME DialFails PROVE NoticedPromptly'
  BY <1>16 DEF DialFails, Goto, worldVars, probeVars
<1>17. ASSUME Paused PROVE NoticedPromptly'
  BY <1>17 DEF Paused, Doubled, Goto, worldVars, probeVars
<1>18. ASSUME PauseAborted PROVE NoticedPromptly'
  BY <1>18 DEF PauseAborted, Goto, worldVars, probeVars
<1>19. ASSUME Tick PROVE NoticedPromptly'
  <2>1. UNCHANGED <<worldVars, probeVars>> /\ now' = now + 1
    BY <1>19, TickStep
  <2>2. CASE place = "dialing"
    BY <1>19, TickStep, <2>1, <2>2 DEF worldVars, probeVars, DialInv
  <2>3. CASE place # "dialing"
    <3>1. ~ClientGone /\ ~(Exited /\ config.stoppedOnExit)
      BY <1>19, TickStep, <2>3 DEF ChannelInv
    <3> QED
      BY <2>1, <3>1 DEF worldVars, probeVars
  <2> QED
    BY <2>2, <2>3
<1>20. CASE UNCHANGED vars
  BY <1>20 DEF vars, worldVars, probeVars
<1> QED
  BY <1>1, <1>2, <1>3, <1>4, <1>5, <1>6, <1>7, <1>8, <1>9, <1>10, <1>11,
     <1>12, <1>13, <1>14, <1>15, <1>16, <1>17, <1>18, <1>19, <1>20 DEF Next,
     Probe

\* No step gives up without a reason, and none takes the reason away.
LEMMA ReasonPreserved ==
  ASSUME TypeOK, TimeInv, ChannelInv, FailsForAReason, Next \/ UNCHANGED vars
  PROVE  FailsForAReason'
<1> USE Numbers DEF Over, Exited, ClientGone, Interrupted, Checking,
               Connecting, TimeInv, ChannelInv, FailsForAReason
<1>1. ASSUME World PROVE FailsForAReason'
  BY <1>1 DEF World, worldVars, probeVars
<1>2. ASSUME CommandEnds PROVE FailsForAReason'
  BY <1>2 DEF CommandEnds, worldVars, probeVars
<1>3. ASSUME CloseExitChannel PROVE FailsForAReason'
  BY <1>3 DEF CloseExitChannel, worldVars, probeVars
<1>4. ASSUME BeginHealthCheck PROVE FailsForAReason'
  BY <1>4 DEF BeginHealthCheck, Goto, worldVars, probeVars
<1>5. ASSUME Check PROVE FailsForAReason'
  <2>1. UNCHANGED <<now, worldVars, deadline, pause, exitChannel>> /\ place = "check"
    BY <1>5 DEF Check
  <2>2. CASE place' = "command" /\ command' = "running" /\ wake' = Timeout
             /\ ~Interrupted /\ now < Timeout
    BY <2>1, <2>2 DEF worldVars
  <2>3. CASE place' = "no command" /\ UNCHANGED <<command, wake>>
    BY <2>1, <2>3 DEF worldVars
  <2>4. CASE place' = "unhealthy" /\ UNCHANGED <<command, wake>>
             /\ (Interrupted \/ now >= Timeout)
    BY <2>1, <2>4 DEF worldVars
  <2> QED
    BY <1>5, <2>2, <2>3, <2>4 DEF Check, Goto
<1>6. ASSUME CommandAborted PROVE FailsForAReason'
  BY <1>6 DEF CommandAborted, WaitEnds, Abandoned, Goto, worldVars, probeVars
<1>7. ASSUME Healthy PROVE FailsForAReason'
  BY <1>7 DEF Healthy, Goto, worldVars, probeVars
<1>8. ASSUME NotHealthyYet PROVE FailsForAReason'
  BY <1>8 DEF NotHealthyYet, EnoughTimeLeft, Goto, worldVars, probeVars
<1>9. ASSUME Slept PROVE FailsForAReason'
  BY <1>9 DEF Slept, Goto, worldVars, probeVars
<1>10. ASSUME SleepAborted PROVE FailsForAReason'
  BY <1>10 DEF SleepAborted, Abandoned, Goto, worldVars, probeVars
<1>11. ASSUME BeginConnecting PROVE FailsForAReason'
  BY <1>11 DEF BeginConnecting, Goto, worldVars, probeVars
<1>12. ASSUME Dial PROVE FailsForAReason'
  BY <1>12 DEF Dial, Goto, worldVars, probeVars
<1>13. ASSUME GiveUp PROVE FailsForAReason'
  BY <1>13 DEF GiveUp, Goto, worldVars, probeVars
<1>14. ASSUME ProcessExited PROVE FailsForAReason'
  BY <1>14 DEF ProcessExited, Goto, worldVars, probeVars
<1>15. ASSUME Connected PROVE FailsForAReason'
  BY <1>15 DEF Connected, Goto, worldVars, probeVars
<1>16. ASSUME DialFails PROVE FailsForAReason'
  BY <1>16 DEF DialFails, Goto, worldVars, probeVars
<1>17. ASSUME Paused PROVE FailsForAReason'
  BY <1>17 DEF Paused, Doubled, Goto, worldVars, probeVars
<1>18. ASSUME PauseAborted PROVE FailsForAReason'
  BY <1>18 DEF PauseAborted, Goto, worldVars, probeVars
<1>19. ASSUME Tick PROVE FailsForAReason'
  BY <1>19 DEF Tick, Idle, WaitEnds, Abandoned, worldVars, probeVars
<1>20. CASE UNCHANGED vars
  BY <1>20 DEF vars, worldVars, probeVars
<1> QED
  BY <1>1, <1>2, <1>3, <1>4, <1>5, <1>6, <1>7, <1>8, <1>9, <1>10, <1>11,
     <1>12, <1>13, <1>14, <1>15, <1>16, <1>17, <1>18, <1>19, <1>20 DEF Next,
     Probe

-----------------------------------------------------------------------------
LEMMA IInvInit ==
  ASSUME Init
  PROVE  IInv
BY TimesAssumption
   DEF Init, IInv, TypeOK, TimeInv, ChannelInv, ExitInv, DialInv, NoticedPromptly,
       FailsForAReason, Over, Exited, ClientGone, Interrupted, Checking, Connecting

\* The invariant holds of every reachable state: the types, the ends of the
\* waits, what the exit channel tells and how long an exit or a client that is
\* gone goes unnoticed.
THEOREM InductiveInvariant == Spec => []IInv
<1>1. Init => IInv
  BY IInvInit
<1>2. IInv /\ [Next]_vars => IInv'
  BY TypePreserved, TimePreserved, ChannelPreserved, ExitPreserved, DialPreserved,
     NoticePreserved, ReasonPreserved DEF IInv
<1> QED
  BY <1>1, <1>2, PTL DEF Spec

\* Every variable keeps its type, and a health check command runs only while
\* somebody waits for it.
THEOREM TypeCorrect == Spec => []TypeOK
<1>1. IInv => TypeOK
  BY DEF IInv
<1> QED
  BY <1>1, InductiveInvariant, PTL

\* Health checks and dials together end by the startup timeout, but for the
\* last dial and the sleep after it.
THEOREM ProbeEndsInTime == Spec => []EndsInTime
<1>1. IInv => EndsInTime
  <2> SUFFICES ASSUME IInv, place \notin Over
               PROVE  now < Timeout + DialTimeout + MaxPause
    BY DEF EndsInTime
  <2>1. place \in Checking \cup Connecting
    BY DEF IInv, TypeOK, Checking, Connecting
  <2> QED
    BY <2>1, Numbers DEF IInv, TimeInv, Checking, Connecting
<1> QED
  BY <1>1, InductiveInvariant, PTL

\* A client that leaves, or an exit that matters, is noticed within the
\* timeout of one dial.
THEOREM NoticesPromptly == Spec => []NoticedPromptly
<1>1. IInv => NoticedPromptly
  BY DEF IInv
<1> QED
  BY <1>1, InductiveInvariant, PTL

\* A start is given up only for a reason that is still there.
THEOREM GivesUpForAReason == Spec => []FailsForAReason
<1>1. IInv => FailsForAReason
  BY DEF IInv
<1> QED
  BY <1>1, InductiveInvariant, PTL
=============================================================================
