--------------------------- MODULE ShutdownTheorems ---------------------------
(***************************************************************************)
(* What is proved of Shutdown for every set of services, whichever of them *)
(* are detached, and every number of goroutines that stop them.            *)
(***************************************************************************)
EXTENDS ShutdownProperties, TLAPS

\* main never waits for a lock, and it is done when it exits.
MainInv ==
    /\ stop[Handler] \in {"none", "manage", "timer", "kill", "clean"}
    /\ handler \in {"wait", "signal"} => todo = {} /\ seen = {}
    /\ handler = "exited" => todo = {} /\ target = Handler
    /\ target \in Services \cup {Handler}

\* A cmd is set once its process was launched, and never launched again; what
\* exitWaitGroup says of a process stays true.
LaunchInv ==
    \A s \in Services :
        /\ s \in launched => start[s] \in {"probe", "connected", "done"}
        /\ start[s] = "running" \/ s \in launched => process[s] # "none"
        /\ watcher[s] # "none" => s \in launched
        /\ s \in waitGroup => process[s] = "exited" /\ s \in launched

Dead(s) == process[s] \in {"exited", "killed", "immortal"}

\* Of the processes main has seen, those it is past are dead.
StopInv ==
    /\ seen \subseteq launched
    /\ \A s \in seen :
        \/ s \in todo
        \/ target = s /\ stop[Handler] \in {"manage", "timer", "kill"}
        \/ Dead(s)

\* The manageMutex of an instance that is not there yet is free, nobody stops
\* that instance, and a stop that has deferred an Unlock is past the Lock.
TokenInv ==
    /\ TokensHeld
    /\ \A s \in registered \cup todo : start[s] # "none"
    /\ \A s \in Services : start[s] = "none" => manage[s] = "free"
    /\ \A a \in Stoppers :
        stop[a] # "none" => ServiceOf(a) \in Services /\ start[ServiceOf(a)] # "none"
    /\ \A a \in unlocks : stop[a] \in {"timer", "kill", "clean"}

\* The inductive invariant.
IInv == TypeOK /\ MainInv /\ LaunchInv /\ StopInv /\ TokenInv
-----------------------------------------------------------------------------
\* Every step keeps the types.
LEMMA TypePreserved ==
  ASSUME TypeOK, MainInv, Next \/ UNCHANGED vars
  PROVE  TypeOK'
<1> USE ShutdownAssumption DEF TypeOK, MainInv, Stoppers
<1>1. ASSUME Signal PROVE TypeOK'
  BY <1>1 DEF Signal, mainVars, mapVars, lockVars, threadVars, exitVars
<1>2. ASSUME TakeServiceMutex PROVE TypeOK'
  BY <1>2 DEF TakeServiceMutex, mainVars, mapVars, lockVars, threadVars,
     exitVars
<1>3. ASSUME StopNext PROVE TypeOK'
  BY <1>3 DEF StopNext, mainVars, mapVars, lockVars, threadVars, exitVars
<1>4. ASSUME OsExit PROVE TypeOK'
  BY <1>4 DEF OsExit, mainVars, mapVars, lockVars, threadVars, exitVars
<1>5. ASSUME NEW s \in Services, Register(s) PROVE TypeOK'
  BY <1>5 DEF Register, Starts, Up, Unlocked, mainVars, mapVars, lockVars,
     threadVars, exitVars
<1>6. ASSUME NEW s \in Services, Reserve(s) PROVE TypeOK'
  BY <1>6 DEF Reserve, Starts, Up, mainVars, mapVars, lockVars, threadVars,
     exitVars
<1>7. ASSUME NEW s \in Services, Refused(s) PROVE TypeOK'
  BY <1>7 DEF Refused, Starts, Up, mainVars, mapVars, lockVars, threadVars,
     exitVars
<1>8. ASSUME NEW s \in Services, Drop(s) PROVE TypeOK'
  BY <1>8 DEF Drop, Starts, Up, CleanUp, Unlocked, mainVars, mapVars,
     lockVars, threadVars, exitVars
<1>9. ASSUME NEW s \in Services, Launch(s) PROVE TypeOK'
  BY <1>9 DEF Launch, Starts, Up, mainVars, mapVars, lockVars, threadVars,
     exitVars
<1>10. ASSUME NEW s \in Services, LaunchFails(s) PROVE TypeOK'
  BY <1>10 DEF LaunchFails, Starts, Up, mainVars, mapVars, lockVars,
     threadVars, exitVars
<1>11. ASSUME NEW s \in Services, SetCmd(s) PROVE TypeOK'
  BY <1>11 DEF SetCmd, Starts, Up, Unlocked, mainVars, mapVars, lockVars,
     threadVars, exitVars
<1>12. ASSUME NEW s \in Services, ProbeOk(s) PROVE TypeOK'
  BY <1>12 DEF ProbeOk, Starts, Up, mainVars, mapVars, lockVars, threadVars,
     exitVars
<1>13. ASSUME NEW s \in Services, Ready(s) PROVE TypeOK'
  BY <1>13 DEF Ready, Starts, Up, Unlocked, mainVars, mapVars, lockVars,
     threadVars, exitVars
<1>14. ASSUME NEW s \in Services, ProbeFails(s) PROVE TypeOK'
  BY <1>14 DEF ProbeFails, Starts, Up, mainVars, mapVars, lockVars,
     threadVars, exitVars
<1>15. ASSUME NEW s \in Services, Lookup(s) PROVE TypeOK'
  BY <1>15 DEF Lookup, Stops, Up, mainVars, mapVars, lockVars, threadVars,
     exitVars
<1>16. ASSUME NEW s \in Services, Exit(s) PROVE TypeOK'
  BY <1>16 DEF Exit, Up, mainVars, mapVars, lockVars, threadVars, exitVars
<1>17. ASSUME NEW s \in Services, Reap(s) PROVE TypeOK'
  BY <1>17 DEF Reap, Watches, Up, mainVars, mapVars, lockVars, threadVars,
     exitVars
<1>18. ASSUME NEW s \in Services, WatcherTries(s) PROVE TypeOK'
  BY <1>18 DEF WatcherTries, Watches, Up, mainVars, mapVars, lockVars,
     threadVars, exitVars
<1>19. ASSUME NEW s \in Services, WatcherLocks(s) PROVE TypeOK'
  BY <1>19 DEF WatcherLocks, Watches, Up, WatcherCleansUp, CleanUp, Unlocked,
     mainVars, mapVars, lockVars, threadVars, exitVars
<1>20. ASSUME NEW a \in Callers, CallStop(a) PROVE TypeOK'
  BY <1>20 DEF CallStop, Stops, Up, Unlocked, mainVars, mapVars, lockVars,
     threadVars, exitVars
<1>21. ASSUME NEW a \in Stoppers, Manage(a) PROVE TypeOK'
  BY <1>21 DEF Manage, Stops, Up, ServiceOf, mainVars, mapVars, lockVars,
     threadVars, exitVars
<1>22. ASSUME NEW a \in Stoppers, Lock(a) PROVE TypeOK'
  BY <1>22 DEF Lock, Stops, Up, ServiceOf, mainVars, mapVars, lockVars,
     threadVars, exitVars
<1>23. ASSUME NEW a \in Stoppers, StopTimer(a) PROVE TypeOK'
  BY <1>23 DEF StopTimer, Stops, Up, mainVars, mapVars, lockVars, threadVars,
     exitVars
<1>24. ASSUME NEW a \in Stoppers, NothingToKill(a) PROVE TypeOK'
  BY <1>24 DEF NothingToKill, Stops, Up, ServiceOf, mainVars, mapVars,
     lockVars, threadVars, exitVars
<1>25. ASSUME NEW a \in Stoppers, Waited(a) PROVE TypeOK'
  BY <1>25 DEF Waited, Stops, Up, ServiceOf, mainVars, mapVars, lockVars,
     threadVars, exitVars
<1>26. ASSUME NEW a \in Stoppers, TimedOut(a) PROVE TypeOK'
  BY <1>26 DEF TimedOut, Stops, Up, ServiceOf, mainVars, mapVars, lockVars,
     threadVars, exitVars
<1>27. ASSUME NEW a \in Stoppers, SigKillFails(a) PROVE TypeOK'
  BY <1>27 DEF SigKillFails, Returns, Stops, Up, ServiceOf, mainVars, mapVars,
     lockVars, threadVars, exitVars
<1>28. ASSUME NEW a \in Stoppers, NothingToClean(a) PROVE TypeOK'
  BY <1>28 DEF NothingToClean, Returns, Stops, Up, ServiceOf, mainVars,
     mapVars, lockVars, threadVars, exitVars
<1>29. ASSUME NEW a \in Stoppers, Clean(a) PROVE TypeOK'
  BY <1>29 DEF Clean, Returns, Stops, Up, ServiceOf, CleanUp, Unlocked,
     mainVars, mapVars, lockVars, threadVars, exitVars
<1>30. CASE UNCHANGED vars
  BY <1>30 DEF vars, mainVars, mapVars, lockVars, threadVars, exitVars
<1> QED
  BY <1>1, <1>2, <1>3, <1>4, <1>5, <1>6, <1>7, <1>8, <1>9, <1>10, <1>11,
     <1>12, <1>13, <1>14, <1>15, <1>16, <1>17, <1>18, <1>19, <1>20, <1>21,
     <1>22, <1>23, <1>24, <1>25, <1>26, <1>27, <1>28, <1>29, <1>30 DEF Next,
     HandlerStep, StartStep, WatcherStep, StopStep, Stoppers

\* Every step keeps what main has been through.
LEMMA MainPreserved ==
  ASSUME TypeOK, MainInv, Next \/ UNCHANGED vars
  PROVE  MainInv'
<1> USE ShutdownAssumption DEF TypeOK, MainInv, Stoppers
<1>1. ASSUME Signal PROVE MainInv'
  BY <1>1 DEF Signal, mainVars, mapVars, lockVars, threadVars, exitVars
<1>2. ASSUME TakeServiceMutex PROVE MainInv'
  BY <1>2 DEF TakeServiceMutex, mainVars, mapVars, lockVars, threadVars,
     exitVars
<1>3. ASSUME StopNext PROVE MainInv'
  BY <1>3 DEF StopNext, mainVars, mapVars, lockVars, threadVars, exitVars
<1>4. ASSUME OsExit PROVE MainInv'
  BY <1>4 DEF OsExit, mainVars, mapVars, lockVars, threadVars, exitVars
<1>5. ASSUME NEW s \in Services, Register(s) PROVE MainInv'
  BY <1>5 DEF Register, Starts, Up, Unlocked, mainVars, mapVars, lockVars,
     threadVars, exitVars
<1>6. ASSUME NEW s \in Services, Reserve(s) PROVE MainInv'
  BY <1>6 DEF Reserve, Starts, Up, mainVars, mapVars, lockVars, threadVars,
     exitVars
<1>7. ASSUME NEW s \in Services, Refused(s) PROVE MainInv'
  BY <1>7 DEF Refused, Starts, Up, mainVars, mapVars, lockVars, threadVars,
     exitVars
<1>8. ASSUME NEW s \in Services, Drop(s) PROVE MainInv'
  BY <1>8 DEF Drop, Starts, Up, CleanUp, Unlocked, mainVars, mapVars,
     lockVars, threadVars, exitVars
<1>9. ASSUME NEW s \in Services, Launch(s) PROVE MainInv'
  BY <1>9 DEF Launch, Starts, Up, mainVars, mapVars, lockVars, threadVars,
     exitVars
<1>10. ASSUME NEW s \in Services, LaunchFails(s) PROVE MainInv'
  BY <1>10 DEF LaunchFails, Starts, Up, mainVars, mapVars, lockVars,
     threadVars, exitVars
<1>11. ASSUME NEW s \in Services, SetCmd(s) PROVE MainInv'
  BY <1>11 DEF SetCmd, Starts, Up, Unlocked, mainVars, mapVars, lockVars,
     threadVars, exitVars
<1>12. ASSUME NEW s \in Services, ProbeOk(s) PROVE MainInv'
  BY <1>12 DEF ProbeOk, Starts, Up, mainVars, mapVars, lockVars, threadVars,
     exitVars
<1>13. ASSUME NEW s \in Services, Ready(s) PROVE MainInv'
  BY <1>13 DEF Ready, Starts, Up, Unlocked, mainVars, mapVars, lockVars,
     threadVars, exitVars
<1>14. ASSUME NEW s \in Services, ProbeFails(s) PROVE MainInv'
  BY <1>14 DEF ProbeFails, Starts, Up, mainVars, mapVars, lockVars,
     threadVars, exitVars
<1>15. ASSUME NEW s \in Services, Lookup(s) PROVE MainInv'
  BY <1>15 DEF Lookup, Stops, Up, mainVars, mapVars, lockVars, threadVars,
     exitVars
<1>16. ASSUME NEW s \in Services, Exit(s) PROVE MainInv'
  BY <1>16 DEF Exit, Up, mainVars, mapVars, lockVars, threadVars, exitVars
<1>17. ASSUME NEW s \in Services, Reap(s) PROVE MainInv'
  BY <1>17 DEF Reap, Watches, Up, mainVars, mapVars, lockVars, threadVars,
     exitVars
<1>18. ASSUME NEW s \in Services, WatcherTries(s) PROVE MainInv'
  BY <1>18 DEF WatcherTries, Watches, Up, mainVars, mapVars, lockVars,
     threadVars, exitVars
<1>19. ASSUME NEW s \in Services, WatcherLocks(s) PROVE MainInv'
  BY <1>19 DEF WatcherLocks, Watches, Up, WatcherCleansUp, CleanUp, Unlocked,
     mainVars, mapVars, lockVars, threadVars, exitVars
<1>20. ASSUME NEW a \in Callers, CallStop(a) PROVE MainInv'
  BY <1>20 DEF CallStop, Stops, Up, Unlocked, mainVars, mapVars, lockVars,
     threadVars, exitVars
<1>21. ASSUME NEW a \in Stoppers, Manage(a) PROVE MainInv'
  BY <1>21 DEF Manage, Stops, Up, ServiceOf, mainVars, mapVars, lockVars,
     threadVars, exitVars
<1>22. ASSUME NEW a \in Stoppers, Lock(a) PROVE MainInv'
  BY <1>22 DEF Lock, Stops, Up, ServiceOf, mainVars, mapVars, lockVars,
     threadVars, exitVars
<1>23. ASSUME NEW a \in Stoppers, StopTimer(a) PROVE MainInv'
  BY <1>23 DEF StopTimer, Stops, Up, mainVars, mapVars, lockVars, threadVars,
     exitVars
<1>24. ASSUME NEW a \in Stoppers, NothingToKill(a) PROVE MainInv'
  BY <1>24 DEF NothingToKill, Stops, Up, ServiceOf, mainVars, mapVars,
     lockVars, threadVars, exitVars
<1>25. ASSUME NEW a \in Stoppers, Waited(a) PROVE MainInv'
  BY <1>25 DEF Waited, Stops, Up, ServiceOf, mainVars, mapVars, lockVars,
     threadVars, exitVars
<1>26. ASSUME NEW a \in Stoppers, TimedOut(a) PROVE MainInv'
  BY <1>26 DEF TimedOut, Stops, Up, ServiceOf, mainVars, mapVars, lockVars,
     threadVars, exitVars
<1>27. ASSUME NEW a \in Stoppers, SigKillFails(a) PROVE MainInv'
  BY <1>27 DEF SigKillFails, Returns, Stops, Up, ServiceOf, mainVars, mapVars,
     lockVars, threadVars, exitVars
<1>28. ASSUME NEW a \in Stoppers, NothingToClean(a) PROVE MainInv'
  BY <1>28 DEF NothingToClean, Returns, Stops, Up, ServiceOf, mainVars,
     mapVars, lockVars, threadVars, exitVars
<1>29. ASSUME NEW a \in Stoppers, Clean(a) PROVE MainInv'
  BY <1>29 DEF Clean, Returns, Stops, Up, ServiceOf, CleanUp, Unlocked,
     mainVars, mapVars, lockVars, threadVars, exitVars
<1>30. CASE UNCHANGED vars
  BY <1>30 DEF vars, mainVars, mapVars, lockVars, threadVars, exitVars
<1> QED
  BY <1>1, <1>2, <1>3, <1>4, <1>5, <1>6, <1>7, <1>8, <1>9, <1>10, <1>11,
     <1>12, <1>13, <1>14, <1>15, <1>16, <1>17, <1>18, <1>19, <1>20, <1>21,
     <1>22, <1>23, <1>24, <1>25, <1>26, <1>27, <1>28, <1>29, <1>30 DEF Next,
     HandlerStep, StartStep, WatcherStep, StopStep, Stoppers

\* A process is launched once, before its cmd is set.
LEMMA LaunchPreserved ==
  ASSUME TypeOK, LaunchInv, Next \/ UNCHANGED vars
  PROVE  LaunchInv'
<1> USE ShutdownAssumption DEF TypeOK, LaunchInv, Stoppers
<1>1. ASSUME Signal PROVE LaunchInv'
  BY <1>1 DEF Signal, mainVars, mapVars, lockVars, threadVars, exitVars
<1>2. ASSUME TakeServiceMutex PROVE LaunchInv'
  BY <1>2 DEF TakeServiceMutex, mainVars, mapVars, lockVars, threadVars,
     exitVars
<1>3. ASSUME StopNext PROVE LaunchInv'
  BY <1>3 DEF StopNext, mainVars, mapVars, lockVars, threadVars, exitVars
<1>4. ASSUME OsExit PROVE LaunchInv'
  BY <1>4 DEF OsExit, mainVars, mapVars, lockVars, threadVars, exitVars
<1>5. ASSUME NEW s \in Services, Register(s) PROVE LaunchInv'
  BY <1>5 DEF Register, Starts, Up, Unlocked, mainVars, mapVars, lockVars,
     threadVars, exitVars
<1>6. ASSUME NEW s \in Services, Reserve(s) PROVE LaunchInv'
  BY <1>6 DEF Reserve, Starts, Up, mainVars, mapVars, lockVars, threadVars,
     exitVars
<1>7. ASSUME NEW s \in Services, Refused(s) PROVE LaunchInv'
  BY <1>7 DEF Refused, Starts, Up, mainVars, mapVars, lockVars, threadVars,
     exitVars
<1>8. ASSUME NEW s \in Services, Drop(s) PROVE LaunchInv'
  BY <1>8 DEF Drop, Starts, Up, CleanUp, Unlocked, mainVars, mapVars,
     lockVars, threadVars, exitVars
<1>9. ASSUME NEW s \in Services, Launch(s) PROVE LaunchInv'
  BY <1>9 DEF Launch, Starts, Up, mainVars, mapVars, lockVars, threadVars,
     exitVars
<1>10. ASSUME NEW s \in Services, LaunchFails(s) PROVE LaunchInv'
  BY <1>10 DEF LaunchFails, Starts, Up, mainVars, mapVars, lockVars,
     threadVars, exitVars
<1>11. ASSUME NEW s \in Services, SetCmd(s) PROVE LaunchInv'
  BY <1>11 DEF SetCmd, Starts, Up, Unlocked, mainVars, mapVars, lockVars,
     threadVars, exitVars
<1>12. ASSUME NEW s \in Services, ProbeOk(s) PROVE LaunchInv'
  BY <1>12 DEF ProbeOk, Starts, Up, mainVars, mapVars, lockVars, threadVars,
     exitVars
<1>13. ASSUME NEW s \in Services, Ready(s) PROVE LaunchInv'
  BY <1>13 DEF Ready, Starts, Up, Unlocked, mainVars, mapVars, lockVars,
     threadVars, exitVars
<1>14. ASSUME NEW s \in Services, ProbeFails(s) PROVE LaunchInv'
  BY <1>14 DEF ProbeFails, Starts, Up, mainVars, mapVars, lockVars,
     threadVars, exitVars
<1>15. ASSUME NEW s \in Services, Lookup(s) PROVE LaunchInv'
  BY <1>15 DEF Lookup, Stops, Up, mainVars, mapVars, lockVars, threadVars,
     exitVars
<1>16. ASSUME NEW s \in Services, Exit(s) PROVE LaunchInv'
  BY <1>16 DEF Exit, Up, mainVars, mapVars, lockVars, threadVars, exitVars
<1>17. ASSUME NEW s \in Services, Reap(s) PROVE LaunchInv'
  BY <1>17 DEF Reap, Watches, Up, mainVars, mapVars, lockVars, threadVars,
     exitVars
<1>18. ASSUME NEW s \in Services, WatcherTries(s) PROVE LaunchInv'
  BY <1>18 DEF WatcherTries, Watches, Up, mainVars, mapVars, lockVars,
     threadVars, exitVars
<1>19. ASSUME NEW s \in Services, WatcherLocks(s) PROVE LaunchInv'
  BY <1>19 DEF WatcherLocks, Watches, Up, WatcherCleansUp, CleanUp, Unlocked,
     mainVars, mapVars, lockVars, threadVars, exitVars
<1>20. ASSUME NEW a \in Callers, CallStop(a) PROVE LaunchInv'
  BY <1>20 DEF CallStop, Stops, Up, Unlocked, mainVars, mapVars, lockVars,
     threadVars, exitVars
<1>21. ASSUME NEW a \in Stoppers, Manage(a) PROVE LaunchInv'
  BY <1>21 DEF Manage, Stops, Up, ServiceOf, mainVars, mapVars, lockVars,
     threadVars, exitVars
<1>22. ASSUME NEW a \in Stoppers, Lock(a) PROVE LaunchInv'
  BY <1>22 DEF Lock, Stops, Up, ServiceOf, mainVars, mapVars, lockVars,
     threadVars, exitVars
<1>23. ASSUME NEW a \in Stoppers, StopTimer(a) PROVE LaunchInv'
  BY <1>23 DEF StopTimer, Stops, Up, mainVars, mapVars, lockVars, threadVars,
     exitVars
<1>24. ASSUME NEW a \in Stoppers, NothingToKill(a) PROVE LaunchInv'
  BY <1>24 DEF NothingToKill, Stops, Up, ServiceOf, mainVars, mapVars,
     lockVars, threadVars, exitVars
<1>25. ASSUME NEW a \in Stoppers, Waited(a) PROVE LaunchInv'
  BY <1>25 DEF Waited, Stops, Up, ServiceOf, mainVars, mapVars, lockVars,
     threadVars, exitVars
<1>26. ASSUME NEW a \in Stoppers, TimedOut(a) PROVE LaunchInv'
  BY <1>26 DEF TimedOut, Stops, Up, ServiceOf, mainVars, mapVars, lockVars,
     threadVars, exitVars
<1>27. ASSUME NEW a \in Stoppers, SigKillFails(a) PROVE LaunchInv'
  BY <1>27 DEF SigKillFails, Returns, Stops, Up, ServiceOf, mainVars, mapVars,
     lockVars, threadVars, exitVars
<1>28. ASSUME NEW a \in Stoppers, NothingToClean(a) PROVE LaunchInv'
  BY <1>28 DEF NothingToClean, Returns, Stops, Up, ServiceOf, mainVars,
     mapVars, lockVars, threadVars, exitVars
<1>29. ASSUME NEW a \in Stoppers, Clean(a) PROVE LaunchInv'
  BY <1>29 DEF Clean, Returns, Stops, Up, ServiceOf, CleanUp, Unlocked,
     mainVars, mapVars, lockVars, threadVars, exitVars
<1>30. CASE UNCHANGED vars
  BY <1>30 DEF vars, mainVars, mapVars, lockVars, threadVars, exitVars
<1> QED
  BY <1>1, <1>2, <1>3, <1>4, <1>5, <1>6, <1>7, <1>8, <1>9, <1>10, <1>11,
     <1>12, <1>13, <1>14, <1>15, <1>16, <1>17, <1>18, <1>19, <1>20, <1>21,
     <1>22, <1>23, <1>24, <1>25, <1>26, <1>27, <1>28, <1>29, <1>30 DEF Next,
     HandlerStep, StartStep, WatcherStep, StopStep, Stoppers

\* Whom main has stopped stays dead.
LEMMA StopPreserved ==
  ASSUME TypeOK, MainInv, LaunchInv, StopInv, Next \/ UNCHANGED vars
  PROVE  StopInv'
<1> USE ShutdownAssumption DEF TypeOK, MainInv, LaunchInv, StopInv, Dead, Stoppers
<1>1. ASSUME Signal PROVE StopInv'
  BY <1>1 DEF Signal, mainVars, mapVars, lockVars, threadVars, exitVars
<1>2. ASSUME TakeServiceMutex PROVE StopInv'
  BY <1>2 DEF TakeServiceMutex, mainVars, mapVars, lockVars, threadVars,
     exitVars
<1>3. ASSUME StopNext PROVE StopInv'
  BY <1>3 DEF StopNext, mainVars, mapVars, lockVars, threadVars, exitVars
<1>4. ASSUME OsExit PROVE StopInv'
  BY <1>4 DEF OsExit, mainVars, mapVars, lockVars, threadVars, exitVars
<1>5. ASSUME NEW s \in Services, Register(s) PROVE StopInv'
  BY <1>5 DEF Register, Starts, Up, Unlocked, mainVars, mapVars, lockVars,
     threadVars, exitVars
<1>6. ASSUME NEW s \in Services, Reserve(s) PROVE StopInv'
  BY <1>6 DEF Reserve, Starts, Up, mainVars, mapVars, lockVars, threadVars,
     exitVars
<1>7. ASSUME NEW s \in Services, Refused(s) PROVE StopInv'
  BY <1>7 DEF Refused, Starts, Up, mainVars, mapVars, lockVars, threadVars,
     exitVars
<1>8. ASSUME NEW s \in Services, Drop(s) PROVE StopInv'
  BY <1>8 DEF Drop, Starts, Up, CleanUp, Unlocked, mainVars, mapVars,
     lockVars, threadVars, exitVars
<1>9. ASSUME NEW s \in Services, Launch(s) PROVE StopInv'
  BY <1>9 DEF Launch, Starts, Up, mainVars, mapVars, lockVars, threadVars,
     exitVars
<1>10. ASSUME NEW s \in Services, LaunchFails(s) PROVE StopInv'
  BY <1>10 DEF LaunchFails, Starts, Up, mainVars, mapVars, lockVars,
     threadVars, exitVars
<1>11. ASSUME NEW s \in Services, SetCmd(s) PROVE StopInv'
  BY <1>11 DEF SetCmd, Starts, Up, Unlocked, mainVars, mapVars, lockVars,
     threadVars, exitVars
<1>12. ASSUME NEW s \in Services, ProbeOk(s) PROVE StopInv'
  BY <1>12 DEF ProbeOk, Starts, Up, mainVars, mapVars, lockVars, threadVars,
     exitVars
<1>13. ASSUME NEW s \in Services, Ready(s) PROVE StopInv'
  BY <1>13 DEF Ready, Starts, Up, Unlocked, mainVars, mapVars, lockVars,
     threadVars, exitVars
<1>14. ASSUME NEW s \in Services, ProbeFails(s) PROVE StopInv'
  BY <1>14 DEF ProbeFails, Starts, Up, mainVars, mapVars, lockVars,
     threadVars, exitVars
<1>15. ASSUME NEW s \in Services, Lookup(s) PROVE StopInv'
  BY <1>15 DEF Lookup, Stops, Up, mainVars, mapVars, lockVars, threadVars,
     exitVars
<1>16. ASSUME NEW s \in Services, Exit(s) PROVE StopInv'
  BY <1>16 DEF Exit, Up, mainVars, mapVars, lockVars, threadVars, exitVars
<1>17. ASSUME NEW s \in Services, Reap(s) PROVE StopInv'
  BY <1>17 DEF Reap, Watches, Up, mainVars, mapVars, lockVars, threadVars,
     exitVars
<1>18. ASSUME NEW s \in Services, WatcherTries(s) PROVE StopInv'
  BY <1>18 DEF WatcherTries, Watches, Up, mainVars, mapVars, lockVars,
     threadVars, exitVars
<1>19. ASSUME NEW s \in Services, WatcherLocks(s) PROVE StopInv'
  BY <1>19 DEF WatcherLocks, Watches, Up, WatcherCleansUp, CleanUp, Unlocked,
     mainVars, mapVars, lockVars, threadVars, exitVars
<1>20. ASSUME NEW a \in Callers, CallStop(a) PROVE StopInv'
  BY <1>20 DEF CallStop, Stops, Up, Unlocked, mainVars, mapVars, lockVars,
     threadVars, exitVars
<1>21. ASSUME NEW a \in Stoppers, Manage(a) PROVE StopInv'
  BY <1>21 DEF Manage, Stops, Up, ServiceOf, mainVars, mapVars, lockVars,
     threadVars, exitVars
<1>22. ASSUME NEW a \in Stoppers, Lock(a) PROVE StopInv'
  BY <1>22 DEF Lock, Stops, Up, ServiceOf, mainVars, mapVars, lockVars,
     threadVars, exitVars
<1>23. ASSUME NEW a \in Stoppers, StopTimer(a) PROVE StopInv'
  BY <1>23 DEF StopTimer, Stops, Up, mainVars, mapVars, lockVars, threadVars,
     exitVars
<1>24. ASSUME NEW a \in Stoppers, NothingToKill(a) PROVE StopInv'
  BY <1>24 DEF NothingToKill, Stops, Up, ServiceOf, mainVars, mapVars,
     lockVars, threadVars, exitVars
<1>25. ASSUME NEW a \in Stoppers, Waited(a) PROVE StopInv'
  BY <1>25 DEF Waited, Stops, Up, ServiceOf, mainVars, mapVars, lockVars,
     threadVars, exitVars
<1>26. ASSUME NEW a \in Stoppers, TimedOut(a) PROVE StopInv'
  <2>1. /\ UNCHANGED <<mainVars, mapVars, start, waitGroup, watcher>>
        /\ stop[a] = "kill" /\ stop' = [stop EXCEPT ![a] = "clean"]
    BY <1>26 DEF TimedOut, Stops
  <2>2. process' = [process EXCEPT ![ServiceOf(a)] =
                      IF process[ServiceOf(a)] = "alive" THEN "killed"
                      ELSE process[ServiceOf(a)]]
    BY <1>26 DEF TimedOut
  <2>3. \A s \in Services : Dead(s) => Dead(s)'
    BY <2>2
  <2>4. ASSUME a = Handler PROVE Dead(target)'
    <3>1. target \in Services /\ target' = target
      BY <2>1, <2>4 DEF mainVars
    <3>2. target \in launched
      BY <1>26, <2>4, <3>1 DEF TimedOut, ServiceOf
    <3>3. process[target] # "none"
      BY <3>1, <3>2
    <3>4. process[target] \in {"alive", "exited", "killed", "immortal"}
      BY <3>1, <3>3
    <3>5. ServiceOf(a) = target
      BY <2>4 DEF ServiceOf
    <3> QED
      BY <2>2, <3>1, <3>4, <3>5
  <2> QED
    BY <2>1, <2>3, <2>4 DEF mainVars, mapVars
<1>27. ASSUME NEW a \in Stoppers, SigKillFails(a) PROVE StopInv'
  BY <1>27 DEF SigKillFails, Returns, Stops, Up, ServiceOf, mainVars, mapVars,
     lockVars, threadVars, exitVars
<1>28. ASSUME NEW a \in Stoppers, NothingToClean(a) PROVE StopInv'
  BY <1>28 DEF NothingToClean, Returns, Stops, Up, ServiceOf, mainVars,
     mapVars, lockVars, threadVars, exitVars
<1>29. ASSUME NEW a \in Stoppers, Clean(a) PROVE StopInv'
  BY <1>29 DEF Clean, Returns, Stops, Up, ServiceOf, CleanUp, Unlocked,
     mainVars, mapVars, lockVars, threadVars, exitVars
<1>30. CASE UNCHANGED vars
  BY <1>30 DEF vars, mainVars, mapVars, lockVars, threadVars, exitVars
<1> QED
  BY <1>1, <1>2, <1>3, <1>4, <1>5, <1>6, <1>7, <1>8, <1>9, <1>10, <1>11,
     <1>12, <1>13, <1>14, <1>15, <1>16, <1>17, <1>18, <1>19, <1>20, <1>21,
     <1>22, <1>23, <1>24, <1>25, <1>26, <1>27, <1>28, <1>29, <1>30 DEF Next,
     HandlerStep, StartStep, WatcherStep, StopStep, Stoppers

\* A token is taken when it is free, and given back by its holder.
LEMMA TokenPreserved ==
  ASSUME TypeOK, MainInv, TokenInv, Next \/ UNCHANGED vars
  PROVE  TokenInv'
<1> USE ShutdownAssumption DEF TypeOK, MainInv, TokenInv, TokensHeld, ServiceOf, Stoppers
<1>1. ASSUME Signal PROVE TokenInv'
  BY <1>1 DEF Signal, mainVars, mapVars, lockVars, threadVars, exitVars
<1>2. ASSUME TakeServiceMutex PROVE TokenInv'
  BY <1>2 DEF TakeServiceMutex, mainVars, mapVars, lockVars, threadVars,
     exitVars
<1>3. ASSUME StopNext PROVE TokenInv'
  BY <1>3 DEF StopNext, mainVars, mapVars, lockVars, threadVars, exitVars
<1>4. ASSUME OsExit PROVE TokenInv'
  BY <1>4 DEF OsExit, mainVars, mapVars, lockVars, threadVars, exitVars
<1>5. ASSUME NEW s \in Services, Register(s) PROVE TokenInv'
  BY <1>5 DEF Register, Starts, Up, Unlocked, mainVars, mapVars, lockVars,
     threadVars, exitVars
<1>6. ASSUME NEW s \in Services, Reserve(s) PROVE TokenInv'
  BY <1>6 DEF Reserve, Starts, Up, mainVars, mapVars, lockVars, threadVars,
     exitVars
<1>7. ASSUME NEW s \in Services, Refused(s) PROVE TokenInv'
  BY <1>7 DEF Refused, Starts, Up, mainVars, mapVars, lockVars, threadVars,
     exitVars
<1>8. ASSUME NEW s \in Services, Drop(s) PROVE TokenInv'
  BY <1>8 DEF Drop, Starts, Up, CleanUp, Unlocked, mainVars, mapVars,
     lockVars, threadVars, exitVars
<1>9. ASSUME NEW s \in Services, Launch(s) PROVE TokenInv'
  BY <1>9 DEF Launch, Starts, Up, mainVars, mapVars, lockVars, threadVars,
     exitVars
<1>10. ASSUME NEW s \in Services, LaunchFails(s) PROVE TokenInv'
  BY <1>10 DEF LaunchFails, Starts, Up, mainVars, mapVars, lockVars,
     threadVars, exitVars
<1>11. ASSUME NEW s \in Services, SetCmd(s) PROVE TokenInv'
  BY <1>11 DEF SetCmd, Starts, Up, Unlocked, mainVars, mapVars, lockVars,
     threadVars, exitVars
<1>12. ASSUME NEW s \in Services, ProbeOk(s) PROVE TokenInv'
  BY <1>12 DEF ProbeOk, Starts, Up, mainVars, mapVars, lockVars, threadVars,
     exitVars
<1>13. ASSUME NEW s \in Services, Ready(s) PROVE TokenInv'
  BY <1>13 DEF Ready, Starts, Up, Unlocked, mainVars, mapVars, lockVars,
     threadVars, exitVars
<1>14. ASSUME NEW s \in Services, ProbeFails(s) PROVE TokenInv'
  BY <1>14 DEF ProbeFails, Starts, Up, mainVars, mapVars, lockVars,
     threadVars, exitVars
<1>15. ASSUME NEW s \in Services, Lookup(s) PROVE TokenInv'
  BY <1>15 DEF Lookup, Stops, Up, mainVars, mapVars, lockVars, threadVars,
     exitVars
<1>16. ASSUME NEW s \in Services, Exit(s) PROVE TokenInv'
  BY <1>16 DEF Exit, Up, mainVars, mapVars, lockVars, threadVars, exitVars
<1>17. ASSUME NEW s \in Services, Reap(s) PROVE TokenInv'
  BY <1>17 DEF Reap, Watches, Up, mainVars, mapVars, lockVars, threadVars,
     exitVars
<1>18. ASSUME NEW s \in Services, WatcherTries(s) PROVE TokenInv'
  BY <1>18 DEF WatcherTries, Watches, Up, mainVars, mapVars, lockVars,
     threadVars, exitVars
<1>19. ASSUME NEW s \in Services, WatcherLocks(s) PROVE TokenInv'
  BY <1>19 DEF WatcherLocks, Watches, Up, WatcherCleansUp, CleanUp, Unlocked,
     mainVars, mapVars, lockVars, threadVars, exitVars
<1>20. ASSUME NEW a \in Callers, CallStop(a) PROVE TokenInv'
  BY <1>20 DEF CallStop, Stops, Up, Unlocked, mainVars, mapVars, lockVars,
     threadVars, exitVars
<1>21. ASSUME NEW a \in Stoppers, Manage(a) PROVE TokenInv'
  BY <1>21 DEF Manage, Stops, Up, ServiceOf, mainVars, mapVars, lockVars,
     threadVars, exitVars
<1>22. ASSUME NEW a \in Stoppers, Lock(a) PROVE TokenInv'
  BY <1>22 DEF Lock, Stops, Up, ServiceOf, mainVars, mapVars, lockVars,
     threadVars, exitVars
<1>23. ASSUME NEW a \in Stoppers, StopTimer(a) PROVE TokenInv'
  BY <1>23 DEF StopTimer, Stops, Up, mainVars, mapVars, lockVars, threadVars,
     exitVars
<1>24. ASSUME NEW a \in Stoppers, NothingToKill(a) PROVE TokenInv'
  BY <1>24 DEF NothingToKill, Stops, Up, ServiceOf, mainVars, mapVars,
     lockVars, threadVars, exitVars
<1>25. ASSUME NEW a \in Stoppers, Waited(a) PROVE TokenInv'
  BY <1>25 DEF Waited, Stops, Up, ServiceOf, mainVars, mapVars, lockVars,
     threadVars, exitVars
<1>26. ASSUME NEW a \in Stoppers, TimedOut(a) PROVE TokenInv'
  BY <1>26 DEF TimedOut, Stops, Up, ServiceOf, mainVars, mapVars, lockVars,
     threadVars, exitVars
<1>27. ASSUME NEW a \in Stoppers, SigKillFails(a) PROVE TokenInv'
  BY <1>27 DEF SigKillFails, Returns, Stops, Up, ServiceOf, mainVars, mapVars,
     lockVars, threadVars, exitVars
<1>28. ASSUME NEW a \in Stoppers, NothingToClean(a) PROVE TokenInv'
  BY <1>28 DEF NothingToClean, Returns, Stops, Up, ServiceOf, mainVars,
     mapVars, lockVars, threadVars, exitVars
<1>29. ASSUME NEW a \in Stoppers, Clean(a) PROVE TokenInv'
  BY <1>29 DEF Clean, Returns, Stops, Up, ServiceOf, CleanUp, Unlocked,
     mainVars, mapVars, lockVars, threadVars, exitVars
<1>30. CASE UNCHANGED vars
  BY <1>30 DEF vars, mainVars, mapVars, lockVars, threadVars, exitVars
<1> QED
  BY <1>1, <1>2, <1>3, <1>4, <1>5, <1>6, <1>7, <1>8, <1>9, <1>10, <1>11,
     <1>12, <1>13, <1>14, <1>15, <1>16, <1>17, <1>18, <1>19, <1>20, <1>21,
     <1>22, <1>23, <1>24, <1>25, <1>26, <1>27, <1>28, <1>29, <1>30 DEF Next,
     HandlerStep, StartStep, WatcherStep, StopStep, Stoppers

\* No step but those under serviceMutex changes what it guards.
LEMMA FrozenStep ==
  ASSUME Next \/ UNCHANGED vars
  PROVE  handler = "stop" => UNCHANGED mapVars
<1>1. ASSUME Signal PROVE handler = "stop" => UNCHANGED mapVars
  BY <1>1 DEF Signal, mainVars, mapVars, lockVars, threadVars, exitVars,
     Unlocked
<1>2. ASSUME TakeServiceMutex PROVE handler = "stop" => UNCHANGED mapVars
  BY <1>2 DEF TakeServiceMutex, mainVars, mapVars, lockVars, threadVars,
     exitVars, Unlocked
<1>3. ASSUME StopNext PROVE handler = "stop" => UNCHANGED mapVars
  BY <1>3 DEF StopNext, mainVars, mapVars, lockVars, threadVars, exitVars,
     Unlocked
<1>4. ASSUME OsExit PROVE handler = "stop" => UNCHANGED mapVars
  BY <1>4 DEF OsExit, mainVars, mapVars, lockVars, threadVars, exitVars,
     Unlocked
<1>5. ASSUME NEW s \in Services, Register(s) PROVE handler = "stop" =>
   UNCHANGED mapVars
  BY <1>5 DEF Register, Starts, Up, Unlocked, mainVars, mapVars, lockVars,
     threadVars, exitVars
<1>6. ASSUME NEW s \in Services, Reserve(s) PROVE handler = "stop" =>
   UNCHANGED mapVars
  BY <1>6 DEF Reserve, Starts, Up, mainVars, mapVars, lockVars, threadVars,
     exitVars, Unlocked
<1>7. ASSUME NEW s \in Services, Refused(s) PROVE handler = "stop" =>
   UNCHANGED mapVars
  BY <1>7 DEF Refused, Starts, Up, mainVars, mapVars, lockVars, threadVars,
     exitVars, Unlocked
<1>8. ASSUME NEW s \in Services, Drop(s) PROVE handler = "stop" => UNCHANGED
   mapVars
  BY <1>8 DEF Drop, Starts, Up, CleanUp, Unlocked, mainVars, mapVars,
     lockVars, threadVars, exitVars
<1>9. ASSUME NEW s \in Services, Launch(s) PROVE handler = "stop" => UNCHANGED
   mapVars
  BY <1>9 DEF Launch, Starts, Up, mainVars, mapVars, lockVars, threadVars,
     exitVars, Unlocked
<1>10. ASSUME NEW s \in Services, LaunchFails(s) PROVE handler = "stop" =>
   UNCHANGED mapVars
  BY <1>10 DEF LaunchFails, Starts, Up, mainVars, mapVars, lockVars,
     threadVars, exitVars, Unlocked
<1>11. ASSUME NEW s \in Services, SetCmd(s) PROVE handler = "stop" =>
   UNCHANGED mapVars
  BY <1>11 DEF SetCmd, Starts, Up, Unlocked, mainVars, mapVars, lockVars,
     threadVars, exitVars
<1>12. ASSUME NEW s \in Services, ProbeOk(s) PROVE handler = "stop" =>
   UNCHANGED mapVars
  BY <1>12 DEF ProbeOk, Starts, Up, mainVars, mapVars, lockVars, threadVars,
     exitVars, Unlocked
<1>13. ASSUME NEW s \in Services, Ready(s) PROVE handler = "stop" => UNCHANGED
   mapVars
  BY <1>13 DEF Ready, Starts, Up, Unlocked, mainVars, mapVars, lockVars,
     threadVars, exitVars
<1>14. ASSUME NEW s \in Services, ProbeFails(s) PROVE handler = "stop" =>
   UNCHANGED mapVars
  BY <1>14 DEF ProbeFails, Starts, Up, mainVars, mapVars, lockVars,
     threadVars, exitVars, Unlocked
<1>15. ASSUME NEW s \in Services, Lookup(s) PROVE handler = "stop" =>
   UNCHANGED mapVars
  BY <1>15 DEF Lookup, Stops, Up, mainVars, mapVars, lockVars, threadVars,
     exitVars, Unlocked
<1>16. ASSUME NEW s \in Services, Exit(s) PROVE handler = "stop" => UNCHANGED
   mapVars
  BY <1>16 DEF Exit, Up, mainVars, mapVars, lockVars, threadVars, exitVars,
     Unlocked
<1>17. ASSUME NEW s \in Services, Reap(s) PROVE handler = "stop" => UNCHANGED
   mapVars
  BY <1>17 DEF Reap, Watches, Up, mainVars, mapVars, lockVars, threadVars,
     exitVars, Unlocked
<1>18. ASSUME NEW s \in Services, WatcherTries(s) PROVE handler = "stop" =>
   UNCHANGED mapVars
  BY <1>18 DEF WatcherTries, Watches, Up, mainVars, mapVars, lockVars,
     threadVars, exitVars, Unlocked
<1>19. ASSUME NEW s \in Services, WatcherLocks(s) PROVE handler = "stop" =>
   UNCHANGED mapVars
  BY <1>19 DEF WatcherLocks, Watches, Up, WatcherCleansUp, CleanUp, Unlocked,
     mainVars, mapVars, lockVars, threadVars, exitVars
<1>20. ASSUME NEW a \in Callers, CallStop(a) PROVE handler = "stop" =>
   UNCHANGED mapVars
  BY <1>20 DEF CallStop, Stops, Up, Unlocked, mainVars, mapVars, lockVars,
     threadVars, exitVars
<1>21. ASSUME NEW a \in Stoppers, Manage(a) PROVE handler = "stop" =>
   UNCHANGED mapVars
  BY <1>21 DEF Manage, Stops, Up, ServiceOf, mainVars, mapVars, lockVars,
     threadVars, exitVars, Unlocked
<1>22. ASSUME NEW a \in Stoppers, Lock(a) PROVE handler = "stop" => UNCHANGED
   mapVars
  BY <1>22 DEF Lock, Stops, Up, ServiceOf, mainVars, mapVars, lockVars,
     threadVars, exitVars, Unlocked
<1>23. ASSUME NEW a \in Stoppers, StopTimer(a) PROVE handler = "stop" =>
   UNCHANGED mapVars
  BY <1>23 DEF StopTimer, Stops, Up, mainVars, mapVars, lockVars, threadVars,
     exitVars, Unlocked
<1>24. ASSUME NEW a \in Stoppers, NothingToKill(a) PROVE handler = "stop" =>
   UNCHANGED mapVars
  BY <1>24 DEF NothingToKill, Stops, Up, ServiceOf, mainVars, mapVars,
     lockVars, threadVars, exitVars, Unlocked
<1>25. ASSUME NEW a \in Stoppers, Waited(a) PROVE handler = "stop" =>
   UNCHANGED mapVars
  BY <1>25 DEF Waited, Stops, Up, ServiceOf, mainVars, mapVars, lockVars,
     threadVars, exitVars, Unlocked
<1>26. ASSUME NEW a \in Stoppers, TimedOut(a) PROVE handler = "stop" =>
   UNCHANGED mapVars
  BY <1>26 DEF TimedOut, Stops, Up, ServiceOf, mainVars, mapVars, lockVars,
     threadVars, exitVars, Unlocked
<1>27. ASSUME NEW a \in Stoppers, SigKillFails(a) PROVE handler = "stop" =>
   UNCHANGED mapVars
  BY <1>27 DEF SigKillFails, Returns, Stops, Up, ServiceOf, mainVars, mapVars,
     lockVars, threadVars, exitVars, Unlocked
<1>28. ASSUME NEW a \in Stoppers, NothingToClean(a) PROVE handler = "stop" =>
   UNCHANGED mapVars
  BY <1>28 DEF NothingToClean, Returns, Stops, Up, ServiceOf, mainVars,
     mapVars, lockVars, threadVars, exitVars, Unlocked
<1>29. ASSUME NEW a \in Stoppers, Clean(a) PROVE handler = "stop" => UNCHANGED
   mapVars
  BY <1>29 DEF Clean, Returns, Stops, Up, ServiceOf, CleanUp, Unlocked,
     mainVars, mapVars, lockVars, threadVars, exitVars
<1>30. CASE UNCHANGED vars
  BY <1>30 DEF vars, mainVars, mapVars, lockVars, threadVars, exitVars,
     Unlocked
<1> QED
  BY <1>1, <1>2, <1>3, <1>4, <1>5, <1>6, <1>7, <1>8, <1>9, <1>10, <1>11,
     <1>12, <1>13, <1>14, <1>15, <1>16, <1>17, <1>18, <1>19, <1>20, <1>21,
     <1>22, <1>23, <1>24, <1>25, <1>26, <1>27, <1>28, <1>29, <1>30 DEF Next,
     HandlerStep, StartStep, WatcherStep, StopStep, Stoppers

-----------------------------------------------------------------------------
LEMMA IInvInit ==
  ASSUME Init
  PROVE  IInv
BY ShutdownAssumption DEF Init, IInv, TypeOK, MainInv, LaunchInv, StopInv,
   TokenInv, TokensHeld, Dead, Stoppers

\* The invariant holds of every reachable state: the types, what main has been
\* through, how a process is launched, whom main has stopped, who holds a token.
THEOREM InductiveInvariant == Spec => []IInv
<1>1. Init => IInv
  BY IInvInit
<1>2. IInv /\ [Next]_vars => IInv'
  BY TypePreserved, MainPreserved, LaunchPreserved, StopPreserved, TokenPreserved
  DEF IInv
<1> QED
  BY <1>1, <1>2, PTL DEF Spec

\* Every variable keeps its type; main stops a service only with serviceMutex
\* taken.
THEOREM TypeCorrect == Spec => []TypeOK
<1>1. IInv => TypeOK
  BY DEF IInv
<1> QED
  BY <1>1, InductiveInvariant, PTL

\* Whoever is going to unlock a manageMutex holds its token, alone, however many
\* goroutines stop the same instance and whatever main does meanwhile.
THEOREM TokensAreHeld == Spec => []TokensHeld
<1>1. IInv => TokensHeld
  BY DEF IInv, TokenInv
<1> QED
  BY <1>1, InductiveInvariant, PTL

\* From the moment main has serviceMutex, the map and what hangs on it is
\* frozen.
THEOREM MapIsFrozen == Spec => MapFrozen
<1>1. [Next]_vars => [handler = "stop" => UNCHANGED mapVars]_vars
  BY FrozenStep
<1> QED
  BY <1>1, PTL DEF Spec, MapFrozen

\* When the program exits, every process that main could know of is dead.
THEOREM StopsWhatItSaw == Spec => []StoppedAtExit
<1>1. IInv => StoppedAtExit
  BY ShutdownAssumption DEF IInv, TypeOK, MainInv, StopInv, Dead, StoppedAtExit
<1> QED
  BY <1>1, InductiveInvariant, PTL
=============================================================================
