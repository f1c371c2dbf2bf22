------------------------- MODULE ServiceManagerSteps -------------------------
(***************************************************************************)
(* Each part of ControlInv is kept by every step of ServiceManager: one    *)
(* lemma per part, one proof step per action.                              *)
(***************************************************************************)
EXTENDS ServiceManagerInvariant, FiniteSetTheorems, TLAPS

\* What CleanUp assigns has its type.
CleanUpTypes(i) ==
    /\ status' \in [Instances -> {"unborn", "live", "released"}]
    /\ timer' \in [Instances -> {"nil", "armed", "spent"}]
    /\ inUse' \in [Resources -> Int]
    /\ running' \in [Services -> Instances \cup {None}]
    /\ chan' \in [Resources -> [Services -> {"none", "empty", "full"}]]

\* A cleanup assigns values of the right types.
LEMMA CleanUpType ==
  ASSUME TypeInv, NEW i \in Instances, CleanUp(i)
  PROVE  CleanUpTypes(i)
<1> USE ConfigAssumption DEF TypeInv, Instances, CleanUpTypes
<1>1. CASE status[i] = "released"
  BY <1>1 DEF CleanUp
<1>2. CASE status[i] # "released"
  <2>1. Release(i)
    BY <1>2 DEF CleanUp
  <2>2. Target[i] \in Services
    OBVIOUS
  <2>3. Minus(inUse, Target[i]) \in [Resources -> Int]
    BY <2>2 DEF Minus
  <2> QED
    BY <2>1, <2>2, <2>3 DEF Release, Broadcast
<1> QED
  BY <1>1, <1>2

\* Every step keeps the types.
LEMMA TypePreserved ==
  ASSUME TypeInv, LocalsInv, Next
  PROVE  TypeInv'
<1> USE ThreadsAssumption, ConfigAssumption, NoneAssumption
<1> USE DEF TypeInv, LocalsInv, Threads, Instances, ConnectionPlaces, TimerPlaces,
            StopCall, Starting
<1>1. ASSUME NEW c \in Connections, Accept(c) PROVE TypeInv'
  BY <1>1 DEF Accept, Move, Goto, instanceVars, resourceVars
<1>2. ASSUME NEW c \in Connections, Lookup(c) PROVE TypeInv'
  BY <1>2 DEF Lookup, Move, Goto, instanceVars, resourceVars, counterVars
<1>3. ASSUME NEW c \in Connections, TryLock(c) PROVE TypeInv'
  <2>1. CASE Move(c, "trylock", "track") /\ Hold(ptr[c], c)
    BY <1>3, <2>1 DEF TryLock, Move, Goto, Hold, resourceVars, counterVars
  <2>2. CASE Move(c, "trylock", "queued") /\ UNCHANGED manage
    BY <1>3, <2>2 DEF TryLock, Move, Goto, Hold, resourceVars, counterVars
  <2> QED
    BY <1>3, <2>1, <2>2 DEF TryLock
<1>4. ASSUME NEW c \in Connections, LockQueued(c) PROVE TypeInv'
  BY <1>4 DEF LockQueued, Move, Goto, Hold, resourceVars, counterVars
<1>5. ASSUME NEW c \in Connections, CancelQueued(c) PROVE TypeInv'
  BY <1>5 DEF CancelQueued, Move, Goto, instanceVars, resourceVars,
       counterVars
<1>6. ASSUME NEW c \in Connections, Requeue(c) PROVE TypeInv'
  BY <1>6 DEF Requeue, Move, Goto, Unlock, resourceVars, counterVars
<1>7. ASSUME NEW c \in Connections, Track(c) PROVE TypeInv'
  BY <1>7 DEF Track, Move, Goto, Unlock, Touch, resourceVars, counterVars
<1>8. ASSUME NEW c \in Connections, DialOk(c) PROVE TypeInv'
  BY <1>8 DEF DialOk, Move, Goto, instanceVars, resourceVars, counterVars
<1>9. ASSUME NEW c \in Connections, DialFail(c) PROVE TypeInv'
  BY <1>9 DEF DialFail, Move, Goto, instanceVars, resourceVars, counterVars
<1>10. ASSUME NEW c \in Connections, Restart(c) PROVE TypeInv'
  <2>1. CASE Goto(c, "register") /\ UNCHANGED <<ptr, stopping, then>>
    BY <1>10, <2>1 DEF Restart, CallStop, Goto, instanceVars, resourceVars,
         counterVars
  <2>2. CASE CallStop(c, Target[c], "register")
    BY <1>10, <2>2 DEF Restart, CallStop, Goto, instanceVars, resourceVars,
         counterVars
  <2> QED
    BY <1>10, <2>1, <2>2 DEF Restart
<1>11. ASSUME NEW c \in Connections, Register(c) PROVE TypeInv'
  <2>1. CASE running[Target[c]] = None
    <3>1. /\ pc' = [pc EXCEPT ![c] = "reserve"]
          /\ running' = [running EXCEPT ![Target[c]] = c]
          /\ status' = [status EXCEPT ![c] = "live"]
          /\ manage' = [manage EXCEPT ![c] = c]
      BY <1>11, <2>1 DEF Register, Move, Goto, Hold
    <3> QED
      BY <1>11, <3>1 DEF Register, resourceVars, counterVars
  <2>2. CASE running[Target[c]] # None
    BY <1>11, <2>2 DEF Register, Move, Goto, Hold, resourceVars,
         counterVars
  <2> QED
    BY <1>11, <2>1, <2>2 DEF Register
<1>12. ASSUME NEW c \in Connections, ReserveOk(c) PROVE TypeInv'
  BY <1>12 DEF ReserveOk, Move, Goto, Plus, Needs, instanceVars, counterVars
<1>13. ASSUME NEW c \in Connections, ReserveMissing(c) PROVE TypeInv'
  BY <1>13 DEF ReserveMissing, Move, Goto, Short, Needs, instanceVars,
       resourceVars, counterVars
<1>14. ASSUME NEW c \in Connections, PickVictim(c) PROVE TypeInv'
  <2>1. CASE Goto(c, "park") /\ UNCHANGED <<ptr, stopping, then>>
    BY <1>14, <2>1 DEF PickVictim, CallStop, Goto, instanceVars, resourceVars,
         counterVars
  <2>2. CASE \E s \in Services : CallStop(c, s, "reserve")
    BY <1>14, <2>2 DEF PickVictim, CallStop, Goto, instanceVars, resourceVars,
         counterVars
  <2> QED
    BY <1>14, <2>1, <2>2 DEF PickVictim, Victims
<1>15. ASSUME NEW c \in Connections, Park(c) PROVE TypeInv'
  BY <1>15 DEF Park, Move, Goto, instanceVars, counterVars
<1>16. ASSUME NEW c \in Connections, Wake(c) PROVE TypeInv'
  BY <1>16 DEF Wake, Move, Goto, Unpark, instanceVars, counterVars
<1>17. ASSUME NEW c \in Connections, GiveUp(c) PROVE TypeInv'
  BY <1>17 DEF GiveUp, Move, Goto, Unpark, instanceVars, counterVars
<1>18. ASSUME NEW c \in Connections, Refused(c) PROVE TypeInv'
  <2>1. CleanUpTypes(c)
    BY <1>18, CleanUpType DEF Refused
  <2> QED
    BY <1>18, <2>1 DEF Refused, Move, Goto, Unlock, CleanUpTypes, counterVars
<1>19. ASSUME NEW c \in Connections, FlagReserved(c) PROVE TypeInv'
  BY <1>19 DEF FlagReserved, Move, Goto, resourceVars, counterVars
<1>20. ASSUME NEW c \in Connections, LaunchFail(c) PROVE TypeInv'
  <2>1. CleanUpTypes(c)
    BY <1>20, CleanUpType DEF LaunchFail
  <2>2. Minus(reserved, Target[c]) \in [Resources -> Int]
    BY DEF Minus
  <2> QED
    BY <1>20, <2>1, <2>2 DEF LaunchFail, Move, Goto, Unlock, CleanUpTypes,
       counterVars
<1>21. ASSUME NEW c \in Connections, LaunchOk(c) PROVE TypeInv'
  BY <1>21 DEF LaunchOk, Move, Goto, resourceVars, counterVars
<1>22. ASSUME NEW c \in Connections, ProbeOk(c) PROVE TypeInv'
  BY <1>22 DEF ProbeOk, Move, Goto, instanceVars, resourceVars, counterVars
<1>23. ASSUME NEW c \in Connections, ProbeFail(c) PROVE TypeInv'
  BY <1>23 DEF ProbeFail, Goto, Unlock, CallStop, resourceVars, counterVars
<1>24. ASSUME NEW c \in Connections, Unreserve(c) PROVE TypeInv'
  BY <1>24 DEF Unreserve, Move, Goto, Minus, instanceVars, counterVars
<1>25. ASSUME NEW c \in Connections, Ready(c) PROVE TypeInv'
  BY <1>25 DEF Ready, Move, Goto, Unlock, Minus, counterVars
<1>26. ASSUME NEW c \in Connections, Attach(c) PROVE TypeInv'
  BY <1>26 DEF Attach, Move, Goto, Touch, resourceVars, counterVars
<1>27. ASSUME NEW c \in Connections, Count(c) PROVE TypeInv'
  BY <1>27 DEF Count, Move, Goto, Decrement, instanceVars, resourceVars
<1>28. ASSUME NEW c \in Connections, EndProxy(c) PROVE TypeInv'
  BY <1>28 DEF EndProxy, Move, Goto, Touch, resourceVars, counterVars
<1>29. ASSUME NEW c \in Connections, Uncount(c) PROVE TypeInv'
  BY <1>29 DEF Uncount, Goto, Decrement, AfterDecrement, instanceVars,
       resourceVars
<1>30. ASSUME NEW c \in Connections, Fail(c) PROVE TypeInv'
  BY <1>30 DEF Fail, Goto, Decrement, AfterDecrement, instanceVars,
       resourceVars
<1>31. ASSUME NEW c \in Connections, Notify(c) PROVE TypeInv'
  BY <1>31 DEF Notify, Move, Goto, Broadcast, Needs, instanceVars, counterVars
<1>32. ASSUME NEW t \in Threads, StopLookup(t) PROVE TypeInv'
  <2>1. CASE ReturnFromStop(t)
    BY <1>32, <2>1 DEF StopLookup, ReturnFromStop, Goto, instanceVars,
         resourceVars, counterVars
  <2>2. CASE /\ running[stopping[t]] # None
            /\ Goto(t, "stopLock")
            /\ ptr' = [ptr EXCEPT ![t] = running[stopping[t]]]
            /\ UNCHANGED <<stopping, then>>
    BY <1>32, <2>2 DEF StopLookup, ReturnFromStop, Goto, instanceVars,
         resourceVars, counterVars
  <2> QED
    BY <1>32, <2>1, <2>2 DEF StopLookup
<1>33. ASSUME NEW t \in Threads, StopLock(t) PROVE TypeInv'
  BY <1>33 DEF StopLock, Move, Goto, Hold, resourceVars, counterVars
<1>34. ASSUME NEW t \in Threads, StopFinish(t) PROVE TypeInv'
  <2>1. ptr[t] \in Instances
    BY <1>34 DEF StopFinish
  <2>2. CleanUpTypes(ptr[t])
    BY <1>34, <2>1, CleanUpType DEF StopFinish
  <2> QED
    BY <1>34, <2>1, <2>2 DEF StopFinish, Goto, Unlock, ReturnFromStop, CleanUpTypes,
       counterVars
<1>35. ASSUME NEW t \in Threads, StopKill(t) PROVE TypeInv'
  BY <1>35 DEF StopKill, Move, Goto, resourceVars, counterVars
<1>36. ASSUME NEW t \in Threads, StopAbandon(t) PROVE TypeInv'
  BY <1>36 DEF StopAbandon, Goto, Unlock, ReturnFromStop, resourceVars,
       counterVars
<1>37. ASSUME NEW t \in Timers, IdleDrop(t) PROVE TypeInv'
  BY <1>37 DEF IdleDrop, Move, Goto, instanceVars, resourceVars, counterVars
<1>38. ASSUME NEW t \in Timers, IdleRearm(t) PROVE TypeInv'
  BY <1>38 DEF IdleRearm, Move, Goto, resourceVars, counterVars
<1>39. ASSUME NEW t \in Timers, IdleStop(t) PROVE TypeInv'
  BY <1>39 DEF IdleStop, Goto, CallStop, instanceVars, resourceVars,
       counterVars
<1>40. ASSUME NEW t \in Timers, NEW i \in Instances, TimerFire(t, i) PROVE TypeInv'
  BY <1>40 DEF TimerFire, Move, Goto, resourceVars, counterVars
<1>41. ASSUME NEW i \in Instances, Exit(i) PROVE TypeInv'
  BY <1>41 DEF Exit, threadVars, resourceVars, counterVars
<1>42. ASSUME NEW i \in Instances, MonitorClean(i) PROVE TypeInv'
  <2>1. CleanUpTypes(i)
    BY <1>42, CleanUpType DEF MonitorClean, CleanUpTypes
  <2> QED
    BY <1>42, <2>1 DEF MonitorClean, CleanUpTypes, threadVars, counterVars
<1> QED
  BY <1>1, <1>2, <1>3, <1>4, <1>5, <1>6, <1>7, <1>8, <1>9, <1>10, <1>11, <1>12,
     <1>13, <1>14, <1>15, <1>16, <1>17, <1>18, <1>19, <1>20, <1>21, <1>22,
     <1>23, <1>24, <1>25, <1>26, <1>27, <1>28, <1>29, <1>30, <1>31, <1>32,
     <1>33, <1>34, <1>35, <1>36, <1>37, <1>38, <1>39, <1>40, <1>41, <1>42
  DEF Next, ClientStep, ProgramStep, StopStep, IdleStep
-----------------------------------------------------------------------------
\* A call of stopService and the return from one leave the locals in order.
LEMMA CallStopLocals ==
  ASSUME TypeInv, LocalsInv, NEW t \in Threads, NEW s \in Services,
         NEW p \in {"reserve", "register", "unreserve", "off"},
         CallStop(t, s, p), UNCHANGED missing
  PROVE  LocalsInv'
<1> USE NoneAssumption DEF TypeInv, LocalsInv, Threads, Instances, StopCall
<1>1. /\ pc'[t] = "stopLookup" /\ stopping'[t] # None /\ then'[t] # "none"
      /\ \A u \in Threads \ {t} :
            /\ pc'[u] = pc[u] /\ ptr'[u] = ptr[u]
            /\ stopping'[u] = stopping[u] /\ then'[u] = then[u]
  BY DEF CallStop, Goto
<1> QED
  BY <1>1

\* The return from stopService takes the locals of a call away.
LEMMA ReturnLocals ==
  ASSUME TypeInv, LocalsInv, NEW t \in Threads, pc[t] \in StopCall,
         ReturnFromStop(t), UNCHANGED missing
  PROVE  LocalsInv'
<1>1. then[t] \in {"reserve", "register", "unreserve", "off"}
  BY DEF TypeInv, LocalsInv
<1> QED
  BY <1>1, NoneAssumption
     DEF TypeInv, LocalsInv, Threads, Instances, StopCall, ReturnFromStop, Goto

\* Every step leaves each goroutine the locals its place uses.
LEMMA LocalsPreserved ==
  ASSUME TypeInv, LocalsInv, Next
  PROVE  LocalsInv'
<1> USE ThreadsAssumption, ConfigAssumption, NoneAssumption
<1> USE DEF TypeInv, LocalsInv, Threads, Instances, StopCall, Starting
<1>1. ASSUME NEW c \in Connections, Accept(c) PROVE LocalsInv'
  BY <1>1 DEF Accept, Move, Goto, instanceVars, resourceVars
<1>2. ASSUME NEW c \in Connections, Lookup(c) PROVE LocalsInv'
  BY <1>2 DEF Lookup, Move, Goto, instanceVars, resourceVars, counterVars
<1>3. ASSUME NEW c \in Connections, TryLock(c) PROVE LocalsInv'
  BY <1>3 DEF TryLock, Move, Goto, Hold, resourceVars, counterVars
<1>4. ASSUME NEW c \in Connections, LockQueued(c) PROVE LocalsInv'
  BY <1>4 DEF LockQueued, Move, Goto, Hold, resourceVars, counterVars
<1>5. ASSUME NEW c \in Connections, CancelQueued(c) PROVE LocalsInv'
  BY <1>5 DEF CancelQueued, Move, Goto, instanceVars, resourceVars,
       counterVars
<1>6. ASSUME NEW c \in Connections, Requeue(c) PROVE LocalsInv'
  BY <1>6 DEF Requeue, Move, Goto, Unlock, resourceVars, counterVars
<1>7. ASSUME NEW c \in Connections, Track(c) PROVE LocalsInv'
  BY <1>7 DEF Track, Move, Goto, Unlock, Touch, resourceVars, counterVars
<1>8. ASSUME NEW c \in Connections, DialOk(c) PROVE LocalsInv'
  BY <1>8 DEF DialOk, Move, Goto, instanceVars, resourceVars, counterVars
<1>9. ASSUME NEW c \in Connections, DialFail(c) PROVE LocalsInv'
  BY <1>9 DEF DialFail, Move, Goto, instanceVars, resourceVars, counterVars
<1>10. ASSUME NEW c \in Connections, Restart(c) PROVE LocalsInv'
  <2>1. CASE CallStop(c, Target[c], "register")
    BY <1>10, <2>1, CallStopLocals DEF Restart
  <2>2. CASE Goto(c, "register") /\ UNCHANGED <<ptr, stopping, then>>
    BY <1>10, <2>2 DEF Restart, Goto
  <2> QED
    BY <1>10, <2>1, <2>2 DEF Restart
<1>11. ASSUME NEW c \in Connections, Register(c) PROVE LocalsInv'
  <2>1. CASE pc' = [pc EXCEPT ![c] = "reserve"]
    BY <1>11, <2>1 DEF Register
  <2>2. CASE pc' = [pc EXCEPT ![c] = "fail"]
    BY <1>11, <2>2 DEF Register
  <2> QED
    BY <1>11, <2>1, <2>2 DEF Register, Move, Goto
<1>12. ASSUME NEW c \in Connections, ReserveOk(c) PROVE LocalsInv'
  BY <1>12 DEF ReserveOk, Move, Goto, Needs, instanceVars, counterVars
<1>13. ASSUME NEW c \in Connections, ReserveMissing(c) PROVE LocalsInv'
  <2>1. PICK r \in Short(Target[c]) : missing' = [missing EXCEPT ![c] = r]
    BY <1>13 DEF ReserveMissing
  <2>2. r \in Resources
    BY DEF Short, Needs
  <2> QED
    BY <1>13, <2>1, <2>2 DEF ReserveMissing, Move, Goto
<1>14. ASSUME NEW c \in Connections, PickVictim(c) PROVE LocalsInv'
  <2>1. ASSUME NEW s \in Victims(c), CallStop(c, s, "reserve") PROVE LocalsInv'
    <3>1. s \in Services
      BY DEF Victims
    <3> QED
      BY <1>14, <2>1, <3>1, CallStopLocals DEF PickVictim
  <2>2. CASE Goto(c, "park") /\ UNCHANGED <<ptr, stopping, then>>
    BY <1>14, <2>2 DEF PickVictim, Goto
  <2> QED
    BY <1>14, <2>1, <2>2 DEF PickVictim
<1>15. ASSUME NEW c \in Connections, Park(c) PROVE LocalsInv'
  BY <1>15 DEF Park, Move, Goto, instanceVars, counterVars
<1>16. ASSUME NEW c \in Connections, Wake(c) PROVE LocalsInv'
  BY <1>16 DEF Wake, Move, Goto, Unpark, instanceVars, counterVars
<1>17. ASSUME NEW c \in Connections, GiveUp(c) PROVE LocalsInv'
  BY <1>17 DEF GiveUp, Move, Goto, Unpark, instanceVars, counterVars
<1>18. ASSUME NEW c \in Connections, Refused(c) PROVE LocalsInv'
  BY <1>18 DEF Refused, Move, Goto, Unlock, CleanUp, Release, Needs,
       counterVars
<1>19. ASSUME NEW c \in Connections, FlagReserved(c) PROVE LocalsInv'
  BY <1>19 DEF FlagReserved, Move, Goto, resourceVars, counterVars
<1>20. ASSUME NEW c \in Connections, LaunchFail(c) PROVE LocalsInv'
  BY <1>20 DEF LaunchFail, Move, Goto, Unlock, CleanUp, Release, Needs,
       counterVars
<1>21. ASSUME NEW c \in Connections, LaunchOk(c) PROVE LocalsInv'
  BY <1>21 DEF LaunchOk, Move, Goto, resourceVars, counterVars
<1>22. ASSUME NEW c \in Connections, ProbeOk(c) PROVE LocalsInv'
  BY <1>22 DEF ProbeOk, Move, Goto, instanceVars, resourceVars, counterVars
<1>23. ASSUME NEW c \in Connections, ProbeFail(c) PROVE LocalsInv'
  BY <1>23, CallStopLocals DEF ProbeFail
<1>24. ASSUME NEW c \in Connections, Unreserve(c) PROVE LocalsInv'
  BY <1>24 DEF Unreserve, Move, Goto, instanceVars, counterVars
<1>25. ASSUME NEW c \in Connections, Ready(c) PROVE LocalsInv'
  BY <1>25 DEF Ready, Move, Goto, Unlock, counterVars
<1>26. ASSUME NEW c \in Connections, Attach(c) PROVE LocalsInv'
  BY <1>26 DEF Attach, Move, Goto, Touch, resourceVars, counterVars
<1>27. ASSUME NEW c \in Connections, Count(c) PROVE LocalsInv'
  BY <1>27 DEF Count, Move, Goto, instanceVars, resourceVars
<1>28. ASSUME NEW c \in Connections, EndProxy(c) PROVE LocalsInv'
  BY <1>28 DEF EndProxy, Move, Goto, Touch, resourceVars, counterVars
<1>29. ASSUME NEW c \in Connections, Uncount(c) PROVE LocalsInv'
  BY <1>29 DEF Uncount, Goto, AfterDecrement, instanceVars, resourceVars
<1>30. ASSUME NEW c \in Connections, Fail(c) PROVE LocalsInv'
  BY <1>30 DEF Fail, Goto, AfterDecrement, instanceVars, resourceVars
<1>31. ASSUME NEW c \in Connections, Notify(c) PROVE LocalsInv'
  BY <1>31 DEF Notify, Move, Goto, Needs, instanceVars, counterVars
<1>32. ASSUME NEW t \in Threads, StopLookup(t) PROVE LocalsInv'
  <2>1. CASE ReturnFromStop(t)
    BY <1>32, <2>1, ReturnLocals DEF StopLookup
  <2>2. CASE /\ running[stopping[t]] # None
             /\ Goto(t, "stopLock")
             /\ ptr' = [ptr EXCEPT ![t] = running[stopping[t]]]
             /\ UNCHANGED <<stopping, then>>
    BY <1>32, <2>2 DEF StopLookup, Goto
  <2> QED
    BY <1>32, <2>1, <2>2 DEF StopLookup
<1>33. ASSUME NEW t \in Threads, StopLock(t) PROVE LocalsInv'
  BY <1>33 DEF StopLock, Move, Goto, Hold, resourceVars, counterVars
<1>34. ASSUME NEW t \in Threads, StopFinish(t) PROVE LocalsInv'
  BY <1>34, ReturnLocals DEF StopFinish
<1>35. ASSUME NEW t \in Threads, StopKill(t) PROVE LocalsInv'
  BY <1>35 DEF StopKill, Move, Goto, resourceVars, counterVars
<1>36. ASSUME NEW t \in Threads, StopAbandon(t) PROVE LocalsInv'
  BY <1>36, ReturnLocals DEF StopAbandon
<1>37. ASSUME NEW t \in Timers, IdleDrop(t) PROVE LocalsInv'
  BY <1>37 DEF IdleDrop, Move, Goto, instanceVars, resourceVars, counterVars
<1>38. ASSUME NEW t \in Timers, IdleRearm(t) PROVE LocalsInv'
  BY <1>38 DEF IdleRearm, Move, Goto, resourceVars, counterVars
<1>39. ASSUME NEW t \in Timers, IdleStop(t) PROVE LocalsInv'
  <2>1. Target[ptr[t]] \in Services
    BY <1>39 DEF IdleStop
  <2> QED
    BY <1>39, <2>1, CallStopLocals DEF IdleStop
<1>40. ASSUME NEW t \in Timers, NEW i \in Instances, TimerFire(t, i) PROVE LocalsInv'
  BY <1>40 DEF TimerFire, Move, Goto, resourceVars, counterVars
<1>41. ASSUME NEW i \in Instances, Exit(i) PROVE LocalsInv'
  BY <1>41 DEF Exit, threadVars, resourceVars, counterVars
<1>42. ASSUME NEW i \in Instances, MonitorClean(i) PROVE LocalsInv'
  BY <1>42 DEF MonitorClean, CleanUp, Release, Needs, threadVars, counterVars
<1> QED
  BY <1>1, <1>2, <1>3, <1>4, <1>5, <1>6, <1>7, <1>8, <1>9, <1>10, <1>11, <1>12,
     <1>13, <1>14, <1>15, <1>16, <1>17, <1>18, <1>19, <1>20, <1>21, <1>22,
     <1>23, <1>24, <1>25, <1>26, <1>27, <1>28, <1>29, <1>30, <1>31, <1>32,
     <1>33, <1>34, <1>35, <1>36, <1>37, <1>38, <1>39, <1>40, <1>41, <1>42
  DEF Next, ClientStep, ProgramStep, StopStep, IdleStep
\* Releasing an instance keeps the registry in order.
LEMMA CleanUpRegistry ==
  ASSUME TypeInv, RegistryInv, NEW i \in Instances, CleanUp(i)
  PROVE  RegistryInv'
<1> USE ConfigAssumption, NoneAssumption
    DEF TypeInv, RegistryInv, LiveIsRegistered, Instances
<1>1. CASE status[i] = "released"
  BY <1>1 DEF CleanUp
<1>2. CASE status[i] # "released"
  <2>1. /\ status' = [status EXCEPT ![i] = "released"]
        /\ running' = IF running[Target[i]] = i
                      THEN [running EXCEPT ![Target[i]] = None] ELSE running
    BY <1>2 DEF CleanUp, Release
  <2> QED
    BY <2>1
<1> QED
  BY <1>1, <1>2

\* Every step keeps the registry in order.
LEMMA RegistryPreserved ==
  ASSUME TypeInv, LocalsInv, RegistryInv, Next
  PROVE  RegistryInv'
<1> USE ThreadsAssumption, ConfigAssumption, NoneAssumption
<1> USE DEF TypeInv, LocalsInv, RegistryInv, LiveIsRegistered, Threads,
            Instances
<1>1. ASSUME NEW c \in Connections, Accept(c) PROVE RegistryInv'
  BY <1>1 DEF Accept, Move, Goto, instanceVars, resourceVars
<1>2. ASSUME NEW c \in Connections, Lookup(c) PROVE RegistryInv'
  BY <1>2 DEF Lookup, Move, Goto, instanceVars, resourceVars, counterVars
<1>3. ASSUME NEW c \in Connections, TryLock(c) PROVE RegistryInv'
  BY <1>3 DEF TryLock, Move, Goto, Hold, resourceVars, counterVars
<1>4. ASSUME NEW c \in Connections, LockQueued(c) PROVE RegistryInv'
  BY <1>4 DEF LockQueued, Move, Goto, Hold, resourceVars, counterVars
<1>5. ASSUME NEW c \in Connections, CancelQueued(c) PROVE RegistryInv'
  BY <1>5 DEF CancelQueued, Move, Goto, instanceVars, resourceVars,
       counterVars
<1>6. ASSUME NEW c \in Connections, Requeue(c) PROVE RegistryInv'
  BY <1>6 DEF Requeue, Move, Goto, Unlock, resourceVars, counterVars
<1>7. ASSUME NEW c \in Connections, Track(c) PROVE RegistryInv'
  BY <1>7 DEF Track, Move, Goto, Unlock, Touch, resourceVars, counterVars
<1>8. ASSUME NEW c \in Connections, DialOk(c) PROVE RegistryInv'
  BY <1>8 DEF DialOk, Move, Goto, instanceVars, resourceVars, counterVars
<1>9. ASSUME NEW c \in Connections, DialFail(c) PROVE RegistryInv'
  BY <1>9 DEF DialFail, Move, Goto, instanceVars, resourceVars, counterVars
<1>10. ASSUME NEW c \in Connections, Restart(c) PROVE RegistryInv'
  BY <1>10 DEF Restart, Goto, CallStop, instanceVars, resourceVars,
       counterVars
<1>11. ASSUME NEW c \in Connections, Register(c) PROVE RegistryInv'
  <2>1. CASE running[Target[c]] = None
    <3>1. /\ running' = [running EXCEPT ![Target[c]] = c]
          /\ status' = [status EXCEPT ![c] = "live"]
      BY <1>11, <2>1 DEF Register
    <3> QED
      BY <2>1, <3>1
  <2>2. CASE running[Target[c]] # None
    BY <1>11, <2>2 DEF Register
  <2> QED
    BY <1>11, <2>1, <2>2 DEF Register
<1>12. ASSUME NEW c \in Connections, ReserveOk(c) PROVE RegistryInv'
  BY <1>12 DEF ReserveOk, Move, Goto, Needs, instanceVars, counterVars
<1>13. ASSUME NEW c \in Connections, ReserveMissing(c) PROVE RegistryInv'
  BY <1>13 DEF ReserveMissing, Move, Goto, Needs, instanceVars, resourceVars,
       counterVars
<1>14. ASSUME NEW c \in Connections, PickVictim(c) PROVE RegistryInv'
  BY <1>14 DEF PickVictim, Goto, CallStop, Needs, instanceVars, resourceVars,
       counterVars
<1>15. ASSUME NEW c \in Connections, Park(c) PROVE RegistryInv'
  BY <1>15 DEF Park, Move, Goto, instanceVars, counterVars
<1>16. ASSUME NEW c \in Connections, Wake(c) PROVE RegistryInv'
  BY <1>16 DEF Wake, Move, Goto, Unpark, instanceVars, counterVars
<1>17. ASSUME NEW c \in Connections, GiveUp(c) PROVE RegistryInv'
  BY <1>17 DEF GiveUp, Move, Goto, Unpark, instanceVars, counterVars
<1>18. ASSUME NEW c \in Connections, Refused(c) PROVE RegistryInv'
  BY <1>18, CleanUpRegistry DEF Refused
<1>19. ASSUME NEW c \in Connections, FlagReserved(c) PROVE RegistryInv'
  BY <1>19 DEF FlagReserved, Move, Goto, resourceVars, counterVars
<1>20. ASSUME NEW c \in Connections, LaunchFail(c) PROVE RegistryInv'
  BY <1>20, CleanUpRegistry DEF LaunchFail
<1>21. ASSUME NEW c \in Connections, LaunchOk(c) PROVE RegistryInv'
  BY <1>21 DEF LaunchOk, Move, Goto, resourceVars, counterVars
<1>22. ASSUME NEW c \in Connections, ProbeOk(c) PROVE RegistryInv'
  BY <1>22 DEF ProbeOk, Move, Goto, instanceVars, resourceVars, counterVars
<1>23. ASSUME NEW c \in Connections, ProbeFail(c) PROVE RegistryInv'
  BY <1>23 DEF ProbeFail, Goto, Unlock, CallStop, resourceVars, counterVars
<1>24. ASSUME NEW c \in Connections, Unreserve(c) PROVE RegistryInv'
  BY <1>24 DEF Unreserve, Move, Goto, instanceVars, counterVars
<1>25. ASSUME NEW c \in Connections, Ready(c) PROVE RegistryInv'
  BY <1>25 DEF Ready, Move, Goto, Unlock, counterVars
<1>26. ASSUME NEW c \in Connections, Attach(c) PROVE RegistryInv'
  BY <1>26 DEF Attach, Move, Goto, Touch, resourceVars, counterVars
<1>27. ASSUME NEW c \in Connections, Count(c) PROVE RegistryInv'
  BY <1>27 DEF Count, Move, Goto, instanceVars, resourceVars
<1>28. ASSUME NEW c \in Connections, EndProxy(c) PROVE RegistryInv'
  BY <1>28 DEF EndProxy, Move, Goto, Touch, resourceVars, counterVars
<1>29. ASSUME NEW c \in Connections, Uncount(c) PROVE RegistryInv'
  BY <1>29 DEF Uncount, Goto, AfterDecrement, instanceVars, resourceVars
<1>30. ASSUME NEW c \in Connections, Fail(c) PROVE RegistryInv'
  BY <1>30 DEF Fail, Goto, AfterDecrement, instanceVars, resourceVars
<1>31. ASSUME NEW c \in Connections, Notify(c) PROVE RegistryInv'
  BY <1>31 DEF Notify, Move, Goto, Needs, instanceVars, counterVars
<1>32. ASSUME NEW t \in Threads, StopLookup(t) PROVE RegistryInv'
  BY <1>32 DEF StopLookup, Goto, ReturnFromStop, instanceVars, resourceVars,
       counterVars
<1>33. ASSUME NEW t \in Threads, StopLock(t) PROVE RegistryInv'
  BY <1>33 DEF StopLock, Move, Goto, Hold, resourceVars, counterVars
<1>34. ASSUME NEW t \in Threads, StopFinish(t) PROVE RegistryInv'
  <2>1. ptr[t] \in Instances
    BY <1>34 DEF StopFinish, StopCall
  <2> QED
    BY <1>34, <2>1, CleanUpRegistry DEF StopFinish
<1>35. ASSUME NEW t \in Threads, StopKill(t) PROVE RegistryInv'
  BY <1>35 DEF StopKill, Move, Goto, resourceVars, counterVars
<1>36. ASSUME NEW t \in Threads, StopAbandon(t) PROVE RegistryInv'
  BY <1>36 DEF StopAbandon, Goto, Unlock, ReturnFromStop, resourceVars,
       counterVars
<1>37. ASSUME NEW t \in Timers, IdleDrop(t) PROVE RegistryInv'
  BY <1>37 DEF IdleDrop, Move, Goto, instanceVars, resourceVars, counterVars
<1>38. ASSUME NEW t \in Timers, IdleRearm(t) PROVE RegistryInv'
  BY <1>38 DEF IdleRearm, Move, Goto, resourceVars, counterVars
<1>39. ASSUME NEW t \in Timers, IdleStop(t) PROVE RegistryInv'
  BY <1>39 DEF IdleStop, Goto, CallStop, instanceVars, resourceVars,
       counterVars
<1>40. ASSUME NEW t \in Timers, NEW i \in Instances, TimerFire(t, i) PROVE RegistryInv'
  BY <1>40 DEF TimerFire, Move, Goto, resourceVars, counterVars
<1>41. ASSUME NEW i \in Instances, Exit(i) PROVE RegistryInv'
  BY <1>41 DEF Exit, threadVars, resourceVars, counterVars
<1>42. ASSUME NEW i \in Instances, MonitorClean(i) PROVE RegistryInv'
  <2>1. CASE CleanUp(i)
    BY <2>1, CleanUpRegistry
  <2>2. CASE UNCHANGED <<status, running>>
    BY <2>2
  <2> QED
    BY <1>42, <2>1, <2>2 DEF MonitorClean
<1> QED
  BY <1>1, <1>2, <1>3, <1>4, <1>5, <1>6, <1>7, <1>8, <1>9, <1>10, <1>11, <1>12,
     <1>13, <1>14, <1>15, <1>16, <1>17, <1>18, <1>19, <1>20, <1>21, <1>22,
     <1>23, <1>24, <1>25, <1>26, <1>27, <1>28, <1>29, <1>30, <1>31, <1>32,
     <1>33, <1>34, <1>35, <1>36, <1>37, <1>38, <1>39, <1>40, <1>41, <1>42
  DEF Next, ClientStep, ProgramStep, StopStep, IdleStep
-----------------------------------------------------------------------------
\* t moves within a section, or outside of any: every manageMutex stays put.
LEMMA LockKept ==
  ASSUME TypeInv, LockInv, NEW t \in Threads, UNCHANGED manage,
         \A u \in Threads \ {t} :
            pc'[u] = pc[u] /\ ptr'[u] = ptr[u] /\ then'[u] = then[u],
         HoldsOwn(t)' <=> HoldsOwn(t),
         HoldsPtr(t)' <=> HoldsPtr(t),
         HoldsPtr(t) => ptr'[t] = ptr[t] /\ then'[t] = then[t],
         HoldsPtr(t) /\ pc[t] \notin {"wait", "killed"} => pc'[t] = pc[t]
  PROVE  LockInv'
<1>1. ASSUME NEW i \in Instances, NEW u \in Threads
      PROVE  (manage[i] = u <=> \/ u = i /\ HoldsOwn(u)
                                \/ ptr[u] = i /\ HoldsPtr(u))'
  <2>1. manage'[i] = u <=> \/ u = i /\ HoldsOwn(u)
                           \/ ptr[u] = i /\ HoldsPtr(u)
    BY DEF LockInv, LockDiscipline
  <2>2. CASE u = t
    BY <2>1, <2>2
  <2>3. CASE u # t
    BY <2>1, <2>3 DEF HoldsOwn, HoldsPtr, Reserving
  <2> QED
    BY <2>2, <2>3
<1>2. LockDiscipline'
  BY <1>1 DEF LockDiscipline
<1>3. ASSUME NEW u \in Threads, pc'[u] \in {"wait", "killed"}, then'[u] = "reserve"
      PROVE  ptr'[u] # u
  BY <1>3 DEF LockInv, HoldsPtr
<1> QED
  BY <1>2, <1>3 DEF LockInv

\* stopService returns and releases the instance it stopped.
LEMMA ReturnLock ==
  ASSUME TypeInv, LocalsInv, LockInv, NEW t \in Threads,
         pc[t] \in {"wait", "killed"}, Unlock(ptr[t]), ReturnFromStop(t)
  PROVE  LockInv'
<1> USE ThreadsAssumption, NoneAssumption DEF Threads, Instances
<1>1. /\ ptr[t] \in Instances
      /\ then[t] \in {"reserve", "register", "unreserve", "off"}
  BY DEF TypeInv, LocalsInv, StopCall
<1>2. /\ pc'[t] = then[t] /\ then'[t] = "none" /\ ptr'[t] = None
      /\ \A u \in Threads \ {t} :
            pc'[u] = pc[u] /\ ptr'[u] = ptr[u] /\ then'[u] = then[u]
  BY DEF ReturnFromStop, Goto, TypeInv
<1>3. manage' = [manage EXCEPT ![ptr[t]] = None]
  BY DEF Unlock
<1>4. HoldsOwn(t)' <=> HoldsOwn(t)
  BY <1>1, <1>2 DEF HoldsOwn, Reserving, StopCall, Starting
<1>5. HoldsPtr(t) /\ ~HoldsPtr(t)'
  BY <1>1, <1>2 DEF HoldsPtr
<1>6. HoldsOwn(t) => then[t] = "reserve"
  BY <1>1 DEF HoldsOwn, Reserving, StopCall, Starting
<1>7. \A u \in Threads \ {t} :
        (HoldsOwn(u)' <=> HoldsOwn(u)) /\ (HoldsPtr(u)' <=> HoldsPtr(u))
  BY <1>2 DEF HoldsOwn, HoldsPtr, Reserving
<1>8. LockDiscipline'
  BY <1>1, <1>2, <1>3, <1>4, <1>5, <1>6, <1>7 DEF LockDiscipline, LockInv, TypeInv
<1> QED
  BY <1>1, <1>2, <1>8 DEF LockInv

\* t calls stopService from a place where it holds its own instance only if it
\* is evicting.
LEMMA CallStopLock ==
  ASSUME TypeInv, LockInv, NEW t \in Threads, NEW s, NEW p,
         CallStop(t, s, p), UNCHANGED manage, ~HoldsPtr(t),
         HoldsOwn(t) <=> p = "reserve"
  PROVE  LockInv'
<1>1. /\ pc'[t] = "stopLookup" /\ then'[t] = p
      /\ \A u \in Threads \ {t} :
            pc'[u] = pc[u] /\ ptr'[u] = ptr[u] /\ then'[u] = then[u]
  BY DEF CallStop, Goto, TypeInv
<1>2. ~HoldsPtr(t)' /\ (HoldsOwn(t)' <=> HoldsOwn(t))
  BY <1>1 DEF HoldsPtr, HoldsOwn, Reserving, StopCall, Starting
<1> QED
  BY <1>1, <1>2, LockKept

\* Every step takes, keeps and gives back manageMutexes as LockInv says.
LEMMA LockPreserved ==
  ASSUME TypeInv, LocalsInv, LockInv, Next
  PROVE  LockInv'
<1> USE ThreadsAssumption, ConfigAssumption, NoneAssumption
<1> USE DEF TypeInv, LocalsInv, LockInv, LockDiscipline, HoldsOwn, HoldsPtr,
            Reserving, Threads, Instances, StopCall, Starting
<1>1. ASSUME NEW c \in Connections, Accept(c) PROVE LockInv'
  BY <1>1 DEF Accept, Move, Goto, instanceVars, resourceVars
<1>2. ASSUME NEW c \in Connections, Lookup(c) PROVE LockInv'
  BY <1>2 DEF Lookup, Move, Goto, instanceVars, resourceVars, counterVars
<1>3. ASSUME NEW c \in Connections, TryLock(c) PROVE LockInv'
  BY <1>3 DEF TryLock, Move, Goto, Hold, resourceVars, counterVars
<1>4. ASSUME NEW c \in Connections, LockQueued(c) PROVE LockInv'
  BY <1>4 DEF LockQueued, Move, Goto, Hold, resourceVars, counterVars
<1>5. ASSUME NEW c \in Connections, CancelQueued(c) PROVE LockInv'
  BY <1>5 DEF CancelQueued, Move, Goto, instanceVars, resourceVars,
       counterVars
<1>6. ASSUME NEW c \in Connections, Requeue(c) PROVE LockInv'
  BY <1>6 DEF Requeue, Move, Goto, Unlock, resourceVars, counterVars
<1>7. ASSUME NEW c \in Connections, Track(c) PROVE LockInv'
  BY <1>7 DEF Track, Move, Goto, Unlock, resourceVars, counterVars
<1>8. ASSUME NEW c \in Connections, DialOk(c) PROVE LockInv'
  BY <1>8 DEF DialOk, Move, Goto, instanceVars, resourceVars, counterVars
<1>9. ASSUME NEW c \in Connections, DialFail(c) PROVE LockInv'
  BY <1>9 DEF DialFail, Move, Goto, instanceVars, resourceVars, counterVars
<1>10. ASSUME NEW c \in Connections, Restart(c) PROVE LockInv'
  <2>1. pc[c] = "restart" /\ UNCHANGED manage
    BY <1>10 DEF Restart, instanceVars
  <2> HIDE DEF TypeInv, LockInv
  <2>2. CASE CallStop(c, Target[c], "register")
    <3>1. c \in Threads /\ ~HoldsPtr(c) /\ (HoldsOwn(c) <=> "register" = "reserve")
      BY <2>1
    <3> HIDE DEF HoldsPtr, HoldsOwn, Threads
    <3> QED
      BY <2>1, <2>2, <3>1, CallStopLock
  <2>3. CASE Goto(c, "register") /\ UNCHANGED <<ptr, stopping, then>>
    BY <2>1, <2>3, LockKept DEF Goto
  <2> QED
    BY <1>10, <2>2, <2>3 DEF Restart
<1>11. ASSUME NEW c \in Connections, Register(c) PROVE LockInv'
  <2>1. CASE running[Target[c]] = None
    <3>1. /\ pc[c] = "register" /\ pc'[c] = "reserve"
          /\ manage[c] = None /\ manage' = [manage EXCEPT ![c] = c]
          /\ UNCHANGED <<ptr, then>>
          /\ \A u \in Threads \ {c} : pc'[u] = pc[u]
      BY <1>11, <2>1 DEF Register, Move, Goto, Hold
    <3>2. LockDiscipline'
      BY <3>1
    <3> QED
      BY <3>1, <3>2
  <2>2. CASE running[Target[c]] # None
    BY <1>11, <2>2, LockKept DEF Register, Move, Goto
  <2> QED
    BY <1>11, <2>1, <2>2 DEF Register, Move
<1>12. ASSUME NEW c \in Connections, ReserveOk(c) PROVE LockInv'
  BY <1>12, LockKept DEF ReserveOk, Move, Goto, instanceVars, counterVars
<1>13. ASSUME NEW c \in Connections, ReserveMissing(c) PROVE LockInv'
  BY <1>13, LockKept, ZenonT(30)
  DEF ReserveMissing, Move, Goto, instanceVars, resourceVars,
       counterVars
<1>14. ASSUME NEW c \in Connections, PickVictim(c) PROVE LockInv'
  <2>1. pc[c] = "pick" /\ UNCHANGED manage
    BY <1>14 DEF PickVictim, instanceVars
  <2> HIDE DEF TypeInv, LockInv
  <2>2. ASSUME NEW s \in Victims(c), CallStop(c, s, "reserve") PROVE LockInv'
    <3>1. c \in Threads /\ ~HoldsPtr(c) /\ (HoldsOwn(c) <=> "reserve" = "reserve")
      BY <2>1
    <3> HIDE DEF HoldsPtr, HoldsOwn, Threads
    <3> QED
      BY <2>1, <2>2, <3>1, CallStopLock
  <2>3. CASE Goto(c, "park") /\ UNCHANGED <<ptr, stopping, then>>
    BY <2>1, <2>3, LockKept DEF Goto
  <2> QED
    BY <1>14, <2>2, <2>3 DEF PickVictim
<1>15. ASSUME NEW c \in Connections, Park(c) PROVE LockInv'
  BY <1>15, LockKept DEF Park, Move, Goto, instanceVars, counterVars
<1>16. ASSUME NEW c \in Connections, Wake(c) PROVE LockInv'
  BY <1>16, LockKept DEF Wake, Move, Goto, Unpark, instanceVars, counterVars
<1>17. ASSUME NEW c \in Connections, GiveUp(c) PROVE LockInv'
  BY <1>17, LockKept, ZenonT(30)
  DEF GiveUp, Move, Goto, Unpark, instanceVars, counterVars
<1>18. ASSUME NEW c \in Connections, Refused(c) PROVE LockInv'
  BY <1>18 DEF Refused, Move, Goto, Unlock, counterVars
<1>19. ASSUME NEW c \in Connections, FlagReserved(c) PROVE LockInv'
  BY <1>19, LockKept, ZenonT(30)
  DEF FlagReserved, Move, Goto, resourceVars, counterVars
<1>20. ASSUME NEW c \in Connections, LaunchFail(c) PROVE LockInv'
  BY <1>20 DEF LaunchFail, Move, Goto, Unlock, counterVars
<1>21. ASSUME NEW c \in Connections, LaunchOk(c) PROVE LockInv'
  BY <1>21, LockKept DEF LaunchOk, Move, Goto, resourceVars, counterVars
<1>22. ASSUME NEW c \in Connections, ProbeOk(c) PROVE LockInv'
  BY <1>22, LockKept, ZenonT(30)
  DEF ProbeOk, Move, Goto, instanceVars, resourceVars,
       counterVars
<1>23. ASSUME NEW c \in Connections, ProbeFail(c) PROVE LockInv'
  BY <1>23 DEF ProbeFail, Goto, Unlock, CallStop, resourceVars, counterVars
<1>24. ASSUME NEW c \in Connections, Unreserve(c) PROVE LockInv'
  BY <1>24 DEF Unreserve, Move, Goto, instanceVars, counterVars
<1>25. ASSUME NEW c \in Connections, Ready(c) PROVE LockInv'
  BY <1>25 DEF Ready, Move, Goto, Unlock, counterVars
<1>26. ASSUME NEW c \in Connections, Attach(c) PROVE LockInv'
  BY <1>26 DEF Attach, Move, Goto, resourceVars, counterVars
<1>27. ASSUME NEW c \in Connections, Count(c) PROVE LockInv'
  BY <1>27 DEF Count, Move, Goto, instanceVars, resourceVars
<1>28. ASSUME NEW c \in Connections, EndProxy(c) PROVE LockInv'
  BY <1>28 DEF EndProxy, Move, Goto, resourceVars, counterVars
<1>29. ASSUME NEW c \in Connections, Uncount(c) PROVE LockInv'
  BY <1>29 DEF Uncount, Goto, AfterDecrement, instanceVars, resourceVars
<1>30. ASSUME NEW c \in Connections, Fail(c) PROVE LockInv'
  BY <1>30 DEF Fail, Goto, AfterDecrement, instanceVars, resourceVars
<1>31. ASSUME NEW c \in Connections, Notify(c) PROVE LockInv'
  BY <1>31 DEF Notify, Move, Goto, instanceVars, counterVars
<1>32. ASSUME NEW t \in Threads, StopLookup(t) PROVE LockInv'
  <2>1. pc[t] = "stopLookup" /\ UNCHANGED manage
    BY <1>32 DEF StopLookup, instanceVars
  <2>2. CASE ReturnFromStop(t)
    <3>1. /\ then[t] \in {"reserve", "register", "unreserve", "off"}
          /\ pc'[t] = then[t]
          /\ \A u \in Threads \ {t} :
                pc'[u] = pc[u] /\ ptr'[u] = ptr[u] /\ then'[u] = then[u]
      BY <2>1, <2>2 DEF ReturnFromStop, Goto
    <3>2. ~HoldsPtr(t) /\ ~HoldsPtr(t)'
      BY <2>1, <3>1
    <3>3. HoldsOwn(t)' <=> HoldsOwn(t)
      BY <2>1, <3>1
    <3> QED
      BY <2>1, <3>1, <3>2, <3>3, LockKept
  <2>3. CASE /\ Goto(t, "stopLock")
             /\ ptr' = [ptr EXCEPT ![t] = running[stopping[t]]]
             /\ UNCHANGED <<stopping, then>>
    BY <2>1, <2>3, LockKept DEF Goto
  <2> QED
    BY <1>32, <2>2, <2>3 DEF StopLookup
<1>33. ASSUME NEW t \in Threads, StopLock(t) PROVE LockInv'
  BY <1>33 DEF StopLock, Move, Goto, Hold, resourceVars, counterVars
<1>34. ASSUME NEW t \in Threads, StopFinish(t) PROVE LockInv'
  BY <1>34, ReturnLock DEF StopFinish
<1>35. ASSUME NEW t \in Threads, StopKill(t) PROVE LockInv'
  BY <1>35, LockKept DEF StopKill, Move, Goto, resourceVars, counterVars
<1>36. ASSUME NEW t \in Threads, StopAbandon(t) PROVE LockInv'
  BY <1>36, ReturnLock DEF StopAbandon
<1>37. ASSUME NEW t \in Timers, IdleDrop(t) PROVE LockInv'
  BY <1>37 DEF IdleDrop, Move, Goto, instanceVars, resourceVars, counterVars
<1>38. ASSUME NEW t \in Timers, IdleRearm(t) PROVE LockInv'
  BY <1>38 DEF IdleRearm, Move, Goto, resourceVars, counterVars
<1>39. ASSUME NEW t \in Timers, IdleStop(t) PROVE LockInv'
  BY <1>39 DEF IdleStop, Goto, CallStop, instanceVars, resourceVars,
       counterVars
<1>40. ASSUME NEW t \in Timers, NEW i \in Instances, TimerFire(t, i) PROVE LockInv'
  BY <1>40 DEF TimerFire, Move, Goto, resourceVars, counterVars
<1>41. ASSUME NEW i \in Instances, Exit(i) PROVE LockInv'
  BY <1>41 DEF Exit, threadVars, resourceVars, counterVars
<1>42. ASSUME NEW i \in Instances, MonitorClean(i) PROVE LockInv'
  BY <1>42 DEF MonitorClean, threadVars, counterVars
<1> QED
  BY <1>1, <1>2, <1>3, <1>4, <1>5, <1>6, <1>7, <1>8, <1>9, <1>10, <1>11, <1>12,
     <1>13, <1>14, <1>15, <1>16, <1>17, <1>18, <1>19, <1>20, <1>21, <1>22,
     <1>23, <1>24, <1>25, <1>26, <1>27, <1>28, <1>29, <1>30, <1>31, <1>32,
     <1>33, <1>34, <1>35, <1>36, <1>37, <1>38, <1>39, <1>40, <1>41, <1>42
  DEF Next, ClientStep, ProgramStep, StopStep, IdleStep
-----------------------------------------------------------------------------
\* Releasing an instance takes it out of the registry and nothing else.
LEMMA CleanUpRunning ==
  ASSUME TypeInv, NEW i \in Instances, CleanUp(i), NEW s \in Services,
         running[s] # i
  PROVE  running'[s] = running[s]
<1>1. CASE status[i] = "released"
  BY <1>1 DEF CleanUp
<1>2. CASE status[i] # "released"
  <2>1. running' = IF running[Target[i]] = i
                   THEN [running EXCEPT ![Target[i]] = None] ELSE running
    BY <1>2 DEF CleanUp, Release
  <2> QED
    BY <2>1 DEF TypeInv
<1> QED
  BY <1>1, <1>2

\* A goroutine in stopService holds another instance than one being started.
LEMMA StopsAnother ==
  ASSUME TypeInv, LocalsInv, LockInv, NEW t \in Threads, NEW c \in Connections,
         pc[t] \in {"wait", "killed"},
         t = c => then[t] = "reserve", t # c => HoldsOwn(c)
  PROVE  ptr[t] \in Instances \ {c}
<1>1. ptr[t] \in Instances
  BY NoneAssumption DEF TypeInv, LocalsInv, StopCall
<1>2. CASE t = c
  BY <1>1, <1>2 DEF LockInv
<1>3. CASE t # c
  <2>1. manage[ptr[t]] = t
    BY <1>1 DEF LockInv, LockDiscipline, HoldsPtr
  <2>2. manage[c] = c
    BY <1>3 DEF LockInv, LockDiscipline, Threads, Instances
  <2> QED
    BY <1>1, <1>3, <2>1, <2>2
<1> QED
  BY <1>2, <1>3

\* Every step of any goroutine keeps an instance being started registered,
\* and its charge in step with its starter.
LEMMA PhasePreserved ==
  ASSUME TypeInv, LocalsInv, RegistryInv, LockInv, PhaseInv, Next
  PROVE  PhaseInv'
<1> USE ThreadsAssumption, ConfigAssumption, NoneAssumption
<1> USE DEF TypeInv, LocalsInv, PhaseInv, Unregistered, Reserving, Threads,
            Instances, StopCall
<1>1. ASSUME NEW c \in Connections, Accept(c) PROVE PhaseInv'
  BY <1>1 DEF Accept, Move, Goto, instanceVars, resourceVars
<1>2. ASSUME NEW c \in Connections, Lookup(c) PROVE PhaseInv'
  BY <1>2 DEF Lookup, Move, Goto, instanceVars, resourceVars, counterVars
<1>3. ASSUME NEW c \in Connections, TryLock(c) PROVE PhaseInv'
  BY <1>3 DEF TryLock, Move, Goto, Hold, resourceVars, counterVars
<1>4. ASSUME NEW c \in Connections, LockQueued(c) PROVE PhaseInv'
  BY <1>4 DEF LockQueued, Move, Goto, Hold, resourceVars, counterVars
<1>5. ASSUME NEW c \in Connections, CancelQueued(c) PROVE PhaseInv'
  BY <1>5 DEF CancelQueued, Move, Goto, instanceVars, resourceVars,
       counterVars
<1>6. ASSUME NEW c \in Connections, Requeue(c) PROVE PhaseInv'
  BY <1>6 DEF Requeue, Move, Goto, Unlock, resourceVars, counterVars
<1>7. ASSUME NEW c \in Connections, Track(c) PROVE PhaseInv'
  BY <1>7 DEF Track, Move, Goto, Unlock, resourceVars, counterVars
<1>8. ASSUME NEW c \in Connections, DialOk(c) PROVE PhaseInv'
  BY <1>8 DEF DialOk, Move, Goto, instanceVars, resourceVars, counterVars
<1>9. ASSUME NEW c \in Connections, DialFail(c) PROVE PhaseInv'
  BY <1>9 DEF DialFail, Move, Goto, instanceVars, resourceVars, counterVars
<1>10. ASSUME NEW c \in Connections, Restart(c) PROVE PhaseInv'
  BY <1>10 DEF Restart, Goto, CallStop, instanceVars, resourceVars,
       counterVars
<1>11. ASSUME NEW c \in Connections, Register(c) PROVE PhaseInv'
  BY <1>11 DEF Register, Move, Goto, Hold, resourceVars, counterVars
<1>12. ASSUME NEW c \in Connections, ReserveOk(c) PROVE PhaseInv'
  BY <1>12 DEF ReserveOk, Move, Goto, instanceVars, counterVars
<1>13. ASSUME NEW c \in Connections, ReserveMissing(c) PROVE PhaseInv'
  BY <1>13 DEF ReserveMissing, Move, Goto, instanceVars, resourceVars,
       counterVars
<1>14. ASSUME NEW c \in Connections, PickVictim(c) PROVE PhaseInv'
  BY <1>14 DEF PickVictim, Goto, CallStop, instanceVars, resourceVars,
       counterVars
<1>15. ASSUME NEW c \in Connections, Park(c) PROVE PhaseInv'
  BY <1>15 DEF Park, Move, Goto, instanceVars, counterVars
<1>16. ASSUME NEW c \in Connections, Wake(c) PROVE PhaseInv'
  BY <1>16 DEF Wake, Move, Goto, Unpark, instanceVars, counterVars
<1>17. ASSUME NEW c \in Connections, GiveUp(c) PROVE PhaseInv'
  BY <1>17 DEF GiveUp, Move, Goto, Unpark, instanceVars, counterVars
<1>18. ASSUME NEW c \in Connections, Refused(c) PROVE PhaseInv'
  <2>1. /\ c \in Instances /\ CleanUp(c) /\ UNCHANGED <<flag, proc, then>>
        /\ pc' = [pc EXCEPT ![c] = "fail"]
    BY <1>18 DEF Refused, Move, Goto
  <2>2. \A s \in Services : running[s] # c => running'[s] = running[s]
    BY <2>1, CleanUpRunning
  <2> QED
    BY <2>1, <2>2
<1>19. ASSUME NEW c \in Connections, FlagReserved(c) PROVE PhaseInv'
  BY <1>19 DEF FlagReserved, Move, Goto, resourceVars, counterVars
<1>20. ASSUME NEW c \in Connections, LaunchFail(c) PROVE PhaseInv'
  <2>1. /\ c \in Instances /\ CleanUp(c) /\ UNCHANGED <<flag, proc, then>>
        /\ pc' = [pc EXCEPT ![c] = "fail"]
    BY <1>20 DEF LaunchFail, Move, Goto
  <2>2. \A s \in Services : running[s] # c => running'[s] = running[s]
    BY <2>1, CleanUpRunning
  <2> QED
    BY <2>1, <2>2
<1>21. ASSUME NEW c \in Connections, LaunchOk(c) PROVE PhaseInv'
  BY <1>21 DEF LaunchOk, Move, Goto, resourceVars, counterVars
<1>22. ASSUME NEW c \in Connections, ProbeOk(c) PROVE PhaseInv'
  BY <1>22 DEF ProbeOk, Move, Goto, instanceVars, resourceVars, counterVars
<1>23. ASSUME NEW c \in Connections, ProbeFail(c) PROVE PhaseInv'
  BY <1>23 DEF ProbeFail, Goto, Unlock, CallStop, resourceVars, counterVars
<1>24. ASSUME NEW c \in Connections, Unreserve(c) PROVE PhaseInv'
  BY <1>24 DEF Unreserve, Move, Goto, instanceVars, counterVars
<1>25. ASSUME NEW c \in Connections, Ready(c) PROVE PhaseInv'
  BY <1>25 DEF Ready, Move, Goto, Unlock, counterVars
<1>26. ASSUME NEW c \in Connections, Attach(c) PROVE PhaseInv'
  BY <1>26 DEF Attach, Move, Goto, resourceVars, counterVars
<1>27. ASSUME NEW c \in Connections, Count(c) PROVE PhaseInv'
  BY <1>27 DEF Count, Move, Goto, instanceVars, resourceVars
<1>28. ASSUME NEW c \in Connections, EndProxy(c) PROVE PhaseInv'
  BY <1>28 DEF EndProxy, Move, Goto, resourceVars, counterVars
<1>29. ASSUME NEW c \in Connections, Uncount(c) PROVE PhaseInv'
  BY <1>29 DEF Uncount, Goto, AfterDecrement, instanceVars, resourceVars
<1>30. ASSUME NEW c \in Connections, Fail(c) PROVE PhaseInv'
  BY <1>30 DEF Fail, Goto, AfterDecrement, instanceVars, resourceVars
<1>31. ASSUME NEW c \in Connections, Notify(c) PROVE PhaseInv'
  BY <1>31 DEF Notify, Move, Goto, instanceVars, counterVars
<1>32. ASSUME NEW t \in Threads, StopLookup(t) PROVE PhaseInv'
  <2>1. /\ pc[t] = "stopLookup"
        /\ UNCHANGED <<running, flag, proc>>
        /\ then[t] \in {"reserve", "register", "unreserve", "off"}
    BY <1>32 DEF StopLookup, instanceVars
  <2>2. CASE ReturnFromStop(t)
    BY <2>1, <2>2 DEF ReturnFromStop, Goto
  <2>3. CASE Goto(t, "stopLock") /\ UNCHANGED <<stopping, then>>
    BY <2>1, <2>3 DEF Goto
  <2> QED
    BY <1>32, <2>2, <2>3 DEF StopLookup
<1>33. ASSUME NEW t \in Threads, StopLock(t) PROVE PhaseInv'
  BY <1>33 DEF StopLock, Move, Goto, Hold, resourceVars, counterVars
<1>34. ASSUME NEW t \in Threads, StopFinish(t) PROVE PhaseInv'
  <2>1. /\ pc[t] \in {"wait", "killed"}
        /\ CleanUp(ptr[t])
        /\ UNCHANGED <<flag, proc>>
        /\ then[t] \in {"reserve", "register", "unreserve", "off"}
        /\ pc' = [pc EXCEPT ![t] = then[t]]
        /\ then' = [then EXCEPT ![t] = "none"]
    BY <1>34 DEF StopFinish, ReturnFromStop, Goto
  <2>2. ptr[t] \in Instances
    BY <2>1
  <2>3. \A s \in Services : running[s] # ptr[t] => running'[s] = running[s]
    BY <2>1, <2>2, CleanUpRunning
  <2>4. ASSUME NEW d \in Connections,
               Reserving(d)' \/ pc'[d] \in {"flag", "launch"}
        PROVE  /\ Reserving(d) <=> Reserving(d)'
               /\ ~Reserving(d) => pc'[d] = pc[d]
               /\ t = d => then[t] = "reserve"
               /\ t # d => HoldsOwn(d)
    BY <2>1, <2>4 DEF HoldsOwn, Starting
  <2>5. ASSUME NEW d \in Connections,
               Reserving(d)' \/ pc'[d] \in {"flag", "launch"}
        PROVE  running'[Target[d]] = running[Target[d]]
    <3>1. running[Target[d]] = d
      BY <2>4, <2>5
    <3>2. ptr[t] \in Instances \ {d}
      BY <2>1, <2>4, <2>5, StopsAnother
    <3> QED
      BY <2>3, <3>1, <3>2
  <2>6. ASSUME NEW d \in Connections PROVE Unregistered(d)' => Unregistered(d)
    BY <2>1, <2>6
  <2> QED
    BY <2>1, <2>4, <2>5, <2>6
<1>35. ASSUME NEW t \in Threads, StopKill(t) PROVE PhaseInv'
  BY <1>35 DEF StopKill, Move, Goto, resourceVars, counterVars
<1>36. ASSUME NEW t \in Threads, StopAbandon(t) PROVE PhaseInv'
  <2>1. /\ pc[t] = "wait"
        /\ UNCHANGED <<running, flag, proc>>
        /\ then[t] \in {"reserve", "register", "unreserve", "off"}
        /\ pc' = [pc EXCEPT ![t] = then[t]]
        /\ then' = [then EXCEPT ![t] = "none"]
    BY <1>36 DEF StopAbandon, ReturnFromStop, Goto
  <2> QED
    BY <2>1
<1>37. ASSUME NEW t \in Timers, IdleDrop(t) PROVE PhaseInv'
  BY <1>37 DEF IdleDrop, Move, Goto, instanceVars, resourceVars, counterVars
<1>38. ASSUME NEW t \in Timers, IdleRearm(t) PROVE PhaseInv'
  BY <1>38 DEF IdleRearm, Move, Goto, resourceVars, counterVars
<1>39. ASSUME NEW t \in Timers, IdleStop(t) PROVE PhaseInv'
  BY <1>39 DEF IdleStop, Goto, CallStop, instanceVars, resourceVars,
       counterVars
<1>40. ASSUME NEW t \in Timers, NEW i \in Instances, TimerFire(t, i) PROVE PhaseInv'
  BY <1>40 DEF TimerFire, Move, Goto, resourceVars, counterVars
<1>41. ASSUME NEW i \in Instances, Exit(i) PROVE PhaseInv'
  BY <1>41 DEF Exit, threadVars, resourceVars, counterVars
<1>42. ASSUME NEW i \in Instances, MonitorClean(i) PROVE PhaseInv'
  <2>1. proc[i] = "exited" /\ proc' = [proc EXCEPT ![i] = "reaped"]
        /\ UNCHANGED <<pc, then, flag>>
    BY <1>42 DEF MonitorClean, threadVars
  <2>2. \A s \in Services : running[s] # i => running'[s] = running[s]
    BY <1>42, CleanUpRunning DEF MonitorClean
  <2> QED
    BY <2>1, <2>2
<1> QED
  BY <1>1, <1>2, <1>3, <1>4, <1>5, <1>6, <1>7, <1>8, <1>9, <1>10, <1>11, <1>12,
     <1>13, <1>14, <1>15, <1>16, <1>17, <1>18, <1>19, <1>20, <1>21, <1>22,
     <1>23, <1>24, <1>25, <1>26, <1>27, <1>28, <1>29, <1>30, <1>31, <1>32,
     <1>33, <1>34, <1>35, <1>36, <1>37, <1>38, <1>39, <1>40, <1>41, <1>42
  DEF Next, ClientStep, ProgramStep, StopStep, IdleStep
-----------------------------------------------------------------------------
\* Every step keeps a running process charged and registered.
LEMMA ProcessPreserved ==
  ASSUME TypeInv, LocalsInv, RegistryInv, LockInv, PhaseInv, ProcessInv, Next
  PROVE  ProcessInv'
<1> USE ThreadsAssumption, ConfigAssumption, NoneAssumption
<1> USE DEF TypeInv, LocalsInv, ProcessInv, Threads, Instances, StopCall
<1>1. ASSUME NEW c \in Connections, Accept(c) PROVE ProcessInv'
  BY <1>1 DEF Accept, Move, Goto, instanceVars, resourceVars
<1>2. ASSUME NEW c \in Connections, Lookup(c) PROVE ProcessInv'
  BY <1>2 DEF Lookup, Move, Goto, instanceVars, resourceVars, counterVars
<1>3. ASSUME NEW c \in Connections, TryLock(c) PROVE ProcessInv'
  BY <1>3 DEF TryLock, Move, Goto, Hold, resourceVars, counterVars
<1>4. ASSUME NEW c \in Connections, LockQueued(c) PROVE ProcessInv'
  BY <1>4 DEF LockQueued, Move, Goto, Hold, resourceVars, counterVars
<1>5. ASSUME NEW c \in Connections, CancelQueued(c) PROVE ProcessInv'
  BY <1>5 DEF CancelQueued, Move, Goto, instanceVars, resourceVars,
       counterVars
<1>6. ASSUME NEW c \in Connections, Requeue(c) PROVE ProcessInv'
  BY <1>6 DEF Requeue, Move, Goto, Unlock, resourceVars, counterVars
<1>7. ASSUME NEW c \in Connections, Track(c) PROVE ProcessInv'
  BY <1>7 DEF Track, Move, Goto, Unlock, resourceVars, counterVars
<1>8. ASSUME NEW c \in Connections, DialOk(c) PROVE ProcessInv'
  BY <1>8 DEF DialOk, Move, Goto, instanceVars, resourceVars, counterVars
<1>9. ASSUME NEW c \in Connections, DialFail(c) PROVE ProcessInv'
  BY <1>9 DEF DialFail, Move, Goto, instanceVars, resourceVars, counterVars
<1>10. ASSUME NEW c \in Connections, Restart(c) PROVE ProcessInv'
  <2>1. pc[c] = "restart" /\ UNCHANGED <<running, flag, proc>>
    BY <1>10 DEF Restart, instanceVars
  <2>2. CASE CallStop(c, Target[c], "register")
    BY <2>1, <2>2 DEF CallStop, Goto
  <2>3. CASE Goto(c, "register") /\ UNCHANGED <<ptr, stopping, then>>
    BY <2>1, <2>3 DEF Goto
  <2> QED
    BY <1>10, <2>2, <2>3 DEF Restart
<1>11. ASSUME NEW c \in Connections, Register(c) PROVE ProcessInv'
  BY <1>11 DEF Register, Move, Goto, Hold, resourceVars, counterVars
<1>12. ASSUME NEW c \in Connections, ReserveOk(c) PROVE ProcessInv'
  BY <1>12 DEF ReserveOk, Move, Goto, instanceVars, counterVars
<1>13. ASSUME NEW c \in Connections, ReserveMissing(c) PROVE ProcessInv'
  BY <1>13 DEF ReserveMissing, Move, Goto, instanceVars, resourceVars,
       counterVars
<1>14. ASSUME NEW c \in Connections, PickVictim(c) PROVE ProcessInv'
  <2>1. pc[c] = "pick" /\ UNCHANGED <<running, flag, proc>>
    BY <1>14 DEF PickVictim, instanceVars
  <2>2. ASSUME NEW s \in Victims(c), CallStop(c, s, "reserve") PROVE ProcessInv'
    BY <2>1, <2>2 DEF CallStop, Goto
  <2>3. CASE Goto(c, "park") /\ UNCHANGED <<ptr, stopping, then>>
    BY <2>1, <2>3 DEF Goto
  <2> QED
    BY <1>14, <2>2, <2>3 DEF PickVictim
<1>15. ASSUME NEW c \in Connections, Park(c) PROVE ProcessInv'
  BY <1>15 DEF Park, Move, Goto, instanceVars, counterVars
<1>16. ASSUME NEW c \in Connections, Wake(c) PROVE ProcessInv'
  BY <1>16 DEF Wake, Move, Goto, Unpark, instanceVars, counterVars
<1>17. ASSUME NEW c \in Connections, GiveUp(c) PROVE ProcessInv'
  BY <1>17 DEF GiveUp, Move, Goto, Unpark, instanceVars, counterVars
<1>18. ASSUME NEW c \in Connections, Refused(c) PROVE ProcessInv'
  <2>1. /\ c \in Instances /\ CleanUp(c) /\ UNCHANGED <<flag, proc, ptr>>
        /\ pc' = [pc EXCEPT ![c] = "fail"]
    BY <1>18 DEF Refused, Move, Goto
  <2>2. proc[c] = "none"
    BY <1>18 DEF Refused, Move, PhaseInv, Reserving
  <2>3. \A s \in Services : running[s] # c => running'[s] = running[s]
    BY <2>1, CleanUpRunning
  <2> QED
    BY <2>1, <2>2, <2>3
<1>19. ASSUME NEW c \in Connections, FlagReserved(c) PROVE ProcessInv'
  BY <1>19 DEF FlagReserved, Move, Goto, resourceVars, counterVars
<1>20. ASSUME NEW c \in Connections, LaunchFail(c) PROVE ProcessInv'
  <2>1. /\ c \in Instances /\ CleanUp(c) /\ UNCHANGED <<flag, proc, ptr>>
        /\ pc' = [pc EXCEPT ![c] = "fail"]
    BY <1>20 DEF LaunchFail, Move, Goto
  <2>2. proc[c] = "none"
    BY <1>20 DEF LaunchFail, Move, PhaseInv, Reserving
  <2>3. \A s \in Services : running[s] # c => running'[s] = running[s]
    BY <2>1, CleanUpRunning
  <2> QED
    BY <2>1, <2>2, <2>3
<1>21. ASSUME NEW c \in Connections, LaunchOk(c) PROVE ProcessInv'
  <2>1. /\ pc[c] = "launch" /\ UNCHANGED <<running, flag, ptr>>
        /\ pc' = [pc EXCEPT ![c] = "probe"]
        /\ proc' = [proc EXCEPT ![c] = "up"]
    BY <1>21 DEF LaunchOk, Move, Goto
  <2>2. flag[c] /\ running[Target[c]] = c /\ HoldsOwn(c)
    BY <2>1 DEF PhaseInv, HoldsOwn, Starting
  <2>3. \A t \in Threads : pc[t] = "killed" => ptr[t] \in Instances \ {c}
    BY <2>1, <2>2, StopsAnother
  <2> QED
    BY <2>1, <2>2, <2>3
<1>22. ASSUME NEW c \in Connections, ProbeOk(c) PROVE ProcessInv'
  BY <1>22 DEF ProbeOk, Move, Goto, instanceVars, resourceVars, counterVars
<1>23. ASSUME NEW c \in Connections, ProbeFail(c) PROVE ProcessInv'
  BY <1>23 DEF ProbeFail, Goto, Unlock, CallStop, resourceVars, counterVars
<1>24. ASSUME NEW c \in Connections, Unreserve(c) PROVE ProcessInv'
  BY <1>24 DEF Unreserve, Move, Goto, instanceVars, counterVars
<1>25. ASSUME NEW c \in Connections, Ready(c) PROVE ProcessInv'
  BY <1>25 DEF Ready, Move, Goto, Unlock, counterVars
<1>26. ASSUME NEW c \in Connections, Attach(c) PROVE ProcessInv'
  BY <1>26 DEF Attach, Move, Goto, resourceVars, counterVars
<1>27. ASSUME NEW c \in Connections, Count(c) PROVE ProcessInv'
  BY <1>27 DEF Count, Move, Goto, instanceVars, resourceVars
<1>28. ASSUME NEW c \in Connections, EndProxy(c) PROVE ProcessInv'
  BY <1>28 DEF EndProxy, Move, Goto, resourceVars, counterVars
<1>29. ASSUME NEW c \in Connections, Uncount(c) PROVE ProcessInv'
  BY <1>29 DEF Uncount, Goto, AfterDecrement, instanceVars, resourceVars
<1>30. ASSUME NEW c \in Connections, Fail(c) PROVE ProcessInv'
  BY <1>30 DEF Fail, Goto, AfterDecrement, instanceVars, resourceVars
<1>31. ASSUME NEW c \in Connections, Notify(c) PROVE ProcessInv'
  BY <1>31 DEF Notify, Move, Goto, instanceVars, counterVars
<1>32. ASSUME NEW t \in Threads, StopLookup(t) PROVE ProcessInv'
  <2>1. pc[t] = "stopLookup" /\ UNCHANGED <<running, flag, proc>>
        /\ then[t] \in {"reserve", "register", "unreserve", "off"}
    BY <1>32 DEF StopLookup, instanceVars
  <2>2. CASE ReturnFromStop(t)
    BY <2>1, <2>2 DEF ReturnFromStop, Goto
  <2>3. CASE /\ Goto(t, "stopLock")
             /\ ptr' = [ptr EXCEPT ![t] = running[stopping[t]]]
    BY <2>1, <2>3 DEF Goto
  <2> QED
    BY <1>32, <2>2, <2>3 DEF StopLookup
<1>33. ASSUME NEW t \in Threads, StopLock(t) PROVE ProcessInv'
  BY <1>33 DEF StopLock, Move, Goto, Hold, resourceVars, counterVars
<1>34. ASSUME NEW t \in Threads, StopFinish(t) PROVE ProcessInv'
  <2>1. /\ pc[t] \in {"wait", "killed"}
        /\ CleanUp(ptr[t])
        /\ UNCHANGED <<flag, proc>>
        /\ then[t] \in {"reserve", "register", "unreserve", "off"}
        /\ pc' = [pc EXCEPT ![t] = then[t]]
        /\ ptr' = [ptr EXCEPT ![t] = None]
        /\ ptr[t] \in Instances /\ proc[ptr[t]] # "up"
    BY <1>34 DEF StopFinish, ReturnFromStop, Goto
  <2>2. \A s \in Services : running[s] # ptr[t] => running'[s] = running[s]
    BY <2>1, CleanUpRunning
  <2> QED
    BY <2>1, <2>2
<1>35. ASSUME NEW t \in Threads, StopKill(t) PROVE ProcessInv'
  BY <1>35 DEF StopKill, Move, Goto, resourceVars, counterVars
<1>36. ASSUME NEW t \in Threads, StopAbandon(t) PROVE ProcessInv'
  BY <1>36 DEF StopAbandon, Goto, Unlock, ReturnFromStop, resourceVars,
       counterVars
<1>37. ASSUME NEW t \in Timers, IdleDrop(t) PROVE ProcessInv'
  BY <1>37 DEF IdleDrop, Move, Goto, instanceVars, resourceVars, counterVars
<1>38. ASSUME NEW t \in Timers, IdleRearm(t) PROVE ProcessInv'
  BY <1>38 DEF IdleRearm, Move, Goto, resourceVars, counterVars
<1>39. ASSUME NEW t \in Timers, IdleStop(t) PROVE ProcessInv'
  BY <1>39 DEF IdleStop, Goto, CallStop, instanceVars, resourceVars,
       counterVars
<1>40. ASSUME NEW t \in Timers, NEW i \in Instances, TimerFire(t, i) PROVE ProcessInv'
  BY <1>40 DEF TimerFire, Move, Goto, resourceVars, counterVars
<1>41. ASSUME NEW i \in Instances, Exit(i) PROVE ProcessInv'
  BY <1>41 DEF Exit, threadVars, resourceVars, counterVars
<1>42. ASSUME NEW i \in Instances, MonitorClean(i) PROVE ProcessInv'
  <2>1. proc[i] = "exited" /\ proc' = [proc EXCEPT ![i] = "reaped"]
        /\ UNCHANGED <<pc, ptr, flag>>
    BY <1>42 DEF MonitorClean, threadVars
  <2>2. \A s \in Services : running[s] # i => running'[s] = running[s]
    BY <1>42, CleanUpRunning DEF MonitorClean
  <2> QED
    BY <2>1, <2>2
<1> QED
  BY <1>1, <1>2, <1>3, <1>4, <1>5, <1>6, <1>7, <1>8, <1>9, <1>10, <1>11, <1>12,
     <1>13, <1>14, <1>15, <1>16, <1>17, <1>18, <1>19, <1>20, <1>21, <1>22,
     <1>23, <1>24, <1>25, <1>26, <1>27, <1>28, <1>29, <1>30, <1>31, <1>32,
     <1>33, <1>34, <1>35, <1>36, <1>37, <1>38, <1>39, <1>40, <1>41, <1>42
  DEF Next, ClientStep, ProgramStep, StopStep, IdleStep
-----------------------------------------------------------------------------
\* Releasing an instance does not make it unborn.
LEMMA CleanUpBorn ==
  ASSUME TypeInv, NEW i \in Instances, CleanUp(i), NEW j \in Instances,
         status[j] # "unborn"
  PROVE  status'[j] # "unborn"
<1>1. CASE status[i] = "released"
  BY <1>1 DEF CleanUp
<1>2. CASE status[i] # "released"
  <2>1. status' = [status EXCEPT ![i] = "released"]
    BY <1>2 DEF CleanUp, Release
  <2> QED
    BY <2>1 DEF TypeInv
<1> QED
  BY <1>1, <1>2

\* Every step charges registered instances only.
LEMMA ChargePreserved ==
  ASSUME TypeInv, LocalsInv, RegistryInv, PhaseInv, ChargeInv, Next
  PROVE  ChargeInv'
<1> USE ThreadsAssumption, ConfigAssumption, NoneAssumption
<1> USE DEF TypeInv, LocalsInv, ChargeInv, Threads, Instances, StopCall
<1>1. ASSUME NEW c \in Connections, Accept(c) PROVE ChargeInv'
  BY <1>1 DEF Accept, Move, Goto, instanceVars, resourceVars
<1>2. ASSUME NEW c \in Connections, Lookup(c) PROVE ChargeInv'
  BY <1>2 DEF Lookup, Move, Goto, instanceVars, resourceVars, counterVars
<1>3. ASSUME NEW c \in Connections, TryLock(c) PROVE ChargeInv'
  BY <1>3 DEF TryLock, Move, Goto, Hold, resourceVars, counterVars
<1>4. ASSUME NEW c \in Connections, LockQueued(c) PROVE ChargeInv'
  BY <1>4 DEF LockQueued, Move, Goto, Hold, resourceVars, counterVars
<1>5. ASSUME NEW c \in Connections, CancelQueued(c) PROVE ChargeInv'
  BY <1>5 DEF CancelQueued, Move, Goto, instanceVars, resourceVars,
       counterVars
<1>6. ASSUME NEW c \in Connections, Requeue(c) PROVE ChargeInv'
  BY <1>6 DEF Requeue, Move, Goto, Unlock, resourceVars, counterVars
<1>7. ASSUME NEW c \in Connections, Track(c) PROVE ChargeInv'
  BY <1>7 DEF Track, Move, Goto, Unlock, resourceVars, counterVars
<1>8. ASSUME NEW c \in Connections, DialOk(c) PROVE ChargeInv'
  BY <1>8 DEF DialOk, Move, Goto, instanceVars, resourceVars, counterVars
<1>9. ASSUME NEW c \in Connections, DialFail(c) PROVE ChargeInv'
  BY <1>9 DEF DialFail, Move, Goto, instanceVars, resourceVars, counterVars
<1>10. ASSUME NEW c \in Connections, Restart(c) PROVE ChargeInv'
  BY <1>10 DEF Restart, Goto, CallStop, instanceVars, resourceVars,
       counterVars
<1>11. ASSUME NEW c \in Connections, Register(c) PROVE ChargeInv'
  BY <1>11 DEF Register, Move, Goto, Hold, resourceVars, counterVars
<1>12. ASSUME NEW c \in Connections, ReserveOk(c) PROVE ChargeInv'
  BY <1>12 DEF ReserveOk, Move, Goto, instanceVars, counterVars
<1>13. ASSUME NEW c \in Connections, ReserveMissing(c) PROVE ChargeInv'
  BY <1>13 DEF ReserveMissing, Move, Goto, instanceVars, resourceVars,
       counterVars
<1>14. ASSUME NEW c \in Connections, PickVictim(c) PROVE ChargeInv'
  BY <1>14 DEF PickVictim, Goto, CallStop, instanceVars, resourceVars,
       counterVars
<1>15. ASSUME NEW c \in Connections, Park(c) PROVE ChargeInv'
  BY <1>15 DEF Park, Move, Goto, instanceVars, counterVars
<1>16. ASSUME NEW c \in Connections, Wake(c) PROVE ChargeInv'
  BY <1>16 DEF Wake, Move, Goto, Unpark, instanceVars, counterVars
<1>17. ASSUME NEW c \in Connections, GiveUp(c) PROVE ChargeInv'
  BY <1>17 DEF GiveUp, Move, Goto, Unpark, instanceVars, counterVars
<1>18. ASSUME NEW c \in Connections, Refused(c) PROVE ChargeInv'
  BY <1>18, CleanUpBorn DEF Refused
<1>19. ASSUME NEW c \in Connections, FlagReserved(c) PROVE ChargeInv'
  <2>1. running[Target[c]] = c
    BY <1>19 DEF FlagReserved, Move, PhaseInv
  <2>2. status[c] = "live"
    BY <2>1 DEF RegistryInv, LiveIsRegistered
  <2> QED
    BY <1>19, <2>2 DEF FlagReserved
<1>20. ASSUME NEW c \in Connections, LaunchFail(c) PROVE ChargeInv'
  BY <1>20, CleanUpBorn DEF LaunchFail
<1>21. ASSUME NEW c \in Connections, LaunchOk(c) PROVE ChargeInv'
  BY <1>21 DEF LaunchOk, Move, Goto, resourceVars, counterVars
<1>22. ASSUME NEW c \in Connections, ProbeOk(c) PROVE ChargeInv'
  BY <1>22 DEF ProbeOk, Move, Goto, instanceVars, resourceVars, counterVars
<1>23. ASSUME NEW c \in Connections, ProbeFail(c) PROVE ChargeInv'
  BY <1>23 DEF ProbeFail, Goto, Unlock, CallStop, resourceVars, counterVars
<1>24. ASSUME NEW c \in Connections, Unreserve(c) PROVE ChargeInv'
  BY <1>24 DEF Unreserve, Move, Goto, instanceVars, counterVars
<1>25. ASSUME NEW c \in Connections, Ready(c) PROVE ChargeInv'
  BY <1>25 DEF Ready, Move, Goto, Unlock, counterVars
<1>26. ASSUME NEW c \in Connections, Attach(c) PROVE ChargeInv'
  BY <1>26 DEF Attach, Move, Goto, resourceVars, counterVars
<1>27. ASSUME NEW c \in Connections, Count(c) PROVE ChargeInv'
  BY <1>27 DEF Count, Move, Goto, instanceVars, resourceVars
<1>28. ASSUME NEW c \in Connections, EndProxy(c) PROVE ChargeInv'
  BY <1>28 DEF EndProxy, Move, Goto, resourceVars, counterVars
<1>29. ASSUME NEW c \in Connections, Uncount(c) PROVE ChargeInv'
  BY <1>29 DEF Uncount, Goto, AfterDecrement, instanceVars, resourceVars
<1>30. ASSUME NEW c \in Connections, Fail(c) PROVE ChargeInv'
  BY <1>30 DEF Fail, Goto, AfterDecrement, instanceVars, resourceVars
<1>31. ASSUME NEW c \in Connections, Notify(c) PROVE ChargeInv'
  BY <1>31 DEF Notify, Move, Goto, instanceVars, counterVars
<1>32. ASSUME NEW t \in Threads, StopLookup(t) PROVE ChargeInv'
  BY <1>32 DEF StopLookup, Goto, ReturnFromStop, instanceVars, resourceVars,
       counterVars
<1>33. ASSUME NEW t \in Threads, StopLock(t) PROVE ChargeInv'
  BY <1>33 DEF StopLock, Move, Goto, Hold, resourceVars, counterVars
<1>34. ASSUME NEW t \in Threads, StopFinish(t) PROVE ChargeInv'
  <2>1. ptr[t] \in Instances
    BY <1>34 DEF StopFinish
  <2> QED
    BY <1>34, <2>1, CleanUpBorn DEF StopFinish
<1>35. ASSUME NEW t \in Threads, StopKill(t) PROVE ChargeInv'
  BY <1>35 DEF StopKill, Move, Goto, resourceVars, counterVars
<1>36. ASSUME NEW t \in Threads, StopAbandon(t) PROVE ChargeInv'
  BY <1>36 DEF StopAbandon, Goto, Unlock, ReturnFromStop, resourceVars,
       counterVars
<1>37. ASSUME NEW t \in Timers, IdleDrop(t) PROVE ChargeInv'
  BY <1>37 DEF IdleDrop, Move, Goto, instanceVars, resourceVars, counterVars
<1>38. ASSUME NEW t \in Timers, IdleRearm(t) PROVE ChargeInv'
  BY <1>38 DEF IdleRearm, Move, Goto, resourceVars, counterVars
<1>39. ASSUME NEW t \in Timers, IdleStop(t) PROVE ChargeInv'
  BY <1>39 DEF IdleStop, Goto, CallStop, instanceVars, resourceVars,
       counterVars
<1>40. ASSUME NEW t \in Timers, NEW i \in Instances, TimerFire(t, i) PROVE ChargeInv'
  BY <1>40 DEF TimerFire, Move, Goto, resourceVars, counterVars
<1>41. ASSUME NEW i \in Instances, Exit(i) PROVE ChargeInv'
  BY <1>41 DEF Exit, threadVars, resourceVars, counterVars
<1>42. ASSUME NEW i \in Instances, MonitorClean(i) PROVE ChargeInv'
  BY <1>42, CleanUpBorn DEF MonitorClean
<1> QED
  BY <1>1, <1>2, <1>3, <1>4, <1>5, <1>6, <1>7, <1>8, <1>9, <1>10, <1>11, <1>12,
     <1>13, <1>14, <1>15, <1>16, <1>17, <1>18, <1>19, <1>20, <1>21, <1>22,
     <1>23, <1>24, <1>25, <1>26, <1>27, <1>28, <1>29, <1>30, <1>31, <1>32,
     <1>33, <1>34, <1>35, <1>36, <1>37, <1>38, <1>39, <1>40, <1>41, <1>42
  DEF Next, ClientStep, ProgramStep, StopStep, IdleStep
-----------------------------------------------------------------------------
\* A broadcast fills the registered channels and unregisters none.
LEMMA BroadcastKeeps ==
  ASSUME TypeInv, NEW rs, Broadcast(rs), NEW r \in Resources, NEW s \in Services
  PROVE  chan[r][s] # "none" => chan'[r][s] # "none" /\ (r \in rs => chan'[r][s] = "full")
BY DEF Broadcast, TypeInv

\* A cleanup unregisters no channel either.
LEMMA CleanUpKeeps ==
  ASSUME TypeInv, NEW i \in Instances, CleanUp(i),
         NEW r \in Resources, NEW s \in Services, chan[r][s] # "none"
  PROVE  chan'[r][s] # "none"
<1>1. CASE status[i] = "released"
  BY <1>1 DEF CleanUp
<1>2. CASE status[i] # "released"
  BY <1>2, BroadcastKeeps DEF CleanUp, Release
<1> QED
  BY <1>1, <1>2

\* A step by others that keeps the registered channels, and does not end in the
\* select of reserveResources, keeps the invariant.
LEMMA ParkKept ==
  ASSUME TypeInv, LocalsInv, ParkInv,
         \A c \in Connections : pc'[c] = "parked" =>
            /\ pc[c] = "parked" /\ missing'[c] = missing[c]
            /\ chan[missing[c]][Target[c]] # "none"
                    => chan'[missing[c]][Target[c]] # "none"
  PROVE  ParkInv'
BY DEF ParkInv

\* Every step leaves a parked connection registered: no other reserves for its
\* service.
LEMMA ParkPreserved ==
  ASSUME TypeInv, LocalsInv, PhaseInv, ParkInv, Next
  PROVE  ParkInv'
<1> USE ThreadsAssumption, ConfigAssumption, NoneAssumption
<1> USE DEF TypeInv, LocalsInv, Threads, Instances, StopCall
<1>1. ASSUME NEW c \in Connections, Accept(c) PROVE ParkInv'
  BY <1>1, ParkKept DEF Accept, Move, Goto, instanceVars, resourceVars
<1>2. ASSUME NEW c \in Connections, Lookup(c) PROVE ParkInv'
  BY <1>2, ParkKept DEF Lookup, Move, Goto, instanceVars, resourceVars,
       counterVars
<1>3. ASSUME NEW c \in Connections, TryLock(c) PROVE ParkInv'
  BY <1>3, ParkKept DEF TryLock, Move, Goto, resourceVars, counterVars
<1>4. ASSUME NEW c \in Connections, LockQueued(c) PROVE ParkInv'
  BY <1>4, ParkKept DEF LockQueued, Move, Goto, resourceVars, counterVars
<1>5. ASSUME NEW c \in Connections, CancelQueued(c) PROVE ParkInv'
  BY <1>5, ParkKept DEF CancelQueued, Move, Goto, instanceVars, resourceVars,
       counterVars
<1>6. ASSUME NEW c \in Connections, Requeue(c) PROVE ParkInv'
  BY <1>6, ParkKept DEF Requeue, Move, Goto, resourceVars, counterVars
<1>7. ASSUME NEW c \in Connections, Track(c) PROVE ParkInv'
  BY <1>7, ParkKept DEF Track, Move, Goto, resourceVars, counterVars
<1>8. ASSUME NEW c \in Connections, DialOk(c) PROVE ParkInv'
  BY <1>8, ParkKept DEF DialOk, Move, Goto, instanceVars, resourceVars,
       counterVars
<1>9. ASSUME NEW c \in Connections, DialFail(c) PROVE ParkInv'
  BY <1>9, ParkKept DEF DialFail, Move, Goto, instanceVars, resourceVars,
       counterVars
<1>10. ASSUME NEW c \in Connections, Restart(c) PROVE ParkInv'
  <2>1. pc[c] = "restart" /\ UNCHANGED <<missing, chan>>
    BY <1>10 DEF Restart, resourceVars
  <2>2. pc' = [pc EXCEPT ![c] = "stopLookup"] \/ pc' = [pc EXCEPT ![c] = "register"]
    BY <1>10 DEF Restart, CallStop, Goto
  <2> QED
    BY <2>1, <2>2, ParkKept
<1>11. ASSUME NEW c \in Connections, Register(c) PROVE ParkInv'
  BY <1>11, ParkKept DEF Register, Move, Goto, resourceVars, counterVars
<1>12. ASSUME NEW c \in Connections, ReserveOk(c) PROVE ParkInv'
  <2>1. /\ pc[c] = "reserve" /\ pc' = [pc EXCEPT ![c] = "flag"]
        /\ \A d \in Connections \ {c} : missing'[d] = missing[d]
        /\ \A r \in Resources, s \in Services \ {Target[c]} :
                chan'[r][s] = chan[r][s]
    BY <1>12 DEF ReserveOk, Move, Goto
  <2>2. \A d \in Connections : pc[d] = "parked" => Target[d] # Target[c]
    BY <2>1 DEF PhaseInv, Reserving
  <2> QED
    BY <2>1, <2>2, ParkKept
<1>13. ASSUME NEW c \in Connections, ReserveMissing(c) PROVE ParkInv'
  <2>1. /\ pc' = [pc EXCEPT ![c] = "pick"] /\ UNCHANGED chan
        /\ \A d \in Connections \ {c} : missing'[d] = missing[d]
    BY <1>13 DEF ReserveMissing, Move, Goto, resourceVars
  <2> QED
    BY <2>1, ParkKept
<1>14. ASSUME NEW c \in Connections, PickVictim(c) PROVE ParkInv'
  <2>1. pc[c] = "pick" /\ UNCHANGED <<missing, chan>>
    BY <1>14 DEF PickVictim, resourceVars
  <2>2. pc' = [pc EXCEPT ![c] = "stopLookup"] \/ pc' = [pc EXCEPT ![c] = "park"]
    BY <1>14 DEF PickVictim, CallStop, Goto
  <2> QED
    BY <2>1, <2>2, ParkKept
<1>15. ASSUME NEW c \in Connections, Park(c) PROVE ParkInv'
  <2>1. /\ pc[c] = "park" /\ pc' = [pc EXCEPT ![c] = "parked"]
        /\ UNCHANGED missing
        /\ chan' = [chan EXCEPT ![missing[c]][Target[c]] = "empty"]
    BY <1>15 DEF Park, Move, Goto
  <2>2. missing[c] \in Resources /\ Target[c] \in Services
    BY <2>1
  <2>3. \A r \in Resources, s \in Services :
            chan'[r][s] = chan[r][s] \/ chan'[r][s] = "empty"
    BY <2>1, <2>2
  <2>4. chan'[missing[c]][Target[c]] = "empty"
    BY <2>1, <2>2
  <2>5. ASSUME NEW d \in Connections, pc'[d] = "parked"
        PROVE  chan'[missing'[d]][Target[d]] # "none"
    <3>1. CASE d = c
      BY <2>1, <2>4, <3>1
    <3>2. CASE d # c
      <4>1. pc[d] = "parked" /\ missing[d] \in Resources /\ Target[d] \in Services
        BY <2>1, <2>5, <3>2
      <4> QED
        BY <2>1, <2>3, <4>1 DEF ParkInv
    <3> QED
      BY <3>1, <3>2
  <2> QED
    BY <2>5 DEF ParkInv
<1>16. ASSUME NEW c \in Connections, Wake(c) PROVE ParkInv'
  <2>1. /\ pc[c] = "parked" /\ pc'[c] # "parked"
        /\ \A d \in Connections \ {c} :
                missing'[d] = missing[d] /\ pc'[d] = pc[d]
        /\ \A r \in Resources, s \in Services \ {Target[c]} :
                chan'[r][s] = chan[r][s]
    BY <1>16 DEF Wake, Unpark, Move, Goto
  <2>2. \A d \in Connections \ {c} : pc[d] = "parked" => Target[d] # Target[c]
    BY <2>1 DEF PhaseInv, Reserving
  <2> QED
    BY <2>1, <2>2, ParkKept
<1>17. ASSUME NEW c \in Connections, GiveUp(c) PROVE ParkInv'
  <2>1. /\ pc[c] = "parked" /\ pc'[c] # "parked"
        /\ \A d \in Connections \ {c} :
                missing'[d] = missing[d] /\ pc'[d] = pc[d]
        /\ \A r \in Resources, s \in Services \ {Target[c]} :
                chan'[r][s] = chan[r][s]
    BY <1>17 DEF GiveUp, Unpark, Move, Goto
  <2>2. \A d \in Connections \ {c} : pc[d] = "parked" => Target[d] # Target[c]
    BY <2>1 DEF PhaseInv, Reserving
  <2> QED
    BY <2>1, <2>2, ParkKept
<1>18. ASSUME NEW c \in Connections, Refused(c) PROVE ParkInv'
  <2>1. /\ c \in Instances /\ CleanUp(c) /\ UNCHANGED missing
        /\ pc' = [pc EXCEPT ![c] = "fail"]
    BY <1>18 DEF Refused, Move, Goto
  <2>2. \A r \in Resources, s \in Services :
            chan[r][s] # "none" => chan'[r][s] # "none"
    BY <2>1, CleanUpKeeps
  <2> QED
    BY <2>1, <2>2, ParkKept
<1>19. ASSUME NEW c \in Connections, FlagReserved(c) PROVE ParkInv'
  BY <1>19, ParkKept DEF FlagReserved, Move, Goto, resourceVars, counterVars
<1>20. ASSUME NEW c \in Connections, LaunchFail(c) PROVE ParkInv'
  <2>1. /\ c \in Instances /\ CleanUp(c) /\ UNCHANGED missing
        /\ pc' = [pc EXCEPT ![c] = "fail"]
    BY <1>20 DEF LaunchFail, Move, Goto
  <2>2. \A r \in Resources, s \in Services :
            chan[r][s] # "none" => chan'[r][s] # "none"
    BY <2>1, CleanUpKeeps
  <2> QED
    BY <2>1, <2>2, ParkKept
<1>21. ASSUME NEW c \in Connections, LaunchOk(c) PROVE ParkInv'
  BY <1>21, ParkKept DEF LaunchOk, Move, Goto, resourceVars, counterVars
<1>22. ASSUME NEW c \in Connections, ProbeOk(c) PROVE ParkInv'
  BY <1>22, ParkKept DEF ProbeOk, Move, Goto, instanceVars, resourceVars,
       counterVars
<1>23. ASSUME NEW c \in Connections, ProbeFail(c) PROVE ParkInv'
  BY <1>23, ParkKept DEF ProbeFail, Goto, CallStop, resourceVars, counterVars
<1>24. ASSUME NEW c \in Connections, Unreserve(c) PROVE ParkInv'
  BY <1>24, ParkKept DEF Unreserve, Move, Goto, instanceVars, counterVars
<1>25. ASSUME NEW c \in Connections, Ready(c) PROVE ParkInv'
  BY <1>25, ParkKept DEF Ready, Move, Goto, counterVars
<1>26. ASSUME NEW c \in Connections, Attach(c) PROVE ParkInv'
  BY <1>26, ParkKept DEF Attach, Move, Goto, resourceVars, counterVars
<1>27. ASSUME NEW c \in Connections, Count(c) PROVE ParkInv'
  BY <1>27, ParkKept DEF Count, Move, Goto, instanceVars, resourceVars
<1>28. ASSUME NEW c \in Connections, EndProxy(c) PROVE ParkInv'
  BY <1>28, ParkKept DEF EndProxy, Move, Goto, resourceVars, counterVars
<1>29. ASSUME NEW c \in Connections, Uncount(c) PROVE ParkInv'
  BY <1>29, ParkKept DEF Uncount, Goto, AfterDecrement, instanceVars,
       resourceVars
<1>30. ASSUME NEW c \in Connections, Fail(c) PROVE ParkInv'
  BY <1>30, ParkKept DEF Fail, Goto, AfterDecrement, instanceVars, resourceVars
<1>31. ASSUME NEW c \in Connections, Notify(c) PROVE ParkInv'
  <2>1. /\ pc' = [pc EXCEPT ![c] = "done"] /\ UNCHANGED missing
        /\ Broadcast(Needs(Target[c]))
    BY <1>31 DEF Notify, Move, Goto
  <2> HIDE DEF TypeInv, LocalsInv
  <2>2. \A r \in Resources, s \in Services :
            chan[r][s] # "none" => chan'[r][s] # "none"
    BY <2>1, BroadcastKeeps
  <2> USE DEF TypeInv, LocalsInv
  <2> QED
    BY <2>1, <2>2, ParkKept
<1>32. ASSUME NEW t \in Threads, StopLookup(t) PROVE ParkInv'
  <2>1. /\ pc[t] = "stopLookup" /\ UNCHANGED <<missing, chan>>
        /\ then[t] \in {"reserve", "register", "unreserve", "off"}
    BY <1>32 DEF StopLookup, resourceVars
  <2>2. CASE pc' = [pc EXCEPT ![t] = then[t]]
    BY <2>1, <2>2, ParkKept
  <2>3. CASE pc' = [pc EXCEPT ![t] = "stopLock"]
    BY <2>1, <2>3, ParkKept
  <2> QED
    BY <1>32, <2>2, <2>3 DEF StopLookup, ReturnFromStop, Goto
<1>33. ASSUME NEW t \in Threads, StopLock(t) PROVE ParkInv'
  BY <1>33, ParkKept DEF StopLock, Move, Goto, resourceVars, counterVars
<1>34. ASSUME NEW t \in Threads, StopFinish(t) PROVE ParkInv'
  <2>1. /\ ptr[t] \in Instances /\ CleanUp(ptr[t]) /\ UNCHANGED missing
        /\ then[t] \in {"reserve", "register", "unreserve", "off"}
        /\ pc' = [pc EXCEPT ![t] = then[t]]
    BY <1>34 DEF StopFinish, ReturnFromStop, Goto
  <2>2. \A r \in Resources, s \in Services :
            chan[r][s] # "none" => chan'[r][s] # "none"
    BY <2>1, CleanUpKeeps
  <2> QED
    BY <2>1, <2>2, ParkKept
<1>35. ASSUME NEW t \in Threads, StopKill(t) PROVE ParkInv'
  BY <1>35, ParkKept DEF StopKill, Move, Goto, resourceVars, counterVars
<1>36. ASSUME NEW t \in Threads, StopAbandon(t) PROVE ParkInv'
  <2>1. /\ pc[t] = "wait" /\ UNCHANGED <<missing, chan>>
        /\ then[t] \in {"reserve", "register", "unreserve", "off"}
        /\ pc' = [pc EXCEPT ![t] = then[t]]
    BY <1>36 DEF StopAbandon, resourceVars, ReturnFromStop, Goto
  <2> QED
    BY <2>1, ParkKept
<1>37. ASSUME NEW t \in Timers, IdleDrop(t) PROVE ParkInv'
  BY <1>37, ParkKept DEF IdleDrop, Move, Goto, instanceVars, resourceVars,
       counterVars
<1>38. ASSUME NEW t \in Timers, IdleRearm(t) PROVE ParkInv'
  BY <1>38, ParkKept DEF IdleRearm, Move, Goto, resourceVars, counterVars
<1>39. ASSUME NEW t \in Timers, IdleStop(t) PROVE ParkInv'
  BY <1>39, ParkKept DEF IdleStop, Goto, CallStop, instanceVars, resourceVars,
       counterVars
<1>40. ASSUME NEW t \in Timers, NEW i \in Instances, TimerFire(t, i) PROVE ParkInv'
  BY <1>40, ParkKept DEF TimerFire, Move, Goto, resourceVars, counterVars
<1>41. ASSUME NEW i \in Instances, Exit(i) PROVE ParkInv'
  BY <1>41, ParkKept DEF Exit, threadVars, resourceVars, counterVars
<1>42. ASSUME NEW i \in Instances, MonitorClean(i) PROVE ParkInv'
  <2>1. UNCHANGED <<pc, missing>>
    BY <1>42 DEF MonitorClean, threadVars
  <2>2. \A r \in Resources, s \in Services :
            chan[r][s] # "none" => chan'[r][s] # "none"
    BY <1>42, CleanUpKeeps DEF MonitorClean
  <2> QED
    BY <2>1, <2>2, ParkKept
<1> QED
  BY <1>1, <1>2, <1>3, <1>4, <1>5, <1>6, <1>7, <1>8, <1>9, <1>10, <1>11, <1>12,
     <1>13, <1>14, <1>15, <1>16, <1>17, <1>18, <1>19, <1>20, <1>21, <1>22,
     <1>23, <1>24, <1>25, <1>26, <1>27, <1>28, <1>29, <1>30, <1>31, <1>32,
     <1>33, <1>34, <1>35, <1>36, <1>37, <1>38, <1>39, <1>40, <1>41, <1>42
  DEF Next, ClientStep, ProgramStep, StopStep, IdleStep
-----------------------------------------------------------------------------
\* The connections of s that wait and those that are proxied.
WaitingOf(s) == {c \in Connections : Target[c] = s /\ Waiting(c)}
ProxiedOf(s) == {c \in Connections : Target[c] = s /\ Proxied(c)}

\* There are finitely many of them.
LEMMA CountsFinite ==
  ASSUME NEW s
  PROVE  IsFiniteSet(WaitingOf(s)) /\ IsFiniteSet(ProxiedOf(s))
BY ThreadsAssumption, FS_Subset DEF WaitingOf, ProxiedOf

\* A step that leaves everybody in the class the counters have him in keeps
\* them right.
LEMMA CountsKept ==
  ASSUME CountsMatch, UNCHANGED counterVars,
         \A c \in Connections :
            (Waiting(c)' <=> Waiting(c)) /\ (Proxied(c)' <=> Proxied(c))
  PROVE  CountsMatch'
<1>1. ASSUME NEW s \in Services
      PROVE  WaitingOf(s)' = WaitingOf(s) /\ ProxiedOf(s)' = ProxiedOf(s)
  BY DEF WaitingOf, ProxiedOf
<1> QED
  BY <1>1 DEF CountsMatch, WaitingOf, ProxiedOf, counterVars

\* A goroutine that moves within its class keeps them right.
LEMMA CountsMove ==
  ASSUME CountsMatch, UNCHANGED counterVars, NEW t \in Threads,
         NEW p, pc' = [pc EXCEPT ![t] = p], TypeInv,
         \/ /\ pc[t] \notin {"new", "proxied", "uncount", "notify", "done"}
            /\ p \notin {"new", "proxied", "uncount", "notify", "done"}
         \/ pc[t] \in {"proxied", "uncount"} /\ p \in {"proxied", "uncount"}
         \/ pc[t] \in {"notify", "done"} /\ p \in {"notify", "done"}
  PROVE  CountsMatch'
BY CountsKept DEF TypeInv, Waiting, Proxied, Threads

\* Every step counts a connection in and out of its classes.
LEMMA CountsPreserved ==
  ASSUME TypeInv, LocalsInv, CountsMatch, Next
  PROVE  CountsMatch'
<1> USE ThreadsAssumption, ConfigAssumption, NoneAssumption
<1> USE DEF TypeInv, LocalsInv, Threads, Instances, StopCall
<1>1. ASSUME NEW c \in Connections, Accept(c) PROVE CountsMatch'
  <2> DEFINE s == Target[c]
  <2>1. s \in Services /\ waiting[s] \in Nat /\ proxied[s] \in Nat /\ c \in Threads
    OBVIOUS
  <2>2. \A u \in Services : /\ waiting[u] = Cardinality(WaitingOf(u))
                            /\ proxied[u] = Cardinality(ProxiedOf(u))
    BY DEF CountsMatch, WaitingOf, ProxiedOf
  <2>3. /\ pc[c] = "new" /\ pc'[c] = "lookup" /\ (\A d \in Connections \ {c} : pc'[d] = pc[d])
        /\ waiting' = [waiting EXCEPT ![s] = waiting[s] + 1] /\ UNCHANGED proxied
    BY <1>1, <2>1 DEF Accept, Move, Goto, Decrement, AfterDecrement
  <2>4. /\ \A u \in Services : WaitingOf(u)' = IF u = s THEN WaitingOf(s) \cup {c} ELSE WaitingOf(u)
        /\ \A u \in Services : ProxiedOf(u)' = IF u = s THEN ProxiedOf(s) ELSE ProxiedOf(u)
        /\ c \notin WaitingOf(s)
    BY <2>1, <2>3 DEF WaitingOf, ProxiedOf, Waiting, Proxied
  <2>5. Cardinality(WaitingOf(s) \cup {c}) = Cardinality(WaitingOf(s)) + 1
    BY <2>4, CountsFinite, FS_AddElement
  <2> HIDE DEF s
  <2>8. ASSUME NEW u \in Services
        PROVE  /\ waiting'[u] = Cardinality(WaitingOf(u)')
               /\ proxied'[u] = Cardinality(ProxiedOf(u)')
    <3>1. CASE u = s
      <4>1. waiting'[s] = Cardinality(WaitingOf(s)')
        BY <2>1, <2>2, <2>3, <2>4, <2>5
      <4>2. proxied'[s] = Cardinality(ProxiedOf(s)')
        BY <2>1, <2>2, <2>3, <2>4
      <4> QED
        BY <3>1, <4>1, <4>2
    <3>2. CASE u # s
      <4>1. WaitingOf(u)' = WaitingOf(u) /\ ProxiedOf(u)' = ProxiedOf(u)
        BY <2>4, <3>2
      <4>2. waiting'[u] = waiting[u] /\ proxied'[u] = proxied[u]
        BY <2>3, <3>2
      <4> QED
        BY <2>2, <4>1, <4>2
    <3> QED
      BY <3>1, <3>2
  <2> QED
    BY <2>8 DEF CountsMatch, WaitingOf, ProxiedOf
<1>2. ASSUME NEW c \in Connections, Lookup(c) PROVE CountsMatch'
  BY <1>2, CountsMove DEF Lookup, Move, Goto, instanceVars, resourceVars,
       counterVars
<1>3. ASSUME NEW c \in Connections, TryLock(c) PROVE CountsMatch'
  BY <1>3, CountsMove DEF TryLock, Move, Goto, resourceVars, counterVars
<1>4. ASSUME NEW c \in Connections, LockQueued(c) PROVE CountsMatch'
  BY <1>4, CountsMove DEF LockQueued, Move, Goto, resourceVars, counterVars
<1>5. ASSUME NEW c \in Connections, CancelQueued(c) PROVE CountsMatch'
  BY <1>5, CountsMove DEF CancelQueued, Move, Goto, instanceVars, resourceVars,
       counterVars
<1>6. ASSUME NEW c \in Connections, Requeue(c) PROVE CountsMatch'
  BY <1>6, CountsMove DEF Requeue, Move, Goto, resourceVars, counterVars
<1>7. ASSUME NEW c \in Connections, Track(c) PROVE CountsMatch'
  BY <1>7, CountsMove DEF Track, Move, Goto, resourceVars, counterVars
<1>8. ASSUME NEW c \in Connections, DialOk(c) PROVE CountsMatch'
  BY <1>8, CountsMove DEF DialOk, Move, Goto, instanceVars, resourceVars,
       counterVars
<1>9. ASSUME NEW c \in Connections, DialFail(c) PROVE CountsMatch'
  BY <1>9, CountsMove DEF DialFail, Move, Goto, instanceVars, resourceVars,
       counterVars
<1>10. ASSUME NEW c \in Connections, Restart(c) PROVE CountsMatch'
  <2>1. pc[c] = "restart" /\ UNCHANGED counterVars /\ c \in Threads
    BY <1>10 DEF Restart
  <2>2. pc' = [pc EXCEPT ![c] = "stopLookup"] \/ pc' = [pc EXCEPT ![c] = "register"]
    BY <1>10 DEF Restart, CallStop, Goto
  <2> QED
    BY <2>1, <2>2, CountsMove
<1>11. ASSUME NEW c \in Connections, Register(c) PROVE CountsMatch'
  BY <1>11, CountsMove DEF Register, Move, Goto, resourceVars, counterVars
<1>12. ASSUME NEW c \in Connections, ReserveOk(c) PROVE CountsMatch'
  BY <1>12, CountsMove DEF ReserveOk, Move, Goto, instanceVars, counterVars
<1>13. ASSUME NEW c \in Connections, ReserveMissing(c) PROVE CountsMatch'
  BY <1>13, CountsMove DEF ReserveMissing, Move, Goto, instanceVars,
       resourceVars, counterVars
<1>14. ASSUME NEW c \in Connections, PickVictim(c) PROVE CountsMatch'
  <2>1. pc[c] = "pick" /\ UNCHANGED counterVars /\ c \in Threads
    BY <1>14 DEF PickVictim
  <2>2. pc' = [pc EXCEPT ![c] = "stopLookup"] \/ pc' = [pc EXCEPT ![c] = "park"]
    BY <1>14 DEF PickVictim, CallStop, Goto
  <2> QED
    BY <2>1, <2>2, CountsMove
<1>15. ASSUME NEW c \in Connections, Park(c) PROVE CountsMatch'
  BY <1>15, CountsMove DEF Park, Move, Goto, instanceVars, counterVars
<1>16. ASSUME NEW c \in Connections, Wake(c) PROVE CountsMatch'
  BY <1>16, CountsMove DEF Wake, Move, Goto, Unpark, instanceVars, counterVars
<1>17. ASSUME NEW c \in Connections, GiveUp(c) PROVE CountsMatch'
  BY <1>17, CountsMove DEF GiveUp, Move, Goto, Unpark, instanceVars,
       counterVars
<1>18. ASSUME NEW c \in Connections, Refused(c) PROVE CountsMatch'
  BY <1>18, CountsMove DEF Refused, Move, Goto, counterVars
<1>19. ASSUME NEW c \in Connections, FlagReserved(c) PROVE CountsMatch'
  BY <1>19, CountsMove DEF FlagReserved, Move, Goto, resourceVars, counterVars
<1>20. ASSUME NEW c \in Connections, LaunchFail(c) PROVE CountsMatch'
  BY <1>20, CountsMove DEF LaunchFail, Move, Goto, counterVars
<1>21. ASSUME NEW c \in Connections, LaunchOk(c) PROVE CountsMatch'
  BY <1>21, CountsMove DEF LaunchOk, Move, Goto, resourceVars, counterVars
<1>22. ASSUME NEW c \in Connections, ProbeOk(c) PROVE CountsMatch'
  BY <1>22, CountsMove DEF ProbeOk, Move, Goto, instanceVars, resourceVars,
       counterVars
<1>23. ASSUME NEW c \in Connections, ProbeFail(c) PROVE CountsMatch'
  BY <1>23, CountsMove DEF ProbeFail, Goto, CallStop, resourceVars, counterVars
<1>24. ASSUME NEW c \in Connections, Unreserve(c) PROVE CountsMatch'
  BY <1>24, CountsMove DEF Unreserve, Move, Goto, instanceVars, counterVars
<1>25. ASSUME NEW c \in Connections, Ready(c) PROVE CountsMatch'
  BY <1>25, CountsMove DEF Ready, Move, Goto, counterVars
<1>26. ASSUME NEW c \in Connections, Attach(c) PROVE CountsMatch'
  BY <1>26, CountsMove DEF Attach, Move, Goto, resourceVars, counterVars
<1>27. ASSUME NEW c \in Connections, Count(c) PROVE CountsMatch'
  <2> DEFINE s == Target[c]
  <2>1. s \in Services /\ waiting[s] \in Nat /\ proxied[s] \in Nat /\ c \in Threads
    OBVIOUS
  <2>2. \A u \in Services : /\ waiting[u] = Cardinality(WaitingOf(u))
                            /\ proxied[u] = Cardinality(ProxiedOf(u))
    BY DEF CountsMatch, WaitingOf, ProxiedOf
  <2>3. /\ pc[c] = "count" /\ pc'[c] = "proxied" /\ (\A d \in Connections \ {c} : pc'[d] = pc[d])
        /\ waiting' = [waiting EXCEPT ![s] = Decrement(waiting[s])]
        /\ proxied' = [proxied EXCEPT ![s] = proxied[s] + 1]
    BY <1>27, <2>1 DEF Count, Move, Goto, Decrement, AfterDecrement
  <2>4. /\ \A u \in Services : WaitingOf(u)' = IF u = s THEN WaitingOf(s) \ {c} ELSE WaitingOf(u)
        /\ \A u \in Services : ProxiedOf(u)' = IF u = s THEN ProxiedOf(s) \cup {c} ELSE ProxiedOf(u)
        /\ c \in WaitingOf(s) /\ c \notin ProxiedOf(s)
    BY <2>1, <2>3 DEF WaitingOf, ProxiedOf, Waiting, Proxied
  <2>5. /\ Cardinality(WaitingOf(s) \ {c}) = Cardinality(WaitingOf(s)) - 1
        /\ Cardinality(WaitingOf(s) \ {c}) \in Nat
    BY <2>4, CountsFinite, FS_RemoveElement, FS_CardinalityType
  <2>6. Decrement(waiting[s]) = Cardinality(WaitingOf(s) \ {c})
    BY <2>1, <2>2, <2>5 DEF Decrement
  <2>7. Cardinality(ProxiedOf(s) \cup {c}) = Cardinality(ProxiedOf(s)) + 1
    BY <2>4, CountsFinite, FS_AddElement
  <2> HIDE DEF s
  <2>8. ASSUME NEW u \in Services
        PROVE  /\ waiting'[u] = Cardinality(WaitingOf(u)')
               /\ proxied'[u] = Cardinality(ProxiedOf(u)')
    <3>1. CASE u = s
      <4>1. waiting'[s] = Cardinality(WaitingOf(s)')
        BY <2>1, <2>3, <2>4, <2>6
      <4>2. proxied'[s] = Cardinality(ProxiedOf(s)')
        BY <2>1, <2>2, <2>3, <2>4, <2>7
      <4> QED
        BY <3>1, <4>1, <4>2
    <3>2. CASE u # s
      <4>1. WaitingOf(u)' = WaitingOf(u) /\ ProxiedOf(u)' = ProxiedOf(u)
        BY <2>4, <3>2
      <4>2. waiting'[u] = waiting[u] /\ proxied'[u] = proxied[u]
        BY <2>3, <3>2
      <4> QED
        BY <2>2, <4>1, <4>2
    <3> QED
      BY <3>1, <3>2
  <2> QED
    BY <2>8 DEF CountsMatch, WaitingOf, ProxiedOf
<1>28. ASSUME NEW c \in Connections, EndProxy(c) PROVE CountsMatch'
  BY <1>28, CountsMove DEF EndProxy, Move, Goto, resourceVars, counterVars
<1>29. ASSUME NEW c \in Connections, Uncount(c) PROVE CountsMatch'
  <2> DEFINE s == Target[c]
  <2>1. s \in Services /\ waiting[s] \in Nat /\ proxied[s] \in Nat /\ c \in Threads
    OBVIOUS
  <2>2. \A u \in Services : /\ waiting[u] = Cardinality(WaitingOf(u))
                            /\ proxied[u] = Cardinality(ProxiedOf(u))
    BY DEF CountsMatch, WaitingOf, ProxiedOf
  <2>3. /\ pc[c] = "uncount" /\ pc'[c] \in {"notify", "done"} /\ (\A d \in Connections \ {c} : pc'[d] = pc[d])
        /\ proxied' = [proxied EXCEPT ![s] = Decrement(proxied[s])] /\ UNCHANGED waiting
    BY <1>29, <2>1 DEF Uncount, Move, Goto, Decrement, AfterDecrement
  <2>4. /\ \A u \in Services : WaitingOf(u)' = IF u = s THEN WaitingOf(s) ELSE WaitingOf(u)
        /\ \A u \in Services : ProxiedOf(u)' = IF u = s THEN ProxiedOf(s) \ {c} ELSE ProxiedOf(u)
        /\ c \in ProxiedOf(s)
    BY <2>1, <2>3 DEF WaitingOf, ProxiedOf, Waiting, Proxied
  <2>5. /\ Cardinality(ProxiedOf(s) \ {c}) = Cardinality(ProxiedOf(s)) - 1
        /\ Cardinality(ProxiedOf(s) \ {c}) \in Nat
    BY <2>4, CountsFinite, FS_RemoveElement, FS_CardinalityType
  <2>6. Decrement(proxied[s]) = Cardinality(ProxiedOf(s) \ {c})
    BY <2>1, <2>2, <2>5 DEF Decrement
  <2> HIDE DEF s
  <2>8. ASSUME NEW u \in Services
        PROVE  /\ waiting'[u] = Cardinality(WaitingOf(u)')
               /\ proxied'[u] = Cardinality(ProxiedOf(u)')
    <3>1. CASE u = s
      <4>1. waiting'[s] = Cardinality(WaitingOf(s)')
        BY <2>1, <2>2, <2>3, <2>4
      <4>2. proxied'[s] = Cardinality(ProxiedOf(s)')
        BY <2>1, <2>3, <2>4, <2>6
      <4> QED
        BY <3>1, <4>1, <4>2
    <3>2. CASE u # s
      <4>1. WaitingOf(u)' = WaitingOf(u) /\ ProxiedOf(u)' = ProxiedOf(u)
        BY <2>4, <3>2
      <4>2. waiting'[u] = waiting[u] /\ proxied'[u] = proxied[u]
        BY <2>3, <3>2
      <4> QED
        BY <2>2, <4>1, <4>2
    <3> QED
      BY <3>1, <3>2
  <2> QED
    BY <2>8 DEF CountsMatch, WaitingOf, ProxiedOf
<1>30. ASSUME NEW c \in Connections, Fail(c) PROVE CountsMatch'
  <2> DEFINE s == Target[c]
  <2>1. s \in Services /\ waiting[s] \in Nat /\ proxied[s] \in Nat /\ c \in Threads
    OBVIOUS
  <2>2. \A u \in Services : /\ waiting[u] = Cardinality(WaitingOf(u))
                            /\ proxied[u] = Cardinality(ProxiedOf(u))
    BY DEF CountsMatch, WaitingOf, ProxiedOf
  <2>3. /\ pc[c] = "fail" /\ pc'[c] \in {"notify", "done"} /\ (\A d \in Connections \ {c} : pc'[d] = pc[d])
        /\ waiting' = [waiting EXCEPT ![s] = Decrement(waiting[s])] /\ UNCHANGED proxied
    BY <1>30, <2>1 DEF Fail, Move, Goto, Decrement, AfterDecrement
  <2>4. /\ \A u \in Services : WaitingOf(u)' = IF u = s THEN WaitingOf(s) \ {c} ELSE WaitingOf(u)
        /\ \A u \in Services : ProxiedOf(u)' = IF u = s THEN ProxiedOf(s) ELSE ProxiedOf(u)
        /\ c \in WaitingOf(s)
    BY <2>1, <2>3 DEF WaitingOf, ProxiedOf, Waiting, Proxied
  <2>5. /\ Cardinality(WaitingOf(s) \ {c}) = Cardinality(WaitingOf(s)) - 1
        /\ Cardinality(WaitingOf(s) \ {c}) \in Nat
    BY <2>4, CountsFinite, FS_RemoveElement, FS_CardinalityType
  <2>6. Decrement(waiting[s]) = Cardinality(WaitingOf(s) \ {c})
    BY <2>1, <2>2, <2>5 DEF Decrement
  <2> HIDE DEF s
  <2>8. ASSUME NEW u \in Services
        PROVE  /\ waiting'[u] = Cardinality(WaitingOf(u)')
               /\ proxied'[u] = Cardinality(ProxiedOf(u)')
    <3>1. CASE u = s
      <4>1. waiting'[s] = Cardinality(WaitingOf(s)')
        BY <2>1, <2>3, <2>4, <2>6
      <4>2. proxied'[s] = Cardinality(ProxiedOf(s)')
        BY <2>1, <2>2, <2>3, <2>4
      <4> QED
        BY <3>1, <4>1, <4>2
    <3>2. CASE u # s
      <4>1. WaitingOf(u)' = WaitingOf(u) /\ ProxiedOf(u)' = ProxiedOf(u)
        BY <2>4, <3>2
      <4>2. waiting'[u] = waiting[u] /\ proxied'[u] = proxied[u]
        BY <2>3, <3>2
      <4> QED
        BY <2>2, <4>1, <4>2
    <3> QED
      BY <3>1, <3>2
  <2> QED
    BY <2>8 DEF CountsMatch, WaitingOf, ProxiedOf
<1>31. ASSUME NEW c \in Connections, Notify(c) PROVE CountsMatch'
  BY <1>31, CountsMove DEF Notify, Move, Goto, instanceVars, counterVars
<1>32. ASSUME NEW t \in Threads, StopLookup(t) PROVE CountsMatch'
  <2>1. /\ pc[t] = "stopLookup" /\ UNCHANGED counterVars
        /\ then[t] \in {"reserve", "register", "unreserve", "off"}
    BY <1>32 DEF StopLookup
  <2>2. CASE pc' = [pc EXCEPT ![t] = then[t]]
    BY <2>1, <2>2, CountsMove
  <2>3. CASE pc' = [pc EXCEPT ![t] = "stopLock"]
    BY <2>1, <2>3, CountsMove
  <2> QED
    BY <1>32, <2>2, <2>3 DEF StopLookup, ReturnFromStop, Goto
<1>33. ASSUME NEW t \in Threads, StopLock(t) PROVE CountsMatch'
  BY <1>33, CountsMove DEF StopLock, Move, Goto, resourceVars, counterVars
<1>34. ASSUME NEW t \in Threads, StopFinish(t) PROVE CountsMatch'
  <2>1. /\ t \in Threads /\ pc[t] \in StopCall /\ UNCHANGED counterVars
        /\ then[t] \in {"reserve", "register", "unreserve", "off"}
        /\ pc' = [pc EXCEPT ![t] = then[t]]
    BY <1>34 DEF StopFinish, ReturnFromStop, Goto
  <2> QED
    BY <2>1, CountsMove
<1>35. ASSUME NEW t \in Threads, StopKill(t) PROVE CountsMatch'
  BY <1>35, CountsMove DEF StopKill, Move, Goto, resourceVars, counterVars
<1>36. ASSUME NEW t \in Threads, StopAbandon(t) PROVE CountsMatch'
  <2>1. /\ t \in Threads /\ pc[t] \in StopCall /\ UNCHANGED counterVars
        /\ then[t] \in {"reserve", "register", "unreserve", "off"}
        /\ pc' = [pc EXCEPT ![t] = then[t]]
    BY <1>36 DEF StopAbandon, ReturnFromStop, Goto
  <2> QED
    BY <2>1, CountsMove
<1>37. ASSUME NEW t \in Timers, IdleDrop(t) PROVE CountsMatch'
  BY <1>37, CountsMove DEF IdleDrop, Move, Goto, instanceVars, resourceVars,
       counterVars
<1>38. ASSUME NEW t \in Timers, IdleRearm(t) PROVE CountsMatch'
  BY <1>38, CountsMove DEF IdleRearm, Move, Goto, resourceVars, counterVars
<1>39. ASSUME NEW t \in Timers, IdleStop(t) PROVE CountsMatch'
  BY <1>39, CountsMove DEF IdleStop, Goto, CallStop, instanceVars, resourceVars,
       counterVars
<1>40. ASSUME NEW t \in Timers, NEW i \in Instances, TimerFire(t, i) PROVE CountsMatch'
  BY <1>40, CountsMove DEF TimerFire, Move, Goto, resourceVars, counterVars
<1>41. ASSUME NEW i \in Instances, Exit(i) PROVE CountsMatch'
  BY <1>41, CountsKept DEF Exit, threadVars, Waiting, Proxied
<1>42. ASSUME NEW i \in Instances, MonitorClean(i) PROVE CountsMatch'
  BY <1>42, CountsKept DEF MonitorClean, threadVars, Waiting, Proxied
<1> QED
  BY <1>1, <1>2, <1>3, <1>4, <1>5, <1>6, <1>7, <1>8, <1>9, <1>10, <1>11, <1>12,
     <1>13, <1>14, <1>15, <1>16, <1>17, <1>18, <1>19, <1>20, <1>21, <1>22,
     <1>23, <1>24, <1>25, <1>26, <1>27, <1>28, <1>29, <1>30, <1>31, <1>32,
     <1>33, <1>34, <1>35, <1>36, <1>37, <1>38, <1>39, <1>40, <1>41, <1>42
  DEF Next, ClientStep, ProgramStep, StopStep, IdleStep
-----------------------------------------------------------------------------
\* What is in runningServices is live.
LEMMA RunningLive ==
  ASSUME TypeInv, RegistryInv, NEW s \in Services, running[s] # None
  PROVE  /\ running[s] \in Instances /\ Target[running[s]] = s
         /\ status[running[s]] = "live"
BY DEF TypeInv, RegistryInv, LiveIsRegistered

\* A step that allocates, looks up and arms nothing new keeps the invariant.
LEMMA BornKept ==
  ASSUME TypeInv, BornInv,
         \A i \in Instances :
            /\ status'[i] = status[i] \/ "unborn" \notin {status[i], status'[i]}
            /\ timer'[i] # "nil" => timer[i] # "nil" \/ status[i] # "unborn",
         \A c \in Connections :
            (Unregistered(c)' => Unregistered(c)) /\ (HoldsOwn(c)' => HoldsOwn(c)),
         \A t \in Threads :
            ptr'[t] \in {None, ptr[t]}
                \/ (ptr'[t] \in Instances /\ status[ptr'[t]] # "unborn")
  PROVE  BornInv'
<1>1. \A i \in Instances : status[i] # "unborn" => status'[i] # "unborn"
  OBVIOUS
<1>2. \A c \in Connections : /\ Unregistered(c)' => status'[c] = "unborn"
                             /\ HoldsOwn(c)' => status'[c] # "unborn"
  <2> SUFFICES ASSUME NEW c \in Connections
               PROVE  /\ Unregistered(c)' => status'[c] = "unborn"
                      /\ HoldsOwn(c)' => status'[c] # "unborn"
    OBVIOUS
  <2> QED
    BY DEF BornInv, Instances
<1>3. \A t \in Threads : ptr'[t] # None => status'[ptr'[t]] # "unborn"
  BY <1>1 DEF TypeInv, BornInv
<1>4. \A i \in Instances : timer'[i] # "nil" => status'[i] # "unborn"
  BY <1>1 DEF BornInv
<1> QED
  BY <1>2, <1>3, <1>4 DEF BornInv

\* Releasing an instance that was registered.
LEMMA CleanUpStatus ==
  ASSUME TypeInv, NEW i \in Instances, CleanUp(i)
  PROVE  /\ status'[i] = "released"
         /\ \A j \in Instances \ {i} : status'[j] = status[j] /\ timer'[j] = timer[j]
         /\ timer'[i] \in {timer[i], "nil"}
<1>1. CASE status[i] = "released"
  BY <1>1 DEF CleanUp
<1>2. CASE status[i] # "released"
  BY <1>2 DEF CleanUp, Release, TypeInv
<1> QED
  BY <1>1, <1>2

\* Every step names and arms allocated instances only.
LEMMA BornPreserved ==
  ASSUME TypeInv, LocalsInv, RegistryInv, PhaseInv, BornInv, Next
  PROVE  BornInv'
<1> USE ThreadsAssumption, ConfigAssumption, NoneAssumption
<1> USE DEF TypeInv, LocalsInv, Threads, Instances, StopCall, Unregistered,
            HoldsOwn, Reserving, Starting
<1>1. ASSUME NEW c \in Connections, Accept(c) PROVE BornInv'
  BY <1>1, BornKept DEF Accept, Move, Goto, instanceVars, resourceVars
<1>2. ASSUME NEW c \in Connections, Lookup(c) PROVE BornInv'
  <2>1. /\ pc[c] = "lookup" /\ pc' = [pc EXCEPT ![c] =
                   IF running[Target[c]] = None THEN "register" ELSE "trylock"]
        /\ ptr' = [ptr EXCEPT ![c] = running[Target[c]]]
        /\ UNCHANGED <<then, status, timer>>
    BY <1>2 DEF Lookup, Move, Goto, instanceVars
  <2>2. running[Target[c]] # None => status[running[Target[c]]] # "unborn"
    BY RunningLive
  <2> QED
    BY <2>1, <2>2, BornKept
<1>3. ASSUME NEW c \in Connections, TryLock(c) PROVE BornInv'
  BY <1>3, BornKept DEF TryLock, Move, Goto, Hold, resourceVars, counterVars
<1>4. ASSUME NEW c \in Connections, LockQueued(c) PROVE BornInv'
  BY <1>4, BornKept DEF LockQueued, Move, Goto, Hold, resourceVars,
       counterVars
<1>5. ASSUME NEW c \in Connections, CancelQueued(c) PROVE BornInv'
  BY <1>5, BornKept DEF CancelQueued, Move, Goto, instanceVars, resourceVars,
       counterVars
<1>6. ASSUME NEW c \in Connections, Requeue(c) PROVE BornInv'
  BY <1>6, BornKept DEF Requeue, Move, Goto, Unlock, resourceVars, counterVars
<1>7. ASSUME NEW c \in Connections, Track(c) PROVE BornInv'
  BY <1>7, BornKept DEF Track, Move, Goto, Unlock, Touch, resourceVars,
       counterVars
<1>8. ASSUME NEW c \in Connections, DialOk(c) PROVE BornInv'
  BY <1>8, BornKept DEF DialOk, Move, Goto, instanceVars, resourceVars,
       counterVars
<1>9. ASSUME NEW c \in Connections, DialFail(c) PROVE BornInv'
  BY <1>9, BornKept DEF DialFail, Move, Goto, instanceVars, resourceVars,
       counterVars
<1>10. ASSUME NEW c \in Connections, Restart(c) PROVE BornInv'
  <2>1. pc[c] = "restart" /\ UNCHANGED <<status, timer>>
    BY <1>10 DEF Restart, instanceVars
  <2>2. \/ /\ pc' = [pc EXCEPT ![c] = "stopLookup"] /\ then' = [then EXCEPT ![c] = "register"]
           /\ ptr' = [ptr EXCEPT ![c] = None]
        \/ pc' = [pc EXCEPT ![c] = "register"] /\ UNCHANGED <<then, ptr>>
    BY <1>10 DEF Restart, CallStop, Goto
  <2> QED
    BY <2>1, <2>2, BornKept
<1>11. ASSUME NEW c \in Connections, Register(c) PROVE BornInv'
  <2>1. CASE running[Target[c]] = None
    <3>1. /\ pc[c] = "register" /\ pc' = [pc EXCEPT ![c] = "reserve"]
          /\ status' = [status EXCEPT ![c] = "live"]
          /\ UNCHANGED <<ptr, then, timer>>
      BY <1>11, <2>1 DEF Register, Move, Goto
    <3>2. \A d \in Connections \ {c} : /\ Unregistered(d)' <=> Unregistered(d)
                                       /\ HoldsOwn(d)' <=> HoldsOwn(d)
      BY <3>1
    <3>3. ~Unregistered(c)' /\ status'[c] = "live"
      BY <3>1
    <3> QED
      BY <3>1, <3>2, <3>3 DEF BornInv
  <2>2. CASE running[Target[c]] # None
    BY <1>11, <2>2, BornKept DEF Register, Move, Goto
  <2> QED
    BY <2>1, <2>2
<1>12. ASSUME NEW c \in Connections, ReserveOk(c) PROVE BornInv'
  BY <1>12, BornKept DEF ReserveOk, Move, Goto, instanceVars, counterVars
<1>13. ASSUME NEW c \in Connections, ReserveMissing(c) PROVE BornInv'
  BY <1>13, BornKept DEF ReserveMissing, Move, Goto, instanceVars, resourceVars,
       counterVars
<1>14. ASSUME NEW c \in Connections, PickVictim(c) PROVE BornInv'
  <2>1. pc[c] = "pick" /\ UNCHANGED <<status, timer>>
    BY <1>14 DEF PickVictim, instanceVars
  <2>2. \/ /\ pc' = [pc EXCEPT ![c] = "stopLookup"] /\ then' = [then EXCEPT ![c] = "reserve"]
           /\ ptr' = [ptr EXCEPT ![c] = None]
        \/ pc' = [pc EXCEPT ![c] = "park"] /\ UNCHANGED <<then, ptr>>
    BY <1>14 DEF PickVictim, CallStop, Goto
  <2> QED
    BY <2>1, <2>2, BornKept
<1>15. ASSUME NEW c \in Connections, Park(c) PROVE BornInv'
  BY <1>15, BornKept DEF Park, Move, Goto, instanceVars, counterVars
<1>16. ASSUME NEW c \in Connections, Wake(c) PROVE BornInv'
  BY <1>16, BornKept DEF Wake, Move, Goto, Unpark, instanceVars, counterVars
<1>17. ASSUME NEW c \in Connections, GiveUp(c) PROVE BornInv'
  BY <1>17, BornKept DEF GiveUp, Move, Goto, Unpark, instanceVars, counterVars
<1>18. ASSUME NEW c \in Connections, Refused(c) PROVE BornInv'
  <2>1. /\ CleanUp(c) /\ UNCHANGED <<ptr, then>>
        /\ pc[c] \in {"refused", "launch"} /\ pc' = [pc EXCEPT ![c] = "fail"]
    BY <1>18 DEF Refused, Move, Goto
  <2>2. status[c] # "unborn" /\ c \in Instances
    BY <2>1 DEF BornInv
  <2> QED
    BY <2>1, <2>2, CleanUpStatus, BornKept
<1>19. ASSUME NEW c \in Connections, FlagReserved(c) PROVE BornInv'
  BY <1>19, BornKept DEF FlagReserved, Move, Goto, resourceVars, counterVars
<1>20. ASSUME NEW c \in Connections, LaunchFail(c) PROVE BornInv'
  <2>1. /\ CleanUp(c) /\ UNCHANGED <<ptr, then>>
        /\ pc[c] \in {"refused", "launch"} /\ pc' = [pc EXCEPT ![c] = "fail"]
    BY <1>20 DEF LaunchFail, Move, Goto
  <2>2. status[c] # "unborn" /\ c \in Instances
    BY <2>1 DEF BornInv
  <2> QED
    BY <2>1, <2>2, CleanUpStatus, BornKept
<1>21. ASSUME NEW c \in Connections, LaunchOk(c) PROVE BornInv'
  BY <1>21, BornKept DEF LaunchOk, Move, Goto, resourceVars, counterVars
<1>22. ASSUME NEW c \in Connections, ProbeOk(c) PROVE BornInv'
  BY <1>22, BornKept DEF ProbeOk, Move, Goto, instanceVars, resourceVars,
       counterVars
<1>23. ASSUME NEW c \in Connections, ProbeFail(c) PROVE BornInv'
  BY <1>23, BornKept DEF ProbeFail, Goto, Unlock, CallStop, resourceVars,
       counterVars
<1>24. ASSUME NEW c \in Connections, Unreserve(c) PROVE BornInv'
  BY <1>24, BornKept DEF Unreserve, Move, Goto, instanceVars, counterVars
<1>25. ASSUME NEW c \in Connections, Ready(c) PROVE BornInv'
  <2>1. /\ pc[c] = "ready" /\ pc' = [pc EXCEPT ![c] = "attach"]
        /\ timer' = [timer EXCEPT ![c] = "armed"] /\ UNCHANGED <<status, ptr, then>>
    BY <1>25 DEF Ready, Move, Goto
  <2>2. status[c] # "unborn"
    BY <2>1 DEF BornInv
  <2> QED
    BY <2>1, <2>2, BornKept
<1>26. ASSUME NEW c \in Connections, Attach(c) PROVE BornInv'
  BY <1>26, BornKept DEF Attach, Move, Goto, Touch, resourceVars, counterVars
<1>27. ASSUME NEW c \in Connections, Count(c) PROVE BornInv'
  BY <1>27, BornKept DEF Count, Move, Goto, instanceVars, resourceVars
<1>28. ASSUME NEW c \in Connections, EndProxy(c) PROVE BornInv'
  BY <1>28, BornKept DEF EndProxy, Move, Goto, Touch, resourceVars, counterVars
<1>29. ASSUME NEW c \in Connections, Uncount(c) PROVE BornInv'
  BY <1>29, BornKept DEF Uncount, Goto, AfterDecrement, instanceVars,
       resourceVars
<1>30. ASSUME NEW c \in Connections, Fail(c) PROVE BornInv'
  BY <1>30, BornKept DEF Fail, Goto, AfterDecrement, instanceVars, resourceVars
<1>31. ASSUME NEW c \in Connections, Notify(c) PROVE BornInv'
  BY <1>31, BornKept DEF Notify, Move, Goto, instanceVars, counterVars
<1>32. ASSUME NEW t \in Threads, StopLookup(t) PROVE BornInv'
  <2>1. /\ pc[t] = "stopLookup" /\ UNCHANGED <<status, timer>>
        /\ then[t] \in {"reserve", "register", "unreserve", "off"}
    BY <1>32 DEF StopLookup, instanceVars
  <2>2. CASE /\ pc' = [pc EXCEPT ![t] = then[t]] /\ then' = [then EXCEPT ![t] = "none"]
             /\ ptr' = [ptr EXCEPT ![t] = None]
    BY <2>1, <2>2, BornKept
  <2>3. CASE /\ pc' = [pc EXCEPT ![t] = "stopLock"] /\ UNCHANGED then
             /\ running[stopping[t]] # None
             /\ ptr' = [ptr EXCEPT ![t] = running[stopping[t]]]
    <3>1. stopping[t] \in Services
      BY <2>1
    <3>2. running[stopping[t]] \in Instances /\ status[running[stopping[t]]] = "live"
      BY <2>3, <3>1, RunningLive
    <3> QED
      BY <2>1, <2>3, <3>2, BornKept
  <2> QED
    BY <1>32, <2>2, <2>3 DEF StopLookup, ReturnFromStop, Goto
<1>33. ASSUME NEW t \in Threads, StopLock(t) PROVE BornInv'
  BY <1>33, BornKept DEF StopLock, Move, Goto, Hold, resourceVars, counterVars
<1>34. ASSUME NEW t \in Threads, StopFinish(t) PROVE BornInv'
  <2>1. /\ CleanUp(ptr[t]) /\ ptr[t] \in Instances /\ pc[t] \in {"wait", "killed"}
        /\ pc' = [pc EXCEPT ![t] = then[t]] /\ then' = [then EXCEPT ![t] = "none"]
        /\ then[t] \in {"reserve", "register", "unreserve", "off"}
        /\ ptr' = [ptr EXCEPT ![t] = None]
    BY <1>34 DEF StopFinish, ReturnFromStop, Goto
  <2>2. status[ptr[t]] # "unborn"
    BY <2>1 DEF BornInv
  <2>3. \A d \in Connections : /\ Unregistered(d)' => Unregistered(d)
                               /\ HoldsOwn(d)' => HoldsOwn(d)
    BY <2>1
  <2> QED
    BY <2>1, <2>2, <2>3, CleanUpStatus, BornKept
<1>35. ASSUME NEW t \in Threads, StopKill(t) PROVE BornInv'
  BY <1>35, BornKept DEF StopKill, Move, Goto, resourceVars, counterVars
<1>36. ASSUME NEW t \in Threads, StopAbandon(t) PROVE BornInv'
  <2>1. /\ pc[t] = "wait" /\ UNCHANGED <<status, timer>>
        /\ pc' = [pc EXCEPT ![t] = then[t]] /\ then' = [then EXCEPT ![t] = "none"]
        /\ then[t] \in {"reserve", "register", "unreserve", "off"}
        /\ ptr' = [ptr EXCEPT ![t] = None]
    BY <1>36 DEF StopAbandon, ReturnFromStop, Goto
  <2> QED
    BY <2>1, BornKept
<1>37. ASSUME NEW t \in Timers, IdleDrop(t) PROVE BornInv'
  BY <1>37, BornKept DEF IdleDrop, Move, Goto, instanceVars, resourceVars,
       counterVars
<1>38. ASSUME NEW t \in Timers, IdleRearm(t) PROVE BornInv'
  BY <1>38, BornKept DEF IdleRearm, Move, Goto, resourceVars, counterVars
<1>39. ASSUME NEW t \in Timers, IdleStop(t) PROVE BornInv'
  BY <1>39, BornKept DEF IdleStop, Goto, CallStop, instanceVars, resourceVars,
       counterVars
<1>40. ASSUME NEW t \in Timers, NEW i \in Instances, TimerFire(t, i) PROVE BornInv'
  <2>1. /\ pc[t] = "off" /\ pc' = [pc EXCEPT ![t] = "idle"] /\ timer[i] = "armed"
        /\ timer' = [timer EXCEPT ![i] = "spent"] /\ UNCHANGED <<status, then>>
        /\ ptr' = [ptr EXCEPT ![t] = i]
    BY <1>40 DEF TimerFire, Move, Goto
  <2>2. status[i] # "unborn"
    BY <2>1 DEF BornInv
  <2> QED
    BY <2>1, <2>2, BornKept
<1>41. ASSUME NEW i \in Instances, Exit(i) PROVE BornInv'
  BY <1>41, BornKept DEF Exit, threadVars, resourceVars, counterVars
<1>42. ASSUME NEW i \in Instances, MonitorClean(i) PROVE BornInv'
  <2>1. proc[i] = "exited" /\ UNCHANGED threadVars
    BY <1>42 DEF MonitorClean
  <2>2. CASE CleanUp(i)
    <3>1. ~Unregistered(i) /\ i \in Connections
      BY <2>1 DEF PhaseInv
    <3>2. \A j \in Instances \ {i} : status'[j] = status[j] /\ timer'[j] = timer[j]
      BY <2>2, CleanUpStatus
    <3>3. status'[i] = "released"
      BY <2>2, CleanUpStatus
    <3>4. UNCHANGED <<pc, ptr, then>>
      BY <2>1 DEF threadVars
    <3>5. \A j \in Instances : status[j] # "unborn" => status'[j] # "unborn"
      BY <3>2, <3>3
    <3>6. \A j \in Instances : timer'[j] # "nil" => status'[j] # "unborn"
      BY <3>2, <3>3 DEF BornInv
    <3>7. \A d \in Connections : /\ Unregistered(d)' <=> Unregistered(d)
                                 /\ HoldsOwn(d)' <=> HoldsOwn(d)
      BY <3>4
    <3>8. \A d \in Connections : Unregistered(d) => status'[d] = "unborn"
      BY <3>1, <3>2 DEF BornInv
    <3>9. \A d \in Connections : HoldsOwn(d) => status'[d] # "unborn"
      BY <3>5 DEF BornInv
    <3>10. \A u \in Threads : ptr'[u] # None => status'[ptr'[u]] # "unborn"
      BY <3>4, <3>5 DEF BornInv
    <3> HIDE DEF Unregistered, HoldsOwn
    <3> QED
      BY <3>6, <3>7, <3>8, <3>9, <3>10 DEF BornInv
  <2>3. CASE UNCHANGED <<status, timer>>
    BY <2>1, <2>3, BornKept DEF threadVars
  <2> QED
    BY <1>42, <2>2, <2>3 DEF MonitorClean
<1> QED
  BY <1>1, <1>2, <1>3, <1>4, <1>5, <1>6, <1>7, <1>8, <1>9, <1>10, <1>11, <1>12,
     <1>13, <1>14, <1>15, <1>16, <1>17, <1>18, <1>19, <1>20, <1>21, <1>22,
     <1>23, <1>24, <1>25, <1>26, <1>27, <1>28, <1>29, <1>30, <1>31, <1>32,
     <1>33, <1>34, <1>35, <1>36, <1>37, <1>38, <1>39, <1>40, <1>41, <1>42
  DEF Next, ClientStep, ProgramStep, StopStep, IdleStep
-----------------------------------------------------------------------------
\* A step that starts no callback and disarms nothing but by a release keeps
\* the invariant.
LEMMA TimerKept ==
  ASSUME TypeInv, LocalsInv, TimerInv,
         \A t \in Threads : pc'[t] = "idle" => pc[t] = "idle" /\ ptr'[t] = ptr[t],
         \A i \in Instances :
            /\ status[i] = "released" => status'[i] = "released"
            /\ timer[i] # "nil" => timer'[i] # "nil" \/ status'[i] = "released"
  PROVE  TimerInv'
BY NoneAssumption DEF TimerInv, TypeInv, LocalsInv

\* Every step leaves an idle callback an instance whose timer it may re-arm.
LEMMA TimerPreserved ==
  ASSUME TypeInv, LocalsInv, BornInv, TimerInv, Next
  PROVE  TimerInv'
<1> USE ThreadsAssumption, ConfigAssumption, NoneAssumption
<1> USE DEF TypeInv, LocalsInv, Threads, Instances, StopCall
<1>1. ASSUME NEW c \in Connections, Accept(c) PROVE TimerInv'
  BY <1>1, TimerKept DEF Accept, Move, Goto, instanceVars, resourceVars
<1>2. ASSUME NEW c \in Connections, Lookup(c) PROVE TimerInv'
  BY <1>2, TimerKept DEF Lookup, Move, Goto, instanceVars, resourceVars,
       counterVars
<1>3. ASSUME NEW c \in Connections, TryLock(c) PROVE TimerInv'
  BY <1>3, TimerKept DEF TryLock, Move, Goto, Hold, resourceVars, counterVars
<1>4. ASSUME NEW c \in Connections, LockQueued(c) PROVE TimerInv'
  BY <1>4, TimerKept DEF LockQueued, Move, Goto, Hold, resourceVars,
       counterVars
<1>5. ASSUME NEW c \in Connections, CancelQueued(c) PROVE TimerInv'
  BY <1>5, TimerKept DEF CancelQueued, Move, Goto, instanceVars, resourceVars,
       counterVars
<1>6. ASSUME NEW c \in Connections, Requeue(c) PROVE TimerInv'
  BY <1>6, TimerKept DEF Requeue, Move, Goto, Unlock, resourceVars,
       counterVars
<1>7. ASSUME NEW c \in Connections, Track(c) PROVE TimerInv'
  BY <1>7, TimerKept DEF Track, Move, Goto, Unlock, Touch, resourceVars,
       counterVars
<1>8. ASSUME NEW c \in Connections, DialOk(c) PROVE TimerInv'
  BY <1>8, TimerKept DEF DialOk, Move, Goto, instanceVars, resourceVars,
       counterVars
<1>9. ASSUME NEW c \in Connections, DialFail(c) PROVE TimerInv'
  BY <1>9, TimerKept DEF DialFail, Move, Goto, instanceVars, resourceVars,
       counterVars
<1>10. ASSUME NEW c \in Connections, Restart(c) PROVE TimerInv'
  <2>1. pc[c] = "restart" /\ UNCHANGED <<status, timer>>
        /\ \A u \in Threads \ {c} : ptr'[u] = ptr[u]
    BY <1>10 DEF Restart, instanceVars, CallStop
  <2>2. pc' = [pc EXCEPT ![c] = "stopLookup"] \/ pc' = [pc EXCEPT ![c] = "register"]
    BY <1>10 DEF Restart, CallStop, Goto
  <2> QED
    BY <2>1, <2>2, TimerKept
<1>11. ASSUME NEW c \in Connections, Register(c) PROVE TimerInv'
  <2>1. CASE running[Target[c]] = None
    <3>1. /\ pc[c] = "register" /\ pc' = [pc EXCEPT ![c] = "reserve"]
          /\ status' = [status EXCEPT ![c] = "live"]
          /\ UNCHANGED <<ptr, timer>>
      BY <1>11, <2>1 DEF Register, Move, Goto
    <3>2. status[c] = "unborn"
      BY <3>1 DEF BornInv, Unregistered
    <3> QED
      BY <3>1, <3>2, TimerKept
  <2>2. CASE running[Target[c]] # None
    BY <1>11, <2>2, TimerKept DEF Register, Move, Goto
  <2> QED
    BY <2>1, <2>2
<1>12. ASSUME NEW c \in Connections, ReserveOk(c) PROVE TimerInv'
  BY <1>12, TimerKept DEF ReserveOk, Move, Goto, instanceVars, counterVars
<1>13. ASSUME NEW c \in Connections, ReserveMissing(c) PROVE TimerInv'
  BY <1>13, TimerKept DEF ReserveMissing, Move, Goto, instanceVars,
       resourceVars, counterVars
<1>14. ASSUME NEW c \in Connections, PickVictim(c) PROVE TimerInv'
  <2>1. pc[c] = "pick" /\ UNCHANGED <<status, timer>>
        /\ \A u \in Threads \ {c} : ptr'[u] = ptr[u]
    BY <1>14 DEF PickVictim, instanceVars, CallStop
  <2>2. pc' = [pc EXCEPT ![c] = "stopLookup"] \/ pc' = [pc EXCEPT ![c] = "park"]
    BY <1>14 DEF PickVictim, CallStop, Goto
  <2> QED
    BY <2>1, <2>2, TimerKept
<1>15. ASSUME NEW c \in Connections, Park(c) PROVE TimerInv'
  BY <1>15, TimerKept DEF Park, Move, Goto, instanceVars, counterVars
<1>16. ASSUME NEW c \in Connections, Wake(c) PROVE TimerInv'
  BY <1>16, TimerKept DEF Wake, Move, Goto, Unpark, instanceVars, counterVars
<1>17. ASSUME NEW c \in Connections, GiveUp(c) PROVE TimerInv'
  BY <1>17, TimerKept DEF GiveUp, Move, Goto, Unpark, instanceVars, counterVars
<1>18. ASSUME NEW c \in Connections, Refused(c) PROVE TimerInv'
  <2>1. /\ CleanUp(c) /\ UNCHANGED ptr /\ pc' = [pc EXCEPT ![c] = "fail"]
    BY <1>18 DEF Refused, Move, Goto
  <2> QED
    BY <2>1, CleanUpStatus, TimerKept
<1>19. ASSUME NEW c \in Connections, FlagReserved(c) PROVE TimerInv'
  BY <1>19, TimerKept DEF FlagReserved, Move, Goto, resourceVars, counterVars
<1>20. ASSUME NEW c \in Connections, LaunchFail(c) PROVE TimerInv'
  <2>1. /\ CleanUp(c) /\ UNCHANGED ptr /\ pc' = [pc EXCEPT ![c] = "fail"]
    BY <1>20 DEF LaunchFail, Move, Goto
  <2> QED
    BY <2>1, CleanUpStatus, TimerKept
<1>21. ASSUME NEW c \in Connections, LaunchOk(c) PROVE TimerInv'
  BY <1>21, TimerKept DEF LaunchOk, Move, Goto, resourceVars, counterVars
<1>22. ASSUME NEW c \in Connections, ProbeOk(c) PROVE TimerInv'
  BY <1>22, TimerKept DEF ProbeOk, Move, Goto, instanceVars, resourceVars,
       counterVars
<1>23. ASSUME NEW c \in Connections, ProbeFail(c) PROVE TimerInv'
  BY <1>23, TimerKept DEF ProbeFail, Goto, Unlock, CallStop, resourceVars,
       counterVars
<1>24. ASSUME NEW c \in Connections, Unreserve(c) PROVE TimerInv'
  BY <1>24, TimerKept DEF Unreserve, Move, Goto, instanceVars, counterVars
<1>25. ASSUME NEW c \in Connections, Ready(c) PROVE TimerInv'
  BY <1>25, TimerKept DEF Ready, Move, Goto, Unlock, counterVars
<1>26. ASSUME NEW c \in Connections, Attach(c) PROVE TimerInv'
  BY <1>26, TimerKept DEF Attach, Move, Goto, Touch, resourceVars, counterVars
<1>27. ASSUME NEW c \in Connections, Count(c) PROVE TimerInv'
  BY <1>27, TimerKept DEF Count, Move, Goto, instanceVars, resourceVars
<1>28. ASSUME NEW c \in Connections, EndProxy(c) PROVE TimerInv'
  BY <1>28, TimerKept DEF EndProxy, Move, Goto, Touch, resourceVars,
       counterVars
<1>29. ASSUME NEW c \in Connections, Uncount(c) PROVE TimerInv'
  BY <1>29, TimerKept DEF Uncount, Goto, AfterDecrement, instanceVars,
       resourceVars
<1>30. ASSUME NEW c \in Connections, Fail(c) PROVE TimerInv'
  BY <1>30, TimerKept DEF Fail, Goto, AfterDecrement, instanceVars,
       resourceVars
<1>31. ASSUME NEW c \in Connections, Notify(c) PROVE TimerInv'
  BY <1>31, TimerKept DEF Notify, Move, Goto, instanceVars, counterVars
<1>32. ASSUME NEW t \in Threads, StopLookup(t) PROVE TimerInv'
  <2>1. /\ pc[t] = "stopLookup" /\ UNCHANGED <<status, timer>>
        /\ then[t] \in {"reserve", "register", "unreserve", "off"}
        /\ \A u \in Threads \ {t} : ptr'[u] = ptr[u]
    BY <1>32 DEF StopLookup, instanceVars, ReturnFromStop
  <2>2. pc' = [pc EXCEPT ![t] = then[t]] \/ pc' = [pc EXCEPT ![t] = "stopLock"]
    BY <1>32 DEF StopLookup, ReturnFromStop, Goto
  <2> QED
    BY <2>1, <2>2, TimerKept
<1>33. ASSUME NEW t \in Threads, StopLock(t) PROVE TimerInv'
  BY <1>33, TimerKept DEF StopLock, Move, Goto, Hold, resourceVars, counterVars
<1>34. ASSUME NEW t \in Threads, StopFinish(t) PROVE TimerInv'
  <2>1. /\ CleanUp(ptr[t]) /\ ptr[t] \in Instances /\ pc[t] \in {"wait", "killed"}
        /\ pc' = [pc EXCEPT ![t] = then[t]] /\ ptr' = [ptr EXCEPT ![t] = None]
        /\ then[t] \in {"reserve", "register", "unreserve", "off"}
    BY <1>34 DEF StopFinish, ReturnFromStop, Goto
  <2> QED
    BY <2>1, CleanUpStatus, TimerKept
<1>35. ASSUME NEW t \in Threads, StopKill(t) PROVE TimerInv'
  BY <1>35, TimerKept DEF StopKill, Move, Goto, resourceVars, counterVars
<1>36. ASSUME NEW t \in Threads, StopAbandon(t) PROVE TimerInv'
  <2>1. /\ pc[t] = "wait" /\ UNCHANGED <<status, timer>>
        /\ pc' = [pc EXCEPT ![t] = then[t]] /\ ptr' = [ptr EXCEPT ![t] = None]
        /\ then[t] \in {"reserve", "register", "unreserve", "off"}
    BY <1>36 DEF StopAbandon, ReturnFromStop, Goto
  <2> QED
    BY <2>1, TimerKept
<1>37. ASSUME NEW t \in Timers, IdleDrop(t) PROVE TimerInv'
  BY <1>37, TimerKept DEF IdleDrop, Move, Goto, instanceVars, resourceVars,
       counterVars
<1>38. ASSUME NEW t \in Timers, IdleRearm(t) PROVE TimerInv'
  BY <1>38, TimerKept DEF IdleRearm, Move, Goto, resourceVars, counterVars
<1>39. ASSUME NEW t \in Timers, IdleStop(t) PROVE TimerInv'
  BY <1>39, TimerKept DEF IdleStop, Goto, CallStop, instanceVars, resourceVars,
       counterVars
<1>40. ASSUME NEW t \in Timers, NEW i \in Instances, TimerFire(t, i) PROVE TimerInv'
  <2>1. /\ pc' = [pc EXCEPT ![t] = "idle"] /\ ptr' = [ptr EXCEPT ![t] = i]
        /\ timer' = [timer EXCEPT ![i] = "spent"] /\ UNCHANGED status
    BY <1>40 DEF TimerFire, Move, Goto
  <2>2. \A j \in Instances : timer[j] # "nil" => timer'[j] # "nil"
    BY <2>1
  <2>3. timer'[ptr'[t]] # "nil"
    BY <2>1
  <2>4. \A u \in Threads \ {t} : pc'[u] = pc[u] /\ ptr'[u] = ptr[u]
    BY <2>1
  <2>5. \A u \in Threads \ {t} : pc[u] = "idle" => ptr[u] \in Instances
    OBVIOUS
  <2> QED
    BY <2>1, <2>2, <2>3, <2>4, <2>5 DEF TimerInv
<1>41. ASSUME NEW i \in Instances, Exit(i) PROVE TimerInv'
  BY <1>41, TimerKept DEF Exit, threadVars, resourceVars, counterVars
<1>42. ASSUME NEW i \in Instances, MonitorClean(i) PROVE TimerInv'
  <2>1. UNCHANGED <<pc, ptr>>
    BY <1>42 DEF MonitorClean, threadVars
  <2>2. CASE CleanUp(i)
    BY <2>1, <2>2, CleanUpStatus, TimerKept
  <2>3. CASE UNCHANGED <<status, timer>>
    BY <2>1, <2>3, TimerKept
  <2> QED
    BY <1>42, <2>2, <2>3 DEF MonitorClean
<1> QED
  BY <1>1, <1>2, <1>3, <1>4, <1>5, <1>6, <1>7, <1>8, <1>9, <1>10, <1>11, <1>12,
     <1>13, <1>14, <1>15, <1>16, <1>17, <1>18, <1>19, <1>20, <1>21, <1>22,
     <1>23, <1>24, <1>25, <1>26, <1>27, <1>28, <1>29, <1>30, <1>31, <1>32,
     <1>33, <1>34, <1>35, <1>36, <1>37, <1>38, <1>39, <1>40, <1>41, <1>42
  DEF Next, ClientStep, ProgramStep, StopStep, IdleStep
-----------------------------------------------------------------------------
\* A step that takes from no instance at rest what is pending for it, and
\* brings none to rest without, keeps the invariant.
LEMMA PendingKept ==
  ASSUME TypeInv, PendingInv,
         \A i \in Instances :
            status'[i] = "live" /\ AtRest(i)' /\ Target[i] \notin Unkillable =>
               \/ Pending(i)'
               \/ /\ status[i] = "live" /\ AtRest(i)
                  /\ timer[i] = "armed" => timer'[i] = "armed"
                  /\ \A t \in Threads : PendingBy(t, i) => PendingBy(t, i)'
  PROVE  PendingInv'
<1> SUFFICES ASSUME NEW i \in Instances, status'[i] = "live", AtRest(i)',
                    Target[i] \notin Unkillable
             PROVE  Pending(i)'
  BY DEF PendingInv
<1>1. CASE /\ status[i] = "live" /\ AtRest(i)
           /\ timer[i] = "armed" => timer'[i] = "armed"
           /\ \A t \in Threads : PendingBy(t, i) => PendingBy(t, i)'
  <2>1. Pending(i)
    BY <1>1 DEF PendingInv
  <2> QED
    BY <1>1, <2>1 DEF Pending
<1> QED
  BY <1>1

\* Nobody is brought to rest by t, which moves and leaves the manageMutexes of
\* others as they are.
LEMMA RestKept ==
  ASSUME TypeInv, NEW t \in Threads, \A u \in Threads \ {t} : pc'[u] = pc[u],
         pc'[t] \notin {"track", "requeue"},
         NEW i \in Instances, manage'[i] = manage[i], AtRest(i)'
  PROVE  AtRest(i)
BY NoneAssumption DEF AtRest, TypeInv

\* A goroutine outside the sections of a manageMutex holds none.
LEMMA HoldsNone ==
  ASSUME TypeInv, LockInv, NEW t \in Threads, pc[t] \in {"trylock", "queued"},
         NEW i \in Instances
  PROVE  manage[i] # t
BY DEF LockInv, LockDiscipline, HoldsOwn, HoldsPtr, Reserving, Starting, StopCall

\* t was not pending for anything, and nobody else moves.
LEMMA OthersPending ==
  ASSUME NEW t \in Threads, pc[t] \notin {"idle", "stopLock", "stopLookup"},
         \A u \in Threads \ {t} :
            pc'[u] = pc[u] /\ ptr'[u] = ptr[u] /\ stopping'[u] = stopping[u],
         NEW i, NEW u \in Threads, PendingBy(u, i)
  PROVE  PendingBy(u, i)'
BY DEF PendingBy

\* Every step leaves an instance at rest something that will stop it.
LEMMA PendingPreserved ==
  ASSUME TypeInv, LocalsInv, RegistryInv, LockInv, BornInv, TimerInv, PendingInv, Next
  PROVE  PendingInv'
<1> USE ThreadsAssumption, ConfigAssumption, NoneAssumption
<1> USE DEF TypeInv, LocalsInv, Threads, Instances, StopCall
<1>1. ASSUME NEW c \in Connections, Accept(c) PROVE PendingInv'
  BY <1>1, PendingKept DEF Accept, Move, Goto, instanceVars, resourceVars,
       AtRest, PendingBy
<1>2. ASSUME NEW c \in Connections, Lookup(c) PROVE PendingInv'
  BY <1>2, PendingKept DEF Lookup, Move, Goto, instanceVars, resourceVars,
       counterVars, AtRest, PendingBy
<1>3. ASSUME NEW c \in Connections, TryLock(c) PROVE PendingInv'
  <2>0. CASE Move(c, "trylock", "track") /\ Hold(ptr[c], c)
    <3>1. /\ pc[c] = "trylock" /\ pc' = [pc EXCEPT ![c] = "track"]
          /\ ptr[c] \in Instances /\ manage[ptr[c]] = None
          /\ manage' = [manage EXCEPT ![ptr[c]] = c] /\ UNCHANGED <<status, timer>>
          /\ \A u \in Threads \ {c} : pc'[u] = pc[u] /\ ptr'[u] = ptr[u] /\ stopping'[u] = stopping[u]
      BY <1>3, <2>0 DEF TryLock, Move, Goto, Hold
    <3>2. \A j \in Instances : manage[j] # c
      BY <3>1, HoldsNone
    <3>3. \A j \in Instances : AtRest(j)' => AtRest(j)
      BY <3>1, <3>2 DEF AtRest
    <3> QED
      BY <3>1, <3>3, OthersPending, PendingKept
  <2>1. CASE Move(c, "trylock", "queued") /\ UNCHANGED manage
    BY <1>3, <2>1, PendingKept DEF TryLock, Move, Goto, AtRest, PendingBy
  <2> QED
    BY <1>3, <2>0, <2>1 DEF TryLock
<1>4. ASSUME NEW c \in Connections, LockQueued(c) PROVE PendingInv'
  <2>1. /\ pc[c] = "queued" /\ pc' = [pc EXCEPT ![c] = "requeue"]
        /\ ptr[c] \in Instances /\ manage[ptr[c]] = None
        /\ manage' = [manage EXCEPT ![ptr[c]] = c] /\ UNCHANGED <<status, timer>>
        /\ \A u \in Threads \ {c} : pc'[u] = pc[u] /\ ptr'[u] = ptr[u] /\ stopping'[u] = stopping[u]
    BY <1>4 DEF LockQueued, Move, Goto, Hold
  <2>2. \A j \in Instances : manage[j] # c
    BY <2>1, HoldsNone
  <2>3. \A j \in Instances : AtRest(j)' => AtRest(j)
    BY <2>1, <2>2 DEF AtRest
  <2> QED
    BY <2>1, <2>3, OthersPending, PendingKept
<1>5. ASSUME NEW c \in Connections, CancelQueued(c) PROVE PendingInv'
  BY <1>5, PendingKept DEF CancelQueued, Move, Goto, instanceVars,
       resourceVars, counterVars, AtRest, PendingBy
<1>6. ASSUME NEW c \in Connections, Requeue(c) PROVE PendingInv'
  <2>1. /\ pc[c] = "requeue" /\ pc'[c] \notin {"track", "requeue"}
        /\ ptr[c] \in Instances /\ manage' = [manage EXCEPT ![ptr[c]] = None]
        /\ UNCHANGED <<status, timer>>
        /\ \A u \in Threads \ {c} : pc'[u] = pc[u] /\ ptr'[u] = ptr[u] /\ stopping'[u] = stopping[u]
    BY <1>6 DEF Requeue, Move, Goto, Unlock
  <2>2. manage[ptr[c]] = c
    BY <2>1 DEF LockInv, LockDiscipline, HoldsPtr
  <2>3. AtRest(ptr[c])
    BY <2>1, <2>2 DEF AtRest
  <2>4. \A j \in Instances \ {ptr[c]} : AtRest(j)' => AtRest(j)
    BY <2>1, RestKept
  <2> QED
    BY <2>1, <2>3, <2>4, OthersPending, PendingKept
<1>7. ASSUME NEW c \in Connections, Track(c) PROVE PendingInv'
  <2>1. /\ pc[c] = "track" /\ pc'[c] \notin {"track", "requeue"}
        /\ ptr[c] \in Instances /\ manage' = [manage EXCEPT ![ptr[c]] = None]
        /\ UNCHANGED status /\ (\A j \in Instances : timer[j] = "armed" => timer'[j] = "armed")
        /\ \A u \in Threads \ {c} : pc'[u] = pc[u] /\ ptr'[u] = ptr[u] /\ stopping'[u] = stopping[u]
    BY <1>7 DEF Track, Move, Goto, Unlock, Touch
  <2>2. manage[ptr[c]] = c
    BY <2>1 DEF LockInv, LockDiscipline, HoldsPtr
  <2>3. AtRest(ptr[c])
    BY <2>1, <2>2 DEF AtRest
  <2>4. \A j \in Instances \ {ptr[c]} : AtRest(j)' => AtRest(j)
    BY <2>1, RestKept
  <2> QED
    BY <2>1, <2>3, <2>4, OthersPending, PendingKept
<1>8. ASSUME NEW c \in Connections, DialOk(c) PROVE PendingInv'
  BY <1>8, PendingKept DEF DialOk, Move, Goto, instanceVars, resourceVars,
       counterVars, AtRest, PendingBy
<1>9. ASSUME NEW c \in Connections, DialFail(c) PROVE PendingInv'
  BY <1>9, PendingKept DEF DialFail, Move, Goto, instanceVars, resourceVars,
       counterVars, AtRest, PendingBy
<1>10. ASSUME NEW c \in Connections, Restart(c) PROVE PendingInv'
  BY <1>10, PendingKept DEF Restart, Goto, CallStop, instanceVars, resourceVars,
       counterVars, AtRest, PendingBy
<1>11. ASSUME NEW c \in Connections, Register(c) PROVE PendingInv'
  BY <1>11, PendingKept DEF Register, Move, Goto, Hold, resourceVars,
       counterVars, AtRest, PendingBy
<1>12. ASSUME NEW c \in Connections, ReserveOk(c) PROVE PendingInv'
  BY <1>12, PendingKept DEF ReserveOk, Move, Goto, instanceVars, counterVars,
       AtRest, PendingBy
<1>13. ASSUME NEW c \in Connections, ReserveMissing(c) PROVE PendingInv'
  BY <1>13, PendingKept DEF ReserveMissing, Move, Goto, instanceVars,
       resourceVars, counterVars, AtRest, PendingBy
<1>14. ASSUME NEW c \in Connections, PickVictim(c) PROVE PendingInv'
  BY <1>14, PendingKept DEF PickVictim, Goto, CallStop, instanceVars,
       resourceVars, counterVars, AtRest, PendingBy
<1>15. ASSUME NEW c \in Connections, Park(c) PROVE PendingInv'
  BY <1>15, PendingKept DEF Park, Move, Goto, instanceVars, counterVars, AtRest,
       PendingBy
<1>16. ASSUME NEW c \in Connections, Wake(c) PROVE PendingInv'
  BY <1>16, PendingKept DEF Wake, Move, Goto, Unpark, instanceVars, counterVars,
       AtRest, PendingBy
<1>17. ASSUME NEW c \in Connections, GiveUp(c) PROVE PendingInv'
  BY <1>17, PendingKept DEF GiveUp, Move, Goto, Unpark, instanceVars,
       counterVars, AtRest, PendingBy
<1>18. ASSUME NEW c \in Connections, Refused(c) PROVE PendingInv'
  <2>1. /\ pc[c] \in {"refused", "launch"} /\ pc'[c] = "fail" /\ CleanUp(c) /\ c \in Threads
        /\ manage' = [manage EXCEPT ![c] = None]
        /\ \A u \in Threads \ {c} : pc'[u] = pc[u] /\ ptr'[u] = ptr[u] /\ stopping'[u] = stopping[u]
    BY <1>18 DEF Refused, Move, Goto, Unlock
  <2>2. /\ status'[c] = "released"
        /\ \A j \in Instances \ {c} : status'[j] = status[j] /\ timer'[j] = timer[j]
    BY <2>1, CleanUpStatus
  <2>3. \A j \in Instances \ {c} : AtRest(j)' => AtRest(j)
    BY <2>1, RestKept
  <2> QED
    BY <2>1, <2>2, <2>3, OthersPending, PendingKept
<1>19. ASSUME NEW c \in Connections, FlagReserved(c) PROVE PendingInv'
  BY <1>19, PendingKept DEF FlagReserved, Move, Goto, resourceVars, counterVars,
       AtRest, PendingBy
<1>20. ASSUME NEW c \in Connections, LaunchFail(c) PROVE PendingInv'
  <2>1. /\ pc[c] \in {"refused", "launch"} /\ pc'[c] = "fail" /\ CleanUp(c) /\ c \in Threads
        /\ manage' = [manage EXCEPT ![c] = None]
        /\ \A u \in Threads \ {c} : pc'[u] = pc[u] /\ ptr'[u] = ptr[u] /\ stopping'[u] = stopping[u]
    BY <1>20 DEF LaunchFail, Move, Goto, Unlock
  <2>2. /\ status'[c] = "released"
        /\ \A j \in Instances \ {c} : status'[j] = status[j] /\ timer'[j] = timer[j]
    BY <2>1, CleanUpStatus
  <2>3. \A j \in Instances \ {c} : AtRest(j)' => AtRest(j)
    BY <2>1, RestKept
  <2> QED
    BY <2>1, <2>2, <2>3, OthersPending, PendingKept
<1>21. ASSUME NEW c \in Connections, LaunchOk(c) PROVE PendingInv'
  BY <1>21, PendingKept DEF LaunchOk, Move, Goto, resourceVars, counterVars,
       AtRest, PendingBy
<1>22. ASSUME NEW c \in Connections, ProbeOk(c) PROVE PendingInv'
  BY <1>22, PendingKept DEF ProbeOk, Move, Goto, instanceVars, resourceVars,
       counterVars, AtRest, PendingBy
<1>23. ASSUME NEW c \in Connections, ProbeFail(c) PROVE PendingInv'
  <2>1. /\ pc[c] = "probe" /\ pc'[c] = "stopLookup" /\ stopping'[c] = Target[c]
        /\ c \in Threads /\ manage' = [manage EXCEPT ![c] = None] /\ UNCHANGED <<status, timer>>
        /\ \A u \in Threads \ {c} : pc'[u] = pc[u] /\ ptr'[u] = ptr[u] /\ stopping'[u] = stopping[u]
    BY <1>23 DEF ProbeFail, Goto, CallStop, Unlock
  <2>2. Pending(c)'
    BY <2>1 DEF Pending, PendingBy
  <2>3. \A j \in Instances \ {c} : AtRest(j)' => AtRest(j)
    BY <2>1, RestKept
  <2> QED
    BY <2>1, <2>2, <2>3, OthersPending, PendingKept
<1>24. ASSUME NEW c \in Connections, Unreserve(c) PROVE PendingInv'
  BY <1>24, PendingKept DEF Unreserve, Move, Goto, instanceVars, counterVars,
       AtRest, PendingBy
<1>25. ASSUME NEW c \in Connections, Ready(c) PROVE PendingInv'
  <2>1. /\ pc[c] = "ready" /\ pc'[c] = "attach" /\ timer' = [timer EXCEPT ![c] = "armed"]
        /\ c \in Threads /\ manage' = [manage EXCEPT ![c] = None] /\ UNCHANGED status
        /\ \A u \in Threads \ {c} : pc'[u] = pc[u] /\ ptr'[u] = ptr[u] /\ stopping'[u] = stopping[u]
    BY <1>25 DEF Ready, Move, Goto, Unlock
  <2>2. Pending(c)'
    BY <2>1 DEF Pending
  <2>3. \A j \in Instances \ {c} : AtRest(j)' => AtRest(j)
    BY <2>1, RestKept
  <2> QED
    BY <2>1, <2>2, <2>3, OthersPending, PendingKept
<1>26. ASSUME NEW c \in Connections, Attach(c) PROVE PendingInv'
  BY <1>26, PendingKept DEF Attach, Move, Goto, Touch, resourceVars,
       counterVars, AtRest, PendingBy
<1>27. ASSUME NEW c \in Connections, Count(c) PROVE PendingInv'
  BY <1>27, PendingKept DEF Count, Move, Goto, instanceVars, resourceVars,
       AtRest, PendingBy
<1>28. ASSUME NEW c \in Connections, EndProxy(c) PROVE PendingInv'
  BY <1>28, PendingKept DEF EndProxy, Move, Goto, Touch, resourceVars,
       counterVars, AtRest, PendingBy
<1>29. ASSUME NEW c \in Connections, Uncount(c) PROVE PendingInv'
  BY <1>29, PendingKept DEF Uncount, Goto, AfterDecrement, instanceVars,
       resourceVars, AtRest, PendingBy
<1>30. ASSUME NEW c \in Connections, Fail(c) PROVE PendingInv'
  BY <1>30, PendingKept DEF Fail, Goto, AfterDecrement, instanceVars,
       resourceVars, AtRest, PendingBy
<1>31. ASSUME NEW c \in Connections, Notify(c) PROVE PendingInv'
  BY <1>31, PendingKept DEF Notify, Move, Goto, instanceVars, counterVars,
       AtRest, PendingBy
<1>32. ASSUME NEW t \in Threads, StopLookup(t) PROVE PendingInv'
  <2>1. /\ pc[t] = "stopLookup" /\ stopping[t] \in Services
        /\ pc'[t] \notin {"track", "requeue"} /\ UNCHANGED <<manage, status, timer>>
        /\ \A u \in Threads \ {t} : pc'[u] = pc[u] /\ ptr'[u] = ptr[u] /\ stopping'[u] = stopping[u]
    BY <1>32, ZenonT(30) DEF StopLookup, ReturnFromStop, Goto, instanceVars
  <2>2. ASSUME NEW j \in Instances, status[j] = "live", stopping[t] = Target[j]
        PROVE  PendingBy(t, j)'
    <3>1. running[Target[j]] = j /\ j # None
      BY <2>2 DEF RegistryInv, LiveIsRegistered
    <3> QED
      BY <1>32, <2>2, <3>1 DEF StopLookup, Goto, PendingBy
  <2>3. \A j \in Instances : AtRest(j)' => AtRest(j)
    BY <2>1, RestKept
  <2>4. ASSUME NEW j \in Instances, status[j] = "live", NEW u \in Threads, PendingBy(u, j)
        PROVE  PendingBy(u, j)'
    BY <2>1, <2>2, <2>4 DEF PendingBy
  <2> QED
    BY <2>1, <2>3, <2>4, PendingKept
<1>33. ASSUME NEW t \in Threads, StopLock(t) PROVE PendingInv'
  <2>1. /\ pc[t] = "stopLock" /\ pc'[t] = "wait" /\ ptr[t] \in Instances
        /\ manage' = [manage EXCEPT ![ptr[t]] = t] /\ UNCHANGED status
        /\ \A j \in Instances \ {ptr[t]} : timer'[j] = timer[j]
        /\ \A u \in Threads \ {t} : pc'[u] = pc[u] /\ ptr'[u] = ptr[u] /\ stopping'[u] = stopping[u]
    BY <1>33 DEF StopLock, Move, Goto, Hold
  <2>2. \A j \in Instances : j = ptr[t] => ~AtRest(j)'
    BY <2>1 DEF AtRest
  <2>3. \A j \in Instances \ {ptr[t]} : AtRest(j)' => AtRest(j)
    BY <2>1, RestKept
  <2>4. ASSUME NEW j \in Instances \ {ptr[t]}, NEW u \in Threads, PendingBy(u, j)
        PROVE  PendingBy(u, j)'
    BY <2>1, <2>4 DEF PendingBy
  <2> QED
    BY <2>1, <2>2, <2>3, <2>4, PendingKept
<1>34. ASSUME NEW t \in Threads, StopFinish(t) PROVE PendingInv'
  <2>1. /\ pc[t] \in {"wait", "killed"} /\ pc'[t] \notin {"track", "requeue"}
        /\ ptr[t] \in Instances /\ CleanUp(ptr[t])
        /\ manage' = [manage EXCEPT ![ptr[t]] = None]
        /\ \A u \in Threads \ {t} : pc'[u] = pc[u] /\ ptr'[u] = ptr[u] /\ stopping'[u] = stopping[u]
    BY <1>34 DEF StopFinish, ReturnFromStop, Goto, Unlock
  <2>2. /\ status'[ptr[t]] = "released"
        /\ \A j \in Instances \ {ptr[t]} : status'[j] = status[j] /\ timer'[j] = timer[j]
    BY <2>1, CleanUpStatus
  <2>3. \A j \in Instances \ {ptr[t]} : AtRest(j)' => AtRest(j)
    BY <2>1, RestKept
  <2> QED
    BY <2>1, <2>2, <2>3, OthersPending, PendingKept
<1>35. ASSUME NEW t \in Threads, StopKill(t) PROVE PendingInv'
  BY <1>35, PendingKept DEF StopKill, Move, Goto, resourceVars, counterVars,
       AtRest, PendingBy
<1>36. ASSUME NEW t \in Threads, StopAbandon(t) PROVE PendingInv'
  <2>0. /\ pc[t] = "wait" /\ ptr[t] \in Instances
        /\ then[t] \in {"reserve", "register", "unreserve", "off"}
    BY <1>36 DEF StopAbandon
  <2>1. /\ pc[t] = "wait" /\ pc'[t] \notin {"track", "requeue"} /\ ptr[t] \in Instances
        /\ Target[ptr[t]] \in Unkillable /\ UNCHANGED <<status, timer>>
        /\ manage' = [manage EXCEPT ![ptr[t]] = None]
        /\ \A u \in Threads \ {t} : pc'[u] = pc[u] /\ ptr'[u] = ptr[u] /\ stopping'[u] = stopping[u]
    BY <1>36, <2>0 DEF StopAbandon, ReturnFromStop, Goto, Unlock
  <2>2. \A j \in Instances \ {ptr[t]} : AtRest(j)' => AtRest(j)
    BY <2>1, RestKept
  <2> QED
    BY <2>1, <2>2, OthersPending, PendingKept
<1>37. ASSUME NEW t \in Timers, IdleDrop(t) PROVE PendingInv'
  <2>1. /\ pc[t] = "idle" /\ pc'[t] = "off" /\ ptr[t] \in Instances /\ t \in Threads
        /\ timer[ptr[t]] = "nil" /\ UNCHANGED <<manage, status, timer>>
        /\ \A u \in Threads \ {t} : pc'[u] = pc[u] /\ ptr'[u] = ptr[u] /\ stopping'[u] = stopping[u]
    BY <1>37 DEF IdleDrop, Move, Goto, instanceVars
  <2>2. status[ptr[t]] = "released"
    BY <2>1 DEF TimerInv
  <2>3. \A j \in Instances : AtRest(j)' => AtRest(j)
    BY <2>1, RestKept
  <2>4. ASSUME NEW j \in Instances \ {ptr[t]}, NEW u \in Threads, PendingBy(u, j)
        PROVE  PendingBy(u, j)'
    BY <2>1, <2>4 DEF PendingBy
  <2> QED
    BY <2>1, <2>2, <2>3, <2>4, PendingKept
<1>38. ASSUME NEW t \in Timers, IdleRearm(t) PROVE PendingInv'
  <2>1. /\ pc[t] = "idle" /\ pc'[t] = "off" /\ ptr[t] \in Instances /\ t \in Threads
        /\ timer' = [timer EXCEPT ![ptr[t]] = "armed"] /\ UNCHANGED <<manage, status>>
        /\ \A u \in Threads \ {t} : pc'[u] = pc[u] /\ ptr'[u] = ptr[u] /\ stopping'[u] = stopping[u]
    BY <1>38 DEF IdleRearm, Move, Goto
  <2>2. \A j \in Instances : j = ptr[t] => Pending(j)'
    BY <2>1 DEF Pending
  <2>3. \A j \in Instances : AtRest(j)' => AtRest(j)
    BY <2>1, RestKept
  <2>4. ASSUME NEW j \in Instances \ {ptr[t]}, NEW u \in Threads, PendingBy(u, j)
        PROVE  PendingBy(u, j)'
    BY <2>1, <2>4 DEF PendingBy
  <2> QED
    BY <2>1, <2>2, <2>3, <2>4, PendingKept
<1>39. ASSUME NEW t \in Timers, IdleStop(t) PROVE PendingInv'
  <2>1. /\ pc[t] = "idle" /\ pc'[t] = "stopLookup" /\ ptr[t] \in Instances /\ t \in Threads
        /\ stopping'[t] = Target[ptr[t]] /\ UNCHANGED <<manage, status, timer>>
        /\ \A u \in Threads \ {t} : pc'[u] = pc[u] /\ ptr'[u] = ptr[u] /\ stopping'[u] = stopping[u]
    BY <1>39 DEF IdleStop, CallStop, Goto, instanceVars
  <2>2. \A j \in Instances : j = ptr[t] => Pending(j)'
    BY <2>1 DEF Pending, PendingBy
  <2>3. \A j \in Instances : AtRest(j)' => AtRest(j)
    BY <2>1, RestKept
  <2>4. ASSUME NEW j \in Instances \ {ptr[t]}, NEW u \in Threads, PendingBy(u, j)
        PROVE  PendingBy(u, j)'
    BY <2>1, <2>4 DEF PendingBy
  <2> QED
    BY <2>1, <2>2, <2>3, <2>4, PendingKept
<1>40. ASSUME NEW t \in Timers, NEW i \in Instances, TimerFire(t, i) PROVE PendingInv'
  <2>1. /\ pc[t] = "off" /\ pc'[t] = "idle" /\ ptr'[t] = i /\ t \in Threads
        /\ timer' = [timer EXCEPT ![i] = "spent"] /\ UNCHANGED <<manage, status>>
        /\ \A u \in Threads \ {t} : pc'[u] = pc[u] /\ ptr'[u] = ptr[u] /\ stopping'[u] = stopping[u]
    BY <1>40 DEF TimerFire, Move, Goto
  <2>2. Pending(i)'
    BY <2>1 DEF Pending, PendingBy
  <2>3. \A j \in Instances : AtRest(j)' => AtRest(j)
    BY <2>1, RestKept
  <2> QED
    BY <2>1, <2>2, <2>3, OthersPending, PendingKept
<1>41. ASSUME NEW i \in Instances, Exit(i) PROVE PendingInv'
  BY <1>41, PendingKept DEF Exit, threadVars, resourceVars, counterVars, AtRest,
       PendingBy
<1>42. ASSUME NEW i \in Instances, MonitorClean(i) PROVE PendingInv'
  <2>1. UNCHANGED <<pc, ptr, stopping, manage>>
    BY <1>42 DEF MonitorClean, threadVars
  <2>2. \A j \in Instances : AtRest(j)' => AtRest(j)
    BY <2>1 DEF AtRest
  <2>3. \A j \in Instances, u \in Threads : PendingBy(u, j) => PendingBy(u, j)'
    BY <2>1 DEF PendingBy
  <2>4. CASE CleanUp(i)
    BY <2>2, <2>3, <2>4, CleanUpStatus, PendingKept
  <2>5. CASE UNCHANGED <<status, timer>>
    BY <2>2, <2>3, <2>5, PendingKept
  <2> QED
    BY <1>42, <2>4, <2>5 DEF MonitorClean
<1> QED
  BY <1>1, <1>2, <1>3, <1>4, <1>5, <1>6, <1>7, <1>8, <1>9, <1>10, <1>11, <1>12,
     <1>13, <1>14, <1>15, <1>16, <1>17, <1>18, <1>19, <1>20, <1>21, <1>22,
     <1>23, <1>24, <1>25, <1>26, <1>27, <1>28, <1>29, <1>30, <1>31, <1>32,
     <1>33, <1>34, <1>35, <1>36, <1>37, <1>38, <1>39, <1>40, <1>41, <1>42
  DEF Next, ClientStep, ProgramStep, StopStep, IdleStep
-----------------------------------------------------------------------------
\* A step without a new stopService keeps the invariant.
LEMMA StoppingKept ==
  ASSUME TypeInv, StoppingInv,
         \A t \in Threads : pc'[t] \in {"stopLock", "wait", "killed"} =>
            /\ pc[t] \in {"stopLock", "wait", "killed"}
            /\ ptr'[t] = ptr[t] /\ stopping'[t] = stopping[t]
  PROVE  StoppingInv'
BY DEF StoppingInv

\* Every step keeps a stopService at the service it was given.
LEMMA StoppingPreserved ==
  ASSUME TypeInv, LocalsInv, RegistryInv, StoppingInv, Next
  PROVE  StoppingInv'
<1> USE ThreadsAssumption, ConfigAssumption, NoneAssumption
<1> USE DEF TypeInv, LocalsInv, Threads, Instances, StopCall
<1>1. ASSUME NEW c \in Connections, Accept(c) PROVE StoppingInv'
  BY <1>1, StoppingKept DEF Accept, Move, Goto, instanceVars, resourceVars
<1>2. ASSUME NEW c \in Connections, Lookup(c) PROVE StoppingInv'
  BY <1>2, StoppingKept DEF Lookup, Move, Goto, instanceVars, resourceVars,
       counterVars
<1>3. ASSUME NEW c \in Connections, TryLock(c) PROVE StoppingInv'
  BY <1>3, StoppingKept DEF TryLock, Move, Goto, resourceVars, counterVars
<1>4. ASSUME NEW c \in Connections, LockQueued(c) PROVE StoppingInv'
  BY <1>4, StoppingKept DEF LockQueued, Move, Goto, resourceVars, counterVars
<1>5. ASSUME NEW c \in Connections, CancelQueued(c) PROVE StoppingInv'
  BY <1>5, StoppingKept DEF CancelQueued, Move, Goto, instanceVars,
       resourceVars, counterVars
<1>6. ASSUME NEW c \in Connections, Requeue(c) PROVE StoppingInv'
  BY <1>6, StoppingKept DEF Requeue, Move, Goto, resourceVars, counterVars
<1>7. ASSUME NEW c \in Connections, Track(c) PROVE StoppingInv'
  BY <1>7, StoppingKept DEF Track, Move, Goto, resourceVars, counterVars
<1>8. ASSUME NEW c \in Connections, DialOk(c) PROVE StoppingInv'
  BY <1>8, StoppingKept DEF DialOk, Move, Goto, instanceVars, resourceVars,
       counterVars
<1>9. ASSUME NEW c \in Connections, DialFail(c) PROVE StoppingInv'
  BY <1>9, StoppingKept DEF DialFail, Move, Goto, instanceVars, resourceVars,
       counterVars
<1>10. ASSUME NEW c \in Connections, Restart(c) PROVE StoppingInv'
  <2>1. pc[c] = "restart"
        /\ \A u \in Threads \ {c} : ptr'[u] = ptr[u] /\ stopping'[u] = stopping[u]
    BY <1>10 DEF Restart, CallStop
  <2>2. pc' = [pc EXCEPT ![c] = "stopLookup"] \/ pc' = [pc EXCEPT ![c] = "register"]
    BY <1>10 DEF Restart, CallStop, Goto
  <2> QED
    BY <2>1, <2>2, StoppingKept
<1>11. ASSUME NEW c \in Connections, Register(c) PROVE StoppingInv'
  BY <1>11, StoppingKept DEF Register, Move, Goto, resourceVars, counterVars
<1>12. ASSUME NEW c \in Connections, ReserveOk(c) PROVE StoppingInv'
  BY <1>12, StoppingKept DEF ReserveOk, Move, Goto, instanceVars, counterVars
<1>13. ASSUME NEW c \in Connections, ReserveMissing(c) PROVE StoppingInv'
  BY <1>13, StoppingKept DEF ReserveMissing, Move, Goto, instanceVars,
       resourceVars, counterVars
<1>14. ASSUME NEW c \in Connections, PickVictim(c) PROVE StoppingInv'
  <2>1. pc[c] = "pick"
        /\ \A u \in Threads \ {c} : ptr'[u] = ptr[u] /\ stopping'[u] = stopping[u]
    BY <1>14 DEF PickVictim, CallStop
  <2>2. pc' = [pc EXCEPT ![c] = "stopLookup"] \/ pc' = [pc EXCEPT ![c] = "park"]
    BY <1>14 DEF PickVictim, CallStop, Goto
  <2> QED
    BY <2>1, <2>2, StoppingKept
<1>15. ASSUME NEW c \in Connections, Park(c) PROVE StoppingInv'
  BY <1>15, StoppingKept DEF Park, Move, Goto, instanceVars, counterVars
<1>16. ASSUME NEW c \in Connections, Wake(c) PROVE StoppingInv'
  BY <1>16, StoppingKept DEF Wake, Move, Goto, Unpark, instanceVars,
       counterVars
<1>17. ASSUME NEW c \in Connections, GiveUp(c) PROVE StoppingInv'
  BY <1>17, StoppingKept DEF GiveUp, Move, Goto, Unpark, instanceVars,
       counterVars
<1>18. ASSUME NEW c \in Connections, Refused(c) PROVE StoppingInv'
  BY <1>18, StoppingKept DEF Refused, Move, Goto, counterVars
<1>19. ASSUME NEW c \in Connections, FlagReserved(c) PROVE StoppingInv'
  BY <1>19, StoppingKept DEF FlagReserved, Move, Goto, resourceVars,
       counterVars
<1>20. ASSUME NEW c \in Connections, LaunchFail(c) PROVE StoppingInv'
  BY <1>20, StoppingKept DEF LaunchFail, Move, Goto, counterVars
<1>21. ASSUME NEW c \in Connections, LaunchOk(c) PROVE StoppingInv'
  BY <1>21, StoppingKept DEF LaunchOk, Move, Goto, resourceVars, counterVars
<1>22. ASSUME NEW c \in Connections, ProbeOk(c) PROVE StoppingInv'
  BY <1>22, StoppingKept DEF ProbeOk, Move, Goto, instanceVars, resourceVars,
       counterVars
<1>23. ASSUME NEW c \in Connections, ProbeFail(c) PROVE StoppingInv'
  BY <1>23, StoppingKept DEF ProbeFail, Goto, CallStop, resourceVars,
       counterVars
<1>24. ASSUME NEW c \in Connections, Unreserve(c) PROVE StoppingInv'
  BY <1>24, StoppingKept DEF Unreserve, Move, Goto, instanceVars, counterVars
<1>25. ASSUME NEW c \in Connections, Ready(c) PROVE StoppingInv'
  BY <1>25, StoppingKept DEF Ready, Move, Goto, counterVars
<1>26. ASSUME NEW c \in Connections, Attach(c) PROVE StoppingInv'
  BY <1>26, StoppingKept DEF Attach, Move, Goto, resourceVars, counterVars
<1>27. ASSUME NEW c \in Connections, Count(c) PROVE StoppingInv'
  BY <1>27, StoppingKept DEF Count, Move, Goto, instanceVars, resourceVars
<1>28. ASSUME NEW c \in Connections, EndProxy(c) PROVE StoppingInv'
  BY <1>28, StoppingKept DEF EndProxy, Move, Goto, resourceVars, counterVars
<1>29. ASSUME NEW c \in Connections, Uncount(c) PROVE StoppingInv'
  BY <1>29, StoppingKept DEF Uncount, Goto, AfterDecrement, instanceVars,
       resourceVars
<1>30. ASSUME NEW c \in Connections, Fail(c) PROVE StoppingInv'
  BY <1>30, StoppingKept DEF Fail, Goto, AfterDecrement, instanceVars,
       resourceVars
<1>31. ASSUME NEW c \in Connections, Notify(c) PROVE StoppingInv'
  BY <1>31, StoppingKept DEF Notify, Move, Goto, instanceVars, counterVars
<1>32. ASSUME NEW t \in Threads, StopLookup(t) PROVE StoppingInv'
  <2>1. /\ pc[t] = "stopLookup" /\ stopping[t] \in Services
        /\ then[t] \in {"reserve", "register", "unreserve", "off"}
        /\ \A u \in Threads \ {t} : pc'[u] = pc[u] /\ ptr'[u] = ptr[u] /\ stopping'[u] = stopping[u]
    BY <1>32 DEF StopLookup, ReturnFromStop, Goto
  <2>2. CASE pc'[t] = then[t]
    BY <2>1, <2>2, StoppingKept
  <2>3. CASE /\ running[stopping[t]] # None
             /\ pc'[t] = "stopLock"
             /\ ptr'[t] = running[stopping[t]] /\ stopping'[t] = stopping[t]
    <3>1. Target[ptr'[t]] = stopping'[t]
      BY <2>1, <2>3, RunningLive
    <3>2. ASSUME NEW u \in Threads \ {t},
                 pc'[u] \in {"stopLock", "wait", "killed"}
          PROVE  Target[ptr'[u]] = stopping'[u]
      BY <2>1, <3>2 DEF StoppingInv
    <3> QED
      BY <3>1, <3>2 DEF StoppingInv
  <2> QED
    BY <1>32, <2>1, <2>2, <2>3 DEF StopLookup, ReturnFromStop, Goto
<1>33. ASSUME NEW t \in Threads, StopLock(t) PROVE StoppingInv'
  BY <1>33, StoppingKept DEF StopLock, Move, Goto, resourceVars, counterVars
<1>34. ASSUME NEW t \in Threads, StopFinish(t) PROVE StoppingInv'
  <2>1. /\ pc' = [pc EXCEPT ![t] = then[t]] /\ ptr' = [ptr EXCEPT ![t] = None]
        /\ stopping' = [stopping EXCEPT ![t] = None] /\ pc[t] \in {"wait", "killed"}
        /\ then[t] \in {"reserve", "register", "unreserve", "off"}
    BY <1>34 DEF StopFinish, ReturnFromStop, Goto
  <2> QED
    BY <2>1, StoppingKept
<1>35. ASSUME NEW t \in Threads, StopKill(t) PROVE StoppingInv'
  BY <1>35, StoppingKept DEF StopKill, Move, Goto, resourceVars, counterVars
<1>36. ASSUME NEW t \in Threads, StopAbandon(t) PROVE StoppingInv'
  <2>1. /\ pc' = [pc EXCEPT ![t] = then[t]] /\ ptr' = [ptr EXCEPT ![t] = None]
        /\ stopping' = [stopping EXCEPT ![t] = None] /\ pc[t] \in {"wait", "killed"}
        /\ then[t] \in {"reserve", "register", "unreserve", "off"}
    BY <1>36 DEF StopAbandon, ReturnFromStop, Goto
  <2> QED
    BY <2>1, StoppingKept
<1>37. ASSUME NEW t \in Timers, IdleDrop(t) PROVE StoppingInv'
  BY <1>37, StoppingKept DEF IdleDrop, Move, Goto, instanceVars, resourceVars,
       counterVars
<1>38. ASSUME NEW t \in Timers, IdleRearm(t) PROVE StoppingInv'
  BY <1>38, StoppingKept DEF IdleRearm, Move, Goto, resourceVars, counterVars
<1>39. ASSUME NEW t \in Timers, IdleStop(t) PROVE StoppingInv'
  BY <1>39, StoppingKept DEF IdleStop, Goto, CallStop, instanceVars,
       resourceVars, counterVars
<1>40. ASSUME NEW t \in Timers, NEW i \in Instances, TimerFire(t, i) PROVE StoppingInv'
  BY <1>40, StoppingKept DEF TimerFire, Move, Goto, resourceVars, counterVars
<1>41. ASSUME NEW i \in Instances, Exit(i) PROVE StoppingInv'
  BY <1>41, StoppingKept DEF Exit, threadVars, resourceVars, counterVars
<1>42. ASSUME NEW i \in Instances, MonitorClean(i) PROVE StoppingInv'
  BY <1>42, StoppingKept DEF MonitorClean, threadVars, counterVars
<1> QED
  BY <1>1, <1>2, <1>3, <1>4, <1>5, <1>6, <1>7, <1>8, <1>9, <1>10, <1>11, <1>12,
     <1>13, <1>14, <1>15, <1>16, <1>17, <1>18, <1>19, <1>20, <1>21, <1>22,
     <1>23, <1>24, <1>25, <1>26, <1>27, <1>28, <1>29, <1>30, <1>31, <1>32,
     <1>33, <1>34, <1>35, <1>36, <1>37, <1>38, <1>39, <1>40, <1>41, <1>42
  DEF Next, ClientStep, ProgramStep, StopStep, IdleStep
-----------------------------------------------------------------------------
\* A step after which nobody evicts anybody anew keeps the invariant.
LEMMA EvictionKept ==
  ASSUME EvictionInv,
         \A c, d \in Connections : Evicts(c, d)' => Evicts(c, d)
  PROVE  EvictionInv'
<1> SUFFICES ASSUME NEW T \in SUBSET Connections, T # {}
             PROVE  \E c \in T : \A d \in T : ~Evicts(c, d)'
  BY DEF EvictionInv
<1>1. PICK c \in T : \A d \in T : ~Evicts(c, d)
  BY DEF EvictionInv
<1>2. \A d \in T : ~Evicts(c, d)'
  BY <1>1
<1> QED
  BY <1>2

\* A goroutine that moves between the places where it reserves, or where it
\* does not, and does not begin to stop anybody, evicts nobody anew.
LEMMA EvictionMove ==
  ASSUME TypeInv, EvictionInv, NEW t \in Threads,
         \A u \in Threads \ {t} :
            pc'[u] = pc[u] /\ then'[u] = then[u] /\ stopping'[u] = stopping[u],
         t \in Connections /\ Reserving(t)' => Reserving(t),
         pc'[t] \in StopCall /\ then'[t] = "reserve" =>
            /\ pc[t] \in StopCall /\ then[t] = "reserve"
            /\ stopping'[t] = stopping[t]
  PROVE  EvictionInv'
<1>1. ASSUME NEW c \in Connections, NEW d \in Connections, Evicts(c, d)'
      PROVE  Evicts(c, d)
  <2>1. Reserving(d)
    BY <1>1 DEF Evicts, Reserving, Threads
  <2>2. pc[c] \in StopCall /\ then[c] = "reserve" /\ stopping[c] = Target[d]
    BY <1>1 DEF Evicts, Threads
  <2> QED
    BY <2>1, <2>2 DEF Evicts
<1> QED
  BY <1>1, EvictionKept

\* Every step leaves the evictors without a circle: one that picks a victim
\* finds it at rest, one that registers has not picked yet.
LEMMA EvictionPreserved ==
  ASSUME TypeInv, LocalsInv, LockInv, PhaseInv, EvictionInv, Next
  PROVE  EvictionInv'
<1> USE ThreadsAssumption, ConfigAssumption, NoneAssumption
<1> USE DEF TypeInv, LocalsInv, Threads, Instances, StopCall
<1>1. ASSUME NEW c \in Connections, Accept(c) PROVE EvictionInv'
  BY <1>1, EvictionMove DEF Accept, Move, Goto, instanceVars, resourceVars,
       Reserving
<1>2. ASSUME NEW c \in Connections, Lookup(c) PROVE EvictionInv'
  BY <1>2, EvictionMove DEF Lookup, Move, Goto, instanceVars, resourceVars,
       counterVars, Reserving
<1>3. ASSUME NEW c \in Connections, TryLock(c) PROVE EvictionInv'
  <2>1. pc[c] = "trylock" /\ UNCHANGED <<then, stopping>>
    BY <1>3 DEF TryLock, Move
  <2>2. CASE pc' = [pc EXCEPT ![c] = "track"]
    BY <2>1, <2>2, EvictionMove DEF Reserving
  <2>3. CASE pc' = [pc EXCEPT ![c] = "queued"]
    BY <2>1, <2>3, EvictionMove DEF Reserving
  <2> QED
    BY <1>3, <2>2, <2>3 DEF TryLock, Move, Goto
<1>4. ASSUME NEW c \in Connections, LockQueued(c) PROVE EvictionInv'
  BY <1>4, EvictionMove DEF LockQueued, Move, Goto, resourceVars, counterVars,
       Reserving
<1>5. ASSUME NEW c \in Connections, CancelQueued(c) PROVE EvictionInv'
  BY <1>5, EvictionMove DEF CancelQueued, Move, Goto, instanceVars,
       resourceVars, counterVars, Reserving
<1>6. ASSUME NEW c \in Connections, Requeue(c) PROVE EvictionInv'
  <2>1. pc[c] = "requeue" /\ UNCHANGED <<then, stopping>>
    BY <1>6 DEF Requeue, Move
  <2>2. CASE pc' = [pc EXCEPT ![c] = "lookup"]
    BY <2>1, <2>2, EvictionMove DEF Reserving
  <2>3. CASE pc' = [pc EXCEPT ![c] = "fail"]
    BY <2>1, <2>3, EvictionMove DEF Reserving
  <2> QED
    BY <1>6, <2>2, <2>3 DEF Requeue, Move, Goto
<1>7. ASSUME NEW c \in Connections, Track(c) PROVE EvictionInv'
  BY <1>7, EvictionMove DEF Track, Move, Goto, resourceVars, counterVars,
       Reserving
<1>8. ASSUME NEW c \in Connections, DialOk(c) PROVE EvictionInv'
  BY <1>8, EvictionMove DEF DialOk, Move, Goto, instanceVars, resourceVars,
       counterVars, Reserving
<1>9. ASSUME NEW c \in Connections, DialFail(c) PROVE EvictionInv'
  BY <1>9, EvictionMove DEF DialFail, Move, Goto, instanceVars, resourceVars,
       counterVars, Reserving
<1>10. ASSUME NEW c \in Connections, Restart(c) PROVE EvictionInv'
  <2>1. CASE CallStop(c, Target[c], "register")
    <3>1. /\ pc[c] = "restart" /\ pc' = [pc EXCEPT ![c] = "stopLookup"]
          /\ then' = [then EXCEPT ![c] = "register"]
          /\ stopping' = [stopping EXCEPT ![c] = Target[c]]
      BY <1>10, <2>1 DEF Restart, CallStop, Goto
    <3> QED
      BY <3>1, EvictionMove DEF Reserving
  <2>2. CASE Goto(c, "register") /\ UNCHANGED <<ptr, stopping, then>>
    BY <1>10, <2>2, EvictionMove DEF Restart, Goto, Reserving
  <2> QED
    BY <1>10, <2>1, <2>2 DEF Restart
<1>11. ASSUME NEW c \in Connections, Register(c) PROVE EvictionInv'
  <2>1. CASE running[Target[c]] = None
    <3>1. /\ pc[c] = "register" /\ pc' = [pc EXCEPT ![c] = "reserve"]
          /\ UNCHANGED <<then, stopping>>
      BY <1>11, <2>1 DEF Register, Move, Goto
    <3>2. \A d \in Connections : ~Evicts(c, d)'
      BY <3>1 DEF Evicts
    <3>3. \A a \in Connections, d \in Connections \ {c} : Evicts(a, d)' => Evicts(a, d)
      BY <3>1 DEF Evicts, Reserving
    <3> SUFFICES ASSUME NEW T \in SUBSET Connections, T # {}
                 PROVE  \E a \in T : \A d \in T : ~Evicts(a, d)'
      BY DEF EvictionInv
    <3>4. CASE c \in T
      BY <3>2, <3>4
    <3>5. CASE c \notin T
      <4>1. PICK a \in T : \A d \in T : ~Evicts(a, d)
        BY DEF EvictionInv
      <4>2. \A d \in T : ~Evicts(a, d)'
        BY <3>3, <3>5, <4>1
      <4> QED
        BY <4>2
    <3> QED
      BY <3>4, <3>5
  <2>2. CASE running[Target[c]] # None
    <3>1. /\ pc[c] = "register" /\ pc' = [pc EXCEPT ![c] = "fail"]
          /\ UNCHANGED <<then, stopping>>
      BY <1>11, <2>2 DEF Register, Move, Goto
    <3> QED
      BY <3>1, EvictionMove DEF Reserving
  <2> QED
    BY <2>1, <2>2
<1>12. ASSUME NEW c \in Connections, ReserveOk(c) PROVE EvictionInv'
  BY <1>12, EvictionMove DEF ReserveOk, Move, Goto, instanceVars, counterVars,
       Reserving
<1>13. ASSUME NEW c \in Connections, ReserveMissing(c) PROVE EvictionInv'
  BY <1>13, EvictionMove DEF ReserveMissing, Move, Goto, instanceVars,
       resourceVars, counterVars, Reserving
<1>14. ASSUME NEW c \in Connections, PickVictim(c) PROVE EvictionInv'
  <2>1. ASSUME NEW s \in Victims(c), CallStop(c, s, "reserve") PROVE EvictionInv'
    <3>1. /\ pc[c] = "pick" /\ pc' = [pc EXCEPT ![c] = "stopLookup"]
          /\ then' = [then EXCEPT ![c] = "reserve"]
          /\ stopping' = [stopping EXCEPT ![c] = s]
      BY <1>14, <2>1 DEF PickVictim, CallStop, Goto
    <3>2. s \in Services /\ manage[running[s]] = None
      BY DEF Victims, CanBeStopped
    <3>3. \A d \in Connections : Reserving(d) => manage[d] = d /\ running[Target[d]] = d
      BY DEF LockInv, LockDiscipline, HoldsOwn, PhaseInv
    <3>4. \A d \in Connections : Target[d] = s => ~Reserving(d)
      BY <3>2, <3>3
    <3>5. \A d \in Connections : Reserving(d)' => Reserving(d)
      BY <3>1 DEF Reserving
    <3>6. \A a, d \in Connections : Evicts(a, d)' => Evicts(a, d)
      BY <3>1, <3>4, <3>5 DEF Evicts
    <3> QED
      BY <3>6, EvictionKept
  <2>2. CASE Goto(c, "park") /\ UNCHANGED <<ptr, stopping, then>>
    BY <1>14, <2>2, EvictionMove DEF PickVictim, Goto, Reserving
  <2> QED
    BY <1>14, <2>1, <2>2 DEF PickVictim
<1>15. ASSUME NEW c \in Connections, Park(c) PROVE EvictionInv'
  BY <1>15, EvictionMove DEF Park, Move, Goto, instanceVars, counterVars,
       Reserving
<1>16. ASSUME NEW c \in Connections, Wake(c) PROVE EvictionInv'
  BY <1>16, EvictionMove DEF Wake, Move, Goto, Unpark, instanceVars,
       counterVars, Reserving
<1>17. ASSUME NEW c \in Connections, GiveUp(c) PROVE EvictionInv'
  BY <1>17, EvictionMove DEF GiveUp, Move, Goto, Unpark, instanceVars,
       counterVars, Reserving
<1>18. ASSUME NEW c \in Connections, Refused(c) PROVE EvictionInv'
  BY <1>18, EvictionMove DEF Refused, Move, Goto, counterVars, Reserving
<1>19. ASSUME NEW c \in Connections, FlagReserved(c) PROVE EvictionInv'
  BY <1>19, EvictionMove DEF FlagReserved, Move, Goto, resourceVars,
       counterVars, Reserving
<1>20. ASSUME NEW c \in Connections, LaunchFail(c) PROVE EvictionInv'
  BY <1>20, EvictionMove DEF LaunchFail, Move, Goto, counterVars, Reserving
<1>21. ASSUME NEW c \in Connections, LaunchOk(c) PROVE EvictionInv'
  BY <1>21, EvictionMove DEF LaunchOk, Move, Goto, resourceVars, counterVars,
       Reserving
<1>22. ASSUME NEW c \in Connections, ProbeOk(c) PROVE EvictionInv'
  BY <1>22, EvictionMove DEF ProbeOk, Move, Goto, instanceVars, resourceVars,
       counterVars, Reserving
<1>23. ASSUME NEW c \in Connections, ProbeFail(c) PROVE EvictionInv'
  <2>1. /\ pc[c] = "probe" /\ pc' = [pc EXCEPT ![c] = "stopLookup"]
        /\ then' = [then EXCEPT ![c] = "unreserve"]
        /\ stopping' = [stopping EXCEPT ![c] = Target[c]]
    BY <1>23 DEF ProbeFail, CallStop, Goto
  <2> QED
    BY <2>1, EvictionMove DEF Reserving
<1>24. ASSUME NEW c \in Connections, Unreserve(c) PROVE EvictionInv'
  BY <1>24, EvictionMove DEF Unreserve, Move, Goto, instanceVars, counterVars,
       Reserving
<1>25. ASSUME NEW c \in Connections, Ready(c) PROVE EvictionInv'
  BY <1>25, EvictionMove DEF Ready, Move, Goto, counterVars, Reserving
<1>26. ASSUME NEW c \in Connections, Attach(c) PROVE EvictionInv'
  BY <1>26, EvictionMove DEF Attach, Move, Goto, resourceVars, counterVars,
       Reserving
<1>27. ASSUME NEW c \in Connections, Count(c) PROVE EvictionInv'
  BY <1>27, EvictionMove DEF Count, Move, Goto, instanceVars, resourceVars,
       Reserving
<1>28. ASSUME NEW c \in Connections, EndProxy(c) PROVE EvictionInv'
  BY <1>28, EvictionMove DEF EndProxy, Move, Goto, resourceVars, counterVars,
       Reserving
<1>29. ASSUME NEW c \in Connections, Uncount(c) PROVE EvictionInv'
  BY <1>29, EvictionMove DEF Uncount, Goto, AfterDecrement, instanceVars,
       resourceVars, Reserving
<1>30. ASSUME NEW c \in Connections, Fail(c) PROVE EvictionInv'
  BY <1>30, EvictionMove DEF Fail, Goto, AfterDecrement, instanceVars,
       resourceVars, Reserving
<1>31. ASSUME NEW c \in Connections, Notify(c) PROVE EvictionInv'
  BY <1>31, EvictionMove DEF Notify, Move, Goto, instanceVars, counterVars,
       Reserving
<1>32. ASSUME NEW t \in Threads, StopLookup(t) PROVE EvictionInv'
  <2>1. CASE ReturnFromStop(t)
    <3>1. /\ pc[t] \in StopCall /\ pc' = [pc EXCEPT ![t] = then[t]]
          /\ then' = [then EXCEPT ![t] = "none"] /\ stopping' = [stopping EXCEPT ![t] = None]
          /\ then[t] \in {"reserve", "register", "unreserve", "off"}
      BY <1>32, <2>1 DEF StopLookup, ReturnFromStop, Goto
    <3> QED
      BY <3>1, EvictionMove DEF Reserving
  <2>2. CASE Goto(t, "stopLock") /\ UNCHANGED <<stopping, then>>
    BY <1>32, <2>2, EvictionMove DEF StopLookup, Goto, Reserving
  <2> QED
    BY <1>32, <2>1, <2>2 DEF StopLookup
<1>33. ASSUME NEW t \in Threads, StopLock(t) PROVE EvictionInv'
  BY <1>33, EvictionMove DEF StopLock, Move, Goto, resourceVars, counterVars,
       Reserving
<1>34. ASSUME NEW t \in Threads, StopFinish(t) PROVE EvictionInv'
  <2>1. /\ pc[t] \in StopCall /\ pc' = [pc EXCEPT ![t] = then[t]]
        /\ then' = [then EXCEPT ![t] = "none"] /\ stopping' = [stopping EXCEPT ![t] = None]
        /\ then[t] \in {"reserve", "register", "unreserve", "off"}
    BY <1>34 DEF StopFinish, ReturnFromStop, Goto
  <2> QED
    BY <2>1, EvictionMove DEF Reserving
<1>35. ASSUME NEW t \in Threads, StopKill(t) PROVE EvictionInv'
  BY <1>35, EvictionMove DEF StopKill, Move, Goto, resourceVars, counterVars,
       Reserving
<1>36. ASSUME NEW t \in Threads, StopAbandon(t) PROVE EvictionInv'
  <2>1. /\ pc[t] \in StopCall /\ pc' = [pc EXCEPT ![t] = then[t]]
        /\ then' = [then EXCEPT ![t] = "none"] /\ stopping' = [stopping EXCEPT ![t] = None]
        /\ then[t] \in {"reserve", "register", "unreserve", "off"}
    BY <1>36 DEF StopAbandon, ReturnFromStop, Goto
  <2> QED
    BY <2>1, EvictionMove DEF Reserving
<1>37. ASSUME NEW t \in Timers, IdleDrop(t) PROVE EvictionInv'
  BY <1>37, EvictionMove DEF IdleDrop, Move, Goto, instanceVars, resourceVars,
       counterVars, Reserving
<1>38. ASSUME NEW t \in Timers, IdleRearm(t) PROVE EvictionInv'
  BY <1>38, EvictionMove DEF IdleRearm, Move, Goto, resourceVars, counterVars,
       Reserving
<1>39. ASSUME NEW t \in Timers, IdleStop(t) PROVE EvictionInv'
  <2>1. /\ pc' = [pc EXCEPT ![t] = "stopLookup"] /\ then' = [then EXCEPT ![t] = "off"]
        /\ t \notin Connections /\ \A u \in Threads \ {t} : stopping'[u] = stopping[u]
    BY <1>39 DEF IdleStop, CallStop, Goto
  <2> QED
    BY <2>1, EvictionMove
<1>40. ASSUME NEW t \in Timers, NEW i \in Instances, TimerFire(t, i) PROVE EvictionInv'
  BY <1>40, EvictionMove DEF TimerFire, Move, Goto, resourceVars, counterVars,
       Reserving
<1>41. ASSUME NEW i \in Instances, Exit(i) PROVE EvictionInv'
  <2>1. UNCHANGED <<pc, then, stopping>>
    BY <1>41 DEF Exit, threadVars
  <2> QED
    BY <2>1, EvictionKept DEF Evicts, Reserving
<1>42. ASSUME NEW i \in Instances, MonitorClean(i) PROVE EvictionInv'
  <2>1. UNCHANGED <<pc, then, stopping>>
    BY <1>42 DEF MonitorClean, threadVars
  <2> QED
    BY <2>1, EvictionKept DEF Evicts, Reserving
<1> QED
  BY <1>1, <1>2, <1>3, <1>4, <1>5, <1>6, <1>7, <1>8, <1>9, <1>10, <1>11, <1>12,
     <1>13, <1>14, <1>15, <1>16, <1>17, <1>18, <1>19, <1>20, <1>21, <1>22,
     <1>23, <1>24, <1>25, <1>26, <1>27, <1>28, <1>29, <1>30, <1>31, <1>32,
     <1>33, <1>34, <1>35, <1>36, <1>37, <1>38, <1>39, <1>40, <1>41, <1>42
  DEF Next, ClientStep, ProgramStep, StopStep, IdleStep
-----------------------------------------------------------------------------
\* Where connections are that neither start nor stop anything.
Apart == ConnectionPlaces \ (StopCall \cup Starting)

\* Only what a step does to the start of the goroutine that takes it matters.
LEMMA StarterMove ==
  ASSUME StarterInv, NEW t \in Threads,
         \A i \in Connections :
            /\ flag[i] => flag'[i]
            /\ timer'[i] # "nil" => timer[i] # "nil" \/ flag'[i]
            /\ status'[i] = "live" /\ timer'[i] = "nil" /\ i # t
                  => status[i] = "live" /\ timer[i] = "nil"
            /\ i # t => /\ pc'[i] = pc[i] /\ then'[i] = then[i]
                        /\ ptr'[i] = ptr[i] /\ stopping'[i] = stopping[i],
         t \in Connections => StartOf(t)'
  PROVE  StarterInv'
<1> SUFFICES ASSUME NEW c \in Connections
             PROVE  StartOf(c)' /\ (timer'[c] # "nil" => flag'[c])
  BY DEF StarterInv
<1>1. StartOf(c) /\ (timer[c] # "nil" => flag[c])
  BY DEF StarterInv
<1>2. timer'[c] # "nil" => flag'[c]
  BY <1>1
<1>3. CASE c = t
  BY <1>2, <1>3
<1>4. CASE c # t
  BY <1>1, <1>2, <1>4 DEF StartOf, Launching, StopsOwn, StarterAt, HoldsOwn,
     Reserving
<1> QED
  BY <1>3, <1>4

\* A callback starts nothing.
LEMMA StarterElsewhere ==
  ASSUME StarterInv, NEW t \in Timers, t \notin Connections,
         UNCHANGED <<flag, status>>,
         \A u \in Threads \ {t} : /\ pc'[u] = pc[u] /\ then'[u] = then[u]
                                  /\ ptr'[u] = ptr[u] /\ stopping'[u] = stopping[u],
         \A i \in Instances : timer'[i] = "nil" <=> timer[i] = "nil"
  PROVE  StarterInv'
<1> SUFFICES ASSUME NEW c \in Connections
             PROVE  StartOf(c)' /\ (timer'[c] # "nil" => flag'[c])
  BY DEF StarterInv
<1>1. /\ pc'[c] = pc[c] /\ then'[c] = then[c] /\ ptr'[c] = ptr[c]
      /\ stopping'[c] = stopping[c] /\ (timer'[c] = "nil" <=> timer[c] = "nil")
  BY DEF Threads, Instances
<1>2. StartOf(c) /\ (timer[c] # "nil" => flag[c])
  BY DEF StarterInv
<1> QED
  BY <1>1, <1>2 DEF StartOf, Launching, StopsOwn, StarterAt, HoldsOwn, Reserving

\* A connection that neither starts nor stops anything goes on so.
LEMMA StarterApart ==
  ASSUME TypeInv, StarterInv, NEW c \in Connections, NEW p \in Apart,
         pc[c] \in Apart, pc' = [pc EXCEPT ![c] = p],
         UNCHANGED <<then, stopping, flag, status>>,
         \A t \in Threads \ {c} : ptr'[t] = ptr[t],
         \A i \in Instances : timer'[i] = "nil" <=> timer[i] = "nil"
  PROVE  StarterInv'
<1> USE ThreadsAssumption DEF Threads, Instances
<1>1. StartOf(c)
  BY DEF StarterInv
<1>2. ~Launching(c)' /\ ~StopsOwn(c)' /\ ~StarterAt(c)
  BY DEF Apart, Launching, StopsOwn, StarterAt, HoldsOwn, Reserving, Starting,
     StopCall, TypeInv
<1>3. StartOf(c)'
  BY <1>1, <1>2 DEF StartOf
<1>4. \A t \in Threads \ {c} : pc'[t] = pc[t]
  BY DEF TypeInv
<1> QED
  BY <1>3, <1>4, StarterMove DEF StarterInv

\* A start goes on.
LEMMA StarterGoesOn ==
  ASSUME TypeInv, StarterInv, NEW c \in Connections,
         HoldsOwn(c)', Launching(c)' => flag'[c], ~StopsOwn(c)',
         \A t \in Threads \ {c} : /\ pc'[t] = pc[t] /\ then'[t] = then[t]
                                  /\ ptr'[t] = ptr[t] /\ stopping'[t] = stopping[t],
         \A i \in Instances : /\ flag[i] => flag'[i]
                              /\ i # c => status'[i] = status[i],
         UNCHANGED timer
  PROVE  StarterInv'
<1> USE ThreadsAssumption DEF Threads, Instances
<1>1. StartOf(c)'
  BY DEF StartOf, StarterAt
<1> QED
  BY <1>1, StarterMove DEF StarterInv

\* A failed start ends with the clean-up of its instance.
LEMMA StarterCleansUp ==
  ASSUME TypeInv, StarterInv, NEW t \in Threads, NEW i \in Instances, CleanUp(i),
         UNCHANGED flag,
         \A u \in Threads \ {t} : /\ pc'[u] = pc[u] /\ then'[u] = then[u]
                                  /\ ptr'[u] = ptr[u] /\ stopping'[u] = stopping[u],
         t \in Connections => StartOf(t)'
  PROVE  StarterInv'
<1> USE ThreadsAssumption DEF Threads, Instances
<1>1. /\ status'[i] = "released" /\ timer'[i] \in {timer[i], "nil"}
      /\ \A j \in Instances \ {i} : status'[j] = status[j] /\ timer'[j] = timer[j]
  BY CleanUpStatus
<1> QED
  BY <1>1, StarterMove

\* Every step keeps an instance with a timer charged and one without a timer
\* in the hands of its starter.
LEMMA StarterPreserved ==
  ASSUME TypeInv, LocalsInv, RegistryInv, PhaseInv, BornInv, StarterInv, Next
  PROVE  StarterInv'
<1> USE ThreadsAssumption, ConfigAssumption, NoneAssumption
<1> USE DEF TypeInv, LocalsInv, Threads, Instances, StopCall
<1>1. ASSUME NEW c \in Connections, Accept(c) PROVE StarterInv'
  <2>1. /\ pc[c] = "new" /\ UNCHANGED <<then, stopping, flag, status>>
        /\ \A u \in Threads \ {c} : ptr'[u] = ptr[u]
        /\ \A i \in Instances : timer'[i] = "nil" <=> timer[i] = "nil"
    BY <1>1 DEF Accept, Move, Goto, instanceVars
  <2>2. \E p \in {"lookup"} : pc' = [pc EXCEPT ![c] = p]
    BY <1>1 DEF Accept, Move, Goto, instanceVars
  <2> QED
    BY <2>1, <2>2, StarterApart DEF Apart, ConnectionPlaces, Starting
<1>2. ASSUME NEW c \in Connections, Lookup(c) PROVE StarterInv'
  <2>1. /\ pc[c] = "lookup" /\ UNCHANGED <<then, stopping, flag, status>>
        /\ \A u \in Threads \ {c} : ptr'[u] = ptr[u]
        /\ \A i \in Instances : timer'[i] = "nil" <=> timer[i] = "nil"
    BY <1>2 DEF Lookup, Move, Goto, instanceVars
  <2>2. \E p \in {"register", "trylock"} : pc' = [pc EXCEPT ![c] = p]
    BY <1>2 DEF Lookup, Move, Goto, instanceVars
  <2> QED
    BY <2>1, <2>2, StarterApart DEF Apart, ConnectionPlaces, Starting
<1>3. ASSUME NEW c \in Connections, TryLock(c) PROVE StarterInv'
  <2>1. /\ pc[c] = "trylock" /\ UNCHANGED <<then, stopping, flag, status>>
        /\ \A u \in Threads \ {c} : ptr'[u] = ptr[u]
        /\ \A i \in Instances : timer'[i] = "nil" <=> timer[i] = "nil"
    BY <1>3 DEF TryLock, Move, Goto
  <2>2. \E p \in {"track", "queued"} : pc' = [pc EXCEPT ![c] = p]
    BY <1>3 DEF TryLock, Move, Goto
  <2> QED
    BY <2>1, <2>2, StarterApart DEF Apart, ConnectionPlaces, Starting
<1>4. ASSUME NEW c \in Connections, LockQueued(c) PROVE StarterInv'
  <2>1. /\ pc[c] = "queued" /\ UNCHANGED <<then, stopping, flag, status>>
        /\ \A u \in Threads \ {c} : ptr'[u] = ptr[u]
        /\ \A i \in Instances : timer'[i] = "nil" <=> timer[i] = "nil"
    BY <1>4 DEF LockQueued, Move, Goto
  <2>2. \E p \in {"requeue"} : pc' = [pc EXCEPT ![c] = p]
    BY <1>4 DEF LockQueued, Move, Goto
  <2> QED
    BY <2>1, <2>2, StarterApart DEF Apart, ConnectionPlaces, Starting
<1>5. ASSUME NEW c \in Connections, CancelQueued(c) PROVE StarterInv'
  <2>1. /\ pc[c] = "queued" /\ UNCHANGED <<then, stopping, flag, status>>
        /\ \A u \in Threads \ {c} : ptr'[u] = ptr[u]
        /\ \A i \in Instances : timer'[i] = "nil" <=> timer[i] = "nil"
    BY <1>5 DEF CancelQueued, Move, Goto, instanceVars
  <2>2. \E p \in {"fail"} : pc' = [pc EXCEPT ![c] = p]
    BY <1>5 DEF CancelQueued, Move, Goto, instanceVars
  <2> QED
    BY <2>1, <2>2, StarterApart DEF Apart, ConnectionPlaces, Starting
<1>6. ASSUME NEW c \in Connections, Requeue(c) PROVE StarterInv'
  <2>1. /\ pc[c] = "requeue" /\ UNCHANGED <<then, stopping, flag, status>>
        /\ \A u \in Threads \ {c} : ptr'[u] = ptr[u]
        /\ \A i \in Instances : timer'[i] = "nil" <=> timer[i] = "nil"
    BY <1>6 DEF Requeue, Move, Goto
  <2>2. \E p \in {"lookup", "fail"} : pc' = [pc EXCEPT ![c] = p]
    BY <1>6 DEF Requeue, Move, Goto
  <2> QED
    BY <2>1, <2>2, StarterApart DEF Apart, ConnectionPlaces, Starting
<1>7. ASSUME NEW c \in Connections, Track(c) PROVE StarterInv'
  <2>1. /\ pc[c] = "track" /\ UNCHANGED <<then, stopping, flag, status>>
        /\ \A u \in Threads \ {c} : ptr'[u] = ptr[u]
        /\ \A i \in Instances : timer'[i] = "nil" <=> timer[i] = "nil"
    BY <1>7 DEF Track, Move, Goto, Touch
  <2>2. \E p \in {"dial"} : pc' = [pc EXCEPT ![c] = p]
    BY <1>7 DEF Track, Move, Goto, Touch
  <2> QED
    BY <2>1, <2>2, StarterApart DEF Apart, ConnectionPlaces, Starting
<1>8. ASSUME NEW c \in Connections, DialOk(c) PROVE StarterInv'
  <2>1. /\ pc[c] = "dial" /\ UNCHANGED <<then, stopping, flag, status>>
        /\ \A u \in Threads \ {c} : ptr'[u] = ptr[u]
        /\ \A i \in Instances : timer'[i] = "nil" <=> timer[i] = "nil"
    BY <1>8 DEF DialOk, Move, Goto, instanceVars
  <2>2. \E p \in {"attach"} : pc' = [pc EXCEPT ![c] = p]
    BY <1>8 DEF DialOk, Move, Goto, instanceVars
  <2> QED
    BY <2>1, <2>2, StarterApart DEF Apart, ConnectionPlaces, Starting
<1>9. ASSUME NEW c \in Connections, DialFail(c) PROVE StarterInv'
  <2>1. /\ pc[c] = "dial" /\ UNCHANGED <<then, stopping, flag, status>>
        /\ \A u \in Threads \ {c} : ptr'[u] = ptr[u]
        /\ \A i \in Instances : timer'[i] = "nil" <=> timer[i] = "nil"
    BY <1>9 DEF DialFail, Move, Goto, instanceVars
  <2>2. \E p \in {"restart", "fail"} : pc' = [pc EXCEPT ![c] = p]
    BY <1>9 DEF DialFail, Move, Goto, instanceVars
  <2> QED
    BY <2>1, <2>2, StarterApart DEF Apart, ConnectionPlaces, Starting
<1>10. ASSUME NEW c \in Connections, Restart(c) PROVE StarterInv'
  <2>1. CASE running[Target[c]] # None /\ CallStop(c, Target[c], "register")
    <3>1. /\ pc[c] = "restart" /\ UNCHANGED <<flag, status, timer>>
          /\ pc' = [pc EXCEPT ![c] = "stopLookup"]
          /\ then' = [then EXCEPT ![c] = "register"]
          /\ \A u \in Threads \ {c} : ptr'[u] = ptr[u] /\ stopping'[u] = stopping[u]
      BY <1>10, <2>1 DEF Restart, CallStop, Goto, instanceVars
    <3>2. StartOf(c)'
      BY <3>1 DEF StarterInv, StartOf, Launching, StopsOwn, StarterAt, HoldsOwn,
         Reserving, Starting
    <3> QED
      BY <3>1, <3>2, StarterMove
  <2>2. CASE running[Target[c]] = None
    <3>1. /\ pc[c] = "restart" /\ pc' = [pc EXCEPT ![c] = "register"]
          /\ UNCHANGED <<then, ptr, stopping, flag, status, timer>>
      BY <1>10, <2>2 DEF Restart, Goto, instanceVars
    <3> QED
      BY <3>1, StarterApart DEF Apart, ConnectionPlaces, Starting
  <2> QED
    BY <1>10, <2>1, <2>2 DEF Restart
<1>11. ASSUME NEW c \in Connections, Register(c) PROVE StarterInv'
  <2>1. CASE running[Target[c]] = None
    <3>1. /\ pc[c] = "register" /\ pc' = [pc EXCEPT ![c] = "reserve"]
          /\ status' = [status EXCEPT ![c] = "live"]
          /\ UNCHANGED <<then, ptr, stopping, flag, timer>>
      BY <1>11, <2>1 DEF Register, Move, Goto
    <3>2. HoldsOwn(c)' /\ ~StopsOwn(c)' /\ ~Launching(c)'
      BY <3>1 DEF HoldsOwn, Reserving, Starting, StopsOwn, Launching
    <3> QED
      BY <3>1, <3>2, StarterGoesOn
  <2>2. CASE running[Target[c]] # None
    <3>1. /\ pc[c] = "register" /\ pc' = [pc EXCEPT ![c] = "fail"]
          /\ UNCHANGED <<then, ptr, stopping, flag, status, timer>>
      BY <1>11, <2>2 DEF Register, Move, Goto
    <3> QED
      BY <3>1, StarterApart DEF Apart, ConnectionPlaces, Starting
  <2> QED
    BY <2>1, <2>2
<1>12. ASSUME NEW c \in Connections, ReserveOk(c) PROVE StarterInv'
  <2>1. /\ pc[c] = "reserve" /\ pc' = [pc EXCEPT ![c] = "flag"]
        /\ UNCHANGED <<then, ptr, stopping, status, timer>>
        /\ \A i \in Instances : flag[i] => flag'[i]
    BY <1>12 DEF ReserveOk, Move, Goto, instanceVars
  <2>2. HoldsOwn(c)' /\ ~StopsOwn(c)'
    BY <2>1 DEF HoldsOwn, Reserving, Starting, StopsOwn
  <2>3. Launching(c)' => flag'[c]
    BY <1>12, <2>1 DEF ReserveOk, Launching, StarterInv, StartOf
  <2> QED
    BY <2>1, <2>2, <2>3, StarterGoesOn
<1>13. ASSUME NEW c \in Connections, ReserveMissing(c) PROVE StarterInv'
  <2>1. /\ pc[c] = "reserve" /\ pc' = [pc EXCEPT ![c] = "pick"]
        /\ UNCHANGED <<then, ptr, stopping, status, timer>>
        /\ \A i \in Instances : flag[i] => flag'[i]
    BY <1>13 DEF ReserveMissing, Move, Goto, instanceVars
  <2>2. HoldsOwn(c)' /\ ~StopsOwn(c)'
    BY <2>1 DEF HoldsOwn, Reserving, Starting, StopsOwn
  <2>3. Launching(c)' => flag'[c]
    BY <1>13, <2>1 DEF ReserveMissing, Launching, StarterInv, StartOf
  <2> QED
    BY <2>1, <2>2, <2>3, StarterGoesOn
<1>14. ASSUME NEW c \in Connections, PickVictim(c) PROVE StarterInv'
  <2>1. /\ pc[c] = "pick" /\ UNCHANGED <<flag, status, timer>>
        /\ \A u \in Threads \ {c} : /\ then'[u] = then[u] /\ ptr'[u] = ptr[u]
                                    /\ stopping'[u] = stopping[u]
    BY <1>14 DEF PickVictim, CallStop, instanceVars
  <2>2. \/ /\ pc' = [pc EXCEPT ![c] = "stopLookup"]
           /\ then' = [then EXCEPT ![c] = "reserve"]
        \/ pc' = [pc EXCEPT ![c] = "park"]
    BY <1>14 DEF PickVictim, CallStop, Goto
  <2>3. HoldsOwn(c)' /\ ~StopsOwn(c)' /\ ~Launching(c)'
    BY <2>1, <2>2 DEF HoldsOwn, Reserving, Starting, StopsOwn, Launching
  <2>4. \A u \in Threads \ {c} : pc'[u] = pc[u]
    BY <2>2
  <2> QED
    BY <2>1, <2>3, <2>4, StarterGoesOn
<1>15. ASSUME NEW c \in Connections, Park(c) PROVE StarterInv'
  <2>1. /\ pc[c] = "park" /\ pc' = [pc EXCEPT ![c] = "parked"]
        /\ UNCHANGED <<then, ptr, stopping, status, timer>>
        /\ \A i \in Instances : flag[i] => flag'[i]
    BY <1>15 DEF Park, Move, Goto, instanceVars
  <2>2. HoldsOwn(c)' /\ ~StopsOwn(c)'
    BY <2>1 DEF HoldsOwn, Reserving, Starting, StopsOwn
  <2>3. Launching(c)' => flag'[c]
    BY <1>15, <2>1 DEF Park, Launching, StarterInv, StartOf
  <2> QED
    BY <2>1, <2>2, <2>3, StarterGoesOn
<1>16. ASSUME NEW c \in Connections, Wake(c) PROVE StarterInv'
  <2>1. /\ pc[c] = "parked" /\ pc' = [pc EXCEPT ![c] = "reserve"]
        /\ UNCHANGED <<then, ptr, stopping, status, timer>>
        /\ \A i \in Instances : flag[i] => flag'[i]
    BY <1>16 DEF Wake, Move, Goto, Unpark, instanceVars
  <2>2. HoldsOwn(c)' /\ ~StopsOwn(c)'
    BY <2>1 DEF HoldsOwn, Reserving, Starting, StopsOwn
  <2>3. Launching(c)' => flag'[c]
    BY <1>16, <2>1 DEF Wake, Launching, StarterInv, StartOf
  <2> QED
    BY <2>1, <2>2, <2>3, StarterGoesOn
<1>17. ASSUME NEW c \in Connections, GiveUp(c) PROVE StarterInv'
  <2>1. /\ pc[c] = "parked" /\ pc' = [pc EXCEPT ![c] = "refused"]
        /\ UNCHANGED <<then, ptr, stopping, status, timer>>
        /\ \A i \in Instances : flag[i] => flag'[i]
    BY <1>17 DEF GiveUp, Move, Goto, Unpark, instanceVars
  <2>2. HoldsOwn(c)' /\ ~StopsOwn(c)'
    BY <2>1 DEF HoldsOwn, Reserving, Starting, StopsOwn
  <2>3. Launching(c)' => flag'[c]
    BY <1>17, <2>1 DEF GiveUp, Launching, StarterInv, StartOf
  <2> QED
    BY <2>1, <2>2, <2>3, StarterGoesOn
<1>18. ASSUME NEW c \in Connections, Refused(c) PROVE StarterInv'
  <2>1. /\ CleanUp(c) /\ pc' = [pc EXCEPT ![c] = "fail"]
        /\ UNCHANGED <<then, ptr, stopping, flag>>
    BY <1>18 DEF Refused, Move, Goto
  <2>2. status'[c] = "released"
    BY <2>1, CleanUpStatus
  <2>3. StartOf(c)'
    BY <2>1, <2>2 DEF StartOf, Launching, StopsOwn
  <2> QED
    BY <2>1, <2>3, StarterCleansUp
<1>19. ASSUME NEW c \in Connections, FlagReserved(c) PROVE StarterInv'
  <2>1. /\ pc[c] = "flag" /\ pc' = [pc EXCEPT ![c] = "launch"]
        /\ UNCHANGED <<then, ptr, stopping, status, timer>>
        /\ \A i \in Instances : flag[i] => flag'[i]
    BY <1>19 DEF FlagReserved, Move, Goto
  <2>2. HoldsOwn(c)' /\ ~StopsOwn(c)'
    BY <2>1 DEF HoldsOwn, Reserving, Starting, StopsOwn
  <2>3. Launching(c)' => flag'[c]
    BY <1>19, <2>1 DEF FlagReserved, Launching, StarterInv, StartOf
  <2> QED
    BY <2>1, <2>2, <2>3, StarterGoesOn
<1>20. ASSUME NEW c \in Connections, LaunchFail(c) PROVE StarterInv'
  <2>1. /\ CleanUp(c) /\ pc' = [pc EXCEPT ![c] = "fail"]
        /\ UNCHANGED <<then, ptr, stopping, flag>>
    BY <1>20 DEF LaunchFail, Move, Goto
  <2>2. status'[c] = "released"
    BY <2>1, CleanUpStatus
  <2>3. StartOf(c)'
    BY <2>1, <2>2 DEF StartOf, Launching, StopsOwn
  <2> QED
    BY <2>1, <2>3, StarterCleansUp
<1>21. ASSUME NEW c \in Connections, LaunchOk(c) PROVE StarterInv'
  <2>1. /\ pc[c] = "launch" /\ pc' = [pc EXCEPT ![c] = "probe"]
        /\ UNCHANGED <<then, ptr, stopping, status, timer>>
        /\ \A i \in Instances : flag[i] => flag'[i]
    BY <1>21 DEF LaunchOk, Move, Goto
  <2>2. HoldsOwn(c)' /\ ~StopsOwn(c)'
    BY <2>1 DEF HoldsOwn, Reserving, Starting, StopsOwn
  <2>3. Launching(c)' => flag'[c]
    BY <1>21, <2>1 DEF LaunchOk, Launching, StarterInv, StartOf
  <2> QED
    BY <2>1, <2>2, <2>3, StarterGoesOn
<1>22. ASSUME NEW c \in Connections, ProbeOk(c) PROVE StarterInv'
  <2>1. /\ pc[c] = "probe" /\ pc' = [pc EXCEPT ![c] = "ready"]
        /\ UNCHANGED <<then, ptr, stopping, status, timer>>
        /\ \A i \in Instances : flag[i] => flag'[i]
    BY <1>22 DEF ProbeOk, Move, Goto, instanceVars
  <2>2. HoldsOwn(c)' /\ ~StopsOwn(c)'
    BY <2>1 DEF HoldsOwn, Reserving, Starting, StopsOwn
  <2>3. Launching(c)' => flag'[c]
    BY <1>22, <2>1 DEF ProbeOk, Launching, StarterInv, StartOf
  <2> QED
    BY <2>1, <2>2, <2>3, StarterGoesOn
<1>23. ASSUME NEW c \in Connections, ProbeFail(c) PROVE StarterInv'
  <2>1. /\ pc' = [pc EXCEPT ![c] = "stopLookup"]
        /\ stopping' = [stopping EXCEPT ![c] = Target[c]]
        /\ UNCHANGED <<flag, status, timer>>
        /\ \A u \in Threads \ {c} : then'[u] = then[u] /\ ptr'[u] = ptr[u]
        /\ then'[c] = "unreserve"
    BY <1>23 DEF ProbeFail, CallStop, Goto
  <2>2. StartOf(c)'
    BY <2>1 DEF StartOf, Launching, StopsOwn, StarterAt
  <2>3. \A u \in Threads \ {c} : pc'[u] = pc[u] /\ stopping'[u] = stopping[u]
    BY <2>1
  <2> HIDE DEF TypeInv, LocalsInv
  <2> QED
    BY <2>1, <2>2, <2>3, StarterMove
<1>24. ASSUME NEW c \in Connections, Unreserve(c) PROVE StarterInv'
  <2>1. /\ pc[c] = "unreserve" /\ UNCHANGED <<then, stopping, flag, status>>
        /\ \A u \in Threads \ {c} : ptr'[u] = ptr[u]
        /\ \A i \in Instances : timer'[i] = "nil" <=> timer[i] = "nil"
    BY <1>24 DEF Unreserve, Move, Goto, instanceVars
  <2>2. \E p \in {"fail"} : pc' = [pc EXCEPT ![c] = p]
    BY <1>24 DEF Unreserve, Move, Goto, instanceVars
  <2> QED
    BY <2>1, <2>2, StarterApart DEF Apart, ConnectionPlaces, Starting
<1>25. ASSUME NEW c \in Connections, Ready(c) PROVE StarterInv'
  <2>1. /\ pc[c] = "ready" /\ pc' = [pc EXCEPT ![c] = "attach"]
        /\ timer' = [timer EXCEPT ![c] = "armed"]
        /\ UNCHANGED <<then, ptr, stopping, flag, status>>
    BY <1>25 DEF Ready, Move, Goto
  <2>2. flag[c]
    BY <2>1 DEF StarterInv, StartOf, Launching
  <2>3. StartOf(c)'
    BY <2>1 DEF StartOf, Launching, StopsOwn
  <2> HIDE DEF TypeInv, LocalsInv
  <2> QED
    BY <2>1, <2>2, <2>3, StarterMove
<1>26. ASSUME NEW c \in Connections, Attach(c) PROVE StarterInv'
  <2>1. /\ pc[c] = "attach" /\ UNCHANGED <<then, stopping, flag, status>>
        /\ \A u \in Threads \ {c} : ptr'[u] = ptr[u]
        /\ \A i \in Instances : timer'[i] = "nil" <=> timer[i] = "nil"
    BY <1>26 DEF Attach, Move, Goto, Touch
  <2>2. \E p \in {"count"} : pc' = [pc EXCEPT ![c] = p]
    BY <1>26 DEF Attach, Move, Goto, Touch
  <2> QED
    BY <2>1, <2>2, StarterApart DEF Apart, ConnectionPlaces, Starting
<1>27. ASSUME NEW c \in Connections, Count(c) PROVE StarterInv'
  <2>1. /\ pc[c] = "count" /\ UNCHANGED <<then, stopping, flag, status>>
        /\ \A u \in Threads \ {c} : ptr'[u] = ptr[u]
        /\ \A i \in Instances : timer'[i] = "nil" <=> timer[i] = "nil"
    BY <1>27 DEF Count, Move, Goto, instanceVars
  <2>2. \E p \in {"proxied"} : pc' = [pc EXCEPT ![c] = p]
    BY <1>27 DEF Count, Move, Goto, instanceVars
  <2> QED
    BY <2>1, <2>2, StarterApart DEF Apart, ConnectionPlaces, Starting
<1>28. ASSUME NEW c \in Connections, EndProxy(c) PROVE StarterInv'
  <2>1. /\ pc[c] = "proxied" /\ UNCHANGED <<then, stopping, flag, status>>
        /\ \A u \in Threads \ {c} : ptr'[u] = ptr[u]
        /\ \A i \in Instances : timer'[i] = "nil" <=> timer[i] = "nil"
    BY <1>28 DEF EndProxy, Move, Goto, Touch
  <2>2. \E p \in {"uncount"} : pc' = [pc EXCEPT ![c] = p]
    BY <1>28 DEF EndProxy, Move, Goto, Touch
  <2> QED
    BY <2>1, <2>2, StarterApart DEF Apart, ConnectionPlaces, Starting
<1>29. ASSUME NEW c \in Connections, Uncount(c) PROVE StarterInv'
  <2>1. /\ pc[c] = "uncount" /\ UNCHANGED <<then, stopping, flag, status>>
        /\ \A u \in Threads \ {c} : ptr'[u] = ptr[u]
        /\ \A i \in Instances : timer'[i] = "nil" <=> timer[i] = "nil"
    BY <1>29 DEF Uncount, AfterDecrement, Goto, instanceVars
  <2>2. \E p \in {"notify", "done"} : pc' = [pc EXCEPT ![c] = p]
    BY <1>29 DEF Uncount, AfterDecrement, Goto, instanceVars
  <2> QED
    BY <2>1, <2>2, StarterApart DEF Apart, ConnectionPlaces, Starting
<1>30. ASSUME NEW c \in Connections, Fail(c) PROVE StarterInv'
  <2>1. /\ pc[c] = "fail" /\ UNCHANGED <<then, stopping, flag, status>>
        /\ \A u \in Threads \ {c} : ptr'[u] = ptr[u]
        /\ \A i \in Instances : timer'[i] = "nil" <=> timer[i] = "nil"
    BY <1>30 DEF Fail, AfterDecrement, Goto, instanceVars
  <2>2. \E p \in {"notify", "done"} : pc' = [pc EXCEPT ![c] = p]
    BY <1>30 DEF Fail, AfterDecrement, Goto, instanceVars
  <2> QED
    BY <2>1, <2>2, StarterApart DEF Apart, ConnectionPlaces, Starting
<1>31. ASSUME NEW c \in Connections, Notify(c) PROVE StarterInv'
  <2>1. /\ pc[c] = "notify" /\ UNCHANGED <<then, stopping, flag, status>>
        /\ \A u \in Threads \ {c} : ptr'[u] = ptr[u]
        /\ \A i \in Instances : timer'[i] = "nil" <=> timer[i] = "nil"
    BY <1>31 DEF Notify, Move, Goto, instanceVars
  <2>2. \E p \in {"done"} : pc' = [pc EXCEPT ![c] = p]
    BY <1>31 DEF Notify, Move, Goto, instanceVars
  <2> QED
    BY <2>1, <2>2, StarterApart DEF Apart, ConnectionPlaces, Starting
<1>32. ASSUME NEW t \in Threads, StopLookup(t) PROVE StarterInv'
  <2>1. pc[t] = "stopLookup" /\ UNCHANGED <<flag, status, timer>>
    BY <1>32 DEF StopLookup, instanceVars
  <2>2. ASSUME running[stopping[t]] = None PROVE StarterInv'
    <3>1. /\ pc' = [pc EXCEPT ![t] = then[t]] /\ then' = [then EXCEPT ![t] = "none"]
          /\ stopping' = [stopping EXCEPT ![t] = None] /\ ptr' = [ptr EXCEPT ![t] = None]
      BY <1>32, <2>2 DEF StopLookup, ReturnFromStop, Goto
    <3>2. ASSUME t \in Connections PROVE StartOf(t)'
      <4>1. StartOf(t) /\ then[t] \in {"reserve", "register", "unreserve", "off"}
        BY <2>1, <3>2 DEF StarterInv
      <4>2. CASE then[t] = "reserve"
        BY <3>1, <3>2, <4>2 DEF StartOf, Launching, StopsOwn, StarterAt, HoldsOwn,
           Reserving
      <4>3. CASE then[t] = "unreserve"
        <5>1. stopping[t] = Target[t]
          BY <2>1, <4>1, <4>3 DEF StartOf, StopsOwn
        <5>2. status[t] # "live"
          BY <2>2, <3>2, <5>1 DEF RegistryInv, LiveIsRegistered
        <5> QED
          BY <2>1, <3>1, <3>2, <4>3, <5>2 DEF StartOf, Launching, StopsOwn
      <4>4. CASE then[t] \in {"register", "off"}
        <5>1. ~StarterAt(t)
          BY <2>1, <3>2, <4>4 DEF StarterAt, HoldsOwn, Starting, Reserving, StopsOwn
        <5> QED
          BY <2>1, <3>1, <3>2, <4>1, <4>4, <5>1 DEF StartOf, Launching, StopsOwn
      <4> QED
        BY <4>1, <4>2, <4>3, <4>4
    <3> QED
      BY <2>1, <3>1, <3>2, StarterMove
  <2>3. ASSUME running[stopping[t]] # None PROVE StarterInv'
    <3>1. /\ pc' = [pc EXCEPT ![t] = "stopLock"]
          /\ ptr' = [ptr EXCEPT ![t] = running[stopping[t]]]
          /\ UNCHANGED <<then, stopping>>
      BY <1>32, <2>3 DEF StopLookup, Goto
    <3>2. ASSUME t \in Connections PROVE StartOf(t)'
      <4>1. StartOf(t)
        BY <3>2 DEF StarterInv
      <4>2. /\ ~Launching(t)' /\ (StopsOwn(t)' <=> StopsOwn(t))
            /\ (HoldsOwn(t) <=> HoldsOwn(t)')
        BY <2>1, <3>1, <3>2 DEF Launching, StopsOwn, HoldsOwn, Reserving, Starting
      <4>3. ASSUME StopsOwn(t), status[t] = "live" PROVE ptr'[t] = t
        <5>1. running[Target[t]] = t /\ stopping[t] = Target[t]
          BY <3>2, <4>1, <4>3 DEF RegistryInv, LiveIsRegistered, StartOf
        <5> QED
          BY <3>1, <5>1
      <4> QED
        BY <2>1, <3>1, <3>2, <4>1, <4>2, <4>3 DEF StartOf, StarterAt
    <3> QED
      BY <2>1, <3>1, <3>2, StarterMove
  <2> QED
    BY <2>2, <2>3
<1>33. ASSUME NEW t \in Threads, StopLock(t) PROVE StarterInv'
  <2>1. /\ pc[t] = "stopLock" /\ pc' = [pc EXCEPT ![t] = "wait"]
        /\ UNCHANGED <<then, ptr, stopping, flag, status>>
        /\ \A i \in Instances : timer'[i] = "nil" <=> timer[i] = "nil"
    BY <1>33 DEF StopLock, Move, Goto
  <2>2. ASSUME t \in Connections PROVE StartOf(t)'
    <3>1. /\ ~Launching(t)' /\ (StopsOwn(t)' <=> StopsOwn(t))
          /\ (StarterAt(t) <=> StarterAt(t)')
      BY <2>1, <2>2 DEF Launching, StopsOwn, StarterAt, HoldsOwn, Reserving, Starting
    <3> QED
      BY <2>1, <2>2, <3>1 DEF StarterInv, StartOf
  <2>3. \A u \in Threads \ {t} : pc'[u] = pc[u]
    BY <2>1
  <2> HIDE DEF TypeInv, LocalsInv
  <2> QED
    BY <2>1, <2>2, <2>3, StarterMove
<1>34. ASSUME NEW t \in Threads, StopFinish(t) PROVE StarterInv'
  <2>1. /\ pc[t] \in {"wait", "killed"} /\ ptr[t] \in Instances
        /\ UNCHANGED flag
        /\ pc' = [pc EXCEPT ![t] = then[t]] /\ then' = [then EXCEPT ![t] = "none"]
        /\ stopping' = [stopping EXCEPT ![t] = None] /\ ptr' = [ptr EXCEPT ![t] = None]
    BY <1>34 DEF StopFinish, ReturnFromStop, Goto
  <2>2. /\ CleanUp(ptr[t]) /\ status'[ptr[t]] = "released"
        /\ \A j \in Instances \ {ptr[t]} : status'[j] = status[j] /\ timer'[j] = timer[j]
    BY <1>34, <2>1, CleanUpStatus DEF StopFinish
  <2>3. ASSUME t \in Connections PROVE StartOf(t)'
    <3>1. StartOf(t) /\ then[t] \in {"reserve", "register", "unreserve", "off"}
      BY <2>1, <2>3 DEF StarterInv
    <3>2. CASE then[t] = "reserve"
      BY <2>1, <2>3, <3>2 DEF StartOf, Launching, StopsOwn, StarterAt, HoldsOwn,
         Reserving
    <3>3. CASE then[t] # "reserve"
      <4>1. ~HoldsOwn(t) /\ ~Launching(t)' /\ ~StopsOwn(t)'
        BY <2>1, <2>3, <3>1, <3>3 DEF HoldsOwn, Starting, Reserving, Launching, StopsOwn
      <4>2. status[t] = "live" /\ timer[t] = "nil" /\ Target[t] \notin Unkillable => ptr[t] = t
        BY <2>1, <3>1, <4>1 DEF StartOf, StarterAt
      <4> QED
        BY <2>2, <2>3, <4>1, <4>2 DEF StartOf
    <3> QED
      BY <3>2, <3>3
  <2> QED
    BY <2>1, <2>2, <2>3, StarterCleansUp
<1>35. ASSUME NEW t \in Threads, StopKill(t) PROVE StarterInv'
  <2>1. /\ pc[t] = "wait" /\ pc' = [pc EXCEPT ![t] = "killed"]
        /\ UNCHANGED <<then, ptr, stopping, flag, status>>
        /\ \A i \in Instances : timer'[i] = "nil" <=> timer[i] = "nil"
    BY <1>35 DEF StopKill, Move, Goto
  <2>2. ASSUME t \in Connections PROVE StartOf(t)'
    <3>1. /\ ~Launching(t)' /\ (StopsOwn(t)' <=> StopsOwn(t))
          /\ (StarterAt(t) <=> StarterAt(t)')
      BY <2>1, <2>2 DEF Launching, StopsOwn, StarterAt, HoldsOwn, Reserving, Starting
    <3> QED
      BY <2>1, <2>2, <3>1 DEF StarterInv, StartOf
  <2>3. \A u \in Threads \ {t} : pc'[u] = pc[u]
    BY <2>1
  <2> HIDE DEF TypeInv, LocalsInv
  <2> QED
    BY <2>1, <2>2, <2>3, StarterMove
<1>36. ASSUME NEW t \in Threads, StopAbandon(t) PROVE StarterInv'
  <2>1. /\ pc[t] \in {"wait", "killed"} /\ ptr[t] \in Instances
        /\ UNCHANGED flag
        /\ pc' = [pc EXCEPT ![t] = then[t]] /\ then' = [then EXCEPT ![t] = "none"]
        /\ stopping' = [stopping EXCEPT ![t] = None] /\ ptr' = [ptr EXCEPT ![t] = None]
    BY <1>36 DEF StopAbandon, ReturnFromStop, Goto
  <2>2. UNCHANGED <<status, timer>> /\ Target[ptr[t]] \in Unkillable
    BY <1>36 DEF StopAbandon
  <2>3. ASSUME t \in Connections PROVE StartOf(t)'
    <3>1. StartOf(t) /\ then[t] \in {"reserve", "register", "unreserve", "off"}
      BY <2>1, <2>3 DEF StarterInv
    <3>2. CASE then[t] = "reserve"
      BY <2>1, <2>3, <3>2 DEF StartOf, Launching, StopsOwn, StarterAt, HoldsOwn,
         Reserving
    <3>3. CASE then[t] # "reserve"
      <4>1. ~HoldsOwn(t) /\ ~Launching(t)' /\ ~StopsOwn(t)'
        BY <2>1, <2>3, <3>1, <3>3 DEF HoldsOwn, Starting, Reserving, Launching, StopsOwn
      <4>2. status[t] = "live" /\ timer[t] = "nil" /\ Target[t] \notin Unkillable => ptr[t] = t
        BY <2>1, <3>1, <4>1 DEF StartOf, StarterAt
      <4> QED
        BY <2>2, <2>3, <4>1, <4>2 DEF StartOf
    <3> QED
      BY <3>2, <3>3
  <2> QED
    BY <2>1, <2>2, <2>3, StarterMove
<1>37. ASSUME NEW t \in Timers, IdleDrop(t) PROVE StarterInv'
  <2>1. /\ t \notin Connections /\ UNCHANGED <<flag, status>>
        /\ \A u \in Threads \ {t} : /\ pc'[u] = pc[u] /\ then'[u] = then[u]
                                    /\ ptr'[u] = ptr[u] /\ stopping'[u] = stopping[u]
        /\ \A i \in Instances : timer'[i] = "nil" <=> timer[i] = "nil"
    BY <1>37 DEF IdleDrop, Move, Goto, instanceVars
  <2> QED
    BY <2>1, StarterElsewhere
<1>38. ASSUME NEW t \in Timers, IdleRearm(t) PROVE StarterInv'
  <2>1. /\ t \notin Connections /\ UNCHANGED <<flag, status>>
        /\ \A u \in Threads \ {t} : /\ pc'[u] = pc[u] /\ then'[u] = then[u]
                                    /\ ptr'[u] = ptr[u] /\ stopping'[u] = stopping[u]
        /\ \A i \in Instances : timer'[i] = "nil" <=> timer[i] = "nil"
    BY <1>38 DEF IdleRearm, Move, Goto
  <2> QED
    BY <2>1, StarterElsewhere
<1>39. ASSUME NEW t \in Timers, IdleStop(t) PROVE StarterInv'
  <2>1. /\ t \notin Connections /\ UNCHANGED <<flag, status>>
        /\ \A u \in Threads \ {t} : /\ pc'[u] = pc[u] /\ then'[u] = then[u]
                                    /\ ptr'[u] = ptr[u] /\ stopping'[u] = stopping[u]
        /\ \A i \in Instances : timer'[i] = "nil" <=> timer[i] = "nil"
    BY <1>39 DEF IdleStop, Move, Goto, CallStop, instanceVars
  <2> QED
    BY <2>1, StarterElsewhere
<1>40. ASSUME NEW t \in Timers, NEW i \in Instances, TimerFire(t, i) PROVE StarterInv'
  <2>1. /\ t \notin Connections /\ UNCHANGED <<flag, status>>
        /\ \A u \in Threads \ {t} : /\ pc'[u] = pc[u] /\ then'[u] = then[u]
                                    /\ ptr'[u] = ptr[u] /\ stopping'[u] = stopping[u]
        /\ \A j \in Instances : timer'[j] = "nil" <=> timer[j] = "nil"
    BY <1>40 DEF TimerFire, Move, Goto
  <2> QED
    BY <2>1, StarterElsewhere
<1>41. ASSUME NEW i \in Instances, Exit(i) PROVE StarterInv'
  <2>1. UNCHANGED <<pc, then, ptr, stopping, flag, status, timer>>
    BY <1>41 DEF Exit, threadVars
  <2> QED
    BY <2>1 DEF StarterInv, StartOf, Launching, StopsOwn, StarterAt, HoldsOwn, Reserving
<1>42. ASSUME NEW i \in Instances, MonitorClean(i) PROVE StarterInv'
  <2>1. UNCHANGED <<pc, then, ptr, stopping, flag>>
    BY <1>42 DEF MonitorClean, threadVars
  <2>2. \A c \in Connections :
           /\ status'[c] = "live" => status[c] = "live" /\ timer'[c] = timer[c]
           /\ timer'[c] # "nil" => timer[c] # "nil"
    BY <1>42, CleanUpStatus DEF MonitorClean
  <2> QED
    BY <2>1, <2>2 DEF StarterInv, StartOf, Launching, StopsOwn, StarterAt, HoldsOwn,
       Reserving
<1> QED
  BY <1>1, <1>2, <1>3, <1>4, <1>5, <1>6, <1>7, <1>8, <1>9, <1>10, <1>11,
     <1>12, <1>13, <1>14, <1>15, <1>16, <1>17, <1>18, <1>19, <1>20, <1>21,
     <1>22, <1>23, <1>24, <1>25, <1>26, <1>27, <1>28, <1>29, <1>30, <1>31,
     <1>32, <1>33, <1>34, <1>35, <1>36, <1>37, <1>38, <1>39, <1>40, <1>41,
     <1>42
  DEF Next, ClientStep, ProgramStep, StopStep, IdleStep
=============================================================================
