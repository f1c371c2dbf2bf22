------------------------ MODULE ServiceManagerTheorems ------------------------
(***************************************************************************)
(* What is proved of ServiceManager, and of the status answers beside it,  *)
(* for every set of connections, timers, services and resources and every  *)
(* configuration.                                                          *)
(***************************************************************************)
EXTENDS ServiceManagerSteps, StatusApi, ResourceUnitsTheorems

\* The moves of the ledger that a step of the system may be.
LedgerMove == Ledger!LedgerNext \/ UNCHANGED <<Holders, inUse>>

\* A step that neither charges nor registers an instance leaves the ledger alone.
LEMMA LedgerKept ==
  ASSUME TypeInv, UNCHANGED <<running, flag, inUse>>,
         \A c \in Connections : pc'[c] = "flag" <=> pc[c] = "flag"
  PROVE  LedgerMove
<1>1. \A i \in Instances : Charged(i)' <=> Charged(i)
  BY DEF Charged, Instances
<1>2. \A s \in Services : running[s] # None => running[s] \in Instances
  BY DEF TypeInv
<1>3. Holders' = Holders
  BY <1>1, <1>2 DEF Holders
<1> QED
  BY <1>3 DEF LedgerMove

\* The cleanup of an instance that is not between its reservation and its flag
\* gives back what it was charged with, or leaves the ledger alone.
LEMMA CleanUpLedger ==
  ASSUME TypeInv, RegistryInv, ChargeInv, NEW i \in Instances, CleanUp(i),
         UNCHANGED flag, pc[i] # "flag",
         \A c \in Connections : pc'[c] = "flag" <=> pc[c] = "flag"
  PROVE  LedgerMove
<1> DEFINE s == Target[i]
<1>1. \A j \in Instances : Charged(j)' <=> Charged(j)
  BY DEF Charged, Instances
<1>2. s \in Services /\ s # None /\ i # None
  BY ConfigAssumption, NoneAssumption DEF Instances
<1>3. \A u \in Services : running[u] # None => running[u] \in Instances
  BY DEF TypeInv
<1>4. CASE UNCHANGED <<running, inUse>>
  BY <1>4, LedgerKept
<1>5. CASE ~ UNCHANGED <<running, inUse>>
  <2>1. /\ status[i] # "released"
        /\ inUse' = IF flag[i] THEN Minus(inUse, s) ELSE inUse
        /\ running' = IF running[s] = i THEN [running EXCEPT ![s] = None]
                      ELSE running
    BY <1>5 DEF CleanUp, Release
  <2>2. running[s] = i
    <3>1. CASE flag[i]
      <4>1. status[i] = "live"
        BY <2>1, <3>1 DEF TypeInv, ChargeInv
      <4> QED
        BY <4>1 DEF RegistryInv, LiveIsRegistered
    <3>2. CASE ~flag[i]
      BY <1>5, <2>1, <3>2
    <3> QED
      BY <3>1, <3>2
  <2>3. running' = [running EXCEPT ![s] = None]
    BY <2>1, <2>2
  <2>4. Charged(i) <=> flag[i]
    BY DEF Charged
  <2>5. Holders' = Holders \ {s}
    <3>1. \A u \in Services \ {s} : running'[u] = running[u]
      BY <2>3 DEF TypeInv
    <3>2. running'[s] = None
      BY <1>2, <2>3 DEF TypeInv
    <3> HIDE DEF s
    <3>3. \A u \in Services : u \in Holders' <=> u \in Holders \ {s}
      BY <1>1, <1>3, <3>1, <3>2 DEF Holders
    <3> QED
      BY <3>3 DEF Holders
  <2>6. CASE flag[i]
    <3>1. s \in Holders
      BY <1>2, <2>2, <2>4, <2>6 DEF Holders
    <3>2. inUse' = [r \in Resources |-> inUse[r] - Requirement[s][r]]
      BY <2>1, <2>6 DEF Minus
    <3>3. Ledger!Release(s)
      BY <2>5, <3>1, <3>2 DEF Ledger!Release
    <3> QED
      BY <1>2, <3>3 DEF LedgerMove, Ledger!LedgerNext
  <2>7. CASE ~flag[i]
    <3>1. s \notin Holders
      BY <1>2, <2>2, <2>4, <2>7 DEF Holders
    <3>2. Holders' = Holders /\ inUse' = inUse
      BY <2>1, <2>5, <2>7, <3>1
    <3> QED
      BY <3>2 DEF LedgerMove
  <2> QED
    BY <2>6, <2>7
<1> QED
  BY <1>4, <1>5

\* Every step is a step of the ledger, or leaves it alone.
LEMMA LedgerStep ==
  ASSUME ControlInv, Next
  PROVE  LedgerMove
<1> USE ThreadsAssumption, ConfigAssumption, NoneAssumption
<1> USE DEF ControlInv, TypeInv, LocalsInv, Threads, Instances, StopCall
<1>1. ASSUME NEW c \in Connections, Accept(c) PROVE LedgerMove
  BY <1>1, LedgerKept DEF Accept, Move, Goto, instanceVars, resourceVars
<1>2. ASSUME NEW c \in Connections, Lookup(c) PROVE LedgerMove
  BY <1>2, LedgerKept DEF Lookup, Move, Goto, instanceVars, resourceVars,
       counterVars
<1>3. ASSUME NEW c \in Connections, TryLock(c) PROVE LedgerMove
  BY <1>3, LedgerKept DEF TryLock, Move, Goto, resourceVars, counterVars
<1>4. ASSUME NEW c \in Connections, LockQueued(c) PROVE LedgerMove
  BY <1>4, LedgerKept DEF LockQueued, Move, Goto, resourceVars, counterVars
<1>5. ASSUME NEW c \in Connections, CancelQueued(c) PROVE LedgerMove
  BY <1>5, LedgerKept DEF CancelQueued, Move, Goto, instanceVars, resourceVars,
       counterVars
<1>6. ASSUME NEW c \in Connections, Requeue(c) PROVE LedgerMove
  BY <1>6, LedgerKept DEF Requeue, Move, Goto, resourceVars, counterVars
<1>7. ASSUME NEW c \in Connections, Track(c) PROVE LedgerMove
  BY <1>7, LedgerKept DEF Track, Move, Goto, resourceVars, counterVars
<1>8. ASSUME NEW c \in Connections, DialOk(c) PROVE LedgerMove
  BY <1>8, LedgerKept DEF DialOk, Move, Goto, instanceVars, resourceVars,
       counterVars
<1>9. ASSUME NEW c \in Connections, DialFail(c) PROVE LedgerMove
  BY <1>9, LedgerKept DEF DialFail, Move, Goto, instanceVars, resourceVars,
       counterVars
<1>10. ASSUME NEW c \in Connections, Restart(c) PROVE LedgerMove
  <2>1. pc[c] = "restart" /\ UNCHANGED <<running, flag, inUse>>
    BY <1>10 DEF Restart, instanceVars, resourceVars
  <2>2. pc' = [pc EXCEPT ![c] = "stopLookup"] \/ pc' = [pc EXCEPT ![c] = "register"]
    BY <1>10 DEF Restart, CallStop, Goto
  <2> QED
    BY <2>1, <2>2, LedgerKept
<1>11. ASSUME NEW c \in Connections, Register(c) PROVE LedgerMove
  <2>1. CASE running[Target[c]] = None
    <3>1. /\ pc[c] = "register" /\ pc' = [pc EXCEPT ![c] = "reserve"]
          /\ running[Target[c]] = None
          /\ running' = [running EXCEPT ![Target[c]] = c]
          /\ UNCHANGED <<flag, inUse>>
      BY <1>11, <2>1 DEF Register, Move, Goto, resourceVars
    <3>2. ~Charged(c)' /\ (\A j \in Instances : Charged(j)' <=> Charged(j))
      BY <3>1 DEF Charged, PhaseInv, Unregistered
    <3>3. \A s \in Services : running[s] # None => running[s] \in Instances
      OBVIOUS
    <3>4. Target[c] \notin Holders
      BY <3>1 DEF Holders
    <3>5. \A s \in Services : s \in Holders' <=> s \in Holders
      BY <3>1, <3>2, <3>3, <3>4 DEF Holders
    <3>6. Holders' = Holders
      BY <3>5 DEF Holders
    <3> QED
      BY <3>1, <3>6 DEF LedgerMove
  <2>2. CASE running[Target[c]] # None
    BY <1>11, <2>2, LedgerKept DEF Register, Move, Goto, resourceVars
  <2> QED
    BY <1>11, <2>1, <2>2 DEF Register, Move
<1>12. ASSUME NEW c \in Connections, ReserveOk(c) PROVE LedgerMove
  <2>1. /\ pc[c] = "reserve" /\ pc' = [pc EXCEPT ![c] = "flag"]
        /\ Short(Target[c]) = {} /\ inUse' = Plus(inUse, Target[c])
        /\ UNCHANGED <<running, flag>>
    BY <1>12 DEF ReserveOk, Move, Goto, instanceVars
  <2>2. ~flag[c] /\ running[Target[c]] = c
    BY <2>1 DEF PhaseInv, Reserving
  <2>3. /\ \A j \in Instances \ {c} : Charged(j)' <=> Charged(j)
        /\ Charged(c)' /\ ~Charged(c)
    BY <2>1, <2>2 DEF Charged
  <2>4. \A s \in Services \ {Target[c]} :
            running[s] # None => running[s] \in Instances \ {c}
    BY DEF RegistryInv
  <2>5. Target[c] \in Services \ Holders
    BY <2>2, <2>3 DEF Holders
  <2>6. \A s \in Services : s \in Holders' <=> s \in Holders \cup {Target[c]}
    BY <2>1, <2>2, <2>3, <2>4 DEF Holders
  <2>7. Holders' = Holders \cup {Target[c]}
    BY <2>5, <2>6 DEF Holders
  <2>8. Ledger!Fits(Target[c])
    <3>1. ASSUME NEW r \in Resources, Requirement[Target[c]][r] > 0
          PROVE  Requirement[Target[c]][r] <= Amount[r] - inUse[r]
      <4>1. r \in Needs(Target[c]) /\ r \notin Short(Target[c])
        BY <2>1, <3>1 DEF Needs
      <4>2. /\ Amount[r] \in Int /\ inUse[r] \in Int
            /\ Requirement[Target[c]][r] \in Int
        OBVIOUS
      <4> QED
        BY <4>1, <4>2 DEF Short
    <3> QED
      BY <3>1 DEF Ledger!Fits
  <2>9. Ledger!Acquire(Target[c])
    BY <2>1, <2>5, <2>7, <2>8 DEF Ledger!Acquire, Plus
  <2> QED
    BY <2>5, <2>9 DEF LedgerMove, Ledger!LedgerNext
<1>13. ASSUME NEW c \in Connections, ReserveMissing(c) PROVE LedgerMove
  BY <1>13, LedgerKept DEF ReserveMissing, Move, Goto, instanceVars,
       resourceVars, counterVars
<1>14. ASSUME NEW c \in Connections, PickVictim(c) PROVE LedgerMove
  <2>1. pc[c] = "pick" /\ UNCHANGED <<running, flag, inUse>>
    BY <1>14 DEF PickVictim, instanceVars, resourceVars
  <2>2. pc' = [pc EXCEPT ![c] = "stopLookup"] \/ pc' = [pc EXCEPT ![c] = "park"]
    BY <1>14 DEF PickVictim, CallStop, Goto
  <2> QED
    BY <2>1, <2>2, LedgerKept
<1>15. ASSUME NEW c \in Connections, Park(c) PROVE LedgerMove
  BY <1>15, LedgerKept DEF Park, Move, Goto, instanceVars, counterVars
<1>16. ASSUME NEW c \in Connections, Wake(c) PROVE LedgerMove
  BY <1>16, LedgerKept DEF Wake, Move, Goto, Unpark, instanceVars, counterVars
<1>17. ASSUME NEW c \in Connections, GiveUp(c) PROVE LedgerMove
  BY <1>17, LedgerKept DEF GiveUp, Move, Goto, Unpark, instanceVars,
       counterVars
<1>18. ASSUME NEW c \in Connections, Refused(c) PROVE LedgerMove
  <2>1. /\ c \in Instances /\ CleanUp(c) /\ UNCHANGED flag
        /\ pc[c] # "flag" /\ pc' = [pc EXCEPT ![c] = "fail"]
    BY <1>18 DEF Refused, Move, Goto
  <2> QED
    BY <2>1, CleanUpLedger
<1>19. ASSUME NEW c \in Connections, FlagReserved(c) PROVE LedgerMove
  <2>1. /\ pc[c] = "flag" /\ pc' = [pc EXCEPT ![c] = "launch"]
        /\ flag' = [flag EXCEPT ![c] = TRUE]
        /\ UNCHANGED <<running, inUse>>
    BY <1>19 DEF FlagReserved, Move, Goto, resourceVars
  <2>2. \A j \in Instances : Charged(j)' <=> Charged(j)
    BY <2>1 DEF Charged
  <2>3. \A s \in Services : running[s] # None => running[s] \in Instances
    OBVIOUS
  <2>4. Holders' = Holders
    BY <2>1, <2>2, <2>3 DEF Holders
  <2> QED
    BY <2>1, <2>4 DEF LedgerMove
<1>20. ASSUME NEW c \in Connections, LaunchFail(c) PROVE LedgerMove
  <2>1. /\ c \in Instances /\ CleanUp(c) /\ UNCHANGED flag
        /\ pc[c] # "flag" /\ pc' = [pc EXCEPT ![c] = "fail"]
    BY <1>20 DEF LaunchFail, Move, Goto
  <2> QED
    BY <2>1, CleanUpLedger
<1>21. ASSUME NEW c \in Connections, LaunchOk(c) PROVE LedgerMove
  BY <1>21, LedgerKept DEF LaunchOk, Move, Goto, resourceVars, counterVars
<1>22. ASSUME NEW c \in Connections, ProbeOk(c) PROVE LedgerMove
  BY <1>22, LedgerKept DEF ProbeOk, Move, Goto, instanceVars, resourceVars,
       counterVars
<1>23. ASSUME NEW c \in Connections, ProbeFail(c) PROVE LedgerMove
  BY <1>23, LedgerKept DEF ProbeFail, Goto, CallStop, resourceVars, counterVars
<1>24. ASSUME NEW c \in Connections, Unreserve(c) PROVE LedgerMove
  BY <1>24, LedgerKept DEF Unreserve, Move, Goto, instanceVars, counterVars
<1>25. ASSUME NEW c \in Connections, Ready(c) PROVE LedgerMove
  BY <1>25, LedgerKept DEF Ready, Move, Goto, counterVars
<1>26. ASSUME NEW c \in Connections, Attach(c) PROVE LedgerMove
  BY <1>26, LedgerKept DEF Attach, Move, Goto, resourceVars, counterVars
<1>27. ASSUME NEW c \in Connections, Count(c) PROVE LedgerMove
  BY <1>27, LedgerKept DEF Count, Move, Goto, instanceVars, resourceVars
<1>28. ASSUME NEW c \in Connections, EndProxy(c) PROVE LedgerMove
  BY <1>28, LedgerKept DEF EndProxy, Move, Goto, resourceVars, counterVars
<1>29. ASSUME NEW c \in Connections, Uncount(c) PROVE LedgerMove
  BY <1>29, LedgerKept DEF Uncount, Goto, AfterDecrement, instanceVars,
       resourceVars
<1>30. ASSUME NEW c \in Connections, Fail(c) PROVE LedgerMove
  BY <1>30, LedgerKept DEF Fail, Goto, AfterDecrement, instanceVars,
       resourceVars
<1>31. ASSUME NEW c \in Connections, Notify(c) PROVE LedgerMove
  BY <1>31, LedgerKept DEF Notify, Move, Goto, instanceVars, counterVars
<1>32. ASSUME NEW t \in Threads, StopLookup(t) PROVE LedgerMove
  <2>1. /\ pc[t] = "stopLookup" /\ UNCHANGED <<running, flag, inUse>>
        /\ then[t] \in {"reserve", "register", "unreserve", "off"}
    BY <1>32 DEF StopLookup, instanceVars, resourceVars
  <2>2. CASE pc' = [pc EXCEPT ![t] = then[t]]
    BY <2>1, <2>2, LedgerKept
  <2>3. CASE pc' = [pc EXCEPT ![t] = "stopLock"]
    BY <2>1, <2>3, LedgerKept
  <2> QED
    BY <1>32, <2>2, <2>3 DEF StopLookup, ReturnFromStop, Goto
<1>33. ASSUME NEW t \in Threads, StopLock(t) PROVE LedgerMove
  BY <1>33, LedgerKept DEF StopLock, Move, Goto, resourceVars, counterVars
<1>34. ASSUME NEW t \in Threads, StopFinish(t) PROVE LedgerMove
  <2>1. /\ pc[t] \in {"wait", "killed"}
        /\ CleanUp(ptr[t]) /\ UNCHANGED flag
        /\ then[t] \in {"reserve", "register", "unreserve", "off"}
        /\ pc' = [pc EXCEPT ![t] = then[t]]
        /\ ptr[t] \in Instances
    BY <1>34 DEF StopFinish, ReturnFromStop, Goto
  <2>2. pc[ptr[t]] # "flag"
    <3> SUFFICES ASSUME pc[ptr[t]] = "flag" PROVE FALSE
      OBVIOUS
    <3>1. ptr[t] \in Connections /\ t # ptr[t] /\ HoldsOwn(ptr[t])
      BY <2>1 DEF HoldsOwn, Starting
    <3> QED
      BY <2>1, <3>1, StopsAnother
  <2> QED
    BY <2>1, <2>2, CleanUpLedger
<1>35. ASSUME NEW t \in Threads, StopKill(t) PROVE LedgerMove
  BY <1>35, LedgerKept DEF StopKill, Move, Goto, resourceVars, counterVars
<1>36. ASSUME NEW t \in Threads, StopAbandon(t) PROVE LedgerMove
  <2>1. /\ pc[t] = "wait" /\ UNCHANGED <<running, flag, inUse>>
        /\ then[t] \in {"reserve", "register", "unreserve", "off"}
        /\ pc' = [pc EXCEPT ![t] = then[t]]
    BY <1>36 DEF StopAbandon, resourceVars, ReturnFromStop, Goto
  <2> QED
    BY <2>1, LedgerKept
<1>37. ASSUME NEW t \in Timers, IdleDrop(t) PROVE LedgerMove
  BY <1>37, LedgerKept DEF IdleDrop, Move, Goto, instanceVars, resourceVars,
       counterVars
<1>38. ASSUME NEW t \in Timers, IdleRearm(t) PROVE LedgerMove
  BY <1>38, LedgerKept DEF IdleRearm, Move, Goto, resourceVars, counterVars
<1>39. ASSUME NEW t \in Timers, IdleStop(t) PROVE LedgerMove
  BY <1>39, LedgerKept DEF IdleStop, Goto, CallStop, instanceVars, resourceVars,
       counterVars
<1>40. ASSUME NEW t \in Timers, NEW i \in Instances, TimerFire(t, i) PROVE LedgerMove
  BY <1>40, LedgerKept DEF TimerFire, Move, Goto, resourceVars, counterVars
<1>41. ASSUME NEW i \in Instances, Exit(i) PROVE LedgerMove
  BY <1>41, LedgerKept DEF Exit, threadVars, resourceVars, counterVars
<1>42. ASSUME NEW i \in Instances, MonitorClean(i) PROVE LedgerMove
  <2>1. proc[i] = "exited" /\ UNCHANGED <<pc, flag>>
    BY <1>42 DEF MonitorClean, threadVars
  <2>2. pc[i] # "flag"
    BY <2>1 DEF PhaseInv
  <2>3. CASE CleanUp(i)
    BY <2>1, <2>2, <2>3, CleanUpLedger
  <2>4. CASE UNCHANGED <<running, inUse>>
    BY <2>1, <2>4, LedgerKept
  <2> QED
    BY <1>42, <2>3, <2>4 DEF MonitorClean
<1> QED
  BY <1>1, <1>2, <1>3, <1>4, <1>5, <1>6, <1>7, <1>8, <1>9, <1>10, <1>11, <1>12,
     <1>13, <1>14, <1>15, <1>16, <1>17, <1>18, <1>19, <1>20, <1>21, <1>22,
     <1>23, <1>24, <1>25, <1>26, <1>27, <1>28, <1>29, <1>30, <1>31, <1>32,
     <1>33, <1>34, <1>35, <1>36, <1>37, <1>38, <1>39, <1>40, <1>41, <1>42
  DEF Next, ClientStep, ProgramStep, StopStep, IdleStep
-----------------------------------------------------------------------------
\* What a step may do to the reservations.
ReservationMove ==
    \/ UNCHANGED <<ReservationHolders, reserved>>
    \/ \E c \in Connections \ ReservationHolders :
        /\ ReservationHolders' = ReservationHolders \cup {c}
        /\ reserved' = Plus(reserved, Target[c])
    \/ \E c \in ReservationHolders :
        /\ ReservationHolders' = ReservationHolders \ {c}
        /\ reserved' = Minus(reserved, Target[c])

\* A step that starts and ends no reservation keeps them.
LEMMA ReservationKept ==
  ASSUME UNCHANGED reserved,
         \A c \in Connections : HoldsReservation(c)' <=> HoldsReservation(c)
  PROVE  ReservationMove
BY DEF ReservationMove, ReservationHolders

\* The end of a reservation gives it back.
LEMMA ReservationEnds ==
  ASSUME NEW c \in Connections, HoldsReservation(c), ~HoldsReservation(c)',
         \A d \in Connections \ {c} : HoldsReservation(d)' <=> HoldsReservation(d),
         reserved' = Minus(reserved, Target[c])
  PROVE  ReservationMove
<1>1. \A d \in Connections :
        d \in ReservationHolders' <=> d \in ReservationHolders \ {c}
  BY DEF ReservationHolders
<1>2. ReservationHolders' = ReservationHolders \ {c} /\ c \in ReservationHolders
  BY <1>1 DEF ReservationHolders
<1> QED
  BY <1>2 DEF ReservationMove

\* Every step starts or ends at most one reservation.
LEMMA ReservationStep ==
  ASSUME TypeInv, LocalsInv, Next
  PROVE  ReservationMove
<1> USE ThreadsAssumption, ConfigAssumption, NoneAssumption
<1> USE DEF TypeInv, LocalsInv, HoldsReservation, Threads, Instances, StopCall
<1>1. ASSUME NEW c \in Connections, Accept(c) PROVE ReservationMove
  BY <1>1, ReservationKept DEF Accept, Move, Goto, instanceVars, resourceVars
<1>2. ASSUME NEW c \in Connections, Lookup(c) PROVE ReservationMove
  BY <1>2, ReservationKept DEF Lookup, Move, Goto, instanceVars, resourceVars,
       counterVars
<1>3. ASSUME NEW c \in Connections, TryLock(c) PROVE ReservationMove
  BY <1>3, ReservationKept DEF TryLock, Move, Goto, resourceVars, counterVars
<1>4. ASSUME NEW c \in Connections, LockQueued(c) PROVE ReservationMove
  BY <1>4, ReservationKept DEF LockQueued, Move, Goto, resourceVars,
       counterVars
<1>5. ASSUME NEW c \in Connections, CancelQueued(c) PROVE ReservationMove
  BY <1>5, ReservationKept DEF CancelQueued, Move, Goto, instanceVars,
       resourceVars, counterVars
<1>6. ASSUME NEW c \in Connections, Requeue(c) PROVE ReservationMove
  BY <1>6, ReservationKept DEF Requeue, Move, Goto, resourceVars, counterVars
<1>7. ASSUME NEW c \in Connections, Track(c) PROVE ReservationMove
  BY <1>7, ReservationKept DEF Track, Move, Goto, resourceVars, counterVars
<1>8. ASSUME NEW c \in Connections, DialOk(c) PROVE ReservationMove
  BY <1>8, ReservationKept DEF DialOk, Move, Goto, instanceVars, resourceVars,
       counterVars
<1>9. ASSUME NEW c \in Connections, DialFail(c) PROVE ReservationMove
  BY <1>9, ReservationKept DEF DialFail, Move, Goto, instanceVars,
       resourceVars, counterVars
<1>10. ASSUME NEW c \in Connections, Restart(c) PROVE ReservationMove
  <2>1. pc[c] = "restart" /\ UNCHANGED reserved
    BY <1>10 DEF Restart, resourceVars
  <2>2. \/ /\ pc' = [pc EXCEPT ![c] = "stopLookup"]
           /\ then' = [then EXCEPT ![c] = "register"]
        \/ pc' = [pc EXCEPT ![c] = "register"] /\ UNCHANGED then
    BY <1>10 DEF Restart, CallStop, Goto
  <2> QED
    BY <2>1, <2>2, ReservationKept
<1>11. ASSUME NEW c \in Connections, Register(c) PROVE ReservationMove
  BY <1>11, ReservationKept DEF Register, Move, Goto, resourceVars, counterVars
<1>12. ASSUME NEW c \in Connections, ReserveOk(c) PROVE ReservationMove
  <2>1. /\ pc[c] = "reserve" /\ pc' = [pc EXCEPT ![c] = "flag"]
        /\ UNCHANGED then /\ reserved' = Plus(reserved, Target[c])
    BY <1>12 DEF ReserveOk, Move, Goto
  <2>2. /\ \A d \in Connections \ {c} :
                HoldsReservation(d)' <=> HoldsReservation(d)
        /\ HoldsReservation(c)' /\ ~HoldsReservation(c)
    BY <2>1
  <2>3. \A d \in Connections :
            d \in ReservationHolders' <=> d \in ReservationHolders \cup {c}
    BY <2>2 DEF ReservationHolders
  <2>4. /\ ReservationHolders' = ReservationHolders \cup {c}
        /\ c \in Connections \ ReservationHolders
    BY <2>2, <2>3 DEF ReservationHolders
  <2> QED
    BY <2>1, <2>4 DEF ReservationMove
<1>13. ASSUME NEW c \in Connections, ReserveMissing(c) PROVE ReservationMove
  BY <1>13, ReservationKept DEF ReserveMissing, Move, Goto, instanceVars,
       resourceVars, counterVars
<1>14. ASSUME NEW c \in Connections, PickVictim(c) PROVE ReservationMove
  <2>1. pc[c] = "pick" /\ UNCHANGED reserved
    BY <1>14 DEF PickVictim, resourceVars
  <2>2. \/ /\ pc' = [pc EXCEPT ![c] = "stopLookup"]
           /\ then' = [then EXCEPT ![c] = "reserve"]
        \/ pc' = [pc EXCEPT ![c] = "park"] /\ UNCHANGED then
    BY <1>14 DEF PickVictim, CallStop, Goto
  <2> QED
    BY <2>1, <2>2, ReservationKept
<1>15. ASSUME NEW c \in Connections, Park(c) PROVE ReservationMove
  BY <1>15, ReservationKept DEF Park, Move, Goto, instanceVars, counterVars
<1>16. ASSUME NEW c \in Connections, Wake(c) PROVE ReservationMove
  BY <1>16, ReservationKept DEF Wake, Move, Goto, Unpark, instanceVars,
       counterVars
<1>17. ASSUME NEW c \in Connections, GiveUp(c) PROVE ReservationMove
  BY <1>17, ReservationKept DEF GiveUp, Move, Goto, Unpark, instanceVars,
       counterVars
<1>18. ASSUME NEW c \in Connections, Refused(c) PROVE ReservationMove
  BY <1>18, ReservationKept DEF Refused, Move, Goto, counterVars
<1>19. ASSUME NEW c \in Connections, FlagReserved(c) PROVE ReservationMove
  BY <1>19, ReservationKept DEF FlagReserved, Move, Goto, resourceVars,
       counterVars
<1>20. ASSUME NEW c \in Connections, LaunchFail(c) PROVE ReservationMove
  <2>1. /\ pc[c] = "launch" /\ pc' = [pc EXCEPT ![c] = "fail"]
        /\ UNCHANGED then /\ reserved' = Minus(reserved, Target[c])
    BY <1>20 DEF LaunchFail, Move, Goto
  <2> QED
    BY <2>1, ReservationEnds
<1>21. ASSUME NEW c \in Connections, LaunchOk(c) PROVE ReservationMove
  BY <1>21, ReservationKept DEF LaunchOk, Move, Goto, resourceVars, counterVars
<1>22. ASSUME NEW c \in Connections, ProbeOk(c) PROVE ReservationMove
  BY <1>22, ReservationKept DEF ProbeOk, Move, Goto, instanceVars, resourceVars,
       counterVars
<1>23. ASSUME NEW c \in Connections, ProbeFail(c) PROVE ReservationMove
  BY <1>23, ReservationKept DEF ProbeFail, Goto, CallStop, resourceVars,
       counterVars
<1>24. ASSUME NEW c \in Connections, Unreserve(c) PROVE ReservationMove
  <2>1. /\ pc[c] = "unreserve" /\ pc' = [pc EXCEPT ![c] = "fail"]
        /\ UNCHANGED then /\ reserved' = Minus(reserved, Target[c])
    BY <1>24 DEF Unreserve, Move, Goto
  <2> QED
    BY <2>1, ReservationEnds
<1>25. ASSUME NEW c \in Connections, Ready(c) PROVE ReservationMove
  <2>1. /\ pc[c] = "ready" /\ pc' = [pc EXCEPT ![c] = "attach"]
        /\ UNCHANGED then /\ reserved' = Minus(reserved, Target[c])
    BY <1>25 DEF Ready, Move, Goto
  <2> QED
    BY <2>1, ReservationEnds
<1>26. ASSUME NEW c \in Connections, Attach(c) PROVE ReservationMove
  BY <1>26, ReservationKept DEF Attach, Move, Goto, resourceVars, counterVars
<1>27. ASSUME NEW c \in Connections, Count(c) PROVE ReservationMove
  BY <1>27, ReservationKept DEF Count, Move, Goto, instanceVars, resourceVars
<1>28. ASSUME NEW c \in Connections, EndProxy(c) PROVE ReservationMove
  BY <1>28, ReservationKept DEF EndProxy, Move, Goto, resourceVars, counterVars
<1>29. ASSUME NEW c \in Connections, Uncount(c) PROVE ReservationMove
  BY <1>29, ReservationKept DEF Uncount, Goto, AfterDecrement, instanceVars,
       resourceVars
<1>30. ASSUME NEW c \in Connections, Fail(c) PROVE ReservationMove
  BY <1>30, ReservationKept DEF Fail, Goto, AfterDecrement, instanceVars,
       resourceVars
<1>31. ASSUME NEW c \in Connections, Notify(c) PROVE ReservationMove
  BY <1>31, ReservationKept DEF Notify, Move, Goto, instanceVars, counterVars
<1>32. ASSUME NEW t \in Threads, StopLookup(t) PROVE ReservationMove
  <2>1. /\ pc[t] = "stopLookup" /\ UNCHANGED reserved
        /\ then[t] \in {"reserve", "register", "unreserve", "off"}
    BY <1>32 DEF StopLookup, resourceVars
  <2>2. CASE ReturnFromStop(t)
    BY <2>1, <2>2, ReservationKept DEF ReturnFromStop, Goto
  <2>3. CASE Goto(t, "stopLock") /\ UNCHANGED then
    BY <2>1, <2>3, ReservationKept DEF Goto
  <2> QED
    BY <1>32, <2>2, <2>3 DEF StopLookup
<1>33. ASSUME NEW t \in Threads, StopLock(t) PROVE ReservationMove
  BY <1>33, ReservationKept DEF StopLock, Move, Goto, resourceVars, counterVars
<1>34. ASSUME NEW t \in Threads, StopFinish(t) PROVE ReservationMove
  <2>1. /\ pc[t] \in {"wait", "killed"} /\ UNCHANGED reserved
        /\ then[t] \in {"reserve", "register", "unreserve", "off"}
        /\ pc' = [pc EXCEPT ![t] = then[t]]
        /\ then' = [then EXCEPT ![t] = "none"]
    BY <1>34 DEF StopFinish, ReturnFromStop, Goto, resourceVars
  <2> QED
    BY <2>1, ReservationKept
<1>35. ASSUME NEW t \in Threads, StopKill(t) PROVE ReservationMove
  BY <1>35, ReservationKept DEF StopKill, Move, Goto, resourceVars, counterVars
<1>36. ASSUME NEW t \in Threads, StopAbandon(t) PROVE ReservationMove
  <2>1. /\ pc[t] \in {"wait", "killed"} /\ UNCHANGED reserved
        /\ then[t] \in {"reserve", "register", "unreserve", "off"}
        /\ pc' = [pc EXCEPT ![t] = then[t]]
        /\ then' = [then EXCEPT ![t] = "none"]
    BY <1>36 DEF StopAbandon, ReturnFromStop, Goto, resourceVars
  <2> QED
    BY <2>1, ReservationKept
<1>37. ASSUME NEW t \in Timers, IdleDrop(t) PROVE ReservationMove
  BY <1>37, ReservationKept DEF IdleDrop, Move, Goto, instanceVars,
       resourceVars, counterVars
<1>38. ASSUME NEW t \in Timers, IdleRearm(t) PROVE ReservationMove
  BY <1>38, ReservationKept DEF IdleRearm, Move, Goto, resourceVars,
       counterVars
<1>39. ASSUME NEW t \in Timers, IdleStop(t) PROVE ReservationMove
  BY <1>39, ReservationKept DEF IdleStop, Goto, CallStop, instanceVars,
       resourceVars, counterVars
<1>40. ASSUME NEW t \in Timers, NEW i \in Instances, TimerFire(t, i) PROVE ReservationMove
  BY <1>40, ReservationKept DEF TimerFire, Move, Goto, resourceVars,
       counterVars
<1>41. ASSUME NEW i \in Instances, Exit(i) PROVE ReservationMove
  BY <1>41, ReservationKept DEF Exit, threadVars, resourceVars, counterVars
<1>42. ASSUME NEW i \in Instances, MonitorClean(i) PROVE ReservationMove
  BY <1>42, ReservationKept DEF MonitorClean, threadVars, counterVars
<1> QED
  BY <1>1, <1>2, <1>3, <1>4, <1>5, <1>6, <1>7, <1>8, <1>9, <1>10, <1>11, <1>12,
     <1>13, <1>14, <1>15, <1>16, <1>17, <1>18, <1>19, <1>20, <1>21, <1>22,
     <1>23, <1>24, <1>25, <1>26, <1>27, <1>28, <1>29, <1>30, <1>31, <1>32,
     <1>33, <1>34, <1>35, <1>36, <1>37, <1>38, <1>39, <1>40, <1>41, <1>42
  DEF Next, ClientStep, ProgramStep, StopStep, IdleStep
-----------------------------------------------------------------------------
\* What a step that frees a resource owes to those who registered for it.
Signals ==
    \A r \in Resources :
        inUse'[r] < inUse[r] =>
            \A s \in Services : chan[r][s] # "none" => chan'[r][s] = "full"

\* A cleanup signals everyone registered for what it releases.
LEMMA CleanUpSignals ==
  ASSUME TypeInv, NEW i \in Instances, CleanUp(i)
  PROVE  Signals
<1>1. CASE status[i] = "released"
  BY <1>1 DEF CleanUp, Signals, TypeInv
<1>2. CASE status[i] # "released"
  <2>1. /\ Broadcast(Needs(Target[i]))
        /\ inUse' = IF flag[i] THEN Minus(inUse, Target[i]) ELSE inUse
    BY <1>2 DEF CleanUp, Release
  <2>2. ASSUME NEW r \in Resources, inUse'[r] < inUse[r]
        PROVE  r \in Needs(Target[i])
    <3>1. inUse[r] \in Int /\ Requirement[Target[i]][r] \in Nat
      BY ConfigAssumption DEF TypeInv, Instances
    <3>2. inUse'[r] = inUse[r] - Requirement[Target[i]][r]
      BY <2>1, <2>2, <3>1 DEF Minus
    <3> QED
      BY <2>2, <3>1, <3>2 DEF Needs
  <2> QED
    BY <2>1, <2>2, BroadcastKeeps DEF Signals
<1> QED
  BY <1>1, <1>2

\* A step that releases nothing owes nothing.
LEMMA NothingReleased ==
  ASSUME TypeInv, TypeInv', \A r \in Resources : inUse'[r] >= inUse[r]
  PROVE  Signals
BY DEF Signals, TypeInv

\* Every step that frees a resource signals those who registered for it.
LEMMA SignalStep ==
  ASSUME TypeInv, TypeInv', LocalsInv, Next
  PROVE  Signals
<1> USE ThreadsAssumption, ConfigAssumption, NoneAssumption
<1> USE DEF TypeInv, LocalsInv, Threads, Instances, StopCall
<1>1. ASSUME NEW c \in Connections, Accept(c) PROVE Signals
  BY <1>1, NothingReleased DEF Accept, resourceVars
<1>2. ASSUME NEW c \in Connections, Lookup(c) PROVE Signals
  BY <1>2, NothingReleased DEF Lookup, resourceVars
<1>3. ASSUME NEW c \in Connections, TryLock(c) PROVE Signals
  BY <1>3, NothingReleased DEF TryLock, resourceVars
<1>4. ASSUME NEW c \in Connections, LockQueued(c) PROVE Signals
  BY <1>4, NothingReleased DEF LockQueued, resourceVars
<1>5. ASSUME NEW c \in Connections, CancelQueued(c) PROVE Signals
  BY <1>5, NothingReleased DEF CancelQueued, resourceVars
<1>6. ASSUME NEW c \in Connections, Requeue(c) PROVE Signals
  BY <1>6, NothingReleased DEF Requeue, resourceVars
<1>7. ASSUME NEW c \in Connections, Track(c) PROVE Signals
  BY <1>7, NothingReleased DEF Track, resourceVars
<1>8. ASSUME NEW c \in Connections, DialOk(c) PROVE Signals
  BY <1>8, NothingReleased DEF DialOk, resourceVars
<1>9. ASSUME NEW c \in Connections, DialFail(c) PROVE Signals
  BY <1>9, NothingReleased DEF DialFail, resourceVars
<1>10. ASSUME NEW c \in Connections, Restart(c) PROVE Signals
  BY <1>10, NothingReleased DEF Restart, resourceVars
<1>11. ASSUME NEW c \in Connections, Register(c) PROVE Signals
  BY <1>11, NothingReleased DEF Register, resourceVars
<1>12. ASSUME NEW c \in Connections, ReserveOk(c) PROVE Signals
  <2>1. inUse' = Plus(inUse, Target[c])
    BY <1>12 DEF ReserveOk
  <2>2. \A r \in Resources : inUse'[r] >= inUse[r]
    BY <2>1 DEF Plus
  <2> QED
    BY <2>2, NothingReleased
<1>13. ASSUME NEW c \in Connections, ReserveMissing(c) PROVE Signals
  BY <1>13, NothingReleased DEF ReserveMissing, resourceVars
<1>14. ASSUME NEW c \in Connections, PickVictim(c) PROVE Signals
  BY <1>14, NothingReleased DEF PickVictim, resourceVars
<1>15. ASSUME NEW c \in Connections, Park(c) PROVE Signals
  BY <1>15, NothingReleased DEF Park
<1>16. ASSUME NEW c \in Connections, Wake(c) PROVE Signals
  BY <1>16, NothingReleased DEF Wake, Unpark
<1>17. ASSUME NEW c \in Connections, GiveUp(c) PROVE Signals
  BY <1>17, NothingReleased DEF GiveUp, Unpark
<1>18. ASSUME NEW c \in Connections, Refused(c) PROVE Signals
  BY <1>18, CleanUpSignals DEF Refused
<1>19. ASSUME NEW c \in Connections, FlagReserved(c) PROVE Signals
  BY <1>19, NothingReleased DEF FlagReserved, resourceVars
<1>20. ASSUME NEW c \in Connections, LaunchFail(c) PROVE Signals
  BY <1>20, CleanUpSignals DEF LaunchFail
<1>21. ASSUME NEW c \in Connections, LaunchOk(c) PROVE Signals
  BY <1>21, NothingReleased DEF LaunchOk, resourceVars
<1>22. ASSUME NEW c \in Connections, ProbeOk(c) PROVE Signals
  BY <1>22, NothingReleased DEF ProbeOk, resourceVars
<1>23. ASSUME NEW c \in Connections, ProbeFail(c) PROVE Signals
  BY <1>23, NothingReleased DEF ProbeFail, resourceVars
<1>24. ASSUME NEW c \in Connections, Unreserve(c) PROVE Signals
  BY <1>24, NothingReleased DEF Unreserve
<1>25. ASSUME NEW c \in Connections, Ready(c) PROVE Signals
  BY <1>25, NothingReleased DEF Ready
<1>26. ASSUME NEW c \in Connections, Attach(c) PROVE Signals
  BY <1>26, NothingReleased DEF Attach, resourceVars
<1>27. ASSUME NEW c \in Connections, Count(c) PROVE Signals
  BY <1>27, NothingReleased DEF Count, resourceVars
<1>28. ASSUME NEW c \in Connections, EndProxy(c) PROVE Signals
  BY <1>28, NothingReleased DEF EndProxy, resourceVars
<1>29. ASSUME NEW c \in Connections, Uncount(c) PROVE Signals
  BY <1>29, NothingReleased DEF Uncount, resourceVars
<1>30. ASSUME NEW c \in Connections, Fail(c) PROVE Signals
  BY <1>30, NothingReleased DEF Fail, resourceVars
<1>31. ASSUME NEW c \in Connections, Notify(c) PROVE Signals
  BY <1>31, NothingReleased DEF Notify
<1>32. ASSUME NEW t \in Threads, StopLookup(t) PROVE Signals
  BY <1>32, NothingReleased DEF StopLookup, resourceVars
<1>33. ASSUME NEW t \in Threads, StopLock(t) PROVE Signals
  BY <1>33, NothingReleased DEF StopLock, resourceVars
<1>34. ASSUME NEW t \in Threads, StopFinish(t) PROVE Signals
  <2>1. ptr[t] \in Instances
    BY <1>34 DEF StopFinish
  <2> QED
    BY <1>34, <2>1, CleanUpSignals DEF StopFinish
<1>35. ASSUME NEW t \in Threads, StopKill(t) PROVE Signals
  BY <1>35, NothingReleased DEF StopKill, resourceVars
<1>36. ASSUME NEW t \in Threads, StopAbandon(t) PROVE Signals
  BY <1>36, NothingReleased DEF StopAbandon, resourceVars
<1>37. ASSUME NEW t \in Timers, IdleDrop(t) PROVE Signals
  BY <1>37, NothingReleased DEF IdleDrop, resourceVars
<1>38. ASSUME NEW t \in Timers, IdleRearm(t) PROVE Signals
  BY <1>38, NothingReleased DEF IdleRearm, resourceVars
<1>39. ASSUME NEW t \in Timers, IdleStop(t) PROVE Signals
  BY <1>39, NothingReleased DEF IdleStop, resourceVars
<1>40. ASSUME NEW t \in Timers, NEW i \in Instances, TimerFire(t, i) PROVE Signals
  BY <1>40, NothingReleased DEF TimerFire, resourceVars
<1>41. ASSUME NEW i \in Instances, Exit(i) PROVE Signals
  BY <1>41, NothingReleased DEF Exit, resourceVars
<1>42. ASSUME NEW i \in Instances, MonitorClean(i) PROVE Signals
  BY <1>42, CleanUpSignals, NothingReleased DEF MonitorClean
<1> QED
  BY <1>1, <1>2, <1>3, <1>4, <1>5, <1>6, <1>7, <1>8, <1>9, <1>10, <1>11, <1>12,
     <1>13, <1>14, <1>15, <1>16, <1>17, <1>18, <1>19, <1>20, <1>21, <1>22,
     <1>23, <1>24, <1>25, <1>26, <1>27, <1>28, <1>29, <1>30, <1>31, <1>32,
     <1>33, <1>34, <1>35, <1>36, <1>37, <1>38, <1>39, <1>40, <1>41, <1>42
  DEF Next, ClientStep, ProgramStep, StopStep, IdleStep
------------------------------------------------------------------------------
\* The program starts with the control invariant.
LEMMA InitControl ==
  ASSUME Init PROVE ControlInv
<1> USE ThreadsAssumption, ConfigAssumption, NoneAssumption DEF Threads, Instances
<1>1. TypeInv
  BY DEF Init, TypeInv, ConnectionPlaces, TimerPlaces, Starting, StopCall
<1>2. \A t \in Threads : pc[t] \in {"new", "off"}
  BY DEF Init
<1>3. LocalsInv
  BY <1>2 DEF LocalsInv, StopCall
<1>4. RegistryInv
  BY DEF Init, RegistryInv, LiveIsRegistered
<1>5. LockInv
  BY <1>2 DEF Init, LockInv, LockDiscipline, HoldsOwn, HoldsPtr, Reserving,
              Starting, StopCall
<1>6. PhaseInv
  BY <1>2 DEF Init, PhaseInv, Reserving, StopCall
<1>7. ProcessInv
  BY <1>2 DEF Init, ProcessInv
<1>8. ChargeInv
  BY DEF Init, ChargeInv
<1>9. ParkInv
  BY <1>2 DEF ParkInv, Threads
<1>10. BornInv /\ TimerInv /\ PendingInv
  BY <1>2 DEF Init, BornInv, TimerInv, PendingInv, Unregistered, HoldsOwn,
              Reserving, Starting, StopCall
<1>11. StoppingInv /\ EvictionInv
  <2>1. \A c, d \in Connections : ~Evicts(c, d)
    BY <1>2 DEF Evicts, StopCall
  <2>2. EvictionInv
    BY <2>1 DEF EvictionInv
  <2> QED
    BY <1>2, <2>2 DEF StoppingInv
<1>12. CountsMatch
  <2>1. /\ \A s \in Services : waiting[s] = 0 /\ proxied[s] = 0
        /\ \A c \in Connections : pc[c] = "new"
    BY DEF Init
  <2>2. \A c \in Connections : ~Waiting(c) /\ ~Proxied(c)
    BY <2>1 DEF Waiting, Proxied
  <2>3. ASSUME NEW s \in Services
        PROVE  /\ {c \in Connections : Target[c] = s /\ Waiting(c)} = {}
               /\ {c \in Connections : Target[c] = s /\ Proxied(c)} = {}
    BY <2>2
  <2> QED
    BY <2>1, <2>3, FS_EmptySet DEF CountsMatch
<1>13. StarterInv
  BY <1>2 DEF Init, StarterInv, StartOf, Launching, StopsOwn, StopCall
<1> QED
  BY <1>1, <1>3, <1>4, <1>5, <1>6, <1>7, <1>8, <1>9, <1>10, <1>11, <1>12,
     <1>13
  DEF ControlInv

\* Every step of the program keeps the control invariant.
LEMMA ControlStep ==
  ASSUME ControlInv, [Next]_vars PROVE ControlInv'
<1>1. CASE Next
  BY <1>1, TypePreserved, LocalsPreserved, RegistryPreserved, LockPreserved,
     PhasePreserved, ProcessPreserved, ChargePreserved, ParkPreserved,
     BornPreserved, TimerPreserved, PendingPreserved, StoppingPreserved,
     EvictionPreserved, CountsPreserved, StarterPreserved
     DEF ControlInv
<1>2. CASE UNCHANGED vars
  <2>1. UNCHANGED <<pc, ptr, stopping, then, missing, running, status, manage,
                    flag, timer, proc, inUse, reserved, chan, waiting, proxied>>
    BY <1>2 DEF vars, threadVars, instanceVars, resourceVars, counterVars
  <2>2. TypeInv' /\ LocalsInv' /\ RegistryInv'
    BY <2>1 DEF ControlInv, TypeInv, LocalsInv, RegistryInv, LiveIsRegistered
  <2>3. LockInv'
    BY <2>1 DEF ControlInv, LockInv, LockDiscipline, HoldsOwn, HoldsPtr, Reserving
  <2>4. PhaseInv' /\ ProcessInv' /\ ChargeInv' /\ ParkInv'
    BY <2>1 DEF ControlInv, PhaseInv, Unregistered, Reserving, ProcessInv,
                ChargeInv, ParkInv
  <2>5. BornInv' /\ TimerInv' /\ PendingInv' /\ StoppingInv' /\ EvictionInv'
    BY <2>1 DEF ControlInv, BornInv, Unregistered, HoldsOwn, Reserving, TimerInv,
                PendingInv, Pending, PendingBy, AtRest, StoppingInv,
                EvictionInv, Evicts
  <2>6. CountsMatch' /\ StarterInv'
    BY <2>1 DEF ControlInv, CountsMatch, Waiting, Proxied, StarterInv, StartOf,
                Launching, StopsOwn, StarterAt, HoldsOwn, Reserving
  <2> QED
    BY <2>2, <2>3, <2>4, <2>5, <2>6 DEF ControlInv
<1> QED
  BY <1>1, <1>2

\* The control invariant holds of every reachable state.
THEOREM ControlInvariant == Spec => []ControlInv
BY InitControl, ControlStep, PTL DEF Spec

\* runningServices holds an instance exactly while its resources have not been
\* released.
THEOREM RegisteredWhileLive == Spec => []LiveIsRegistered
<1>1. ControlInv => LiveIsRegistered
  BY DEF ControlInv, RegistryInv
<1> QED
  BY ControlInvariant, <1>1, PTL

\* Every manageMutex is held by exactly the goroutine that is in a section it
\* guards: no path keeps it, none gives back what it does not hold.
THEOREM LocksAreDisciplined == Spec => []LockDiscipline
<1>1. ControlInv => LockDiscipline
  BY DEF ControlInv, LockInv
<1> QED
  BY ControlInvariant, <1>1, PTL

\* Only the goroutine whose instance is registered waits for the resources of
\* its service.
THEOREM OneReserver == Spec => []OneReserverPerService
<1>1. ControlInv => OneReserverPerService
  BY DEF ControlInv, PhaseInv, OneReserverPerService
<1> QED
  BY ControlInvariant, <1>1, PTL

\* connectionStats counts exactly the connections that wait and that are
\* proxied: no path out of a connection forgets or repeats a decrement.
THEOREM CountersMatch == Spec => []CountsMatch
<1>1. ControlInv => CountsMatch
  BY DEF ControlInv
<1> QED
  BY ControlInvariant, <1>1, PTL

\* An instance nobody works on has something pending that will stop it.
THEOREM NeverForgets == Spec => []NeverForgotten
<1>1. ControlInv => NeverForgotten
  BY DEF ControlInv, PendingInv, AtRest, Pending, PendingBy, NeverForgotten
<1> QED
  BY ControlInvariant, <1>1, PTL

\* Goroutines that blocked each other in a circle would all be evictors, each
\* stopping the service the next one is starting.
LEMMA LocksAcyclic ==
  ASSUME ControlInv PROVE NoLockCycle
<1> SUFFICES ASSUME NEW T \in SUBSET Threads, T # {},
                    \A t \in T : Blocked(t) /\ manage[ptr[t]] \in T
             PROVE  FALSE
  BY DEF NoLockCycle
<1> USE ThreadsAssumption, NoneAssumption DEF Threads, Instances
<1> DEFINE R == {c \in T \cap Connections : Reserving(c)}
<1>1. ASSUME NEW t \in T
      PROVE  ptr[t] \in R /\ manage[ptr[t]] = ptr[t]
  <2> DEFINE u == manage[ptr[t]]
  <2>1. pc[t] \in {"queued", "stopLock"} /\ u \in T
    BY DEF Blocked
  <2>2. ptr[t] \in Connections
    BY <2>1 DEF ControlInv, TypeInv, LocalsInv
  <2>3. pc[u] \in {"queued", "stopLock"}
    BY <2>1 DEF Blocked
  <2>4. u = ptr[t] /\ HoldsOwn(u)
    BY <2>1, <2>2, <2>3 DEF ControlInv, LockInv, LockDiscipline, HoldsPtr
  <2>5. Reserving(u)
    BY <2>3, <2>4 DEF HoldsOwn, Starting
  <2> QED
    BY <2>1, <2>2, <2>4, <2>5
<1>2. R \in SUBSET Connections /\ R # {}
  BY <1>1
<1>3. ASSUME NEW c \in R PROVE Evicts(c, ptr[c])
  <2>1. pc[c] = "stopLock" /\ then[c] = "reserve"
    BY DEF Blocked, Reserving, StopCall
  <2>2. Reserving(ptr[c])
    BY <1>1
  <2>3. Target[ptr[c]] = stopping[c]
    BY <2>1 DEF ControlInv, StoppingInv
  <2> QED
    BY <2>1, <2>2, <2>3 DEF Evicts, StopCall
<1>4. \A c \in R : ptr[c] \in R
  BY <1>1
<1> HIDE DEF R
<1>5. PICK c \in R : \A d \in R : ~Evicts(c, d)
  BY <1>2 DEF ControlInv, EvictionInv
<1> QED
  BY <1>3, <1>4, <1>5

\* No goroutines block each other for ever on manageMutexes.
THEOREM NoDeadlock == Spec => []NoLockCycle
BY ControlInvariant, LocksAcyclic, PTL

\* A step that frees enough of the resource a connection is parked on signals
\* that connection: the wake-up is neither dropped nor sent to a stale channel.
THEOREM ReleaseWakes == Spec => WakeOnRelease
<1>1. ASSUME ControlInv, ControlInv', [Next]_vars PROVE [WakeStep]_vars
  <2> SUFFICES ASSUME ControlInv, ControlInv', Next PROVE WakeStep
    BY <1>1
  <2> SUFFICES ASSUME NEW c \in Connections, pc[c] = "parked",
                      missing[c] \in Short(Target[c]),
                      missing[c] \notin Short(Target[c])'
               PROVE  chan'[missing[c]][Target[c]] = "full"
    BY DEF WakeStep
  <2>1. TypeInv /\ TypeInv' /\ LocalsInv /\ ParkInv
    BY DEF ControlInv
  <2>2. Target[c] \in Services /\ missing[c] \in Needs(Target[c])
    BY ConfigAssumption DEF Short
  <2>3. missing[c] \in Resources
    BY <2>2 DEF Needs
  <2> DEFINE r == missing[c]
             s == Target[c]
  <2>4. /\ Requirement[s][r] > Amount[r] - inUse[r]
        /\ ~ (Requirement[s][r] > Amount[r] - inUse'[r])
    BY <2>2 DEF Short, Needs
  <2>5. /\ Requirement[s][r] \in Nat /\ Amount[r] \in Nat
        /\ inUse[r] \in Int /\ inUse'[r] \in Int
    BY <2>1, <2>2, <2>3, ConfigAssumption DEF TypeInv
  <2>6. inUse'[r] < inUse[r]
    BY <2>4, <2>5
  <2>7. chan[r][s] # "none"
    BY <2>1 DEF ParkInv
  <2>8. Signals
    BY <2>1, SignalStep
  <2> QED
    BY <2>2, <2>3, <2>6, <2>7, <2>8 DEF Signals
<1> QED
  BY ControlInvariant, <1>1, PTL DEF Spec, WakeOnRelease
-----------------------------------------------------------------------------
\* The static accounting implements the ledger.
THEOREM LedgerImplemented == Spec => ImplementsLedger
<1>1. ASSUME Init PROVE Ledger!LedgerInit
  <2>1. /\ \A s \in Services : running[s] = None
        /\ inUse = [r \in Resources |-> 0]
    BY <1>1 DEF Init
  <2>2. Holders = {}
    BY <2>1 DEF Holders
  <2> QED
    BY <2>1, <2>2 DEF Ledger!LedgerInit
<1>2. ASSUME ControlInv, [Next]_vars
      PROVE  [Ledger!LedgerNext]_(Ledger!ledgerVars)
  <2>1. CASE Next
    BY <1>2, <2>1, LedgerStep DEF LedgerMove, Ledger!ledgerVars
  <2>2. CASE UNCHANGED vars
    <3>1. UNCHANGED <<pc, running, flag, inUse>>
      BY <2>2 DEF vars, threadVars, instanceVars, resourceVars
    <3>2. Holders' = Holders
      BY <3>1 DEF Holders, Charged
    <3> QED
      BY <3>1, <3>2 DEF Ledger!ledgerVars
  <2> QED
    BY <1>2, <2>1, <2>2
<1> QED
  BY ControlInvariant, <1>1, <1>2, PTL DEF Spec, ImplementsLedger, Ledger!LedgerSpec

\* Holders and their requirements are as the lemmas about accounts want them.
LEMMA HoldersType ==
  /\ Holders \in SUBSET Services /\ IsFiniteSet(Holders)
  /\ ReservationHolders \in SUBSET Instances /\ IsFiniteSet(ReservationHolders)
  /\ InstanceRequirement \in [Instances -> [Resources -> Nat]]
<1>1. Holders \in SUBSET Services
  BY DEF Holders
<1>2. ReservationHolders \in SUBSET Instances
  BY DEF ReservationHolders, Instances
<1> QED
  BY <1>1, <1>2, FS_Subset, ThreadsAssumption, ConfigAssumption
     DEF InstanceRequirement, Instances

\* A move of the ledger keeps resourcesInUse exact and within capacity.
LEMMA LedgerPreserved ==
  ASSUME TypeInv, TypeInv', LedgerInv, LedgerMove
  PROVE  LedgerInv'
<1> USE ConfigAssumption
<1>1. CASE UNCHANGED <<Holders, inUse>>
  BY <1>1 DEF LedgerInv, Conservation
<1>2. Balanced(inUse, Requirement, Holders, Resources)
  BY DEF LedgerInv, Conservation, Balanced
<1>3. inUse \in [Resources -> Int]
  BY DEF TypeInv
<1>4. ASSUME NEW s \in Services, Ledger!Acquire(s) PROVE LedgerInv'
  <2>1. /\ s \notin Holders /\ Holders' = Holders \cup {s}
        /\ inUse' = [r \in Resources |-> inUse[r] + Requirement[s][r]]
    BY <1>4 DEF Ledger!Acquire
  <2>2. Balanced(inUse', Requirement, Holders', Resources)
    BY <1>2, <1>3, <2>1, HoldersType, BalancedTake
  <2>3. ASSUME NEW r \in Resources PROVE inUse'[r] <= Amount[r]
    <3>1. /\ Requirement[s][r] \in Nat /\ Amount[r] \in Nat /\ inUse[r] \in Int
          /\ inUse[r] <= Amount[r] /\ inUse'[r] = inUse[r] + Requirement[s][r]
      BY <1>3, <2>1 DEF LedgerInv
    <3>2. Requirement[s][r] > 0 => Requirement[s][r] <= Amount[r] - inUse[r]
      BY <1>4 DEF Ledger!Acquire, Ledger!Fits
    <3> QED
      BY <3>1, <3>2
  <2> QED
    BY <2>2, <2>3 DEF LedgerInv, Conservation, Balanced
<1>5. ASSUME NEW s \in Services, Ledger!Release(s) PROVE LedgerInv'
  <2>1. /\ s \in Holders /\ Holders' = Holders \ {s}
        /\ inUse' = [r \in Resources |-> inUse[r] - Requirement[s][r]]
    BY <1>5 DEF Ledger!Release
  <2>2. Balanced(inUse', Requirement, Holders', Resources)
    BY <1>2, <1>3, <2>1, HoldersType, BalancedGive
  <2>3. ASSUME NEW r \in Resources PROVE inUse'[r] <= Amount[r]
    <3>1. /\ Requirement[s][r] \in Nat /\ Amount[r] \in Nat /\ inUse[r] \in Int
          /\ inUse[r] <= Amount[r] /\ inUse'[r] = inUse[r] - Requirement[s][r]
      BY <1>3, <2>1 DEF LedgerInv
    <3> QED
      BY <3>1
  <2> QED
    BY <2>2, <2>3 DEF LedgerInv, Conservation, Balanced
<1> QED
  BY <1>1, <1>4, <1>5 DEF LedgerMove, Ledger!LedgerNext

\* A move of the reservations keeps resourcesReserved exact.
LEMMA ReservationsPreserved ==
  ASSUME TypeInv, ReservedConservation, ReservationMove
  PROVE  ReservedConservation'
<1> USE ConfigAssumption
<1>1. CASE UNCHANGED <<ReservationHolders, reserved>>
  BY <1>1 DEF ReservedConservation, InstanceRequirement
<1>2. Balanced(reserved, InstanceRequirement, ReservationHolders, Resources)
  BY DEF ReservedConservation, Balanced
<1>3. reserved \in [Resources -> Int]
  BY DEF TypeInv
<1>4. \A c \in Instances :
        InstanceRequirement[c] = Requirement[Target[c]]
  BY DEF InstanceRequirement
<1>5. ASSUME NEW c \in Connections \ ReservationHolders,
             ReservationHolders' = ReservationHolders \cup {c},
             reserved' = Plus(reserved, Target[c])
      PROVE  ReservedConservation'
  <2>1. c \in Instances /\ c \notin ReservationHolders
    BY DEF Instances
  <2>2. reserved' = [r \in Resources |-> reserved[r] + InstanceRequirement[c][r]]
    BY <1>4, <1>5, <2>1 DEF Plus
  <2>3. Balanced(reserved', InstanceRequirement, ReservationHolders', Resources)
    BY <1>2, <1>3, <1>5, <2>1, <2>2, HoldersType, BalancedTake
  <2> QED
    BY <2>3 DEF ReservedConservation, Balanced, InstanceRequirement
<1>6. ASSUME NEW c \in ReservationHolders,
             ReservationHolders' = ReservationHolders \ {c},
             reserved' = Minus(reserved, Target[c])
      PROVE  ReservedConservation'
  <2>1. c \in Instances
    BY HoldersType
  <2>2. reserved' = [r \in Resources |-> reserved[r] - InstanceRequirement[c][r]]
    BY <1>4, <1>6, <2>1 DEF Minus
  <2>3. Balanced(reserved', InstanceRequirement, ReservationHolders', Resources)
    BY <1>2, <1>3, <1>6, <2>1, <2>2, HoldersType, BalancedGive
  <2> QED
    BY <2>3 DEF ReservedConservation, Balanced, InstanceRequirement
<1> QED
  BY <1>1, <1>5, <1>6 DEF ReservationMove
-----------------------------------------------------------------------------
\* The program starts with the whole invariant.
LEMMA InitIInv ==
  ASSUME Init PROVE IInv
<1>1. ControlInv
  BY InitControl
<1>2. /\ inUse = [r \in Resources |-> 0] /\ reserved = [r \in Resources |-> 0]
      /\ Holders = {} /\ ReservationHolders = {}
  <2>1. /\ \A s \in Services : running[s] = None
        /\ \A t \in Threads : pc[t] \in {"new", "off"}
        /\ inUse = [r \in Resources |-> 0] /\ reserved = [r \in Resources |-> 0]
    BY DEF Init
  <2>2. Holders = {}
    BY <2>1 DEF Holders
  <2>3. \A c \in Connections : ~HoldsReservation(c)
    BY <2>1 DEF HoldsReservation, StopCall, Threads
  <2> QED
    BY <2>1, <2>2, <2>3 DEF ReservationHolders
<1>3. LedgerInv
  BY <1>2, UseNobody, ConfigAssumption DEF LedgerInv, Conservation
<1>4. ReservedConservation
  BY <1>2, UseNobody DEF ReservedConservation
<1> QED
  BY <1>1, <1>3, <1>4 DEF IInv

\* Every step keeps the whole invariant.
LEMMA IInvStep ==
  ASSUME IInv, [Next]_vars PROVE IInv'
<1>1. ControlInv /\ ControlInv' /\ TypeInv /\ TypeInv' /\ LocalsInv
  BY ControlStep DEF IInv, ControlInv
<1>2. CASE Next
  <2>1. LedgerInv'
    BY <1>1, <1>2, LedgerStep, LedgerPreserved DEF IInv
  <2>2. ReservedConservation'
    BY <1>1, <1>2, ReservationStep, ReservationsPreserved DEF IInv
  <2> QED
    BY <1>1, <2>1, <2>2 DEF IInv
<1>3. CASE UNCHANGED vars
  <2>1. UNCHANGED <<pc, then, running, flag, inUse, reserved>>
    BY <1>3 DEF vars, threadVars, instanceVars, resourceVars
  <2>2. Holders' = Holders /\ ReservationHolders' = ReservationHolders
    BY <2>1 DEF Holders, Charged, ReservationHolders, HoldsReservation
  <2> QED
    BY <1>1, <2>1, <2>2
       DEF IInv, LedgerInv, Conservation, ReservedConservation, InstanceRequirement
<1> QED
  BY <1>2, <1>3

\* The inductive invariant holds of every reachable state.
THEOREM InductiveInvariant == Spec => []IInv
BY InitIInv, IInvStep, PTL DEF Spec

\* resourcesInUse is exactly what the charged instances in runningServices
\* require: no path leaks a resource or gives one back twice.
THEOREM Conserved == Spec => []Conservation
<1>1. IInv => Conservation
  BY DEF IInv, LedgerInv
<1> QED
  BY InductiveInvariant, <1>1, PTL

\* resourcesReserved is exactly what the starts under way reserved.
THEOREM ReservationsConserved == Spec => []ReservedConservation
<1>1. IInv => ReservedConservation
  BY DEF IInv
<1> QED
  BY InductiveInvariant, <1>1, PTL

\* Every variable keeps its type, and no resource counter goes below zero.
THEOREM TypeCorrect == Spec => []TypeOK
<1>1. IInv => TypeOK
  <2> SUFFICES ASSUME IInv PROVE TypeOK
    OBVIOUS
  <2>1. TypeInv
    BY DEF IInv, ControlInv
  <2>2. inUse \in [Resources -> Nat]
    <3>1. inUse \in [Resources -> Int]
      BY <2>1 DEF TypeInv
    <3>2. Balanced(inUse, Requirement, Holders, Resources)
      BY DEF IInv, LedgerInv, Conservation, Balanced
    <3>3. Requirement \in [Services -> [Resources -> Nat]]
      BY ConfigAssumption
    <3> QED
      BY <3>1, <3>2, <3>3, HoldersType, BalancedType
  <2>3. reserved \in [Resources -> Nat]
    <3>1. reserved \in [Resources -> Int]
      BY <2>1 DEF TypeInv
    <3>2. Balanced(reserved, InstanceRequirement, ReservationHolders, Resources)
      BY DEF IInv, ReservedConservation, Balanced
    <3> QED
      BY <3>1, <3>2, HoldersType, BalancedType
  <2> QED
    BY <2>1, <2>2, <2>3 DEF TypeOK
<1> QED
  BY InductiveInvariant, <1>1, PTL

\* Processes that were not sent SIGKILL, taken by service, are holders: what
\* they need together is no more than what is charged.
LEMMA RunningFits ==
  ASSUME IInv, NEW r \in Resources
  PROVE  Use(InstanceRequirement, {i \in Instances : proc[i] = "up"}, r)
            <= Use(Requirement, Holders, r)
<1> DEFINE up == {i \in Instances : proc[i] = "up"}
           S == Units(InstanceRequirement, up, r)
           T == Units(Requirement, Holders, r)
           f == [u \in S |-> <<Target[u[1]], u[2]>>]
<1>1. \A i \in up : /\ i \in Instances /\ Target[i] \in Holders
                    /\ running[Target[i]] = i
                    /\ InstanceRequirement[i][r] = Requirement[Target[i]][r]
  BY ConfigAssumption, NoneAssumption
     DEF IInv, ControlInv, ProcessInv, Holders, Charged, InstanceRequirement,
         Instances
<1>2. \A u \in S : /\ u = <<u[1], u[2]>> /\ u[1] \in up
                   /\ u[2] \in 1..InstanceRequirement[u[1]][r]
  BY DEF Units
<1> HIDE DEF up
<1>3. \A u \in S : <<Target[u[1]], u[2]>> \in T
  BY <1>1, <1>2 DEF Units
<1>4. \A u, v \in S : Target[u[1]] = Target[v[1]] /\ u[2] = v[2] => u = v
  BY <1>1, <1>2
<1> HIDE DEF S, T
<1>5. f \in Injection(S, T)
  <2>1. f \in [S -> T]
    BY <1>3
  <2>2. ASSUME NEW u \in S, NEW v \in S, f[u] = f[v] PROVE u = v
    <3>1. <<Target[u[1]], u[2]>> = <<Target[v[1]], v[2]>>
      BY <2>2
    <3> QED
      BY <3>1, <1>4
  <2> HIDE DEF f
  <2> QED
    BY <2>1, <2>2 DEF Injection, IsInjective
<1>6. IsFiniteSet(T)
  BY HoldersType, ConfigAssumption, UnitsFinite DEF T
<1>7. Cardinality(S) <= Cardinality(T)
  BY <1>5, <1>6, FS_Injection
<1> QED
  BY <1>7 DEF Use, S, T, up

\* The processes that were not sent SIGKILL never need more of a resource
\* together than resourcesInUse says, and that is never more than there is.
THEOREM PhysicallyFits == Spec => []PhysicalCapacity
<1>1. IInv => PhysicalCapacity
  <2> SUFFICES ASSUME IInv, NEW r \in Resources
               PROVE  /\ Use(InstanceRequirement,
                             {i \in Instances : proc[i] = "up"}, r) <= inUse[r]
                      /\ inUse[r] <= Amount[r]
    BY DEF PhysicalCapacity
  <2>1. /\ inUse[r] = Use(Requirement, Holders, r)
        /\ inUse[r] <= Amount[r]
    BY DEF IInv, LedgerInv, Conservation
  <2> QED
    BY <2>1, RunningFits
<1> QED
  BY InductiveInvariant, <1>1, PTL
-----------------------------------------------------------------------------
\* The status answers: what is shown of the services and their resources.
LEMMA StatusShown ==
  ASSUME NEW s \in Services
  PROVE  /\ Status(s) = "running" <=> running[s] # None /\ timer[running[s]] # "nil"
         /\ Status(s) = "starting" <=>
               running[s] # None /\ timer[running[s]] = "nil" /\ flag[running[s]]
         /\ Status(s) = "waiting_for_resources" <=>
               running[s] # None /\ timer[running[s]] = "nil" /\ ~flag[running[s]]
<1> DEFINE i == running[s]
<1>1. CASE i = None
  BY <1>1 DEF Status
<1>2. CASE i # None /\ timer[i] # "nil"
  BY <1>2 DEF Status, isReady
<1>3. CASE i # None /\ timer[i] = "nil"
  BY <1>3 DEF Status, isReady, isWaitingForResources
<1> QED
  BY <1>1, <1>2, <1>3

\* In every state of the services, the figures of an answer agree.
LEMMA FiguresOfAnswer ==
  ASSUME IInv PROVE FiguresAgree
<1> USE DEF IInv, ControlInv
<1> SUFFICES ASSUME NEW r \in Resources
    PROVE  LET u == Usage(r)
           IN  /\ Requires({s \in Services : Status(s) \in {"starting", "running"}}, r)
                      <= u.in_use
               /\ u.in_use <= Requires(DOMAIN u.usage_by_service, r)
               /\ u.free >= 0
  BY DEF FiguresAgree
<1> DEFINE shown == {s \in Services : Status(s) \in {"starting", "running"}}
           listed == {s \in Services : running[s] # None}
<1>1. shown \subseteq Holders
  <2> SUFFICES ASSUME NEW s \in Services, Status(s) \in {"starting", "running"}
               PROVE  running[s] # None /\ flag[running[s]]
    BY DEF Holders, Charged
  <2>1. running[s] \in Connections \/ running[s] = None
    BY DEF TypeInv, Instances
  <2> QED
    BY <2>1, StatusShown DEF StarterInv
<1>2. Holders \subseteq listed /\ IsFiniteSet(listed)
  BY ConfigAssumption, FS_Subset DEF Holders
<1>3. /\ Use(Requirement, shown, r) <= Use(Requirement, Holders, r)
      /\ Use(Requirement, Holders, r) <= Use(Requirement, listed, r)
  BY <1>1, <1>2, HoldersType, ConfigAssumption, UseMonotonic
<1>4. inUse[r] = Use(Requirement, Holders, r) /\ inUse[r] <= Amount[r]
  BY DEF LedgerInv, Conservation
<1>5. Amount[r] - inUse[r] >= 0
  BY <1>4, ConfigAssumption DEF TypeInv
<1>6. /\ Usage(r).in_use = inUse[r] /\ Usage(r).free = Amount[r] - inUse[r]
      /\ DOMAIN Usage(r).usage_by_service = listed
  BY DEF Usage, UsageByService
<1> HIDE DEF shown, listed, IInv, ControlInv
<1> QED
  BY <1>3, <1>4, <1>5, <1>6 DEF Requires, shown

\* A connection that was counted does not come again, and one that does not
\* wait any more never waits again.
LEMMA WaitsOnce ==
  ASSUME TypeInv, LocalsInv, [Next]_vars, NEW c \in Connections, pc[c] # "new"
  PROVE  pc'[c] # "new" /\ (Waiting(c)' => Waiting(c))
<1> DEFINE After == {"proxied", "uncount", "notify", "done"}
           Kept == pc'[c] # "new" /\ (pc[c] \in After => pc'[c] \in After)
<1> USE ThreadsAssumption DEF Threads, TypeInv, LocalsInv, StopCall, Move, Goto
<1>1. ASSUME NEW d \in Connections, ClientStep(d) \/ LockQueued(d) PROVE Kept
  BY <1>1 DEF ClientStep, Accept, CancelQueued, EndProxy, LockQueued
<1>2. ASSUME NEW d \in Connections, ProgramStep(d) PROVE Kept
  <2>1. ASSUME \/ Lookup(d) \/ TryLock(d) \/ Requeue(d) \/ Track(d)
               \/ DialOk(d) \/ DialFail(d) \/ Restart(d) \/ Register(d)
        PROVE  Kept
    BY <2>1 DEF Lookup, TryLock, Requeue, Track, DialOk, DialFail, Restart,
       Register, CallStop
  <2>2. ASSUME \/ ReserveOk(d) \/ ReserveMissing(d) \/ PickVictim(d)
               \/ Park(d) \/ Wake(d) \/ GiveUp(d) \/ Refused(d)
               \/ FlagReserved(d) \/ LaunchFail(d) \/ LaunchOk(d)
        PROVE  Kept
    BY <2>2 DEF ReserveOk, ReserveMissing, PickVictim, Park, Wake, GiveUp,
       Unpark, Refused, FlagReserved, LaunchFail, LaunchOk, CallStop
  <2>3. ASSUME \/ ProbeOk(d) \/ ProbeFail(d) \/ Unreserve(d) \/ Ready(d)
               \/ Attach(d) \/ Count(d) \/ Uncount(d) \/ Fail(d) \/ Notify(d)
        PROVE  Kept
    BY <2>3 DEF ProbeOk, ProbeFail, Unreserve, Ready, Attach, Count, Uncount,
       Fail, Notify, AfterDecrement, CallStop
  <2> QED
    BY <1>2, <2>1, <2>2, <2>3 DEF ProgramStep
<1>3. ASSUME NEW t \in Threads, StopLock(t) \/ StopStep(t) PROVE Kept
  <2>1. ASSUME ReturnFromStop(t), pc[t] \in StopCall PROVE Kept
    <3>1. then[t] \in {"reserve", "register", "unreserve", "off"}
      BY <2>1
    <3> QED
      BY <2>1, <3>1 DEF ReturnFromStop
  <2>2. CASE StopLock(t) \/ StopKill(t)
    BY <2>2 DEF StopLock, StopKill
  <2>3. CASE StopLookup(t)
    BY <2>1, <2>3 DEF StopLookup
  <2>4. CASE StopFinish(t) \/ StopAbandon(t)
    BY <2>1, <2>4 DEF StopFinish, StopAbandon
  <2> QED
    BY <1>3, <2>2, <2>3, <2>4 DEF StopStep
<1>4. ASSUME NEW t \in Timers, IdleStep(t) \/ \E i \in Instances : TimerFire(t, i)
      PROVE  Kept
  BY <1>4 DEF IdleStep, IdleDrop, IdleRearm, IdleStop, TimerFire, CallStop
<1>5. ASSUME UNCHANGED pc PROVE Kept
  BY <1>5
<1>6. Kept
  <2>1. CASE Next
    <3>1. ASSUME NEW i \in Instances, Exit(i) \/ MonitorClean(i) PROVE Kept
      BY <1>5, <3>1 DEF Exit, MonitorClean, threadVars
    <3> HIDE DEF Kept
    <3> QED
      BY <2>1, <1>1, <1>2, <1>3, <1>4, <3>1 DEF Next
  <2>2. CASE UNCHANGED vars
    BY <1>5, <2>2 DEF vars, threadVars
  <2> QED
    BY <2>1, <2>2
<1> QED
  BY <1>6 DEF Waiting

\* Whoever was counted has been counted since, and if he waits still, his
\* service was shown as waited for.
SnapshotInv ==
    snapshot # None =>
        /\ before \subseteq Connections
        /\ \A c \in before :
              pc[c] # "new" /\ (Waiting(c) => snapshot.waiting[Target[c]] # 0)

\* The inductive invariant of the status answers.
StatusIInv == IInv /\ SnapshotInv

\* The services go on beside a status request, which changes nothing of them.
LEMMA StatusStep ==
  ASSUME StatusIInv, [StatusNext]_<<vars, statusVars>>
  PROVE  StatusIInv'
<1>1. [Next]_vars
  BY DEF StatusNext, CopyCounters, Answer
<1>2. IInv'
  BY <1>1, IInvStep DEF StatusIInv
<1>3. SnapshotInv'
  <2>1. CASE CopyCounters
    <3>1. /\ snapshot' = [waiting |-> waiting, proxied |-> proxied]
          /\ before' = Counted /\ UNCHANGED pc
      BY <2>1 DEF CopyCounters, vars, threadVars
    <3>2. ASSUME NEW c \in Counted
          PROVE  pc[c] # "new" /\ (Waiting(c) => waiting[Target[c]] # 0)
      <4> DEFINE w == {d \in Connections : Target[d] = Target[c] /\ Waiting(d)}
      <4>1. c \in Connections /\ Target[c] \in Services
        BY ConfigAssumption DEF Counted
      <4>2. pc[c] # "new"
        BY DEF Counted, Waiting, Proxied
      <4>3. waiting[Target[c]] = Cardinality(w) /\ IsFiniteSet(w)
        BY <4>1, ThreadsAssumption, FS_Subset
           DEF StatusIInv, IInv, ControlInv, CountsMatch
      <4>4. Waiting(c) => w # {}
        BY <4>1
      <4> QED
        BY <4>2, <4>3, <4>4, FS_EmptySet
    <3> QED
      BY <3>1, <3>2 DEF SnapshotInv, Counted, Waiting
  <2>2. CASE Answer
    BY <2>2 DEF Answer, SnapshotInv
  <2>3. CASE UNCHANGED statusVars
    BY <1>1, <2>3, WaitsOnce
       DEF SnapshotInv, statusVars, StatusIInv, IInv, ControlInv
  <2> QED
    BY <2>1, <2>2, <2>3 DEF StatusNext
<1> QED
  BY <1>2, <1>3 DEF StatusIInv

\* Status answers disturb nothing: the invariant of the services holds beside
\* them, and that of the counters that were copied.
THEOREM StatusInvariant == StatusSpec => []StatusIInv
<1>1. StatusInit => StatusIInv
  BY InitIInv DEF StatusInit, StatusIInv, SnapshotInv
<1> QED
  BY <1>1, StatusStep, PTL DEF StatusSpec

\* The figures of every answer agree with each other and with the states of
\* the services in it.
THEOREM AnswersAgree == StatusSpec => []FiguresAgree
<1>1. StatusIInv => FiguresAgree
  BY FiguresOfAnswer DEF StatusIInv
<1> QED
  BY StatusInvariant, <1>1, PTL

\* A service that is shown as starting with nobody waiting for it is started
\* for a client that came after the counters were copied.
THEOREM StartsForAClient == StatusSpec => []StartHasItsClient
<1>1. StatusIInv => StartHasItsClient
  <2> SUFFICES ASSUME StatusIInv, snapshot # None, NEW s \in Services \ Unkillable,
                      Status(s) \in {"waiting_for_resources", "starting"},
                      Connected(s).waiting_connections = 0
               PROVE  \E c \in Counted \ before : Target[c] = s
    BY DEF StartHasItsClient
  <2> USE DEF StatusIInv, IInv, ControlInv
  <2> DEFINE i == running[s]
  <2>1. i # None /\ timer[i] = "nil"
    BY StatusShown
  <2>2. i \in Connections /\ Target[i] = s /\ status[i] = "live"
    BY <2>1, RunningLive DEF Instances
  <2>3. StarterAt(i)
    BY <2>1, <2>2 DEF StarterInv, StartOf
  <2>4. Waiting(i)
    BY <2>3 DEF StarterAt, HoldsOwn, Reserving, StopsOwn, Starting, StopCall,
       Waiting
  <2>5. i \in Counted
    BY <2>2, <2>4 DEF Counted
  <2>6. i \notin before
    BY <2>2, <2>4 DEF SnapshotInv, Connected
  <2> QED
    BY <2>2, <2>5, <2>6
<1> QED
  BY StatusInvariant, <1>1, PTL
==============================================================================
