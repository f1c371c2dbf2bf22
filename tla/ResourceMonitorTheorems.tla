----------------------- MODULE ResourceMonitorTheorems -----------------------
(***************************************************************************)
(* What is proved of ResourceMonitor for every set of services and         *)
(* measured resources, every requirement and every usage.                  *)
(***************************************************************************)
EXTENDS ResourceMonitorProperties, ResourceUnitsTheorems, TLAPS

\* A check that is waited for has been announced, or is going to come.
CheckInv ==
    \A s \in Services :
        place[s] = "await" =>
            \A r \in pending[s] :
                /\ first[r][s] # "none"
                /\ first[r][s] = "full" \/ Attended(r)

\* The attempt of s trusts the cached amounts.
Trusts(s) ==
    place[s] \in {"pick", "parked"} \/ (place[s] = "evaluate" /\ ~recheck[s])

\* Whoever trusts the cache has had a check of each resource, and whoever waits
\* for its first checks has had those it received or could receive.
AnswerInv ==
    \A s \in Services :
        /\ Trusts(s) => Needs(s) \subseteq answered[s]
        /\ place[s] = "await" =>
              \A r \in Needs(s) :
                  r \in answered[s] \/ (r \in pending[s] /\ first[r][s] # "full")

\* The services whose reservation has not been given back.
Holding == {s \in Services : place[s] \in {"granted", "loaded", "failing"}}

ReservedInv == Balanced(reserved, Requirement, Holding, Resources)

\* The inductive invariant.
IInv == Types /\ NoOrphanChannel /\ CheckInv /\ AnswerInv /\ ReservedInv
-----------------------------------------------------------------------------
\* What a CheckCommand measures is a number.
LEMMA FreeType ==
  ASSUME Types, NEW r \in Resources
  PROVE  Free(r) \in Int
<1>1. InMemory \in SUBSET Services /\ IsFiniteSet(InMemory)
  BY MonitorAssumption, FS_Subset DEF InMemory
<1>2. Use(Usage, InMemory, r) \in Nat
  BY <1>1, MonitorAssumption, UseType
<1>3. Capacity[r] \in Nat /\ other[r] \in Nat
  BY MonitorAssumption DEF Types
<1> QED
  BY <1>2, <1>3 DEF Free

\* Every step keeps the types.
LEMMA TypesKept ==
  ASSUME Types, Next
  PROVE  Types'
<1> USE MonitorAssumption DEF Types, Signals, Values, Places
<1>1. ASSUME NEW q \in Resources, Tick(q) PROVE Types'
  BY <1>1 DEF Tick, waiterVars, channelVars, monitorVars
<1>2. ASSUME NEW q \in Resources, Poked(q) PROVE Types'
  BY <1>2 DEF Poked, waiterVars, channelVars, monitorVars
<1>3. ASSUME NEW q \in Resources, Measure(q) PROVE Types'
  <2>1. Free(q) \in Int
    BY FreeType
  <2> QED
    BY <1>3, <2>1 DEF Measure, waiterVars, channelVars
<1>4. ASSUME NEW q \in Resources, CheckFails(q) PROVE Types'
  BY <1>4 DEF CheckFails, Rearm, waiterVars, channelVars, monitorVars
<1>5. ASSUME NEW q \in Resources, Store(q) PROVE Types'
  BY <1>5 DEF Store, waiterVars, channelVars, monitorVars
<1>6. ASSUME NEW q \in Resources, Publish(q) PROVE Types'
  BY <1>6 DEF Publish, Rearm, Signalled, waiterVars, channelVars, monitorVars
<1>7. ASSUME NEW q \in Resources, Environment(q) PROVE Types'
  BY <1>7 DEF Environment, waiterVars, channelVars, monitorVars
<1>8. ASSUME NEW t \in Services, Begin(t) PROVE Types'
  BY <1>8 DEF Begin, Go, Distrust, waiterVars, channelVars, monitorVars
<1>9. ASSUME NEW t \in Services, Request(t) PROVE Types'
  BY <1>9 DEF Request, Go, Unpause, Needs, waiterVars, channelVars,
     monitorVars
<1>10. ASSUME NEW t \in Services, Receive(t) PROVE Types'
  BY <1>10 DEF Receive, waiterVars, channelVars, monitorVars
<1>11. ASSUME NEW t \in Services, AllReceived(t) PROVE Types'
  BY <1>11 DEF AllReceived, Go, Unregister, Distrust, waiterVars, channelVars,
     monitorVars
<1>12. ASSUME NEW t \in Services, GiveUpChecks(t) PROVE Types'
  BY <1>12 DEF GiveUpChecks, Go, Unregister, Return, waiterVars, channelVars,
     monitorVars
<1>13. ASSUME NEW t \in Services, Reserve(t) PROVE Types'
  BY <1>13 DEF Reserve, Go, Plus, Return, waiterVars, channelVars, monitorVars
<1>14. ASSUME NEW t \in Services, NotEnough(t) PROVE Types'
  BY <1>14 DEF NotEnough, Go, Unregister, Short, Needs, waiterVars,
     channelVars, monitorVars
<1>15. ASSUME NEW t \in Services, PickVictim(t) PROVE Types'
  <2>1. PICK v \in Services :
           /\ place[t] = "pick" /\ place[v] = "ready"
           /\ place' = [place EXCEPT ![t] = "evicting", ![v] = "stopping"]
           /\ victim' = [victim EXCEPT ![t] = v]
    BY <1>15 DEF PickVictim
  <2> QED
    BY <1>15, <2>1 DEF PickVictim, channelVars, monitorVars
<1>16. ASSUME NEW t \in Services, Park(t) PROVE Types'
  BY <1>16 DEF Park, Go, waiterVars, channelVars, monitorVars
<1>17. ASSUME NEW t \in Services, Wake(t) PROVE Types'
  BY <1>17 DEF Wake, Unpark, Go, Distrust, waiterVars, channelVars,
     monitorVars
<1>18. ASSUME NEW t \in Services, GiveUp(t) PROVE Types'
  BY <1>18 DEF GiveUp, Unpark, Go, Return, waiterVars, channelVars,
     monitorVars
<1>19. ASSUME NEW t \in Services, Refused(t) PROVE Types'
  BY <1>19 DEF Refused, Go, Broadcast, Signalled, waiterVars, channelVars,
     monitorVars
<1>20. ASSUME NEW t \in Services, Load(t) PROVE Types'
  BY <1>20 DEF Load, Go, waiterVars, channelVars, monitorVars
<1>21. ASSUME NEW t \in Services, Ready(t) PROVE Types'
  BY <1>21 DEF Ready, Go, Minus, waiterVars, channelVars, monitorVars
<1>22. ASSUME NEW t \in Services, StartFails(t) PROVE Types'
  BY <1>22 DEF StartFails, Broadcast, Signalled, waiterVars, channelVars,
     monitorVars
<1>23. ASSUME NEW t \in Services, Unreserve(t) PROVE Types'
  BY <1>23 DEF Unreserve, Go, Minus, waiterVars, channelVars, monitorVars
<1>24. ASSUME NEW t \in Services, Exit(t) PROVE Types'
  BY <1>24 DEF Exit, waiterVars, channelVars, monitorVars
<1>25. ASSUME NEW t \in Services, Released(t) PROVE Types'
  BY <1>25 DEF Released, Broadcast, Signalled, waiterVars, channelVars,
     monitorVars
<1>26. ASSUME NEW t \in Services, LastLeaves(t) PROVE Types'
  BY <1>26 DEF LastLeaves, Broadcast, Signalled, waiterVars, channelVars,
     monitorVars
<1>27. ASSUME NEW t \in Services, LaunchFails(t) PROVE Types'
  BY <1>27 DEF LaunchFails, Go, Minus, Broadcast, Signalled, waiterVars,
     channelVars, monitorVars
<1>28. CASE UNCHANGED vars
  BY <1>28 DEF vars, waiterVars, channelVars, monitorVars
<1> QED
  BY <1>1, <1>2, <1>3, <1>4, <1>5, <1>6, <1>7, <1>8, <1>9, <1>10, <1>11,
     <1>12, <1>13, <1>14, <1>15, <1>16, <1>17, <1>18, <1>19, <1>20, <1>21,
     <1>22, <1>23, <1>24, <1>25, <1>26, <1>27, <1>28 DEF Next, CheckStep,
     MonitorStep, ReserveStep, GivingUp

\* No step leaves a channel registered behind.
LEMMA ChannelsKept ==
  ASSUME Types, NoOrphanChannel, Next
  PROVE  NoOrphanChannel'
<1> USE DEF Types, NoOrphanChannel
<1>1. ASSUME NEW q \in Resources, Tick(q) PROVE NoOrphanChannel'
  BY <1>1 DEF Tick, waiterVars, channelVars, monitorVars
<1>2. ASSUME NEW q \in Resources, Poked(q) PROVE NoOrphanChannel'
  BY <1>2 DEF Poked, waiterVars, channelVars, monitorVars
<1>3. ASSUME NEW q \in Resources, Measure(q) PROVE NoOrphanChannel'
  BY <1>3 DEF Measure, waiterVars, channelVars, monitorVars
<1>4. ASSUME NEW q \in Resources, CheckFails(q) PROVE NoOrphanChannel'
  BY <1>4 DEF CheckFails, Rearm, waiterVars, channelVars, monitorVars
<1>5. ASSUME NEW q \in Resources, Store(q) PROVE NoOrphanChannel'
  BY <1>5 DEF Store, waiterVars, channelVars, monitorVars
<1>6. ASSUME NEW q \in Resources, Publish(q) PROVE NoOrphanChannel'
  BY <1>6 DEF Publish, Rearm, Signalled, waiterVars, channelVars, monitorVars
<1>7. ASSUME NEW q \in Resources, Environment(q) PROVE NoOrphanChannel'
  BY <1>7 DEF Environment, waiterVars, channelVars, monitorVars
<1>8. ASSUME NEW t \in Services, Begin(t) PROVE NoOrphanChannel'
  BY <1>8 DEF Begin, Go, Distrust, waiterVars, channelVars, monitorVars
<1>9. ASSUME NEW t \in Services, Request(t) PROVE NoOrphanChannel'
  BY <1>9 DEF Request, Go, Unpause, Needs, waiterVars, channelVars,
     monitorVars
<1>10. ASSUME NEW t \in Services, Receive(t) PROVE NoOrphanChannel'
  BY <1>10 DEF Receive, waiterVars, channelVars, monitorVars
<1>11. ASSUME NEW t \in Services, AllReceived(t) PROVE NoOrphanChannel'
  BY <1>11 DEF AllReceived, Go, Unregister, Distrust, waiterVars, channelVars,
     monitorVars
<1>12. ASSUME NEW t \in Services, GiveUpChecks(t) PROVE NoOrphanChannel'
  BY <1>12 DEF GiveUpChecks, Go, Unregister, Return, waiterVars, channelVars,
     monitorVars
<1>13. ASSUME NEW t \in Services, Reserve(t) PROVE NoOrphanChannel'
  BY <1>13 DEF Reserve, Go, Plus, Return, waiterVars, channelVars, monitorVars
<1>14. ASSUME NEW t \in Services, NotEnough(t) PROVE NoOrphanChannel'
  BY <1>14 DEF NotEnough, Go, Unregister, Short, Needs, waiterVars,
     channelVars, monitorVars
<1>15. ASSUME NEW t \in Services, PickVictim(t) PROVE NoOrphanChannel'
  BY <1>15 DEF PickVictim, waiterVars, channelVars, monitorVars
<1>16. ASSUME NEW t \in Services, Park(t) PROVE NoOrphanChannel'
  BY <1>16 DEF Park, Go, waiterVars, channelVars, monitorVars
<1>17. ASSUME NEW t \in Services, Wake(t) PROVE NoOrphanChannel'
  BY <1>17 DEF Wake, Unpark, Go, Distrust, waiterVars, channelVars,
     monitorVars
<1>18. ASSUME NEW t \in Services, GiveUp(t) PROVE NoOrphanChannel'
  BY <1>18 DEF GiveUp, Unpark, Go, Return, waiterVars, channelVars,
     monitorVars
<1>19. ASSUME NEW t \in Services, Refused(t) PROVE NoOrphanChannel'
  BY <1>19 DEF Refused, Go, Broadcast, Signalled, waiterVars, channelVars,
     monitorVars
<1>20. ASSUME NEW t \in Services, Load(t) PROVE NoOrphanChannel'
  BY <1>20 DEF Load, Go, waiterVars, channelVars, monitorVars
<1>21. ASSUME NEW t \in Services, Ready(t) PROVE NoOrphanChannel'
  BY <1>21 DEF Ready, Go, Minus, waiterVars, channelVars, monitorVars
<1>22. ASSUME NEW t \in Services, StartFails(t) PROVE NoOrphanChannel'
  BY <1>22 DEF StartFails, Broadcast, Signalled, waiterVars, channelVars,
     monitorVars
<1>23. ASSUME NEW t \in Services, Unreserve(t) PROVE NoOrphanChannel'
  BY <1>23 DEF Unreserve, Go, Minus, waiterVars, channelVars, monitorVars
<1>24. ASSUME NEW t \in Services, Exit(t) PROVE NoOrphanChannel'
  BY <1>24 DEF Exit, waiterVars, channelVars, monitorVars
<1>25. ASSUME NEW t \in Services, Released(t) PROVE NoOrphanChannel'
  BY <1>25 DEF Released, Broadcast, Signalled, waiterVars, channelVars,
     monitorVars
<1>26. ASSUME NEW t \in Services, LastLeaves(t) PROVE NoOrphanChannel'
  BY <1>26 DEF LastLeaves, Broadcast, Signalled, waiterVars, channelVars,
     monitorVars
<1>27. ASSUME NEW t \in Services, LaunchFails(t) PROVE NoOrphanChannel'
  BY <1>27 DEF LaunchFails, Go, Minus, Broadcast, Signalled, waiterVars,
     channelVars, monitorVars
<1>28. CASE UNCHANGED vars
  BY <1>28 DEF vars, waiterVars, channelVars, monitorVars
<1> QED
  BY <1>1, <1>2, <1>3, <1>4, <1>5, <1>6, <1>7, <1>8, <1>9, <1>10, <1>11,
     <1>12, <1>13, <1>14, <1>15, <1>16, <1>17, <1>18, <1>19, <1>20, <1>21,
     <1>22, <1>23, <1>24, <1>25, <1>26, <1>27, <1>28 DEF Next, CheckStep,
     MonitorStep, ReserveStep, GivingUp

\* Every step keeps a check coming for those who wait for it.
LEMMA ChecksKept ==
  ASSUME Types, CheckInv, Next
  PROVE  CheckInv'
<1> USE DEF Types, CheckInv, Attended
<1>1. ASSUME NEW q \in Resources, Tick(q) PROVE CheckInv'
  BY <1>1 DEF Tick, waiterVars, channelVars, monitorVars
<1>2. ASSUME NEW q \in Resources, Poked(q) PROVE CheckInv'
  BY <1>2 DEF Poked, waiterVars, channelVars, monitorVars
<1>3. ASSUME NEW q \in Resources, Measure(q) PROVE CheckInv'
  BY <1>3 DEF Measure, waiterVars, channelVars, monitorVars
<1>4. ASSUME NEW q \in Resources, CheckFails(q) PROVE CheckInv'
  <2>1. ASSUME NEW s \in Services, place[s] = "await", NEW r \in pending[s]
        PROVE  /\ first[r][s] # "none"
               /\ first[r][s] = "full" \/ Attended(r)'
    <3>1. r \in Resources /\ first[r][s] # "none"
      BY <2>1
    <3>2. CASE r = q
      <4>1. HasWaiters(q)
        BY <3>1, <3>2 DEF HasWaiters
      <4> QED
        BY <1>4, <3>1, <3>2, <4>1 DEF CheckFails, Rearm
    <3>3. CASE r # q
      BY <1>4, <2>1, <3>1, <3>3 DEF CheckFails, Rearm
    <3> QED
      BY <3>2, <3>3
  <2> QED
    BY <1>4, <2>1 DEF CheckFails, waiterVars, channelVars
<1>5. ASSUME NEW q \in Resources, Store(q) PROVE CheckInv'
  BY <1>5 DEF Store, waiterVars, channelVars, monitorVars
<1>6. ASSUME NEW q \in Resources, Publish(q) PROVE CheckInv'
  <2>1. ASSUME NEW s \in Services, place[s] = "await", NEW r \in pending[s]
        PROVE  /\ first'[r][s] # "none"
               /\ first'[r][s] = "full" \/ Attended(r)'
    <3>1. r \in Resources /\ first[r][s] \in {"empty", "full"}
      BY <2>1 DEF Signals
    <3>2. CASE r = q
      BY <1>6, <3>1, <3>2 DEF Publish
    <3>3. CASE r # q
      BY <1>6, <2>1, <3>1, <3>3 DEF Publish, Rearm
    <3> QED
      BY <3>2, <3>3
  <2> QED
    BY <1>6, <2>1 DEF Publish
<1>7. ASSUME NEW q \in Resources, Environment(q) PROVE CheckInv'
  BY <1>7 DEF Environment, waiterVars, channelVars, monitorVars
<1>8. ASSUME NEW t \in Services, Begin(t) PROVE CheckInv'
  BY <1>8 DEF Begin, Go, Distrust, waiterVars, channelVars, monitorVars
<1>9. ASSUME NEW t \in Services, Request(t) PROVE CheckInv'
  BY <1>9 DEF Request, Go, Unpause, Needs, waiterVars, channelVars,
     monitorVars
<1>10. ASSUME NEW t \in Services, Receive(t) PROVE CheckInv'
  BY <1>10 DEF Receive, waiterVars, channelVars, monitorVars
<1>11. ASSUME NEW t \in Services, AllReceived(t) PROVE CheckInv'
  BY <1>11 DEF AllReceived, Go, Unregister, Distrust, waiterVars, channelVars,
     monitorVars
<1>12. ASSUME NEW t \in Services, GiveUpChecks(t) PROVE CheckInv'
  BY <1>12 DEF GiveUpChecks, Go, Unregister, Return, waiterVars, channelVars,
     monitorVars
<1>13. ASSUME NEW t \in Services, Reserve(t) PROVE CheckInv'
  BY <1>13 DEF Reserve, Go, Plus, Return, waiterVars, channelVars, monitorVars
<1>14. ASSUME NEW t \in Services, NotEnough(t) PROVE CheckInv'
  BY <1>14 DEF NotEnough, Go, Unregister, Short, Needs, waiterVars,
     channelVars, monitorVars
<1>15. ASSUME NEW t \in Services, PickVictim(t) PROVE CheckInv'
  <2>1. UNCHANGED <<pending, first, monitor, timer, poke>>
    BY <1>15 DEF PickVictim, channelVars, monitorVars
  <2>2. PICK v \in Services :
           place' = [place EXCEPT ![t] = "evicting", ![v] = "stopping"]
    BY <1>15 DEF PickVictim
  <2>3. \A s \in Services : place'[s] = "await" => place[s] = "await"
    BY <2>2
  <2> QED
    BY <2>1, <2>3
<1>16. ASSUME NEW t \in Services, Park(t) PROVE CheckInv'
  BY <1>16 DEF Park, Go, waiterVars, channelVars, monitorVars
<1>17. ASSUME NEW t \in Services, Wake(t) PROVE CheckInv'
  BY <1>17 DEF Wake, Unpark, Go, Distrust, waiterVars, channelVars,
     monitorVars
<1>18. ASSUME NEW t \in Services, GiveUp(t) PROVE CheckInv'
  BY <1>18 DEF GiveUp, Unpark, Go, Return, waiterVars, channelVars,
     monitorVars
<1>19. ASSUME NEW t \in Services, Refused(t) PROVE CheckInv'
  BY <1>19 DEF Refused, Go, Broadcast, Signalled, waiterVars, channelVars,
     monitorVars
<1>20. ASSUME NEW t \in Services, Load(t) PROVE CheckInv'
  BY <1>20 DEF Load, Go, waiterVars, channelVars, monitorVars
<1>21. ASSUME NEW t \in Services, Ready(t) PROVE CheckInv'
  BY <1>21 DEF Ready, Go, Minus, waiterVars, channelVars, monitorVars
<1>22. ASSUME NEW t \in Services, StartFails(t) PROVE CheckInv'
  BY <1>22 DEF StartFails, Broadcast, Signalled, waiterVars, channelVars,
     monitorVars
<1>23. ASSUME NEW t \in Services, Unreserve(t) PROVE CheckInv'
  BY <1>23 DEF Unreserve, Go, Minus, waiterVars, channelVars, monitorVars
<1>24. ASSUME NEW t \in Services, Exit(t) PROVE CheckInv'
  BY <1>24 DEF Exit, waiterVars, channelVars, monitorVars
<1>25. ASSUME NEW t \in Services, Released(t) PROVE CheckInv'
  BY <1>25 DEF Released, Broadcast, Signalled, waiterVars, channelVars,
     monitorVars
<1>26. ASSUME NEW t \in Services, LastLeaves(t) PROVE CheckInv'
  BY <1>26 DEF LastLeaves, Broadcast, Signalled, waiterVars, channelVars,
     monitorVars
<1>27. ASSUME NEW t \in Services, LaunchFails(t) PROVE CheckInv'
  BY <1>27 DEF LaunchFails, Go, Minus, Broadcast, Signalled, waiterVars,
     channelVars, monitorVars
<1>28. CASE UNCHANGED vars
  BY <1>28 DEF vars, waiterVars, channelVars, monitorVars
<1> QED
  BY <1>1, <1>2, <1>3, <1>4, <1>5, <1>6, <1>7, <1>8, <1>9, <1>10, <1>11,
     <1>12, <1>13, <1>14, <1>15, <1>16, <1>17, <1>18, <1>19, <1>20, <1>21,
     <1>22, <1>23, <1>24, <1>25, <1>26, <1>27, <1>28 DEF Next, CheckStep,
     MonitorStep, ReserveStep, GivingUp

\* Every step keeps track of the checks that were announced.
LEMMA AnswersKept ==
  ASSUME Types, NoOrphanChannel, AnswerInv, Next
  PROVE  AnswerInv'
<1> USE DEF Types, AnswerInv, Trusts
<1>1. ASSUME NEW q \in Resources, Tick(q) PROVE AnswerInv'
  BY <1>1 DEF Tick, waiterVars, channelVars, monitorVars
<1>2. ASSUME NEW q \in Resources, Poked(q) PROVE AnswerInv'
  BY <1>2 DEF Poked, waiterVars, channelVars, monitorVars
<1>3. ASSUME NEW q \in Resources, Measure(q) PROVE AnswerInv'
  BY <1>3 DEF Measure, waiterVars, channelVars, monitorVars
<1>4. ASSUME NEW q \in Resources, CheckFails(q) PROVE AnswerInv'
  BY <1>4 DEF CheckFails, Rearm, waiterVars, channelVars, monitorVars
<1>5. ASSUME NEW q \in Resources, Store(q) PROVE AnswerInv'
  BY <1>5 DEF Store, waiterVars, channelVars, monitorVars
<1>6. ASSUME NEW q \in Resources, Publish(q) PROVE AnswerInv'
  <2>1. ASSUME NEW s \in Services
        PROVE  /\ answered[s] \subseteq answered'[s]
               /\ place[s] = "await" => q \in answered'[s]
               /\ \A r \in Resources \ {q} : first'[r][s] = first[r][s]
    BY <1>6 DEF Publish, Waits
  <2> QED
    BY <1>6, <2>1 DEF Publish, Needs
<1>7. ASSUME NEW q \in Resources, Environment(q) PROVE AnswerInv'
  BY <1>7 DEF Environment, waiterVars, channelVars, monitorVars
<1>8. ASSUME NEW t \in Services, Begin(t) PROVE AnswerInv'
  BY <1>8 DEF Begin, Go, Distrust, waiterVars, channelVars, monitorVars
<1>9. ASSUME NEW t \in Services, Request(t) PROVE AnswerInv'
  BY <1>9 DEF Request, Go, Unpause, Needs, waiterVars, channelVars,
     monitorVars
<1>10. ASSUME NEW t \in Services, Receive(t) PROVE AnswerInv'
  BY <1>10 DEF Receive, waiterVars, channelVars, monitorVars
<1>11. ASSUME NEW t \in Services, AllReceived(t) PROVE AnswerInv'
  BY <1>11 DEF AllReceived, Go, Unregister, Distrust, waiterVars, channelVars,
     monitorVars
<1>12. ASSUME NEW t \in Services, GiveUpChecks(t) PROVE AnswerInv'
  BY <1>12 DEF GiveUpChecks, Go, Unregister, Return, waiterVars, channelVars,
     monitorVars
<1>13. ASSUME NEW t \in Services, Reserve(t) PROVE AnswerInv'
  BY <1>13 DEF Reserve, Go, Plus, Return, waiterVars, channelVars, monitorVars
<1>14. ASSUME NEW t \in Services, NotEnough(t) PROVE AnswerInv'
  BY <1>14 DEF NotEnough, Go, Unregister, Short, Needs, waiterVars,
     channelVars, monitorVars
<1>15. ASSUME NEW t \in Services, PickVictim(t) PROVE AnswerInv'
  <2>1. PICK v \in Services :
           /\ place[t] = "pick" /\ place[v] = "ready"
           /\ place' = [place EXCEPT ![t] = "evicting", ![v] = "stopping"]
           /\ victim' = [victim EXCEPT ![t] = v]
    BY <1>15 DEF PickVictim
  <2> QED
    BY <1>15, <2>1 DEF PickVictim, channelVars, monitorVars
<1>16. ASSUME NEW t \in Services, Park(t) PROVE AnswerInv'
  BY <1>16 DEF Park, Go, waiterVars, channelVars, monitorVars
<1>17. ASSUME NEW t \in Services, Wake(t) PROVE AnswerInv'
  BY <1>17 DEF Wake, Unpark, Go, Distrust, waiterVars, channelVars,
     monitorVars
<1>18. ASSUME NEW t \in Services, GiveUp(t) PROVE AnswerInv'
  BY <1>18 DEF GiveUp, Unpark, Go, Return, waiterVars, channelVars,
     monitorVars
<1>19. ASSUME NEW t \in Services, Refused(t) PROVE AnswerInv'
  BY <1>19 DEF Refused, Go, Broadcast, Signalled, waiterVars, channelVars,
     monitorVars
<1>20. ASSUME NEW t \in Services, Load(t) PROVE AnswerInv'
  BY <1>20 DEF Load, Go, waiterVars, channelVars, monitorVars
<1>21. ASSUME NEW t \in Services, Ready(t) PROVE AnswerInv'
  BY <1>21 DEF Ready, Go, Minus, waiterVars, channelVars, monitorVars
<1>22. ASSUME NEW t \in Services, StartFails(t) PROVE AnswerInv'
  BY <1>22 DEF StartFails, Broadcast, Signalled, waiterVars, channelVars,
     monitorVars
<1>23. ASSUME NEW t \in Services, Unreserve(t) PROVE AnswerInv'
  BY <1>23 DEF Unreserve, Go, Minus, waiterVars, channelVars, monitorVars
<1>24. ASSUME NEW t \in Services, Exit(t) PROVE AnswerInv'
  BY <1>24 DEF Exit, waiterVars, channelVars, monitorVars
<1>25. ASSUME NEW t \in Services, Released(t) PROVE AnswerInv'
  BY <1>25 DEF Released, Broadcast, Signalled, waiterVars, channelVars,
     monitorVars
<1>26. ASSUME NEW t \in Services, LastLeaves(t) PROVE AnswerInv'
  BY <1>26 DEF LastLeaves, Broadcast, Signalled, waiterVars, channelVars,
     monitorVars
<1>27. ASSUME NEW t \in Services, LaunchFails(t) PROVE AnswerInv'
  BY <1>27 DEF LaunchFails, Go, Minus, Broadcast, Signalled, waiterVars,
     channelVars, monitorVars
<1>28. CASE UNCHANGED vars
  BY <1>28 DEF vars, waiterVars, channelVars, monitorVars
<1> QED
  BY <1>1, <1>2, <1>3, <1>4, <1>5, <1>6, <1>7, <1>8, <1>9, <1>10, <1>11,
     <1>12, <1>13, <1>14, <1>15, <1>16, <1>17, <1>18, <1>19, <1>20, <1>21,
     <1>22, <1>23, <1>24, <1>25, <1>26, <1>27, <1>28 DEF Next, CheckStep,
     MonitorStep, ReserveStep, GivingUp

-----------------------------------------------------------------------------
\* Who holds a reservation is a finite set of services.
LEMMA HoldingType == Holding \in SUBSET Services /\ IsFiniteSet(Holding)
BY MonitorAssumption, FS_Subset DEF Holding

\* A step that moves no service in or out of Holding and leaves the counter
\* alone keeps the books.
LEMMA HoldingKept ==
  ASSUME ReservedInv, Holding' = Holding, UNCHANGED reserved
  PROVE  ReservedInv'
BY DEF ReservedInv, Balanced

\* A reservation that is granted is added once.
LEMMA Taken ==
  ASSUME Types, ReservedInv, NEW s \in Services, s \notin Holding,
         reserved' = Plus(s), Holding' = Holding \cup {s}
  PROVE  ReservedInv'
<1>1. Holding \in SUBSET Services /\ IsFiniteSet(Holding)
  BY HoldingType
<1>2. /\ Requirement \in [Services -> [Resources -> Nat]]
      /\ reserved \in [Resources -> Int]
  BY MonitorAssumption DEF Types
<1>3. Balanced(reserved, Requirement, Holding, Resources)
  BY DEF ReservedInv
<1>4. Balanced(Plus(s), Requirement, Holding \cup {s}, Resources)
  BY <1>1, <1>2, <1>3, BalancedTake DEF Plus
<1> QED
  BY <1>4 DEF ReservedInv

\* A start that ends gives its reservation back once.
LEMMA GivenBack ==
  ASSUME Types, ReservedInv, NEW s \in Holding, reserved' = Minus(s),
         Holding' = Holding \ {s}
  PROVE  ReservedInv'
<1>1. /\ Holding \in SUBSET Services /\ IsFiniteSet(Holding)
      /\ s \in Services
  BY HoldingType
<1>2. /\ Requirement \in [Services -> [Resources -> Nat]]
      /\ reserved \in [Resources -> Int]
  BY MonitorAssumption DEF Types
<1>3. Balanced(reserved, Requirement, Holding, Resources)
  BY DEF ReservedInv
<1>4. Balanced(Minus(s), Requirement, Holding \ {s}, Resources)
  BY <1>1, <1>2, <1>3, BalancedGive DEF Minus
<1> QED
  BY <1>4 DEF ReservedInv

\* Every step keeps resourcesReserved equal to what the starts under way took.
LEMMA BooksKept ==
  ASSUME Types, ReservedInv, Next
  PROVE  ReservedInv'
<1> USE DEF Types
<1>1. ASSUME NEW q \in Resources, Tick(q) PROVE ReservedInv'
  BY <1>1, HoldingKept DEF Tick, Holding, waiterVars
<1>2. ASSUME NEW q \in Resources, Poked(q) PROVE ReservedInv'
  BY <1>2, HoldingKept DEF Poked, Holding, waiterVars
<1>3. ASSUME NEW q \in Resources, Measure(q) PROVE ReservedInv'
  BY <1>3, HoldingKept DEF Measure, Holding, waiterVars
<1>4. ASSUME NEW q \in Resources, CheckFails(q) PROVE ReservedInv'
  BY <1>4, HoldingKept DEF CheckFails, Holding, waiterVars
<1>5. ASSUME NEW q \in Resources, Store(q) PROVE ReservedInv'
  BY <1>5, HoldingKept DEF Store, Holding, waiterVars
<1>6. ASSUME NEW q \in Resources, Publish(q) PROVE ReservedInv'
  BY <1>6, HoldingKept DEF Publish, Holding, waiterVars
<1>7. ASSUME NEW q \in Resources, Environment(q) PROVE ReservedInv'
  BY <1>7, HoldingKept DEF Environment, Holding, waiterVars
<1>8. ASSUME NEW t \in Services, Begin(t) PROVE ReservedInv'
  <2>1. Holding' = Holding
    BY <1>8 DEF Begin, Go, Holding
  <2> QED
    BY <1>8, <2>1, HoldingKept DEF Begin, Go
<1>9. ASSUME NEW t \in Services, Request(t) PROVE ReservedInv'
  <2>1. Holding' = Holding
    BY <1>9 DEF Request, Go, Holding
  <2> QED
    BY <1>9, <2>1, HoldingKept DEF Request, Go
<1>10. ASSUME NEW t \in Services, Receive(t) PROVE ReservedInv'
  BY <1>10, HoldingKept DEF Receive, Holding, waiterVars
<1>11. ASSUME NEW t \in Services, AllReceived(t) PROVE ReservedInv'
  <2>1. Holding' = Holding
    BY <1>11 DEF AllReceived, Go, Holding
  <2> QED
    BY <1>11, <2>1, HoldingKept DEF AllReceived, Go
<1>12. ASSUME NEW t \in Services, GiveUpChecks(t) PROVE ReservedInv'
  <2>1. Holding' = Holding
    BY <1>12 DEF GiveUpChecks, Go, Holding
  <2> QED
    BY <1>12, <2>1, HoldingKept DEF GiveUpChecks, Go
<1>13. ASSUME NEW t \in Services, Reserve(t) PROVE ReservedInv'
  <2>1. Holding' = Holding \cup {t} /\ t \notin Holding /\ reserved' = Plus(t)
    BY <1>13 DEF Reserve, Go, Holding
  <2> QED
    BY <2>1, Taken
<1>14. ASSUME NEW t \in Services, NotEnough(t) PROVE ReservedInv'
  <2>1. Holding' = Holding
    BY <1>14 DEF NotEnough, Go, Holding
  <2> QED
    BY <1>14, <2>1, HoldingKept DEF NotEnough, Go
<1>15. ASSUME NEW t \in Services, PickVictim(t) PROVE ReservedInv'
  <2>1. PICK v \in Services :
           /\ place[t] = "pick" /\ place[v] = "ready"
           /\ place' = [place EXCEPT ![t] = "evicting", ![v] = "stopping"]
    BY <1>15 DEF PickVictim
  <2>2. Holding' = Holding
    BY <2>1 DEF Holding
  <2> QED
    BY <1>15, <2>2, HoldingKept DEF PickVictim
<1>16. ASSUME NEW t \in Services, Park(t) PROVE ReservedInv'
  <2>1. Holding' = Holding
    BY <1>16 DEF Park, Go, Holding
  <2> QED
    BY <1>16, <2>1, HoldingKept DEF Park, Go
<1>17. ASSUME NEW t \in Services, Wake(t) PROVE ReservedInv'
  <2>1. Holding' = Holding
    BY <1>17 DEF Wake, Unpark, Go, Holding
  <2> QED
    BY <1>17, <2>1, HoldingKept DEF Wake, Unpark, Go
<1>18. ASSUME NEW t \in Services, GiveUp(t) PROVE ReservedInv'
  <2>1. Holding' = Holding
    BY <1>18 DEF GiveUp, Unpark, Go, Holding
  <2> QED
    BY <1>18, <2>1, HoldingKept DEF GiveUp, Unpark, Go
<1>19. ASSUME NEW t \in Services, Refused(t) PROVE ReservedInv'
  <2>1. Holding' = Holding
    BY <1>19 DEF Refused, Go, Holding
  <2> QED
    BY <1>19, <2>1, HoldingKept DEF Refused, Go
<1>20. ASSUME NEW t \in Services, Load(t) PROVE ReservedInv'
  <2>1. Holding' = Holding
    BY <1>20 DEF Load, Go, Holding
  <2> QED
    BY <1>20, <2>1, HoldingKept DEF Load, Go
<1>21. ASSUME NEW t \in Services, Ready(t) PROVE ReservedInv'
  <2>1. t \in Holding /\ Holding' = Holding \ {t} /\ reserved' = Minus(t)
    BY <1>21 DEF Ready, Go, Holding
  <2> QED
    BY <2>1, GivenBack
<1>22. ASSUME NEW t \in Services, StartFails(t) PROVE ReservedInv'
  <2>1. Holding' = Holding
    BY <1>22 DEF StartFails, Holding
  <2> QED
    BY <1>22, <2>1, HoldingKept DEF StartFails
<1>23. ASSUME NEW t \in Services, Unreserve(t) PROVE ReservedInv'
  <2>1. t \in Holding /\ Holding' = Holding \ {t} /\ reserved' = Minus(t)
    BY <1>23 DEF Unreserve, Go, Holding
  <2> QED
    BY <2>1, GivenBack
<1>24. ASSUME NEW t \in Services, Exit(t) PROVE ReservedInv'
  <2>1. Holding' = Holding
    BY <1>24 DEF Exit, Holding
  <2> QED
    BY <1>24, <2>1, HoldingKept DEF Exit
<1>25. ASSUME NEW t \in Services, Released(t) PROVE ReservedInv'
  <2>1. Holding' = Holding
    BY <1>25 DEF Released, Holding
  <2> QED
    BY <1>25, <2>1, HoldingKept DEF Released
<1>26. ASSUME NEW t \in Services, LastLeaves(t) PROVE ReservedInv'
  BY <1>26, HoldingKept DEF LastLeaves, Holding, waiterVars
<1>27. ASSUME NEW t \in Services, LaunchFails(t) PROVE ReservedInv'
  <2>1. t \in Holding /\ Holding' = Holding \ {t} /\ reserved' = Minus(t)
    BY <1>27 DEF LaunchFails, Go, Holding
  <2> QED
    BY <2>1, GivenBack
<1>28. CASE UNCHANGED vars
  BY <1>28, HoldingKept DEF vars, waiterVars, Holding
<1> QED
  BY <1>1, <1>2, <1>3, <1>4, <1>5, <1>6, <1>7, <1>8, <1>9, <1>10, <1>11,
     <1>12, <1>13, <1>14, <1>15, <1>16, <1>17, <1>18, <1>19, <1>20, <1>21,
     <1>22, <1>23, <1>24, <1>25, <1>26, <1>27, <1>28 DEF Next, CheckStep,
     MonitorStep, ReserveStep, GivingUp

-----------------------------------------------------------------------------
\* The invariant holds initially.
LEMMA IInvInit ==
  ASSUME Init
  PROVE  IInv
<1>1. Types
  BY MonitorAssumption DEF Init, Types, Signals, Values, Places
<1>2. NoOrphanChannel /\ CheckInv /\ AnswerInv
  BY DEF Init, NoOrphanChannel, CheckInv, AnswerInv, Trusts
<1>3. Holding = {}
  BY DEF Init, Holding
<1>4. ReservedInv
  BY <1>3, UseNobody DEF Init, ReservedInv, Balanced
<1> QED
  BY <1>1, <1>2, <1>4 DEF IInv

\* The invariant holds of every reachable state: the types, the channels, the
\* checks that are to come, the checks that were announced, the reservations.
THEOREM InductiveInvariant == Spec => []IInv
<1>1. Init => IInv
  BY IInvInit
<1>2. IInv /\ [Next]_vars => IInv'
  <2> SUFFICES ASSUME IInv, Next \/ UNCHANGED vars PROVE IInv'
    OBVIOUS
  <2>1. CASE Next
    BY <2>1, TypesKept, ChannelsKept, ChecksKept, AnswersKept, BooksKept DEF IInv
  <2>2. CASE UNCHANGED vars
    BY <2>2 DEF IInv, vars, waiterVars, channelVars, monitorVars, Types,
       NoOrphanChannel, CheckInv, Attended, AnswerInv, Trusts, ReservedInv,
       Balanced, Holding
  <2> QED
    BY <2>1, <2>2
<1> QED
  BY <1>1, <1>2, PTL DEF Spec

\* Every variable keeps its type and no reservation is given back twice.
THEOREM TypeCorrect == Spec => []TypeOK
<1>1. IInv => TypeOK
  <2> SUFFICES ASSUME IInv PROVE TypeOK
    OBVIOUS
  <2>1. reserved \in [Resources -> Nat]
    BY HoldingType, MonitorAssumption, BalancedType DEF IInv, Types, ReservedInv
  <2> QED
    BY <2>1 DEF IInv, TypeOK
<1> QED
  BY <1>1, InductiveInvariant, PTL

\* Whoever waits for its first checks gets them or gives up.
THEOREM ChecksCome == Spec => []FirstCheckComes
<1>1. IInv => FirstCheckComes
  BY DEF IInv, CheckInv, FirstCheckComes
<1> QED
  BY <1>1, InductiveInvariant, PTL

\* No channel outlives the wait it was made for.
THEOREM ChannelsEnd == Spec => []NoOrphanChannel
<1>1. IInv => NoOrphanChannel
  BY DEF IInv
<1> QED
  BY <1>1, InductiveInvariant, PTL

\* Resources are granted only after a check of each of them was announced since
\* the cached amounts were last called stale.
THEOREM GrantsAreChecked == Spec => GrantsAfterCheck
<1>1. IInv /\ [Next]_vars =>
        [\A s \in Services :
            place[s] = "evaluate" /\ place'[s] = "granted"
                => Needs(s) \subseteq answered[s]]_vars
  <2> SUFFICES ASSUME IInv, Next, NEW s \in Services,
                      place[s] = "evaluate", place'[s] = "granted"
               PROVE  Needs(s) \subseteq answered[s]
    BY DEF vars
  <2>1. ~recheck[s]
    <3> USE DEF IInv, Types
    <3>1. ASSUME NEW q \in Resources, Tick(q) PROVE ~recheck[s]
      BY <3>1 DEF Tick, waiterVars
    <3>2. ASSUME NEW q \in Resources, Poked(q) PROVE ~recheck[s]
      BY <3>2 DEF Poked, waiterVars
    <3>3. ASSUME NEW q \in Resources, Measure(q) PROVE ~recheck[s]
      BY <3>3 DEF Measure, waiterVars
    <3>4. ASSUME NEW q \in Resources, CheckFails(q) PROVE ~recheck[s]
      BY <3>4 DEF CheckFails, waiterVars
    <3>5. ASSUME NEW q \in Resources, Store(q) PROVE ~recheck[s]
      BY <3>5 DEF Store, waiterVars
    <3>6. ASSUME NEW q \in Resources, Publish(q) PROVE ~recheck[s]
      BY <3>6 DEF Publish, waiterVars
    <3>7. ASSUME NEW q \in Resources, Environment(q) PROVE ~recheck[s]
      BY <3>7 DEF Environment, waiterVars
    <3>8. ASSUME NEW t \in Services, Begin(t) PROVE ~recheck[s]
      BY <3>8 DEF Begin, Go
    <3>9. ASSUME NEW t \in Services, Request(t) PROVE ~recheck[s]
      BY <3>9 DEF Request, Go
    <3>10. ASSUME NEW t \in Services, Receive(t) PROVE ~recheck[s]
      BY <3>10 DEF Receive, waiterVars
    <3>11. ASSUME NEW t \in Services, AllReceived(t) PROVE ~recheck[s]
      BY <3>11 DEF AllReceived, Go
    <3>12. ASSUME NEW t \in Services, GiveUpChecks(t) PROVE ~recheck[s]
      BY <3>12 DEF GiveUpChecks, Go
    <3>13. ASSUME NEW t \in Services, Reserve(t) PROVE ~recheck[s]
      BY <3>13 DEF Reserve, Go
    <3>14. ASSUME NEW t \in Services, NotEnough(t) PROVE ~recheck[s]
      BY <3>14 DEF NotEnough, Go
    <3>15. ASSUME NEW t \in Services, PickVictim(t) PROVE ~recheck[s]
      BY <3>15 DEF PickVictim
    <3>16. ASSUME NEW t \in Services, Park(t) PROVE ~recheck[s]
      BY <3>16 DEF Park, Go
    <3>17. ASSUME NEW t \in Services, Wake(t) PROVE ~recheck[s]
      BY <3>17 DEF Wake, Unpark, Go
    <3>18. ASSUME NEW t \in Services, GiveUp(t) PROVE ~recheck[s]
      BY <3>18 DEF GiveUp, Unpark, Go
    <3>19. ASSUME NEW t \in Services, Refused(t) PROVE ~recheck[s]
      BY <3>19 DEF Refused, Go
    <3>20. ASSUME NEW t \in Services, Load(t) PROVE ~recheck[s]
      BY <3>20 DEF Load, Go
    <3>21. ASSUME NEW t \in Services, Ready(t) PROVE ~recheck[s]
      BY <3>21 DEF Ready, Go
    <3>22. ASSUME NEW t \in Services, StartFails(t) PROVE ~recheck[s]
      BY <3>22 DEF StartFails
    <3>23. ASSUME NEW t \in Services, Unreserve(t) PROVE ~recheck[s]
      BY <3>23 DEF Unreserve, Go
    <3>24. ASSUME NEW t \in Services, Exit(t) PROVE ~recheck[s]
      BY <3>24 DEF Exit
    <3>25. ASSUME NEW t \in Services, Released(t) PROVE ~recheck[s]
      BY <3>25 DEF Released
    <3>26. ASSUME NEW t \in Services, LastLeaves(t) PROVE ~recheck[s]
      BY <3>26 DEF LastLeaves, waiterVars
    <3>27. ASSUME NEW t \in Services, LaunchFails(t) PROVE ~recheck[s]
      BY <3>27 DEF LaunchFails, Go
    <3> QED
      BY <3>1, <3>2, <3>3, <3>4, <3>5, <3>6, <3>7, <3>8, <3>9, <3>10, <3>11,
         <3>12, <3>13, <3>14, <3>15, <3>16, <3>17, <3>18, <3>19, <3>20, <3>21,
         <3>22, <3>23, <3>24, <3>25, <3>26, <3>27 DEF Next, CheckStep, MonitorStep,
         ReserveStep, GivingUp
  <2> QED
    BY <2>1 DEF IInv, AnswerInv, Trusts
<1> QED
  BY <1>1, InductiveInvariant, PTL DEF Spec, GrantsAfterCheck
=============================================================================
