--------------------------- MODULE L3SwitchProofs ---------------------------
(***************************************************************************)
(* The safety of a layer 3 switch, for every set of hubs: its interfaces and *)
(* their sessions always match, and no session is given up while it runs.     *)
(***************************************************************************)
EXTENDS L3Switch, TLAPS

\* The thread and the calls: a switch with neither call nor Active has no thread, and
\* Halt is set only while its caller waits.
Calls ==
  /\ pc = "none" <=> (~active /\ call = "none")
  /\ active => call = "none" /\ ~halt
  /\ pc = "ended" => halt /\ ~online
  /\ pc \in {"none", "creating", "stopping"} => ~online
  /\ pc \in {"none", "loop", "decide", "ended"} => todo = {}

\* The interfaces that have a session, wherever the thread is.
Equipped ==
  IF pc = "creating" THEN ifs \ todo
  ELSE IF pc = "stopping" \/ online THEN ifs ELSE {}

Match ==
  /\ \A h \in Hubs : session[h] # "none" <=> h \in Equipped
  /\ \A h \in Hubs : hubOf[h] # "none" <=> h \in Equipped

\* The sessions the thread has waited for have ended.
Waited == pc = "stopping" => \A h \in ifs \ todo : session[h] = "ended"

IInv == TypeOK /\ Calls /\ Match /\ Waited

\* Every step keeps the types.
LEMMA TypeStep == IInv /\ [Next]_vars => TypeOK'
<1> SUFFICES ASSUME IInv, [Next]_vars PROVE TypeOK'
  OBVIOUS
<1> USE DEF IInv, TypeOK, Calls, Closing
<1>1. CASE L3AddSw
  BY <1>1 DEF L3AddSw, switch, thread, ports
<1>2. ASSUME NEW h \in Hubs, L3AddIf(h) PROVE TypeOK'
  BY <1>2 DEF L3AddIf, switch, thread, ports, Callable, LocksFree
<1>3. ASSUME NEW h \in Hubs, L3DelIf(h) PROVE TypeOK'
  BY <1>3 DEF L3DelIf, switch, thread, ports, Callable, LocksFree
<1>4. CASE L3SwStart
  BY <1>4 DEF L3SwStart, switch, thread, ports, Callable, LocksFree
<1>5. ASSUME NEW why \in {"stop", "delete"}, L3SwStop(why) PROVE TypeOK'
  BY <1>5 DEF L3SwStop, switch, thread, ports, Callable, LocksFree
<1>6. CASE StopReturns
  BY <1>6 DEF StopReturns, switch, thread, ports, Freed
<1>7. CASE L3DelSw
  BY <1>7 DEF L3DelSw, switch, thread, ports, Freed, Callable, LocksFree
<1>8. CASE ThreadLoop
  BY <1>8 DEF ThreadLoop, switch, thread, ports
<1>9. CASE ThreadSleeps
  BY <1>9 DEF ThreadSleeps, switch, thread, ports
<1>10. CASE L3InitAllInterfaces
  BY <1>10 DEF L3InitAllInterfaces, switch, thread, ports
<1>11. CASE L3IfThread
  BY <1>11 DEF L3IfThread, switch, thread, ports, First
<1>12. CASE ThreadOnline
  BY <1>12 DEF ThreadOnline, switch, thread, ports
<1>13. CASE ThreadOffline
  BY <1>13 DEF ThreadOffline, switch, thread, ports
<1>14. CASE StopSession
  BY <1>14 DEF StopSession, switch, thread, ports, First
<1>15. CASE StopSessionEnds
  BY <1>15 DEF StopSessionEnds, switch, thread, ports, First
<1>16. CASE L3FreeAllInterfaces
  BY <1>16 DEF L3FreeAllInterfaces, switch, thread, ports
<1>17. CASE ThreadEnds
  BY <1>17 DEF ThreadEnds, switch, thread, ports
<1>18. ASSUME NEW h \in Hubs, SessionEnds(h) PROVE TypeOK'
  BY <1>18 DEF SessionEnds, switch, thread, ports
<1>19. ASSUME NEW h \in Hubs, SetHubOffline(h) PROVE TypeOK'
  BY <1>19 DEF SetHubOffline, switch, thread, ports
<1>20. ASSUME NEW h \in Hubs, StopHub(h) PROVE TypeOK'
  BY <1>20 DEF StopHub, switch, thread, ports
<1>21. ASSUME NEW h \in Hubs, StopAllSession(h) PROVE TypeOK'
  BY <1>21 DEF StopAllSession, switch, thread, ports
<1>22. ASSUME NEW h \in Hubs, StopAllSessionEnds(h) PROVE TypeOK'
  BY <1>22 DEF StopAllSessionEnds, switch, thread, ports
<1>23. ASSUME NEW h \in Hubs, SetHubOnline(h) PROVE TypeOK'
  BY <1>23 DEF SetHubOnline, switch, thread, ports
<1>24. ASSUME NEW h \in Hubs, DelHub(h) PROVE TypeOK'
  BY <1>24 DEF DelHub, switch, thread, ports, LocksFree
<1>25. ASSUME NEW h \in Hubs, AddHub(h) PROVE TypeOK'
  BY <1>25 DEF AddHub, switch, thread, ports, LocksFree
<1>26. CASE UNCHANGED vars
  BY <1>26 DEF vars, switch, thread, ports
<1> QED
  BY <1>1, <1>2, <1>3, <1>4, <1>5, <1>6, <1>7, <1>8, <1>9, <1>10, <1>11, <1>12, <1>13, <1>14, <1>15, <1>16, <1>17, <1>18, <1>19, <1>20, <1>21, <1>22, <1>23, <1>24, <1>25, <1>26 DEF Next, ThreadStep, AdminStep, HubStep

\* Every step keeps the thread and the calls in step.
LEMMA CallsStep == IInv /\ [Next]_vars => Calls'
<1> SUFFICES ASSUME IInv, [Next]_vars PROVE Calls'
  OBVIOUS
<1> USE DEF IInv, TypeOK, Calls
<1>1. CASE L3AddSw
  BY <1>1 DEF L3AddSw, switch, thread, ports
<1>2. ASSUME NEW h \in Hubs, L3AddIf(h) PROVE Calls'
  BY <1>2 DEF L3AddIf, switch, thread, ports, Callable, LocksFree
<1>3. ASSUME NEW h \in Hubs, L3DelIf(h) PROVE Calls'
  BY <1>3 DEF L3DelIf, switch, thread, ports, Callable, LocksFree
<1>4. CASE L3SwStart
  BY <1>4 DEF L3SwStart, switch, thread, ports, Callable, LocksFree
<1>5. ASSUME NEW why \in {"stop", "delete"}, L3SwStop(why) PROVE Calls'
  BY <1>5 DEF L3SwStop, switch, thread, ports, Callable, LocksFree
<1>6. CASE StopReturns
  BY <1>6 DEF StopReturns, switch, thread, ports, Freed
<1>7. CASE L3DelSw
  BY <1>7 DEF L3DelSw, switch, thread, ports, Freed, Callable, LocksFree
<1>8. CASE ThreadLoop
  BY <1>8 DEF ThreadLoop, switch, thread, ports
<1>9. CASE ThreadSleeps
  BY <1>9 DEF ThreadSleeps, switch, thread, ports
<1>10. CASE L3InitAllInterfaces
  BY <1>10 DEF L3InitAllInterfaces, switch, thread, ports
<1>11. CASE L3IfThread
  BY <1>11 DEF L3IfThread, switch, thread, ports
<1>12. CASE ThreadOnline
  BY <1>12 DEF ThreadOnline, switch, thread, ports
<1>13. CASE ThreadOffline
  BY <1>13 DEF ThreadOffline, switch, thread, ports
<1>14. CASE StopSession
  BY <1>14 DEF StopSession, switch, thread, ports
<1>15. CASE StopSessionEnds
  BY <1>15 DEF StopSessionEnds, switch, thread, ports
<1>16. CASE L3FreeAllInterfaces
  BY <1>16 DEF L3FreeAllInterfaces, switch, thread, ports
<1>17. CASE ThreadEnds
  BY <1>17 DEF ThreadEnds, switch, thread, ports
<1>18. ASSUME NEW h \in Hubs, SessionEnds(h) PROVE Calls'
  BY <1>18 DEF SessionEnds, switch, thread, ports
<1>19. ASSUME NEW h \in Hubs, SetHubOffline(h) PROVE Calls'
  BY <1>19 DEF SetHubOffline, switch, thread, ports
<1>20. ASSUME NEW h \in Hubs, StopHub(h) PROVE Calls'
  BY <1>20 DEF StopHub, switch, thread, ports
<1>21. ASSUME NEW h \in Hubs, StopAllSession(h) PROVE Calls'
  BY <1>21 DEF StopAllSession, switch, thread, ports
<1>22. ASSUME NEW h \in Hubs, StopAllSessionEnds(h) PROVE Calls'
  BY <1>22 DEF StopAllSessionEnds, switch, thread, ports
<1>23. ASSUME NEW h \in Hubs, SetHubOnline(h) PROVE Calls'
  BY <1>23 DEF SetHubOnline, switch, thread, ports
<1>24. ASSUME NEW h \in Hubs, DelHub(h) PROVE Calls'
  BY <1>24 DEF DelHub, switch, thread, ports, LocksFree
<1>25. ASSUME NEW h \in Hubs, AddHub(h) PROVE Calls'
  BY <1>25 DEF AddHub, switch, thread, ports, LocksFree
<1>26. CASE UNCHANGED vars
  BY <1>26 DEF vars, switch, thread, ports
<1> QED
  BY <1>1, <1>2, <1>3, <1>4, <1>5, <1>6, <1>7, <1>8, <1>9, <1>10, <1>11, <1>12, <1>13, <1>14, <1>15, <1>16, <1>17, <1>18, <1>19, <1>20, <1>21, <1>22, <1>23, <1>24, <1>25, <1>26 DEF Next, ThreadStep, AdminStep, HubStep

\* Every step keeps sessions to the interfaces that are to have one.
LEMMA MatchStep == IInv /\ [Next]_vars => Match'
<1> SUFFICES ASSUME IInv, [Next]_vars PROVE Match'
  OBVIOUS
<1> USE DEF IInv, TypeOK, Calls, Match, Equipped
<1>1. CASE L3AddSw
  BY <1>1 DEF L3AddSw, switch, thread, ports
<1>2. ASSUME NEW h \in Hubs, L3AddIf(h) PROVE Match'
  BY <1>2 DEF L3AddIf, switch, thread, ports, Callable, LocksFree
<1>3. ASSUME NEW h \in Hubs, L3DelIf(h) PROVE Match'
  BY <1>3 DEF L3DelIf, switch, thread, ports, Callable, LocksFree
<1>4. CASE L3SwStart
  BY <1>4 DEF L3SwStart, switch, thread, ports, Callable, LocksFree
<1>5. ASSUME NEW why \in {"stop", "delete"}, L3SwStop(why) PROVE Match'
  BY <1>5 DEF L3SwStop, switch, thread, ports, Callable, LocksFree
<1>6. CASE StopReturns
  BY <1>6 DEF StopReturns, switch, thread, ports, Freed
<1>7. CASE L3DelSw
  BY <1>7 DEF L3DelSw, switch, thread, ports, Freed, Callable, LocksFree
<1>8. CASE ThreadLoop
  BY <1>8 DEF ThreadLoop, switch, thread, ports
<1>9. CASE ThreadSleeps
  BY <1>9 DEF ThreadSleeps, switch, thread, ports
<1>10. CASE L3InitAllInterfaces
  BY <1>10 DEF L3InitAllInterfaces, switch, thread, ports
<1>11. CASE L3IfThread
  BY <1>11 DEF L3IfThread, switch, thread, ports, First
<1>12. CASE ThreadOnline
  BY <1>12 DEF ThreadOnline, switch, thread, ports
<1>13. CASE ThreadOffline
  BY <1>13 DEF ThreadOffline, switch, thread, ports
<1>14. CASE StopSession
  BY <1>14 DEF StopSession, switch, thread, ports, First
<1>15. CASE StopSessionEnds
  BY <1>15 DEF StopSessionEnds, switch, thread, ports, First
<1>16. CASE L3FreeAllInterfaces
  BY <1>16 DEF L3FreeAllInterfaces, switch, thread, ports
<1>17. CASE ThreadEnds
  BY <1>17 DEF ThreadEnds, switch, thread, ports
<1>18. ASSUME NEW h \in Hubs, SessionEnds(h) PROVE Match'
  BY <1>18 DEF SessionEnds, switch, thread, ports
<1>19. ASSUME NEW h \in Hubs, SetHubOffline(h) PROVE Match'
  BY <1>19 DEF SetHubOffline, switch, thread, ports
<1>20. ASSUME NEW h \in Hubs, StopHub(h) PROVE Match'
  BY <1>20 DEF StopHub, switch, thread, ports
<1>21. ASSUME NEW h \in Hubs, StopAllSession(h) PROVE Match'
  BY <1>21 DEF StopAllSession, switch, thread, ports
<1>22. ASSUME NEW h \in Hubs, StopAllSessionEnds(h) PROVE Match'
  BY <1>22 DEF StopAllSessionEnds, switch, thread, ports
<1>23. ASSUME NEW h \in Hubs, SetHubOnline(h) PROVE Match'
  BY <1>23 DEF SetHubOnline, switch, thread, ports
<1>24. ASSUME NEW h \in Hubs, DelHub(h) PROVE Match'
  BY <1>24 DEF DelHub, switch, thread, ports, LocksFree
<1>25. ASSUME NEW h \in Hubs, AddHub(h) PROVE Match'
  BY <1>25 DEF AddHub, switch, thread, ports, LocksFree
<1>26. CASE UNCHANGED vars
  BY <1>26 DEF vars, switch, thread, ports
<1> QED
  BY <1>1, <1>2, <1>3, <1>4, <1>5, <1>6, <1>7, <1>8, <1>9, <1>10, <1>11, <1>12, <1>13, <1>14, <1>15, <1>16, <1>17, <1>18, <1>19, <1>20, <1>21, <1>22, <1>23, <1>24, <1>25, <1>26 DEF Next, ThreadStep, AdminStep, HubStep

\* Every step keeps what the thread has waited for.
LEMMA WaitedStep == IInv /\ [Next]_vars => Waited'
<1> SUFFICES ASSUME IInv, [Next]_vars PROVE Waited'
  OBVIOUS
<1> USE DEF IInv, TypeOK, Calls, Waited
<1>1. CASE L3AddSw
  BY <1>1 DEF L3AddSw, switch, thread, ports
<1>2. ASSUME NEW h \in Hubs, L3AddIf(h) PROVE Waited'
  BY <1>2 DEF L3AddIf, switch, thread, ports, Callable, LocksFree
<1>3. ASSUME NEW h \in Hubs, L3DelIf(h) PROVE Waited'
  BY <1>3 DEF L3DelIf, switch, thread, ports, Callable, LocksFree
<1>4. CASE L3SwStart
  BY <1>4 DEF L3SwStart, switch, thread, ports, Callable, LocksFree
<1>5. ASSUME NEW why \in {"stop", "delete"}, L3SwStop(why) PROVE Waited'
  BY <1>5 DEF L3SwStop, switch, thread, ports, Callable, LocksFree
<1>6. CASE StopReturns
  BY <1>6 DEF StopReturns, switch, thread, ports, Freed
<1>7. CASE L3DelSw
  BY <1>7 DEF L3DelSw, switch, thread, ports, Freed, Callable, LocksFree
<1>8. CASE ThreadLoop
  BY <1>8 DEF ThreadLoop, switch, thread, ports
<1>9. CASE ThreadSleeps
  BY <1>9 DEF ThreadSleeps, switch, thread, ports
<1>10. CASE L3InitAllInterfaces
  BY <1>10 DEF L3InitAllInterfaces, switch, thread, ports
<1>11. CASE L3IfThread
  BY <1>11 DEF L3IfThread, switch, thread, ports, First
<1>12. CASE ThreadOnline
  BY <1>12 DEF ThreadOnline, switch, thread, ports
<1>13. CASE ThreadOffline
  BY <1>13 DEF ThreadOffline, switch, thread, ports
<1>14. CASE StopSession
  BY <1>14 DEF StopSession, switch, thread, ports, First
<1>15. CASE StopSessionEnds
  BY <1>15 DEF StopSessionEnds, switch, thread, ports, First
<1>16. CASE L3FreeAllInterfaces
  BY <1>16 DEF L3FreeAllInterfaces, switch, thread, ports
<1>17. CASE ThreadEnds
  BY <1>17 DEF ThreadEnds, switch, thread, ports
<1>18. ASSUME NEW h \in Hubs, SessionEnds(h) PROVE Waited'
  BY <1>18 DEF SessionEnds, switch, thread, ports
<1>19. ASSUME NEW h \in Hubs, SetHubOffline(h) PROVE Waited'
  BY <1>19 DEF SetHubOffline, switch, thread, ports
<1>20. ASSUME NEW h \in Hubs, StopHub(h) PROVE Waited'
  BY <1>20 DEF StopHub, switch, thread, ports
<1>21. ASSUME NEW h \in Hubs, StopAllSession(h) PROVE Waited'
  BY <1>21 DEF StopAllSession, switch, thread, ports
<1>22. ASSUME NEW h \in Hubs, StopAllSessionEnds(h) PROVE Waited'
  BY <1>22 DEF StopAllSessionEnds, switch, thread, ports
<1>23. ASSUME NEW h \in Hubs, SetHubOnline(h) PROVE Waited'
  BY <1>23 DEF SetHubOnline, switch, thread, ports
<1>24. ASSUME NEW h \in Hubs, DelHub(h) PROVE Waited'
  BY <1>24 DEF DelHub, switch, thread, ports, LocksFree
<1>25. ASSUME NEW h \in Hubs, AddHub(h) PROVE Waited'
  BY <1>25 DEF AddHub, switch, thread, ports, LocksFree
<1>26. CASE UNCHANGED vars
  BY <1>26 DEF vars, switch, thread, ports
<1> QED
  BY <1>1, <1>2, <1>3, <1>4, <1>5, <1>6, <1>7, <1>8, <1>9, <1>10, <1>11, <1>12, <1>13, <1>14, <1>15, <1>16, <1>17, <1>18, <1>19, <1>20, <1>21, <1>22, <1>23, <1>24, <1>25, <1>26 DEF Next, ThreadStep, AdminStep, HubStep

\* The inductive invariant holds in every state.
THEOREM Inductive == Spec => []IInv
<1>1. Init => IInv
  <2> USE DEF Init, IInv
  <2>1. Init => TypeOK
    BY DEF TypeOK
  <2>2. Init => Calls /\ Waited
    BY DEF Calls, Waited
  <2>3. Init => Match
    BY DEF Match, Equipped
  <2> QED
    BY <2>1, <2>2, <2>3
<1>2. IInv /\ [Next]_vars => IInv'
  <2> SUFFICES ASSUME IInv, [Next]_vars PROVE IInv'
    OBVIOUS
  <2>1. TypeOK' /\ Calls' /\ Match' /\ Waited'
    BY TypeStep, CallsStep, MatchStep, WaitedStep
  <2> QED
    BY <2>1 DEF IInv
<1> QED
  BY <1>1, <1>2, PTL DEF Spec

\* The switch's state is always what its types say.
THEOREM TypeCorrect == Spec => []TypeOK
<1>1. IInv => TypeOK
  BY DEF IInv
<1> QED
  BY <1>1, Inductive, PTL

\* The thread never looks at an interface that has no session or no hub, and a switch at
\* rest has neither.
THEOREM MatchCorrect == Spec => []SessionsMatch
<1>1. IInv => SessionsMatch
  BY DEF IInv, TypeOK, Calls, Match, Equipped, SessionsMatch
<1> QED
  BY <1>1, Inductive, PTL

\* A session is given up only when it has ended.
THEOREM DropCorrect == Spec => NoSessionDropped
<1> DEFINE Good == \A h \in Hubs : session'[h] = "none" => session[h] \in {"none", "ended"}
<1>1. IInv /\ [Next]_vars => Good
  <2> SUFFICES ASSUME IInv, [Next]_vars PROVE Good
    OBVIOUS
  <2> USE DEF IInv, TypeOK, Calls, Match, Equipped, Waited
  <2>1. CASE L3AddSw
    BY <2>1 DEF L3AddSw, switch, thread, ports
  <2>2. ASSUME NEW x \in Hubs, L3AddIf(x) PROVE Good
    BY <2>2 DEF L3AddIf, switch, thread, ports, Callable, LocksFree
  <2>3. ASSUME NEW x \in Hubs, L3DelIf(x) PROVE Good
    BY <2>3 DEF L3DelIf, switch, thread, ports, Callable, LocksFree
  <2>4. CASE L3SwStart
    BY <2>4 DEF L3SwStart, switch, thread, ports, Callable, LocksFree
  <2>5. ASSUME NEW why \in {"stop", "delete"}, L3SwStop(why) PROVE Good
    BY <2>5 DEF L3SwStop, switch, thread, ports, Callable, LocksFree
  <2>6. CASE StopReturns
    BY <2>6 DEF StopReturns, switch, thread, ports, Freed
  <2>7. CASE L3DelSw
    BY <2>7 DEF L3DelSw, switch, thread, ports, Freed, Callable, LocksFree
  <2>8. CASE ThreadLoop
    BY <2>8 DEF ThreadLoop, switch, thread, ports
  <2>9. CASE ThreadSleeps
    BY <2>9 DEF ThreadSleeps, switch, thread, ports
  <2>10. CASE L3InitAllInterfaces
    BY <2>10 DEF L3InitAllInterfaces, switch, thread, ports
  <2>11. CASE L3IfThread
    BY <2>11 DEF L3IfThread, switch, thread, ports
  <2>12. CASE ThreadOnline
    BY <2>12 DEF ThreadOnline, switch, thread, ports
  <2>13. CASE ThreadOffline
    BY <2>13 DEF ThreadOffline, switch, thread, ports
  <2>14. CASE StopSession
    BY <2>14 DEF StopSession, switch, thread, ports
  <2>15. CASE StopSessionEnds
    BY <2>15 DEF StopSessionEnds, switch, thread, ports
  <2>16. CASE L3FreeAllInterfaces
    BY <2>16 DEF L3FreeAllInterfaces, switch, thread, ports
  <2>17. CASE ThreadEnds
    BY <2>17 DEF ThreadEnds, switch, thread, ports
  <2>18. ASSUME NEW x \in Hubs, SessionEnds(x) PROVE Good
    BY <2>18 DEF SessionEnds, switch, thread, ports
  <2>19. ASSUME NEW x \in Hubs, SetHubOffline(x) PROVE Good
    BY <2>19 DEF SetHubOffline, switch, thread, ports
  <2>20. ASSUME NEW x \in Hubs, StopHub(x) PROVE Good
    BY <2>20 DEF StopHub, switch, thread, ports
  <2>21. ASSUME NEW x \in Hubs, StopAllSession(x) PROVE Good
    BY <2>21 DEF StopAllSession, switch, thread, ports
  <2>22. ASSUME NEW x \in Hubs, StopAllSessionEnds(x) PROVE Good
    BY <2>22 DEF StopAllSessionEnds, switch, thread, ports
  <2>23. ASSUME NEW x \in Hubs, SetHubOnline(x) PROVE Good
    BY <2>23 DEF SetHubOnline, switch, thread, ports
  <2>24. ASSUME NEW x \in Hubs, DelHub(x) PROVE Good
    BY <2>24 DEF DelHub, switch, thread, ports
  <2>25. ASSUME NEW x \in Hubs, AddHub(x) PROVE Good
    BY <2>25 DEF AddHub, switch, thread, ports
  <2>26. CASE UNCHANGED vars
    BY <2>26 DEF vars, switch, thread, ports
  <2> QED
    BY <2>1, <2>2, <2>3, <2>4, <2>5, <2>6, <2>7, <2>8, <2>9, <2>10, <2>11, <2>12, <2>13, <2>14, <2>15, <2>16, <2>17, <2>18, <2>19, <2>20, <2>21, <2>22, <2>23, <2>24, <2>25, <2>26 DEF Next, ThreadStep, AdminStep, HubStep
<1>2. IInv /\ [Next]_vars => [Good]_vars
  BY <1>1
<1> QED
  BY <1>2, Inductive, PTL DEF Spec, NoSessionDropped
=============================================================================
