------------------------- MODULE HubAdmissionProofs -------------------------
(***************************************************************************)
(* Proofs about admission, for any number of connections and administrators,  *)
(* any limits and any calls: the counter of sessions and the references to    *)
(* them are exact, the limit of the hub holds, and an offline hub runs no     *)
(* SecureNAT.  IInv is inductive; Placed and Scripted are what it adds.       *)
(***************************************************************************)
EXTENDS HubAdmission, FiniteSetTheorems, SequenceTheorems, TLAPS

\* A session is in the list until its thread is in the clean-up; the copy of a
\* StopAllSession holds sessions that were admitted, and only while it stops them.
Placed ==
  /\ \A s \in sessionList : pc[s] \in {"welcome"} \cup Tunneling
  /\ \A a \in Admins : \A s \in toStop[a] : pc[s] \in Counted \cup Leaving \cup {"gone"}
  /\ \A a \in Admins : toStop[a] # {} => apc[a] = "stopping"

\* An administrator's thread that is in a call has that call in its script.
Scripted == \A a \in Admins : apc[a] # "idle" => script[a] # <<>>

IInv ==
  /\ TypeOK /\ CountersBalanced /\ RefsBalanced /\ Placed /\ Scripted
  /\ SessionLimit /\ NatOnlyOnline

Holders(s) == {a \in Admins : s \in toStop[a]}
InSession == {s \in Sessions : pc[s] \in Counted}
Limited == {s \in Sessions \ AdminMode : pc[s] \in Counted}

\* Whatever is counted is finite.
LEMMA Finite ==
  /\ IsFiniteSet(InSession) /\ Cardinality(InSession) \in Nat
  /\ IsFiniteSet(Limited) /\ Cardinality(Limited) \in Nat
  /\ Cardinality(Limited) <= Cardinality(InSession)
  /\ \A s : IsFiniteSet(Holders(s)) /\ Cardinality(Holders(s)) \in Nat
<1>1. IsFiniteSet(Sessions) /\ IsFiniteSet(Admins)  BY AdmissionAssumption
<1>2. InSession \subseteq Sessions /\ Limited \subseteq InSession
  BY DEF InSession, Limited
<1>3. \A s : Holders(s) \subseteq Admins  BY DEF Holders
<1>4. IsFiniteSet(InSession)  BY <1>1, <1>2, FS_Subset
<1>5. IsFiniteSet(Limited) /\ Cardinality(Limited) <= Cardinality(InSession)
  BY <1>2, <1>4, FS_Subset
<1>6. \A s : IsFiniteSet(Holders(s))  BY <1>1, <1>3, FS_Subset
<1>7. QED  BY <1>4, <1>5, <1>6, FS_CardinalityType

\* The counter, from one state to the next: a step that takes s into a session
\* adds one, a step that takes it out of it subtracts one.
LEMMA CountStep ==
  ASSUME IInv, NEW s \in Sessions, NEW l \in PCs, pc' = [pc EXCEPT ![s] = l],
         numSessions' = numSessions
           + (IF l \in Counted /\ pc[s] \notin Counted THEN 1
              ELSE IF l \notin Counted /\ pc[s] \in Counted THEN -1 ELSE 0)
  PROVE  CountersBalanced' /\ numSessions' \in Nat
<1>1. numSessions = Cardinality(InSession) /\ pc \in [Sessions -> PCs]
  BY DEF IInv, TypeOK, CountersBalanced, InSession
<1>2. InSession' = IF l \in Counted THEN InSession \cup {s} ELSE InSession \ {s}
  BY <1>1 DEF InSession
<1>3. s \in InSession <=> pc[s] \in Counted  BY DEF InSession
<1>4. numSessions' = Cardinality(InSession') /\ Cardinality(InSession') \in Nat
  <2>1. CASE l \in Counted
    <3>1. Cardinality(InSession \cup {s}) =
            IF s \in InSession THEN Cardinality(InSession) ELSE Cardinality(InSession) + 1
      BY Finite, FS_AddElement
    <3>2. QED  BY <1>1, <1>2, <1>3, <2>1, <3>1, Finite
  <2>2. CASE l \notin Counted
    <3>1. IsFiniteSet(InSession \ {s}) /\ Cardinality(InSession \ {s}) =
            IF s \in InSession THEN Cardinality(InSession) - 1 ELSE Cardinality(InSession)
      BY Finite, FS_RemoveElement
    <3>2. Cardinality(InSession \ {s}) \in Nat  BY <3>1, FS_CardinalityType
    <3>3. QED  BY <1>1, <1>2, <1>3, <2>2, <3>1, <3>2, Finite
  <2>3. QED  BY <2>1, <2>2
<1>5. QED  BY <1>4 DEF CountersBalanced, InSession

\* A thread goes on to l: admitted, leaving or neither as before, nothing else changes.
Moves(s, l) ==
  /\ pc' = [pc EXCEPT ![s] = l]
  /\ l \in Counted <=> pc[s] \in Counted
  /\ l \in Leaving <=> pc[s] \in Leaving
  /\ pc[s] # "gone"
  /\ pc[s] \in {"welcome"} \cup Tunneling => l \in {"welcome"} \cup Tunneling
  /\ UNCHANGED <<numSessions, refs, sessionList, toStop, apc, script>>

LEMMA MovesKeeps ==
  ASSUME IInv, NEW s \in Sessions, NEW l \in PCs, Moves(s, l)
  PROVE  CountersBalanced' /\ SessionLimit' /\ RefsBalanced' /\ Placed' /\ Scripted'
<1>1. pc \in [Sessions -> PCs] /\ toStop \in [Admins -> SUBSET Sessions]
      /\ sessionList \subseteq Sessions
  BY DEF IInv, TypeOK
<1>2. \A t \in Sessions : /\ pc'[t] \in Counted <=> pc[t] \in Counted
                          /\ pc'[t] \in Leaving <=> pc[t] \in Leaving
                          /\ pc[t] = "gone" => pc'[t] = "gone"
                          /\ pc[t] \in {"welcome"} \cup Tunneling
                               => pc'[t] \in {"welcome"} \cup Tunneling
  BY <1>1 DEF Moves
<1>3. {t \in Sessions : pc[t] \in Counted}' = {t \in Sessions : pc[t] \in Counted}
      /\ {t \in Sessions \ AdminMode : pc[t] \in Counted}'
           = {t \in Sessions \ AdminMode : pc[t] \in Counted}
  BY <1>2
<1>4. CountersBalanced' /\ SessionLimit'
  BY <1>3 DEF Moves, IInv, CountersBalanced, SessionLimit
<1>5. RefsBalanced'
  <2> SUFFICES ASSUME NEW t \in Sessions
               PROVE (refs[t] = (IF pc[t] \in Counted \cup Leaving THEN 1 ELSE 0)
                       + (IF t \in sessionList THEN 1 ELSE 0)
                       + Cardinality({a \in Admins : t \in toStop[a]}))'
    BY DEF RefsBalanced
  <2>1. refs[t] = (IF pc[t] \in Counted \cup Leaving THEN 1 ELSE 0)
                       + (IF t \in sessionList THEN 1 ELSE 0)
                       + Cardinality({a \in Admins : t \in toStop[a]})
    BY DEF IInv, RefsBalanced
  <2>2. pc'[t] \in Counted \cup Leaving <=> pc[t] \in Counted \cup Leaving  BY <1>2
  <2>3. QED  BY <2>1, <2>2 DEF Moves
<1>6. Placed'
  BY <1>1, <1>2 DEF Moves, IInv, Placed
<1>7. Scripted'  BY DEF Moves, IInv, Scripted
<1>8. QED  BY <1>4, <1>5, <1>6, <1>7

\* The threads that only move on.
LEMMA SessionMoves ==
  ASSUME IInv, NEW s \in Sessions,
         \/ CheckOnline(s) \/ UnlockToEnumerate(s) \/ SiEnumSessionMain(s)
         \/ CheckMultiLogin(s) \/ UnlockToPlace(s) \/ SiGetHubHostingMember(s)
         \/ StartTunnelingMode(s) \/ CheckBeingOffline(s) \/ EnableSecureNATEx(s)
         \/ EndMain(s) \/ CheckBeingOfflineAgain(s)
         \/ Admit(s) /\ Full(s)
  PROVE  (\E l \in PCs : Moves(s, l)) /\ TypeOK' /\ NatOnlyOnline'
<1> USE DEF IInv, TypeOK, NatOnlyOnline, Goto, Keep, flagVars, adminVars, countVars, Moves,
            Admitting, Counted, Leaving, Tunneling, PCs
<1>1. CASE CheckOnline(s)  BY <1>1 DEF CheckOnline
<1>2. CASE UnlockToEnumerate(s)  BY <1>2 DEF UnlockToEnumerate
<1>3. CASE SiEnumSessionMain(s)
  <2>1. IsFiniteSet(sessionList)  BY AdmissionAssumption, FS_Subset
  <2>2. Cardinality({t \in sessionList : User[t] = User[s] /\ pc[t] \in Tunneling}) \in Nat
    BY <2>1, FS_Subset, FS_CardinalityType
  <2>3. QED  BY <1>3, <2>2 DEF SiEnumSessionMain
<1>4. CASE CheckMultiLogin(s)  BY <1>4 DEF CheckMultiLogin
<1>5. CASE UnlockToPlace(s)  BY <1>5 DEF UnlockToPlace, LoginChecked
<1>6. CASE SiGetHubHostingMember(s)  BY <1>6 DEF SiGetHubHostingMember
<1>7. CASE StartTunnelingMode(s)  BY <1>7 DEF StartTunnelingMode
<1>8. CASE CheckBeingOffline(s)  BY <1>8 DEF CheckBeingOffline
<1>9. CASE EnableSecureNATEx(s)  BY <1>9 DEF EnableSecureNATEx
<1>10. CASE EndMain(s)  BY <1>10 DEF EndMain
<1>11. CASE CheckBeingOfflineAgain(s)  BY <1>11 DEF CheckBeingOfflineAgain
<1>12. CASE Admit(s) /\ Full(s)  BY <1>12 DEF Admit, LoginChecked
<1>13. QED  BY <1>1, <1>2, <1>3, <1>4, <1>5, <1>6, <1>7, <1>8, <1>9, <1>10, <1>11, <1>12

\* Admission counts the session under the lock it checked the limit under, and
\* hands out its two references: to the thread and to the list.
LEMMA AdmitStep ==
  ASSUME IInv, NEW s \in Sessions, Admit(s), ~Full(s)
  PROVE  IInv'
<1> USE DEF Admitting, Counted, Leaving, Tunneling, PCs
<1>1. pc \in [Sessions -> PCs] /\ refs \in [Sessions -> Nat] /\ numSessions \in Nat
      /\ toStop \in [Admins -> SUBSET Sessions] /\ sessionList \subseteq Sessions
  BY DEF IInv, TypeOK
<1>2. /\ pc[s] \in Admitting
      /\ pc' = [pc EXCEPT ![s] = "welcome"] /\ refs' = [refs EXCEPT ![s] = 2]
      /\ numSessions' = numSessions + 1 /\ sessionList' = sessionList \cup {s}
      /\ UNCHANGED <<toStop, apc, script>>
  BY DEF Admit, LoginChecked, Goto, Keep, adminVars
<1>3. CountersBalanced'  BY <1>1, <1>2, CountStep
<1>4. SessionLimit'
  <2> SUFFICES ASSUME MaxSession # 0 PROVE Cardinality(Limited') <= MaxSession
    BY DEF SessionLimit, Limited
  <2>1. MaxSession \in Nat /\ AdminMode \subseteq Sessions  BY AdmissionAssumption
  <2>2. Cardinality(Limited) <= MaxSession  BY DEF IInv, SessionLimit, Limited
  <2>3. CASE s \in AdminMode
    <3>1. Limited' = Limited  BY <1>1, <1>2, <2>3 DEF Limited
    <3>2. QED  BY <2>2, <3>1
  <2>4. CASE s \notin AdminMode
    <3>1. Limited' = Limited \cup {s} /\ s \notin Limited
      BY <1>1, <1>2, <2>4 DEF Limited
    <3>2. Cardinality(Limited') = Cardinality(Limited) + 1
      BY <3>1, Finite, FS_AddElement
    <3>3. numSessions < MaxSession  BY <1>1, <2>1, <2>4 DEF Full
    <3>4. Cardinality(Limited) <= numSessions
      BY Finite DEF IInv, CountersBalanced, InSession
    <3>5. QED  BY <1>1, <2>1, <3>2, <3>3, <3>4, Finite
  <2>5. QED  BY <2>3, <2>4
<1>5. RefsBalanced'
  <2> SUFFICES ASSUME NEW t \in Sessions
               PROVE (refs[t] = (IF pc[t] \in Counted \cup Leaving THEN 1 ELSE 0)
                       + (IF t \in sessionList THEN 1 ELSE 0)
                       + Cardinality(Holders(t)))'
    BY DEF RefsBalanced, Holders
  <2>1. Holders(t)' = Holders(t)  BY <1>2 DEF Holders
  <2>2. CASE t = s
    <3>1. Holders(s) = {}  BY <1>2 DEF Holders, IInv, Placed
    <3>2. QED  BY <1>1, <1>2, <2>1, <2>2, <3>1, FS_EmptySet
  <2>3. CASE t # s
    <3>1. refs[t] = (IF pc[t] \in Counted \cup Leaving THEN 1 ELSE 0)
                    + (IF t \in sessionList THEN 1 ELSE 0) + Cardinality(Holders(t))
      BY DEF IInv, RefsBalanced, Holders
    <3>2. QED  BY <1>1, <1>2, <2>1, <2>3, <3>1
  <2>4. QED  BY <2>2, <2>3
<1>6. Placed'  BY <1>1, <1>2 DEF IInv, Placed
<1>7. TypeOK' /\ Scripted' /\ NatOnlyOnline'
  BY <1>1, <1>2 DEF Admit, Keep, flagVars, adminVars, IInv, TypeOK, Scripted, NatOnlyOnline
<1>8. QED  BY <1>3, <1>4, <1>5, <1>6, <1>7 DEF IInv

\* A reference is held wherever a step releases one.
LEMMA HoldersRemove ==
  ASSUME NEW s, NEW a \in Holders(s)
  PROVE  Cardinality(Holders(s) \ {a}) = Cardinality(Holders(s)) - 1
         /\ Cardinality(Holders(s)) \in Nat \ {0}
<1>1. IsFiniteSet(Holders(s)) /\ Cardinality(Holders(s)) \in Nat
  <2>1. Holders(s) \subseteq Admins  BY DEF Holders
  <2>2. QED  BY <2>1, AdmissionAssumption, FS_Subset, FS_CardinalityType
<1>2. IsFiniteSet(Holders(s) \ {a})
      /\ Cardinality(Holders(s) \ {a}) = Cardinality(Holders(s)) - 1
  BY <1>1, FS_RemoveElement
<1>3. Cardinality(Holders(s) \ {a}) \in Nat  BY <1>2, FS_CardinalityType
<1>4. QED  BY <1>1, <1>2, <1>3

\* The three steps of the clean-up, by where they lead.
Leaves(s, l) ==
  /\ pc' = [pc EXCEPT ![s] = l]
  /\ l = "removed" => pc[s] = "ending"
  /\ l = "uncounted" => pc[s] = "removed"
  /\ l = "gone" => pc[s] = "finished"
  /\ sessionList' = (IF l = "removed" THEN sessionList \ {s} ELSE sessionList)
  /\ refs' = (IF l = "gone" \/ (l = "removed" /\ s \in sessionList)
              THEN [refs EXCEPT ![s] = @ - 1] ELSE refs)
  /\ numSessions' = (IF l = "uncounted" THEN numSessions - 1 ELSE numSessions)
  /\ UNCHANGED <<toStop, apc, script>>

\* The clean-up: out of the list, off the counter, the thread's own reference.
LEMMA CleanupStep ==
  ASSUME IInv, NEW s \in Sessions, DelSession(s) \/ DecNumSessions(s) \/ Finish(s)
  PROVE  IInv'
<1> USE DEF Admitting, Counted, Leaving, Tunneling, PCs
<1>1. pc \in [Sessions -> PCs] /\ refs \in [Sessions -> Nat] /\ numSessions \in Nat
      /\ toStop \in [Admins -> SUBSET Sessions] /\ sessionList \subseteq Sessions
  BY DEF IInv, TypeOK
<1>2. Leaves(s, "removed") \/ Leaves(s, "uncounted") \/ Leaves(s, "gone")
  <2> USE DEF Leaves, Goto, Keep, adminVars, countVars
  <2>1. CASE DelSession(s)  BY <1>1, <2>1 DEF DelSession
  <2>2. CASE DecNumSessions(s)  BY <1>1, <2>2 DEF DecNumSessions
  <2>3. CASE Finish(s)  BY <1>1, <2>3 DEF Finish
  <2>4. QED  BY <2>1, <2>2, <2>3
<1>3. PICK l \in {"removed", "uncounted", "gone"} : Leaves(s, l)  BY <1>2
<1> USE DEF Leaves
<1>4. CountersBalanced' /\ numSessions' \in Nat
  <2>1. l \in PCs /\ pc' = [pc EXCEPT ![s] = l]  BY <1>3
  <2>2. numSessions' = numSessions
           + (IF l \in Counted /\ pc[s] \notin Counted THEN 1
              ELSE IF l \notin Counted /\ pc[s] \in Counted THEN -1 ELSE 0)
    BY <1>1, <1>3
  <2>3. QED  BY <2>1, <2>2, CountStep
<1>5. SessionLimit'
  <2> SUFFICES ASSUME MaxSession # 0 PROVE Cardinality(Limited') <= MaxSession
    BY DEF SessionLimit, Limited
  <2>1. Cardinality(Limited) <= MaxSession /\ MaxSession \in Nat
    BY AdmissionAssumption DEF IInv, SessionLimit, Limited
  <2>2. Limited' \subseteq Limited  BY <1>1, <1>3 DEF Limited
  <2>3. IsFiniteSet(Limited') /\ Cardinality(Limited') <= Cardinality(Limited)
    BY <2>2, Finite, FS_Subset
  <2>4. Cardinality(Limited') \in Nat  BY <2>3, FS_CardinalityType
  <2>5. QED  BY <2>1, <2>3, <2>4, Finite
<1>6. RefsBalanced' /\ refs' \in [Sessions -> Nat]
  <2>1. ASSUME NEW t \in Sessions
        PROVE refs'[t] \in Nat /\ (refs[t] = (IF pc[t] \in Counted \cup Leaving THEN 1 ELSE 0)
                       + (IF t \in sessionList THEN 1 ELSE 0)
                       + Cardinality(Holders(t)))'
    <3>1. refs[t] = (IF pc[t] \in Counted \cup Leaving THEN 1 ELSE 0)
                    + (IF t \in sessionList THEN 1 ELSE 0) + Cardinality(Holders(t))
      BY DEF IInv, RefsBalanced, Holders
    <3>2. Holders(t)' = Holders(t) /\ Cardinality(Holders(t)) \in Nat
      BY <1>3, Finite DEF Holders
    <3>3. s \in sessionList => l = "removed"  BY <1>3 DEF IInv, Placed
    <3>4. QED  BY <1>1, <1>3, <3>1, <3>2, <3>3
  <2>2. refs' = [t \in Sessions |-> refs'[t]]  BY <1>1, <1>3
  <2>3. QED  BY <2>1, <2>2 DEF RefsBalanced, Holders
<1>7. Placed'  BY <1>1, <1>3 DEF IInv, Placed
<1>8. TypeOK'
  BY <1>1, <1>3, <1>4, <1>6
     DEF DelSession, DecNumSessions, Finish, Keep, flagVars, adminVars, countVars, IInv, TypeOK
<1>9. Scripted' /\ NatOnlyOnline'
  BY <1>3 DEF DelSession, DecNumSessions, Finish, Keep, flagVars, adminVars,
              IInv, Scripted, NatOnlyOnline
<1>10. QED  BY <1>4, <1>5, <1>6, <1>7, <1>8, <1>9 DEF IInv

\* The steps of an administrator that touch neither the sessions nor their lists.
LEMMA AdminMoves ==
  ASSUME IInv, NEW a \in Admins,
         \/ Call(a) \/ SetHubOnline(a) \/ SetBeingOffline(a) \/ LockOnline(a)
         \/ (\E s \in Sessions : StopSession(a, s))
         \/ UnlockOnline(a) \/ ClearBeingOffline(a) \/ HaltHub(a)
  PROVE  IInv'
<1> USE DEF threadVars, countVars, flagVars, adminVars, AGoto, Return, Op, APCs
<1>1. UNCHANGED <<pc, refs, numSessions, sessionList, toStop>>
  BY DEF Call, SetHubOnline, SetBeingOffline, LockOnline, StopSession, UnlockOnline,
         ClearBeingOffline, HaltHub
<1>2. CountersBalanced' /\ SessionLimit' /\ RefsBalanced'
  BY <1>1 DEF IInv, CountersBalanced, SessionLimit, RefsBalanced
<1>3. TypeOK' /\ Scripted' /\ NatOnlyOnline'
  <2> USE DEF IInv, TypeOK, Scripted, NatOnlyOnline
  <2>1. CASE Call(a)  BY <2>1 DEF Call
  <2> DEFINE Scripts == Seq({"online", "offline", "stop"})
  <2>10. script[a] # <<>> => [script EXCEPT ![a] = Tail(@)] \in [Admins -> Scripts]
    <3>1. \A q \in Scripts : q # <<>> => Tail(q) \in Scripts  BY HeadTailProperties
    <3>2. QED  BY <3>1
  <2>2. CASE SetHubOnline(a)
    <3>1. natOn' \in BOOLEAN /\ Offline' = FALSE  BY <2>2 DEF SetHubOnline
    <3>2. script[a] # <<>>  BY <2>2 DEF SetHubOnline
    <3>3. QED  BY <2>2, <2>10, <3>1, <3>2 DEF SetHubOnline
  <2>3. CASE SetBeingOffline(a)  BY <2>3 DEF SetBeingOffline
  <2>4. CASE LockOnline(a)  BY <2>4 DEF LockOnline
  <2>5. CASE \E s \in Sessions : StopSession(a, s)  BY <2>5 DEF StopSession
  <2>6. CASE UnlockOnline(a)  BY <2>6 DEF UnlockOnline
  <2>7. CASE ClearBeingOffline(a)  BY <2>7, <2>10 DEF ClearBeingOffline
  <2>8. CASE HaltHub(a)  BY <2>8, <2>10 DEF HaltHub
  <2>9. QED  BY <2>1, <2>2, <2>3, <2>4, <2>5, <2>6, <2>7, <2>8
<1>4. Placed'
  <2>1. \A b \in Admins : toStop[b] # {} => apc'[b] = "stopping"
    <3> USE DEF IInv, TypeOK, Placed
    <3>1. CASE Call(a)  BY <3>1 DEF Call
    <3>2. CASE SetHubOnline(a)  BY <3>2 DEF SetHubOnline
    <3>3. CASE SetBeingOffline(a)  BY <3>3 DEF SetBeingOffline
    <3>4. CASE LockOnline(a)  BY <3>4 DEF LockOnline
    <3>5. CASE \E s \in Sessions : StopSession(a, s)  BY <3>5 DEF StopSession
    <3>6. CASE UnlockOnline(a)  BY <3>6 DEF UnlockOnline
    <3>7. CASE ClearBeingOffline(a)  BY <3>7 DEF ClearBeingOffline
    <3>8. CASE HaltHub(a)  BY <3>8 DEF HaltHub
    <3>9. QED  BY <3>1, <3>2, <3>3, <3>4, <3>5, <3>6, <3>7, <3>8
  <2>2. QED  BY <1>1, <2>1 DEF IInv, Placed
<1>5. QED  BY <1>2, <1>3, <1>4 DEF IInv

\* The reference of the list passes to the copy with the session ...
LEMMA StopAllStep ==
  ASSUME IInv, NEW a \in Admins, StopAllSession(a)
  PROVE  IInv'
<1> USE DEF StopAllSession, threadVars, countVars, flagVars, AGoto, APCs
<1>1. toStop \in [Admins -> SUBSET Sessions] /\ sessionList \subseteq Sessions
      /\ apc \in [Admins -> APCs] /\ refs \in [Sessions -> Nat]
  BY DEF IInv, TypeOK
<1>2. toStop[a] = {}  BY DEF IInv, Placed
<1>3. RefsBalanced'
  <2> SUFFICES ASSUME NEW t \in Sessions
               PROVE (refs[t] = (IF pc[t] \in Counted \cup Leaving THEN 1 ELSE 0)
                       + (IF t \in sessionList THEN 1 ELSE 0)
                       + Cardinality(Holders(t)))'
    BY DEF RefsBalanced, Holders
  <2>1. refs[t] = (IF pc[t] \in Counted \cup Leaving THEN 1 ELSE 0)
                  + (IF t \in sessionList THEN 1 ELSE 0) + Cardinality(Holders(t))
    BY DEF IInv, RefsBalanced, Holders
  <2>2. Holders(t)' = IF t \in sessionList THEN Holders(t) \cup {a} ELSE Holders(t)
    BY <1>1, <1>2 DEF Holders
  <2>3. a \notin Holders(t)  BY <1>2 DEF Holders
  <2>4. Cardinality(Holders(t) \cup {a}) = Cardinality(Holders(t)) + 1
    BY <2>3, Finite, FS_AddElement
  <2>5. QED  BY <2>1, <2>2, <2>4, Finite
<1>4. Placed'  BY <1>1 DEF IInv, Placed, Counted, Leaving, Tunneling
<1>5. CountersBalanced' /\ SessionLimit' /\ Scripted' /\ NatOnlyOnline'
  BY <1>1 DEF IInv, CountersBalanced, SessionLimit, Scripted, NatOnlyOnline
<1>6. TypeOK'  BY <1>1 DEF IInv, TypeOK
<1>7. QED  BY <1>3, <1>4, <1>5, <1>6 DEF IInv

\* ... and is released from there once the thread has ended.
LEMMA WaitThreadStep ==
  ASSUME IInv, NEW a \in Admins, NEW s \in Sessions, WaitThread(a, s)
  PROVE  IInv'
<1> USE DEF WaitThread, flagVars, countVars
<1>1. toStop \in [Admins -> SUBSET Sessions] /\ refs \in [Sessions -> Nat]
  BY DEF IInv, TypeOK
<1>2. RefsBalanced' /\ refs' \in [Sessions -> Nat]
  <2>1. ASSUME NEW t \in Sessions
        PROVE refs'[t] \in Nat /\ (refs[t] = (IF pc[t] \in Counted \cup Leaving THEN 1 ELSE 0)
                       + (IF t \in sessionList THEN 1 ELSE 0)
                       + Cardinality(Holders(t)))'
    <3>1. refs[t] = (IF pc[t] \in Counted \cup Leaving THEN 1 ELSE 0)
                    + (IF t \in sessionList THEN 1 ELSE 0) + Cardinality(Holders(t))
      BY DEF IInv, RefsBalanced, Holders
    <3>2. Holders(t)' = IF t = s THEN Holders(t) \ {a} ELSE Holders(t)
      BY <1>1 DEF Holders
    <3>3. a \in Holders(s)  BY DEF Holders
    <3>4. Cardinality(Holders(s) \ {a}) = Cardinality(Holders(s)) - 1
          /\ Cardinality(Holders(s)) \in Nat \ {0}
      BY <3>3, HoldersRemove
    <3>5. CASE t = s  BY <1>1, <3>1, <3>2, <3>4, <3>5
    <3>6. CASE t # s  BY <1>1, <3>1, <3>2, <3>6
    <3>7. QED  BY <3>5, <3>6
  <2>2. refs' = [t \in Sessions |-> refs'[t]]  BY <1>1
  <2>3. QED  BY <2>1, <2>2 DEF RefsBalanced, Holders
<1>3. Placed'  BY <1>1 DEF IInv, Placed
<1>4. CountersBalanced' /\ SessionLimit' /\ Scripted' /\ NatOnlyOnline'
  BY DEF IInv, CountersBalanced, SessionLimit, Scripted, NatOnlyOnline
<1>5. TypeOK'  BY <1>1, <1>2 DEF IInv, TypeOK
<1>6. QED  BY <1>2, <1>3, <1>4, <1>5 DEF IInv

LEMMA InitIInv == Init => IInv
<1> SUFFICES ASSUME Init PROVE IInv  OBVIOUS
<1> USE DEF Init, Counted, Leaving, Tunneling
<1>1. {s \in Sessions : pc[s] \in Counted} = {}
      /\ {s \in Sessions \ AdminMode : pc[s] \in Counted} = {}
      /\ \A s : {a \in Admins : s \in toStop[a]} = {}
  OBVIOUS
<1>2. Cardinality({}) = 0  BY FS_EmptySet
<1>3. CountersBalanced  BY <1>1, <1>2 DEF CountersBalanced
<1>4. SessionLimit
  <2>1. MaxSession \in Nat  BY AdmissionAssumption
  <2>2. Cardinality({s \in Sessions \ AdminMode : pc[s] \in Counted}) = 0  BY <1>1, <1>2
  <2>3. QED  BY <2>1, <2>2 DEF SessionLimit
<1>5. RefsBalanced  BY <1>1, <1>2 DEF RefsBalanced
<1>6. TypeOK
  <2>1. {Offline, Halt, BeingOffline} \subseteq BOOLEAN /\ natOn \in BOOLEAN  OBVIOUS
  <2>2. script \in [Admins -> Seq({"online", "offline", "stop"})]  BY AdmissionAssumption
  <2>3. QED  BY <2>1, <2>2 DEF TypeOK, PCs, Admitting, APCs
<1>7. Placed /\ Scripted /\ NatOnlyOnline  BY DEF Placed, Scripted, NatOnlyOnline
<1>8. QED  BY <1>3, <1>4, <1>5, <1>6, <1>7 DEF IInv

LEMMA SessionIInv ==
  ASSUME IInv, NEW s \in Sessions, CheckOnline(s) \/ EndMain(s) \/ SessionProgress(s)
  PROVE  IInv'
<1>1. CASE Admit(s) /\ ~Full(s)  BY <1>1, AdmitStep
<1>2. CASE DelSession(s) \/ DecNumSessions(s) \/ Finish(s)  BY <1>2, CleanupStep
<1>3. CASE \/ CheckOnline(s) \/ UnlockToEnumerate(s) \/ SiEnumSessionMain(s)
           \/ CheckMultiLogin(s) \/ UnlockToPlace(s) \/ SiGetHubHostingMember(s)
           \/ StartTunnelingMode(s) \/ CheckBeingOffline(s) \/ EnableSecureNATEx(s)
           \/ EndMain(s) \/ CheckBeingOfflineAgain(s) \/ (Admit(s) /\ Full(s))
  <2>1. (\E l \in PCs : Moves(s, l)) /\ TypeOK' /\ NatOnlyOnline'  BY <1>3, SessionMoves
  <2>2. QED  BY <2>1, MovesKeeps DEF IInv
<1>4. QED  BY <1>1, <1>2, <1>3 DEF SessionProgress

LEMMA NextIInv == IInv /\ [Next]_vars => IInv'
<1> SUFFICES ASSUME IInv, [Next]_vars PROVE IInv'  OBVIOUS
<1>1. ASSUME NEW s \in Sessions, CheckOnline(s) \/ EndMain(s) \/ SessionProgress(s)
      PROVE IInv'
  BY <1>1, SessionIInv
<1>2. ASSUME NEW a \in Admins, AdminProgress(a) PROVE IInv'
  BY <1>2, AdminMoves, StopAllStep, WaitThreadStep DEF AdminProgress
<1>3. CASE UNCHANGED vars
  BY <1>3 DEF vars, threadVars, countVars, flagVars, adminVars, IInv, TypeOK, CountersBalanced,
              RefsBalanced, Placed, Scripted, SessionLimit, NatOnlyOnline
<1>4. QED  BY <1>1, <1>2, <1>3 DEF Next

\* IInv holds in every state that is reached.
THEOREM AdmissionInductive == Spec => []IInv
<1>1. QED  BY InitIInv, NextIInv, PTL DEF Spec

\* Every variable keeps its type: no counter of references gets below zero.
THEOREM AdmissionTypes == Spec => []TypeOK
<1>1. IInv => TypeOK  BY DEF IInv
<1>2. QED  BY <1>1, AdmissionInductive, PTL

\* NumSessions is the number of sessions between the two ends of ServerAccept's
\* bracket, in every interleaving with SetHubOnline, SetHubOffline and StopHub.
THEOREM CountersCorrect == Spec => []CountersBalanced
<1>1. IInv => CountersBalanced  BY DEF IInv
<1>2. QED  BY <1>1, AdmissionInductive, PTL

\* A hub never has more sessions of ordinary users than its limit.
THEOREM SessionLimitCorrect == Spec => []SessionLimit
<1>1. IInv => SessionLimit  BY DEF IInv
<1>2. QED  BY <1>1, AdmissionInductive, PTL

\* s->ref counts the owners of a session: DelSession and StopAllSession never
\* release the same reference, and no session is freed while it is waited for.
THEOREM RefsCorrect == Spec => []RefsBalanced
<1>1. IInv => RefsBalanced  BY DEF IInv
<1>2. QED  BY <1>1, AdmissionInductive, PTL

\* An offline hub that was not halted runs no SecureNAT.
THEOREM NatCorrect == Spec => []NatOnlyOnline
<1>1. IInv => NatOnlyOnline  BY DEF IInv
<1>2. QED  BY <1>1, AdmissionInductive, PTL

-----------------------------------------------------------------------------
(* The two locks *)

\* What a session's thread does: it may take or let go of hub->lock, and wants
\* lock_online only on a dynamic hub.
LEMMA SessionLocks ==
  ASSUME TypeOK, LockOrder, NEW s \in Sessions,
         CheckOnline(s) \/ EndMain(s) \/ SessionProgress(s)
  PROVE  LockOrder'
<1> USE DEF Goto, Keep, flagVars, adminVars, countVars, HubLocked, OnlineLocked
<1>1. pc \in [Sessions -> PCs] /\ Nobody \notin Sessions /\ UNCHANGED <<onlineLock, apc>>
  BY AdmissionAssumption
     DEF TypeOK, CheckOnline, EndMain, SessionProgress, UnlockToEnumerate, SiEnumSessionMain,
         CheckMultiLogin, UnlockToPlace, SiGetHubHostingMember, Admit, StartTunnelingMode,
         CheckBeingOffline, EnableSecureNATEx, DelSession, DecNumSessions,
         CheckBeingOfflineAgain, Finish
<1>2. ASSUME \A t \in Sessions : hubLock' = t <=> pc'[t] \in HubLocked,
             ~Dynamic => startedNat' = {}
                         /\ \A t \in Sessions : pc'[t] \notin {"starting", "stopping"}
      PROVE  LockOrder'
  BY <1>1, <1>2 DEF LockOrder
<1>3. /\ \A t \in Sessions : hubLock = t <=> pc[t] \in HubLocked
      /\ ~Dynamic => startedNat = {} /\ \A t \in Sessions : pc[t] \notin {"starting", "stopping"}
  BY DEF LockOrder
<1>4. CASE CheckOnline(s) \/ CheckMultiLogin(s)
  BY <1>1, <1>2, <1>3, <1>4 DEF CheckOnline, CheckMultiLogin
<1>5. CASE UnlockToEnumerate(s) \/ SiEnumSessionMain(s)
  BY <1>1, <1>2, <1>3, <1>5 DEF UnlockToEnumerate, SiEnumSessionMain
<1>6. CASE UnlockToPlace(s) \/ Admit(s)
  BY <1>1, <1>2, <1>3, <1>6 DEF UnlockToPlace, Admit, LoginChecked
<1>7. CASE SiGetHubHostingMember(s)
  BY <1>1, <1>2, <1>3, <1>7 DEF SiGetHubHostingMember
<1>8. CASE StartTunnelingMode(s) \/ EndMain(s)
  BY <1>1, <1>2, <1>3, <1>8 DEF StartTunnelingMode, EndMain
<1>9. CASE CheckBeingOffline(s) \/ EnableSecureNATEx(s) \/ CheckBeingOfflineAgain(s)
  BY <1>1, <1>2, <1>3, <1>9 DEF CheckBeingOffline, EnableSecureNATEx, CheckBeingOfflineAgain
<1>10. CASE DelSession(s) \/ DecNumSessions(s) \/ Finish(s)
  BY <1>1, <1>2, <1>3, <1>10 DEF DelSession, DecNumSessions, Finish
<1>11. QED
  BY <1>4, <1>5, <1>6, <1>7, <1>8, <1>9, <1>10 DEF SessionProgress

LEMMA AdminLocks ==
  ASSUME TypeOK, LockOrder, NEW a \in Admins, AdminProgress(a)
  PROVE  LockOrder'
<1> USE DEF AGoto, Return, threadVars, countVars, flagVars, adminVars, OnlineLocked
<1>1. apc \in [Admins -> APCs] /\ Nobody \notin Admins
      /\ UNCHANGED <<pc, startedNat, hubLock>>
  BY AdmissionAssumption
     DEF TypeOK, AdminProgress, Call, SetHubOnline, SetBeingOffline, LockOnline, StopAllSession,
         StopSession, WaitThread, UnlockOnline, ClearBeingOffline, HaltHub
<1>2. ASSUME \A b \in Admins : onlineLock' = b <=> apc'[b] \in OnlineLocked PROVE LockOrder'
  BY <1>1, <1>2 DEF LockOrder, HubLocked
<1>3. \A b \in Admins : onlineLock = b <=> apc[b] \in OnlineLocked
  BY DEF LockOrder
<1>4. CASE Call(a) \/ SetHubOnline(a) \/ SetBeingOffline(a)
  BY <1>1, <1>2, <1>3, <1>4 DEF Call, SetHubOnline, SetBeingOffline
<1>5. CASE LockOnline(a) \/ UnlockOnline(a)
  BY <1>1, <1>2, <1>3, <1>5 DEF LockOnline, UnlockOnline
<1>6. CASE StopAllSession(a) \/ \E s \in Sessions : StopSession(a, s) \/ WaitThread(a, s)
  BY <1>1, <1>2, <1>3, <1>6 DEF StopAllSession, StopSession, WaitThread
<1>7. CASE ClearBeingOffline(a) \/ HaltHub(a)
  BY <1>1, <1>2, <1>3, <1>7 DEF ClearBeingOffline, HaltHub
<1>8. QED  BY <1>4, <1>5, <1>6, <1>7 DEF AdminProgress

\* A thread holds a lock exactly in the sections the code brackets with it, never
\* both; and what deadlocks a dynamic hub, a session that wants lock_online while
\* its holder waits for the session, cannot happen on any other.
THEOREM LockOrderCorrect == Spec => []LockOrder
<1>1. Init => LockOrder
  BY AdmissionAssumption DEF Init, LockOrder, HubLocked, OnlineLocked
<1>2. IInv /\ LockOrder /\ [Next]_vars => LockOrder'
  <2> SUFFICES ASSUME IInv, LockOrder, [Next]_vars PROVE LockOrder'  OBVIOUS
  <2>1. TypeOK  BY DEF IInv
  <2>2. ASSUME NEW s \in Sessions, CheckOnline(s) \/ EndMain(s) \/ SessionProgress(s)
        PROVE  LockOrder'
    BY <2>1, <2>2, SessionLocks
  <2>3. ASSUME NEW a \in Admins, AdminProgress(a) PROVE LockOrder'
    BY <2>1, <2>3, AdminLocks
  <2>4. CASE UNCHANGED vars
    BY <2>4 DEF vars, threadVars, countVars, adminVars, LockOrder, HubLocked, OnlineLocked
  <2>5. QED  BY <2>2, <2>3, <2>4 DEF Next
<1>3. QED  BY <1>1, <1>2, AdmissionInductive, PTL DEF Spec
=============================================================================
