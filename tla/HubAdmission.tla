---------------------------- MODULE HubAdmission ----------------------------
(***************************************************************************)
(* How connections become sessions of a Virtual Hub and how the hub sheds    *)
(* them: the threads of ServerAccept (Cedar/Protocol.c) against the threads   *)
(* that call SetHubOnline, SetHubOffline and StopHub (Cedar/Hub.c).           *)
(*                                                                           *)
(* Two locks are involved and no code holds both: hub->lock guards admission  *)
(* and the counters, hub->lock_online the change between online and offline.  *)
(* hub->Offline and hub->BeingOffline are read under neither or the wrong     *)
(* one, which is why each of those reads is a step of its own here.           *)
(***************************************************************************)
EXTENDS Integers, FiniteSets, Sequences

CONSTANTS
  Sessions,        \* connections that have authenticated, one thread each
  Admins,          \* threads that change the state of the hub
  Nobody,          \* the holder of a free lock
  User,            \* session -> user name
  AdminMode,       \* sessions exempt from the limit of the hub (admin_mode)
  MaxSession,      \* hub->Option->MaxSession, 0 for no limit
  MaxServer,       \* the server's capability i_max_sessions
  MaxLogins,       \* policy->MultiLogins or max_multilogins_per_user, 0 for none
  FarmController,  \* the server is a farm controller ...
  Dynamic,         \* ... and the hub one of its dynamic hubs
  EnableSecureNAT, \* hub->EnableSecureNAT
  Script           \* admin -> the calls it makes: "online", "offline", "stop"

ASSUME AdmissionAssumption ==
  /\ Nobody \notin Sessions \cup Admins /\ Sessions \cap Admins = {}
  /\ IsFiniteSet(Sessions) /\ IsFiniteSet(Admins)
  /\ AdminMode \subseteq Sessions
  /\ Script \in [Admins -> Seq({"online", "offline", "stop"})]
  /\ {MaxSession, MaxServer, MaxLogins} \subseteq Nat
  /\ {FarmController, Dynamic, EnableSecureNAT} \subseteq BOOLEAN /\ (Dynamic => FarmController)

VARIABLES
  pc,            \* session -> where its ServerAccept thread is
  seen,          \* session -> logins of its user that SiEnumSessionMain found
  halt,          \* sessions with s->Halt set
  refs,          \* session -> s->ref
  startedNat,    \* sessions with cluster_dynamic_secure_nat
  hubLock,       \* holder of hub->lock
  numSessions,   \* hub->NumSessions
  sessionList,   \* hub->SessionList, less the session of the SecureNAT
  Offline, Halt, BeingOffline,   \* flags of the hub
  onlineLock,    \* holder of hub->lock_online
  natOn,         \* hub->SecureNAT # NULL, and its session is in hub->SessionList
  apc,           \* admin -> where its thread is
  script,        \* admin -> its calls, from the one under way on
  oldStatus,     \* admin -> old_status of StopHub
  toStop         \* admin -> the copy StopAllSession took and has still to stop

threadVars == <<pc, seen, halt, refs, startedNat>>
countVars == <<hubLock, numSessions>>
flagVars == <<Offline, Halt, BeingOffline>>
adminVars == <<apc, script, oldStatus, toStop>>
vars == <<threadVars, countVars, sessionList, flagVars, onlineLock, natOn, adminVars>>

\* Before admission; admitted and counted; after NumSessions was decremented.
Admitting == {"accepted", "online", "enumerating", "enumerated", "unique", "placing", "placed"}
Counted == {"welcome", "tunneling", "starting", "main", "ending", "removed"}
Leaving == {"uncounted", "stopping", "finished"}
PCs == Admitting \cup Counted \cup Leaving \cup {"refused", "gone"}
APCs == {"idle", "called", "waiting", "locked", "stopping", "unlocked", "clearing"}

Init ==
  /\ pc = [s \in Sessions |-> "accepted"] /\ seen = [s \in Sessions |-> 0]
  /\ halt = {} /\ refs = [s \in Sessions |-> 0] /\ startedNat = {}
  /\ hubLock = Nobody /\ numSessions = 0 /\ sessionList = {}
  /\ Offline = FALSE /\ Halt = FALSE /\ BeingOffline = FALSE
  /\ onlineLock = Nobody /\ natOn = (EnableSecureNAT /\ ~Dynamic)
  /\ apc = [a \in Admins |-> "idle"] /\ script = Script
  /\ oldStatus = [a \in Admins |-> FALSE] /\ toStop = [a \in Admins |-> {}]

-----------------------------------------------------------------------------
(* Admission: ServerAccept up to Unlock(hub->lock) *)

Goto(s, l) == pc' = [pc EXCEPT ![s] = l]
Keep == UNCHANGED <<onlineLock, natOn, flagVars, adminVars>>

\* Lock(hub->lock), then Halt and Offline are looked at, once and for all.
CheckOnline(s) ==
  /\ pc[s] = "accepted" /\ hubLock = Nobody
  /\ IF Halt \/ Offline
     THEN Goto(s, "refused") /\ UNCHANGED hubLock
     ELSE Goto(s, "online") /\ hubLock' = s
  /\ UNCHANGED <<seen, halt, refs, startedNat, numSessions, sessionList>> /\ Keep

\* A limit of logins is checked with the lock let go ...
UnlockToEnumerate(s) ==
  /\ pc[s] = "online" /\ MaxLogins # 0
  /\ Goto(s, "enumerating") /\ hubLock' = Nobody
  /\ UNCHANGED <<seen, halt, refs, startedNat, numSessions, sessionList>> /\ Keep

Tunneling == {"tunneling", "starting", "main", "ending"}

\* ... SiEnumSessionMain counts what it finds with a TCP connection (the exemption of
\* a cluster's own sessions, by UniqueId, is left out) ...
SiEnumSessionMain(s) ==
  /\ pc[s] = "enumerating"
  /\ seen' = [seen EXCEPT ![s] =
       Cardinality({t \in sessionList : User[t] = User[s] /\ pc[t] \in Tunneling})]
  /\ Goto(s, "enumerated")
  /\ UNCHANGED <<halt, refs, startedNat, countVars, sessionList>> /\ Keep

\* ... and the count is compared with the lock held again.
CheckMultiLogin(s) ==
  /\ pc[s] = "enumerated" /\ hubLock = Nobody
  /\ IF seen[s] >= MaxLogins
     THEN Goto(s, "refused") /\ UNCHANGED hubLock
     ELSE Goto(s, "unique") /\ hubLock' = s
  /\ seen' = [seen EXCEPT ![s] = 0]
  /\ UNCHANGED <<halt, refs, startedNat, numSessions, sessionList>> /\ Keep

LoginChecked(s) == pc[s] = "unique" \/ (pc[s] = "online" /\ MaxLogins = 0)

\* A farm controller lets the lock go to choose a member ...
UnlockToPlace(s) ==
  /\ LoginChecked(s) /\ FarmController
  /\ Goto(s, "placing") /\ hubLock' = Nobody
  /\ UNCHANGED <<seen, halt, refs, startedNat, numSessions, sessionList>> /\ Keep

\* ... which is another one, or none, or this server.
SiGetHubHostingMember(s) ==
  /\ pc[s] = "placing"
  /\ \/ Goto(s, "refused") /\ UNCHANGED hubLock
     \/ hubLock = Nobody /\ Goto(s, "placed") /\ hubLock' = s
  /\ UNCHANGED <<seen, halt, refs, startedNat, numSessions, sessionList>> /\ Keep

\* Mutant: one session more than the limit is admitted.
FullByOne(s) ==
  \/ s \notin AdminMode /\ MaxSession # 0 /\ MaxSession < numSessions
  \/ numSessions >= MaxServer

Full(s) ==
  \/ s \notin AdminMode /\ MaxSession # 0 /\ MaxSession <= numSessions
  \/ numSessions >= MaxServer

\* The limits, Inc(NumSessions) and NewServerSessionEx with its AddSession, all
\* under hub->lock: a new session has one reference, and the list another.
Admit(s) ==
  /\ pc[s] = "placed" \/ (LoginChecked(s) /\ ~FarmController)
  /\ hubLock' = Nobody
  /\ IF Full(s)
     THEN Goto(s, "refused") /\ UNCHANGED <<refs, numSessions, sessionList>>
     ELSE /\ Goto(s, "welcome")
          /\ refs' = [refs EXCEPT ![s] = 2]
          /\ numSessions' = numSessions + 1
          /\ sessionList' = sessionList \cup {s}
  /\ UNCHANGED <<seen, halt, startedNat>> /\ Keep

-----------------------------------------------------------------------------
(* The session: ServerAccept from PackWelcome on, SessionMain, the clean-up *)

StartTunnelingMode(s) ==
  /\ pc[s] = "welcome" /\ Goto(s, "tunneling")
  /\ UNCHANGED <<seen, halt, refs, startedNat, countVars, sessionList>> /\ Keep

\* BeingOffline is read before EnableSecureNATEx takes lock_online.
CheckBeingOffline(s) ==
  /\ pc[s] = "tunneling"
  /\ LET start == Dynamic /\ ~BeingOffline
     IN /\ Goto(s, IF start THEN "starting" ELSE "main")
        /\ startedNat' = IF start THEN startedNat \cup {s} ELSE startedNat
  /\ UNCHANGED <<seen, halt, refs, countVars, sessionList>> /\ Keep

\* LIST_NUM(hub->SessionList): SnNewSecureNAT returns when its session is in it.
ListNum == Cardinality(sessionList) + (IF natOn THEN 1 ELSE 0)

\* Mutant: the hub's being offline is overlooked.
EnableSecureNATAnyway(s) ==
  /\ pc[s] \in {"starting", "stopping"} /\ onlineLock = Nobody
  /\ Goto(s, IF pc[s] = "starting" THEN "main" ELSE "finished")
  /\ LET stop == ~EnableSecureNAT \/ ListNum <= (IF natOn THEN 1 ELSE 0)
     IN natOn' = ~stop
  /\ UNCHANGED <<seen, halt, refs, startedNat, countVars, sessionList, onlineLock,
                 flagVars, adminVars>>

\* The SecureNAT of a dynamic hub runs while there are other sessions.
EnableSecureNATEx(s) ==
  /\ pc[s] \in {"starting", "stopping"} /\ onlineLock = Nobody
  /\ Goto(s, IF pc[s] = "starting" THEN "main" ELSE "finished")
  /\ LET stop == ~EnableSecureNAT \/ ListNum <= (IF natOn THEN 1 ELSE 0)
     IN natOn' = (~stop /\ (natOn \/ ~Offline))
  /\ UNCHANGED <<seen, halt, refs, startedNat, countVars, sessionList, onlineLock,
                 flagVars, adminVars>>

\* The loop ends when s->Halt is set, or the connection is lost.
EndMain(s) ==
  /\ pc[s] = "main" /\ Goto(s, "ending")
  /\ UNCHANGED <<seen, halt, refs, startedNat, countVars, sessionList>> /\ Keep

\* Mutant: the reference of the list is released whether the list had it or not.
DelSessionAlways(s) ==
  /\ pc[s] = "ending" /\ Goto(s, "removed")
  /\ sessionList' = sessionList \ {s}
  /\ refs' = [refs EXCEPT ![s] = @ - 1]
  /\ UNCHANGED <<seen, halt, startedNat, countVars>> /\ Keep

\* StopAllSession may have taken the session out of the list, and its reference.
DelSession(s) ==
  /\ pc[s] = "ending" /\ Goto(s, "removed")
  /\ sessionList' = sessionList \ {s}
  /\ refs' = IF s \in sessionList THEN [refs EXCEPT ![s] = @ - 1] ELSE refs
  /\ UNCHANGED <<seen, halt, startedNat, countVars>> /\ Keep

\* Mutant: a halted session is not taken off the counter.
DecNumSessionsUnlessHalted(s) ==
  /\ pc[s] = "removed" /\ hubLock = Nobody
  /\ Goto(s, "uncounted")
  /\ numSessions' = IF s \in halt THEN numSessions ELSE numSessions - 1
  /\ UNCHANGED <<seen, halt, refs, startedNat, hubLock, sessionList>> /\ Keep

DecNumSessions(s) ==
  /\ pc[s] = "removed" /\ hubLock = Nobody
  /\ Goto(s, "uncounted") /\ numSessions' = numSessions - 1
  /\ UNCHANGED <<seen, halt, refs, startedNat, hubLock, sessionList>> /\ Keep

CheckBeingOfflineAgain(s) ==
  /\ pc[s] = "uncounted"
  /\ Goto(s, IF s \in startedNat /\ ~BeingOffline THEN "stopping" ELSE "finished")
  /\ UNCHANGED <<seen, halt, refs, startedNat, countVars, sessionList>> /\ Keep

\* ReleaseSession, and the thread ends.
Finish(s) ==
  /\ pc[s] = "finished" /\ Goto(s, "gone")
  /\ refs' = [refs EXCEPT ![s] = @ - 1]
  /\ UNCHANGED <<seen, halt, startedNat, countVars, sessionList>> /\ Keep

-----------------------------------------------------------------------------
(* The hub goes online and offline *)

AGoto(a, l) == apc' = [apc EXCEPT ![a] = l]

Op(a) == Head(script[a])

\* StopHub remembers Offline before it calls SetHubOffline.
Call(a) ==
  /\ apc[a] = "idle" /\ script[a] # <<>>
  /\ AGoto(a, "called")
  /\ oldStatus' = [oldStatus EXCEPT ![a] = Op(a) = "stop" /\ Offline]
  /\ UNCHANGED <<threadVars, countVars, sessionList, flagVars, onlineLock, natOn,
                 script, toStop>>

Return(a) == AGoto(a, "idle") /\ script' = [script EXCEPT ![a] = Tail(@)]

\* All under lock_online: the SecureNAT is started just before Offline is cleared.
SetHubOnline(a) ==
  /\ apc[a] = "called" /\ Op(a) = "online" /\ onlineLock = Nobody
  /\ Return(a)
  /\ Offline' = FALSE
  /\ natOn' = (natOn \/ (Offline /\ EnableSecureNAT /\ ~Dynamic))
  /\ UNCHANGED <<threadVars, countVars, sessionList, Halt, BeingOffline, onlineLock,
                 oldStatus, toStop>>

SetBeingOffline(a) ==
  /\ apc[a] = "called" /\ Op(a) # "online"
  /\ AGoto(a, "waiting") /\ BeingOffline' = TRUE
  /\ UNCHANGED <<threadVars, countVars, sessionList, Offline, Halt, onlineLock, natOn,
                 script, oldStatus, toStop>>

\* Lock(lock_online); nothing to do when the hub is offline or halted already.
\* Otherwise the SecureNAT is stopped, and the hub offline, before any session is.
LockOnline(a) ==
  /\ apc[a] = "waiting" /\ onlineLock = Nobody
  /\ IF Offline \/ Halt
     THEN AGoto(a, "unlocked") /\ UNCHANGED <<onlineLock, Offline, natOn>>
     ELSE /\ AGoto(a, "locked") /\ onlineLock' = a
          /\ natOn' = FALSE /\ Offline' = TRUE
  /\ UNCHANGED <<threadVars, countVars, sessionList, Halt, BeingOffline, script, oldStatus, toStop>>

\* Mutant: the list is copied and not emptied.
StopAllSessionCopied(a) ==
  /\ apc[a] = "locked"
  /\ AGoto(a, "stopping")
  /\ toStop' = [toStop EXCEPT ![a] = sessionList]
  /\ UNCHANGED <<threadVars, countVars, sessionList, flagVars, onlineLock, natOn, script,
                 oldStatus>>

\* StopAllSession: the list is copied and emptied, its references go to the copy.
StopAllSession(a) ==
  /\ apc[a] = "locked"
  /\ AGoto(a, "stopping")
  /\ toStop' = [toStop EXCEPT ![a] = sessionList]
  /\ sessionList' = {}
  /\ UNCHANGED <<threadVars, countVars, flagVars, onlineLock, natOn, script, oldStatus>>

\* Mutant: the session is waited for without being told.
StopSessionUntold(a, s) ==
  /\ apc[a] = "stopping" /\ s \in toStop[a] /\ s \notin halt
  /\ FALSE
  /\ UNCHANGED vars

\* StopSession sets s->Halt of one of them and waits for the end of its thread ...
StopSession(a, s) ==
  /\ apc[a] = "stopping" /\ s \in toStop[a] /\ s \notin halt
  /\ toStop[a] \cap halt = {}
  /\ halt' = halt \cup {s}
  /\ UNCHANGED <<pc, seen, refs, startedNat, countVars, sessionList, flagVars, onlineLock,
                 natOn, adminVars>>

\* ... then its reference is released, and the next one's turn comes.
WaitThread(a, s) ==
  /\ apc[a] = "stopping" /\ s \in toStop[a] \cap halt /\ pc[s] = "gone"
  /\ toStop' = [toStop EXCEPT ![a] = @ \ {s}]
  /\ refs' = [refs EXCEPT ![s] = @ - 1]
  /\ UNCHANGED <<pc, seen, halt, startedNat, countVars, sessionList, flagVars, onlineLock,
                 natOn, apc, script, oldStatus>>

UnlockOnline(a) ==
  /\ apc[a] = "stopping" /\ toStop[a] = {}
  /\ AGoto(a, "unlocked") /\ onlineLock' = Nobody
  /\ UNCHANGED <<threadVars, countVars, sessionList, flagVars, natOn, script, oldStatus, toStop>>

\* BeingOffline is cleared after the lock is let go, by every caller.
ClearBeingOffline(a) ==
  /\ apc[a] = "unlocked"
  /\ IF Op(a) = "stop" THEN AGoto(a, "clearing") /\ UNCHANGED script ELSE Return(a)
  /\ BeingOffline' = FALSE
  /\ UNCHANGED <<threadVars, countVars, sessionList, Offline, Halt, onlineLock, natOn,
                 oldStatus, toStop>>

\* StopHub halts the hub for good and puts Offline back to what it was.
HaltHub(a) ==
  /\ apc[a] = "clearing"
  /\ Return(a) /\ Halt' = TRUE /\ Offline' = oldStatus[a]
  /\ UNCHANGED <<threadVars, countVars, sessionList, BeingOffline, onlineLock, natOn,
                 oldStatus, toStop>>

-----------------------------------------------------------------------------

\* What a thread does once it holds something others wait for, or was told to end.
SessionProgress(s) ==
  \/ UnlockToEnumerate(s) \/ SiEnumSessionMain(s) \/ CheckMultiLogin(s)
  \/ UnlockToPlace(s) \/ SiGetHubHostingMember(s) \/ Admit(s)
  \/ StartTunnelingMode(s) \/ CheckBeingOffline(s) \/ EnableSecureNATEx(s)
  \/ s \in halt /\ EndMain(s)
  \/ DelSession(s) \/ DecNumSessions(s) \/ CheckBeingOfflineAgain(s) \/ Finish(s)

AdminProgress(a) ==
  \/ Call(a) \/ SetHubOnline(a) \/ SetBeingOffline(a) \/ LockOnline(a) \/ StopAllSession(a)
  \/ (\E s \in Sessions : StopSession(a, s) \/ WaitThread(a, s))
  \/ UnlockOnline(a) \/ ClearBeingOffline(a) \/ HaltHub(a)

Next ==
  \/ \E s \in Sessions : CheckOnline(s) \/ EndMain(s) \/ SessionProgress(s)
  \/ \E a \in Admins : AdminProgress(a)

Spec == Init /\ [][Next]_vars

\* Threads are scheduled; nobody has to connect or to disconnect.
FairSpec ==
  /\ Spec
  /\ \A s \in Sessions : WF_vars(SessionProgress(s))
  /\ \A a \in Admins : WF_vars(AdminProgress(a))
-----------------------------------------------------------------------------
(* Properties *)

\* Every variable has its type.
TypeOK ==
  /\ pc \in [Sessions -> PCs] /\ seen \in [Sessions -> Nat]
  /\ halt \subseteq Sessions /\ refs \in [Sessions -> Nat] /\ startedNat \subseteq Sessions
  /\ hubLock \in Sessions \cup {Nobody} /\ numSessions \in Nat /\ sessionList \subseteq Sessions
  /\ {Offline, Halt, BeingOffline, natOn} \subseteq BOOLEAN
  /\ onlineLock \in Admins \cup {Nobody}
  /\ apc \in [Admins -> APCs] /\ script \in [Admins -> Seq({"online", "offline", "stop"})]
  /\ oldStatus \in [Admins -> BOOLEAN] /\ toStop \in [Admins -> SUBSET Sessions]

\* hub->NumSessions counts the sessions between Inc and Dec in ServerAccept: no
\* way out of a session, pulled or pushed, misses the decrement or does it twice.
CountersBalanced == numSessions = Cardinality({s \in Sessions : pc[s] \in Counted})

\* The limit of the hub holds although the lock was released between the checks
\* of a login: the check that counts and the increment are under one lock.
SessionLimit ==
  MaxSession # 0 =>
    Cardinality({s \in Sessions \ AdminMode : pc[s] \in Counted}) <= MaxSession

\* Every reference to a session is owned by its thread, by the list or by the
\* copy of a StopAllSession: DelSession and StopAllSession never release the same
\* one, and StopSession never waits for a session that was freed.
RefsBalanced ==
  \A s \in Sessions :
    refs[s] = (IF pc[s] \in Counted \cup Leaving THEN 1 ELSE 0)
              + (IF s \in sessionList THEN 1 ELSE 0)
              + Cardinality({a \in Admins : s \in toStop[a]})

\* A hub that is offline and not halted runs no SecureNAT, whichever of the online,
\* offline and session threads came last.
NatOnlyOnline == Offline /\ ~Halt => ~natOn

\* Every return path of ServerAccept, SetHubOffline and StopHub lets go of the lock
\* it took and of no other, and no thread holds both locks: a session that has
\* hub->lock waits for nobody.  On a hub that is not dynamic no session's thread
\* wants lock_online, whose holder may be waiting for that very thread.
HubLocked == {"online", "unique", "placed"}
OnlineLocked == {"locked", "stopping"}
LockOrder ==
  /\ \A s \in Sessions : hubLock = s <=> pc[s] \in HubLocked
  /\ \A a \in Admins : onlineLock = a <=> apc[a] \in OnlineLocked
  /\ ~Dynamic => startedNat = {} /\ \A s \in Sessions : pc[s] \notin {"starting", "stopping"}

\* CMD_Offline_Help (hamcore/strtable_en.stb:5144): "all sessions will be
\* disconnected": each session StopAllSession found in the list comes to its end,
\* whatever it was in the middle of.
DisconnectsAll == \A s \in Sessions : (\E a \in Admins : s \in toStop[a]) ~> pc[s] = "gone"

\* The same help text: "A Virtual Hub with an offline status cannot receive VPN
\* connections from clients."
OfflineHasNoSessions ==
  Offline /\ onlineLock = Nobody /\ (\A a \in Admins : apc[a] = "idle") => sessionList = {}

\* HUB_AO_max_multilogins_per_user (hamcore/strtable_en.stb:471): "greater number of
\* VPN Sessions of individual user object than this value cannot be established."
MultiLoginLimit ==
  MaxLogins # 0 =>
    \A s \in Sessions : Cardinality({t \in sessionList : User[t] = User[s]}) <= MaxLogins
=============================================================================
