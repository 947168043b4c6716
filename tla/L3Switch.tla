------------------------------ MODULE L3Switch ------------------------------
(***************************************************************************)
(* The life of a virtual layer 3 switch (Cedar/Layer3.c): its thread, which  *)
(* brings it online when the hubs of all its interfaces are, watches them,    *)
(* and takes it offline again; the calls of an administrator that start, stop *)
(* and change it; and the hubs, which other administrators take offline,      *)
(* delete and create while the thread runs.                                   *)
(*                                                                           *)
(* An interface is named by its hub: a switch has at most one per hub.  The    *)
(* calls that change one switch come one after another.  The server does not  *)
(* enforce it: starting and changing a switch look at Active only, which       *)
(* L3SwStop clears before it waits for the thread.  What another call does     *)
(* then (free an interface in use, reset Halt) is outside this model.          *)
(***************************************************************************)
CONSTANT Hubs   \* the names of hubs

VARIABLES
  exists,      \* the switch is in cedar->L3SwList
  ifs,         \* s->IfList
  active, halt, online,   \* s->Active, s->Halt, s->Online
  pc,          \* the switch thread, "none" when there is none
  todo,        \* interfaces it has yet to give a session, or whose session to stop
  session,     \* f->Session of an interface, "halted" once s->Halt of it is set
  hubOf,       \* f->Hub: the hub of that name, or one deleted since, by its Offline
  hub,         \* the hub of a name; "halted" is between StopHub and DelHub
  call         \* the administrator's call that waits for the thread

switch == <<exists, ifs, active, halt, online>>
thread == <<pc, todo>>
ports == <<session, hubOf>>
vars == <<switch, thread, ports, hub, call>>

Closing == {"goingOffline", "goingAway"}   \* StopAllSession waits for a session

TypeOK ==
  /\ exists \in BOOLEAN /\ active \in BOOLEAN /\ halt \in BOOLEAN /\ online \in BOOLEAN
  /\ ifs \in SUBSET Hubs
  /\ pc \in {"none", "loop", "decide", "creating", "stopping", "ended"}
  /\ todo \in SUBSET ifs
  /\ session \in [Hubs -> {"none", "running", "halted", "ended"}]
  /\ hubOf \in [Hubs -> {"none", "current", "deletedOnline", "deletedOffline"}]
  /\ hub \in [Hubs -> {"absent", "online", "offline", "halted"} \cup Closing]
  /\ call \in {"none", "stop", "delete"}

Init ==
  /\ exists = FALSE /\ ifs = {}
  /\ active = FALSE /\ halt = FALSE /\ online = FALSE
  /\ pc = "none" /\ todo = {}
  /\ session = [h \in Hubs |-> "none"]
  /\ hubOf = [h \in Hubs |-> "none"]
  /\ hub = [h \in Hubs |-> "absent"]
  /\ call = "none"

\* The thread keeps the switch's lock and the hub list's while it creates sessions.
LocksFree == pc # "creating"
Callable == exists /\ call = "none" /\ LocksFree

(***************************************************************************)
(* The calls of the switch's administrator.                                  *)
(***************************************************************************)
L3AddSw ==
  /\ ~exists
  /\ exists' = TRUE
  /\ UNCHANGED <<ifs, active, halt, online, thread, ports, hub, call>>

\* Mutant: an interface is added without looking at Active.
AddIfWhileActive(h) ==
  /\ Callable /\ h \notin ifs
  /\ ifs' = ifs \cup {h}
  /\ UNCHANGED <<exists, active, halt, online, thread, ports, hub, call>>

\* The limit of interfaces is left out.
L3AddIf(h) ==
  /\ Callable /\ ~active /\ h \notin ifs
  /\ ifs' = ifs \cup {h}
  /\ UNCHANGED <<exists, active, halt, online, thread, ports, hub, call>>

\* Mutant: an interface is deleted without looking at Active.
DelIfWhileActive(h) ==
  /\ Callable /\ h \in ifs
  /\ ifs' = ifs \ {h}
  /\ UNCHANGED <<exists, active, halt, online, thread, ports, hub, call>>

L3DelIf(h) ==
  /\ Callable /\ ~active /\ h \in ifs
  /\ ifs' = ifs \ {h}
  /\ UNCHANGED <<exists, active, halt, online, thread, ports, hub, call>>

\* Mutant: Halt of the last stop is still set.
StartKeepsHalt ==
  /\ Callable /\ ~active /\ ifs # {}
  /\ active' = TRUE
  /\ pc' = "loop"
  /\ UNCHANGED <<exists, ifs, halt, online, todo, ports, hub, call>>

\* The new thread sets Active before L3SwStart goes on.
L3SwStart ==
  /\ Callable /\ ~active /\ ifs # {}
  /\ halt' = FALSE /\ active' = TRUE
  /\ pc' = "loop"
  /\ UNCHANGED <<exists, ifs, online, todo, ports, hub, call>>

L3SwStop(why) ==
  /\ Callable /\ active
  /\ halt' = TRUE /\ active' = FALSE
  /\ call' = why
  /\ UNCHANGED <<exists, ifs, online, thread, ports, hub>>

Freed ==
  /\ exists' = FALSE /\ ifs' = {} /\ halt' = FALSE
  /\ UNCHANGED <<active, online>>

\* The end of WaitThread in L3SwStop, and what L3DelSw does after it.
StopReturns ==
  /\ call # "none" /\ pc = "ended"
  /\ pc' = "none" /\ call' = "none"
  /\ IF call = "delete" THEN Freed ELSE UNCHANGED switch
  /\ UNCHANGED <<todo, ports, hub>>

\* Of a switch that is not active.
L3DelSw ==
  /\ Callable /\ ~active
  /\ Freed
  /\ UNCHANGED <<thread, ports, hub, call>>

(***************************************************************************)
(* The switch thread, L3SwThread.                                            *)
(***************************************************************************)
\* What it finds in the list: StopHub has put Offline of a halted hub back.  No hub
\* is a dynamic one of a cluster.
HubAccepts(h) == hub[h] \in {"online", "halted"}
AllExist == ifs # {} /\ \A h \in ifs : HubAccepts(h)

HubOffline(h) ==
  \/ hubOf[h] = "deletedOffline"
  \/ hubOf[h] = "current" /\ hub[h] \in Closing \cup {"offline"}

\* Mutant: only the sessions are looked at, not the hubs.
OnlySessions == \E h \in ifs : session[h] \in {"halted", "ended"}

AnyHalted == \E h \in ifs : session[h] \in {"halted", "ended"} \/ HubOffline(h)

\* The thread takes its interfaces one by one, in the order of the list.
First == CHOOSE h \in todo : TRUE

ThreadLoop ==
  /\ pc = "loop" /\ ~halt
  /\ pc' = "decide"
  /\ UNCHANGED <<switch, todo, ports, hub, call>>

\* Nothing to do: it sleeps and looks again.
ThreadSleeps ==
  /\ pc = "decide"
  /\ IF online THEN ~AnyHalted ELSE ~AllExist
  /\ pc' = "loop"
  /\ UNCHANGED <<switch, todo, ports, hub, call>>

L3InitAllInterfaces ==
  /\ pc = "decide" /\ ~online /\ AllExist
  /\ pc' = "creating" /\ todo' = ifs
  /\ UNCHANGED <<switch, ports, hub, call>>

\* One interface: GetHub, a thread, and a session that is in the hub's list at once.
L3IfThread ==
  /\ pc = "creating" /\ todo # {}
  /\ session' = [session EXCEPT ![First] = "running"]
  /\ hubOf' = [hubOf EXCEPT ![First] = "current"]
  /\ todo' = todo \ {First}
  /\ UNCHANGED <<switch, pc, hub, call>>

ThreadOnline ==
  /\ pc = "creating" /\ todo = {}
  /\ online' = TRUE /\ pc' = "loop"
  /\ UNCHANGED <<exists, ifs, active, halt, todo, ports, hub, call>>

\* Mutant: the sessions are only told to stop, not waited for.
OfflineAtOnce ==
  /\ online
  /\ \/ pc = "decide" /\ AnyHalted
     \/ pc = "loop" /\ halt
  /\ online' = FALSE
  /\ pc' = "stopping" /\ todo' = {}
  /\ session' = [h \in Hubs |-> IF session[h] = "running" THEN "halted" ELSE session[h]]
  /\ UNCHANGED <<exists, ifs, active, halt, hubOf, hub, call>>

\* Mutant: the loop is left without SHUTDOWN.
OfflineWithoutShutdown ==
  /\ online /\ pc = "decide" /\ AnyHalted
  /\ online' = FALSE
  /\ pc' = "stopping" /\ todo' = ifs
  /\ UNCHANGED <<exists, ifs, active, halt, ports, hub, call>>

\* One session or hub is gone, or the loop was left with the switch online.
ThreadOffline ==
  /\ online
  /\ \/ pc = "decide" /\ AnyHalted
     \/ pc = "loop" /\ halt
  /\ online' = FALSE
  /\ pc' = "stopping" /\ todo' = ifs
  /\ UNCHANGED <<exists, ifs, active, halt, ports, hub, call>>

StopSession ==
  /\ pc = "stopping" /\ todo # {}
  /\ session[First] = "running"
  /\ session' = [session EXCEPT ![First] = "halted"]
  /\ UNCHANGED <<switch, thread, hubOf, hub, call>>

StopSessionEnds ==
  /\ pc = "stopping" /\ todo # {}
  /\ session[First] = "ended"
  /\ todo' = todo \ {First}
  /\ UNCHANGED <<switch, pc, ports, hub, call>>

L3FreeAllInterfaces ==
  /\ pc = "stopping" /\ todo = {}
  /\ session' = [h \in Hubs |-> IF h \in ifs THEN "none" ELSE session[h]]
  /\ hubOf' = [h \in Hubs |-> IF h \in ifs THEN "none" ELSE hubOf[h]]
  /\ pc' = "loop"
  /\ UNCHANGED <<switch, todo, hub, call>>

ThreadEnds ==
  /\ pc = "loop" /\ halt /\ ~online
  /\ pc' = "ended"
  /\ UNCHANGED <<switch, todo, ports, hub, call>>

(***************************************************************************)
(* The sessions and the hubs.                                                *)
(***************************************************************************)
\* SessionMain of an interface leaves its loop once Halt is set.
SessionEnds(h) ==
  /\ session[h] = "halted"
  /\ session' = [session EXCEPT ![h] = "ended"]
  /\ UNCHANGED <<switch, thread, hubOf, hub, call>>

\* The interface's session is in the session list of the hub.
Listed(h) == hubOf[h] = "current" /\ session[h] \in {"running", "halted"}

\* Offline is set, and StopAllSession takes the sessions of the list to stop them.
SetHubOffline(h) ==
  /\ hub[h] = "online"
  /\ hub' = [hub EXCEPT ![h] = IF Listed(h) THEN "goingOffline" ELSE "offline"]
  /\ UNCHANGED <<switch, thread, ports, call>>

\* The same, for StopHub: it puts Offline back and leaves Halt set.
StopHub(h) ==
  /\ hub[h] = "online"
  /\ hub' = [hub EXCEPT ![h] = IF Listed(h) THEN "goingAway" ELSE "halted"]
  /\ UNCHANGED <<switch, thread, ports, call>>

StopAllSession(h) ==
  /\ hub[h] \in Closing /\ session[h] = "running"
  /\ session' = [session EXCEPT ![h] = "halted"]
  /\ UNCHANGED <<switch, thread, hubOf, hub, call>>

\* Mutant: it waits for the session of the interface, with no reference of its own.
StopWithoutReference(h) ==
  /\ hub[h] \in Closing /\ session[h] = "ended"
  /\ hub' = [hub EXCEPT ![h] = IF @ = "goingAway" THEN "halted" ELSE "offline"]
  /\ UNCHANGED <<switch, thread, ports, call>>

\* The list's reference keeps the session until here, whoever else gave it up.
StopAllSessionEnds(h) ==
  /\ hub[h] \in Closing /\ session[h] \in {"ended", "none"}
  /\ hub' = [hub EXCEPT ![h] = IF @ = "goingAway" THEN "halted" ELSE "offline"]
  /\ UNCHANGED <<switch, thread, ports, call>>

SetHubOnline(h) ==
  /\ hub[h] = "offline"
  /\ hub' = [hub EXCEPT ![h] = "online"]
  /\ UNCHANGED <<switch, thread, ports, call>>

\* StDeleteHub after StopHub: an offline hub had nothing to stop.
DelHub(h) ==
  /\ LocksFree /\ hub[h] \in {"halted", "offline"}
  /\ hub' = [hub EXCEPT ![h] = "absent"]
  /\ hubOf' = [hubOf EXCEPT ![h] =
       IF @ # "current" THEN @
       ELSE IF hub[h] = "halted" THEN "deletedOnline" ELSE "deletedOffline"]
  /\ UNCHANGED <<switch, thread, session, call>>

AddHub(h) ==
  /\ LocksFree /\ hub[h] = "absent"
  /\ \E status \in {"online", "offline"} : hub' = [hub EXCEPT ![h] = status]
  /\ UNCHANGED <<switch, thread, ports, call>>

ThreadStep ==
  \/ ThreadLoop
  \/ ThreadSleeps
  \/ L3InitAllInterfaces
  \/ L3IfThread
  \/ ThreadOnline
  \/ ThreadOffline
  \/ StopSession
  \/ StopSessionEnds
  \/ L3FreeAllInterfaces
  \/ ThreadEnds

AdminStep ==
  \/ L3AddSw
  \/ \E h \in Hubs : L3AddIf(h) \/ L3DelIf(h)
  \/ L3SwStart
  \/ \E why \in {"stop", "delete"} : L3SwStop(why)
  \/ StopReturns
  \/ L3DelSw

HubStep(h) ==
  \/ SetHubOffline(h)
  \/ StopHub(h)
  \/ StopAllSession(h)
  \/ StopAllSessionEnds(h)
  \/ SetHubOnline(h)
  \/ DelHub(h)
  \/ AddHub(h)

Next == ThreadStep \/ AdminStep \/ \E h \in Hubs : SessionEnds(h) \/ HubStep(h)

Spec == Init /\ [][Next]_vars

\* The operating system runs every thread, and a session that was told to stop
\* stops; nobody has to call anything, but who has begun a call goes on with it.
FairSpec ==
  /\ Spec
  /\ WF_vars(ThreadStep)
  /\ WF_vars(StopReturns)
  /\ \A h \in Hubs :
       /\ WF_vars(SessionEnds(h))
       /\ WF_vars(StopAllSession(h) \/ StopAllSessionEnds(h))

-----------------------------------------------------------------------------
(***************************************************************************)
(* Properties.                                                               *)
(***************************************************************************)
\* Whenever the thread looks at its interfaces, each has a session and a hub to
\* look at (f->Session->Halt, f->Hub->Offline are read unchecked), and whenever the
\* switch is offline and at rest, none of them has.
SessionsMatch ==
  pc \notin {"creating", "stopping"} =>
    \A h \in Hubs :
      /\ (session[h] # "none") <=> (online /\ h \in ifs)
      /\ (hubOf[h] # "none") <=> (online /\ h \in ifs)

\* Sessions are not left behind: the switch gives an interface's session up only when
\* the session's thread has ended.
NoSessionDropped ==
  [][\A h \in Hubs : session'[h] = "none" => session[h] \in {"none", "ended"}]_vars

\* Whoever stops or deletes a switch is answered, whatever the hubs do meanwhile.
StopAnswered == call # "none" ~> call = "none"

\* A hub that goes offline, or is deleted, does not wait for ever for its layer 3 session.
HubsClose == \A h \in Hubs : hub[h] \in Closing ~> hub[h] \notin Closing

\* The switch follows its hubs: when one of them is offline, or a session is stopped,
\* it goes offline, unless that hub was online again before it looked.
FollowsOffline ==
  \A h \in Hubs : (online /\ h \in ifs /\ HubOffline(h)) ~> (~online \/ ~HubOffline(h))

\* A switch that stays active comes online once all its hubs stay online.
ComesOnline ==
  active ~> (online \/ ~active \/ \E h \in ifs : hub[h] # "online")
=============================================================================
