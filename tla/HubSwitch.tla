----------------------------- MODULE HubSwitch -----------------------------
(***************************************************************************)
(* The data plane of a Virtual Hub (Cedar/Hub.c): the threads of its         *)
(* sessions attach packet adapters (HUB_PA) to it, hand it packets           *)
(* (HubPaPutPacket, StorePacket), take packets out of their own queue        *)
(* (HubPaGetNextPacket) and detach again, all concurrently.                  *)
(*                                                                           *)
(* Locks.  StorePacket runs from end to end under the lock of the MAC table  *)
(* and takes inside it the lock of the monitor list, then of the session     *)
(* list; "job" is the packet being stored, so job.stage # "idle" says the    *)
(* MAC table is locked and job.stage = "flood" that the session list is too. *)
(* A step of another thread is possible wherever the code lets go of, or     *)
(* never took, the lock that step needs.                                     *)
(***************************************************************************)
EXTENDS HubFdb, Integers, Sequences

CONSTANTS
  MaxStoredQueue,   \* MAX_STORED_QUEUE_NUM
  Quota,            \* FloodingSendQueueBufferQuota in blocks, 0 for no quota
  TcpSessions,      \* sessions whose connection is CONNECTION_TCP, or link servers
  ConnectionRoom,   \* model bound: session -> blocks on their way out of its connection
  User,             \* session -> user name
  Denied,           \* <<src, dst>>: pairs an access list keeps apart
  DropBroadcastsInPrivacyFilterMode,
  DropArpInPrivacyFilterMode,
  AllowSameUserInPrivacyFilterMode,
  Traffic,          \* the packets the hosts behind the sessions send
  DelayedKinds,     \* kinds of packet an access list delays
  MaxDelayed,       \* model bound: delayed packets of one session
  MaxTime           \* model bound: ticks

ASSUME SwitchAssumption ==
  /\ MaxStoredQueue \in Nat /\ Quota \in Nat /\ MaxDelayed \in Nat /\ MaxTime \in Nat
  /\ TcpSessions \subseteq Sessions /\ ConnectionRoom \in [Sessions -> Nat]
  /\ DelayedKinds \subseteq Kinds /\ Traffic \subseteq Packets
  /\ {DropBroadcastsInPrivacyFilterMode, DropArpInPrivacyFilterMode,
      AllowSameUserInPrivacyFilterMode} \subseteq BOOLEAN

VARIABLES
  pc,            \* session -> where its thread is between AddSession and CleanupSession
  sessionList,   \* hub->SessionList
  monitorList,   \* hub->MonitorList
  macTable, lastFlush, ipTable,
  queue,         \* session -> pa->PacketQueue
  tcpQueueSize,  \* cedar->CurrentTcpQueueSize, in blocks
  lastPacketQueueSize, \* session -> c->LastPacketQueueSize: charged for its send queue
  lastTcpQueueSize,    \* session -> c->LastTcpQueueSize: charged for its sockets
  delayed,       \* session -> s->DelayedPacketList
  job,           \* the StorePacket under way
  now            \* Tick64()

fdbVars == <<macTable, lastFlush, ipTable>>
listVars == <<pc, sessionList, monitorList>>
chargeVars == <<lastPacketQueueSize, lastTcpQueueSize>>
outVars == <<queue, tcpQueueSize, chargeVars>>
vars == <<fdbVars, listVars, outVars, delayed, job, now>>

\* none -> listed (AddSession) -> inited (HubPaInit: Param set) -> monitored
\* (HubPaInit: in the monitor list) -> running (SessionMain's loop) -> unlisted
\* (DelSession) -> unmonitored, untabled (HubPaFree) -> none (freed)
PCs == {"none", "listed", "inited", "monitored", "running",
        "unlisted", "unmonitored", "untabled"}

\* s->PacketAdapter->Param != NULL
HasPa(s) == pc[s] \notin {"none", "listed"}
\* s->IsMonitorMode: SessionMain sets it after HubPaInit has returned, ServerAccept
\* (Protocol.c:3023) already before; the later moment lets more happen.
IsMonitorMode(s) == /\ Policy[s].MonitorPort
                    /\ pc[s] \in {"running", "unlisted", "unmonitored", "untabled"}

Sources == Sessions \cup {Hub}
Blocks == [src: Sources, bcast: BOOLEAN, flooding: BOOLEAN]
Stages == {"idle", "learned", "copied", "flood"}
Jobs == [stage: Stages, src: Sources, kind: Kinds, bcast: BOOLEAN, toHub: BOOLEAN,
         dest: Owners, todo: SUBSET Sessions]
NoJob == [stage |-> "idle", src |-> Hub, kind |-> "other", bcast |-> FALSE,
          toHub |-> FALSE, dest |-> Nobody, todo |-> {}]

MacTableLocked == job.stage # "idle"
SessionListLocked == job.stage = "flood"
Busy(s) == MacTableLocked /\ job.src = s   \* its thread is inside StorePacket

Init ==
  /\ pc = [s \in Sessions |-> "none"]
  /\ sessionList = {} /\ monitorList = {}
  /\ macTable = [m \in Macs |-> NoMac] /\ lastFlush = 0
  /\ ipTable = [i \in Ips |-> NoIpEntry]
  /\ queue = [s \in Sessions |-> <<>>] /\ tcpQueueSize = 0
  /\ lastPacketQueueSize = [s \in Sessions |-> 0]
  /\ lastTcpQueueSize = [s \in Sessions |-> 0]
  /\ delayed = [s \in Sessions |-> <<>>]
  /\ job = NoJob /\ now = 1

-----------------------------------------------------------------------------
(* Attaching and detaching a session: NewServerSession, SessionMain *)

\* A new session has a new connection, for which nothing was charged yet.
AddSession(s) ==
  /\ pc[s] = "none" /\ ~SessionListLocked
  /\ lastPacketQueueSize[s] = 0 /\ lastTcpQueueSize[s] = 0
  /\ pc' = [pc EXCEPT ![s] = "listed"]
  /\ sessionList' = sessionList \cup {s}
  /\ UNCHANGED <<monitorList, fdbVars, outVars, delayed, job, now>>

\* HubPaInit: a new HUB_PA, with an empty queue, becomes the adapter's Param ...
HubPaInit(s) ==
  /\ pc[s] = "listed"
  /\ pc' = [pc EXCEPT ![s] = "inited"]
  /\ queue' = [queue EXCEPT ![s] = <<>>]
  /\ UNCHANGED <<sessionList, monitorList, fdbVars, tcpQueueSize, chargeVars, delayed, job, now>>

\* ... and a monitoring port enters the monitor list.
HubPaInitMonitor(s) ==
  /\ pc[s] = "inited"
  /\ pc' = [pc EXCEPT ![s] = "monitored"]
  /\ monitorList' = IF Policy[s].MonitorPort THEN monitorList \cup {s} ELSE monitorList
  /\ UNCHANGED <<sessionList, fdbVars, outVars, delayed, job, now>>

StartLoop(s) ==
  /\ pc[s] = "monitored"
  /\ pc' = [pc EXCEPT ![s] = "running"]
  /\ UNCHANGED <<sessionList, monitorList, fdbVars, outVars, delayed, job, now>>

\* The loop ends, for whatever reason, and the clean-up starts with DelSession.
DelSession(s) ==
  /\ pc[s] = "running" /\ ~Busy(s) /\ ~SessionListLocked
  /\ pc' = [pc EXCEPT ![s] = "unlisted"]
  /\ sessionList' = sessionList \ {s}
  /\ UNCHANGED <<monitorList, fdbVars, outVars, delayed, job, now>>

\* Mutant: the monitoring port stays in the monitor list.
HubPaFreeNoMonitor(s) ==
  /\ pc[s] = "unlisted" /\ lastTcpQueueSize[s] = 0
  /\ pc' = [pc EXCEPT ![s] = "unmonitored"]
  /\ UNCHANGED <<sessionList, monitorList, fdbVars, outVars, delayed, job, now>>

\* SettleConnection came first.
HubPaFreeMonitor(s) ==
  /\ pc[s] = "unlisted" /\ lastTcpQueueSize[s] = 0
  /\ pc' = [pc EXCEPT ![s] = "unmonitored"]
  /\ monitorList' = monitorList \ {s}
  /\ UNCHANGED <<sessionList, fdbVars, outVars, delayed, job, now>>

\* Mutant: without the lock of the MAC table.
HubPaFreeTablesUnlocked(s) ==
  /\ pc[s] = "unmonitored"
  /\ pc' = [pc EXCEPT ![s] = "untabled"]
  /\ macTable' = ForgetMacs(macTable, s)
  /\ ipTable' = ForgetIps(ipTable, s)
  /\ UNCHANGED <<lastFlush, sessionList, monitorList, outVars, delayed, job, now>>

HubPaFreeTables(s) ==
  /\ pc[s] = "unmonitored" /\ ~MacTableLocked
  /\ pc' = [pc EXCEPT ![s] = "untabled"]
  /\ macTable' = ForgetMacs(macTable, s)
  /\ ipTable' = ForgetIps(ipTable, s)
  /\ UNCHANGED <<lastFlush, sessionList, monitorList, outVars, delayed, job, now>>

Flooded(q) == Cardinality({i \in DOMAIN q : q[i].flooding})

\* Mutant: what is drained is not taken off the counter.
HubPaFreeQueueUncounted(s) ==
  /\ pc[s] = "untabled"
  /\ pc' = [pc EXCEPT ![s] = "none"]
  /\ queue' = [queue EXCEPT ![s] = <<>>]
  /\ delayed' = [delayed EXCEPT ![s] = <<>>]
  /\ UNCHANGED <<sessionList, monitorList, tcpQueueSize, chargeVars, fdbVars, job, now>>

\* The queue is drained, the HUB_PA freed, and the session released.
HubPaFreeQueue(s) ==
  /\ pc[s] = "untabled"
  /\ pc' = [pc EXCEPT ![s] = "none"]
  /\ tcpQueueSize' = tcpQueueSize - Flooded(queue[s])
  /\ queue' = [queue EXCEPT ![s] = <<>>]
  /\ delayed' = [delayed EXCEPT ![s] = <<>>]
  /\ UNCHANGED <<sessionList, monitorList, fdbVars, chargeVars, job, now>>

\* SetHubOffline empties the list first and only then stops the sessions, each
\* of which finds itself already removed when it gets to DelSession.
StopAllSession ==
  /\ ~SessionListLocked /\ sessionList # {}
  /\ sessionList' = {}
  /\ UNCHANGED <<pc, monitorList, fdbVars, outVars, delayed, job, now>>

-----------------------------------------------------------------------------
(* What a session's connection charges to the counter the floods read: the blocks *)
(* taken from the hub and not sent yet.  Its thread adds the difference to what it *)
(* charged before; how many blocks there are now is any number.                    *)

Charge(s, sendQueue, sockets) ==
  /\ lastPacketQueueSize' = [lastPacketQueueSize EXCEPT ![s] = sendQueue]
  /\ lastTcpQueueSize' = [lastTcpQueueSize EXCEPT ![s] = sockets]
  /\ tcpQueueSize' = tcpQueueSize + (sendQueue - lastPacketQueueSize[s])
                                  + (sockets - lastTcpQueueSize[s])
  /\ UNCHANGED <<queue, fdbVars, listVars, delayed, job, now>>

\* SessionMain, after it took blocks from the hub into its send queue or dropped them.
ChargeSendQueue(s) ==
  /\ pc[s] = "running" /\ ~Busy(s)
  /\ \E n \in 0 .. ConnectionRoom[s] - lastTcpQueueSize[s] : Charge(s, n, lastTcpQueueSize[s])

\* ConnectionSend: what the FIFOs of the connection's sockets hold.
ChargeSockets(s) ==
  /\ pc[s] = "running" /\ ~Busy(s) /\ s \in TcpSessions
  /\ \E n \in 0 .. ConnectionRoom[s] - lastPacketQueueSize[s] : Charge(s, lastPacketQueueSize[s], n)

\* Between DelSession and HubPaFree the sockets' share is taken back, while what
\* is in the send queue stays charged ...
SettleConnection(s) ==
  /\ pc[s] = "unlisted"
  /\ \E n \in 0 .. ConnectionRoom[s] : Charge(s, n, 0)

\* ... until the connection is freed.
CleanupConnection(s) ==
  /\ pc[s] = "none" /\ lastPacketQueueSize[s] + lastTcpQueueSize[s] > 0
  /\ Charge(s, 0, 0)

ConnectionStep(s) ==
  ChargeSendQueue(s) \/ ChargeSockets(s) \/ SettleConnection(s) \/ CleanupConnection(s)

-----------------------------------------------------------------------------
(* Storing a packet *)

Lookup(T, m) == IF m \in Macs THEN T[m].session ELSE Nobody

NewJob(src, p, dest) ==
  [stage |-> "learned", src |-> src, kind |-> p.kind, bcast |-> p.dmac = Bcast,
   toHub |-> p.dmac = HubMac, dest |-> dest, todo |-> {}]

\* StorePacket after its filter: learn the source, look the destination up,
\* learn the IP address.  A packet for its own port, one a table refuses, or a
\* broadcast the storm limiter refuses is dropped, and what was learned stays.
StorePacketFrom(s, p, ipt) ==
  LET L    == LearnMac(macTable, lastFlush, s, p.smac, now)
      dest == Lookup(L.table, p.dmac)
      I    == LearnIp(ipt, s, p, now)
      ok   == L.pass /\ dest # s
  IN /\ macTable' = L.table /\ lastFlush' = L.flush
     /\ ipTable' = IF ok THEN I.table ELSE ipt
     /\ \/ ok /\ I.pass /\ job' = NewJob(s, p, dest)
        \/ (ok /\ I.pass => dest = Nobody) /\ UNCHANGED job

\* Mutant: packets from a monitoring port are forwarded.
CanStoreAny(s) == pc[s] = "running" /\ ~MacTableLocked

CanStore(s) ==
  /\ pc[s] = "running" /\ ~MacTableLocked
  /\ ~Policy[s].MonitorPort   \* packets from a monitoring port are not forwarded

\* The policy, the access list or the traffic limiter may drop the packet, also
\* after the policy filter has peeked into a DHCP ACK.
FilterPacket(s, p) ==
  /\ CanStore(s)
  /\ ipTable' = SnoopDhcp(ipTable, macTable, p, now)
  /\ UNCHANGED <<macTable, lastFlush, listVars, outVars, delayed, job, now>>

DelayPacket(s, p) ==
  /\ CanStore(s) /\ p.kind \in DelayedKinds /\ Len(delayed[s]) < MaxDelayed
  /\ ipTable' = SnoopDhcp(ipTable, macTable, p, now)
  /\ delayed' = [delayed EXCEPT ![s] = Append(@, p)]
  /\ UNCHANGED <<macTable, lastFlush, listVars, outVars, job, now>>

StorePacket(s, p) ==
  /\ CanStore(s)
  /\ StorePacketFrom(s, p, SnoopDhcp(ipTable, macTable, p, now))
  /\ UNCHANGED <<listVars, outVars, delayed, now>>

\* HubPaPutPacket(NULL) stores the packets whose delay is over; they skip the filter.
StoreDelayedPacket(s) ==
  /\ CanStore(s)
  /\ \E i \in DOMAIN delayed[s] :
       /\ StorePacketFrom(s, delayed[s][i], ipTable)
       /\ delayed' = [delayed EXCEPT ![s] = SubSeq(@, 1, i - 1) \o SubSeq(@, i + 1, Len(@))]
  /\ UNCHANGED <<listVars, outVars, now>>

\* The watchdog of the hub polls the addresses it has seen (StorePacket with s == NULL).
HubPoll(m) ==
  /\ ~MacTableLocked
  /\ LET p == [kind |-> "arp", dmac |-> m] IN job' = NewJob(Hub, p, Lookup(macTable, m))
  /\ UNCHANGED <<fdbVars, listVars, outVars, delayed, now>>

-----------------------------------------------------------------------------
(* Forwarding it *)

\* Mutant: one block too many fits.
AcceptingOneMore(D) == {d \in D : Len(queue[d]) <= MaxStoredQueue}

\* StorePacketToHubPa for each session of D: a full queue drops the block.
Accepting(D) == {d \in D : Len(queue[d]) < MaxStoredQueue}
Enqueue(D, b) ==
  queue' = [d \in Sessions |-> IF d \in Accepting(D) THEN Append(queue[d], b) ELSE queue[d]]

Block(flooding) == [src |-> job.src, bcast |-> job.bcast, flooding |-> flooding]

AclAllows(d) == job.src = Hub \/ <<job.src, d>> \notin Denied

\* Mutant: users are compared although the option does not ask for it.
PrivacyForbidsOthers(d) ==
  /\ job.src # Hub
  /\ DropBroadcastsInPrivacyFilterMode \/ ~job.bcast
  /\ Policy[job.src].PrivacyFilter /\ Policy[d].PrivacyFilter
  /\ DropArpInPrivacyFilterMode \/ job.kind # "arp"
  /\ User[job.src] # User[d]

PrivacyForbids(d) ==
  /\ job.src # Hub
  /\ DropBroadcastsInPrivacyFilterMode \/ ~job.bcast
  /\ Policy[job.src].PrivacyFilter /\ Policy[d].PrivacyFilter
  /\ DropArpInPrivacyFilterMode \/ job.kind # "arp"
  /\ ~AllowSameUserInPrivacyFilterMode \/ User[job.src] # User[d]

\* The checks both branches make against the destination.
DestinationAllows(d) ==
  /\ job.kind \notin Policy[d].filter
  /\ job.bcast => job.kind \notin Policy[d].bcastFilter
  /\ ~PrivacyForbids(d)
  /\ job.src # Hub => ~job.toHub
  /\ AclAllows(d)

\* Every monitoring port gets a copy first.
CopyToMonitors ==
  /\ job.stage = "learned"
  /\ job' = [job EXCEPT !.stage = "copied"]
  /\ Enqueue({d \in monitorList : AclAllows(d)}, Block(FALSE))
  /\ UNCHANGED <<fdbVars, listVars, tcpQueueSize, chargeVars, delayed, now>>

ForwardUnicast ==
  /\ job.stage = "copied" /\ job.dest # Nobody
  /\ job' = NoJob
  /\ Enqueue({d \in {job.dest} : DestinationAllows(d)}, Block(FALSE))
  /\ UNCHANGED <<fdbVars, listVars, tcpQueueSize, chargeVars, delayed, now>>

\* Mutant: the sender is not skipped.
FloodBeginToAll ==
  /\ job.stage = "copied" /\ job.dest = Nobody
  /\ job' = [job EXCEPT !.stage = "flood", !.todo = sessionList \cup {job.src}]
  /\ UNCHANGED <<fdbVars, listVars, outVars, delayed, now>>

FloodBegin ==
  /\ job.stage = "copied" /\ job.dest = Nobody
  /\ job' = [job EXCEPT !.stage = "flood", !.todo = sessionList \ {job.src}]
  /\ UNCHANGED <<fdbVars, listVars, outVars, delayed, now>>

\* Mutant: the quota may be passed by one.
OverQuotaByOne(d) == Quota # 0 /\ tcpQueueSize > Quota /\ d \in TcpSessions

OverQuota(d) == Quota # 0 /\ tcpQueueSize >= Quota /\ d \in TcpSessions

\* Mutant: a session that has no HUB_PA yet is not skipped.
FloodOneToAny(d) ==
  LET D == {e \in {d} : ~IsMonitorMode(e) /\ ~OverQuota(e) /\ DestinationAllows(e)}
      counted == job.src # Hub
  IN /\ job.stage = "flood" /\ d \in job.todo
     /\ job' = [job EXCEPT !.todo = @ \ {d}]
     /\ Enqueue(D, Block(counted))
     /\ tcpQueueSize' = IF counted THEN tcpQueueSize + Cardinality(Accepting(D))
                        ELSE tcpQueueSize
     /\ UNCHANGED <<fdbVars, listVars, chargeVars, delayed, now>>

\* A flooded block counts against the quota, except those of the hub itself.
FloodOne(d) ==
  LET D == {e \in {d} : HasPa(e) /\ ~IsMonitorMode(e) /\ ~OverQuota(e) /\ DestinationAllows(e)}
      counted == job.src # Hub
  IN /\ job.stage = "flood" /\ d \in job.todo
     /\ job' = [job EXCEPT !.todo = @ \ {d}]
     /\ Enqueue(D, Block(counted))
     /\ tcpQueueSize' = IF counted THEN tcpQueueSize + Cardinality(Accepting(D))
                        ELSE tcpQueueSize
     /\ UNCHANGED <<fdbVars, listVars, chargeVars, delayed, now>>

FloodEnd ==
  /\ job.stage = "flood" /\ job.todo = {}
  /\ job' = NoJob
  /\ UNCHANGED <<fdbVars, listVars, outVars, delayed, now>>

-----------------------------------------------------------------------------
(* The other side of the queue, the administrator and time *)

HubPaGetNextPacket(s) ==
  /\ pc[s] = "running" /\ ~Busy(s) /\ queue[s] # <<>>
  /\ queue' = [queue EXCEPT ![s] = Tail(@)]
  /\ tcpQueueSize' = IF Head(queue[s]).flooding THEN tcpQueueSize - 1 ELSE tcpQueueSize
  /\ UNCHANGED <<fdbVars, listVars, chargeVars, delayed, job, now>>

StDeleteMacTable(m) ==
  /\ ~MacTableLocked /\ macTable[m].session # Nobody
  /\ macTable' = [macTable EXCEPT ![m] = NoMac]
  /\ UNCHANGED <<lastFlush, ipTable, listVars, outVars, delayed, job, now>>

\* Under the lock of the IP table list, which StorePacket does not take.
StDeleteIpTable(i) ==
  /\ ipTable[i].session # Nobody
  /\ ipTable' = [ipTable EXCEPT ![i] = NoIpEntry]
  /\ UNCHANGED <<macTable, lastFlush, listVars, outVars, delayed, job, now>>

Tick ==
  /\ now < MaxTime
  /\ now' = now + 1
  /\ UNCHANGED <<fdbVars, listVars, outVars, delayed, job>>

SessionStep(s) ==
  \/ AddSession(s) \/ HubPaInit(s) \/ HubPaInitMonitor(s) \/ StartLoop(s)
  \/ DelSession(s) \/ HubPaFreeMonitor(s) \/ HubPaFreeTables(s) \/ HubPaFreeQueue(s)
  \/ HubPaGetNextPacket(s) \/ StoreDelayedPacket(s)
  \/ ConnectionStep(s)

PutPacket(s, p) == FilterPacket(s, p) \/ DelayPacket(s, p) \/ StorePacket(s, p)

StoreStep ==
  CopyToMonitors \/ ForwardUnicast \/ FloodBegin \/ FloodEnd \/ \E d \in Sessions : FloodOne(d)

AdminStep == (\E m \in Macs : StDeleteMacTable(m)) \/ (\E i \in Ips : StDeleteIpTable(i))

Next ==
  \/ \E s \in Sessions : SessionStep(s)
  \/ \E s \in Sessions, p \in Traffic : PutPacket(s, p)
  \/ StoreStep
  \/ \E m \in Macs : HubPoll(m)
  \/ StopAllSession
  \/ AdminStep
  \/ Tick

Spec == Init /\ [][Next]_vars
-----------------------------------------------------------------------------
(* Properties *)

\* Every variable has its type, and the lists and tables theirs.
TypeOK ==
  /\ pc \in [Sessions -> PCs]
  /\ sessionList \subseteq Sessions /\ monitorList \subseteq Sessions
  /\ macTable \in MacTables /\ lastFlush \in Nat /\ ipTable \in IpTables
  /\ queue \in [Sessions -> Seq(Blocks)] /\ tcpQueueSize \in Int
  /\ lastPacketQueueSize \in [Sessions -> Nat] /\ lastTcpQueueSize \in [Sessions -> Nat]
  /\ delayed \in [Sessions -> Seq(Packets)]
  /\ job \in Jobs /\ now \in Nat

\* Whatever points to a HUB_PA points to one that is still allocated: the MAC
\* and IP tables, the monitor list, and the source and destination StorePacket
\* holds across its steps, while HubPaFree runs in other threads.
NoDanglingPa ==
  /\ \A m \in Macs : macTable[m].session # Nobody => HasPa(macTable[m].session)
  /\ \A i \in Ips : ipTable[i].session # Nobody => HasPa(ipTable[i].session)
  /\ \A s \in monitorList : HasPa(s)
  /\ MacTableLocked /\ job.src # Hub => HasPa(job.src)
  /\ MacTableLocked /\ job.dest # Nobody => HasPa(job.dest)

\* No block is stored in a queue that was already drained, where it would leak.
NoBlockWithoutPa == \A s \in Sessions : queue[s] # <<>> => HasPa(s)

\* A port never gets its own packet back, however it left and came again.
NoReflection == \A s \in Sessions : \A i \in DOMAIN queue[s] : queue[s][i].src # s

\* Who owns what, by the place its thread has reached: the inductive invariant
\* behind the three properties above.  A table entry outlives the lists but not
\* HubPaFreeTables; a monitoring port is in the list while it may be looked up
\* there; the source of a job is running and is no monitoring port; and no
\* destination of a job is its source.
Tabled == {"running", "unlisted", "unmonitored"}

TablesOwned ==
  /\ \A m \in Macs : macTable[m].session # Nobody => pc[macTable[m].session] \in Tabled
  /\ \A i \in Ips : ipTable[i].session # Nobody => pc[ipTable[i].session] \in Tabled

MonitorsOwned ==
  \A s \in monitorList : Policy[s].MonitorPort /\ pc[s] \in {"monitored", "running", "unlisted"}

JobOwned == MacTableLocked =>
  /\ job.src # Hub => pc[job.src] = "running" /\ ~Policy[job.src].MonitorPort
  /\ job.dest # Nobody => pc[job.dest] \in Tabled
  /\ job.dest # job.src /\ job.src \notin job.todo

QueuesOwned == NoBlockWithoutPa /\ NoReflection

Ownership == TablesOwned /\ MonitorsOwned /\ JobOwned /\ QueuesOwned

\* POL_EX_9 as the code means it: between two sessions in privacy filter mode
\* only broadcasts pass, and those only if the option lets them; monitoring
\* ports still see everything.
PrivacyIsolation ==
  \A s \in Sessions : \A i \in DOMAIN queue[s] :
    LET b == queue[s][i] IN
    (/\ b.src # Hub /\ ~Policy[s].MonitorPort
     /\ Policy[s].PrivacyFilter /\ Policy[b.src].PrivacyFilter
     /\ DropArpInPrivacyFilterMode
     /\ AllowSameUserInPrivacyFilterMode => User[b.src] # User[s])
      => b.bcast /\ ~DropBroadcastsInPrivacyFilterMode

\* The flooded blocks that wait for the sessions of S.
FloodedOf(S) ==
  UNION {{<<s, i>> : i \in {j \in DOMAIN queue[s] : queue[s][j].flooding}} : s \in S}

\* The blocks charged for the connections: send queues and sockets.
Charged ==
  UNION {{<<s, i>> : i \in 1 .. lastPacketQueueSize[s] + lastTcpQueueSize[s]} : s \in Sessions}

\* The shared counter is the flooded blocks that wait in the ports' queues plus
\* what the connections have charged: every way a flooded block leaves a queue
\* (sent, or drained by HubPaFree) and every way a connection ends takes it off
\* exactly once, or floods would stop for good.
FloodAccounting ==
  tcpQueueSize = Cardinality(FloodedOf(Sessions)) + Cardinality(Charged)

\* However the connections charge the counter beside the floods, the flooded
\* blocks waiting for the sessions the quota is about stay within it: check and
\* charge are apart in StorePacket, and the MAC table's lock keeps two floods of
\* the hub from both seeing room.  (The counter itself may well pass the quota.)
FloodQuota == Quota # 0 => Cardinality(FloodedOf(TcpSessions)) <= Quota

\* The MAC table refuses when it is full, the IP table makes room: by registration,
\* take-over, DHCP and delayed packets neither grows over its limit.
WithinLimits ==
  /\ Cardinality(MacsUsed(macTable)) <= MaxMacTables
  /\ Cardinality(IpsUsed(ipTable)) <= MaxIpTables

\* POL_EX_3: an IPv4 address in the hands of a DHCPForce session was given out by
\* a DHCP server, through refreshes, take-overs and evictions.
DhcpForced ==
  \A i \in Ips4 : LET e == ipTable[i] IN
    e.session # Nobody /\ Policy[e.session].DHCPForce => e.dhcp

\* POL_EX_6, POL_EX_7: a checked session takes over an address only from an owner
\* that was silent for the exclusive time (or that a DHCP server moved).
AddressTakeover ==
  [][/\ \A m \in Macs \ DLinkMacs : LET o == macTable[m].session  n == macTable'[m].session IN
          o # Nobody /\ n \notin {o, Nobody} /\ CheckMacApplies(n)
            => macTable[m].updated + MacExclusiveTime < now
     /\ \A i \in Ips : LET o == ipTable[i].session  n == ipTable'[i].session IN
          /\ o # Nobody /\ n \notin {o, Nobody}
          /\ Policy[n].CheckIP \/ Policy[n].DHCPForce
          => ipTable[i].updated + IpExclusiveTime < now \/ ipTable'[i].dhcp
    ]_vars

\* A session that is gone for good leaves nothing behind it that StorePacket
\* would still deliver for: what it sent may be queued, what it owned is not.
NothingLeftBehind ==
  \A s \in Sessions : pc[s] \in {"none", "untabled"} =>
    MacsOf(macTable, s) = {} /\ IpsOf(ipTable, s, Ips) = {} /\ s \notin sessionList

\* POL_EX_15 (hamcore/strtable_en.stb:727): "For sessions with this policy setting,
\* this limits the number of MAC addresses per session."
MacLimitPerSession ==
  \A s \in Sessions : MacLimited(s) => Cardinality(MacsOf(macTable, s)) <= MacLimit(s)

\* What is left of it: over its limit a session's addresses grow only by those it
\* takes over, while RegisterMac always counts them first.
MacLimitPassed ==
  [][macTable' # macTable => \A s \in Sessions : MacLimited(s) =>
       \/ Cardinality(MacsOf(macTable', s))
            <= Greater(MacLimit(s), Cardinality(MacsOf(macTable, s)))
       \/ \E m \in Macs : macTable[m].session \notin {s, Nobody} /\ macTable'[m].session = s
    ]_vars

\* The same for the IPv4 addresses of POL_EX_16 and NoRouting: over the limit they
\* grow only by those taken over from a session or given out by a DHCP server.
IpLimitPassed ==
  [][\A s \in Sessions : IpLimited(s) =>
       \/ Cardinality(IpsOf(ipTable', s, Ips4))
            <= Greater(IpLimit(s), Cardinality(IpsOf(ipTable, s, Ips4)))
       \/ \E i \in Ips4 :
            /\ ipTable[i].session # s /\ ipTable'[i].session = s
            /\ ipTable[i].session # Nobody \/ ipTable'[i].dhcp
    ]_vars

\* POL_EX_29 (hamcore/strtable_en.stb:757): "this specifies the number of IPv6
\* addresses that can be registered for a single session".  Router messages and
\* DHCPv6 are let past the limit.
IpV6LimitPerSession ==
  \A s \in Sessions : IpLimitedV6(s) => Cardinality(IpsOf(ipTable, s, Ips6)) <= IpLimitV6(s)

\* No port is given more than MAX_STORED_QUEUE_NUM blocks to keep.
QueuesBounded == \A s \in Sessions : Len(queue[s]) <= MaxStoredQueue

\* The hub, with all its steps, is the fabric of PortFabric: the ports are the
\* sessions that have a HUB_PA.  A packet reaches only sessions whose HUB_PA is
\* allocated at that very step, never its sender, in FIFO order.
Fabric == INSTANCE PortFabric WITH
  Ports <- Sessions, Packets <- Blocks, Capacity <- MaxStoredQueue,
  attached <- {s \in Sessions : HasPa(s)}, out <- queue
FabricSpec == Fabric!FSpec
=============================================================================
