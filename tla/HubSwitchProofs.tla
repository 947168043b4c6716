-------------------------- MODULE HubSwitchProofs --------------------------
(***************************************************************************)
(* Proofs about the data plane of a Virtual Hub, for any number of sessions, *)
(* addresses, packets and limits.  IInv is inductive; from it follow that no  *)
(* pointer to a freed HUB_PA is used, that no block enters a queue that was   *)
(* drained, that no port hears itself, and that the hub implements the        *)
(* abstract PortFabric.                                                       *)
(***************************************************************************)
EXTENDS HubSwitch, HubFdbProofs, FiniteSetTheorems, SequenceTheorems

IInv == TypeOK /\ Ownership

\* A session that is inside its loop, or on its way out of it, has a HUB_PA.
LEMMA TabledHasPa == ASSUME NEW s, pc[s] \in Tabled PROVE HasPa(s)
  BY DEF Tabled, HasPa

\* Counting never leaves the numbers: the sets that are counted are finite.
LEMMA Counts ==
  /\ \A q \in Seq(Blocks) : Flooded(q) \in Nat
  /\ \A D, d : D \subseteq {d} => Cardinality(Accepting(D)) \in Nat
<1>1. ASSUME NEW q \in Seq(Blocks) PROVE Flooded(q) \in Nat
  <2>1. IsFiniteSet(1 .. Len(q))  BY FS_Interval
  <2>2. {i \in DOMAIN q : q[i].flooding} \subseteq 1 .. Len(q)  OBVIOUS
  <2>3. QED  BY <2>1, <2>2, FS_Subset, FS_CardinalityType DEF Flooded
<1>2. ASSUME NEW D, NEW d, D \subseteq {d} PROVE Cardinality(Accepting(D)) \in Nat
  <2>1. IsFiniteSet({d})  BY FS_Singleton
  <2>2. Accepting(D) \subseteq {d}  BY <1>2 DEF Accepting
  <2>3. QED  BY <2>1, <2>2, FS_Subset, FS_CardinalityType
<1>3. QED  BY <1>1, <1>2

\* Blocks may be stored for any set of sessions that have a HUB_PA and do not
\* include the sender (StorePacketToHubPa).
LEMMA EnqueueOwned ==
  ASSUME IInv, NEW D \in SUBSET Sessions, \A d \in D : HasPa(d),
         NEW b \in Blocks, b.src \notin D, Enqueue(D, b), UNCHANGED pc
  PROVE  queue' \in [Sessions -> Seq(Blocks)] /\ QueuesOwned'
<1> USE DEF IInv, TypeOK
<1>1. ASSUME NEW s \in Sessions
      PROVE  \/ queue'[s] = queue[s]
             \/ s \in D /\ queue'[s] = Append(queue[s], b)
  BY DEF Enqueue, Accepting
<1>2. queue' = [s \in Sessions |-> queue'[s]]  BY DEF Enqueue
<1>3. ASSUME NEW s \in Sessions PROVE queue'[s] \in Seq(Blocks)
  <2>1. queue[s] \in Seq(Blocks)  OBVIOUS
  <2>2. Append(queue[s], b) \in Seq(Blocks)  BY <2>1
  <2>3. QED  BY <1>1, <2>1, <2>2
<1>4. NoBlockWithoutPa'
  <2> SUFFICES ASSUME NEW s \in Sessions, queue'[s] # <<>> PROVE HasPa(s)'
    BY DEF NoBlockWithoutPa
  <2>1. HasPa(s)
    BY <1>1 DEF NoBlockWithoutPa, Ownership, QueuesOwned
  <2>2. QED  BY <2>1 DEF HasPa
<1>5. NoReflection'
  <2> SUFFICES ASSUME NEW s \in Sessions, NEW i \in DOMAIN queue'[s]
               PROVE  queue'[s][i].src # s
    BY DEF NoReflection
  <2>1. CASE queue'[s] = queue[s]
    BY <2>1 DEF NoReflection, Ownership, QueuesOwned
  <2>2. CASE s \in D /\ queue'[s] = Append(queue[s], b)
    <3>1. CASE i \in DOMAIN queue[s]
      BY <2>2, <3>1 DEF NoReflection, Ownership, QueuesOwned
    <3>2. CASE i = Len(queue[s]) + 1  BY <2>2, <3>2
    <3>3. QED  BY <2>2, <3>1, <3>2
  <2>3. QED  BY <1>1, <2>1, <2>2
<1>6. QED  BY <1>2, <1>3, <1>4, <1>5 DEF QueuesOwned

\* A queue that shrinks to its tail or to nothing stays as it should be.
LEMMA DequeueOwned ==
  ASSUME IInv, NEW s \in Sessions, NEW q \in {<<>>, Tail(queue[s])},
         q # <<>> => queue[s] # <<>>,
         queue' = [queue EXCEPT ![s] = q],
         \A t \in Sessions : HasPa(t) => HasPa(t)' \/ (t = s /\ q = <<>>)
  PROVE  queue' \in [Sessions -> Seq(Blocks)] /\ QueuesOwned'
<1> USE DEF IInv, TypeOK
<1>1. CASE q = <<>>
  BY <1>1 DEF Ownership, QueuesOwned, NoBlockWithoutPa, NoReflection
<1>2. CASE q # <<>>
  <2>1. queue[s] \in Seq(Blocks) /\ queue[s] # <<>> /\ q = Tail(queue[s])  BY <1>2
  <2>2. /\ q \in Seq(Blocks)
        /\ \A i \in DOMAIN q : i + 1 \in DOMAIN queue[s] /\ q[i] = queue[s][i + 1]
    BY <2>1
  <2>3. NoReflection'
    BY <2>2 DEF Ownership, QueuesOwned, NoReflection
  <2>4. NoBlockWithoutPa'
    BY <1>2, <2>1 DEF Ownership, QueuesOwned, NoBlockWithoutPa
  <2>5. QED  BY <2>2, <2>3, <2>4 DEF QueuesOwned
<1>3. QED  BY <1>1, <1>2
\* A DHCP ACK moves addresses only to sessions the MAC table knows, which have
\* a HUB_PA (StorePacketFilterByPolicy).
LEMMA SnoopOwned ==
  ASSUME IInv, NEW p \in Packets
  PROVE  /\ SnoopDhcp(ipTable, macTable, p, now) \in IpTables
         /\ \A i \in Ips :
              LET o == SnoopDhcp(ipTable, macTable, p, now)[i].session
              IN  o # Nobody => pc[o] \in Tabled
<1> DEFINE T == SnoopDhcp(ipTable, macTable, p, now)
<1>1. ipTable \in IpTables /\ macTable \in MacTables /\ now \in Nat
  BY DEF IInv, TypeOK
<1>2. /\ T \in IpTables
      /\ \A i \in Ips : T[i].session
           \in {ipTable[i].session, Nobody} \cup {macTable[m].session : m \in Macs}
  BY <1>1, SnoopDhcpOwners
<1> HIDE DEF T
<1>3. \A i \in Ips : T[i].session # Nobody => pc[T[i].session] \in Tabled
  BY <1>2 DEF IInv, Ownership, TablesOwned
<1>4. QED  BY <1>2, <1>3 DEF T

\* What StorePacket learns belongs to the session it runs for or to the owner it
\* had, and the job it starts has both its ends attached and different.
LEMMA StoreOwned ==
  ASSUME IInv, NEW s \in Sessions, NEW p \in Packets, CanStore(s),
         NEW ipt \in IpTables,
         \A i \in Ips : ipt[i].session # Nobody => pc[ipt[i].session] \in Tabled,
         StorePacketFrom(s, p, ipt), UNCHANGED pc
  PROVE  /\ macTable' \in MacTables /\ lastFlush' \in Nat
         /\ ipTable' \in IpTables /\ job' \in Jobs
         /\ TablesOwned' /\ JobOwned'
<1> DEFINE L == LearnMac(macTable, lastFlush, s, p.smac, now)
           I == LearnIp(ipt, s, p, now)
           dest == Lookup(L.table, p.dmac)
           ok == L.pass /\ dest # s
<1>1. /\ macTable \in MacTables /\ lastFlush \in Nat /\ now \in Nat /\ job \in Jobs
      /\ p.smac \in MacAddrs /\ p.dmac \in MacAddrs \cup {Bcast} /\ p.kind \in Kinds
  BY DEF IInv, TypeOK, Packets
<1>2. pc[s] = "running" /\ job.stage = "idle" /\ ~Policy[s].MonitorPort
  BY DEF CanStore, MacTableLocked
<1>3. /\ L.table \in MacTables /\ L.flush \in Nat
      /\ \A m \in Macs : L.table[m].session \in {macTable[m].session, s, Nobody}
  BY <1>1, LearnMacOwners
<1>4. /\ I.table \in IpTables
      /\ \A i \in Ips : I.table[i].session \in {ipt[i].session, s, Nobody}
  BY <1>1, LearnIpOwners
<1>5. /\ macTable' = L.table /\ lastFlush' = L.flush
      /\ ipTable' = IF ok THEN I.table ELSE ipt
      /\ \/ ok /\ job' = NewJob(s, p, dest)
         \/ job' = job
  BY DEF StorePacketFrom
<1> HIDE DEF I, L
<1>6. \A m \in Macs : L.table[m].session # Nobody => pc[L.table[m].session] \in Tabled
  BY <1>2, <1>3 DEF IInv, Ownership, TablesOwned, Tabled
<1>7. \A i \in Ips : I.table[i].session # Nobody => pc[I.table[i].session] \in Tabled
  BY <1>2, <1>4 DEF Tabled
<1>8. TablesOwned'
  BY <1>5, <1>6, <1>7 DEF TablesOwned
<1>9. dest \in Owners /\ (dest # Nobody => pc[dest] \in Tabled)
  BY <1>3, <1>6 DEF Lookup, MacTables, MacEntries, Owners
<1> HIDE DEF dest
<1>10. ok => NewJob(s, p, dest) \in Jobs
  BY <1>1, <1>9 DEF NewJob, Jobs, Stages, Sources
<1>11. JobOwned'
  BY <1>2, <1>5, <1>9 DEF NewJob, JobOwned, MacTableLocked
<1>12. QED  BY <1>1, <1>3, <1>4, <1>5, <1>8, <1>10, <1>11
LEMMA InitIInv == ASSUME Init PROVE IInv
<1>1. TypeOK
  <2>1. NoMac \in MacEntries /\ NoIpEntry \in IpEntries
    BY DEF NoMac, NoIpEntry, MacEntries, IpEntries, Owners
  <2>2. NoJob \in Jobs
    BY DEF NoJob, Jobs, Stages, Sources, Kinds, Owners
  <2>3. "none" \in PCs  BY DEF PCs
  <2>4. <<>> \in Seq(Blocks) /\ <<>> \in Seq(Packets)  OBVIOUS
  <2>5. QED
    BY <2>1, <2>2, <2>3, <2>4 DEF Init, TypeOK, MacTables, IpTables
<1>2. Ownership
  BY DEF Init, Ownership, TablesOwned, MonitorsOwned, JobOwned, QueuesOwned,
         NoBlockWithoutPa, NoReflection, MacTableLocked, NoMac, NoIpEntry, NoJob
<1>3. QED  BY <1>1, <1>2 DEF IInv

\* Whatever a connection charges are numbers, and nothing else changes.
LEMMA ConnectionStepIs ==
  ASSUME TypeOK, NEW s \in Sessions, ConnectionStep(s)
  PROVE  /\ lastPacketQueueSize' \in [Sessions -> Nat] /\ lastTcpQueueSize' \in [Sessions -> Nat]
         /\ \E a, b \in Nat : Charge(s, a, b)
<1>1. \E a, b \in Nat : Charge(s, a, b)
  <2>1. lastPacketQueueSize[s] \in Nat /\ lastTcpQueueSize[s] \in Nat /\ ConnectionRoom[s] \in Nat
    BY SwitchAssumption DEF TypeOK
  <2>2. CASE ChargeSendQueue(s)  BY <2>1, <2>2 DEF ChargeSendQueue
  <2>3. CASE ChargeSockets(s)  BY <2>1, <2>3 DEF ChargeSockets
  <2>4. CASE SettleConnection(s)  BY <2>1, <2>4 DEF SettleConnection
  <2>5. CASE CleanupConnection(s)  BY <2>5 DEF CleanupConnection
  <2>6. QED  BY <2>2, <2>3, <2>4, <2>5 DEF ConnectionStep
<1>2. QED  BY <1>1 DEF Charge, TypeOK

\* The invariant survives every step of a session's thread around its packets.
LEMMA SessionStepIInv ==
  ASSUME IInv, NEW s \in Sessions, SessionStep(s) PROVE IInv'
<1> USE DEF IInv, listVars, fdbVars, outVars, chargeVars
<1>1. CASE AddSession(s)
  <2> USE <1>1 DEF AddSession
  <2>1. TypeOK'  BY DEF TypeOK, PCs
  <2>2. QueuesOwned'
    BY DEF Ownership, QueuesOwned, NoBlockWithoutPa, NoReflection, HasPa, TypeOK
  <2>3. TablesOwned' /\ MonitorsOwned' /\ JobOwned'
    BY DEF Ownership, TablesOwned, MonitorsOwned, JobOwned, MacTableLocked, Tabled, TypeOK
  <2>4. QED  BY <2>1, <2>2, <2>3 DEF Ownership
<1>2. CASE HubPaInit(s)
  <2> USE <1>2 DEF HubPaInit
  <2>1. queue' \in [Sessions -> Seq(Blocks)] /\ QueuesOwned'
    BY DequeueOwned DEF TypeOK, HasPa
  <2>2. TypeOK'  BY <2>1 DEF TypeOK, PCs
  <2>3. TablesOwned' /\ MonitorsOwned' /\ JobOwned'
    BY DEF Ownership, TablesOwned, MonitorsOwned, JobOwned, MacTableLocked, Tabled, TypeOK
  <2>4. QED  BY <2>1, <2>2, <2>3 DEF Ownership
<1>3. CASE HubPaInitMonitor(s)
  <2> USE <1>3 DEF HubPaInitMonitor
  <2>1. TypeOK'  BY DEF TypeOK, PCs
  <2>2. QueuesOwned'
    BY DEF Ownership, QueuesOwned, NoBlockWithoutPa, NoReflection, HasPa, TypeOK
  <2>3. TablesOwned' /\ MonitorsOwned' /\ JobOwned'
    BY DEF Ownership, TablesOwned, MonitorsOwned, JobOwned, MacTableLocked, Tabled, TypeOK
  <2>4. QED  BY <2>1, <2>2, <2>3 DEF Ownership
<1>4. CASE StartLoop(s)
  <2> USE <1>4 DEF StartLoop
  <2>1. TypeOK'  BY DEF TypeOK, PCs
  <2>2. QueuesOwned'
    BY DEF Ownership, QueuesOwned, NoBlockWithoutPa, NoReflection, HasPa, TypeOK
  <2>3. TablesOwned' /\ MonitorsOwned' /\ JobOwned'
    BY DEF Ownership, TablesOwned, MonitorsOwned, JobOwned, MacTableLocked, Tabled, TypeOK
  <2>4. QED  BY <2>1, <2>2, <2>3 DEF Ownership
<1>5. CASE DelSession(s)
  <2> USE <1>5 DEF DelSession
  <2>1. TypeOK'  BY DEF TypeOK, PCs
  <2>2. QueuesOwned'
    BY DEF Ownership, QueuesOwned, NoBlockWithoutPa, NoReflection, HasPa, TypeOK
  <2>3. TablesOwned' /\ MonitorsOwned'
    BY DEF Ownership, TablesOwned, MonitorsOwned, Tabled, TypeOK
  <2>4. JobOwned'
    BY DEF Ownership, JobOwned, MacTableLocked, Busy, Tabled, TypeOK
  <2>5. QED  BY <2>1, <2>2, <2>3, <2>4 DEF Ownership
<1>6. CASE HubPaFreeMonitor(s)
  <2> USE <1>6 DEF HubPaFreeMonitor
  <2>1. TypeOK'  BY DEF TypeOK, PCs
  <2>2. QueuesOwned'
    BY DEF Ownership, QueuesOwned, NoBlockWithoutPa, NoReflection, HasPa, TypeOK
  <2>3. TablesOwned' /\ MonitorsOwned' /\ JobOwned'
    BY DEF Ownership, TablesOwned, MonitorsOwned, JobOwned, MacTableLocked, Tabled, TypeOK
  <2>4. QED  BY <2>1, <2>2, <2>3 DEF Ownership
<1>7. CASE HubPaFreeTables(s)
  <2> USE <1>7 DEF HubPaFreeTables
  <2>1. /\ macTable' \in MacTables /\ ipTable' \in IpTables
        /\ \A m \in Macs : macTable'[m].session \in {macTable[m].session, Nobody} \ {s}
        /\ \A i \in Ips : ipTable'[i].session \in {ipTable[i].session, Nobody} \ {s}
    BY ForgetOwners DEF TypeOK
  <2>2. TypeOK'  BY <2>1 DEF TypeOK, PCs
  <2>3. QueuesOwned'
    BY DEF Ownership, QueuesOwned, NoBlockWithoutPa, NoReflection, HasPa, TypeOK
  <2>4. TablesOwned'
    <3>1. \A o \in Owners : o # s /\ pc[o] \in Tabled => pc'[o] \in Tabled
      BY DEF TypeOK
    <3>2. /\ \A m \in Macs : macTable'[m].session \in Owners
          /\ \A i \in Ips : ipTable'[i].session \in Owners
      BY <2>1 DEF MacTables, IpTables, MacEntries, IpEntries
    <3>3. QED  BY <2>1, <3>1, <3>2 DEF Ownership, TablesOwned
  <2>5. MonitorsOwned' /\ JobOwned'
    BY DEF Ownership, MonitorsOwned, JobOwned, MacTableLocked, TypeOK
  <2>6. QED  BY <2>2, <2>3, <2>4, <2>5 DEF Ownership
<1>8. CASE HubPaFreeQueue(s)
  <2> USE <1>8 DEF HubPaFreeQueue
  <2>1. queue' \in [Sessions -> Seq(Blocks)] /\ QueuesOwned'
    BY DequeueOwned DEF TypeOK, HasPa
  <2>2. tcpQueueSize' \in Int /\ delayed' \in [Sessions -> Seq(Packets)]
    <3>1. Flooded(queue[s]) \in Nat  BY Counts DEF TypeOK
    <3>2. QED  BY <3>1 DEF TypeOK
  <2>3. TypeOK'  BY <2>1, <2>2 DEF TypeOK, PCs
  <2>4. TablesOwned' /\ MonitorsOwned' /\ JobOwned'
    BY DEF Ownership, TablesOwned, MonitorsOwned, JobOwned, MacTableLocked, Tabled, TypeOK
  <2>5. QED  BY <2>1, <2>3, <2>4 DEF Ownership
<1>9. CASE HubPaGetNextPacket(s)
  <2> USE <1>9 DEF HubPaGetNextPacket
  <2>1. queue' \in [Sessions -> Seq(Blocks)] /\ QueuesOwned'
    BY DequeueOwned DEF HasPa
  <2>2. TypeOK'  BY <2>1 DEF TypeOK
  <2>3. TablesOwned' /\ MonitorsOwned' /\ JobOwned'
    BY DEF Ownership, TablesOwned, MonitorsOwned, JobOwned, MacTableLocked
  <2>4. QED  BY <2>1, <2>2, <2>3 DEF Ownership
<1>10. CASE StoreDelayedPacket(s)
  <2> USE <1>10 DEF StoreDelayedPacket
  <2>1. PICK i \in DOMAIN delayed[s] :
          /\ StorePacketFrom(s, delayed[s][i], ipTable)
          /\ delayed' = [delayed EXCEPT ![s] = SubSeq(@, 1, i - 1) \o SubSeq(@, i + 1, Len(@))]
    OBVIOUS
  <2>2. delayed[s] \in Seq(Packets) /\ i \in 1 .. Len(delayed[s])  BY DEF TypeOK
  <2>3. delayed[s][i] \in Packets  BY <2>2
  <2>4. ipTable \in IpTables
        /\ \A k \in Ips : ipTable[k].session # Nobody => pc[ipTable[k].session] \in Tabled
    BY DEF TypeOK, Ownership, TablesOwned
  <2>5. /\ macTable' \in MacTables /\ lastFlush' \in Nat
        /\ ipTable' \in IpTables /\ job' \in Jobs
        /\ TablesOwned' /\ JobOwned'
    BY <2>1, <2>3, <2>4, StoreOwned
  <2>6. delayed' \in [Sessions -> Seq(Packets)]
    <3>1. SubSeq(delayed[s], 1, i - 1) \in Seq(Packets)
      BY <2>2, SubSeqProperties
    <3>2. SubSeq(delayed[s], i + 1, Len(delayed[s])) \in Seq(Packets)
      BY <2>2, SubSeqProperties
    <3>3. QED  BY <2>1, <3>1, <3>2, ConcatProperties DEF TypeOK
  <2>7. TypeOK'  BY <2>5, <2>6 DEF TypeOK
  <2>8. MonitorsOwned' /\ QueuesOwned'
    BY DEF Ownership, MonitorsOwned, QueuesOwned, NoBlockWithoutPa, NoReflection, HasPa
  <2>9. QED  BY <2>5, <2>7, <2>8 DEF Ownership
<1>11. CASE ConnectionStep(s)
  <2>1. PICK a, b \in Nat : Charge(s, a, b)  BY <1>11, ConnectionStepIs
  <2>2. tcpQueueSize' \in Int
    <3>1. /\ lastPacketQueueSize[s] \in Nat /\ lastTcpQueueSize[s] \in Nat
          /\ tcpQueueSize \in Int
      BY DEF TypeOK
    <3>2. QED  BY <2>1, <3>1 DEF Charge
  <2>3. TypeOK'  BY <1>11, <2>1, <2>2, ConnectionStepIs DEF TypeOK, Charge
  <2>4. Ownership'
    BY <2>1 DEF Charge, Ownership, TablesOwned, MonitorsOwned, JobOwned, MacTableLocked,
                QueuesOwned, NoBlockWithoutPa, NoReflection, HasPa
  <2>5. QED  BY <2>3, <2>4
<1>12. QED
  BY <1>1, <1>2, <1>3, <1>4, <1>5, <1>6, <1>7, <1>8, <1>9, <1>10, <1>11 DEF SessionStep
\* It survives what a session hands to the hub, the filter's peek included.
LEMMA PutPacketIInv ==
  ASSUME IInv, NEW s \in Sessions, NEW p \in Traffic, PutPacket(s, p) PROVE IInv'
<1> USE DEF IInv, listVars, fdbVars, outVars, chargeVars
<1>0. p \in Packets  BY SwitchAssumption
<1> DEFINE T == SnoopDhcp(ipTable, macTable, p, now)
<1>1. /\ T \in IpTables
      /\ \A i \in Ips : T[i].session # Nobody => pc[T[i].session] \in Tabled
  BY <1>0, SnoopOwned
<1> HIDE DEF T
<1>2. CASE FilterPacket(s, p) \/ DelayPacket(s, p)
  <2> USE <1>2 DEF FilterPacket, DelayPacket
  <2>1. ipTable' = T  BY DEF T
  <2>2. delayed' \in [Sessions -> Seq(Packets)]
    <3>1. Append(delayed[s], p) \in Seq(Packets)  BY <1>0 DEF TypeOK
    <3>2. QED  BY <3>1 DEF TypeOK
  <2>3. TypeOK'  BY <1>1, <2>1, <2>2 DEF TypeOK
  <2>4. TablesOwned'  BY <1>1, <2>1 DEF Ownership, TablesOwned
  <2>5. MonitorsOwned' /\ JobOwned' /\ QueuesOwned'
    BY DEF Ownership, MonitorsOwned, JobOwned, MacTableLocked, QueuesOwned,
           NoBlockWithoutPa, NoReflection, HasPa
  <2>6. QED  BY <2>3, <2>4, <2>5 DEF Ownership
<1>3. CASE StorePacket(s, p)
  <2> USE <1>3 DEF StorePacket
  <2>1. /\ macTable' \in MacTables /\ lastFlush' \in Nat
        /\ ipTable' \in IpTables /\ job' \in Jobs
        /\ TablesOwned' /\ JobOwned'
    BY <1>0, <1>1, StoreOwned DEF T
  <2>2. TypeOK'  BY <2>1 DEF TypeOK
  <2>3. MonitorsOwned' /\ QueuesOwned'
    BY DEF Ownership, MonitorsOwned, QueuesOwned, NoBlockWithoutPa, NoReflection, HasPa
  <2>4. QED  BY <2>1, <2>2, <2>3 DEF Ownership
<1>4. QED  BY <1>2, <1>3 DEF PutPacket

\* The block of a job is a block, from the job's source.
LEMMA JobBlock ==
  ASSUME IInv, NEW f \in BOOLEAN PROVE Block(f) \in Blocks /\ Block(f).src = job.src
  BY DEF IInv, TypeOK, Jobs, Blocks, Block

\* The sets of sessions the three forwarding steps store a block for: each of
\* them has a HUB_PA, and none is the sender.
LEMMA Destinations ==
  ASSUME IInv, MacTableLocked
  PROVE  /\ \A d \in monitorList : d \in Sessions /\ HasPa(d) /\ d # job.src
         /\ job.dest # Nobody => job.dest \in Sessions /\ HasPa(job.dest) /\ job.dest # job.src
         /\ \A d \in job.todo : d \in Sessions /\ d # job.src
  BY SessionAssumption
     DEF IInv, TypeOK, Ownership, MonitorsOwned, JobOwned, HasPa, Tabled, Jobs, Owners, Sources

\* The invariant survives the steps that forward a packet.
LEMMA StoreStepIInv == ASSUME IInv, StoreStep PROVE IInv'
<1> USE DEF IInv, listVars, fdbVars, outVars, chargeVars
<1>1. CASE CopyToMonitors
  <2> USE <1>1 DEF CopyToMonitors
  <2>1. MacTableLocked  BY DEF MacTableLocked
  <2>2. queue' \in [Sessions -> Seq(Blocks)] /\ QueuesOwned'
    BY <2>1, JobBlock, Destinations, EnqueueOwned
  <2>3. job' \in Jobs /\ JobOwned'
    BY <2>1 DEF TypeOK, Jobs, Stages, Ownership, JobOwned, MacTableLocked
  <2>4. TypeOK'  BY <2>2, <2>3 DEF TypeOK
  <2>5. TablesOwned' /\ MonitorsOwned'
    BY DEF Ownership, TablesOwned, MonitorsOwned
  <2>6. QED  BY <2>2, <2>3, <2>4, <2>5 DEF Ownership
<1>2. CASE ForwardUnicast
  <2> USE <1>2 DEF ForwardUnicast
  <2>1. MacTableLocked /\ job.dest # Nobody  BY DEF MacTableLocked
  <2>2. queue' \in [Sessions -> Seq(Blocks)] /\ QueuesOwned'
    BY <2>1, JobBlock, Destinations, EnqueueOwned
  <2>3. job' \in Jobs /\ JobOwned'
    BY DEF NoJob, Jobs, Stages, Sources, Kinds, Owners, JobOwned, MacTableLocked
  <2>4. TypeOK'  BY <2>2, <2>3 DEF TypeOK
  <2>5. TablesOwned' /\ MonitorsOwned'
    BY DEF Ownership, TablesOwned, MonitorsOwned
  <2>6. QED  BY <2>2, <2>3, <2>4, <2>5 DEF Ownership
<1>3. CASE FloodBegin
  <2> USE <1>3 DEF FloodBegin
  <2>1. job' \in Jobs /\ JobOwned'
    BY DEF TypeOK, Jobs, Stages, Ownership, JobOwned, MacTableLocked
  <2>2. TypeOK'  BY <2>1 DEF TypeOK
  <2>3. TablesOwned' /\ MonitorsOwned' /\ QueuesOwned'
    BY DEF Ownership, TablesOwned, MonitorsOwned, QueuesOwned, NoBlockWithoutPa,
           NoReflection, HasPa
  <2>4. QED  BY <2>1, <2>2, <2>3 DEF Ownership
<1>4. ASSUME NEW d \in Sessions, FloodOne(d) PROVE IInv'
  <2> USE <1>4 DEF FloodOne
  <2> DEFINE D == {e \in {d} : HasPa(e) /\ ~IsMonitorMode(e) /\ ~OverQuota(e)
                                /\ DestinationAllows(e)}
             counted == job.src # Hub
  <2>1. MacTableLocked /\ d \in job.todo  BY DEF MacTableLocked
  <2>2. /\ job' = [job EXCEPT !.todo = @ \ {d}]
        /\ Enqueue(D, Block(counted))
        /\ tcpQueueSize' = IF counted THEN tcpQueueSize + Cardinality(Accepting(D))
                           ELSE tcpQueueSize
    OBVIOUS
  <2>3. D \subseteq {d} /\ \A e \in D : HasPa(e)  OBVIOUS
  <2> HIDE DEF D
  <2>4. queue' \in [Sessions -> Seq(Blocks)] /\ QueuesOwned'
    BY <2>1, <2>2, <2>3, JobBlock, Destinations, EnqueueOwned
  <2>5. tcpQueueSize' \in Int
    <3>1. tcpQueueSize \in Int  BY DEF TypeOK
    <3>2. Cardinality(Accepting(D)) \in Nat  BY <2>3, Counts
    <3> HIDE DEF counted
    <3>3. QED  BY <2>2, <3>1, <3>2
  <2>6. job' \in Jobs /\ JobOwned'
    BY <2>2 DEF TypeOK, Jobs, Ownership, JobOwned, MacTableLocked
  <2>7. TypeOK'  BY <2>4, <2>5, <2>6 DEF TypeOK
  <2>8. TablesOwned' /\ MonitorsOwned'
    BY DEF Ownership, TablesOwned, MonitorsOwned
  <2>9. QED  BY <2>4, <2>6, <2>7, <2>8 DEF Ownership
<1>5. CASE FloodEnd
  <2> USE <1>5 DEF FloodEnd
  <2>1. job' \in Jobs /\ JobOwned'
    BY DEF NoJob, Jobs, Stages, Sources, Kinds, Owners, JobOwned, MacTableLocked
  <2>2. TypeOK'  BY <2>1 DEF TypeOK
  <2>3. TablesOwned' /\ MonitorsOwned' /\ QueuesOwned'
    BY DEF Ownership, TablesOwned, MonitorsOwned, QueuesOwned, NoBlockWithoutPa,
           NoReflection, HasPa
  <2>4. QED  BY <2>1, <2>2, <2>3 DEF Ownership
<1>6. QED  BY <1>1, <1>2, <1>3, <1>4, <1>5 DEF StoreStep

\* And the steps of the hub's watchdog, the administrator and the clock.
LEMMA OtherStepIInv ==
  ASSUME IInv, (\E m \in Macs : HubPoll(m)) \/ StopAllSession \/ AdminStep \/ Tick
               \/ UNCHANGED vars
  PROVE  IInv'
<1> USE DEF IInv, listVars, fdbVars, outVars, chargeVars
<1>1. CASE UNCHANGED <<pc, queue>>
  <2>1. QueuesOwned'
    BY <1>1 DEF Ownership, QueuesOwned, NoBlockWithoutPa, NoReflection, HasPa
  <2>2. ASSUME NEW m \in Macs, HubPoll(m) PROVE IInv'
    <3> USE <2>2 DEF HubPoll
    <3>1. Lookup(macTable, m) = macTable[m].session  BY DEF Lookup
    <3>2. macTable[m].session \in Owners
      BY DEF TypeOK, MacTables, MacEntries
    <3>3. job' = [stage |-> "learned", src |-> Hub, kind |-> "arp", bcast |-> m = Bcast,
                  toHub |-> m = HubMac, dest |-> macTable[m].session, todo |-> {}]
      BY <3>1 DEF NewJob
    <3> DEFINE bc == m = Bcast
               th == m = HubMac
    <3>a. bc \in BOOLEAN /\ th \in BOOLEAN  OBVIOUS
    <3> HIDE DEF bc, th
    <3>b. job' = [stage |-> "learned", src |-> Hub, kind |-> "arp", bcast |-> bc,
                  toHub |-> th, dest |-> macTable[m].session, todo |-> {}]
      BY <3>3 DEF bc, th
    <3>4. job' \in Jobs
      BY <3>2, <3>a, <3>b DEF Jobs, Stages, Sources, Kinds
    <3>5. JobOwned'
      BY <3>2, <3>3, SessionAssumption DEF Ownership, TablesOwned, JobOwned, Owners
    <3>6. TypeOK'  BY <3>4 DEF TypeOK
    <3>7. TablesOwned' /\ MonitorsOwned'
      BY DEF Ownership, TablesOwned, MonitorsOwned
    <3>8. QED  BY <2>1, <3>5, <3>6, <3>7 DEF Ownership
  <2>3. CASE StopAllSession \/ Tick \/ UNCHANGED vars
    <3> USE <2>3 DEF StopAllSession, Tick, vars
    <3>1. TypeOK'  BY DEF TypeOK
    <3>2. TablesOwned' /\ MonitorsOwned' /\ JobOwned'
      BY DEF Ownership, TablesOwned, MonitorsOwned, JobOwned, MacTableLocked
    <3>3. QED  BY <2>1, <3>1, <3>2 DEF Ownership
  <2>4. CASE AdminStep
    <3>1. /\ \/ macTable' = macTable
             \/ \E m \in Macs : macTable' = [macTable EXCEPT ![m] = NoMac]
          /\ \/ ipTable' = ipTable
             \/ \E i \in Ips : ipTable' = [ipTable EXCEPT ![i] = NoIpEntry]
          /\ UNCHANGED <<lastFlush, listVars, outVars, delayed, job, now>>
      BY <2>4 DEF AdminStep, StDeleteMacTable, StDeleteIpTable
    <3>2. /\ NoMac \in MacEntries /\ NoMac.session = Nobody
          /\ NoIpEntry \in IpEntries /\ NoIpEntry.session = Nobody
      BY DEF NoMac, NoIpEntry, MacEntries, IpEntries, Owners
    <3>3. /\ macTable' \in MacTables
          /\ \A m \in Macs : macTable'[m].session \in {macTable[m].session, Nobody}
      BY <3>1, <3>2 DEF TypeOK, MacTables
    <3>4. /\ ipTable' \in IpTables
          /\ \A i \in Ips : ipTable'[i].session \in {ipTable[i].session, Nobody}
      BY <3>1, <3>2 DEF TypeOK, IpTables
    <3>5. TypeOK'  BY <3>1, <3>3, <3>4 DEF TypeOK
    <3>6. TablesOwned'  BY <3>1, <3>3, <3>4 DEF Ownership, TablesOwned
    <3>7. MonitorsOwned' /\ JobOwned'
      BY <3>1 DEF Ownership, MonitorsOwned, JobOwned, MacTableLocked
    <3>8. QED  BY <2>1, <3>5, <3>6, <3>7 DEF Ownership
  <2>5. QED  BY <2>2, <2>3, <2>4
<1>2. QED
  BY <1>1 DEF HubPoll, StopAllSession, AdminStep, StDeleteMacTable, StDeleteIpTable, Tick, vars
LEMMA NextIInv == ASSUME IInv, [Next]_vars PROVE IInv'
  BY SessionStepIInv, PutPacketIInv, StoreStepIInv, OtherStepIInv DEF Next

\* The invariant holds in every state of every hub.
THEOREM Inductive == Spec => []IInv
  BY InitIInv, NextIInv, PTL DEF Spec

\* Every variable of the hub keeps its type.
THEOREM TypeCorrect == Spec => []TypeOK
  BY Inductive, PTL DEF IInv

\* Every entry, list member, job and queued block has the owner its thread's place
\* promises (HubPaInit, HubPaFree, StorePacket).
THEOREM OwnershipCorrect == Spec => []Ownership
  BY Inductive, PTL DEF IInv

\* Nothing points to a HUB_PA that HubPaFree has released.
THEOREM NoDanglingPaCorrect == Spec => []NoDanglingPa
<1>1. IInv => NoDanglingPa
  BY DEF IInv, Ownership, TablesOwned, MonitorsOwned, JobOwned, NoDanglingPa, Tabled, HasPa
<1>2. QED  BY <1>1, Inductive, PTL

\* No block enters the queue of a session that has no HUB_PA.
THEOREM NoBlockWithoutPaCorrect == Spec => []NoBlockWithoutPa
<1>1. IInv => NoBlockWithoutPa  BY DEF IInv, Ownership, QueuesOwned
<1>2. QED  BY <1>1, Inductive, PTL

\* No port gets its own packet back.
THEOREM NoReflectionCorrect == Spec => []NoReflection
<1>1. IInv => NoReflection  BY DEF IInv, Ownership, QueuesOwned
<1>2. QED  BY <1>1, Inductive, PTL

-----------------------------------------------------------------------------
(* The session list *)

Listable == {"listed", "inited", "monitored", "running"}
ListOwned == \A s \in sessionList : pc[s] \in Listable

\* A session is in the list only before DelSession takes it out, also when
\* StopAllSession has emptied the list under it.
LEMMA ListOwnedStep == ASSUME TypeOK, ListOwned, [Next]_vars PROVE ListOwned'
<1> USE DEF ListOwned, Listable, TypeOK, listVars
<1>1. CASE UNCHANGED <<pc, sessionList>>  BY <1>1
<1>2. ASSUME NEW s \in Sessions,
             \/ AddSession(s) \/ HubPaInit(s) \/ HubPaInitMonitor(s) \/ StartLoop(s)
             \/ DelSession(s)
      PROVE  ListOwned'
  BY <1>2 DEF AddSession, HubPaInit, HubPaInitMonitor, StartLoop, DelSession
<1>3. ASSUME NEW s \in Sessions,
             HubPaFreeMonitor(s) \/ HubPaFreeTables(s) \/ HubPaFreeQueue(s)
      PROVE  ListOwned'
  BY <1>3 DEF HubPaFreeMonitor, HubPaFreeTables, HubPaFreeQueue
<1>4. CASE StopAllSession  BY <1>4 DEF StopAllSession
<1>5. ASSUME NEW s \in Sessions,
             HubPaGetNextPacket(s) \/ StoreDelayedPacket(s) \/ ConnectionStep(s)
      PROVE  UNCHANGED <<pc, sessionList>>
  BY <1>5, ConnectionStepIs DEF HubPaGetNextPacket, StoreDelayedPacket, Charge
<1>6. ASSUME NEW s \in Sessions, NEW p \in Traffic, PutPacket(s, p)
      PROVE  UNCHANGED <<pc, sessionList>>
  BY <1>6 DEF PutPacket, FilterPacket, DelayPacket, StorePacket
<1>7. ASSUME StoreStep PROVE UNCHANGED <<pc, sessionList>>
  BY <1>7 DEF StoreStep, CopyToMonitors, ForwardUnicast, FloodBegin, FloodOne, FloodEnd
<1>8. ASSUME (\E m \in Macs : HubPoll(m)) \/ AdminStep \/ Tick \/ UNCHANGED vars
      PROVE  UNCHANGED <<pc, sessionList>>
  BY <1>8 DEF HubPoll, AdminStep, StDeleteMacTable, StDeleteIpTable, Tick, vars
<1>9. QED
  BY <1>1, <1>2, <1>3, <1>4, <1>5, <1>6, <1>7, <1>8 DEF Next, SessionStep

\* A session whose HUB_PA is going or gone is in no list and owns no address.
THEOREM NothingLeftBehindCorrect == Spec => []NothingLeftBehind
<1>1. Init => ListOwned  BY DEF Init, ListOwned
<1>2. Spec => []ListOwned
  <2>1. TypeOK /\ ListOwned /\ [Next]_vars => ListOwned'  BY ListOwnedStep
  <2>2. QED  BY <1>1, <2>1, TypeCorrect, PTL DEF Spec
<1>3. IInv /\ ListOwned => NothingLeftBehind
  BY SessionAssumption
     DEF IInv, TypeOK, Ownership, TablesOwned, Tabled, ListOwned, Listable,
         NothingLeftBehind, MacsOf, IpsOf
<1>4. QED  BY <1>2, <1>3, Inductive, PTL

-----------------------------------------------------------------------------
(* Refinement *)

FAttached == {s \in Sessions : HasPa(s)}
FVars == <<FAttached, queue>>

\* Storing a block for some sessions is a delivery of the fabric.
LEMMA EnqueueDelivers ==
  ASSUME IInv, NEW D \in SUBSET Sessions, NEW b \in Blocks, \A d \in D : HasPa(d),
         b.src = job.src, job.src \notin D, MacTableLocked, Enqueue(D, b), UNCHANGED pc
  PROVE  [Fabric!FNext]_FVars
<1>1. b.src \in FAttached \cup {Hub}
  BY DEF IInv, TypeOK, Jobs, Sources, Ownership, JobOwned, HasPa, FAttached
<1>2. Accepting(D) \subseteq Fabric!Listening(b)
  BY DEF FAttached, Accepting, Fabric!Listening
<1>3. queue' = [s \in Sessions |-> IF s \in Accepting(D) THEN Append(queue[s], b) ELSE queue[s]]
  BY DEF Enqueue
<1>4. FAttached' = FAttached  BY DEF FAttached, HasPa
<1>5. Fabric!Deliver(b, Accepting(D))
  BY <1>2, <1>3, <1>4 DEF Fabric!Deliver, FAttached
<1>6. QED  BY <1>1, <1>2, <1>5 DEF Fabric!FNext, FAttached
\* Attaching and detaching: HubPaInit gives the port its HUB_PA, the last step of
\* HubPaFree takes it away with what was queued, and nothing between is seen.
LEMMA SessionStepFabric ==
  ASSUME IInv, NEW s \in Sessions, SessionStep(s) PROVE [Fabric!FNext]_FVars
<1> USE DEF IInv, TypeOK, listVars, outVars, chargeVars, FAttached, FVars
<1>1. CASE HubPaInit(s)
  <2>1. queue[s] = <<>> /\ ~HasPa(s)
    BY <1>1 DEF Ownership, QueuesOwned, NoBlockWithoutPa, HubPaInit, HasPa
  <2>2. queue' = queue  BY <1>1, <2>1 DEF HubPaInit
  <2>3. FAttached' = FAttached \cup {s}  BY <1>1 DEF HubPaInit, HasPa
  <2>4. Fabric!Attach(s)  BY <2>1, <2>2, <2>3 DEF Fabric!Attach
  <2>5. QED  BY <2>4 DEF Fabric!FNext
<1>2. CASE HubPaFreeQueue(s)
  <2>1. HasPa(s) /\ queue' = [queue EXCEPT ![s] = <<>>]
    BY <1>2 DEF HubPaFreeQueue, HasPa
  <2>2. FAttached' = FAttached \ {s}  BY <1>2 DEF HubPaFreeQueue, HasPa
  <2>3. Fabric!Detach(s)  BY <2>1, <2>2 DEF Fabric!Detach
  <2>4. QED  BY <2>3 DEF Fabric!FNext
<1>3. CASE HubPaGetNextPacket(s)
  <2>1. /\ HasPa(s) /\ queue[s] # <<>> /\ queue' = [queue EXCEPT ![s] = Tail(@)]
        /\ FAttached' = FAttached
    BY <1>3 DEF HubPaGetNextPacket, HasPa
  <2>2. Fabric!Take(s)  BY <2>1 DEF Fabric!Take
  <2>3. QED  BY <2>2 DEF Fabric!FNext
<1>4. CASE AddSession(s) \/ HubPaInitMonitor(s) \/ StartLoop(s) \/ DelSession(s)
  BY <1>4 DEF AddSession, HubPaInitMonitor, StartLoop, DelSession, HasPa
<1>5. CASE HubPaFreeMonitor(s) \/ HubPaFreeTables(s) \/ StoreDelayedPacket(s)
  BY <1>5 DEF HubPaFreeMonitor, HubPaFreeTables, StoreDelayedPacket, HasPa
<1>6. CASE ConnectionStep(s)  BY <1>6, ConnectionStepIs DEF Charge, HasPa
<1>7. QED  BY <1>1, <1>2, <1>3, <1>4, <1>5, <1>6 DEF SessionStep

\* Each forwarding step is one delivery, to destinations that are attached at that
\* step and are not the sender.
LEMMA StoreStepFabric == ASSUME IInv, StoreStep PROVE [Fabric!FNext]_FVars
<1> USE DEF listVars
<1>1. CASE CopyToMonitors
  <2>1. MacTableLocked  BY <1>1 DEF CopyToMonitors, MacTableLocked
  <2>2. QED
    BY <1>1, <2>1, JobBlock, Destinations, EnqueueDelivers DEF CopyToMonitors
<1>2. CASE ForwardUnicast
  <2>1. MacTableLocked  BY <1>2 DEF ForwardUnicast, MacTableLocked
  <2>2. QED
    BY <1>2, <2>1, JobBlock, Destinations, EnqueueDelivers DEF ForwardUnicast
<1>3. ASSUME NEW d \in Sessions, FloodOne(d) PROVE [Fabric!FNext]_FVars
  <2> DEFINE D == {e \in {d} : HasPa(e) /\ ~IsMonitorMode(e) /\ ~OverQuota(e)
                                /\ DestinationAllows(e)}
             counted == job.src # Hub
  <2>1. /\ MacTableLocked /\ d \in job.todo /\ UNCHANGED pc
        /\ Enqueue(D, Block(counted))
    BY <1>3 DEF FloodOne, MacTableLocked
  <2>2. D \subseteq {d} /\ \A e \in D : HasPa(e)  OBVIOUS
  <2> HIDE DEF D
  <2>3. QED  BY <2>1, <2>2, JobBlock, Destinations, EnqueueDelivers
<1>4. CASE FloodBegin \/ FloodEnd
  BY <1>4 DEF FloodBegin, FloodEnd, outVars, chargeVars, FVars, FAttached, HasPa
<1>5. QED  BY <1>1, <1>2, <1>3, <1>4 DEF StoreStep

\* The hub implements the fabric: a packet goes only to other ports that are
\* attached then, in order, within the capacity, and is there until it is taken.
THEOREM ImplementsFabric == Spec => FabricSpec
<1>1. Init => Fabric!FInit
  BY DEF Init, Fabric!FInit, HasPa
<1>2. IInv /\ [Next]_vars => [Fabric!FNext]_FVars
  <2> SUFFICES ASSUME IInv, [Next]_vars PROVE [Fabric!FNext]_FVars  OBVIOUS
  <2>1. ASSUME NEW s \in Sessions, NEW p \in Traffic, PutPacket(s, p)
        PROVE  UNCHANGED FVars
    BY <2>1 DEF PutPacket, FilterPacket, DelayPacket, StorePacket, listVars, outVars, chargeVars,
                FVars, FAttached, HasPa
  <2>2. ASSUME \/ (\E m \in Macs : HubPoll(m)) \/ StopAllSession \/ AdminStep \/ Tick
               \/ UNCHANGED vars
        PROVE  UNCHANGED FVars
    BY <2>2 DEF HubPoll, StopAllSession, AdminStep, StDeleteMacTable, StDeleteIpTable,
                Tick, vars, listVars, outVars, FVars, FAttached, HasPa
  <2>3. QED  BY <2>1, <2>2, SessionStepFabric, StoreStepFabric DEF Next
<1>3. QED
  BY <1>1, <1>2, Inductive, PTL DEF Spec, FabricSpec, Fabric!FSpec, FVars, FAttached
=============================================================================
