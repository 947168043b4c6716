# ComfyConnect VPN server in TLA+

Models of the concurrent core of this SoftEther-derived VPN server - its virtual
hubs, its layer 3 switch, its L2TP tunnels and its configuration file - the TLC
runs that check them on small instances, and TLAPS proofs for any instance.
All paths are relative to the repository; `Hub.c`, `Session.c`, `Protocol.c`
and so on are in `src/src/Cedar/`, the base library in `src/src/Mayaqua/`.

## 1. Inventory

| Part | State | Operations | Interacts by |
|---|---|---|---|
| **Virtual Hub, data plane** (`Hub.c`) | `SessionList`, `MonitorList`, `MacHashTable`, `IpTable`, per session a `HUB_PA` with its `PacketQueue`; the server-wide `CurrentTcpQueueSize` | `AddSession`, `HubPaInit`, `HubPaPutPacket`, `StorePacket`, `HubPaGetNextPacket`, `DelSession`, `HubPaFree`, table deletion, the polling watchdog | each session's own thread runs all of these; locks of the four lists |
| **Hub, admission and life cycle** (`Protocol.c` ServerAccept, `Hub.c`) | `NumSessions`, `Offline`, `Halt`, `BeingOffline`, `SecureNAT`, the sessions' `ref` and `Halt` | login checks, placement on a farm, `SetHubOnline`, `SetHubOffline`, `StopHub`, `EnableSecureNATEx` | `hub->lock`, `hub->lock_online`, waiting for threads |
| **Session main loop** (`Session.c`) | queues, keep-alive times, `Halt`, delayed packets | `SessionMain`, `StopSession`, `CleanupSession` | packet adapter call-backs, cancel objects |
| **Connection** (`Connection.c`) | several TCP sockets, send and receive blocks, keep-alive | block framing, additional connects, timeouts | sockets, the session |
| **Client** (`Client.c`, `Session.c` ClientThread) | accounts, one session each, retry counters | `CtConnect`, `CtDisconnect`, auto-reconnect | RPC, the account lock |
| **Virtual layer 3 switch** (`Layer3.c`) | interfaces, ARP table, ARP and IP wait lists, routes | forwarding, ARP, start and stop | a session per interface on each hub |
| **UDP acceleration** (`UdpAccel.c`) | peer address, ticks, liveness | send, receive, NAT traversal | beside the TCP connection |
| **L2TP, IPsec, EtherIP** (`Proto_L2TP.c`, `Proto_IPsec.c`, `Proto_IKE.c`) | tunnels, Ns/Nr, retransmission queues, SAs | reliable control channel, IKE phases | UDP, IPC sessions on the hub |
| **OpenVPN, SSTP, WireGuard, PPP** (`Proto_*.c`, `IPC.c`) | control channels, keys, PPP options | key renewal, reliable control channel | IPC sessions |
| **SecureNAT** (`Virtual.c`, `Nat.c`, `NativeStack.c`) | DHCP leases, NAT tables, a virtual TCP/UDP stack | lease, translate, time out | a session on the hub |
| **Cascades, local bridges** (`Link.c`, `Bridge*.c`) | one session per link or device | start, stop, reconnect | client session; device |
| **Configuration file** (`Cfg.c`, `Server.c`) | the file, its copy `.log`, an upload `.new`; `LashHash`, `NoMoreSave` | save, read, flush, upload, reboot, stop | the disk; saver thread, administrators and the stop share `SaveCfgLock` |
| **Listeners, server, farm** (`Listener.c`, `Server.c`) | listener threads, farm members and call queues | accept, farm calls | TCP, RPC |
| **Administration** (`Admin.c`, `WebUI.c`) | none of its own | one handler per command | calls into the above |
| **Accounts, logging** (`Account.c`, `Sam.c`, `Radius.c`, `Logging.c`) | users, policies, log queue | authenticate, write | the hub |
| **Mayaqua** (`Kernel.c`, `Object.c`, `Memory.c`, `Network.c`, `Cfg.c`, ...) | locks, events, threads, references, lists, sockets, R-UDP | library calls | everything |
| **Drivers, user interfaces, installers, tools, ComfyConnect scripts** | | operating system and user interaction | |

`PROJECT.json` lists each part with its status, and under `hazards` every
place where the order of steps, a limit or stale state can go wrong.

What is hard: every session has a thread that runs the hub's code itself, so
learning, forwarding, attaching and detaching interleave at the granularity of
the lists' locks; administrators and logins use *different* locks for the same
flags; threads wait for threads while holding locks; packets can be delayed;
addresses time out. A layer 3 switch has a session on several hubs, each of
which others take offline while its own thread comes and goes. L2TP runs its
own reliable channel over UDP. The server may be killed while it saves.

What makes the parts correct: no thread reaches a freed `HUB_PA`; a port never
hears itself; policies (privacy filter, DHCP only, exclusive addresses, limits)
hold on every path; counters equal what they count; references have owners;
limits hold under concurrent logins; an offline hub is empty and quiet; a
configuration on disk is old or new and never half; messages are handled in
order and once; and whoever must stop does stop.

## 2. Modules and the code

* **`HubFdb`** - what `StorePacket` does to the MAC and IP tables for one
  packet, as operators from tables to tables: register, refresh, take over,
  expire, evict, the policies' limits, the snooping of DHCP answers, and what
  `HubPaFree` erases.
* **`HubSwitch`** - the threads. A session's `pc` is its place between
  `AddSession` and `CleanupSession`; `job` is the packet in `StorePacket`,
  whose stages are the stretches between two lock operations: `learned` (the
  MAC table locked, tables updated, destination chosen), `copied` (monitors
  have their copies), `flood` (the session list locked as well). `CanStore`,
  `DelSession`, `HubPaFreeTables` and the deletions wait for exactly the lock
  their code takes; `StDeleteIpTable` takes another lock than `StorePacket`
  and so does not wait. `ConnectionStep` is what a session's connection charges to
  `CurrentTcpQueueSize` beside the floods: its send queue (`SessionMain`) and its
  sockets (`ConnectionSend`), and what `SessionMain` and `CleanupConnection` take
  back at its end.
* **`PortFabric`** - the abstract specification: bounded FIFO ports that
  attach and detach, a packet goes to some attached ports other than its
  sender. `HubSwitch!FabricSpec` is the refinement: a port is attached while
  its session has a `HUB_PA`.
* **`HubAdmission`** - `ServerAccept` from `Lock(hub->lock)` to
  `ReleaseSession`, one action per stretch between lock operations or reads of
  `BeingOffline`; `SetHubOnline`, `SetHubOffline` and `StopHub` as threads of
  administrators, each with a script of calls. `refs` is `s->ref`: one
  reference for the thread, one for the list, which `StopAllSession` moves to
  its copy (`toStop`).
* **`ConfigFile`** - `CfgSaveExW3` one file operation at a time (`CopyCreate` to
  `Clean`, and `Undo` and `Rename` when a write failed), `CfgReadW` as the
  operator `Chosen`, the threads that save (`waiting`, `job`), the upload of
  `StSetConfig`, reboot, stop and `Load`. `Crash` may come between any two
  operations, and also after part of a copy or a write.
* **`L2TPControl`** - one tunnel with one session. The server's thread receives
  packets (`ProcControlPacket`, then `ReadHead` until the queue has no next
  message) and runs `L2TPProcessInterrupts`; `Timers` are the times that have
  passed by then, `Sends` what the loop over `SendQueue` sends. The PPP thread
  and the thread of `StopL2TPServer` run beside it. The client is external.
* **`FifoChannel`** - the abstract specification of the channel from client to
  server; `L2TPControl!InOrder` is the refinement (`sent` and `handled`).
* **`L3Switch`** - `L3SwThread` (`pc`), the calls that add, change, start, stop
  and delete the switch, its interfaces' sessions, and the hubs they are on. The
  thread holds the switch's lock in `creating` and not in `stopping`.
* **`MCHubSwitch`**, **`MCHubAdmission`** - values for TLC.
* **`HubFdbProofs`**, **`HubSwitchProofs`**, **`HubQueuesProofs`**,
  **`HubTablesProofs`**, **`HubAdmissionProofs`**, **`ConfigFileProofs`**,
  **`L2TPControlProofs`**, **`L3SwitchProofs`** - proofs.

Abstractions. A MAC address stands for (address, VLAN); an IP address is a
number in the order of `CompareIpTable`; a packet is its addresses, its kind
and, for a DHCP answer, its client. Which packets policies and access lists
refuse is given by sets of kinds and of pairs. The broadcast storm limiter, the
traffic limiters, packet-log quotas, VLAN membership and dormant detection
only ever drop packets: at the source they are the nondeterministic drop of
`StorePacketFrom` and `FilterPacket`, at the destination a packet that was not
dropped is the case modelled. A block has size one, and the server
one hub. `CurrentTcpQueueSize` counts bytes of all hubs in the code: there the
flooded blocks can pass a quota by the floods of two hubs at once, or by one
large block. What a connection holds is any number of blocks up to
`ConnectionRoom`, a bound of the model; the blocks themselves are not followed
out of the hub. The counter may pass the quota by these charges, as in the
code. The quota's check reads the counter without its lock; check and charge
are one step in `FloodOne`, since floods exclude each other by the MAC table's
lock, and a charge of a connection in between changes which floods are refused
but not that each that is let through saw a counter, hence flooded blocks, below
the quota. `TcpSessions` may name sessions that have no sockets (links), for which
the model has more steps than the code. `IsMonitorMode` is set in `SessionMain`;
`ServerAccept` does so before already. In `HubAdmission` the
SecureNAT's own session is the `natOn` that `ListNum` adds (`SnNewSecureNAT`
waits until it is listed), and `SetHubOnline` starts it and clears `Offline` in
one step, under `lock_online`; cascades, local bridges, licences, the
exemption of a cluster's own sessions from the count of logins
(`Protocol.c:2547`) and the administrator's own switch of the SecureNAT are left
out.

In `ConfigFile` a configuration is a version number, and `Torn` a text that was
cut off: `Load` may accept or refuse it. `Stub` is a copy of one character,
which `CfgReadW` takes without looking for an EOF mark and finds nothing in. It
is the process that dies, not the machine: file operations take effect in their
order (a file that was written is synced when it is closed, names are not).
Reading the settings is one step; the dated backups and the template file are
left out. `StopEnd` comes after every `Flush`; the code waits for the saver
thread only (`Server.c:6657`) before it frees `CfgRw`, and what a late `Flush`
does to freed memory is below the model. In `L2TPControl` a packet that was sent
may arrive at any later time, any number of times, or never; the network keeps
one packet per number and type, the last (earlier copies differ in `Nr` only).
Numbers are 16 bit (`SeqLT`, `Succ`). A retransmission of the client is part of
its next step. L2TPv3, data packets, authentication, several tunnels or sessions
and the stop without waiting that IKE uses for one client (`Proto_L2TP.c:2551`)
are left out. In `L3Switch` an interface is its hub's name; `hubOf` tells a hub
from one that was deleted and created again. The calls that change one switch
come one after another. The code lets two administrators overlap: `L3SwStop`
clears `Active` before it waits for the thread, and the other calls look at
`Active` only, so that one can free an interface in use or reset `Halt`. Nothing
shown here holds in that case (a hazard in `PROJECT.json`). The limit of
interfaces, and dynamic hubs of a cluster, on which the switch never comes
online (`Layer3.c:1424`), are left out. Packets, ARP and routes are not part of
it.

Mutants (definitions whose comment says "Mutant") are plausible mistakes next
to the definition they replace; each property of a passing run is violated by
one of them.

## 3. Runs

| Run | Configuration | Expected | Shows |
|---|---|---|---|
| `hub_forward` | `HubSwitchForward.cfg` | holds | attach, detach, copy, unicast, flood, privacy, the flood counter and its quota, the limit of MAC addresses; 3 sessions, one of them monitoring, one limited to one address; 1,373,772 states |
| `hub_learn` | `HubSwitchLearn.cfg` | holds | learning, limits, take-over, expiry, DHCP, delayed packets; 967,034 states |
| `hub_mac_limit` | `HubSwitchMacLimit.cfg` | `MacLimitPerSession` violated | a take-over escapes the limit |
| `adm_churn` | `HubAdmissionChurn.cfg` | holds | counters, references, limits, SecureNAT; 2,502,656 states |
| `adm_stop` | `HubAdmissionStop.cfg` | holds | going offline ends every listed session |
| `adm_dynamic` | `HubAdmissionDynamic.cfg` | `DisconnectsAll` violated | session thread and offline thread wait for each other |
| `adm_offline` | `HubAdmissionOffline.cfg` | `OfflineHasNoSessions` violated | a login overtakes going offline |
| `adm_logins` | `HubAdmissionLogins.cfg` | `MultiLoginLimit` violated | two logins at once |
| `config_file` | `ConfigFile.cfg` | holds | a save is all or nothing (but for a copy of one character), a skipped save was not needed, an orderly stop keeps everything, settings reach the disk; 1,778,432 states |
| `l2tp_control` | `L2TPControl.cfg` | holds | messages in order and once, none forgotten, room for the message that is due unless the window is used up, no PPP thread left behind; 697,092 states |
| `l2tp_stop` | `L2TPStop.cfg` | holds | `StopL2TPServer` returns; 200,638 states |
| `l3_switch` | `L3Switch.cfg` | holds | thread, interfaces and sessions match, a stop is answered, hubs can close, the switch follows its hubs; 16,021 states |

Bounds, all named constants. `MaxStoredQueue = 1` and `Quota = 1` in
`hub_forward`: a full queue and a full quota are both one packet away, and a
detach can meet a full queue. One connection can charge one block
(`ConnectionRoom`), which uses up a quota of one without a flood. Two senders
and one monitoring port are the fewest ports with a flood to one, a copy to
another and nothing to the sender. `hub_learn` looks at the tables only, so its
queues have no room (`MaxStoredQueue = 0`) and no state is spent on them; there
are one MAC and one IP slot fewer than addresses, so that tables overflow; the
times are chosen such that `MacExclusiveTime < IpExpireTime < MacExpireTime <
MaxTime` and each expires within the run; one packet can be delayed
(`MaxDelayed`). In `HubAdmission` nothing needs a bound beyond the scripts:
connections and scripts come to an end, which is why deadlock is not checked
there. One administrator goes offline and online again while the other halts the
hub; three connections to a hub of one session, the third exempt as the
administrator's, are the fewest that meet the hub's limit, the server's limit
and a list to stop with several sessions in it. The runs with two sessions have
what their question needs. `ConfigFile`: two changes give an old, a current and
an uploaded configuration; two crashes hit a save and the first save after the
restart, two faults a copy and the write after it. `L2TPControl`: three messages
are connect, open and a third that closes or establishes; three under way at
once overtake each other and fill the window of three, two leave room in it; one
Hello puts a server's message between the others. `l2tp_stop` lets the client go
through its whole life (four messages), one at a time, which bounds the network.
`L3Switch` needs two hubs for one to fail while the other is up; nothing else is
bounded.

Fairness (`HubAdmission!FairSpec`): weak fairness of each thread's progress,
because the operating system schedules threads and every lock is held for
finitely many steps - unless its holder waits, which is what the liveness run is
about. Nobody has to connect (`CheckOnline`) or to hang up (`EndMain` of a
session that was not told to stop). `ConfigFile`: the saver wakes up
(`AutoSaveConfigSpan`) and a save that began goes on; nothing is assumed of
faults and crashes, which are bounded. `L2TPControl`: the receiving thread
handles one batch of packets, then the interrupts, for ever
(`Proto_IPsec.c:216`, `:307`). A batch disables the interrupts, so that weak
fairness would not do, and the thread comes back to them after each: `SF` on the
interrupt with the disconnect times passed; and an ended thread is noticed. The
client and the network owe nothing. `L3Switch`: the thread polls, a session told
to stop ends, who began a call goes on.

## 4. What the violations say

* **`adm_dynamic`**: `Protocol.c:3276` reads `BeingOffline`, then
  `EnableSecureNATEx` waits for `lock_online`; `SetHubOffline` in between holds
  that lock and waits for this thread in `StopAllSession`. Neither goes on.
* **`adm_offline`**: `Offline` is checked under `hub->lock` and set under
  `lock_online`; a session may be added after `StopAllSession` emptied the list,
  and nobody stops it.
* **`adm_logins`**: the count of a user's logins is taken with the lock released
  and leaves out sessions that are not tunneling yet.
* **`hub_mac_limit`**: taking an address over is not counted. It is the only way
  past the limit: `MacLimitPassed`, checked by `hub_forward` and proved
  (`MacLimitPassedCorrect`). IPv4 addresses behave the same, and a DHCP answer is
  not counted either (`IpLimitPassedCorrect`). IPv6 addresses are not taken over;
  their limit is passed by router messages and DHCPv6 alone, which the code
  exempts (`IpV6LimitCorrect`).

Five hazards the models show and no property excludes, since nothing in the
repository promises otherwise: a process that is killed when its save has copied
one byte loses the configuration although the file itself is intact, since
`CfgReadW` looks for the EOF mark in copies of two bytes or more only
(`Cfg.c:470`, the exemption in `SavedAtOnce`); a second crash (or an unnoticed
failed copy) before the first good save after a torn one loses the configuration
(`SavedAtOnce` has `sound` as its premise); a client that uses the whole window,
which the server advertises (`Proto_L2TP.c:1692`), can block the reception queue
with an acknowledgement (the premise of `RoomForNext`); a PPP thread of a
session established in a tunnel told to disconnect is lost (`late`); a layer 3
switch that comes online between `StopHub` and `DelHub` stays on the deleted hub
(`deletedOnline`).

## 5. Proofs

For every set of sessions, users, policies, addresses, limits and scripts
allowed by the modules' assumptions (`SessionAssumption`, `AddressAssumption`,
`PolicyAssumption`, `LimitAssumption`, `SwitchAssumption`,
`AdmissionAssumption`: distinct model values, finite sets where the code counts,
natural numbers):

* `HubFdbProofs`: after learning, snooping or forgetting, each entry of a table
  is free, as before, or owned by the session the packet came from (or, for
  DHCP, by a session the MAC table names). These lemmas are the only thing the
  next module uses of the tables.
* `HubSwitchProofs`: `TypeOK /\ Ownership` is inductive (`Inductive`).
  `NoDanglingPa` alone is not: that an entry belongs to an attached session says
  nothing about a session in the middle of `HubPaFree`. `Ownership` therefore
  says at which places of its thread a session may own an entry, be in the
  monitor list, be the source or the destination of a job. From it:
  `NoDanglingPaCorrect`, `NoBlockWithoutPaCorrect`, `NoReflectionCorrect`,
  `NothingLeftBehindCorrect`, and `ImplementsFabric`: `Spec => FabricSpec`.
* `HubQueuesProofs`: the queues. `QueueSteps`: five steps touch them (`HubPaInit`
  finds its queue empty, by `NoBlockWithoutPa`). `FloodAccounting` needs one
  thing more to be inductive: that the set of flooded blocks is finite
  (`Accounted`), since there may be infinitely many sessions. Appending a block
  adds one to the count of its queue, taking one from the front shifts the
  others (a bijection, `FloodedTail`), and what changes in one queue changes the
  union by as much (`OneQueueChanges`); so do the charges of the connections
  (`OneChargeChanges`). `FloodQuota` follows step by step: a flood that is let
  through saw the counter below the quota, and the counter is at least the flooded
  blocks of the counted sessions (`CounterCovers`, from `FloodAccounting`).
  `PrivacyIsolation`: only a block that is stored needs to be looked at, and
  `PrivacyForbids` let it through or it went to a monitoring port. From it:
  `FloodAccountingCorrect`, `FloodQuotaCorrect`, `PrivacyIsolationCorrect`,
  `QueuesBoundedCorrect`.
* `HubTablesProofs`: the tables. `TablesGood` says that the used entries are
  finitely many, within the limits, and that DHCPForce sessions own what DHCP gave
  out. Finiteness is needed where the full IP table makes room: the code removes
  the last entry of the sorted list, and that a finite set of addresses has a
  last one (`FiniteHasMax`) is proved from the well-foundedness of its subsets,
  without induction. `TableSteps` reduces a step of the hub to two kinds: entries
  are only removed (`Shrinks`), or one packet of a session is learned from
  (`Learns`); the lemmas before it say what learning does to a good table. From
  it: `WithinLimitsCorrect`, `DhcpForcedCorrect`, `AddressTakeoverCorrect`,
  `MacLimitPassedCorrect`, `IpLimitPassedCorrect`, and, for traffic without router
  messages and DHCPv6, `IpV6LimitCorrect`, which also needs that delayed packets
  are traffic (`DelayedTraffic`).
* `HubAdmissionProofs`: `IInv` adds to the properties that a session is in the
  list only until its clean-up (`Placed`), that `toStop` is empty
  outside of `StopAllSession`, and that an administrator in a call has one in
  its script (`Scripted`). Counting is by lemmas on cardinalities: a step moves
  one session, which adds one, takes one away, or changes nothing
  (`CountStep`, `MovesKeeps`, `CleanupStep`). From it: `CountersCorrect`,
  `SessionLimitCorrect`, `RefsCorrect`, `NatCorrect`. `LockOrderCorrect` says who
  holds which lock where: no thread holds both, and the deadlock of
  `adm_dynamic` needs a dynamic hub, as on any other no session's thread ever
  wants `lock_online`.
* `ConfigFileProofs` (`ConfigAssumption`): what a start would find is no
  invariant of the files alone, it depends on where the save is. `FilesInSave`
  says for each place what the three files can be, `GoodCopy` that a sound save
  has a complete copy as long as the file itself is not whole, and that what a
  start finds during the copying is the file, unless the copy is a `Stub`,
  `HashInSave` what the remembered hash is worth meanwhile, `Versions` and
  `Kept` that an orderly stop saves the last version. From it:
  `HashHonestCorrect`, `SavedAtOnceCorrect`, `OrderlyRestartCorrect`.
* `L2TPControlProofs` (`L2TPAssumption`): `Numbers` relates both sides. `Known`:
  neither side has seen more acknowledged than the other sent; `FromClient` and
  `FromServer`: every packet under way carries the message its number stands for
  and an `Nr` its sender had reached; `HandledPrefix`: `handled` is the
  beginning of `sent`, as long as `LastNr` says; the queued numbers differ and
  lie behind the one that is due, hence the room. `Counted`: the server sends
  four messages and its Hellos, so that no number wraps (`L2TPAssumption` bounds
  both sides below 32768; with a Hello every 8.8 seconds a tunnel passes that
  after days, about which nothing is shown). `Life` is the life of tunnel,
  session and thread. From it: `KeptCorrect`, `RoomCorrect`, `NoOrphanCorrect`,
  and `InOrderCorrect`, the refinement of `FifoChannel`.
* `L3SwitchProofs` (no assumption): `Match` is `SessionsMatch` extended to the
  steps where sessions are created and stopped, `Calls` ties the calls to the
  thread, `Waited` says that interfaces the stopping thread has passed have
  ended sessions. From it: `MatchCorrect`, `DropCorrect`.

Every invariant, every action property and both refinements (`FabricSpec`,
`InOrder`) that the passing runs check are proved. Out of TLAPS's reach and only
model-checked: liveness under fairness (`DisconnectsAll`, `EventuallySaved`,
`StopReturns`, `StopAnswered`, `HubsClose`, `FollowsOffline`, `ComesOnline`).
Nothing is stated with ENABLED, and no theorem needs induction over data or a
RECURSIVE operator (there is none). `IpLimitPassed`, `IpV6LimitPerSession`,
`QueuesBounded` and `LockOrder` are proved and belong to no run.

## 6. Plan

1. Data plane: `HubFdb`, `HubSwitch`, `PortFabric` - done.
2. Admission and life cycle: `HubAdmission` - done; to add: the administrator's
   `EnableSecureNAT`, cascades started and stopped with the hub, and whether a
   dynamic hub's SecureNAT stops with the last session.
3. `ConfigFile`: saving and starting under crashes - done.
4. `L2TPControl` with `FifoChannel` - done; the same shape fits OpenVPN's control
   channel (`Proto_OpenVPN.c`), which acknowledges by packet id.
5. `L3Switch`: the life cycle - done. Next to it `L3Forwarding`: ARP table, ARP
   and IP wait lists with their expiry, `L3GetNextIf`, and `L3GetBestRoute`
   against a reference definition (longest mask, then smallest metric, as its
   comment says; the minimum of the metric is not reset when a longer mask is
   met).
6. Proofs of the data plane's remaining properties: `HubQueuesProofs`,
   `HubTablesProofs` - done.
7. `ClientSession` (`Client.c`, `Session.c`): connect, disconnect, retry and
   keep-connect threads over the account lock, with an abstract account (idle,
   connecting, connected). Cascades (`Link.c`) compose with it.
8. `UdpAccel` (liveness of the path and fallback), `VirtualDhcp` (leases against
   expiry), `Listener`, `CurrentTcpQueueSize` over two hubs.

Not to be modelled: packet formats, cryptography, device and operating system
interfaces, user interfaces, installers, generated stubs.
