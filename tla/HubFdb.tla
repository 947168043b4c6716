------------------------------- MODULE HubFdb -------------------------------
(***************************************************************************)
(* The forwarding database of a Virtual Hub: the MAC address table          *)
(* (hub->MacHashTable) and the IP address table (hub->IpTable), and what     *)
(* StorePacket in Cedar/Hub.c does to them for one packet.  The module has   *)
(* no variables: each operator maps the tables before to the tables after,   *)
(* and HubSwitch applies them while it holds the lock of the MAC table.      *)
(*                                                                           *)
(* A MAC address stands for the pair (address, VLAN id) that keys the hash   *)
(* list.  An IP address is a number whose order is the order CompareIpTable  *)
(* gives the sorted list.                                                    *)
(***************************************************************************)
EXTENDS Naturals, FiniteSets

CONSTANTS
  Sessions,      \* sessions that may be attached to the hub
  Nobody,        \* in a table: a free slot
  Hub,           \* the source of the packets the hub sends itself (s == NULL)
  Macs,          \* MAC addresses of hosts
  HubMac,        \* hub->HubMacAddr
  Bcast,         \* any broadcast or multicast destination (BroadcastPacket)
  Ips4, Ips6,    \* IPv4 and IPv6 unicast addresses
  NoIp,          \* a packet that carries no address to learn
  ManagedIps,    \* the addresses IsIPManagementTargetForHUB accepts
  DLinkMacs,     \* addresses CheckMac exempts as D-Link spanning tree senders
  Policy         \* session -> its policy and mode

CONSTANTS        \* limits and times of Cedar.h and Hub.h
  MacMinLimit, IpMinLimit, IpMinLimitV6, IpLimitNoRoutingV6,
  MaxMacTables, MaxIpTables,
  MacExclusiveTime, MacExpireTime, FlushInterval,
  IpExclusiveTime, IpExpireTime, IpExpireTimeDhcp

Ips == Ips4 \cup Ips6
MacAddrs == Macs \cup {HubMac}

\* "ra6" is an IPv6 packet that is a router message or DHCPv6; "dhcpack" is
\* the answer of a DHCP server, "dhcp" every other DHCPv4 packet.
Kinds == {"ip4", "arp", "ip6", "ra6", "dhcp", "dhcpack", "other"}

Packets == [smac: MacAddrs, dmac: MacAddrs \cup {Bcast}, kind: Kinds,
            ip: Ips \cup {NoIp}, client: Macs]

\* filter: the kinds of packet the policy of a destination refuses
\* (RSandRAFilter, DHCPFilter, FilterIPv4, ...); bcastFilter: the kinds it
\* refuses when they are broadcast (ArpDhcpOnly).
Policies ==
  [MonitorPort: BOOLEAN, NoBridge: BOOLEAN, MaxMac: Nat, OpenVPNL3: BOOLEAN,
   CheckMac: BOOLEAN, BridgeMode: BOOLEAN, NoRouting: BOOLEAN, MaxIP: Nat, CheckIP: BOOLEAN,
   DHCPForce: BOOLEAN, NoRoutingV6: BOOLEAN, MaxIPv6: Nat, CheckIPv6: BOOLEAN,
   PrivacyFilter: BOOLEAN, filter: SUBSET Kinds, bcastFilter: SUBSET Kinds]

ASSUME SessionAssumption ==
  /\ Nobody \notin Sessions /\ Hub \notin Sessions /\ Hub # Nobody
ASSUME AddressAssumption ==
  /\ HubMac \notin Macs /\ Bcast \notin MacAddrs /\ NoIp \notin Ips
  /\ Ips \subseteq Nat /\ Ips4 \cap Ips6 = {}
  /\ ManagedIps \subseteq Ips /\ DLinkMacs \subseteq Macs
ASSUME PolicyAssumption == Policy \in [Sessions -> Policies]
ASSUME LimitAssumption ==
  /\ {MacMinLimit, IpMinLimit, IpMinLimitV6, IpLimitNoRoutingV6,
      MacExclusiveTime, MacExpireTime, FlushInterval, IpExclusiveTime,
      IpExpireTime, IpExpireTimeDhcp} \subseteq Nat
  /\ {MaxMacTables, MaxIpTables} \subseteq Nat \ {0}

Owners == Sessions \cup {Nobody}
MacEntries == [session: Owners, updated: Nat]
IpEntries == [session: Owners, updated: Nat, dhcp: BOOLEAN]
MacTables == [Macs -> MacEntries]
IpTables == [Ips -> IpEntries]

NoMac == [session |-> Nobody, updated |-> 0]
NoIpEntry == [session |-> Nobody, updated |-> 0, dhcp |-> FALSE]

MacsOf(T, s) == {m \in Macs : T[m].session = s}
IpsOf(T, s, A) == {i \in A : T[i].session = s}
MacsUsed(T) == {m \in Macs : T[m].session # Nobody}
IpsUsed(T) == {i \in Ips : T[i].session # Nobody}

Smaller(a, b) == IF a < b THEN a ELSE b
Greater(a, b) == IF a > b THEN a ELSE b

-----------------------------------------------------------------------------
(* The MAC address table *)

MacLimited(s) ==
  (Policy[s].MaxMac # 0 \/ Policy[s].NoBridge) /\ ~Policy[s].OpenVPNL3

\* limited_count: NoBridge asks for the minimum, MaxMac is raised to it.
MacLimit(s) ==
  IF Policy[s].NoBridge THEN MacMinLimit ELSE Greater(Policy[s].MaxMac, MacMinLimit)

\* A local bridge session is checked whatever its policy says.
CheckMacApplies(s) == Policy[s].CheckMac \/ Policy[s].BridgeMode

DeleteExpiredMacTableEntry(T, now) ==
  [m \in Macs |-> IF T[m].updated + MacExpireTime <= now THEN NoMac ELSE T[m]]

\* Mutant: the limit of the session may be passed by one.
RegisterMacOneMore(T, flush, s, m, now) ==
  LET due  == flush = 0 \/ flush + FlushInterval < now
      U    == IF due THEN DeleteExpiredMacTableEntry(T, now) ELSE T
      over == \/ MacLimited(s) /\ Cardinality(MacsOf(U, s)) > MacLimit(s)
              \/ Cardinality(MacsUsed(U)) >= MaxMacTables
  IN [pass  |-> ~over,
      table |-> IF over THEN U ELSE [U EXCEPT ![m] = [session |-> s, updated |-> now]],
      flush |-> IF due THEN now ELSE flush]

\* The source address of a packet is not in the table: flush the old entries
\* (at most once per interval), then register it if the limits allow.
RegisterMac(T, flush, s, m, now) ==
  LET due  == flush = 0 \/ flush + FlushInterval < now
      U    == IF due THEN DeleteExpiredMacTableEntry(T, now) ELSE T
      over == \/ MacLimited(s) /\ Cardinality(MacsOf(U, s)) >= MacLimit(s)
              \/ Cardinality(MacsUsed(U)) >= MaxMacTables
  IN [pass  |-> ~over,
      table |-> IF over THEN U ELSE [U EXCEPT ![m] = [session |-> s, updated |-> now]],
      flush |-> IF due THEN now ELSE flush]

\* Mutant: the last moment of the exclusive time is not protected any more.
MoveMacAtOnce(T, flush, s, m, now) ==
  LET refused == CheckMacApplies(s) /\ T[m].updated + MacExclusiveTime > now
  IN [pass  |-> ~refused,
      table |-> IF refused THEN T ELSE [T EXCEPT ![m] = [session |-> s, updated |-> now]],
      flush |-> flush]

\* It is in the table, owned by another session: a checked session may take it
\* only when the owner has been silent for the exclusive time.
MoveMac(T, flush, s, m, now) ==
  LET refused == /\ CheckMacApplies(s) /\ m \notin DLinkMacs
                 /\ T[m].updated + MacExclusiveTime >= now
  IN [pass  |-> ~refused,
      table |-> IF refused THEN T ELSE [T EXCEPT ![m] = [session |-> s, updated |-> now]],
      flush |-> flush]

RefreshMac(T, flush, s, m, now) ==
  [pass |-> TRUE, table |-> [T EXCEPT ![m].updated = now], flush |-> flush]

LearnMac(T, flush, s, m, now) ==
  IF m \notin Macs THEN [pass |-> FALSE, table |-> T, flush |-> flush] \* the hub's own
  ELSE CASE T[m].session = Nobody -> RegisterMac(T, flush, s, m, now)
         [] T[m].session = s      -> RefreshMac(T, flush, s, m, now)
         [] OTHER                 -> MoveMac(T, flush, s, m, now)

-----------------------------------------------------------------------------
(* The IP address table *)

DeleteExpiredIpTableEntry(T, now) ==
  [i \in Ips |->
     IF T[i].updated + (IF T[i].dhcp THEN IpExpireTimeDhcp ELSE IpExpireTime) <= now
     THEN NoIpEntry ELSE T[i]]

\* The loop of the code leaves "old" at the last entry of the sorted list.
DeleteOldIpTableEntry(T) ==
  [i \in Ips |-> IF \A j \in IpsUsed(T) : j <= i THEN NoIpEntry ELSE T[i]]

\* Mutant: no room is made in a full table.
InsertIpAlways(T, i, e, now) == [DeleteExpiredIpTableEntry(T, now) EXCEPT ![i] = e]

InsertIp(T, i, e, now) ==
  LET U == DeleteExpiredIpTableEntry(T, now)
      V == IF Cardinality(IpsUsed(U)) >= MaxIpTables THEN DeleteOldIpTableEntry(U) ELSE U
  IN [V EXCEPT ![i] = e]

RegisterIp(T, s, i, now) ==
  IF i \in ManagedIps
  THEN InsertIp(T, i, [session |-> s, updated |-> now, dhcp |-> FALSE], now)
  ELSE T

RefreshIp(T, s, i, now) == [T EXCEPT ![i].session = s, ![i].updated = now]

IpLimited(s) == Policy[s].NoRouting \/ Policy[s].MaxIP # 0
IpLimit(s) ==
  IF Policy[s].NoRouting THEN IpMinLimit ELSE Greater(Policy[s].MaxIP, IpMinLimit)

LearnIp4(T, s, i, now) ==
  CASE T[i].session = Nobody ->
         LET over == \/ Policy[s].DHCPForce
                     \/ IpLimited(s) /\ Cardinality(IpsOf(T, s, Ips4)) >= IpLimit(s)
         IN [pass |-> ~over, table |-> IF over THEN T ELSE RegisterIp(T, s, i, now)]
    [] T[i].session = s -> [pass |-> TRUE, table |-> RefreshIp(T, s, i, now)]
    [] OTHER ->
         LET refused ==
               \/ /\ Policy[s].CheckIP \/ Policy[s].DHCPForce
                  /\ T[i].updated + IpExclusiveTime >= now
               \/ Policy[s].DHCPForce /\ ~T[i].dhcp
         IN [pass |-> ~refused, table |-> IF refused THEN T ELSE RefreshIp(T, s, i, now)]

IpLimitedV6(s) == Policy[s].NoRoutingV6 \/ Policy[s].MaxIPv6 # 0
IpLimitV6(s) ==
  Greater(IpMinLimitV6,
          CASE Policy[s].MaxIPv6 = 0      -> IpLimitNoRoutingV6
            [] ~Policy[s].NoRoutingV6     -> Policy[s].MaxIPv6
            [] OTHER -> Smaller(IpLimitNoRoutingV6, Policy[s].MaxIPv6))

\* An address of another session is left with it, unlike in IPv4.
LearnIp6(T, s, i, ra, now) ==
  CASE T[i].session = Nobody ->
         LET over == ~ra /\ IpLimitedV6(s) /\ Cardinality(IpsOf(T, s, Ips6)) >= IpLimitV6(s)
         IN [pass |-> ~over, table |-> IF over THEN T ELSE RegisterIp(T, s, i, now)]
    [] T[i].session = s -> [pass |-> TRUE, table |-> RefreshIp(T, s, i, now)]
    [] OTHER -> [pass  |-> ~(/\ Policy[s].CheckIPv6
                             /\ T[i].updated + IpExclusiveTime >= now),
                 table |-> T]

LearnIp(T, s, p, now) ==
  CASE p.kind \in {"ip4", "arp"} /\ p.ip \in Ips4 -> LearnIp4(T, s, p.ip, now)
    [] p.kind \in {"ip6", "ra6"} /\ p.ip \in Ips6 ->
         LearnIp6(T, s, p.ip, p.kind = "ra6", now)
    [] OTHER -> [pass |-> TRUE, table |-> T]

\* Mutant: the address is not marked as given out by DHCP.
SnoopUnmarked(T, M, p, now) ==
  IF p.kind = "dhcpack" /\ p.ip \in Ips4 /\ M[p.client].session # Nobody
  THEN [T EXCEPT ![p.ip].session = M[p.client].session, ![p.ip].updated = now]
  ELSE T

\* StorePacketFilterByPolicy peeks at a DHCP ACK: the address given belongs to
\* the session of the client, if the MAC table knows the client.
SnoopDhcp(T, M, p, now) ==
  IF p.kind = "dhcpack" /\ p.ip \in Ips4 /\ M[p.client].session # Nobody
  THEN LET e == [session |-> M[p.client].session, updated |-> now, dhcp |-> TRUE]
       IN IF T[p.ip].session = Nobody THEN InsertIp(T, p.ip, e, now)
          ELSE [T EXCEPT ![p.ip] = e]
  ELSE T

\* HubPaFree erases the entries of the session.
ForgetMacs(T, s) == [m \in Macs |-> IF T[m].session = s THEN NoMac ELSE T[m]]
ForgetNoIps(T, s) == T   \* mutant: the IP address table is forgotten
ForgetIps(T, s) == [i \in Ips |-> IF T[i].session = s THEN NoIpEntry ELSE T[i]]
=============================================================================
