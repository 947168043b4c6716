--------------------------- MODULE HubFdbProofs ---------------------------
(***************************************************************************)
(* What every learning operator of HubFdb does to a table, for all values of  *)
(* the constants: the result is a table again, and an entry of it belongs to  *)
(* its owner before, to the session that sent, or to nobody.                  *)
(***************************************************************************)
EXTENDS HubFdb, TLAPS

\* Learning a source address keeps the MAC table well formed and gives a slot to
\* no session but the sender (the MAC part of StorePacket, Hub.c:4045-4292).
LEMMA LearnMacOwners ==
  ASSUME NEW T \in MacTables, NEW flush \in Nat, NEW s \in Sessions,
         NEW m \in MacAddrs, NEW now \in Nat
  PROVE  /\ LearnMac(T, flush, s, m, now).table \in MacTables
         /\ LearnMac(T, flush, s, m, now).flush \in Nat
         /\ \A k \in Macs : LearnMac(T, flush, s, m, now).table[k].session
                              \in {T[k].session, s, Nobody}
<1> DEFINE e == [session |-> s, updated |-> now]
<1>a. e \in MacEntries /\ e.session = s  BY DEF MacEntries, Owners
<1>b. \A U \in MacTables, k \in Macs : k = m =>
        /\ [U EXCEPT ![m] = e] \in MacTables
        /\ \A n \in Macs : [U EXCEPT ![m] = e][n].session \in {U[n].session, s}
  <2> HIDE DEF e
  <2> QED  BY <1>a DEF MacTables
<1>1. CASE m \notin Macs
  <2>1. LearnMac(T, flush, s, m, now) = [pass |-> FALSE, table |-> T, flush |-> flush]
    BY <1>1 DEF LearnMac
  <2>2. QED  BY <2>1
<1>2. CASE m \in Macs /\ T[m].session = Nobody
  <2> DEFINE due == flush = 0 \/ flush + FlushInterval < now
             U == IF due THEN DeleteExpiredMacTableEntry(T, now) ELSE T
             over == \/ MacLimited(s) /\ Cardinality(MacsOf(U, s)) >= MacLimit(s)
                     \/ Cardinality(MacsUsed(U)) >= MaxMacTables
  <2>1. LearnMac(T, flush, s, m, now) = RegisterMac(T, flush, s, m, now)
    BY <1>2, SessionAssumption DEF LearnMac
  <2>2. RegisterMac(T, flush, s, m, now) =
          [pass  |-> ~over, table |-> IF over THEN U ELSE [U EXCEPT ![m] = e],
           flush |-> IF due THEN now ELSE flush]
    BY DEF RegisterMac
  <2>3. /\ U \in MacTables
        /\ \A k \in Macs : U[k].session \in {T[k].session, Nobody}
    BY LimitAssumption DEF DeleteExpiredMacTableEntry, NoMac, MacTables, MacEntries, Owners
  <2> HIDE DEF U, over, due, e
  <2>4. QED  BY <2>1, <2>2, <2>3, <1>2, <1>b
<1>3. CASE m \in Macs /\ T[m].session = s
  <2>1. LearnMac(T, flush, s, m, now) =
          [pass |-> TRUE, table |-> [T EXCEPT ![m].updated = now], flush |-> flush]
    BY <1>3, SessionAssumption DEF LearnMac, RefreshMac
  <2>2. QED  BY <2>1, <1>3 DEF MacTables, MacEntries
<1>4. CASE m \in Macs /\ T[m].session \notin {s, Nobody}
  <2> DEFINE refused == /\ CheckMacApplies(s) /\ m \notin DLinkMacs
                        /\ T[m].updated + MacExclusiveTime >= now
  <2>1. LearnMac(T, flush, s, m, now) = MoveMac(T, flush, s, m, now)
    BY <1>4 DEF LearnMac
  <2>2. MoveMac(T, flush, s, m, now) =
          [pass |-> ~refused, table |-> IF refused THEN T ELSE [T EXCEPT ![m] = e],
           flush |-> flush]
    BY DEF MoveMac
  <2> HIDE DEF refused, e
  <2>3. QED  BY <2>1, <2>2, <1>4, <1>b
<1>5. QED  BY <1>1, <1>2, <1>3, <1>4

\* Making room in the IP table and inserting an entry frees other slots or leaves
\* them as they are.
LEMMA InsertIpOwners ==
  ASSUME NEW T \in IpTables, NEW i \in Ips, NEW e \in IpEntries, NEW now \in Nat
  PROVE  /\ InsertIp(T, i, e, now) \in IpTables
         /\ \A k \in Ips :
              InsertIp(T, i, e, now)[k].session \in {T[k].session, e.session, Nobody}
<1> USE DEF IpTables, IpEntries, Owners
<1> DEFINE U == DeleteExpiredIpTableEntry(T, now)
           V == IF Cardinality(IpsUsed(U)) >= MaxIpTables
                THEN DeleteOldIpTableEntry(U) ELSE U
<1>1. U \in IpTables /\ \A k \in Ips : U[k].session \in {T[k].session, Nobody}
  BY DEF DeleteExpiredIpTableEntry, NoIpEntry
<1> HIDE DEF U
<1>2. V \in IpTables /\ \A k \in Ips : V[k].session \in {U[k].session, Nobody}
  BY <1>1 DEF DeleteOldIpTableEntry, NoIpEntry
<1>3. InsertIp(T, i, e, now) = [V EXCEPT ![i] = e]
  BY DEF InsertIp, U
<1> HIDE DEF V
<1>4. QED  BY <1>1, <1>2, <1>3

\* Learning the address of an IPv4, ARP or IPv6 packet (Hub.c:4338-4723).
LEMMA LearnIpOwners ==
  ASSUME NEW T \in IpTables, NEW s \in Sessions, NEW p \in Packets, NEW now \in Nat
  PROVE  /\ LearnIp(T, s, p, now).table \in IpTables
         /\ \A k \in Ips :
              LearnIp(T, s, p, now).table[k].session \in {T[k].session, s, Nobody}
<1> USE DEF IpEntries, Owners
<1>1. ASSUME NEW i \in Ips
      PROVE  /\ RegisterIp(T, s, i, now) \in IpTables
             /\ \A k \in Ips :
                  RegisterIp(T, s, i, now)[k].session \in {T[k].session, s, Nobody}
  <2> DEFINE e == [session |-> s, updated |-> now, dhcp |-> FALSE]
  <2>1. e \in IpEntries /\ e.session = s  OBVIOUS
  <2> HIDE DEF e
  <2>2. CASE i \in ManagedIps  BY <2>1, <2>2, InsertIpOwners DEF RegisterIp, e
  <2>3. CASE i \notin ManagedIps  BY <2>3 DEF RegisterIp
  <2>4. QED  BY <2>2, <2>3
<1>2. ASSUME NEW i \in Ips
      PROVE  /\ RefreshIp(T, s, i, now) \in IpTables
             /\ \A k \in Ips :
                  RefreshIp(T, s, i, now)[k].session \in {T[k].session, s}
  BY DEF RefreshIp, IpTables
<1>3. CASE p.kind \in {"ip4", "arp"} /\ p.ip \in Ips4
  <2>1. p.ip \in Ips  BY <1>3 DEF Ips
  <2>2. LearnIp(T, s, p, now) = LearnIp4(T, s, p.ip, now)  BY <1>3 DEF LearnIp
  <2>3. CASE T[p.ip].session = Nobody
    BY <2>1, <2>2, <2>3, <1>1, SessionAssumption DEF LearnIp4
  <2>4. CASE T[p.ip].session = s
    BY <2>1, <2>2, <2>4, <1>2, SessionAssumption DEF LearnIp4
  <2>5. CASE T[p.ip].session \notin {s, Nobody}
    BY <2>1, <2>2, <2>5, <1>2, SessionAssumption DEF LearnIp4
  <2>6. QED  BY <2>3, <2>4, <2>5
<1>4. CASE p.kind \in {"ip6", "ra6"} /\ p.ip \in Ips6
  <2>1. p.ip \in Ips  BY <1>4 DEF Ips
  <2>2. LearnIp(T, s, p, now) = LearnIp6(T, s, p.ip, p.kind = "ra6", now)
    BY <1>4 DEF LearnIp
  <2>3. CASE T[p.ip].session = Nobody
    BY <2>1, <2>2, <2>3, <1>1, SessionAssumption DEF LearnIp6
  <2>4. CASE T[p.ip].session = s
    BY <2>1, <2>2, <2>4, <1>2, SessionAssumption DEF LearnIp6
  <2>5. CASE T[p.ip].session \notin {s, Nobody}
    BY <2>1, <2>2, <2>5, SessionAssumption DEF LearnIp6
  <2>6. QED  BY <2>3, <2>4, <2>5
<1>5. CASE ~(p.kind \in {"ip4", "arp"} /\ p.ip \in Ips4)
           /\ ~(p.kind \in {"ip6", "ra6"} /\ p.ip \in Ips6)
  BY <1>5 DEF LearnIp
<1>6. QED  BY <1>3, <1>4, <1>5

\* Peeking at a DHCP ACK gives the address to a session the MAC table knows
\* (StorePacketFilterByPolicy, Hub.c:5736-5822).
LEMMA SnoopDhcpOwners ==
  ASSUME NEW T \in IpTables, NEW M \in MacTables, NEW p \in Packets, NEW now \in Nat
  PROVE  /\ SnoopDhcp(T, M, p, now) \in IpTables
         /\ \A k \in Ips :
              SnoopDhcp(T, M, p, now)[k].session
                \in {T[k].session, Nobody} \cup {M[m].session : m \in Macs}
<1> DEFINE e == [session |-> M[p.client].session, updated |-> now, dhcp |-> TRUE]
           C == p.kind = "dhcpack" /\ p.ip \in Ips4 /\ M[p.client].session # Nobody
<1>1. p.client \in Macs  BY DEF Packets
<1>2. e \in IpEntries /\ e.session \in {M[m].session : m \in Macs}
  BY <1>1 DEF MacTables, MacEntries, IpEntries
<1> HIDE DEF e
<1>3. CASE ~C  BY <1>3 DEF SnoopDhcp
<1>4. CASE C
  <2>1. p.ip \in Ips  BY <1>4 DEF Ips
  <2>2. CASE T[p.ip].session = Nobody
    <3>1. SnoopDhcp(T, M, p, now) = InsertIp(T, p.ip, e, now)
      BY <1>4, <2>2 DEF SnoopDhcp, e
    <3>2. QED  BY <3>1, <2>1, <1>2, InsertIpOwners
  <2>3. CASE T[p.ip].session # Nobody
    <3>1. SnoopDhcp(T, M, p, now) = [T EXCEPT ![p.ip] = e]
      BY <1>4, <2>3 DEF SnoopDhcp, e
    <3>2. QED  BY <3>1, <2>1, <1>2 DEF IpTables
  <2>4. QED  BY <2>2, <2>3
<1>5. QED  BY <1>3, <1>4

\* HubPaFree leaves no entry of the session behind (Hub.c:3424-3467).
LEMMA ForgetOwners ==
  ASSUME NEW M \in MacTables, NEW T \in IpTables, NEW s \in Sessions
  PROVE  /\ ForgetMacs(M, s) \in MacTables /\ ForgetIps(T, s) \in IpTables
         /\ \A m \in Macs : ForgetMacs(M, s)[m].session \in {M[m].session, Nobody} \ {s}
         /\ \A i \in Ips : ForgetIps(T, s)[i].session \in {T[i].session, Nobody} \ {s}
  BY SessionAssumption
     DEF ForgetMacs, ForgetIps, NoMac, NoIpEntry, MacTables, MacEntries, IpTables,
         IpEntries, Owners
=============================================================================
